------------------------------- MODULE Room -------------------------------
(***************************************************************************)
(* One planning-poker room (src/internal/room/room.go).  Every exported    *)
(* method of Room holds r.mu from its first read to its last write, so a   *)
(* method is one action here.  A method that returns an error changes      *)
(* nothing but lastActive, which RoomStore models, and is no action.       *)
(*                                                                         *)
(* Kept: who is in the room, the round, the blind ballots, the published   *)
(* results, the history ring, the settlement, the reaction cooldown, and   *)
(* the events the last method handed to its subscribers.  Left out: names, *)
(* subjects, rationales, time stamps and statistics, which no guard reads. *)
(* An optional value (a nil pointer in Go) is a set of at most one element.*)
(***************************************************************************)
EXTENDS Integers, Sequences, FiniteSets, Maps

CONSTANTS
  Pids,             \* participant identifiers newParticipantID may draw
  Kinds,            \* the kinds Join accepts
  Deck,             \* the values a vote or a settlement may take
  MaxParticipants,  \* MaxParticipants in room.go
  HistoryLen,       \* HistoryLen in room.go
  MaxRevision       \* bound of the model: the last event number a room reaches

Observer == "observer"

ASSUME RoomAssumption ==
  /\ Kinds \subseteq {"human", "agent", Observer}
  /\ MaxParticipants \in Nat
  /\ HistoryLen \in Nat \ {0}
  /\ MaxRevision \in Nat

VARIABLES
  autoReveal,  \* Room.autoReveal, chosen when the room is created
  kind,        \* Room.participants: present participants to their kinds
  seq,         \* round.seq
  phase,       \* round.state
  votes,       \* round.votes: participants to values
  results,     \* round.results: nil, or the revealed ballots
  history,     \* Room.history
  settled,     \* Room.settled: nil, or the settlement
  cooling,     \* participants whose lastReaction is less than the cooldown ago
  closed,      \* Room.closed
  eventSeq,    \* Room.eventSeq
  outbox       \* the events the last method passed to fanoutLocked

round == <<seq, phase, votes, results>>
vars == <<autoReveal, kind, round, history, settled, cooling, closed,
          eventSeq, outbox>>

Voting == "voting"
Revealed == "revealed"

---------------------------------------------------------------------------
(* Who is here, and what a snapshot shows of them.                         *)

Present == DOMAIN kind
Voters == {p \in Present : kind[p] # Observer}

\* allVotedLocked: a room without voters never reveals by itself.
AllVoted == Voters # {} /\ Voters \subseteq DOMAIN votes

\* buildResultsLocked walks the participants, not the ballots.
BuildResults == Restrict(votes, DOMAIN votes \cap Present)

\* A RoundSummary of the current round.
Summary(ballots, called) == [seq |-> seq, votes |-> ballots, called |-> called]

\* A snapshot with the given revision, phase and results.
SnapshotOf(revision, state, shown) ==
  [revision |-> revision,
   seq      |-> seq,
   phase    |-> state,
   members  |-> kind,
   hasVoted |-> Present \cap DOMAIN votes,
   cast     |-> Cardinality(DOMAIN votes),
   results  |-> shown,
   history  |-> history,
   settled  |-> settled]

\* Mutant: the results so far are shown while the round is open.
SnapshotEager == SnapshotOf(eventSeq, phase, {BuildResults})
\* snapshotLocked: of the ballots only who has voted, until the reveal.
Snapshot ==
  SnapshotOf(eventSeq, phase, IF phase = Revealed THEN results ELSE {})

\* What a snapshot was one event ago, before the reveal.
SnapshotBeforeReveal == SnapshotOf(eventSeq - 1, Voting, {})

---------------------------------------------------------------------------
(* fanoutLocked numbers the events; broadcastLocked puts a snapshot of the *)
(* state at that moment in each.                                           *)

Event(id, name, state) == [id |-> id, name |-> name, state |-> state]

\* Mutant: the snapshot is taken before the change.
BroadcastStale(name) ==
  /\ eventSeq < MaxRevision
  /\ eventSeq' = eventSeq + 1
  /\ outbox' = {Event(eventSeq', name, {[Snapshot EXCEPT !.revision = eventSeq']})}
Broadcast(name) ==
  /\ eventSeq < MaxRevision
  /\ eventSeq' = eventSeq + 1
  /\ outbox' = {Event(eventSeq', name, {Snapshot'})}

\* A broadcast, then revealLocked under the same lock.
BroadcastAndReveal(name) ==
  /\ eventSeq + 1 < MaxRevision
  /\ eventSeq' = eventSeq + 2
  /\ phase' = Revealed
  /\ results' = {BuildResults'}
  /\ outbox' = {Event(eventSeq + 1, name, {SnapshotBeforeReveal'}),
                Event(eventSeq + 2, Revealed, {Snapshot'})}

\* The tail of CastVote and Leave: announce, and reveal if that was the last
\* ballot missing.
BroadcastMaybeReveal(name) ==
  \/ /\ phase = Voting /\ autoReveal /\ AllVoted'
     /\ BroadcastAndReveal(name)
  \/ /\ ~(phase = Voting /\ autoReveal /\ AllVoted')
     /\ UNCHANGED <<phase, results>>
     /\ Broadcast(name)

---------------------------------------------------------------------------
(* What the methods accept: the early returns of each.  A bearer token is  *)
(* the participant it authenticates (authLocked).                          *)

\* Mutant: the cap is checked after the participant is added.
CanJoinOverCap(p) ==
  ~closed /\ p \notin Present /\ Cardinality(Present) <= MaxParticipants
\* The identifier is fresh among the participants present; a departed one
\* may come back.
CanJoin(p) ==
  ~closed /\ p \notin Present /\ Cardinality(Present) < MaxParticipants

\* Mutant: the round may already be revealed.
CanVoteLate(p, v) == ~closed /\ p \in Voters /\ v \in Deck
\* Mutant: voting for the same value again is refused.
CanVoteChanged(p, v) ==
  /\ ~closed /\ p \in Voters /\ phase = Voting /\ v \in Deck
  /\ p \in DOMAIN votes => votes[p] # v
CanVote(p, v) == ~closed /\ p \in Voters /\ phase = Voting /\ v \in Deck

\* Mutant: a revealed round may be revealed again.
CanRevealAgain(p) == ~closed /\ p \in Present
CanReveal(p) == ~closed /\ p \in Present /\ phase = Voting

CanStartRound(p) == ~closed /\ p \in Present /\ phase = Revealed
CanLeave(p) == ~closed /\ p \in Present
CanSettle(p, v) == ~closed /\ p \in Present /\ v \in Deck /\ phase = Revealed

\* Mutant: a closed room still passes reactions on.
CanReactLate(p) == p \in Present \ cooling
\* At most one reaction per cooldown.
CanReact(p) == ~closed /\ p \in Present \ cooling

---------------------------------------------------------------------------
(* The methods of Room.                                                    *)

Init ==
  /\ autoReveal \in BOOLEAN
  /\ kind = <<>>
  /\ seq = 1
  /\ phase = Voting
  /\ votes = <<>>
  /\ results = {}
  /\ history = <<>>
  /\ settled = {}
  /\ cooling = {}
  /\ closed = FALSE
  /\ eventSeq = 0
  /\ outbox = {}

Join(p, k) ==
  /\ CanJoin(p)
  /\ kind' = Assign(kind, p, k)
  /\ UNCHANGED <<autoReveal, round, history, settled, cooling, closed>>
  /\ Broadcast("joined")

\* A second vote replaces the first.
CastVote(p, v) ==
  /\ CanVote(p, v)
  /\ votes' = Assign(votes, p, v)
  /\ UNCHANGED <<autoReveal, kind, seq, history, settled, cooling, closed>>
  /\ BroadcastMaybeReveal("voted")

Reveal(p) ==
  /\ CanReveal(p)
  /\ phase' = Revealed
  /\ results' = {BuildResults}
  /\ UNCHANGED <<autoReveal, kind, seq, votes, history, settled, cooling, closed>>
  /\ Broadcast("revealed")

\* Mutant: the ring is trimmed one summary too early.
ArchiveShort(summary) ==
  LET all == Append(history, summary)
  IN  IF Len(all) >= HistoryLen THEN Tail(all) ELSE all
\* The history ring keeps the last HistoryLen summaries.
Archive(summary) ==
  LET all == Append(history, summary)
  IN  IF Len(all) > HistoryLen THEN Tail(all) ELSE all

\* Mutant: the settlement outlives the round it concluded.
StartRoundStillSettled(p) ==
  /\ CanStartRound(p)
  /\ \E ballots \in results :
       history' = Archive(Summary(ballots, {s.value : s \in settled}))
  /\ seq' = seq + 1
  /\ phase' = Voting
  /\ votes' = <<>>
  /\ results' = {}
  /\ UNCHANGED <<autoReveal, kind, settled, cooling, closed>>
  /\ Broadcast("round_started")

\* Mutant: the settlement is cleared before the round is archived.
StartRoundForgetful(p) ==
  /\ CanStartRound(p)
  /\ \E ballots \in results : history' = Archive(Summary(ballots, {}))
  /\ settled' = {}
  /\ seq' = seq + 1
  /\ phase' = Voting
  /\ votes' = <<>>
  /\ results' = {}
  /\ UNCHANGED <<autoReveal, kind, cooling, closed>>
  /\ Broadcast("round_started")

\* The settlement is archived with the round it concluded.
StartRound(p) ==
  /\ CanStartRound(p)
  /\ \E ballots \in results :
       history' = Archive(Summary(ballots, {s.value : s \in settled}))
  /\ settled' = {}
  /\ seq' = seq + 1
  /\ phase' = Voting
  /\ votes' = <<>>
  /\ results' = {}
  /\ UNCHANGED <<autoReveal, kind, cooling, closed>>
  /\ Broadcast("round_started")

\* Mutant: the ballot stays behind.
LeaveBallotBehind(p) ==
  /\ CanLeave(p)
  /\ kind' = Without(kind, p)
  /\ cooling' = cooling \ {p}
  /\ UNCHANGED <<autoReveal, seq, votes, history, settled, closed>>
  /\ BroadcastMaybeReveal("left")

\* Mutant: a departure does not trigger the automatic reveal.
LeaveQuietly(p) ==
  /\ CanLeave(p)
  /\ kind' = Without(kind, p)
  /\ cooling' = cooling \ {p}
  /\ votes' = IF phase = Voting THEN Without(votes, p) ELSE votes
  /\ UNCHANGED <<autoReveal, seq, phase, results, history, settled, closed>>
  /\ Broadcast("left")

\* A blind ballot leaves with its voter, a revealed one stays.
Leave(p) ==
  /\ CanLeave(p)
  /\ kind' = Without(kind, p)
  /\ cooling' = cooling \ {p}
  /\ votes' = IF phase = Voting THEN Without(votes, p) ELSE votes
  /\ UNCHANGED <<autoReveal, seq, history, settled, closed>>
  /\ BroadcastMaybeReveal("left")

\* A reaction is an event without a snapshot.
React(p) ==
  /\ CanReact(p)
  /\ cooling' = cooling \cup {p}
  /\ eventSeq < MaxRevision
  /\ eventSeq' = eventSeq + 1
  /\ outbox' = {Event(eventSeq', "reaction", {})}
  /\ UNCHANGED <<autoReveal, kind, round, history, settled, closed>>

\* The cooldown of p passes.
Cool(p) ==
  /\ p \in cooling
  /\ cooling' = cooling \ {p}
  /\ outbox' = {}
  /\ UNCHANGED <<autoReveal, kind, round, history, settled, closed, eventSeq>>

\* The awards are a function of the value and of the rounds retained now.
Settle(p, v) ==
  /\ CanSettle(p, v)
  /\ settled' = {[value |-> v, basis |-> Append(history, Summary(ballots, {}))]
                   : ballots \in results}
  /\ UNCHANGED <<autoReveal, kind, round, history, cooling, closed>>
  /\ Broadcast("settled")

\* The sweep of RoomStore closes the room: the channels close, no event.
Close ==
  /\ ~closed
  /\ closed' = TRUE
  /\ outbox' = {}
  /\ UNCHANGED <<autoReveal, kind, round, history, settled, cooling, eventSeq>>

Next ==
  \/ \E p \in Pids :
       \/ \E k \in Kinds : Join(p, k)
       \/ \E v \in Deck : CastVote(p, v) \/ Settle(p, v)
       \/ Reveal(p) \/ StartRound(p) \/ Leave(p) \/ React(p) \/ Cool(p)
  \/ Close

Spec == Init /\ [][Next]_vars

---------------------------------------------------------------------------
(* Properties.                                                             *)

Ballots == PartialFns(Pids, Deck)
Summaries == [seq : Nat, votes : Ballots, called : SUBSET Deck]

\* Every variable keeps its type, and the room and its ring their limits.
TypeOK ==
  /\ autoReveal \in BOOLEAN
  /\ kind \in PartialFns(Pids, Kinds)
  /\ IsFiniteSet(Present)
  /\ Cardinality(Present) <= MaxParticipants
  /\ seq \in Nat \ {0}
  /\ phase \in {Voting, Revealed}
  /\ votes \in Ballots
  /\ results \subseteq Ballots
  /\ history \in Seq(Summaries)
  /\ Len(history) <= HistoryLen
  /\ settled \subseteq [value : Deck, basis : Seq(Summaries)]
  /\ cooling \subseteq Present
  /\ closed \in BOOLEAN
  /\ eventSeq \in 0..MaxRevision

\* While voting is open every ballot belongs to a voter who is still here,
\* whatever the order of joins, votes and departures (CastVote, Leave).
VotesBelongToVoters == phase = Voting => DOMAIN votes \subseteq Voters

\* An auto-reveal room never sits blind with nobody left to wait for: the
\* last vote and the departure of the last holdout both reveal.
NoMissedAutoReveal ==
  autoReveal /\ phase = Voting /\ Voters # {}
    => \E p \in Voters : p \notin DOMAIN votes

\* What a reveal publishes is every ballot of the round, no more and no
\* less, although it is built from the participants then present; and
\* nothing is published before.
ResultsAreTheBallots ==
  results = IF phase = Revealed THEN {votes} ELSE {}

\* A settlement concludes the current, revealed round, and its awards come
\* from the rounds a snapshot shows beside it (Settle, StartRound).
SettlementIsCurrent ==
  settled # {} =>
    /\ phase = Revealed
    /\ \E v \in Deck :
         settled = {[value |-> v, basis |-> Append(history, Summary(votes, {}))]}

\* The ring holds exactly the last HistoryLen finished rounds, in order.
HistoryIsRecent ==
  /\ Len(history) = IF seq - 1 < HistoryLen THEN seq - 1 ELSE HistoryLen
  /\ \A i \in DOMAIN history : history[i].seq = seq - 1 - Len(history) + i

\* What is public of the ballots of round n.
PublicBallots(n) ==
  {h.votes : h \in {history[i] : i \in {j \in DOMAIN history : history[j].seq = n}}}
    \cup (IF seq = n THEN results ELSE {})

\* The ballots of a revealed round never change again, neither while the
\* round is on display nor when it is archived: they can only fall off the
\* ring (Reveal, Leave, StartRound).
RevealIsFinal ==
  [][\A n \in 1..seq : PublicBallots(n) # {} =>
       \/ PublicBallots(n)' = PublicBallots(n)
       \/ PublicBallots(n)' = {} /\ n <= seq' - 1 - HistoryLen]_vars

\* The verdict of a round leaves the display only by a new verdict on the
\* same round or into the summary of that round (Settle, StartRound).
VerdictIsKept ==
  [][\A s \in settled : settled' = {} =>
       /\ history' # <<>>
       /\ history'[Len(history')].seq = seq
       /\ history'[Len(history')].called = {s.value}]_vars

\* Subscribers miss nothing: a step that changes what a snapshot shows
\* publishes events with consecutive numbers, the last of which carries
\* exactly the snapshot a reader gets from then on (broadcastLocked).
ChangesArePublished ==
  [][/\ {e.id : e \in outbox'} = (eventSeq + 1)..eventSeq'
     /\ [Snapshot' EXCEPT !.revision = eventSeq] # Snapshot =>
          \E e \in outbox' : e.id = eventSeq' /\ e.state = {Snapshot'}]_vars

---------------------------------------------------------------------------
\* The watcher's part of an event.
PublicEvent(e) ==
  [id    |-> e.id,
   state |-> {[revision |-> t.revision, seq |-> t.seq, phase |-> t.phase]
                : t \in e.state}]

Feed == INSTANCE RoomFeed WITH outbox <- {PublicEvent(e) : e \in outbox}

\* The room keeps the promises of RoomFeed: with the guards, the double event
\* of an automatic reveal and the reactions of the code, a watcher sees rounds
\* in order and never one that is blind again after its reveal.
FeedSpec == Feed!Spec
===========================================================================
