---------------------------- MODULE RoomProofs ----------------------------
(***************************************************************************)
(* Theorems about Room, for every set of participants and values, every    *)
(* limit and every length of the history ring; the last ones are about two *)
(* rooms that cannot be told apart (RoomBlind).                            *)
(***************************************************************************)
EXTENDS RoomBlind, DataTheorems

---------------------------------------------------------------------------
(* The operators of the room.                                              *)

\* What the history ring holds after a summary is archived: the summary at
\* the end, before it the previous ones, without the oldest of a full ring.
LEMMA ArchiveKeepsRecent ==
  ASSUME HistoryLen \in Nat \ {0}, NEW S, NEW s \in S,
         history \in Seq(S), Len(history) <= HistoryLen
  PROVE  /\ Archive(s) \in Seq(S)
         /\ Len(Archive(s)) = IF Len(history) < HistoryLen
                              THEN Len(history) + 1 ELSE HistoryLen
         /\ Archive(s)[Len(Archive(s))] = s
         /\ \A i \in 1..(Len(Archive(s)) - 1) :
              Archive(s)[i] = history[Len(history) - Len(Archive(s)) + 1 + i]
<1>. DEFINE all == Append(history, s)
<1>1. /\ all \in Seq(S)
      /\ Len(all) = Len(history) + 1
      /\ all[Len(all)] = s
      /\ \A i \in 1..Len(history) : all[i] = history[i]
  OBVIOUS
<1>2. CASE Len(history) < HistoryLen
  <2>1. Archive(s) = all
    BY <1>1, <1>2 DEF Archive
  <2>. QED
    BY <2>1, <1>1, <1>2
<1>3. CASE Len(history) = HistoryLen
  <2>1. Archive(s) = Tail(all)
    BY <1>1, <1>3 DEF Archive
  <2>2. /\ Tail(all) \in Seq(S)
        /\ Len(Tail(all)) = HistoryLen
        /\ \A i \in 1..HistoryLen : Tail(all)[i] = all[i + 1]
    BY <1>1, <1>3
  <2>3. all[HistoryLen + 1] = s
    BY <1>1, <1>3
  <2>4. \A i \in 1..(HistoryLen - 1) : all[i + 1] = history[i + 1]
    BY <1>1, <1>3
  <2>. HIDE DEF all
  <2>5. Archive(s)[HistoryLen] = s
    BY <2>1, <2>2, <2>3
  <2>6. \A i \in 1..(HistoryLen - 1) : Archive(s)[i] = history[i + 1]
    BY <2>1, <2>2, <2>4
  <2>. QED
    BY <2>1, <2>2, <2>5, <2>6, <1>3
<1>4. Len(history) \in Nat
  OBVIOUS
<1>. QED
  BY <1>2, <1>3, <1>4

\* A summary of the current round is a summary.
LEMMA SummaryType ==
  ASSUME TypeOK, NEW ballots \in results, NEW called \in SUBSET Deck
  PROVE  Summary(ballots, called) \in Summaries
<1>1. seq \in Nat /\ ballots \in Ballots
  BY DEF TypeOK
<1>. QED
  BY <1>1 DEF Summary, Summaries

\* The ballots a reveal publishes are a map of ballots.
LEMMA BuildResultsType ==
  ASSUME votes \in Ballots
  PROVE  BuildResults \in Ballots
<1>1. DOMAIN votes \cap Present \in SUBSET DOMAIN votes
  OBVIOUS
<1>. QED
  BY <1>1, RestrictType DEF BuildResults, Ballots

---------------------------------------------------------------------------
(* Type correctness.                                                       *)

\* A new room is well typed.
LEMMA InitTypeOK == Init => TypeOK
<1>. SUFFICES ASSUME Init PROVE TypeOK
  OBVIOUS
<1>1. kind \in PartialFns(Pids, Kinds) /\ votes \in Ballots /\ Present = {}
  BY EmptyMap DEF Init, Ballots, Present
<1>2. IsFiniteSet(Present) /\ Cardinality(Present) = 0
  BY <1>1, FS_EmptySet
<1>3. history \in Seq(Summaries) /\ Len(history) = 0
  BY DEF Init
<1>4. /\ results \subseteq Ballots
      /\ settled \subseteq [value : Deck, basis : Seq(Summaries)]
  BY DEF Init
<1>5. seq \in Nat \ {0} /\ eventSeq \in 0..MaxRevision
  BY RoomAssumption DEF Init
<1>6. Cardinality(Present) <= MaxParticipants /\ Len(history) <= HistoryLen
  BY <1>2, <1>3, RoomAssumption
<1>7. autoReveal \in BOOLEAN /\ closed \in BOOLEAN
  BY DEF Init
<1>8. phase \in {Voting, Revealed} /\ cooling \subseteq Present
  BY DEF Init
<1>. QED
  BY <1>1, <1>2, <1>3, <1>4, <1>5, <1>6, <1>7, <1>8 DEF TypeOK

\* One announcement moves the event number within the bound.
LEMMA BroadcastType ==
  ASSUME TypeOK, NEW name, Broadcast(name)
  PROVE  eventSeq' \in 0..MaxRevision
BY RoomAssumption DEF TypeOK, Broadcast

\* The announcement that may reveal keeps the round and the event number
\* well typed when the new ballots are.
LEMMA BroadcastMaybeRevealType ==
  ASSUME TypeOK, NEW name, votes' \in Ballots,
         BroadcastMaybeReveal(name)
  PROVE  /\ eventSeq' \in 0..MaxRevision
         /\ phase' \in {Voting, Revealed}
         /\ results' \subseteq Ballots
<1>1. CASE BroadcastAndReveal(name)
  <2>1. BuildResults' \in Ballots
    BY RestrictType DEF BuildResults, Ballots
  <2>. QED
    BY <2>1, <1>1, RoomAssumption DEF BroadcastAndReveal, TypeOK
<1>2. CASE Broadcast(name) /\ UNCHANGED <<phase, results>>
  BY <1>2, BroadcastType DEF TypeOK
<1>. QED
  BY <1>1, <1>2 DEF BroadcastMaybeReveal

\* Joining keeps the room well typed and within its limit.
LEMMA JoinTypeOK ==
  ASSUME TypeOK, NEW p \in Pids, NEW k \in Kinds, Join(p, k)
  PROVE  TypeOK'
<1>1. kind' \in PartialFns(Pids, Kinds) /\ Present' = Present \cup {p}
  <2>1. kind \in PartialFns(Pids, Kinds) /\ kind' = Assign(kind, p, k)
    BY DEF Join, TypeOK
  <2>2. kind' \in PartialFns(Pids, Kinds) /\ DOMAIN kind' = DOMAIN kind \cup {p}
    BY <2>1 DEF Assign, PartialFns
  <2>. QED
    BY <2>2 DEF Present
<1>2. /\ IsFiniteSet(Present')
      /\ Cardinality(Present') = Cardinality(Present) + 1
      /\ Cardinality(Present) \in Nat
  BY <1>1, FS_AddElement, FS_CardinalityType DEF Join, CanJoin, TypeOK
<1>3. Cardinality(Present') <= MaxParticipants
  BY <1>2, RoomAssumption DEF Join, CanJoin
<1>4. eventSeq' \in 0..MaxRevision
  BY BroadcastType DEF Join
<1>5. cooling' \subseteq Present'
  BY <1>1 DEF Join, TypeOK
<1>. QED
  BY <1>1, <1>2, <1>3, <1>4, <1>5 DEF Join, TypeOK, round, Ballots

\* Voting keeps the room well typed.
LEMMA CastVoteTypeOK ==
  ASSUME TypeOK, NEW p \in Pids, NEW v \in Deck, CastVote(p, v)
  PROVE  TypeOK'
<1>1. votes' \in Ballots
  BY AssignType DEF CastVote, TypeOK, Ballots
<1>2. /\ eventSeq' \in 0..MaxRevision
      /\ phase' \in {Voting, Revealed}
      /\ results' \subseteq Ballots
  BY <1>1, BroadcastMaybeRevealType DEF CastVote
<1>. QED
  BY <1>1, <1>2 DEF CastVote, TypeOK, Present, Ballots

\* Revealing keeps the room well typed.
LEMMA RevealTypeOK ==
  ASSUME TypeOK, NEW p \in Pids, Reveal(p)
  PROVE  TypeOK'
<1>1. results' \subseteq Ballots
  BY BuildResultsType DEF Reveal, TypeOK
<1>2. eventSeq' \in 0..MaxRevision
  BY BroadcastType DEF Reveal
<1>. QED
  BY <1>1, <1>2 DEF Reveal, TypeOK, Present, Ballots

\* A new round keeps the room well typed and the ring within its length.
LEMMA StartRoundTypeOK ==
  ASSUME TypeOK, NEW p \in Pids, StartRound(p)
  PROVE  TypeOK'
<1>1. PICK ballots \in results :
        history' = Archive(Summary(ballots, {s.value : s \in settled}))
  BY DEF StartRound
<1>2. {s.value : s \in settled} \in SUBSET Deck
  BY DEF TypeOK
<1>3. Summary(ballots, {s.value : s \in settled}) \in Summaries
  BY <1>2, SummaryType
<1>4. history' \in Seq(Summaries) /\ Len(history') <= HistoryLen
  BY <1>1, <1>3, ArchiveKeepsRecent, RoomAssumption DEF TypeOK
<1>5. votes' \in Ballots
  BY EmptyMap DEF StartRound, Ballots
<1>6. eventSeq' \in 0..MaxRevision
  BY BroadcastType DEF StartRound
<1>. QED
  BY <1>4, <1>5, <1>6 DEF StartRound, TypeOK, Present, Ballots

\* Leaving keeps the room well typed.
LEMMA LeaveTypeOK ==
  ASSUME TypeOK, NEW p \in Pids, Leave(p)
  PROVE  TypeOK'
<1>1. kind' \in PartialFns(Pids, Kinds) /\ Present' = Present \ {p}
  BY RestrictType DEF Leave, TypeOK, Present, Without
<1>2. IsFiniteSet(Present') /\ Cardinality(Present') <= MaxParticipants
  <2>1. /\ IsFiniteSet(Present')
        /\ Cardinality(Present') <= Cardinality(Present)
    BY <1>1, FS_Subset DEF TypeOK
  <2>2. Cardinality(Present) \in Nat /\ Cardinality(Present') \in Nat
    BY <2>1, FS_CardinalityType DEF TypeOK
  <2>. QED
    BY <2>1, <2>2, RoomAssumption DEF TypeOK
<1>3. votes' \in Ballots
  BY RestrictType DEF Leave, TypeOK, Ballots, Without
<1>4. /\ eventSeq' \in 0..MaxRevision
      /\ phase' \in {Voting, Revealed}
      /\ results' \subseteq Ballots
  BY <1>3, BroadcastMaybeRevealType DEF Leave
<1>5. cooling' \subseteq Present'
  BY <1>1 DEF Leave, TypeOK
<1>. QED
  BY <1>1, <1>2, <1>3, <1>4, <1>5 DEF Leave, TypeOK

\* Settling keeps the room well typed.
LEMMA SettleTypeOK ==
  ASSUME TypeOK, NEW p \in Pids, NEW v \in Deck, Settle(p, v)
  PROVE  TypeOK'
<1>1. settled' \subseteq [value : Deck, basis : Seq(Summaries)]
  <2>1. ASSUME NEW ballots \in results
        PROVE  Append(history, Summary(ballots, {})) \in Seq(Summaries)
    BY SummaryType DEF TypeOK
  <2>. QED
    BY <2>1 DEF Settle
<1>2. eventSeq' \in 0..MaxRevision
  BY BroadcastType DEF Settle
<1>. QED
  BY <1>1, <1>2 DEF Settle, TypeOK, Present, Ballots, round

\* No step of a room leaves the types.
LEMMA StepTypeOK ==
  ASSUME TypeOK, [Next]_vars
  PROVE  TypeOK'
<1>1. ASSUME NEW p \in Pids, React(p) PROVE TypeOK'
  <2>1. eventSeq' \in 0..MaxRevision
    BY <1>1, RoomAssumption DEF React, TypeOK
  <2>. QED
    BY <1>1, <2>1 DEF React, CanReact, TypeOK, Present, Ballots, round
<1>2. ASSUME NEW p \in Pids, Cool(p) PROVE TypeOK'
  BY <1>2 DEF Cool, TypeOK, Present, Ballots, round
<1>3. CASE Close
  BY <1>3 DEF Close, TypeOK, Present, Ballots, round
<1>4. CASE UNCHANGED vars
  BY <1>4 DEF vars, TypeOK, Present, Ballots, round
<1>. QED
  BY <1>1, <1>2, <1>3, <1>4, JoinTypeOK, CastVoteTypeOK, RevealTypeOK,
     StartRoundTypeOK, LeaveTypeOK, SettleTypeOK DEF Next

\* Every variable keeps its type, the room and its ring keep their limits.
THEOREM TypeCorrect == Spec => []TypeOK
BY InitTypeOK, StepTypeOK, PTL DEF Spec

---------------------------------------------------------------------------
(* The safety invariants of the runs, inductive together: an automatic     *)
(* reveal is complete because only voters have ballots, a settlement is    *)
(* current because the results are the ballots.                            *)

Inv ==
  /\ TypeOK
  /\ VotesBelongToVoters
  /\ NoMissedAutoReveal
  /\ ResultsAreTheBallots
  /\ SettlementIsCurrent
  /\ HistoryIsRecent

\* A new room satisfies the invariant.
LEMMA InitInv == Init => Inv
<1>. SUFFICES ASSUME Init PROVE Inv
  OBVIOUS
<1>1. TypeOK
  BY InitTypeOK
<1>2. Present = {} /\ Voters = {} /\ DOMAIN votes = {}
  BY EmptyMap DEF Init, Present, Voters
<1>3. VotesBelongToVoters /\ NoMissedAutoReveal
  BY <1>2 DEF VotesBelongToVoters, NoMissedAutoReveal
<1>4. ResultsAreTheBallots /\ SettlementIsCurrent
  BY DEF Init, ResultsAreTheBallots, SettlementIsCurrent, Voting, Revealed
<1>5. HistoryIsRecent
  <2>1. history = <<>> /\ Len(history) = 0 /\ DOMAIN history = {} /\ seq = 1
    BY DEF Init
  <2>. QED
    BY <2>1, RoomAssumption DEF HistoryIsRecent
<1>. QED
  BY <1>1, <1>3, <1>4, <1>5 DEF Inv

\* While voting, the tail of CastVote and Leave reveals exactly when nobody
\* is left to wait for, and then publishes every ballot.
LEMMA MaybeRevealInv ==
  ASSUME NEW name, BroadcastMaybeReveal(name),
         phase = Voting, results = {}, autoReveal' = autoReveal,
         votes' \in Ballots, DOMAIN votes' \subseteq Voters'
  PROVE  VotesBelongToVoters' /\ NoMissedAutoReveal' /\ ResultsAreTheBallots'
<1>1. CASE autoReveal /\ AllVoted'
  <2>1. phase' = Revealed /\ results' = {BuildResults'}
    BY <1>1 DEF BroadcastMaybeReveal, BroadcastAndReveal
  <2>2. DOMAIN votes' \subseteq Present'
    BY DEF Voters
  <2>3. BuildResults' = votes'
    BY <2>2, RestrictAll DEF BuildResults, Ballots
  <2>. QED
    BY <2>1, <2>3 DEF VotesBelongToVoters, NoMissedAutoReveal,
                      ResultsAreTheBallots, Voting, Revealed
<1>2. CASE ~(autoReveal /\ AllVoted')
  <2>1. phase' = Voting /\ results' = {}
    BY <1>2 DEF BroadcastMaybeReveal
  <2>2. NoMissedAutoReveal'
    BY <1>2 DEF AllVoted, NoMissedAutoReveal
  <2>. QED
    BY <2>1, <2>2 DEF VotesBelongToVoters, ResultsAreTheBallots, Voting, Revealed
<1>. QED
  BY <1>1, <1>2

\* Joining brings no ballot and somebody to wait for, or an observer.
LEMMA JoinInv ==
  ASSUME Inv, NEW p \in Pids, NEW k \in Kinds, Join(p, k)
  PROVE  Inv'
<1>1. TypeOK'
  BY JoinTypeOK DEF Inv
<1>2. /\ Present' = Present \cup {p}
      /\ p \notin Present
      /\ kind'[p] = k
      /\ \A q \in Present : kind'[q] = kind[q]
  <2>1. kind \in PartialFns(Pids, Kinds) /\ p \notin DOMAIN kind
        /\ kind' = Assign(kind, p, k)
    BY DEF Inv, TypeOK, Join, CanJoin, Present
  <2>2. /\ DOMAIN Assign(kind, p, k) = DOMAIN kind \cup {p}
        /\ Assign(kind, p, k)[p] = k
        /\ \A q \in DOMAIN kind \ {p} : Assign(kind, p, k)[q] = kind[q]
    BY <2>1, AssignType
  <2>. QED
    BY <2>1, <2>2 DEF Present
<1>3. Voters \subseteq Voters' /\ Voters' \subseteq Voters \cup {p}
  BY <1>2 DEF Voters
<1>4. UNCHANGED <<autoReveal, seq, phase, votes, results, history, settled>>
  BY DEF Join, round
<1>5. VotesBelongToVoters'
  BY <1>3, <1>4 DEF Inv, VotesBelongToVoters
<1>6. NoMissedAutoReveal'
  <2>. SUFFICES ASSUME autoReveal, phase = Voting, Voters' # {}
                PROVE  \E q \in Voters' : q \notin DOMAIN votes
    BY <1>4 DEF NoMissedAutoReveal
  <2>1. CASE Voters = {}
    BY <2>1, <1>3 DEF Inv, VotesBelongToVoters
  <2>2. CASE Voters # {}
    BY <2>2, <1>3 DEF Inv, NoMissedAutoReveal
  <2>. QED
    BY <2>1, <2>2
<1>7. ResultsAreTheBallots' /\ SettlementIsCurrent' /\ HistoryIsRecent'
  BY <1>4 DEF Inv, ResultsAreTheBallots, SettlementIsCurrent, HistoryIsRecent,
              Summary
<1>. QED
  BY <1>1, <1>5, <1>6, <1>7 DEF Inv

\* Voting adds a ballot of a voter, and reveals when it was the last.
LEMMA CastVoteInv ==
  ASSUME Inv, NEW p \in Pids, NEW v \in Deck, CastVote(p, v)
  PROVE  Inv'
<1>1. TypeOK'
  BY CastVoteTypeOK DEF Inv
<1>2. UNCHANGED <<autoReveal, kind, seq, history, settled>> /\ phase = Voting
  BY DEF CastVote, CanVote
<1>3. Voters' = Voters
  BY <1>2 DEF Voters, Present
<1>4. DOMAIN votes' = DOMAIN votes \cup {p} /\ p \in Voters
  <2>1. votes \in PartialFns(Pids, Deck) /\ votes' = Assign(votes, p, v)
        /\ p \in Voters
    BY DEF CastVote, CanVote, Inv, TypeOK, Ballots
  <2>2. /\ Assign(votes, p, v) \in PartialFns(Pids, Deck)
        /\ DOMAIN Assign(votes, p, v) = DOMAIN votes \cup {p}
    BY <2>1, AssignType
  <2>. QED
    BY <2>1, <2>2
<1>5. DOMAIN votes' \subseteq Voters'
  BY <1>2, <1>3, <1>4 DEF Inv, VotesBelongToVoters
<1>6. results = {} /\ settled = {}
  BY <1>2 DEF Inv, ResultsAreTheBallots, SettlementIsCurrent, Voting, Revealed
<1>7. VotesBelongToVoters' /\ NoMissedAutoReveal' /\ ResultsAreTheBallots'
  BY <1>1, <1>2, <1>5, <1>6, MaybeRevealInv DEF CastVote, TypeOK
<1>8. SettlementIsCurrent' /\ HistoryIsRecent'
  BY <1>2, <1>6 DEF Inv, SettlementIsCurrent, HistoryIsRecent
<1>. QED
  BY <1>1, <1>7, <1>8 DEF Inv

\* Revealing publishes every ballot.
LEMMA RevealInv ==
  ASSUME Inv, NEW p \in Pids, Reveal(p)
  PROVE  Inv'
<1>1. TypeOK'
  BY RevealTypeOK DEF Inv
<1>2. /\ UNCHANGED <<autoReveal, kind, seq, votes, history, settled>>
      /\ phase = Voting /\ phase' = Revealed /\ results' = {BuildResults}
  BY DEF Reveal, CanReveal
<1>3. BuildResults = votes
  <2>1. DOMAIN votes \subseteq Present /\ votes \in PartialFns(Pids, Deck)
    BY <1>2 DEF Inv, TypeOK, VotesBelongToVoters, Voters, Ballots
  <2>. QED
    BY <2>1, RestrictAll DEF BuildResults
<1>4. settled = {}
  BY <1>2 DEF Inv, SettlementIsCurrent, Voting, Revealed
<1>5. ResultsAreTheBallots' /\ SettlementIsCurrent' /\ HistoryIsRecent'
  BY <1>2, <1>3, <1>4
     DEF Inv, ResultsAreTheBallots, SettlementIsCurrent, HistoryIsRecent
<1>6. VotesBelongToVoters' /\ NoMissedAutoReveal'
  BY <1>2 DEF VotesBelongToVoters, NoMissedAutoReveal, Voting, Revealed
<1>. QED
  BY <1>1, <1>5, <1>6 DEF Inv

\* A new round starts without ballots, and its predecessor is in the ring.
LEMMA StartRoundInv ==
  ASSUME Inv, NEW p \in Pids, StartRound(p)
  PROVE  Inv'
<1>1. TypeOK'
  BY StartRoundTypeOK DEF Inv
<1>2. /\ UNCHANGED <<autoReveal, kind>>
      /\ seq' = seq + 1 /\ phase' = Voting /\ votes' = <<>>
      /\ results' = {} /\ settled' = {}
  BY DEF StartRound
<1>3. VotesBelongToVoters' /\ NoMissedAutoReveal'
  <2>1. DOMAIN votes' = {}
    BY <1>2, EmptyMap
  <2>. QED
    BY <2>1 DEF VotesBelongToVoters, NoMissedAutoReveal
<1>4. ResultsAreTheBallots' /\ SettlementIsCurrent'
  BY <1>2 DEF ResultsAreTheBallots, SettlementIsCurrent, Voting, Revealed
<1>5. HistoryIsRecent'
  <2>1. PICK ballots \in results :
          history' = Archive(Summary(ballots, {s.value : s \in settled}))
    BY DEF StartRound
  <2>. DEFINE sum == Summary(ballots, {s.value : s \in settled})
  <2>2. sum \in Summaries /\ sum.seq = seq
    <3>1. {s.value : s \in settled} \in SUBSET Deck
      BY DEF Inv, TypeOK
    <3>. QED
      BY <3>1, SummaryType DEF Inv, Summary
  <2>. HIDE DEF sum
  <2>3. /\ history' \in Seq(Summaries)
        /\ Len(history') = IF Len(history) < HistoryLen
                           THEN Len(history) + 1 ELSE HistoryLen
        /\ history'[Len(history')] = sum
        /\ \A i \in 1..(Len(history') - 1) :
             history'[i] = history[Len(history) - Len(history') + 1 + i]
    BY <2>1, <2>2, ArchiveKeepsRecent, RoomAssumption DEF Inv, TypeOK, sum
  <2>4. /\ history \in Seq(Summaries) /\ seq \in Nat \ {0}
        /\ Len(history) = IF seq - 1 < HistoryLen THEN seq - 1 ELSE HistoryLen
        /\ \A i \in 1..Len(history) : history[i].seq = seq - 1 - Len(history) + i
    BY DEF Inv, TypeOK, HistoryIsRecent
  <2>5. Len(history') = IF seq' - 1 < HistoryLen THEN seq' - 1 ELSE HistoryLen
    BY <2>3, <2>4, <1>2, RoomAssumption
  <2>6. ASSUME NEW i \in 1..Len(history')
        PROVE  history'[i].seq = seq' - 1 - Len(history') + i
    <3>1. CASE i = Len(history')
      BY <3>1, <2>2, <2>3, <2>4, <1>2
    <3>2. CASE i < Len(history')
      <4>1. Len(history) - Len(history') + 1 + i \in 1..Len(history)
        BY <3>2, <2>3, <2>4, RoomAssumption
      <4>2. history'[i] = history[Len(history) - Len(history') + 1 + i]
        BY <3>2, <2>3, <2>4
      <4>3. history'[i].seq = seq - 1 - Len(history)
                                + (Len(history) - Len(history') + 1 + i)
        BY <4>1, <4>2, <2>4
      <4>. QED
        BY <4>3, <2>3, <2>4, <1>2
    <3>. QED
      BY <3>1, <3>2, <2>3
  <2>7. DOMAIN history' = 1..Len(history')
    BY <2>3
  <2>. QED
    BY <2>5, <2>6, <2>7 DEF HistoryIsRecent
<1>. QED
  BY <1>1, <1>3, <1>4, <1>5 DEF Inv

\* Leaving takes a blind ballot along, and may complete the round.
LEMMA LeaveInv ==
  ASSUME Inv, NEW p \in Pids, Leave(p)
  PROVE  Inv'
<1>1. TypeOK'
  BY LeaveTypeOK DEF Inv
<1>2. UNCHANGED <<autoReveal, seq, history, settled>>
  BY DEF Leave
<1>3. HistoryIsRecent'
  BY <1>2 DEF Inv, HistoryIsRecent
<1>4. CASE phase = Voting
  <2>1. /\ kind' = Without(kind, p) /\ votes' = Without(votes, p)
        /\ kind \in PartialFns(Pids, Kinds) /\ votes \in PartialFns(Pids, Deck)
    BY <1>4 DEF Leave, Inv, TypeOK, Ballots
  <2>2. /\ DOMAIN kind' = DOMAIN kind \ {p}
        /\ \A q \in DOMAIN kind \ {p} : kind'[q] = kind[q]
        /\ DOMAIN votes' = DOMAIN votes \ {p}
    BY <2>1, RestrictType DEF Without
  <2>3. DOMAIN votes' \subseteq Voters'
    BY <2>2, <1>4 DEF Inv, VotesBelongToVoters, Voters, Present
  <2>4. results = {} /\ settled = {}
    BY <1>4 DEF Inv, ResultsAreTheBallots, SettlementIsCurrent, Voting, Revealed
  <2>5. VotesBelongToVoters' /\ NoMissedAutoReveal' /\ ResultsAreTheBallots'
    BY <1>1, <1>2, <1>4, <2>3, <2>4, MaybeRevealInv DEF Leave, TypeOK
  <2>6. SettlementIsCurrent'
    BY <1>2, <2>4 DEF SettlementIsCurrent
  <2>. QED
    BY <1>1, <1>3, <2>5, <2>6 DEF Inv
<1>5. CASE phase = Revealed
  <2>1. UNCHANGED <<phase, results, votes>>
    BY <1>5 DEF Leave, BroadcastMaybeReveal, Voting, Revealed
  <2>2. VotesBelongToVoters' /\ NoMissedAutoReveal'
    BY <2>1, <1>5 DEF VotesBelongToVoters, NoMissedAutoReveal, Voting, Revealed
  <2>3. ResultsAreTheBallots' /\ SettlementIsCurrent'
    BY <2>1, <1>2 DEF Inv, ResultsAreTheBallots, SettlementIsCurrent, Summary
  <2>. QED
    BY <1>1, <1>3, <2>2, <2>3 DEF Inv
<1>. QED
  BY <1>4, <1>5 DEF Inv, TypeOK

\* A settlement is based on the rounds retained now.
LEMMA SettleInv ==
  ASSUME Inv, NEW p \in Pids, NEW v \in Deck, Settle(p, v)
  PROVE  Inv'
<1>1. TypeOK'
  BY SettleTypeOK DEF Inv
<1>2. UNCHANGED <<autoReveal, kind, seq, phase, votes, results, history>>
  BY DEF Settle, round
<1>3. phase = Revealed /\ results = {votes}
  BY DEF Settle, CanSettle, Inv, ResultsAreTheBallots
<1>4. settled' = {[value |-> v, basis |-> Append(history, Summary(votes, {}))]}
  BY <1>3 DEF Settle
<1>5. SettlementIsCurrent'
  BY <1>2, <1>3, <1>4 DEF SettlementIsCurrent, Summary
<1>6. /\ VotesBelongToVoters' /\ NoMissedAutoReveal'
      /\ ResultsAreTheBallots' /\ HistoryIsRecent'
  BY <1>2 DEF Inv, VotesBelongToVoters, NoMissedAutoReveal, Voters, Present,
              ResultsAreTheBallots, HistoryIsRecent
<1>. QED
  BY <1>1, <1>5, <1>6 DEF Inv

\* A step that changes neither the participants nor the round, its history
\* and its settlement keeps the invariant.
LEMMA QuietInv ==
  ASSUME Inv, TypeOK',
         UNCHANGED <<autoReveal, kind, round, history, settled>>
  PROVE  Inv'
BY DEF Inv, round, VotesBelongToVoters, NoMissedAutoReveal, Voters, Present,
       ResultsAreTheBallots, SettlementIsCurrent, Summary, HistoryIsRecent

\* Every step keeps the invariant.
LEMMA StepInv ==
  ASSUME Inv, [Next]_vars
  PROVE  Inv'
<1>1. TypeOK'
  BY StepTypeOK DEF Inv
<1>2. ASSUME NEW p \in Pids, React(p) \/ Cool(p) PROVE Inv'
  BY <1>1, <1>2, QuietInv DEF React, Cool
<1>3. CASE Close \/ UNCHANGED vars
  BY <1>1, <1>3, QuietInv DEF Close, vars
<1>. QED
  BY <1>2, <1>3, JoinInv, CastVoteInv, RevealInv, StartRoundInv, LeaveInv,
     SettleInv DEF Next

\* The invariant holds in every room, whatever its participants do.
THEOREM InvCorrect == Spec => []Inv
BY InitInv, StepInv, PTL DEF Spec

\* Nobody who has left, and no observer, has a ballot in an open round.
THEOREM BallotsHaveVoters == Spec => []VotesBelongToVoters
<1>1. Inv => VotesBelongToVoters
  BY DEF Inv
<1>. QED
  BY <1>1, InvCorrect, PTL

\* An auto-reveal room always has somebody to wait for while it is blind.
THEOREM AutoRevealIsPrompt == Spec => []NoMissedAutoReveal
<1>1. Inv => NoMissedAutoReveal
  BY DEF Inv
<1>. QED
  BY <1>1, InvCorrect, PTL

\* A reveal publishes all the ballots of the round, and nothing else does.
THEOREM RevealIsComplete == Spec => []ResultsAreTheBallots
<1>1. Inv => ResultsAreTheBallots
  BY DEF Inv
<1>. QED
  BY <1>1, InvCorrect, PTL

\* A settlement stands only beside the rounds its awards are computed from.
THEOREM SettlementStaysCurrent == Spec => []SettlementIsCurrent
<1>1. Inv => SettlementIsCurrent
  BY DEF Inv
<1>. QED
  BY <1>1, InvCorrect, PTL

\* The ring holds the last HistoryLen finished rounds in order.
THEOREM HistoryStaysRecent == Spec => []HistoryIsRecent
<1>1. Inv => HistoryIsRecent
  BY DEF Inv
<1>. QED
  BY <1>1, InvCorrect, PTL

---------------------------------------------------------------------------
(* Action properties: what a step may never do.                            *)

\* Which ballots are public: those of the current round once it is revealed,
\* and those of the rounds the ring has not dropped.
PublicBallotsAreRecent ==
  \A n \in 1..seq :
    PublicBallots(n) = IF n = seq THEN results
                       ELSE IF n < seq - Len(history) THEN {}
                       ELSE {history[n - seq + 1 + Len(history)].votes}

\* The invariant says which ballots are public.
LEMMA PublicBallotsAre == Inv => PublicBallotsAreRecent
<1>. SUFFICES ASSUME Inv, NEW n \in 1..seq
              PROVE  PublicBallots(n) =
                       IF n = seq THEN results
                       ELSE IF n < seq - Len(history) THEN {}
                       ELSE {history[n - seq + 1 + Len(history)].votes}
  BY DEF PublicBallotsAreRecent
<1>1. /\ history \in Seq(Summaries) /\ seq \in Nat \ {0}
      /\ Len(history) \in Nat /\ DOMAIN history = 1..Len(history)
      /\ Len(history) <= seq - 1
      /\ \A i \in 1..Len(history) : history[i].seq = seq - 1 - Len(history) + i
  <2>1. /\ history \in Seq(Summaries) /\ seq \in Nat \ {0}
        /\ Len(history) = IF seq - 1 < HistoryLen THEN seq - 1 ELSE HistoryLen
        /\ \A i \in DOMAIN history : history[i].seq = seq - 1 - Len(history) + i
    BY DEF Inv, TypeOK, HistoryIsRecent
  <2>2. Len(history) \in Nat /\ DOMAIN history = 1..Len(history)
    BY <2>1
  <2>. QED
    BY <2>1, <2>2, RoomAssumption
<1>. DEFINE At == {j \in DOMAIN history : history[j].seq = n}
<1>2. At = {j \in 1..Len(history) : j = n - seq + 1 + Len(history)}
  <2>1. ASSUME NEW j \in 1..Len(history)
        PROVE  history[j].seq = n <=> j = n - seq + 1 + Len(history)
    <3>1. history[j].seq = seq - 1 - Len(history) + j
      BY <1>1
    <3>. QED
      BY <1>1, <3>1
  <2>. QED
    BY <1>1, <2>1
<1>3. CASE n = seq \/ n < seq - Len(history)
  <2>1. At = {}
    BY <1>1, <1>2, <1>3
  <2>. QED
    BY <2>1, <1>1, <1>3 DEF PublicBallots
<1>4. CASE n # seq /\ n >= seq - Len(history)
  <2>1. At = {n - seq + 1 + Len(history)}
    BY <1>1, <1>2, <1>4
  <2>. QED
    BY <2>1, <1>1, <1>4 DEF PublicBallots
<1>. QED
  BY <1>1, <1>3, <1>4

\* A step that leaves the round number, the history and the results alone
\* changes nothing public.
LEMMA SamePublic ==
  ASSUME UNCHANGED <<seq, history, results>>, NEW n
  PROVE  PublicBallots(n)' = PublicBallots(n)
BY DEF PublicBallots

\* Nor does a reveal touch the ballots of the earlier rounds.
LEMMA RevealAddsPublic ==
  ASSUME Inv, UNCHANGED <<seq, history>>, phase = Voting,
         NEW n \in 1..seq, PublicBallots(n) # {}
  PROVE  PublicBallots(n)' = PublicBallots(n)
<1>1. results = {}
  BY DEF Inv, ResultsAreTheBallots, Voting, Revealed
<1>2. n # seq
  BY <1>1, PublicBallotsAre DEF PublicBallotsAreRecent
<1>. QED
  BY <1>2 DEF PublicBallots

\* A new round moves the results into the ring, which may drop its oldest.
LEMMA StartRoundPublic ==
  ASSUME Inv, NEW p \in Pids, StartRound(p),
         NEW n \in 1..seq, PublicBallots(n) # {}
  PROVE  \/ PublicBallots(n)' = PublicBallots(n)
         \/ PublicBallots(n)' = {} /\ n <= seq' - 1 - HistoryLen
<1>1. Inv'
  BY StartRoundInv
<1>2. PICK ballots \in results :
        history' = Archive(Summary(ballots, {s.value : s \in settled}))
  BY DEF StartRound
<1>3. /\ seq \in Nat \ {0} /\ seq' = seq + 1 /\ n \in 1..seq' /\ n # seq'
      /\ results = {ballots}
  BY <1>2 DEF StartRound, Inv, TypeOK, ResultsAreTheBallots
<1>. DEFINE sum == Summary(ballots, {s.value : s \in settled})
<1>4. sum \in Summaries /\ sum.votes = ballots
  <2>1. {s.value : s \in settled} \in SUBSET Deck
    BY DEF Inv, TypeOK
  <2>. QED
    BY <2>1, SummaryType DEF Inv, Summary
<1>. HIDE DEF sum
<1>5. /\ history \in Seq(Summaries)
      /\ Len(history) \in Nat /\ Len(history) <= HistoryLen
      /\ Len(history) <= seq - 1
  <2>1. /\ history \in Seq(Summaries) /\ Len(history) <= HistoryLen
        /\ Len(history) = IF seq - 1 < HistoryLen THEN seq - 1 ELSE HistoryLen
    BY DEF Inv, TypeOK, HistoryIsRecent
  <2>2. Len(history) \in Nat
    BY <2>1
  <2>. QED
    BY <2>1, <2>2, <1>3, RoomAssumption
<1>10. /\ Len(history') = IF Len(history) < HistoryLen
                          THEN Len(history) + 1 ELSE HistoryLen
       /\ history'[Len(history')] = sum
       /\ \A i \in 1..(Len(history') - 1) :
            history'[i] = history[Len(history) - Len(history') + 1 + i]
  BY <1>2, <1>4, <1>5, ArchiveKeepsRecent, RoomAssumption DEF sum
<1>11. /\ Len(history') \in Nat \ {0} /\ HistoryLen \in Nat \ {0}
       /\ Len(history') <= Len(history) + 1
       /\ n \in Nat /\ n <= seq
  BY <1>10, <1>5, <1>3, RoomAssumption
<1>6. PublicBallots(n)' = IF n < seq' - Len(history') THEN {}
                          ELSE {history'[n - seq' + 1 + Len(history')].votes}
  <2>1. Inv' => PublicBallotsAreRecent'
    BY PublicBallotsAre, PTL
  <2>2. PublicBallotsAreRecent'
    BY <2>1, <1>1
  <2>. QED
    BY <2>2, <1>3 DEF PublicBallotsAreRecent
<1>7. CASE n = seq
  <2>1. PublicBallots(n) = {ballots}
    BY <1>7, <1>3, PublicBallotsAre DEF PublicBallotsAreRecent
  <2>2. n - seq' + 1 + Len(history') = Len(history') /\ ~(n < seq' - Len(history'))
    BY <1>7, <1>3, <1>11
  <2>3. PublicBallots(n)' = {history'[Len(history')].votes}
    BY <1>6, <2>2
  <2>. QED
    BY <2>1, <2>3, <1>4, <1>10
<1>8. CASE n # seq /\ n < seq' - Len(history')
  <2>1. PublicBallots(n)' = {}
    BY <1>8, <1>6
  <2>2. CASE Len(history) < HistoryLen
    <3>1. n < seq - Len(history)
      BY <1>8, <2>2, <1>3, <1>5, <1>10
    <3>. QED
      BY <3>1, <1>8, PublicBallotsAre DEF PublicBallotsAreRecent
  <2>3. CASE ~(Len(history) < HistoryLen)
    BY <2>1, <2>3, <1>8, <1>3, <1>5, <1>10, <1>11
  <2>. QED
    BY <2>2, <2>3
<1>9. CASE n # seq /\ ~(n < seq' - Len(history'))
  <2>. DEFINE i == n - seq' + 1 + Len(history')
  <2>1. /\ i \in 1..(Len(history') - 1)
        /\ Len(history) - Len(history') + 1 + i = n - seq + 1 + Len(history)
        /\ ~(n < seq - Len(history))
    BY <1>9, <1>3, <1>5, <1>11
  <2>2. PublicBallots(n) = {history[n - seq + 1 + Len(history)].votes}
    BY <1>9, <2>1, PublicBallotsAre DEF PublicBallotsAreRecent
  <2>3. PublicBallots(n)' = {history'[i].votes}
    BY <1>9, <1>6
  <2>4. history'[i] = history[n - seq + 1 + Len(history)]
    BY <2>1, <1>10
  <2>. QED
    BY <2>2, <2>3, <2>4
<1>. QED
  BY <1>7, <1>8, <1>9

\* The tail of CastVote and Leave keeps what is public.
LEMMA MaybeRevealPublic ==
  ASSUME Inv, NEW name, BroadcastMaybeReveal(name), UNCHANGED <<seq, history>>,
         NEW n \in 1..seq, PublicBallots(n) # {}
  PROVE  PublicBallots(n)' = PublicBallots(n)
<1>1. CASE phase = Voting
  BY <1>1, RevealAddsPublic
<1>2. CASE phase # Voting
  BY <1>2, SamePublic DEF BroadcastMaybeReveal
<1>. QED
  BY <1>1, <1>2

\* The ballots of a revealed round are final, while it is on display and in
\* the ring.
THEOREM RevealsAreFinal == Spec => RevealIsFinal
<1>. DEFINE Final(n) == \/ PublicBallots(n)' = PublicBallots(n)
                        \/ PublicBallots(n)' = {} /\ n <= seq' - 1 - HistoryLen
<1>1. ASSUME Inv, [Next]_vars, NEW n \in 1..seq, PublicBallots(n) # {}
      PROVE  Final(n)
  <2>1. ASSUME NEW p \in Pids, NEW k \in Kinds, Join(p, k) PROVE Final(n)
    BY <2>1, SamePublic DEF Join, round
  <2>2. ASSUME NEW p \in Pids, NEW v \in Deck, CastVote(p, v) PROVE Final(n)
    BY <1>1, <2>2, MaybeRevealPublic DEF CastVote
  <2>3. ASSUME NEW p \in Pids, NEW v \in Deck, Settle(p, v) PROVE Final(n)
    BY <2>3, SamePublic DEF Settle, round
  <2>4. ASSUME NEW p \in Pids, Reveal(p) PROVE Final(n)
    BY <1>1, <2>4, RevealAddsPublic DEF Reveal, CanReveal
  <2>5. ASSUME NEW p \in Pids, StartRound(p) PROVE Final(n)
    BY <1>1, <2>5, StartRoundPublic
  <2>6. ASSUME NEW p \in Pids, Leave(p) PROVE Final(n)
    BY <1>1, <2>6, MaybeRevealPublic DEF Leave
  <2>7. ASSUME NEW p \in Pids, React(p) \/ Cool(p) PROVE Final(n)
    BY <2>7, SamePublic DEF React, Cool, round
  <2>8. CASE Close \/ UNCHANGED vars
    BY <2>8, SamePublic DEF Close, vars, round
  <2>. QED
    BY <1>1, <2>1, <2>2, <2>3, <2>4, <2>5, <2>6, <2>7, <2>8 DEF Next
<1>2. Inv /\ [Next]_vars =>
        [\A n \in 1..seq : PublicBallots(n) # {} =>
           \/ PublicBallots(n)' = PublicBallots(n)
           \/ PublicBallots(n)' = {} /\ n <= seq' - 1 - HistoryLen]_vars
  BY <1>1
<1>. QED
  BY <1>2, InvCorrect, PTL DEF Spec, RevealIsFinal

\* A verdict is replaced by another on the same round or archived with it.
THEOREM VerdictsAreKept == Spec => VerdictIsKept
<1>. DEFINE Kept(s) == /\ history' # <<>>
                       /\ history'[Len(history')].seq = seq
                       /\ history'[Len(history')].called = {s.value}
<1>1. ASSUME Inv, [Next]_vars, NEW s \in settled, settled' = {}
      PROVE  Kept(s)
  <2>1. ASSUME NEW p \in Pids, StartRound(p) PROVE Kept(s)
    <3>1. PICK ballots \in results :
            history' = Archive(Summary(ballots, {t.value : t \in settled}))
      BY <2>1 DEF StartRound
    <3>2. PICK v \in Deck :
            settled = {[value |-> v,
                        basis |-> Append(history, Summary(votes, {}))]}
      BY <1>1 DEF Inv, SettlementIsCurrent
    <3>3. s.value = v /\ {t.value : t \in settled} = {v}
      BY <1>1, <3>2
    <3>. DEFINE sum == Summary(ballots, {t.value : t \in settled})
    <3>4. sum \in Summaries /\ sum.seq = seq /\ sum.called = {s.value}
      BY <1>1, <3>3, SummaryType DEF Inv, Summary
    <3>. HIDE DEF sum
    <3>5. history \in Seq(Summaries) /\ Len(history) <= HistoryLen
      BY <1>1 DEF Inv, TypeOK
    <3>6. /\ history' \in Seq(Summaries)
          /\ Len(history') = IF Len(history) < HistoryLen
                             THEN Len(history) + 1 ELSE HistoryLen
          /\ history'[Len(history')] = sum
      BY <3>1, <3>4, <3>5, ArchiveKeepsRecent, RoomAssumption DEF sum
    <3>7. Len(history') # 0
      BY <3>5, <3>6, RoomAssumption
    <3>. QED
      BY <3>4, <3>6, <3>7
  <2>2. ASSUME NEW p \in Pids, NEW v \in Deck, Settle(p, v) PROVE FALSE
    BY <1>1, <2>2 DEF Settle, CanSettle, Inv, ResultsAreTheBallots
  <2>3. CASE UNCHANGED settled
    BY <1>1, <2>3
  <2>. QED
    BY <1>1, <2>1, <2>2, <2>3
       DEF Next, Join, CastVote, Reveal, Leave, React, Cool, Close, vars
<1>2. Inv /\ [Next]_vars =>
        [\A s \in settled : settled' = {} =>
           /\ history' # <<>>
           /\ history'[Len(history')].seq = seq
           /\ history'[Len(history')].called = {s.value}]_vars
  BY <1>1
<1>. QED
  BY <1>2, InvCorrect, PTL DEF Spec, VerdictIsKept

---------------------------------------------------------------------------
(* Subscribers miss nothing.                                               *)

\* What ChangesArePublished says of a step.
Published ==
  /\ {e.id : e \in outbox'} = (eventSeq + 1)..eventSeq'
  /\ [Snapshot' EXCEPT !.revision = eventSeq] # Snapshot =>
       \E e \in outbox' : e.id = eventSeq' /\ e.state = {Snapshot'}

\* One event with the new state is all there is to publish,
LEMMA BroadcastSuffices ==
  ASSUME TypeOK, NEW name, Broadcast(name)
  PROVE  Published
<1>1. /\ eventSeq \in Int /\ eventSeq' = eventSeq + 1
      /\ outbox' = {Event(eventSeq', name, {Snapshot'})}
  BY DEF Broadcast, TypeOK
<1>2. (eventSeq + 1)..eventSeq' = {eventSeq'}
  BY <1>1
<1>. QED
  BY <1>1, <1>2 DEF Published, Event

\* two events are, if the second has the state after both,
LEMMA MaybeRevealSuffices ==
  ASSUME TypeOK, NEW name, BroadcastMaybeReveal(name)
  PROVE  Published
<1>1. CASE BroadcastAndReveal(name)
  <2>1. /\ eventSeq \in Int /\ eventSeq' = eventSeq + 2
        /\ outbox' = {Event(eventSeq + 1, name, {SnapshotBeforeReveal'}),
                      Event(eventSeq + 2, Revealed, {Snapshot'})}
    BY <1>1 DEF BroadcastAndReveal, TypeOK
  <2>2. (eventSeq + 1)..eventSeq' = {eventSeq + 1, eventSeq + 2}
    BY <2>1
  <2>. QED
    BY <2>1, <2>2 DEF Published, Event
<1>2. CASE Broadcast(name)
  BY <1>2, BroadcastSuffices
<1>. QED
  BY <1>1, <1>2 DEF BroadcastMaybeReveal

\* and none is where nothing changes that a snapshot shows.
LEMMA NothingToPublish ==
  ASSUME TypeOK, UNCHANGED <<kind, round, history, settled>>,
         {e.id : e \in outbox'} = (eventSeq + 1)..eventSeq'
  PROVE  Published
<1>. DEFINE voted == Present \cap DOMAIN votes
            cast == Cardinality(DOMAIN votes)
            shown == IF phase = Revealed THEN results ELSE {}
            At(revision) == [revision |-> revision, seq |-> seq, phase |-> phase,
                             members |-> kind, hasVoted |-> voted, cast |-> cast,
                             results |-> shown, history |-> history, settled |-> settled]
<1>1. Snapshot = At(eventSeq)
  BY DEF Snapshot, SnapshotOf
<1>2. voted' = voted /\ cast' = cast /\ shown' = shown
  BY DEF round, Present
<1>3. Snapshot' = [revision |-> eventSeq', seq |-> seq', phase |-> phase',
                   members |-> kind', hasVoted |-> voted', cast |-> cast',
                   results |-> shown', history |-> history', settled |-> settled']
  BY DEF Snapshot, SnapshotOf
<1>. HIDE DEF voted, cast, shown
<1>4. Snapshot' = At(eventSeq')
  BY <1>2, <1>3 DEF round
<1>5. [At(eventSeq') EXCEPT !.revision = eventSeq] = At(eventSeq)
  OBVIOUS
<1>6. [Snapshot' EXCEPT !.revision = eventSeq] = Snapshot
  BY <1>1, <1>4, <1>5
<1>. QED
  BY <1>6 DEF Published

\* A step that changes what a snapshot shows publishes events with
\* consecutive numbers, the last with the snapshot a reader gets from then on
\* (broadcastLocked, fanoutLocked).
THEOREM ChangesStayPublished == Spec => ChangesArePublished
<1>1. ASSUME TypeOK, Next
      PROVE  Published
  <2>1. eventSeq \in Int
    BY <1>1 DEF TypeOK
  <2>2. ASSUME NEW p \in Pids, NEW k \in Kinds, Join(p, k) PROVE Published
    BY <1>1, <2>2, BroadcastSuffices DEF Join
  <2>3. ASSUME NEW p \in Pids, NEW v \in Deck, CastVote(p, v) PROVE Published
    BY <1>1, <2>3, MaybeRevealSuffices DEF CastVote
  <2>4. ASSUME NEW p \in Pids, NEW v \in Deck, Settle(p, v) PROVE Published
    BY <1>1, <2>4, BroadcastSuffices DEF Settle
  <2>5. ASSUME NEW p \in Pids, Reveal(p) \/ StartRound(p) PROVE Published
    BY <1>1, <2>5, BroadcastSuffices DEF Reveal, StartRound
  <2>6. ASSUME NEW p \in Pids, Leave(p) PROVE Published
    BY <1>1, <2>6, MaybeRevealSuffices DEF Leave
  <2>7. ASSUME NEW p \in Pids, React(p) PROVE Published
    <3>1. eventSeq' = eventSeq + 1 /\ outbox' = {Event(eventSeq', "reaction", {})}
      BY <2>7 DEF React
    <3>2. (eventSeq + 1)..eventSeq' = {eventSeq'}
      BY <2>1, <3>1
    <3>3. {e.id : e \in outbox'} = {eventSeq'}
      BY <3>1 DEF Event
    <3>. QED
      BY <1>1, <2>7, <3>2, <3>3, NothingToPublish DEF React
  <2>8. ASSUME Close \/ \E p \in Pids : Cool(p) PROVE Published
    <3>1. outbox' = {} /\ eventSeq' = eventSeq
      BY <2>8 DEF Close, Cool
    <3>2. {e.id : e \in outbox'} = (eventSeq + 1)..eventSeq'
      BY <2>1, <3>1
    <3>. QED
      BY <1>1, <2>8, <3>2, NothingToPublish DEF Close, Cool
  <2>. QED
    BY <1>1, <2>2, <2>3, <2>4, <2>5, <2>6, <2>7, <2>8 DEF Next
<1>2. TypeOK /\ [Next]_vars =>
        [/\ {e.id : e \in outbox'} = (eventSeq + 1)..eventSeq'
         /\ [Snapshot' EXCEPT !.revision = eventSeq] # Snapshot =>
              \E e \in outbox' : e.id = eventSeq' /\ e.state = {Snapshot'}]_vars
  BY <1>1 DEF Published
<1>. QED
  BY <1>2, TypeCorrect, PTL DEF Spec, ChangesArePublished

---------------------------------------------------------------------------
(* The room implements RoomFeed.                                           *)

\* The watcher's part of an event is the event RoomFeed publishes.
LEMMA PublicEventIs ==
  ASSUME NEW id, NEW name, NEW snapshot
  PROVE  /\ PublicEvent(Event(id, name, {snapshot})) =
              [id |-> id, state |-> {[revision |-> snapshot.revision,
                                      seq |-> snapshot.seq,
                                      phase |-> snapshot.phase]}]
         /\ PublicEvent(Event(id, name, {})) = [id |-> id, state |-> {}]
BY DEF PublicEvent, Event

\* A broadcast publishes one event with the new state.
LEMMA BroadcastPublishes ==
  ASSUME NEW name, Broadcast(name)
  PROVE  Feed!Publish
<1>1. {PublicEvent(e) : e \in outbox'} =
        {PublicEvent(Event(eventSeq', name, {Snapshot'}))}
  BY DEF Broadcast
<1>2. /\ Snapshot'.revision = eventSeq'
      /\ Snapshot'.seq = seq'
      /\ Snapshot'.phase = phase'
  BY DEF Snapshot, SnapshotOf
<1>3. PublicEvent(Event(eventSeq', name, {Snapshot'})) =
        [id |-> eventSeq', state |-> {[revision |-> eventSeq', seq |-> seq',
                                       phase |-> phase']}]
  BY <1>2, PublicEventIs
<1>. QED
  BY <1>1, <1>3 DEF Broadcast, Feed!Publish, Feed!Carrying, PublicEvent

\* The tail of CastVote and Leave is a change, or a change and a reveal.
LEMMA MaybeRevealPublishes ==
  ASSUME TypeOK, NEW name, BroadcastMaybeReveal(name),
         UNCHANGED <<seq, closed>>, ~closed
  PROVE  Feed!Change \/ Feed!ChangeAndReveal
<1>1. CASE phase = Voting /\ autoReveal /\ AllVoted'
  <2>1. BroadcastAndReveal(name)
    BY <1>1 DEF BroadcastMaybeReveal
  <2>2. outbox' = {Event(eventSeq + 1, name, {SnapshotBeforeReveal'}),
                   Event(eventSeq + 2, Revealed, {Snapshot'})}
    BY <2>1 DEF BroadcastAndReveal
  <2>3. /\ Snapshot'.revision = eventSeq + 2 /\ Snapshot'.seq = seq
        /\ Snapshot'.phase = "revealed"
        /\ SnapshotBeforeReveal'.revision = eventSeq + 1
        /\ SnapshotBeforeReveal'.seq = seq
        /\ SnapshotBeforeReveal'.phase = "voting"
    <3>1. eventSeq' = eventSeq + 2 /\ eventSeq' - 1 = eventSeq + 1
      BY <2>1 DEF BroadcastAndReveal, TypeOK
    <3>. QED
      BY <2>1, <3>1 DEF Snapshot, SnapshotBeforeReveal, SnapshotOf,
                        BroadcastAndReveal, Voting, Revealed
  <2>4. /\ PublicEvent(Event(eventSeq + 1, name, {SnapshotBeforeReveal'})) =
             Feed!Carrying(eventSeq + 1, seq, "voting")
        /\ PublicEvent(Event(eventSeq + 2, Revealed, {Snapshot'})) =
             Feed!Carrying(eventSeq + 2, seq, "revealed")
    BY <2>3, PublicEventIs DEF Feed!Carrying
  <2>5. {PublicEvent(e) : e \in outbox'} =
          {Feed!Carrying(eventSeq + 1, seq, "voting"),
           Feed!Carrying(eventSeq + 2, seq, "revealed")}
    BY <2>2, <2>4
  <2>. QED
    BY <1>1, <2>1, <2>5 DEF Feed!ChangeAndReveal, BroadcastAndReveal, Voting,
                            Revealed, PublicEvent
<1>2. CASE ~(phase = Voting /\ autoReveal /\ AllVoted')
  BY <1>2, BroadcastPublishes DEF BroadcastMaybeReveal, Feed!Change
<1>. QED
  BY <1>1, <1>2

\* A new room is a new feed.
LEMMA InitIsFeedInit == Init => Feed!Init
BY DEF Init, Feed!Init, Voting

\* Every step of the room is a step of the feed.
LEMMA StepIsFeedStep ==
  ASSUME TypeOK, [Next]_vars
  PROVE  [Feed!Next]_(Feed!feed)
<1>1. ASSUME NEW p \in Pids, NEW k \in Kinds, Join(p, k) PROVE Feed!Change
  BY <1>1, BroadcastPublishes DEF Join, CanJoin, Feed!Change, round
<1>2. ASSUME NEW p \in Pids, NEW v \in Deck, CastVote(p, v)
      PROVE  Feed!Change \/ Feed!ChangeAndReveal
  BY <1>2, MaybeRevealPublishes DEF CastVote, CanVote
<1>3. ASSUME NEW p \in Pids, Reveal(p) PROVE Feed!Reveal
  BY <1>3, BroadcastPublishes DEF Reveal, CanReveal, Feed!Reveal, Voting, Revealed
<1>4. ASSUME NEW p \in Pids, StartRound(p) PROVE Feed!StartRound
  BY <1>4, BroadcastPublishes DEF StartRound, CanStartRound, Feed!StartRound, Voting, Revealed
<1>5. ASSUME NEW p \in Pids, Leave(p)
      PROVE  Feed!Change \/ Feed!ChangeAndReveal
  BY <1>5, MaybeRevealPublishes DEF Leave, CanLeave
<1>6. ASSUME NEW p \in Pids, React(p) PROVE Feed!React
  <2>1. outbox' = {Event(eventSeq', "reaction", {})}
    BY <1>6 DEF React
  <2>2. {PublicEvent(e) : e \in outbox'} = {Feed!Bare(eventSeq')}
    BY <2>1, PublicEventIs DEF Feed!Bare
  <2>. QED
    BY <1>6, <2>2 DEF React, CanReact, Feed!React, round, PublicEvent
<1>7. ASSUME NEW p \in Pids, Cool(p) PROVE Feed!Quiet
  BY <1>7 DEF Cool, Feed!Quiet, round
<1>8. ASSUME NEW p \in Pids, NEW v \in Deck, Settle(p, v) PROVE Feed!Change
  BY <1>8, BroadcastPublishes DEF Settle, CanSettle, Feed!Change, round
<1>9. ASSUME Close PROVE Feed!Close
  BY <1>9 DEF Close, Feed!Close, round
<1>10. ASSUME UNCHANGED vars PROVE UNCHANGED Feed!feed
  BY <1>10 DEF vars, round, Feed!feed, PublicEvent
<1>11. ASSUME Next PROVE Feed!Next
  <2>1. Feed!Change \/ Feed!ChangeAndReveal \/ Feed!Reveal \/ Feed!StartRound
          \/ Feed!React \/ Feed!Quiet \/ Feed!Close
    BY <1>1, <1>2, <1>3, <1>4, <1>5, <1>6, <1>7, <1>8, <1>9, <1>11 DEF Next
  <2>. QED
    BY <2>1 DEF Feed!Next
<1>. QED
  BY <1>10, <1>11

\* The room keeps every promise RoomFeed makes to a watcher.
THEOREM RoomIsFeed == Spec => FeedSpec
BY InitIsFeedInit, StepIsFeedStep, TypeCorrect, PTL DEF Spec, FeedSpec, Feed!Spec

---------------------------------------------------------------------------
(* Blindness: two rooms that differ in secret ballots only.                *)

\* What the two rooms always have in common: everything but the values of
\* the ballots, and who has a ballot.
SameState ==
  /\ autoReveal2 = autoReveal
  /\ kind2 = kind
  /\ seq2 = seq
  /\ phase2 = phase
  /\ DOMAIN votes2 = DOMAIN votes
  /\ history2 = history
  /\ settled2 = settled
  /\ cooling2 = cooling
  /\ closed2 = closed
  /\ eventSeq2 = eventSeq

\* There is at most one result, so that a summary of it is determined.
OneResult == \A b, c \in results : b = c

BlindInv == SameState /\ OneResult /\ EventsAreBlind

---------------------------------------------------------------------------
\* What follows for whoever looks at the two rooms.
SameView ==
  /\ Twin!Present = Present
  /\ Twin!Voters = Voters
  /\ Twin!AllVoted <=> AllVoted
  /\ phase = Voting \/ results = results2 => Twin!Snapshot = Snapshot
  /\ Twin!SnapshotBeforeReveal = SnapshotBeforeReveal

\* The two rooms agree about who is waited for, and their snapshots agree
\* but for what is revealed.
LEMMA SameStateSameView == SameState => SameView
<1>. SUFFICES ASSUME SameState PROVE SameView
  OBVIOUS
<1>1. Twin!Present = Present
  BY DEF SameState, Twin!Present, Present
<1>2. Twin!Voters = Voters
  BY <1>1 DEF SameState, Twin!Voters, Voters, Twin!Observer, Observer
<1>3. Twin!AllVoted <=> AllVoted
  BY <1>2 DEF SameState, Twin!AllVoted, AllVoted
<1>4. ASSUME NEW r, NEW st, NEW shown
      PROVE  Twin!SnapshotOf(r, st, shown) = SnapshotOf(r, st, shown)
  <2>1. Twin!Cardinality(DOMAIN votes) = Cardinality(DOMAIN votes)
    BY DEF Twin!Cardinality, Cardinality
  <2>. QED
    BY <1>1, <2>1 DEF Twin!SnapshotOf, SnapshotOf, SameState
<1>5. phase = Voting \/ results = results2 => Twin!Snapshot = Snapshot
  BY <1>4 DEF Twin!Snapshot, Snapshot, SameState, Twin!Revealed, Revealed, Voting
<1>6. Twin!SnapshotBeforeReveal = SnapshotBeforeReveal
  BY <1>4 DEF Twin!SnapshotBeforeReveal, SnapshotBeforeReveal, SameState,
              Twin!Voting, Voting
<1>. QED
  BY <1>1, <1>2, <1>3, <1>5, <1>6 DEF SameView

\* A broadcast in both rooms sends the same blind events.
LEMMA BroadcastBlind ==
  ASSUME SameState, SameState', NEW name, Broadcast(name), Twin!Broadcast(name)
  PROVE  EventsAreBlind'
<1>1. /\ outbox' = {Event(eventSeq', name, {Snapshot'})}
      /\ outbox2' = {Event(eventSeq', name, {Twin!Snapshot'})}
  BY DEF Broadcast, Twin!Broadcast, SameState, Event, Twin!Event
<1>2. CASE phase' = Voting
  <2>1. Twin!Snapshot' = Snapshot'
    <3>1. SameView'
      BY SameStateSameView, PTL
    <3>. QED
      BY <3>1, <1>2 DEF SameView
  <2>. QED
    BY <1>1, <2>1 DEF EventsAreBlind, IsBlind
<1>3. CASE phase' # Voting
  <2>1. Snapshot'.phase = phase' /\ Twin!Snapshot'.phase = phase'
    BY DEF Snapshot, Twin!Snapshot, SnapshotOf, Twin!SnapshotOf, SameState
  <2>2. ~IsBlind(Event(eventSeq', name, {Snapshot'}))
    BY <2>1, <1>3 DEF IsBlind, Event
  <2>3. ~IsBlind(Event(eventSeq', name, {Twin!Snapshot'}))
    BY <2>1, <1>3 DEF IsBlind, Event
  <2>4. {e \in outbox' : IsBlind(e)} = {} /\ {e \in outbox2' : IsBlind(e)} = {}
    BY <1>1, <2>2, <2>3
  <2>. QED
    BY <2>4 DEF EventsAreBlind, IsBlind
<1>. QED
  BY <1>2, <1>3

\* So do the two events of an automatic reveal, of which the first is blind.
LEMMA BroadcastAndRevealBlind ==
  ASSUME SameState, SameState', NEW name,
         BroadcastAndReveal(name), Twin!BroadcastAndReveal(name)
  PROVE  EventsAreBlind'
<1>. DEFINE first == SnapshotBeforeReveal'
            first2 == Twin!SnapshotBeforeReveal'
            second == Event(eventSeq + 2, Revealed, {Snapshot'})
            second2 == Event(eventSeq + 2, Revealed, {Twin!Snapshot'})
<1>1. outbox' = {Event(eventSeq + 1, name, {first}), second}
  BY DEF BroadcastAndReveal
<1>2. outbox2' = {Event(eventSeq + 1, name, {first2}), second2}
  BY DEF Twin!BroadcastAndReveal, SameState, Event, Twin!Event, Revealed,
         Twin!Revealed, Voting, Twin!Voting
<1>3. first2 = first
  <2>1. SameView'
    BY SameStateSameView, PTL
  <2>. QED
    BY <2>1 DEF SameView
<1>4. first.phase = Voting
  BY DEF SnapshotBeforeReveal, SnapshotOf
<1>5. Snapshot'.phase = Revealed /\ Twin!Snapshot'.phase = Revealed
  BY DEF BroadcastAndReveal, Snapshot, Twin!Snapshot, SnapshotOf,
         Twin!SnapshotOf, SameState
<1>. HIDE DEF first, first2
<1>6. IsBlind(Event(eventSeq + 1, name, {first}))
  BY <1>4 DEF IsBlind, Event
<1>7. ~IsBlind(second) /\ ~IsBlind(second2)
  BY <1>5 DEF IsBlind, Event, Voting, Revealed
<1>. HIDE DEF second, second2
<1>8. /\ {e \in outbox' : IsBlind(e)} = {Event(eventSeq + 1, name, {first})}
      /\ {e \in outbox2' : IsBlind(e)} = {Event(eventSeq + 1, name, {first})}
  BY <1>1, <1>2, <1>3, <1>6, <1>7
<1>. QED
  BY <1>8 DEF EventsAreBlind, IsBlind

\* The tail of CastVote and Leave takes the same turn in both rooms.
LEMMA MaybeRevealBlind ==
  ASSUME BlindInv, NEW name,
         BroadcastMaybeReveal(name), Twin!BroadcastMaybeReveal(name),
         UNCHANGED <<autoReveal, seq, history, settled, closed>>,
         UNCHANGED <<autoReveal2, seq2, history2, settled2, closed2>>,
         kind2' = kind', DOMAIN votes2' = DOMAIN votes', cooling2' = cooling'
  PROVE  BlindInv'
<1>1. autoReveal2 = autoReveal /\ phase2 = phase /\ eventSeq2 = eventSeq
  BY DEF BlindInv, SameState
<1>2. Twin!AllVoted' <=> AllVoted'
  <2>1. Twin!Voters' = Voters'
    BY DEF Twin!Voters, Voters, Twin!Present, Present, Twin!Observer, Observer
  <2>. QED
    BY <2>1 DEF Twin!AllVoted, AllVoted
<1>3. CASE phase = Voting /\ autoReveal /\ AllVoted'
  <2>1. BroadcastAndReveal(name) /\ Twin!BroadcastAndReveal(name)
    BY <1>1, <1>2, <1>3
       DEF BroadcastMaybeReveal, Twin!BroadcastMaybeReveal, Voting, Twin!Voting
  <2>2. SameState'
    BY <2>1, <1>1 DEF BlindInv, SameState, BroadcastAndReveal,
       Twin!BroadcastAndReveal, Revealed, Twin!Revealed
  <2>3. EventsAreBlind'
    BY <2>1, <2>2, BroadcastAndRevealBlind DEF BlindInv
  <2>4. OneResult'
    BY <2>1 DEF BroadcastAndReveal, OneResult
  <2>. QED
    BY <2>2, <2>3, <2>4 DEF BlindInv
<1>4. CASE ~(phase = Voting /\ autoReveal /\ AllVoted')
  <2>1. /\ Broadcast(name) /\ Twin!Broadcast(name)
        /\ UNCHANGED <<phase, results>> /\ phase2' = phase2
    BY <1>1, <1>2, <1>4
       DEF BroadcastMaybeReveal, Twin!BroadcastMaybeReveal, Voting, Twin!Voting
  <2>2. SameState'
    BY <2>1, <1>1 DEF BlindInv, SameState, Broadcast, Twin!Broadcast
  <2>3. EventsAreBlind'
    BY <2>1, <2>2, BroadcastBlind DEF BlindInv
  <2>4. OneResult'
    BY <2>1 DEF BlindInv, OneResult
  <2>. QED
    BY <2>2, <2>3, <2>4 DEF BlindInv
<1>. QED
  BY <1>3, <1>4

---------------------------------------------------------------------------
\* Two new rooms are the same.
LEMMA InitBlind == BothInit => BlindInv
BY DEF BothInit, Init, Twin!Init, BlindInv, SameState, OneResult,
       EventsAreBlind, Voting, Twin!Voting

\* A request that both rooms answer with one broadcast keeps them alike.
LEMMA BroadcastKeepsBlind ==
  ASSUME BlindInv, SameState', OneResult', NEW name,
         Broadcast(name), Twin!Broadcast(name)
  PROVE  BlindInv'
BY BroadcastBlind DEF BlindInv

\* Every pair of steps keeps the two rooms alike.
LEMMA StepBlind ==
  ASSUME BlindInv, [BothNext]_bothVars
  PROVE  BlindInv'
<1>1. ASSUME NEW p \in Pids, NEW k \in Kinds, SameJoin(p, k) PROVE BlindInv'
  <2>1. kind2' = kind'
    BY <1>1 DEF SameJoin, Join, Twin!Join, Assign, Twin!Assign, BlindInv,
                SameState
  <2>2. SameState' /\ OneResult'
    BY <1>1, <2>1 DEF SameJoin, Join, Twin!Join, BlindInv, SameState, OneResult,
                round, Twin!round, Broadcast, Twin!Broadcast
  <2>. QED
    BY <1>1, <2>2, BroadcastKeepsBlind DEF SameJoin, Join, Twin!Join
<1>2. ASSUME NEW p \in Pids, NEW v \in Deck, NEW w \in Deck, SecretVote(p, v, w)
      PROVE  BlindInv'
  <2>1. DOMAIN votes2' = DOMAIN votes'
    BY <1>2 DEF SecretVote, CastVote, Twin!CastVote, Assign, Twin!Assign,
                BlindInv, SameState
  <2>2. kind2' = kind' /\ cooling2' = cooling'
    BY <1>2 DEF SecretVote, CastVote, Twin!CastVote, BlindInv, SameState
  <2>. QED
    BY <1>2, <2>1, <2>2, MaybeRevealBlind DEF SecretVote, CastVote, Twin!CastVote
<1>3. ASSUME NEW p \in Pids, SameLeave(p) PROVE BlindInv'
  <2>1. DOMAIN votes2' = DOMAIN votes'
    BY <1>3 DEF SameLeave, Leave, Twin!Leave, Without, Twin!Without, Restrict,
                Twin!Restrict, BlindInv, SameState, Voting, Twin!Voting
  <2>2. kind2' = kind' /\ cooling2' = cooling'
    BY <1>3 DEF SameLeave, Leave, Twin!Leave, Without, Twin!Without, Restrict,
                Twin!Restrict, BlindInv, SameState
  <2>. QED
    BY <1>3, <2>1, <2>2, MaybeRevealBlind DEF SameLeave, Leave, Twin!Leave
<1>4. ASSUME NEW p \in Pids, SameReveal(p) PROVE BlindInv'
  <2>1. SameState' /\ OneResult'
    BY <1>4 DEF SameReveal, Reveal, Twin!Reveal, BlindInv, SameState, OneResult,
                Broadcast, Twin!Broadcast, Revealed, Twin!Revealed
  <2>. QED
    BY <1>4, <2>1, BroadcastKeepsBlind DEF SameReveal, Reveal, Twin!Reveal
<1>5. ASSUME NEW p \in Pids, results = results2, SameStartRound(p)
      PROVE  BlindInv'
  <2>1. history2' = history'
    <3>1. PICK ballots \in results :
            history' = Archive(Summary(ballots, {s.value : s \in settled}))
      BY <1>5 DEF SameStartRound, StartRound
    <3>2. PICK ballots2 \in results :
            history2' = Twin!Archive(
                          Twin!Summary(ballots2, {s.value : s \in settled2}))
      BY <1>5 DEF SameStartRound, Twin!StartRound
    <3>3. ballots2 = ballots
      BY <3>1, <3>2 DEF BlindInv, OneResult
    <3>4. Twin!Summary(ballots2, {s.value : s \in settled2})
            = Summary(ballots, {s.value : s \in settled})
      BY <3>3 DEF Twin!Summary, Summary, BlindInv, SameState
    <3>. QED
      BY <3>1, <3>2, <3>4 DEF Archive, Twin!Archive, BlindInv, SameState
  <2>2. SameState' /\ OneResult'
    BY <1>5, <2>1 DEF SameStartRound, StartRound, Twin!StartRound, BlindInv,
       SameState, OneResult, Broadcast, Twin!Broadcast, Voting, Twin!Voting
  <2>. QED
    BY <1>5, <2>2, BroadcastKeepsBlind
       DEF SameStartRound, StartRound, Twin!StartRound
<1>6. ASSUME NEW p \in Pids, NEW v \in Deck, results = results2, SameSettle(p, v)
      PROVE  BlindInv'
  <2>1. settled2' = settled'
    BY <1>6 DEF SameSettle, Settle, Twin!Settle, Summary, Twin!Summary, BlindInv,
                SameState
  <2>2. SameState' /\ OneResult'
    BY <1>6, <2>1 DEF SameSettle, Settle, Twin!Settle, BlindInv, SameState,
       OneResult, Broadcast, Twin!Broadcast, round, Twin!round
  <2>. QED
    BY <1>6, <2>2, BroadcastKeepsBlind DEF SameSettle, Settle, Twin!Settle
<1>7. ASSUME NEW p \in Pids, SameReact(p) PROVE BlindInv'
  BY <1>7 DEF SameReact, React, Twin!React, BlindInv, SameState, OneResult,
     EventsAreBlind, Event, Twin!Event, round, Twin!round
<1>8. ASSUME NEW p \in Pids, SameCool(p) PROVE BlindInv'
  BY <1>8 DEF SameCool, Cool, Twin!Cool, BlindInv, SameState, OneResult,
     EventsAreBlind, round, Twin!round
<1>9. ASSUME SameClose PROVE BlindInv'
  BY <1>9 DEF SameClose, Close, Twin!Close, BlindInv, SameState, OneResult,
     EventsAreBlind, round, Twin!round
<1>10. ASSUME UNCHANGED bothVars PROVE BlindInv'
  BY <1>10 DEF bothVars, vars, vars2, BlindInv, SameState, OneResult,
     EventsAreBlind, IsBlind, round
<1>. QED
  BY <1>1, <1>2, <1>3, <1>4, <1>5, <1>6, <1>7, <1>8, <1>9, <1>10 DEF BothNext

\* Two rooms that differ in secret ballots only are alike in every state.
THEOREM BlindCorrect == BothSpec => []BlindInv
BY InitBlind, StepBlind, PTL DEF BothSpec

\* No snapshot depends on a ballot that is not revealed.
THEOREM BlindSnapshots == BothSpec => []SnapshotsAreBlind
<1>1. BlindInv => SnapshotsAreBlind
  BY SameStateSameView DEF BlindInv, SnapshotsAreBlind, SameView
<1>. QED
  BY <1>1, BlindCorrect, PTL

\* No event depends on a ballot that is not revealed when it is sent.
THEOREM BlindEvents == BothSpec => []EventsAreBlind
<1>1. BlindInv => EventsAreBlind
  BY DEF BlindInv
<1>. QED
  BY <1>1, BlindCorrect, PTL

\* No refusal depends on a ballot that is not revealed: the methods look at
\* whether there is one, never at what it says.
THEOREM BlindAnswers == BothSpec => []AnswersAreBlind
<1>1. SameState => AnswersAreBlind
  <2>. SUFFICES ASSUME SameState PROVE AnswersAreBlind
    OBVIOUS
  <2>1. Twin!Present = Present /\ Twin!Voters = Voters
    BY SameStateSameView DEF SameView
  <2>2. closed2 = closed /\ phase2 = phase /\ cooling2 = cooling
    BY DEF SameState
  <2>. USE <2>1, <2>2
  <2>3. ASSUME NEW p \in Pids
        PROVE  /\ CanJoin(p) <=> Twin!CanJoin(p)
               /\ CanLeave(p) <=> Twin!CanLeave(p)
               /\ CanReact(p) <=> Twin!CanReact(p)
    BY DEF CanJoin, Twin!CanJoin, CanLeave, Twin!CanLeave, CanReact, Twin!CanReact,
           Cardinality, Twin!Cardinality
  <2>4. ASSUME NEW p \in Pids
        PROVE  /\ CanReveal(p) <=> Twin!CanReveal(p)
               /\ CanStartRound(p) <=> Twin!CanStartRound(p)
    BY DEF CanReveal, Twin!CanReveal, CanStartRound, Twin!CanStartRound,
           Voting, Twin!Voting, Revealed, Twin!Revealed
  <2>5. ASSUME NEW p \in Pids, NEW v \in Deck
        PROVE  CanSettle(p, v) <=> Twin!CanSettle(p, v)
    BY DEF CanSettle, Twin!CanSettle, Revealed, Twin!Revealed
  <2>6. ASSUME NEW p \in Pids, NEW v \in Deck, NEW w \in Deck
        PROVE  CanVote(p, v) <=> Twin!CanVote(p, w)
    BY DEF CanVote, Twin!CanVote, Voting, Twin!Voting
  <2>. QED
    BY <2>3, <2>4, <2>5, <2>6 DEF AnswersAreBlind
<1>. QED
  BY <1>1, BlindCorrect, PTL DEF BlindInv
===========================================================================
