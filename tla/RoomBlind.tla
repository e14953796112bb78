---------------------------- MODULE RoomBlind ----------------------------
(***************************************************************************)
(* Blindness: nobody learns anything about a ballot before its reveal.     *)
(*                                                                         *)
(* Two rooms go through the same history, except that every vote may have  *)
(* one value in the first room and another in the second.  As long as the  *)
(* ballots that were revealed are the same in both, everything a room says *)
(* must be the same: its snapshots and its events (snapshotLocked), and    *)
(* what it accepts and refuses.  Once a reveal tells the two rooms apart,  *)
(* the comparison is over.                                                 *)
(***************************************************************************)
EXTENDS Room

VARIABLES autoReveal2, kind2, seq2, phase2, votes2, results2, history2,
          settled2, cooling2, closed2, eventSeq2, outbox2

Twin == INSTANCE Room WITH
  autoReveal <- autoReveal2, kind <- kind2, seq <- seq2, phase <- phase2,
  votes <- votes2, results <- results2, history <- history2,
  settled <- settled2, cooling <- cooling2, closed <- closed2,
  eventSeq <- eventSeq2, outbox <- outbox2

vars2 == <<autoReveal2, kind2, seq2, phase2, votes2, results2, history2,
           settled2, cooling2, closed2, eventSeq2, outbox2>>
bothVars == <<vars, vars2>>

BothInit == Init /\ Twin!Init /\ autoReveal2 = autoReveal

\* The same request in both rooms.
SameJoin(p, k) == Join(p, k) /\ Twin!Join(p, k)
SameReveal(p) == Reveal(p) /\ Twin!Reveal(p)
SameStartRound(p) == StartRound(p) /\ Twin!StartRound(p)
SameLeave(p) == Leave(p) /\ Twin!Leave(p)
SameReact(p) == React(p) /\ Twin!React(p)
SameCool(p) == Cool(p) /\ Twin!Cool(p)
SameSettle(p, v) == Settle(p, v) /\ Twin!Settle(p, v)
SameClose == Close /\ Twin!Close

\* A vote of the same participant, with two values.
SecretVote(p, v, w) == CastVote(p, v) /\ Twin!CastVote(p, w)

BothNext ==
  /\ results = results2
  /\ \/ \E p \in Pids :
          \/ \E k \in Kinds : SameJoin(p, k)
          \/ \E v, w \in Deck : SecretVote(p, v, w)
          \/ \E v \in Deck : SameSettle(p, v)
          \/ SameReveal(p) \/ SameStartRound(p) \/ SameLeave(p)
          \/ SameReact(p) \/ SameCool(p)
     \/ SameClose

BothSpec == BothInit /\ [][BothNext]_bothVars

---------------------------------------------------------------------------
\* An event that shows no revealed round.
IsBlind(e) == \A s \in e.state : s.phase = Voting

\* Snapshots do not depend on ballots that are not revealed: while the
\* revealed ballots agree, whoever looks at both rooms sees one.
SnapshotsAreBlind == results = results2 => Snapshot = Twin!Snapshot

\* Nor do the events, the first of the two events of an automatic reveal
\* included, which is sent while the last ballot is still secret.
EventsAreBlind ==
  {e \in outbox : IsBlind(e)} = {e \in outbox2 : IsBlind(e)}

\* Nor does what the room accepts: a refusal tells nothing about a ballot,
\* whatever the caller's own vote was or would be (the early returns of the
\* methods).
AnswersAreBlind ==
  results = results2 =>
    \A p \in Pids :
      /\ \A v, w \in Deck : CanVote(p, v) <=> Twin!CanVote(p, w)
      /\ \A v \in Deck : CanSettle(p, v) <=> Twin!CanSettle(p, v)
      /\ CanJoin(p) <=> Twin!CanJoin(p)
      /\ CanReveal(p) <=> Twin!CanReveal(p)
      /\ CanStartRound(p) <=> Twin!CanStartRound(p)
      /\ CanLeave(p) <=> Twin!CanLeave(p)
      /\ CanReact(p) <=> Twin!CanReact(p)
===========================================================================
