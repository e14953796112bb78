----------------------------- MODULE RoomFeed -----------------------------
(***************************************************************************)
(* What a room promises to whoever watches it, and nothing else: rounds    *)
(* follow each other one by one, a round is revealed before it is left and *)
(* never becomes blind again, every change is an event with the next       *)
(* number and the snapshot of that moment, a reaction is an event without  *)
(* a snapshot, and a closed room says nothing more.  Room implements this; *)
(* EventStream and LongPoll are built on it.                               *)
(***************************************************************************)
EXTENDS Integers

VARIABLES
  seq,       \* number of the current round
  phase,     \* "voting" or "revealed"
  closed,    \* the room has been closed
  eventSeq,  \* number of the last event
  outbox     \* the events of the last operation

feed == <<seq, phase, closed, eventSeq, outbox>>

\* An event as a watcher sees it, with a snapshot and without.
Carrying(n, s, p) ==
  [id |-> n, state |-> {[revision |-> n, seq |-> s, phase |-> p]}]
Bare(n) == [id |-> n, state |-> {}]

Init ==
  /\ seq = 1
  /\ phase = "voting"
  /\ closed = FALSE
  /\ eventSeq = 0
  /\ outbox = {}

\* One event with the snapshot of the new state.
Publish ==
  /\ eventSeq' = eventSeq + 1
  /\ outbox' = {Carrying(eventSeq', seq', phase')}

\* Somebody joined, left, voted or settled.
Change ==
  /\ ~closed
  /\ UNCHANGED <<seq, phase, closed>>
  /\ Publish

\* Somebody revealed the round.
Reveal ==
  /\ ~closed
  /\ phase = "voting"
  /\ phase' = "revealed"
  /\ UNCHANGED <<seq, closed>>
  /\ Publish

\* A vote or a departure was the last thing the round waited for: two events,
\* the first as blind as the round was.
ChangeAndReveal ==
  /\ ~closed
  /\ phase = "voting"
  /\ phase' = "revealed"
  /\ UNCHANGED <<seq, closed>>
  /\ eventSeq' = eventSeq + 2
  /\ outbox' = {Carrying(eventSeq + 1, seq, "voting"),
                Carrying(eventSeq + 2, seq, "revealed")}

StartRound ==
  /\ ~closed
  /\ phase = "revealed"
  /\ seq' = seq + 1
  /\ phase' = "voting"
  /\ UNCHANGED closed
  /\ Publish

React ==
  /\ ~closed
  /\ eventSeq' = eventSeq + 1
  /\ outbox' = {Bare(eventSeq')}
  /\ UNCHANGED <<seq, phase, closed>>

\* Nothing a watcher can see.
Quiet ==
  /\ outbox' = {}
  /\ UNCHANGED <<seq, phase, closed, eventSeq>>

Close ==
  /\ ~closed
  /\ closed' = TRUE
  /\ outbox' = {}
  /\ UNCHANGED <<seq, phase, eventSeq>>

Next ==
  \/ Change \/ Reveal \/ ChangeAndReveal \/ StartRound
  \/ React \/ Quiet \/ Close

Spec == Init /\ [][Next]_feed
===========================================================================
