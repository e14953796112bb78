------------------------------ MODULE Fanout ------------------------------
(***************************************************************************)
(* How a room's events reach its subscribers (room.go: Subscribe, Close,   *)
(* fanoutLocked; service.go: SweepExpired).                                *)
(*                                                                         *)
(* A room operation of RoomFeed takes the room's lock and holds it until   *)
(* its events have been offered to every subscriber; other holders of the  *)
(* lock wait, but the receivers of the channels do not need it and run in  *)
(* between.  A channel holds SubBuffer events.  One that is full loses a   *)
(* reaction; for a snapshot it is emptied, one receive at a time, racing   *)
(* with its own receiver, and then takes the snapshot alone.               *)
(*                                                                         *)
(* EventStream and LongPoll add the receivers.                             *)
(***************************************************************************)
EXTENDS Integers, Sequences

CONSTANTS
  Clients,      \* the requests that may subscribe, each at most once
  SubBuffer,    \* subBuffer in room.go
  MaxRevision   \* bound of the model: the last event number a room reaches

ASSUME FanoutAssumption ==
  SubBuffer \in Nat \ {0} /\ MaxRevision \in Nat

VARIABLES
  seq, phase, closed, eventSeq, outbox,   \* the room, as in RoomFeed
  stored,      \* the store still finds the room
  lastChange,  \* number of the last event that carried a snapshot
  subs,        \* Room.subs: the clients whose channels get events
  queue,       \* the contents of each client's channel
  shut,        \* the clients whose channels are closed
  sending,     \* deliveries the holder of the lock still owes
  draining     \* the client whose full channel is being emptied, if any

Feed == INSTANCE RoomFeed

roomVars == <<seq, phase, closed, eventSeq, outbox, stored, lastChange>>
chanVars == <<subs, queue, shut, sending, draining>>

\* r.mu is free: nobody is between the first and the last line of an
\* operation.
LockFree == sending = {}

Snapshot == [revision |-> eventSeq, seq |-> seq, phase |-> phase]

FanoutInit ==
  /\ Feed!Init
  /\ stored = TRUE
  /\ lastChange = 0
  /\ subs = {}
  /\ queue = [c \in Clients |-> <<>>]
  /\ shut = {}
  /\ sending = {}
  /\ draining = {}

---------------------------------------------------------------------------
(* The room.                                                               *)

\* Somebody who has looked the room up operates on it.  The store need not
\* find the room any more.
Operate ==
  /\ LockFree
  /\ \/ Feed!Change \/ Feed!Reveal \/ Feed!ChangeAndReveal
     \/ Feed!StartRound \/ Feed!React
  /\ eventSeq' <= MaxRevision
  /\ sending' = {[to |-> c, event |-> e] : c \in subs, e \in outbox'}
  /\ lastChange' = IF \E e \in outbox' : e.state # {} THEN eventSeq'
                   ELSE lastChange
  /\ UNCHANGED <<stored, subs, queue, shut, draining>>

\* The events of an operation go out in order, each to all subscribers in
\* any order.
Due(d) == \A other \in sending : d.event.id <= other.event.id

Delivered(d) == sending' = sending \ {d}

\* Mutant: the channel has no limit.
SendUnbounded(d) ==
  /\ Due(d)
  /\ draining = {}
  /\ queue' = [queue EXCEPT ![d.to] = Append(@, d.event)]
  /\ Delivered(d)
  /\ UNCHANGED <<roomVars, subs, shut, draining>>

\* There is room in the channel.
Send(d) ==
  /\ Due(d)
  /\ draining = {}
  /\ Len(queue[d.to]) < SubBuffer
  /\ queue' = [queue EXCEPT ![d.to] = Append(@, d.event)]
  /\ Delivered(d)
  /\ UNCHANGED <<roomVars, subs, shut, draining>>

\* There is none for a reaction.
Drop(d) ==
  /\ Due(d)
  /\ draining = {}
  /\ Len(queue[d.to]) >= SubBuffer
  /\ d.event.state = {}
  /\ Delivered(d)
  /\ UNCHANGED <<roomVars, subs, queue, shut, draining>>

\* Mutant: a full channel loses snapshots as well.
MakeRoomNever(d) ==
  /\ Due(d)
  /\ Len(queue[d.to]) >= SubBuffer
  /\ Delivered(d)
  /\ UNCHANGED <<roomVars, subs, queue, shut, draining>>

\* Mutant: nothing is emptied, the sender waits until its receiver receives.
MakeRoomBlocking(d) ==
  /\ Due(d)
  /\ draining # {}
  /\ UNCHANGED <<roomVars, chanVars>>

\* There is none for a snapshot: the channel is emptied first.
MakeRoom(d) ==
  /\ Due(d)
  /\ draining = {}
  /\ Len(queue[d.to]) >= SubBuffer
  /\ d.event.state # {}
  /\ draining' = {d.to}
  /\ UNCHANGED <<roomVars, subs, queue, shut, sending>>

\* One turn of the drain loop.
DrainOne(c) ==
  /\ c \in draining
  /\ queue[c] # <<>>
  /\ queue' = [queue EXCEPT ![c] = Tail(@)]
  /\ UNCHANGED <<roomVars, subs, shut, sending, draining>>

\* The loop found the channel empty: the send that follows cannot block,
\* because only the holder of the lock fills a channel.
SendAfterDrain(d) ==
  /\ Due(d)
  /\ d.to \in draining
  /\ queue[d.to] = <<>>
  /\ queue' = [queue EXCEPT ![d.to] = <<d.event>>]
  /\ draining' = {}
  /\ Delivered(d)
  /\ UNCHANGED <<roomVars, subs, shut>>

Deliver ==
  \/ \E d \in sending : Send(d) \/ Drop(d) \/ MakeRoom(d) \/ SendAfterDrain(d)
  \/ \E c \in Clients : DrainOne(c)

\* The sweep takes the idle room out of the store (Expire looks at its lock)
Expire ==
  /\ stored
  /\ LockFree
  /\ stored' = FALSE
  /\ UNCHANGED <<seq, phase, closed, eventSeq, outbox, lastChange, chanVars>>

\* Mutant: the channels stay open.
CloseSilently ==
  /\ ~stored
  /\ LockFree
  /\ Feed!Close
  /\ subs' = {}
  /\ UNCHANGED <<stored, lastChange, queue, shut, sending, draining>>

\* and then closes it and the channels of its subscribers.
Close ==
  /\ ~stored
  /\ LockFree
  /\ Feed!Close
  /\ shut' = shut \cup subs
  /\ subs' = {}
  /\ UNCHANGED <<stored, lastChange, queue, sending, draining>>

---------------------------------------------------------------------------
(* What receivers call.                                                    *)

\* Subscribe of a closed room gives a closed channel.
Subscribe(c) ==
  /\ LockFree
  /\ IF closed THEN shut' = shut \cup {c} /\ UNCHANGED subs
               ELSE subs' = subs \cup {c} /\ UNCHANGED shut
  /\ UNCHANGED <<roomVars, queue, sending, draining>>

\* The cancel function; the channel is garbage afterwards.
Cancel(c) ==
  /\ LockFree
  /\ subs' = subs \ {c}
  /\ queue' = [queue EXCEPT ![c] = <<>>]
  /\ UNCHANGED <<roomVars, shut, sending, draining>>

\* A receive from the channel, with or without somebody holding the lock.
Receive(c) ==
  /\ queue[c] # <<>>
  /\ queue' = [queue EXCEPT ![c] = Tail(@)]
  /\ UNCHANGED <<roomVars, subs, shut, sending, draining>>

\* A closed channel says so only when it is empty.
SeesClosed(c) == c \in shut /\ queue[c] = <<>>
===========================================================================
