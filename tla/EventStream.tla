--------------------------- MODULE EventStream ---------------------------
(***************************************************************************)
(* The SSE handlers of a room (src/internal/api/stream.go, handleEvents):  *)
(* one process per request, which looks the room up, subscribes, sends the *)
(* current state and then what it receives, until the client goes away, a  *)
(* write fails or misses its deadline, or the room is closed.              *)
(***************************************************************************)
EXTENDS Fanout, FiniteSets

VARIABLES
  pc,     \* where each handler is
  last,   \* lastEventID of each handler
  item,   \* what it is writing
  shown   \* the last snapshot its client has received, until it leaves

handlerVars == <<pc, last, item, shown>>
vars == <<roomVars, chanVars, handlerVars>>

NoSnapshot == [revision |-> -1, seq |-> 0, phase |-> "none"]

Init ==
  /\ FanoutInit
  /\ pc = [c \in Clients |-> "start"]
  /\ last = [c \in Clients |-> -1]
  /\ item = [c \in Clients |-> {}]
  /\ shown = [c \in Clients |-> NoSnapshot]

Goto(c, label) == pc' = [pc EXCEPT ![c] = label]

\* Svc.Subscribe: the store finds the room, or the answer is 404.
Find(c) ==
  /\ pc[c] = "start"
  /\ Goto(c, IF stored THEN "found" ELSE "gone")
  /\ UNCHANGED <<roomVars, chanVars, last, item, shown>>

Join(c) ==
  /\ pc[c] = "found"
  /\ Subscribe(c)
  /\ Goto(c, "subscribed")
  /\ UNCHANGED <<last, item, shown>>

\* Svc.State looks the room up again,
FindAgain(c) ==
  /\ pc[c] = "subscribed"
  /\ Goto(c, IF stored THEN "reading" ELSE "leaving")
  /\ UNCHANGED <<roomVars, chanVars, last, item, shown>>

\* and takes the snapshot the stream starts with.
ReadState(c) ==
  /\ pc[c] = "reading"
  /\ LockFree
  /\ last' = [last EXCEPT ![c] = eventSeq]
  /\ item' = [item EXCEPT ![c] = {Snapshot}]
  /\ Goto(c, "writing")
  /\ UNCHANGED <<roomVars, chanVars, shown>>

\* Mutant: events older than the first snapshot are sent after it.
TakeAny(c) ==
  /\ pc[c] = "streaming"
  /\ Receive(c)
  /\ LET event == Head(queue[c]) IN
       /\ last' = [last EXCEPT ![c] = event.id]
       /\ item' = [item EXCEPT ![c] = event.state]
       /\ Goto(c, "writing")
       /\ UNCHANGED shown

\* Mutant: the event after the first snapshot is taken for a part of it.
TakeLater(c) ==
  /\ pc[c] = "streaming"
  /\ Receive(c)
  /\ LET event == Head(queue[c]) IN
       \/ /\ event.id <= last[c] + 1
          /\ UNCHANGED handlerVars
       \/ /\ event.id > last[c] + 1
          /\ last' = [last EXCEPT ![c] = event.id]
          /\ item' = [item EXCEPT ![c] = event.state]
          /\ Goto(c, "writing")
          /\ UNCHANGED shown

\* An event received is written, unless it is older than what was sent.
Take(c) ==
  /\ pc[c] = "streaming"
  /\ Receive(c)
  /\ LET event == Head(queue[c]) IN
       \/ /\ event.id <= last[c]
          /\ UNCHANGED handlerVars
       \/ /\ event.id > last[c]
          /\ last' = [last EXCEPT ![c] = event.id]
          /\ item' = [item EXCEPT ![c] = event.state]
          /\ Goto(c, "writing")
          /\ UNCHANGED shown

\* The handler returns: its variables die with it.
Return(c) ==
  /\ last' = [last EXCEPT ![c] = -1]
  /\ item' = [item EXCEPT ![c] = {}]
  /\ shown' = [shown EXCEPT ![c] = NoSnapshot]
  /\ Goto(c, "leaving")
  /\ UNCHANGED <<roomVars, chanVars>>

\* The write succeeds,
Written(c) ==
  /\ pc[c] = "writing"
  /\ shown' = [shown EXCEPT ![c] = IF item[c] = {} THEN @
                                   ELSE CHOOSE s \in item[c] : TRUE]
  /\ item' = [item EXCEPT ![c] = {}]
  /\ Goto(c, "streaming")
  /\ UNCHANGED <<roomVars, chanVars, last>>

\* or fails, at the latest at its deadline.
WriteFails(c) ==
  /\ pc[c] = "writing"
  /\ Return(c)

\* The client goes away, or a heartbeat cannot be written.
Abandon(c) ==
  /\ pc[c] = "streaming"
  /\ Return(c)

\* The channel is closed: the room expired.
RoomGone(c) ==
  /\ pc[c] = "streaming"
  /\ SeesClosed(c)
  /\ Return(c)

\* The deferred cancel, which needs the lock.
Leave(c) ==
  /\ pc[c] = "leaving"
  /\ Cancel(c)
  /\ Goto(c, "gone")
  /\ UNCHANGED <<last, item, shown>>

\* What a running handler does without outside help.
Handle(c) ==
  \/ Join(c) \/ FindAgain(c) \/ ReadState(c) \/ Take(c)
  \/ Written(c) \/ WriteFails(c) \/ RoomGone(c) \/ Leave(c)

\* The room's own steps, which no handler sees until it receives.
RoomOperate == Operate /\ UNCHANGED handlerVars
RoomDeliver == Deliver /\ UNCHANGED handlerVars
RoomExpire == Expire /\ UNCHANGED handlerVars
RoomClose == Close /\ UNCHANGED handlerVars

Next ==
  \/ RoomOperate \/ RoomDeliver \/ RoomExpire \/ RoomClose
  \/ \E c \in Clients : Find(c) \/ Handle(c) \/ Abandon(c)

\* A goroutine that can run does run: the holder of the lock, the sweep
\* between its two steps, and each handler.  Nobody has to send a request,
\* operate on the room, let it expire or go away.
Fairness ==
  /\ WF_vars(RoomDeliver)
  /\ WF_vars(RoomClose)
  /\ \A c \in Clients : WF_vars(Handle(c))

Spec == Init /\ [][Next]_vars /\ Fairness

---------------------------------------------------------------------------
(* Properties.                                                             *)

\* Every variable keeps its type, and no channel ever holds more than its
\* buffer.
TypeOK ==
  /\ seq \in Nat /\ phase \in {"voting", "revealed"} /\ closed \in BOOLEAN
  /\ eventSeq \in 0..MaxRevision /\ lastChange \in 0..eventSeq
  /\ stored \in BOOLEAN
  /\ subs \subseteq Clients /\ shut \subseteq Clients /\ draining \subseteq Clients
  /\ \A c \in Clients :
       /\ Len(queue[c]) <= SubBuffer
       /\ \A i \in DOMAIN queue[c] : queue[c][i].id \in 1..eventSeq
       /\ shown[c].revision \in -1..eventSeq
       /\ last[c] \in -1..eventSeq
       /\ Cardinality(item[c]) <= 1
       /\ pc[c] \in {"start", "found", "subscribed", "reading", "writing",
                     "streaming", "leaving", "gone"}

The(set) == CHOOSE x \in set : TRUE

\* The snapshot the client of c will have when its handler has written all
\* it has now.
Newest(c) ==
  LET fresh == {i \in DOMAIN queue[c] :
                  queue[c][i].state # {} /\ queue[c][i].id > last[c]}
  IN  IF fresh # {}
      THEN The(queue[c][CHOOSE i \in fresh : \A j \in fresh : j <= i].state)
      ELSE IF item[c] # {} THEN The(item[c]) ELSE shown[c]

\* However full its channel was, however the emptying of it raced with its
\* receiver, and wherever its subscription fell between two events: a stream
\* always has the latest change on its way (fanoutLocked, handleEvents).
StreamIsUpToDate ==
  LockFree =>
    \A c \in subs \cup shut : pc[c] \in {"streaming", "writing"} =>
      /\ Newest(c).revision >= lastChange
      /\ Newest(c).seq = seq
      /\ Newest(c).phase = phase

\* A client never sees an older state after a newer one, neither by its
\* number nor by what it shows: no round is blind again after its reveal.
StreamsMoveForward ==
  [][\A c \in Clients : shown'[c] # shown[c] /\ pc'[c] # "leaving" =>
       /\ shown'[c].revision > shown[c].revision
       /\ shown'[c].seq >= shown[c].seq
       /\ shown'[c].seq = shown[c].seq /\ shown[c].phase = "revealed"
            => shown'[c].phase = "revealed"]_vars

\* No action and no property tells two clients apart, so what must eventually
\* happen to one must happen to each.
Someone == The(Clients)

\* A stream that stays open shows every change, or a later state.
ChangesAreShown ==
  LET c == Someone IN
    (pc[c] = "streaming")
      ~> (shown[c].revision >= lastChange \/ pc[c] \in {"leaving", "gone"})

\* No handler outlives its room, wherever it was when the room was closed.
StreamsEnd ==
  LET c == Someone IN (closed /\ pc[c] # "start") ~> (pc[c] = "gone")

\* The room is never stuck behind a slow subscriber: whoever takes the lock
\* gives it back, although receivers that wait for the lock do not receive.
LockIsReleased == (~LockFree) ~> LockFree

---------------------------------------------------------------------------
(* What it implements.                                                     *)

\* A handler that has sent something, or is about to, and what that is.
Running(c) == pc[c] \in {"writing", "streaming"}
Sent(c) == IF ~Running(c) THEN {}
           ELSE IF item[c] # {} THEN item[c] ELSE {shown[c]}

\* An event is on its way to a client from the moment the room owes it until
\* the handler takes it; what the first snapshot covers is not.
OnTheWay(c) ==
  {e \in {queue[c][i] : i \in DOMAIN queue[c]}
         \cup {d.event : d \in {x \in sending : x.to = c}} :
     Running(c) /\ last[c] < e.id}

Watched == INSTANCE WatchedRoom WITH
  seen <- [c \in Clients |-> Sent(c)],
  onItsWay <- [c \in Clients |-> OnTheWay(c)]

\* However deliveries, draining, receivers and subscriptions interleave, the
\* clients see what they would see if each event reached all of them at once
\* and only what a later snapshot replaces could be lost (fanoutLocked,
\* handleEvents).
WatchedSpec == Watched!Spec
===========================================================================
