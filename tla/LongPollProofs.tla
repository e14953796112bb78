-------------------------- MODULE LongPollProofs --------------------------
(***************************************************************************)
(* For any number of requests, channels of any length and any number of    *)
(* events: a reveal that lasts is on its way to whoever waits for one.     *)
(***************************************************************************)
EXTENDS LongPoll, DataTheorems

Snapshots == [revision : Nat, seq : Nat, phase : {"voting", "revealed"}]
Events == [id : Nat, state : SUBSET Snapshots]
Deliveries == [to : Clients, event : Events]
Labels == {"start", "found", "looking", "reading", "waiting", "leaving", "gone"}
Reasons == {"first", "recheck", "timeout"}

---------------------------------------------------------------------------
(* The invariant.                                                          *)

\* Every variable keeps its type, and no channel holds more than it can.
Types ==
  /\ seq \in Nat /\ phase \in {"voting", "revealed"}
  /\ closed \in BOOLEAN /\ stored \in BOOLEAN /\ eventSeq \in Nat
  /\ subs \subseteq Clients /\ shut \subseteq Clients /\ draining \subseteq Clients
  /\ queue \in [Clients -> Seq(Events)]
  /\ \A c \in Clients : Len(queue[c]) <= SubBuffer
  /\ sending \subseteq Deliveries
  /\ pc \in [Clients -> Labels] /\ why \in [Clients -> Reasons]
  /\ since \in [Clients -> Nat] /\ answer \in [Clients -> SUBSET Snapshots]

\* The event shows the room as it is.
Shows(e) == \E s \in e.state : s.seq = seq /\ s.phase = phase

\* The last event is still to be sent to c, and it shows the room as it is.
Owing(c) ==
  \E d \in sending : d.to = c /\ d.event.id = eventSeq /\ Shows(d.event)

\* What is to be sent is in the order of the events.
Numbered ==
  \A d \in sending : /\ d.event.id <= eventSeq
                     /\ \A x \in sending : d.event.id = x.event.id => d.event = x.event

\* Whoever is owed a snapshot, or loses some, is owed the last.
Owed ==
  /\ \A d \in sending : d.event.state # {} => Owing(d.to)
  /\ \A c \in draining : Owing(c)

\* Requests are subscribed before they look, and until their room closes.
Subscribed ==
  /\ shut # {} => closed
  /\ \A c \in Clients : pc[c] \in {"looking", "reading", "waiting"} => c \in subs \cup shut

\* A snapshot of the room as it is is in the channel of c.
Queued(c) == \E e \in Elements(queue[c]) : Shows(e)

OnItsWay ==
  phase = "revealed" =>
    \A c \in Clients : pc[c] = "waiting" => Queued(c) \/ Owing(c)

Inv == Types /\ Numbered /\ Owed /\ Subscribed /\ OnItsWay

\* The initial state.
LEMMA InitInv == Init => Inv
<1>. SUFFICES ASSUME Init PROVE Inv
  OBVIOUS
<1>. USE DEF Init, FanoutInit
<1>1. /\ seq = 1 /\ phase = "voting" /\ closed = FALSE /\ eventSeq = 0
      /\ sending = {} /\ draining = {} /\ subs = {} /\ shut = {}
  BY DEF Feed!Init
<1>2. queue \in [Clients -> Seq(Events)] /\ \A c \in Clients : Len(queue[c]) <= SubBuffer
  BY ShortQueues, FanoutAssumption
<1>3. Types
  BY <1>1, <1>2 DEF Types, Labels, Reasons
<1>4. Numbered /\ Owed
  BY <1>1 DEF Numbered, Owed
<1>5. Subscribed /\ OnItsWay
  BY <1>1 DEF Subscribed, OnItsWay
<1>. QED
  BY <1>3, <1>4, <1>5 DEF Inv

---------------------------------------------------------------------------
(* The room's operations.                                                  *)

\* What the feed promises of an operation: its events are numbered, and the
\* last of them shows what has changed.
LEMMA Operations ==
  ASSUME Types, Operate
  PROVE  /\ ~closed /\ closed' = closed /\ sending = {}
         /\ eventSeq' \in Nat /\ seq' \in Nat /\ phase' \in {"voting", "revealed"}
         /\ \A e \in outbox' : e \in Events /\ e.id <= eventSeq'
         /\ \A e, f \in outbox' : e.id = f.id => e = f
         /\ \/ \E e \in outbox' : e.id = eventSeq' /\ Shows(e)'
            \/ /\ seq' = seq /\ phase' = phase
               /\ \A e \in outbox' : e.state = {}
<1>1. ~closed /\ sending = {}
  BY DEF Operate, LockFree, Feed!Change, Feed!Reveal, Feed!ChangeAndReveal,
         Feed!StartRound, Feed!React
<1>. DEFINE S(n, p) == [revision |-> n, seq |-> seq', phase |-> p]
            one == [id |-> eventSeq', state |-> {S(eventSeq', phase')}]
            bare == [id |-> eventSeq', state |-> {}]
            blind == [id |-> eventSeq + 1, state |-> {S(eventSeq + 1, "voting")}]
<1>2. eventSeq \in Nat /\ seq \in Nat /\ phase \in {"voting", "revealed"}
  BY DEF Types
<1>3. \/ Feed!Change \/ Feed!Reveal \/ Feed!ChangeAndReveal
      \/ Feed!StartRound \/ Feed!React
  BY DEF Operate
<1>4. \/ /\ eventSeq' = eventSeq + 1 /\ outbox' = {one}
         /\ seq' \in {seq, seq + 1} /\ phase' \in {phase, "voting", "revealed"}
      \/ /\ eventSeq' = eventSeq + 2 /\ outbox' = {blind, one}
         /\ seq' = seq /\ phase' = "revealed"
      \/ /\ eventSeq' = eventSeq + 1 /\ outbox' = {bare}
         /\ seq' = seq /\ phase' = phase
  BY <1>3 DEF Feed!Change, Feed!Reveal, Feed!ChangeAndReveal, Feed!StartRound,
         Feed!React, Feed!Publish, Feed!Carrying, Feed!Bare
<1>5. closed' = closed
  BY <1>1, <1>3 DEF Feed!Change, Feed!Reveal, Feed!ChangeAndReveal, Feed!StartRound,
         Feed!React
<1>6. eventSeq' \in Nat /\ seq' \in Nat /\ phase' \in {"voting", "revealed"}
  BY <1>2, <1>4
<1>7. \A n \in Nat, p \in {"voting", "revealed"} : S(n, p) \in Snapshots
  BY <1>6 DEF Snapshots
<1>8. /\ one \in Events /\ one.id = eventSeq'
      /\ \E s \in one.state : s.seq = seq' /\ s.phase = phase'
  <2>1. S(eventSeq', phase').seq = seq' /\ S(eventSeq', phase').phase = phase'
    OBVIOUS
  <2>2. S(eventSeq', phase') \in Snapshots
    BY <1>6, <1>7
  <2>. HIDE DEF S
  <2>. QED
    BY <1>6, <2>1, <2>2 DEF Events
<1>9. bare \in Events /\ bare.id = eventSeq' /\ bare.state = {}
  BY <1>6 DEF Events
<1>10. blind \in Events /\ blind.id = eventSeq + 1
  <2>1. S(eventSeq + 1, "voting") \in Snapshots
    <3>1. eventSeq + 1 \in Nat
      BY <1>2
    <3>. HIDE DEF S
    <3>. QED
      BY <1>7, <3>1
  <2>. HIDE DEF S
  <2>. QED
    BY <1>2, <2>1 DEF Events
<1>. HIDE DEF one, bare, blind
<1>11. \A e \in outbox' : e \in Events /\ e.id <= eventSeq'
  BY <1>2, <1>4, <1>6, <1>8, <1>9, <1>10
<1>12. \A e, f \in outbox' : e.id = f.id => e = f
  BY <1>2, <1>4, <1>8, <1>9, <1>10
<1>13. \/ \E e \in outbox' : e.id = eventSeq' /\ Shows(e)'
       \/ /\ seq' = seq /\ phase' = phase
          /\ \A e \in outbox' : e.state = {}
  <2>1. CASE one \in outbox'
    BY <1>8, <2>1 DEF Shows
  <2>2. CASE outbox' = {bare} /\ seq' = seq /\ phase' = phase
    BY <1>9, <2>2
  <2>. QED
    BY <1>4, <2>1, <2>2
<1>. QED
  BY <1>1, <1>5, <1>6, <1>11, <1>12, <1>13

\* An operation owes its events to every subscriber, and everybody who waits
\* is one.
LEMMA OperateInv == Inv /\ RoomOperate => Inv'
<1>. SUFFICES ASSUME Inv, RoomOperate PROVE Inv'
  OBVIOUS
<1>. USE DEF Inv
<1>1. Operate /\ UNCHANGED pollVars
  BY DEF RoomOperate
<1>2. /\ ~closed /\ closed' = closed /\ sending = {}
      /\ eventSeq' \in Nat /\ seq' \in Nat /\ phase' \in {"voting", "revealed"}
      /\ \A e \in outbox' : e \in Events /\ e.id <= eventSeq'
      /\ \A e, f \in outbox' : e.id = f.id => e = f
      /\ \/ \E e \in outbox' : e.id = eventSeq' /\ Shows(e)'
         \/ /\ seq' = seq /\ phase' = phase
            /\ \A e \in outbox' : e.state = {}
  BY <1>1, Operations
<1>3. /\ UNCHANGED <<stored, subs, queue, shut, draining, pc, why, since, answer>>
      /\ sending' = {[to |-> c, event |-> e] : c \in subs, e \in outbox'}
  BY <1>1 DEF Operate, pollVars
<1>4. \A d \in sending' : d.to \in subs /\ d.event \in outbox'
  BY <1>3
<1>5. \A c \in subs : (\E e \in outbox' : e.id = eventSeq' /\ Shows(e)') => Owing(c)'
  <2>. SUFFICES ASSUME NEW c \in subs, NEW e \in outbox', e.id = eventSeq', Shows(e)'
                PROVE  Owing(c)'
    OBVIOUS
  <2>. DEFINE d == [to |-> c, event |-> e]
  <2>1. d \in sending' /\ d.to = c /\ d.event = e
    BY <1>3
  <2>. HIDE DEF d
  <2>2. d.event.id = eventSeq' /\ Shows(d.event)'
    BY <2>1 DEF Shows
  <2>. QED
    BY <2>1, <2>2 DEF Owing, Shows
<1>6. shut = {} /\ draining = {}
  BY <1>2 DEF Subscribed, Owed, Owing
<1>7. Types'
  <2>1. sending' \subseteq Deliveries
    <3>1. \A c \in subs : \A e \in outbox' : [to |-> c, event |-> e] \in Deliveries
      BY <1>2 DEF Types, Deliveries
    <3>. QED
      BY <1>3, <3>1
  <2>. QED
    BY <1>2, <1>3, <2>1 DEF Types
<1>8. Numbered'
  BY <1>2, <1>4 DEF Numbered
<1>9. Owed'
  <2>1. ASSUME NEW d \in sending', d.event.state # {}
        PROVE  Owing(d.to)'
    <3>1. d.to \in subs /\ \E e \in outbox' : e.id = eventSeq' /\ Shows(e)'
      BY <1>2, <1>4, <2>1
    <3>. QED
      BY <1>5, <3>1
  <2>. QED
    BY <1>3, <1>6, <2>1 DEF Owed
<1>10. Subscribed'
  BY <1>2, <1>3 DEF Subscribed
<1>11. OnItsWay'
  <2>. SUFFICES ASSUME phase' = "revealed", NEW c \in Clients, pc[c] = "waiting"
                PROVE  Queued(c)' \/ Owing(c)'
    BY <1>3 DEF OnItsWay
  <2>1. c \in subs
    BY <1>6 DEF Subscribed
  <2>2. CASE seq' = seq /\ phase' = phase
    <3>1. Queued(c)
      BY <1>2, <2>2 DEF OnItsWay, Owing
    <3>. QED
      BY <1>3, <2>2, <3>1 DEF Queued, Shows
  <2>. QED
    BY <1>2, <1>5, <2>1, <2>2
<1>. QED
  BY <1>7, <1>8, <1>9, <1>10, <1>11

---------------------------------------------------------------------------
(* Deliveries.                                                             *)

\* What no delivery touches.
Elsewhere == <<seq, phase, closed, eventSeq, stored, subs, shut, pc, why, since, answer>>

\* A delivery is its receiver and its event.
LEMMA SameDelivery ==
  ASSUME NEW y \in Deliveries, NEW d \in Deliveries, y.to = d.to, y.event = d.event
  PROVE  y = d
<1>1. /\ y = [to |-> y.to, event |-> y.event]
      /\ d = [to |-> d.to, event |-> d.event]
  BY DEF Deliveries
<1>. QED
  BY <1>1

\* Whoever is owed the last event is still owed it when something else has
\* been delivered.
LEMMA StillOwing ==
  ASSUME NEW d \in sending, Delivered(d), UNCHANGED <<seq, phase, eventSeq>>,
         NEW c \in Clients, Owing(c),
         d.to # c \/ d.event.id # eventSeq \/ d.event.state = {}
  PROVE  Owing(c)'
<1>1. PICK x \in sending : x.to = c /\ x.event.id = eventSeq /\ Shows(x.event)
  BY DEF Owing
<1>2. x # d
  BY <1>1 DEF Shows
<1>3. x \in sending'
  BY <1>2 DEF Delivered
<1>. QED
  BY <1>1, <1>3 DEF Owing, Shows

\* A delivery in the order of the events leaves the last one owed to those who
\* are owed more.
LEMMA DueOwed ==
  ASSUME Inv, NEW d \in sending, Due(d), Delivered(d), UNCHANGED <<seq, phase, eventSeq>>
  PROVE  \A y \in sending' : y.event.state # {} => Owing(y.to)'
<1>. SUFFICES ASSUME NEW y \in sending', y.event.state # {}
              PROVE  Owing(y.to)'
  OBVIOUS
<1>1. /\ y \in sending /\ y # d /\ y \in Deliveries /\ d \in Deliveries
      /\ y.to \in Clients /\ y.event.id \in Nat /\ d.event.id \in Nat /\ eventSeq \in Nat
  BY DEF Delivered, Inv, Types, Deliveries, Events
<1>2. Owing(y.to)
  BY <1>1 DEF Inv, Owed
<1>3. CASE d.to # y.to \/ d.event.id # eventSeq
  BY <1>1, <1>2, <1>3, StillOwing
<1>4. CASE d.to = y.to /\ d.event.id = eventSeq
  <2>1. y.event.id = d.event.id
    BY <1>1, <1>4 DEF Inv, Numbered, Due
  <2>2. y.event = d.event
    BY <1>1, <2>1 DEF Inv, Numbered
  <2>. QED
    BY <1>1, <1>4, <2>2, SameDelivery
<1>. QED
  BY <1>3, <1>4

\* An event goes into a channel that has room for it.
LEMMA EnqueueInv ==
  ASSUME Inv, NEW d \in sending, Due(d), Delivered(d), UNCHANGED Elsewhere,
         Len(queue[d.to]) < SubBuffer,
         queue' = [queue EXCEPT ![d.to] = Append(queue[d.to], d.event)],
         draining' = {}
  PROVE  Inv'
<1>. USE DEF Inv
<1>1. d.to \in Clients /\ d.event \in Events
  BY DEF Types, Deliveries
<1>2. UNCHANGED Elsewhere /\ sending' \subseteq sending
  BY DEF Delivered
<1>. DEFINE q == queue[d.to]
            e == d.event
<1>3. /\ Append(q, e) \in Seq(Events) /\ Len(Append(q, e)) <= SubBuffer
      /\ Elements(Append(q, e)) = Elements(q) \cup {e}
  <2>1. q \in Seq(Events) /\ Len(q) \in Nat /\ Len(q) < SubBuffer /\ SubBuffer \in Nat
    BY <1>1, FanoutAssumption DEF Types
  <2>. HIDE DEF q, e
  <2>2. /\ Append(q, e) \in Seq(Events) /\ Len(Append(q, e)) = Len(q) + 1
        /\ Elements(Append(q, e)) = Elements(q) \cup {e}
    BY <1>1, <2>1, AppendElements DEF e
  <2>. QED
    BY <2>1, <2>2
<1>4. /\ queue'[d.to] = Append(q, e)
      /\ \A c \in Clients \ {d.to} : queue'[c] = queue[c]
      /\ queue' \in [Clients -> Seq(Events)]
  BY <1>1, <1>3 DEF Types
<1>. HIDE DEF q
<1>5. Types'
  <2>1. \A c \in Clients : Len(queue'[c]) <= SubBuffer
    BY <1>3, <1>4 DEF Types
  <2>. QED
    BY <1>2, <1>4, <2>1 DEF Types, Elsewhere
<1>6. Numbered'
  BY <1>2 DEF Numbered, Elsewhere
<1>7. Owed'
  BY <1>2, DueOwed DEF Owed, Elsewhere
<1>8. Subscribed'
  BY <1>2 DEF Subscribed, Elsewhere
<1>9. OnItsWay'
  <2>. SUFFICES ASSUME phase = "revealed", NEW c \in Clients, pc[c] = "waiting"
                PROVE  Queued(c)' \/ Owing(c)'
    BY <1>2 DEF OnItsWay, Elsewhere
  <2>1. Queued(c) => Queued(c)'
    <3>1. Elements(queue[c]) \subseteq Elements(queue'[c])
      BY <1>3, <1>4 DEF q
    <3>. QED
      BY <1>2, <3>1 DEF Queued, Shows, Elsewhere
  <2>2. CASE Owing(c) /\ d.to = c /\ d.event.id = eventSeq
    <3>1. PICK x \in sending : x.to = c /\ x.event.id = eventSeq /\ Shows(x.event)
      BY <2>2 DEF Owing
    <3>2. x.event = e
      BY <2>2, <3>1 DEF Numbered
    <3>3. e \in Elements(queue'[c]) /\ Shows(e)
      BY <1>3, <1>4, <2>2, <3>1, <3>2
    <3>. QED
      BY <1>2, <3>3 DEF Queued, Shows, Elsewhere
  <2>3. CASE Owing(c) /\ (d.to # c \/ d.event.id # eventSeq)
    BY <1>2, <2>3, StillOwing DEF Elsewhere
  <2>. QED
    BY <2>1, <2>2, <2>3 DEF OnItsWay
<1>. QED
  BY <1>5, <1>6, <1>7, <1>8, <1>9

\* A reaction is lost.
LEMMA DropInv ==
  ASSUME Inv, NEW d \in sending, Drop(d), UNCHANGED pollVars
  PROVE  Inv'
<1>. USE DEF Inv
<1>1. /\ Due(d) /\ Delivered(d) /\ d.event.state = {} /\ draining' = {}
      /\ UNCHANGED Elsewhere /\ queue' = queue /\ sending' \subseteq sending
  BY DEF Drop, roomVars, pollVars, Elsewhere, Delivered
<1>2. Types' /\ Numbered'
  BY <1>1 DEF Types, Numbered, Elsewhere
<1>3. Owed'
  BY <1>1, DueOwed DEF Owed, Elsewhere
<1>4. Subscribed'
  BY <1>1 DEF Subscribed, Elsewhere
<1>5. OnItsWay'
  <2>1. \A c \in Clients : Queued(c) => Queued(c)'
    BY <1>1 DEF Queued, Shows, Elsewhere
  <2>2. \A c \in Clients : Owing(c) => Owing(c)'
    BY <1>1, StillOwing DEF Elsewhere
  <2>. QED
    BY <1>1, <2>1, <2>2 DEF OnItsWay, Elsewhere
<1>. QED
  BY <1>2, <1>3, <1>4, <1>5

\* A full channel is about to be emptied of what it has.
LEMMA MakeRoomInv ==
  ASSUME Inv, NEW d \in sending, MakeRoom(d), UNCHANGED pollVars
  PROVE  Inv'
<1>. USE DEF Inv
<1>1. /\ d.event.state # {} /\ draining' = {d.to}
      /\ UNCHANGED Elsewhere /\ UNCHANGED <<queue, sending>>
  BY DEF MakeRoom, roomVars, pollVars, Elsewhere
<1>2. d.to \in Clients
  BY DEF Types, Deliveries
<1>3. Types' /\ Numbered' /\ Subscribed'
  BY <1>1, <1>2 DEF Types, Numbered, Subscribed, Elsewhere
<1>4. \A c \in Clients : Owing(c) <=> Owing(c)'
  BY <1>1 DEF Owing, Shows, Elsewhere
<1>5. Owed'
  <2>1. \A x \in sending : x.to \in Clients
    BY DEF Types, Deliveries
  <2>. QED
    BY <1>1, <1>4, <2>1 DEF Owed
<1>6. OnItsWay'
  <2>1. \A c \in Clients : Queued(c) => Queued(c)'
    BY <1>1 DEF Queued, Shows, Elsewhere
  <2>. QED
    BY <1>1, <1>4, <2>1 DEF OnItsWay, Elsewhere
<1>. QED
  BY <1>3, <1>5, <1>6

\* One event is thrown out of it.
LEMMA DrainInv ==
  ASSUME Inv, NEW c \in Clients, DrainOne(c), UNCHANGED pollVars
  PROVE  Inv'
<1>. USE DEF Inv
<1>1. /\ c \in draining /\ queue[c] # <<>>
      /\ queue' = [queue EXCEPT ![c] = Tail(queue[c])]
      /\ UNCHANGED Elsewhere /\ UNCHANGED <<sending, draining>>
  BY DEF DrainOne, roomVars, pollVars, Elsewhere
<1>2. Tail(queue[c]) \in Seq(Events) /\ Len(Tail(queue[c])) <= Len(queue[c])
  BY <1>1, TailElements DEF Types
<1>3. /\ queue'[c] = Tail(queue[c])
      /\ \A k \in Clients \ {c} : queue'[k] = queue[k]
      /\ queue' \in [Clients -> Seq(Events)]
  BY <1>1, <1>2 DEF Types
<1>4. Len(queue'[c]) <= SubBuffer
  <2>1. Len(queue[c]) \in Nat /\ Len(queue'[c]) \in Nat /\ Len(queue[c]) <= SubBuffer
    BY <1>2, <1>3 DEF Types
  <2>. QED
    BY <1>2, <1>3, <2>1, FanoutAssumption
<1>5. Types'
  <2>1. \A k \in Clients : Len(queue'[k]) <= SubBuffer
    BY <1>3, <1>4 DEF Types
  <2>. QED
    BY <1>1, <1>3, <2>1 DEF Types, Elsewhere
<1>6. \A k \in Clients : Owing(k) <=> Owing(k)'
  BY <1>1 DEF Owing, Shows, Elsewhere
<1>7. Numbered' /\ Subscribed'
  BY <1>1 DEF Numbered, Subscribed, Elsewhere
<1>8. Owed'
  <2>1. \A d \in sending : d.to \in Clients
    BY DEF Types, Deliveries
  <2>2. draining \subseteq Clients
    BY DEF Types
  <2>. QED
    BY <1>1, <1>6, <2>1, <2>2 DEF Owed
<1>9. OnItsWay'
  <2>1. \A k \in Clients \ {c} : Queued(k) => Queued(k)'
    BY <1>1, <1>3 DEF Queued, Shows, Elsewhere
  <2>2. Owing(c)
    BY <1>1 DEF Owed
  <2>. QED
    BY <1>1, <1>6, <2>1, <2>2 DEF OnItsWay, Elsewhere
<1>. QED
  BY <1>5, <1>7, <1>8, <1>9

\* Every branch of fanoutLocked.
LEMMA DeliverInv == Inv /\ RoomDeliver => Inv'
<1>. SUFFICES ASSUME Inv, Deliver, UNCHANGED pollVars PROVE Inv'
  BY DEF RoomDeliver
<1>1. ASSUME NEW d \in sending, Send(d)
      PROVE  Inv'
  <2>1. /\ Due(d) /\ Delivered(d) /\ UNCHANGED Elsewhere /\ draining' = {}
        /\ Len(queue[d.to]) < SubBuffer
        /\ queue' = [queue EXCEPT ![d.to] = Append(queue[d.to], d.event)]
    BY <1>1 DEF Send, Elsewhere, roomVars, pollVars
  <2>. QED
    BY <2>1, EnqueueInv
<1>2. ASSUME NEW d \in sending, SendAfterDrain(d)
      PROVE  Inv'
  <2>1. /\ Due(d) /\ Delivered(d) /\ UNCHANGED Elsewhere /\ draining' = {}
        /\ queue[d.to] = <<>>
        /\ queue' = [queue EXCEPT ![d.to] = <<d.event>>]
    BY <1>2 DEF SendAfterDrain, Elsewhere, roomVars, pollVars
  <2>2. <<d.event>> = Append(queue[d.to], d.event) /\ Len(queue[d.to]) < SubBuffer
    BY <2>1, FanoutAssumption
  <2>. QED
    BY <2>1, <2>2, EnqueueInv
<1>. QED
  BY <1>1, <1>2, DropInv, MakeRoomInv, DrainInv DEF Deliver

---------------------------------------------------------------------------
(* Requests.                                                               *)

\* What a step of the request of c may do: nothing to the room, to what the
\* room owes, or to another request.
StepOf(c) ==
  /\ UNCHANGED <<seq, phase, closed, eventSeq, stored, sending, draining>>
  /\ subs' \subseteq Clients /\ shut' \subseteq Clients /\ (shut' # {} => closed)
  /\ (subs \cup shut) \ {c} \subseteq subs' \cup shut'
  /\ queue' \in [Clients -> Seq(Events)] /\ Len(queue'[c]) <= SubBuffer
  /\ pc' \in [Clients -> Labels] /\ why' \in [Clients -> Reasons]
  /\ since' \in [Clients -> Nat] /\ answer' \in [Clients -> SUBSET Snapshots]
  /\ \A k \in Clients \ {c} : queue'[k] = queue[k] /\ pc'[k] = pc[k]

LEMMA RequestStep ==
  ASSUME Inv, NEW c \in Clients, StepOf(c),
         pc'[c] \in {"looking", "reading", "waiting"} => c \in subs' \cup shut',
         pc'[c] = "waiting" /\ phase = "revealed" => Queued(c)' \/ Owing(c)
  PROVE  Inv'
<1>. USE DEF Inv
<1>1. UNCHANGED <<seq, phase, closed, eventSeq, stored, sending, draining>>
  BY DEF StepOf
<1>2. Types'
  <2>1. \A k \in Clients : Len(queue'[k]) <= SubBuffer
    BY DEF Types, StepOf
  <2>. QED
    BY <1>1, <2>1 DEF Types, StepOf
<1>3. \A k \in Clients : Owing(k) <=> Owing(k)'
  BY <1>1 DEF Owing, Shows
<1>4. Numbered'
  BY <1>1 DEF Numbered
<1>5. Owed'
  <2>1. draining \subseteq Clients /\ \A d \in sending : d.to \in Clients
    BY DEF Types, Deliveries
  <2>. QED
    BY <1>1, <1>3, <2>1 DEF Owed
<1>6. Subscribed'
  <2>1. ASSUME NEW k \in Clients, pc'[k] \in {"looking", "reading", "waiting"}, k # c
        PROVE  k \in subs' \cup shut'
    <3>1. pc'[k] = pc[k]
      BY <2>1 DEF StepOf
    <3>2. k \in subs \cup shut
      BY <2>1, <3>1 DEF Subscribed
    <3>. QED
      BY <2>1, <3>2 DEF StepOf
  <2>2. shut' # {} => closed'
    BY <1>1 DEF StepOf
  <2>. QED
    BY <2>1, <2>2 DEF Subscribed
<1>7. OnItsWay'
  <2>1. \A k \in Clients \ {c} : Queued(k) => Queued(k)'
    BY <1>1 DEF Queued, Shows, StepOf
  <2>. QED
    BY <1>1, <1>3, <2>1 DEF OnItsWay, StepOf
<1>. QED
  BY <1>2, <1>4, <1>5, <1>6, <1>7

\* A step that leaves the channels and the subscriptions alone, and does not
\* go on to wait.
LEMMA IdleStep ==
  ASSUME Inv, NEW c \in Clients, NEW label \in Labels \ {"waiting"}, Goto(c, label),
         UNCHANGED <<roomVars, chanVars>>,
         why' \in [Clients -> Reasons], since' \in [Clients -> Nat],
         answer' \in [Clients -> SUBSET Snapshots],
         label \in {"looking", "reading"} => c \in subs \cup shut
  PROVE  Inv'
<1>1. /\ pc'[c] = label /\ \A k \in Clients \ {c} : pc'[k] = pc[k]
      /\ pc' \in [Clients -> Labels]
  BY DEF Inv, Types, Goto
<1>2. UNCHANGED <<seq, phase, closed, eventSeq, stored, sending, draining, subs, shut, queue>>
  BY DEF roomVars, chanVars
<1>3. /\ subs \subseteq Clients /\ shut \subseteq Clients /\ (shut # {} => closed)
      /\ queue \in [Clients -> Seq(Events)] /\ Len(queue[c]) <= SubBuffer
  BY DEF Inv, Types, Subscribed
<1>4. StepOf(c)
  BY <1>1, <1>2, <1>3 DEF StepOf
<1>. QED
  BY <1>1, <1>2, <1>4, RequestStep

LEMMA IdleInv ==
  ASSUME Inv, NEW c \in Clients,
         \/ Find(c) \/ Look(c) \/ RoomGone(c) \/ Abandon(c)
         \/ LookAgain(c, "recheck") \/ LookAgain(c, "timeout")
  PROVE  Inv'
<1>1. /\ why \in [Clients -> Reasons] /\ since \in [Clients -> Nat]
      /\ answer \in [Clients -> SUBSET Snapshots]
      /\ pc[c] \in {"looking", "waiting"} => c \in subs \cup shut
  BY DEF Inv, Types, Subscribed
<1>2. CASE Find(c)
  BY <1>1, <1>2, IdleStep DEF Find, Labels
<1>3. CASE Look(c)
  BY <1>1, <1>3, IdleStep DEF Look, Labels
<1>4. CASE RoomGone(c)
  BY <1>1, <1>4, IdleStep DEF RoomGone, Labels
<1>5. CASE Abandon(c)
  BY <1>1, <1>5, IdleStep DEF Abandon, Labels
<1>6. ASSUME NEW reason \in Reasons, LookAgain(c, reason)
      PROVE  Inv'
  <2>1. why' \in [Clients -> Reasons]
    BY <1>1, <1>6 DEF LookAgain
  <2>. QED
    BY <1>1, <1>6, <2>1, IdleStep DEF LookAgain, Labels
<1>. QED
  BY <1>2, <1>3, <1>4, <1>5, <1>6 DEF Reasons

\* Subscribing and cancelling.
LEMMA JoinInv == ASSUME Inv, NEW c \in Clients, Join(c) PROVE Inv'
<1>1. /\ Goto(c, "looking")
      /\ UNCHANGED <<seq, phase, closed, eventSeq, stored, sending, draining, queue>>
      /\ UNCHANGED <<why, since, answer>>
      /\ IF closed THEN shut' = shut \cup {c} /\ subs' = subs
                   ELSE subs' = subs \cup {c} /\ shut' = shut
  BY DEF Join, Subscribe, roomVars
<1>2. /\ pc'[c] = "looking" /\ \A k \in Clients \ {c} : pc'[k] = pc[k]
      /\ pc' \in [Clients -> Labels]
  BY <1>1 DEF Inv, Types, Goto, Labels
<1>3. c \in subs' \cup shut' /\ subs \cup shut \subseteq subs' \cup shut'
  BY <1>1
<1>4. subs' \subseteq Clients /\ shut' \subseteq Clients /\ (shut' # {} => closed)
  BY <1>1 DEF Inv, Types, Subscribed
<1>5. StepOf(c)
  BY <1>1, <1>2, <1>3, <1>4 DEF StepOf, Inv, Types
<1>. QED
  BY <1>2, <1>3, <1>5, RequestStep

LEMMA LeaveInv == ASSUME Inv, NEW c \in Clients, Leave(c) PROVE Inv'
<1>1. /\ Goto(c, "gone")
      /\ UNCHANGED <<seq, phase, closed, eventSeq, stored, sending, draining, shut>>
      /\ UNCHANGED <<why, since, answer>>
      /\ subs' = subs \ {c} /\ queue' = [queue EXCEPT ![c] = <<>>]
  BY DEF Leave, Cancel, roomVars
<1>2. /\ pc'[c] = "gone" /\ \A k \in Clients \ {c} : pc'[k] = pc[k]
      /\ pc' \in [Clients -> Labels]
  BY <1>1 DEF Inv, Types, Goto, Labels
<1>3. /\ queue' \in [Clients -> Seq(Events)] /\ Len(queue'[c]) <= SubBuffer
      /\ \A k \in Clients \ {c} : queue'[k] = queue[k]
  BY <1>1, ShortQueues, FanoutAssumption DEF Inv, Types
<1>4. StepOf(c)
  BY <1>1, <1>2, <1>3 DEF StepOf, Inv, Types, Subscribed
<1>. QED
  BY <1>2, <1>4, RequestStep

\* A look at the state ends the wait if the round is revealed.
LEMMA ReadInv == ASSUME Inv, NEW c \in Clients, Read(c) PROVE Inv'
<1>1. /\ pc[c] = "reading" /\ UNCHANGED <<roomVars, chanVars, why>>
      /\ since' = [since EXCEPT ![c] = IF why[c] = "first" THEN seq ELSE @]
      /\ \/ Answer(c, Snapshot)
         \/ phase = "voting" /\ Goto(c, "waiting") /\ UNCHANGED answer
  BY DEF Read
<1>2. UNCHANGED <<seq, phase, closed, eventSeq, stored, sending, draining, subs, shut, queue>>
  BY <1>1 DEF roomVars, chanVars
<1>3. Snapshot \in Snapshots
  BY DEF Snapshot, Snapshots, Inv, Types
<1>4. since' \in [Clients -> Nat] /\ answer' \in [Clients -> SUBSET Snapshots]
  <2>1. seq \in Nat /\ since \in [Clients -> Nat] /\ answer \in [Clients -> SUBSET Snapshots]
    BY DEF Inv, Types
  <2>. QED
    BY <1>1, <1>3, <2>1 DEF Answer
<1>5. /\ pc' \in [Clients -> Labels] /\ \A k \in Clients \ {c} : pc'[k] = pc[k]
      /\ pc'[c] = "leaving" \/ (pc'[c] = "waiting" /\ phase = "voting")
  BY <1>1 DEF Inv, Types, Goto, Answer, Labels
<1>6. c \in subs \cup shut
  BY <1>1 DEF Inv, Subscribed
<1>7. StepOf(c)
  BY <1>1, <1>2, <1>4, <1>5 DEF StepOf, Inv, Types, Subscribed
<1>. QED
  BY <1>2, <1>5, <1>6, <1>7, RequestStep

\* What is taken from the channel without an answer was no reveal, so that the
\* reveal is still there.
LEMMA TakeInv == ASSUME Inv, NEW c \in Clients, Take(c) PROVE Inv'
<1>. DEFINE q == queue[c]
            revealed == {s \in Head(q).state : s.phase = "revealed"}
<1>1. /\ pc[c] = "waiting" /\ q # <<>> /\ queue' = [queue EXCEPT ![c] = Tail(@)]
      /\ UNCHANGED <<roomVars, subs, shut, sending, draining, why, since>>
      /\ \/ \E s \in revealed : Answer(c, s)
         \/ revealed = {} /\ UNCHANGED <<pc, answer>>
  BY DEF Take, Receive
<1>2. UNCHANGED <<seq, phase, closed, eventSeq, stored, sending, draining, subs, shut>>
  BY <1>1 DEF roomVars
<1>3. q \in Seq(Events) /\ Len(q) <= SubBuffer
  BY DEF Inv, Types
<1>. HIDE DEF q
<1>4. /\ Tail(q) \in Seq(Events) /\ Len(Tail(q)) <= Len(q) /\ Head(q) \in Events
      /\ Elements(q) = {Head(q)} \cup Elements(Tail(q))
  BY <1>1, <1>3, TailElements
<1>5. revealed \subseteq Snapshots
  BY <1>4 DEF Events
<1>6. Len(Tail(q)) <= SubBuffer
  <2>1. Len(q) \in Nat /\ Len(Tail(q)) \in Nat
    BY <1>3, <1>4
  <2>. QED
    BY <1>3, <1>4, <2>1, FanoutAssumption
<1>7. /\ queue' \in [Clients -> Seq(Events)] /\ queue'[c] = Tail(q)
      /\ \A k \in Clients \ {c} : queue'[k] = queue[k]
  BY <1>1, <1>4 DEF Inv, Types, q
<1>8. /\ pc' \in [Clients -> Labels] /\ \A k \in Clients \ {c} : pc'[k] = pc[k]
      /\ answer' \in [Clients -> SUBSET Snapshots]
      /\ pc'[c] = "leaving" \/ (pc'[c] = "waiting" /\ revealed = {})
  <2>. HIDE DEF revealed
  <2>1. pc \in [Clients -> Labels] /\ answer \in [Clients -> SUBSET Snapshots]
    BY DEF Inv, Types
  <2>2. CASE \E s \in revealed : Answer(c, s)
    BY <1>5, <2>1, <2>2 DEF Goto, Answer, Labels
  <2>3. CASE revealed = {} /\ UNCHANGED <<pc, answer>>
    BY <1>1, <2>1, <2>3
  <2>. QED
    BY <1>1, <2>2, <2>3
<1>9. StepOf(c)
  BY <1>1, <1>2, <1>6, <1>7, <1>8 DEF StepOf, Inv, Types, Subscribed
<1>10. c \in subs \cup shut
  BY <1>1 DEF Inv, Subscribed
<1>11. ASSUME revealed = {}, phase = "revealed", Queued(c)
       PROVE  Queued(c)'
  <2>1. PICK e \in Elements(q) : Shows(e)
    BY <1>11 DEF Queued, q
  <2>2. e # Head(q)
    BY <1>11, <2>1 DEF Shows
  <2>3. e \in Elements(queue'[c])
    BY <1>4, <1>7, <2>1, <2>2
  <2>. QED
    BY <1>2, <2>1, <2>3 DEF Queued, Shows
<1>. QED
  BY <1>1, <1>2, <1>8, <1>9, <1>10, <1>11, RequestStep DEF Inv, OnItsWay

---------------------------------------------------------------------------
(* All together.                                                           *)

\* Expiry and the closing of the room, which keeps its channels known.
LEMMA SweepInv == Inv /\ (RoomExpire \/ RoomClose \/ UNCHANGED vars) => Inv'
<1>. SUFFICES ASSUME Inv, RoomExpire \/ RoomClose \/ UNCHANGED vars PROVE Inv'
  OBVIOUS
<1>. USE DEF Inv
<1>1. /\ UNCHANGED <<seq, phase, eventSeq, sending, queue, draining>> /\ UNCHANGED pollVars
      /\ stored' \in BOOLEAN
      /\ \/ closed' = TRUE /\ shut' = shut \cup subs /\ subs' = {}
         \/ UNCHANGED <<closed, shut, subs>>
  <2>1. CASE RoomExpire
    BY <2>1 DEF RoomExpire, Expire, chanVars
  <2>2. CASE RoomClose
    BY <2>2 DEF RoomClose, Close, Feed!Close, Types
  <2>3. CASE UNCHANGED vars
    BY <2>3 DEF vars, roomVars, chanVars, Types
  <2>. QED
    BY <2>1, <2>2, <2>3
<1>2. Types'
  BY <1>1 DEF Types, pollVars
<1>3. \A c \in Clients : (Owing(c) <=> Owing(c)') /\ (Queued(c) <=> Queued(c)')
  BY <1>1 DEF Owing, Queued, Shows
<1>4. draining \subseteq Clients /\ \A d \in sending : d.to \in Clients
  BY DEF Types, Deliveries
<1>5. Numbered' /\ Owed'
  BY <1>1, <1>3, <1>4 DEF Numbered, Owed
<1>6. Subscribed'
  BY <1>1 DEF Subscribed, pollVars
<1>7. OnItsWay'
  BY <1>1, <1>3 DEF OnItsWay, pollVars
<1>. QED
  BY <1>2, <1>5, <1>6, <1>7

\* Every step preserves the invariant.
LEMMA NextInv == Inv /\ [Next]_vars => Inv'
<1>. SUFFICES ASSUME Inv, [Next]_vars PROVE Inv'
  OBVIOUS
<1>1. CASE RoomOperate
  BY <1>1, OperateInv
<1>2. CASE RoomDeliver
  BY <1>2, DeliverInv
<1>3. CASE RoomExpire \/ RoomClose \/ UNCHANGED vars
  BY <1>3, SweepInv
<1>4. ASSUME NEW c \in Clients, Find(c) \/ Handle(c) \/ Abandon(c)
                                \/ LookAgain(c, "recheck") \/ LookAgain(c, "timeout")
      PROVE  Inv'
  BY <1>4, IdleInv, JoinInv, ReadInv, TakeInv, LeaveInv DEF Handle
<1>. QED
  BY <1>1, <1>2, <1>3, <1>4 DEF Next

LEMMA Invariant == Spec => []Inv
BY InitInv, NextInv, PTL DEF Spec

\* Every variable keeps its type, and no channel ever holds more than it can.
THEOREM PollTypeCorrect == Spec => []Types
<1>1. Inv => Types
  BY DEF Inv
<1>. QED
  BY <1>1, Invariant, PTL

\* No reveal slips between the subscription and the first look, or out of a
\* full channel: whoever waits although the round is revealed has the reveal
\* in its channel (WaitForReveal).
THEOREM RevealsAreOnTheirWay == Spec => []RevealIsOnItsWay
<1>1. Inv => RevealIsOnItsWay
  <2>. SUFFICES ASSUME Inv, LockFree, phase = "revealed",
                       NEW c \in subs \cup shut, pc[c] = "waiting"
                PROVE  \E i \in DOMAIN queue[c] : \E s \in queue[c][i].state :
                         s.seq = seq /\ s.phase = "revealed"
    BY DEF RevealIsOnItsWay
  <2>1. c \in Clients
    BY DEF Inv, Types
  <2>2. ~Owing(c)
    BY DEF Owing, LockFree
  <2>3. Queued(c)
    BY <2>1, <2>2 DEF Inv, OnItsWay
  <2>. QED
    BY <2>3 DEF Queued, Elements, Shows
<1>. QED
  BY <1>1, Invariant, PTL
===========================================================================
