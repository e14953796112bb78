------------------------ MODULE EventStreamProofs ------------------------
(***************************************************************************)
(* For any number of clients, buffers of any length and any number of      *)
(* events: a stream always has the latest change on its way, and it never  *)
(* goes back.                                                              *)
(***************************************************************************)
EXTENDS EventStream, DataTheorems

Snapshots ==
  [revision : Int, seq : Nat, phase : {"none", "voting", "revealed"}]
Events == [id : Nat, state : SUBSET Snapshots]
Deliveries == [to : Clients, event : Events]
Labels == {"start", "found", "subscribed", "reading", "writing",
           "streaming", "leaving", "gone"}

\* A handler that has sent something, or is about to.
Active == {"writing", "streaming"}

---------------------------------------------------------------------------
(* The invariant.                                                          *)

\* The events between the room and the handlers, and the snapshots anywhere.
InFlight ==
  {e \in Events : \/ \E c \in Clients : e \in Elements(queue[c])
                  \/ \E d \in sending : e = d.event}
Seen ==
  {s \in Snapshots : \/ s = Snapshot \/ s = NoSnapshot
                     \/ \E c \in Clients : s = shown[c] \/ s \in item[c]
                     \/ \E e \in InFlight : s \in e.state}

Types ==
  /\ seq \in Nat /\ phase \in {"voting", "revealed"}
  /\ closed \in BOOLEAN /\ stored \in BOOLEAN
  /\ eventSeq \in Nat /\ eventSeq <= MaxRevision
  /\ lastChange \in Nat /\ lastChange <= eventSeq
  /\ subs \subseteq Clients /\ shut \subseteq Clients /\ draining \subseteq Clients
  /\ queue \in [Clients -> Seq(Events)]
  /\ \A c \in Clients : Len(queue[c]) <= SubBuffer
  /\ sending \subseteq Deliveries
  /\ pc \in [Clients -> Labels]
  /\ last \in [Clients -> Int]
  /\ item \in [Clients -> SUBSET Snapshots]
  /\ shown \in [Clients -> Snapshots]

\* t may be what the room shows after s.
NotAfter(s, t) ==
  /\ s.seq <= t.seq
  /\ s.seq = t.seq /\ s.phase = "revealed" => t.phase = "revealed"

\* All snapshots are of one history, and nothing has changed since the last
\* change.
OneHistory ==
  /\ \A s \in Seen : /\ s.revision <= eventSeq
                     /\ s.revision >= lastChange => s.seq = seq /\ s.phase = phase
  /\ \A s, t \in Seen : s.revision <= t.revision => NotAfter(s, t)

\* An event has the snapshot of its moment, or none.
Truthful ==
  \A e \in InFlight :
    /\ 1 <= e.id /\ e.id <= eventSeq
    /\ e.state # {} => e.id <= lastChange
    /\ \A s \in e.state : s.revision = e.id /\ e.state = {s}

\* What is sent comes after what is queued, and that after what was taken.
Ordered ==
  /\ \A c \in Clients : Sorted(queue[c])
  /\ \A d \in sending : \A e \in Elements(queue[d.to]) : e.id < d.event.id
  /\ \A d, x \in sending : d.event.id = x.event.id => d.event = x.event
  /\ \A d \in sending : last[d.to] < d.event.id

\* The last change is still to be sent to c.
Owing(c) == \E d \in sending : /\ d.to = c /\ d.event.id = lastChange
                               /\ d.event.state # {}

\* Whoever is owed a snapshot, or loses some, is owed the last change.
Owed ==
  /\ \A d \in sending : d.event.state # {} => Owing(d.to)
  /\ \A c \in draining : Owing(c)

\* The variables of one handler.
Sound(c) ==
  /\ pc[c] \in {"subscribed", "reading", "writing", "streaming"} => c \in subs \cup shut
  /\ pc[c] \notin Active => shown[c] = NoSnapshot /\ item[c] = {} /\ last[c] = -1
  /\ -1 <= shown[c].revision /\ shown[c].revision <= last[c] /\ last[c] <= eventSeq
  /\ pc[c] = "streaming" => item[c] = {}
  /\ \A s \in item[c] : /\ item[c] = {s} /\ s.revision = last[c]
                        /\ shown[c].revision < s.revision

Handlers ==
  /\ shut # {} => closed
  /\ \A c \in Clients : Sound(c)

\* The last change is in the channel of c and will be taken from it.
Queued(c) == \E e \in Elements(queue[c]) : /\ e.id = lastChange /\ last[c] < e.id
                                           /\ e.state # {}

\* It has been taken and is shown or about to be.
Taken(c) == \/ \E s \in item[c] : s.revision >= lastChange
            \/ item[c] = {} /\ shown[c].revision >= lastChange

OnItsWay ==
  \A c \in Clients : pc[c] \in Active => Taken(c) \/ Queued(c) \/ Owing(c)

Inv == /\ Types /\ OneHistory /\ Truthful /\ Ordered
       /\ Owed /\ Handlers /\ OnItsWay

\* Where the room stands still, no new snapshot appears and no event, the
\* history stays one and the events stay true.
LEMMA Still ==
  ASSUME Types, OneHistory, Truthful,
         UNCHANGED <<seq, phase, eventSeq, lastChange>>,
         InFlight' \subseteq InFlight, Seen' \subseteq Seen
  PROVE  OneHistory' /\ Truthful'
<1>1. OneHistory'
  <2>1. \A s \in Seen' : /\ s.revision <= eventSeq'
                         /\ s.revision >= lastChange' => s.seq = seq' /\ s.phase = phase'
    BY DEF OneHistory
  <2>2. \A s, t \in Seen' : s.revision <= t.revision => NotAfter(s, t)
    BY DEF OneHistory
  <2>. QED
    BY <2>1, <2>2 DEF OneHistory, NotAfter
<1>2. Truthful'
  BY DEF Truthful
<1>. QED
  BY <1>1, <1>2

\* The initial state.
LEMMA InitInv == Init => Inv
<1>. SUFFICES ASSUME Init PROVE Inv
  OBVIOUS
<1>. USE DEF Init, FanoutInit
<1>1. /\ seq = 1 /\ phase = "voting" /\ closed = FALSE /\ eventSeq = 0 /\ lastChange = 0
      /\ sending = {} /\ draining = {} /\ subs = {} /\ shut = {}
  BY DEF Feed!Init
<1>2. NoSnapshot \in Snapshots /\ Snapshot \in Snapshots
  BY <1>1 DEF NoSnapshot, Snapshot, Snapshots
<1>3. Types
  <2>1. queue \in [Clients -> Seq(Events)] /\ \A c \in Clients : Len(queue[c]) <= SubBuffer
    BY ShortQueues, FanoutAssumption
  <2>2. /\ pc \in [Clients -> Labels] /\ last \in [Clients -> Int]
        /\ item \in [Clients -> SUBSET Snapshots] /\ shown \in [Clients -> Snapshots]
    BY <1>2 DEF Labels
  <2>3. eventSeq <= MaxRevision /\ lastChange <= eventSeq
    BY <1>1, FanoutAssumption
  <2>4. closed \in BOOLEAN /\ stored \in BOOLEAN
    BY <1>1
  <2>. QED
    BY <1>1, <2>1, <2>2, <2>3, <2>4 DEF Types
<1>4. InFlight = {}
  BY <1>1, ShortQueues DEF InFlight
<1>5. Seen \subseteq {Snapshot, NoSnapshot}
  BY <1>4 DEF Seen
<1>6. OneHistory
  BY <1>1, <1>5 DEF OneHistory, NotAfter, Snapshot, NoSnapshot
<1>7. Truthful
  BY <1>4 DEF Truthful
<1>8. Ordered
  BY <1>1, ShortQueues DEF Ordered
<1>9. Owed
  BY <1>1 DEF Owed
<1>10. Handlers
  BY <1>1 DEF Handlers, Sound, Active, NoSnapshot
<1>11. OnItsWay
  BY DEF OnItsWay, Active
<1>. QED
  BY <1>3, <1>6, <1>7, <1>8, <1>9, <1>10, <1>11 DEF Inv

---------------------------------------------------------------------------
(* The room's operations.                                                  *)

\* What an event says: its moment, or, before the reveal that follows it,
\* that the round was blind.
Says(e) ==
  \/ e.state = {}
  \/ e.id = eventSeq' /\ e.state = {Snapshot'}
  \/ /\ e.id < eventSeq' /\ phase = "voting"
     /\ e.state = {[revision |-> e.id, seq |-> seq, phase |-> "voting"]}

\* What the feed promises of an operation.
LEMMA Operations ==
  ASSUME Types, Operate
  PROVE  /\ ~closed /\ closed' = closed /\ sending = {}
         /\ eventSeq' \in Nat /\ eventSeq < eventSeq' /\ eventSeq' <= MaxRevision
         /\ seq' \in Nat /\ phase' \in {"voting", "revealed"}
         /\ NotAfter(Snapshot, Snapshot')
         /\ Snapshot' \in Snapshots
         /\ \A e \in outbox' : /\ e \in Events /\ eventSeq < e.id /\ e.id <= eventSeq'
                               /\ Says(e)
         /\ \A e, f \in outbox' : e.id = f.id => e = f
         /\ \/ /\ lastChange' = eventSeq'
               /\ \E e \in outbox' : e.id = eventSeq' /\ e.state # {}
            \/ /\ lastChange' = lastChange /\ seq' = seq /\ phase' = phase
               /\ \A e \in outbox' : e.state = {}
<1>1. ~closed /\ sending = {} /\ eventSeq' <= MaxRevision
  BY DEF Operate, LockFree, Feed!Change, Feed!Reveal, Feed!ChangeAndReveal,
         Feed!StartRound, Feed!React
<1>. DEFINE S == [revision |-> eventSeq', seq |-> seq', phase |-> phase']
            one == [id |-> eventSeq', state |-> {S}]
            bare == [id |-> eventSeq', state |-> {}]
            blind == [id |-> eventSeq + 1,
                      state |-> {[revision |-> eventSeq + 1, seq |-> seq, phase |-> "voting"]}]
<1>2. Snapshot' = S
  BY DEF Snapshot
<1>3. lastChange' = IF \E e \in outbox' : e.state # {} THEN eventSeq' ELSE lastChange
  BY DEF Operate
<1>4. eventSeq \in Nat /\ seq \in Nat /\ phase \in {"voting", "revealed"}
  BY DEF Types
<1>5. \/ Feed!Change \/ Feed!Reveal \/ Feed!ChangeAndReveal
      \/ Feed!StartRound \/ Feed!React
  BY DEF Operate
<1>6. \/ /\ eventSeq' = eventSeq + 1 /\ outbox' = {one}
         /\ \/ seq' = seq /\ phase' = phase
            \/ seq' = seq /\ phase' = "revealed"
            \/ seq' = seq + 1 /\ phase' = "voting"
      \/ /\ eventSeq' = eventSeq + 2 /\ outbox' = {blind, one}
         /\ phase = "voting" /\ seq' = seq /\ phase' = "revealed"
      \/ /\ eventSeq' = eventSeq + 1 /\ outbox' = {bare}
         /\ seq' = seq /\ phase' = phase
  BY <1>5 DEF Feed!Change, Feed!Reveal, Feed!ChangeAndReveal, Feed!StartRound,
         Feed!React, Feed!Publish, Feed!Carrying, Feed!Bare
<1>7. closed' = closed
  BY <1>1, <1>5 DEF Feed!Change, Feed!Reveal, Feed!ChangeAndReveal, Feed!StartRound,
         Feed!React
<1>8. /\ eventSeq' \in Nat /\ eventSeq < eventSeq'
      /\ seq' \in Nat /\ phase' \in {"voting", "revealed"}
  BY <1>4, <1>6
<1>9. S \in Snapshots
  BY <1>8 DEF Snapshots
<1>10. NotAfter(Snapshot, S)
  BY <1>4, <1>6 DEF NotAfter, Snapshot
<1>11. one \in Events /\ one.id = eventSeq' /\ one.state = {S} /\ one.state # {}
  BY <1>8, <1>9 DEF Events
<1>12. bare \in Events /\ bare.id = eventSeq' /\ bare.state = {}
  BY <1>8 DEF Events
<1>13. /\ blind \in Events /\ blind.id = eventSeq + 1 /\ blind.state # {}
       /\ blind.state = {[revision |-> blind.id, seq |-> seq, phase |-> "voting"]}
  <2>1. [revision |-> eventSeq + 1, seq |-> seq, phase |-> "voting"] \in Snapshots
    BY <1>4 DEF Snapshots
  <2>2. blind \in Events
    BY <1>4, <2>1 DEF Events
  <2>. QED
    BY <2>2
<1>. HIDE DEF S, one, bare, blind
<1>14. \A e \in outbox' : e \in Events /\ eventSeq < e.id /\ e.id <= eventSeq' /\ Says(e)
  <2>1. one \in outbox' => /\ one \in Events /\ eventSeq < one.id /\ one.id <= eventSeq'
                           /\ Says(one)
    BY <1>2, <1>4, <1>8, <1>11 DEF Says
  <2>2. bare \in outbox' => /\ bare \in Events /\ eventSeq < bare.id /\ bare.id <= eventSeq'
                            /\ Says(bare)
    BY <1>4, <1>8, <1>12 DEF Says
  <2>3. eventSeq' = eventSeq + 2 /\ phase = "voting" =>
          blind \in Events /\ eventSeq < blind.id /\ blind.id <= eventSeq' /\ Says(blind)
    BY <1>4, <1>8, <1>13 DEF Says
  <2>. QED
    BY <1>6, <2>1, <2>2, <2>3
<1>15. \A e, f \in outbox' : e.id = f.id => e = f
  BY <1>4, <1>6, <1>11, <1>12, <1>13
<1>16. \/ /\ lastChange' = eventSeq'
          /\ \E e \in outbox' : e.id = eventSeq' /\ e.state # {}
       \/ /\ lastChange' = lastChange /\ seq' = seq /\ phase' = phase
          /\ \A e \in outbox' : e.state = {}
  <2>1. CASE one \in outbox'
    BY <1>3, <1>11, <2>1
  <2>2. CASE outbox' = {bare} /\ seq' = seq /\ phase' = phase
    BY <1>3, <1>12, <2>2
  <2>. QED
    BY <1>6, <2>1, <2>2
<1>. QED
  BY <1>1, <1>2, <1>7, <1>8, <1>9, <1>10, <1>14, <1>15, <1>16

\* An operation leaves handlers and channels alone and owes its events to
\* every subscriber.
LEMMA OperateInv == Inv /\ RoomOperate => Inv'
<1>. SUFFICES ASSUME Inv, RoomOperate PROVE Inv'
  OBVIOUS
<1>. USE DEF Inv
<1>1. Operate /\ UNCHANGED handlerVars
  BY DEF RoomOperate
<1>2. /\ ~closed /\ closed' = closed /\ sending = {}
      /\ eventSeq' \in Nat /\ eventSeq < eventSeq' /\ eventSeq' <= MaxRevision
      /\ seq' \in Nat /\ phase' \in {"voting", "revealed"}
      /\ NotAfter(Snapshot, Snapshot')
      /\ Snapshot' \in Snapshots
      /\ \A e \in outbox' : /\ e \in Events /\ eventSeq < e.id /\ e.id <= eventSeq'
                            /\ Says(e)
      /\ \A e, f \in outbox' : e.id = f.id => e = f
      /\ \/ /\ lastChange' = eventSeq'
            /\ \E e \in outbox' : e.id = eventSeq' /\ e.state # {}
         \/ /\ lastChange' = lastChange /\ seq' = seq /\ phase' = phase
            /\ \A e \in outbox' : e.state = {}
  BY <1>1, Operations
<1>3. /\ UNCHANGED <<stored, subs, queue, shut, draining>>
      /\ UNCHANGED <<pc, last, item, shown>>
      /\ sending' = {[to |-> c, event |-> e] : c \in subs, e \in outbox'}
  BY <1>1 DEF Operate, handlerVars
<1>4. \A d \in sending' : d.to \in subs /\ d.event \in outbox'
  BY <1>3
<1>5. \A c \in subs : \A e \in outbox' : \E d \in sending' : d.to = c /\ d.event = e
  <2>1. ASSUME NEW c \in subs, NEW e \in outbox'
        PROVE  \E d \in sending' : d.to = c /\ d.event = e
    <3>1. [to |-> c, event |-> e] \in sending'
      BY <1>3
    <3>. QED
      BY <3>1
  <2>. QED
    BY <2>1
<1>6. /\ eventSeq \in Nat /\ lastChange \in Nat /\ lastChange <= eventSeq /\ seq \in Nat
      /\ lastChange' \in Nat /\ lastChange <= lastChange' /\ lastChange' <= eventSeq'
  BY <1>2 DEF Types
<1>7. Types'
  <2>1. sending' \subseteq Deliveries
    <3>1. \A c \in subs : \A e \in outbox' : [to |-> c, event |-> e] \in Deliveries
      BY <1>2 DEF Types, Deliveries
    <3>. QED
      BY <1>3, <3>1
  <2>2. closed' \in BOOLEAN
    BY <1>2 DEF Types
  <2>. QED
    BY <1>2, <1>3, <1>6, <2>1, <2>2 DEF Types
<1>8. InFlight' \subseteq InFlight \cup outbox'
  BY <1>3, <1>4 DEF InFlight
<1>9. \A e \in InFlight : 1 <= e.id /\ e.id <= eventSeq /\ e.id \in Nat
  BY DEF Truthful, InFlight, Events
<1>10. \A s \in Seen' : \/ s \in Seen
                        \/ s = Snapshot'
                        \/ /\ s.revision < eventSeq' /\ eventSeq < s.revision
                           /\ s.seq = seq /\ s.phase = "voting" /\ phase = "voting"
                           /\ lastChange' = eventSeq' /\ s \in Snapshots
  <2>. SUFFICES ASSUME NEW s \in Seen', s \notin Seen, s # Snapshot'
                PROVE  /\ s.revision < eventSeq' /\ eventSeq < s.revision
                       /\ s.seq = seq /\ s.phase = "voting" /\ phase = "voting"
                       /\ lastChange' = eventSeq' /\ s \in Snapshots
    OBVIOUS
  <2>1. s \in Snapshots
    BY DEF Seen
  <2>2. \E e \in InFlight' : s \in e.state
    BY <1>3 DEF Seen
  <2>3. PICK e \in outbox' : s \in e.state
    BY <1>8, <2>1, <2>2 DEF Seen
  <2>4. /\ e.id < eventSeq' /\ phase = "voting"
        /\ s = [revision |-> e.id, seq |-> seq, phase |-> "voting"]
    BY <1>2, <2>3 DEF Says
  <2>. QED
    BY <1>2, <2>1, <2>3, <2>4
<1>11. OneHistory'
  <2>1. \A s \in Seen : /\ s.revision <= eventSeq /\ s.revision \in Int /\ s.seq \in Nat
                        /\ s.revision >= lastChange => s.seq = seq /\ s.phase = phase
                        /\ NotAfter(s, Snapshot)
    <3>1. \A s \in Seen : /\ s.revision <= eventSeq /\ s.revision \in Int /\ s.seq \in Nat
                          /\ s.revision >= lastChange => s.seq = seq /\ s.phase = phase
      BY DEF OneHistory, Seen, Snapshots
    <3>2. Snapshot \in Seen /\ Snapshot.revision = eventSeq
      BY DEF Seen, Snapshot, Snapshots, Types
    <3>. QED
      BY <3>1, <3>2 DEF OneHistory
  <2>2. \A s \in Seen' : s.revision <= eventSeq' /\ s.revision \in Int
    <3>1. \A s \in Seen' : s.revision \in Int
      BY DEF Seen, Snapshots
    <3>2. Snapshot'.revision = eventSeq'
      BY DEF Snapshot
    <3>. QED
      BY <1>2, <1>6, <1>10, <2>1, <3>1, <3>2
  <2>3. ASSUME NEW s \in Seen', s.revision >= lastChange'
        PROVE  s.seq = seq' /\ s.phase = phase'
    <3>1. CASE s = Snapshot'
      BY <3>1 DEF Snapshot
    <3>2. CASE s \in Seen
      BY <1>2, <1>6, <2>1, <2>3, <3>2
    <3>. QED
      BY <1>2, <1>6, <1>10, <2>2, <2>3, <3>1, <3>2
  <2>4. ASSUME NEW s \in Seen', NEW t \in Seen', s.revision <= t.revision
        PROVE  NotAfter(s, t)
    <3>1. Snapshot'.revision = eventSeq' /\ Snapshot'.seq = seq' /\ Snapshot'.phase = phase'
      BY DEF Snapshot
    <3>2. Snapshot.seq = seq /\ Snapshot.phase = phase
      BY DEF Snapshot
    <3>3. CASE s \in Seen /\ t \in Seen
      BY <2>4, <3>3 DEF OneHistory
    <3>4. CASE s \in Seen /\ t = Snapshot'
      BY <1>2, <1>6, <2>1, <3>1, <3>2, <3>4 DEF NotAfter
    <3>5. CASE s \in Seen /\ t.seq = seq /\ t.phase = "voting" /\ phase = "voting"
      BY <1>6, <2>1, <3>2, <3>5 DEF NotAfter
    <3>6. CASE s = Snapshot' /\ t = Snapshot'
      BY <1>2, <3>1, <3>6 DEF NotAfter
    <3>7. CASE s = Snapshot' /\ t # Snapshot'
      BY <1>2, <1>6, <1>10, <2>1, <2>2, <2>4, <3>1, <3>7
    <3>8. CASE s \notin Seen /\ s # Snapshot' /\ t \in Seen
      BY <1>2, <1>6, <1>10, <2>1, <2>2, <2>4, <3>8
    <3>9. CASE s.seq = seq /\ s.phase = "voting" /\ t.seq = seq
      BY <1>6, <3>9 DEF NotAfter
    <3>10. CASE s.seq = seq /\ s.phase = "voting" /\ t = Snapshot'
      BY <1>2, <1>6, <3>1, <3>2, <3>10 DEF NotAfter
    <3>. QED
      BY <1>10, <3>3, <3>4, <3>5, <3>6, <3>7, <3>8, <3>9, <3>10
  <2>. QED
    BY <2>2, <2>3, <2>4 DEF OneHistory
<1>12. Truthful'
  <2>1. ASSUME NEW e \in InFlight
        PROVE  /\ 1 <= e.id /\ e.id <= eventSeq' /\ (e.state # {} => e.id <= lastChange')
               /\ \A s \in e.state : s.revision = e.id /\ e.state = {s}
    BY <1>2, <1>6, <1>9 DEF Truthful
  <2>2. ASSUME NEW e \in outbox'
        PROVE  /\ 1 <= e.id /\ e.id <= eventSeq' /\ (e.state # {} => e.id <= lastChange')
               /\ \A s \in e.state : s.revision = e.id /\ e.state = {s}
    <3>1. e.id \in Nat /\ eventSeq < e.id /\ e.id <= eventSeq' /\ Says(e)
      BY <1>2 DEF Events
    <3>2. Snapshot'.revision = eventSeq'
      BY DEF Snapshot
    <3>3. \A s \in e.state : s.revision = e.id /\ e.state = {s}
      BY <3>1, <3>2 DEF Says
    <3>. QED
      BY <1>2, <1>6, <3>1, <3>3
  <2>. QED
    BY <1>8, <2>1, <2>2 DEF Truthful
<1>13. Ordered'
  <2>1. \A c \in Clients : \A e \in Elements(queue[c]) : e \in InFlight
    <3>1. \A c \in Clients : \A e \in Elements(queue[c]) : e \in Events
      BY DEF Types, Elements
    <3>. QED
      BY <3>1 DEF InFlight
  <2>2. \A d \in sending' : \A e \in Elements(queue[d.to]) : e.id < d.event.id
    <3>1. \A d \in sending' : d.to \in Clients /\ eventSeq < d.event.id /\ d.event.id \in Nat
      BY <1>2, <1>4 DEF Types, Events
    <3>. QED
      BY <1>6, <1>9, <2>1, <3>1
  <2>3. \A d \in sending' : last[d.to] < d.event.id
    <3>1. \A d \in sending' : d.to \in Clients /\ eventSeq < d.event.id /\ d.event.id \in Nat
      BY <1>2, <1>4 DEF Types, Events
    <3>2. \A c \in Clients : last[c] \in Int /\ last[c] <= eventSeq
      BY DEF Types, Handlers, Sound
    <3>. QED
      BY <1>6, <3>1, <3>2
  <2>4. \A d, x \in sending' : d.event.id = x.event.id => d.event = x.event
    BY <1>2, <1>4
  <2>5. \A c \in Clients : Sorted(queue[c])
    BY DEF Ordered
  <2>. QED
    BY <1>3, <2>2, <2>3, <2>4, <2>5 DEF Ordered
<1>14. \A d \in sending' : d.event.state # {} => Owing(d.to)'
  <2>. SUFFICES ASSUME NEW d \in sending', d.event.state # {}
                PROVE  \E x \in sending' : /\ x.to = d.to /\ x.event.id = lastChange'
                                           /\ x.event.state # {}
    BY DEF Owing
  <2>1. d.to \in subs /\ d.event \in outbox'
    BY <1>4
  <2>2. lastChange' = eventSeq' /\ \E e \in outbox' : e.id = eventSeq' /\ e.state # {}
    BY <1>2, <2>1
  <2>. QED
    BY <1>5, <2>1, <2>2
<1>15. draining = {}
  BY <1>2 DEF Owed, Owing
<1>16. Owed'
  BY <1>3, <1>14, <1>15 DEF Owed
<1>17. Handlers'
  <2>1. shut = {}
    BY <1>2 DEF Handlers
  <2>2. ASSUME NEW c \in Clients
        PROVE  Sound(c)'
    <3>1. Sound(c) /\ last[c] \in Int
      BY DEF Handlers, Types
    <3>2. last[c] <= eventSeq'
      BY <1>2, <1>6, <3>1 DEF Sound
    <3>. QED
      BY <1>3, <3>1, <3>2 DEF Sound
  <2>. QED
    BY <1>3, <2>1, <2>2 DEF Handlers
<1>18. OnItsWay'
  <2>. SUFFICES ASSUME NEW c \in Clients, pc[c] \in Active
                PROVE  Taken(c)' \/ Queued(c)' \/ Owing(c)'
    BY <1>3 DEF OnItsWay
  <2>1. c \in subs
    <3>1. shut = {}
      BY <1>2 DEF Handlers
    <3>. QED
      BY <3>1 DEF Handlers, Sound, Active
  <2>2. CASE lastChange' = eventSeq' /\ \E e \in outbox' : e.id = eventSeq' /\ e.state # {}
    BY <1>5, <2>1, <2>2 DEF Owing
  <2>3. CASE lastChange' = lastChange
    <3>1. Taken(c) \/ Queued(c)
      BY <1>2 DEF OnItsWay, Owing
    <3>2. Taken(c) => Taken(c)'
      BY <1>3, <2>3 DEF Taken
    <3>3. Queued(c) => Queued(c)'
      BY <1>3, <2>3 DEF Queued
    <3>. QED
      BY <3>1, <3>2, <3>3
  <2>. QED
    BY <1>2, <2>2, <2>3
<1>. QED
  BY <1>7, <1>11, <1>12, <1>13, <1>16, <1>17, <1>18

---------------------------------------------------------------------------
(* Deliveries.                                                             *)

\* What no delivery touches.
Elsewhere == <<seq, phase, closed, eventSeq, stored, lastChange, subs, shut,
               pc, last, item, shown>>

\* Whoever is owed the last change is still owed it when another event, or an
\* event of another client, has been delivered.
LEMMA StillOwing ==
  ASSUME Inv, NEW d \in sending, Delivered(d), lastChange' = lastChange,
         NEW c \in Clients, Owing(c),
         d.to # c \/ d.event.id # lastChange \/ d.event.state = {}
  PROVE  Owing(c)'
<1>1. PICK x \in sending : x.to = c /\ x.event.id = lastChange /\ x.event.state # {}
  BY DEF Owing
<1>2. x # d
  BY <1>1
<1>3. x \in sending'
  BY <1>2 DEF Delivered
<1>. QED
  BY <1>1, <1>3 DEF Owing

\* A delivery in the order of events leaves the last change owed to those who
\* are owed more.
LEMMA DueOwed ==
  ASSUME Inv, NEW d \in sending, Due(d), Delivered(d), lastChange' = lastChange
  PROVE  \A y \in sending' : y.event.state # {} => Owing(y.to)'
<1>. SUFFICES ASSUME NEW y \in sending', y.event.state # {}
              PROVE  Owing(y.to)'
  OBVIOUS
<1>1. y \in sending /\ y # d
  BY DEF Delivered
<1>2. Owing(y.to) /\ y.to \in Clients
  BY <1>1 DEF Inv, Owed, Types, Deliveries
<1>3. CASE d.to # y.to \/ d.event.id # lastChange
  BY <1>2, <1>3, StillOwing
<1>4. CASE d.to = y.to /\ d.event.id = lastChange
  <2>1. y.event \in InFlight /\ y.event.id \in Nat /\ d.event.id \in Nat
    BY <1>1 DEF Inv, Types, Deliveries, Events, InFlight
  <2>2. y.event.id <= lastChange /\ lastChange <= y.event.id
    BY <1>1, <1>4, <2>1 DEF Inv, Truthful, Due
  <2>3. y.event = d.event
    BY <1>1, <1>4, <2>1, <2>2 DEF Inv, Ordered
  <2>4. y = d
    <3>1. y \in Deliveries /\ d \in Deliveries
      BY <1>1 DEF Inv, Types
    <3>2. \A x \in Deliveries : x = [to |-> x.to, event |-> x.event]
      BY DEF Deliveries
    <3>3. y = [to |-> y.to, event |-> y.event] /\ d = [to |-> d.to, event |-> d.event]
      BY <3>1, <3>2
    <3>. QED
      BY <1>4, <2>3, <3>3
  <2>. QED
    BY <1>1, <2>4
<1>. QED
  BY <1>3, <1>4

\* A delivery is its receiver and its event.
LEMMA SameDelivery ==
  ASSUME NEW y \in Deliveries, NEW d \in Deliveries, y.to = d.to, y.event = d.event
  PROVE  y = d
<1>1. /\ y = [to |-> y.to, event |-> y.event]
      /\ d = [to |-> d.to, event |-> d.event]
  BY DEF Deliveries
<1>. QED
  BY <1>1

\* An event goes into a channel that has room for it.
LEMMA EnqueueInv ==
  ASSUME Inv, NEW d \in sending, Due(d), Delivered(d), UNCHANGED Elsewhere,
         Len(queue[d.to]) < SubBuffer,
         queue' = [queue EXCEPT ![d.to] = Append(queue[d.to], d.event)],
         draining' = {}
  PROVE  Inv'
<1>. USE DEF Inv
<1>1. d.to \in Clients /\ d.event \in Events /\ d.event \in InFlight
  BY DEF Types, Deliveries, InFlight
<1>2. /\ UNCHANGED <<seq, phase, closed, eventSeq, stored, lastChange, subs, shut>>
      /\ UNCHANGED <<pc, last, item, shown>>
      /\ sending' \subseteq sending
  BY DEF Elsewhere, Delivered
<1>. DEFINE q == queue[d.to]
            e == d.event
<1>3. /\ q \in Seq(Events) /\ Append(q, e) \in Seq(Events)
      /\ Len(Append(q, e)) = Len(q) + 1
      /\ Elements(Append(q, e)) = Elements(q) \cup {e}
      /\ Sorted(q) /\ (\A x \in Elements(q) : x.id < e.id) => Sorted(Append(q, e))
  <2>1. q \in Seq(Events)
    BY <1>1 DEF Types
  <2>. HIDE DEF q, e
  <2>. QED
    BY <1>1, <2>1, AppendElements DEF e
<1>4. /\ queue'[d.to] = Append(q, e)
      /\ \A c \in Clients \ {d.to} : queue'[c] = queue[c]
      /\ queue' \in [Clients -> Seq(Events)]
  BY <1>1, <1>3 DEF Types
<1>5. Len(queue'[d.to]) <= SubBuffer
  <2>1. Len(q) \in Nat /\ SubBuffer \in Nat
    BY <1>3, FanoutAssumption
  <2>. QED
    BY <1>3, <1>4, <2>1
<1>6. \A c \in Clients : /\ Elements(queue[c]) \subseteq Elements(queue'[c])
                         /\ Elements(queue'[c]) \subseteq Elements(queue[c]) \cup {e}
                         /\ c # d.to => Elements(queue'[c]) = Elements(queue[c])
  BY <1>3, <1>4
<1>7. e \in Elements(queue'[d.to])
  BY <1>3, <1>4
<1>. HIDE DEF q, e
<1>8. Types'
  <2>1. \A c \in Clients : Len(queue'[c]) <= SubBuffer
    BY <1>4, <1>5 DEF Types
  <2>. QED
    BY <1>2, <1>4, <2>1 DEF Types
<1>9. InFlight' \subseteq InFlight
  BY <1>1, <1>2, <1>6 DEF InFlight, e
<1>10. Seen' \subseteq Seen
  BY <1>2, <1>9 DEF Seen, Snapshot
<1>11. OneHistory' /\ Truthful'
  BY <1>2, <1>9, <1>10, Still
<1>12. Ordered'
  <2>1. \A c \in Clients : Sorted(queue'[c])
    <3>1. Sorted(queue'[d.to])
      BY <1>1, <1>3, <1>4 DEF Ordered, q, e
    <3>. QED
      BY <1>4, <3>1 DEF Ordered
  <2>2. ASSUME NEW y \in sending', NEW x \in Elements(queue'[y.to])
        PROVE  x.id < y.event.id
    <3>1. y \in sending /\ y # d /\ y.to \in Clients /\ y.event.id \in Nat /\ e.id \in Nat
      BY <1>1 DEF Delivered, Types, Deliveries, Events, e
    <3>2. CASE x \in Elements(queue[y.to])
      BY <3>1, <3>2 DEF Ordered
    <3>3. CASE x = e /\ y.to = d.to
      <4>1. e.id <= y.event.id
        BY <3>1 DEF Due, e
      <4>2. e.id # y.event.id
        <5>1. ASSUME e.id = y.event.id PROVE FALSE
          <6>1. y.event = d.event
            BY <3>1, <5>1 DEF Ordered, e
          <6>2. y \in Deliveries /\ d \in Deliveries
            BY <3>1 DEF Types
          <6>3. y = d
            BY <3>3, <6>1, <6>2, SameDelivery
          <6>. QED
            BY <3>1, <6>3
        <5>. QED
          BY <5>1
      <4>. QED
        BY <3>1, <3>3, <4>1, <4>2
    <3>. QED
      BY <1>6, <3>1, <3>2, <3>3
  <2>3. \A y, x \in sending' : y.event.id = x.event.id => y.event = x.event
    BY <1>2 DEF Ordered
  <2>4. \A y \in sending' : last'[y.to] < y.event.id
    BY <1>2 DEF Ordered
  <2>. QED
    BY <2>1, <2>2, <2>3, <2>4 DEF Ordered
<1>13. Owed'
  BY <1>2, DueOwed DEF Owed
<1>14. Handlers'
  BY <1>2 DEF Handlers, Sound
<1>15. OnItsWay'
  <2>. SUFFICES ASSUME NEW c \in Clients, pc[c] \in Active
                PROVE  Taken(c)' \/ Queued(c)' \/ Owing(c)'
    BY <1>2 DEF OnItsWay
  <2>1. Taken(c) => Taken(c)'
    BY <1>2 DEF Taken
  <2>2. Queued(c) => Queued(c)'
    BY <1>2, <1>6 DEF Queued
  <2>3. CASE Owing(c) /\ d.to = c /\ d.event.id = lastChange /\ d.event.state # {}
    <3>1. last[c] < e.id
      BY <2>3 DEF Ordered, e
    <3>. QED
      BY <1>2, <1>7, <2>3, <3>1 DEF Queued, e
  <2>4. CASE Owing(c) /\ (d.to # c \/ d.event.id # lastChange \/ d.event.state = {})
    BY <1>2, <2>4, StillOwing
  <2>. QED
    BY <2>1, <2>2, <2>3, <2>4 DEF OnItsWay
<1>. QED
  BY <1>8, <1>11, <1>12, <1>13, <1>14, <1>15

\* A reaction is lost.
LEMMA DropInv ==
  ASSUME Inv, NEW d \in sending, Drop(d), UNCHANGED handlerVars
  PROVE  Inv'
<1>. USE DEF Inv
<1>1. /\ Due(d) /\ Delivered(d) /\ d.event.state = {} /\ draining = {} /\ draining' = {}
      /\ UNCHANGED <<seq, phase, closed, eventSeq, stored, lastChange, subs, shut>>
      /\ UNCHANGED <<pc, last, item, shown, queue>>
      /\ sending' \subseteq sending
  BY DEF Drop, roomVars, handlerVars, Delivered
<1>2. Types'
  BY <1>1 DEF Types
<1>3. InFlight' \subseteq InFlight
  BY <1>1 DEF InFlight
<1>4. Seen' \subseteq Seen
  BY <1>1, <1>3 DEF Seen, Snapshot
<1>5. OneHistory' /\ Truthful'
  BY <1>1, <1>3, <1>4, Still
<1>6. Ordered'
  BY <1>1 DEF Ordered
<1>7. Owed'
  BY <1>1, DueOwed DEF Owed
<1>8. Handlers'
  BY <1>1 DEF Handlers, Sound
<1>9. OnItsWay'
  <2>. SUFFICES ASSUME NEW c \in Clients, pc[c] \in Active
                PROVE  Taken(c)' \/ Queued(c)' \/ Owing(c)'
    BY <1>1 DEF OnItsWay
  <2>1. Taken(c) => Taken(c)'
    BY <1>1 DEF Taken
  <2>2. Queued(c) => Queued(c)'
    BY <1>1 DEF Queued
  <2>3. Owing(c) => Owing(c)'
    BY <1>1, StillOwing
  <2>. QED
    BY <2>1, <2>2, <2>3 DEF OnItsWay
<1>. QED
  BY <1>2, <1>5, <1>6, <1>7, <1>8, <1>9

\* A full channel is about to be emptied.
LEMMA MakeRoomInv ==
  ASSUME Inv, NEW d \in sending, MakeRoom(d), UNCHANGED handlerVars
  PROVE  Inv'
<1>. USE DEF Inv
<1>1. /\ d.event.state # {} /\ draining' = {d.to}
      /\ UNCHANGED <<seq, phase, closed, eventSeq, stored, lastChange, subs, shut>>
      /\ UNCHANGED <<pc, last, item, shown, queue, sending>>
  BY DEF MakeRoom, roomVars, handlerVars
<1>2. Types'
  <2>1. d.to \in Clients
    BY DEF Types, Deliveries
  <2>. QED
    BY <1>1, <2>1 DEF Types
<1>3. InFlight' = InFlight
  BY <1>1 DEF InFlight
<1>4. Seen' \subseteq Seen
  BY <1>1, <1>3 DEF Seen, Snapshot
<1>5. OneHistory' /\ Truthful'
  BY <1>1, <1>3, <1>4, Still
<1>6. Ordered'
  BY <1>1 DEF Ordered
<1>7. Owed'
  BY <1>1 DEF Owed, Owing
<1>8. Handlers'
  BY <1>1 DEF Handlers, Sound
<1>9. OnItsWay'
  BY <1>1 DEF OnItsWay, Taken, Queued, Owing
<1>. QED
  BY <1>2, <1>5, <1>6, <1>7, <1>8, <1>9

\* One event is thrown out of it.
LEMMA DrainInv ==
  ASSUME Inv, NEW c \in Clients, DrainOne(c), UNCHANGED handlerVars
  PROVE  Inv'
<1>. USE DEF Inv
<1>1. /\ c \in draining /\ queue[c] # <<>>
      /\ queue' = [queue EXCEPT ![c] = Tail(queue[c])]
      /\ UNCHANGED <<seq, phase, closed, eventSeq, stored, lastChange, subs, shut>>
      /\ UNCHANGED <<pc, last, item, shown, sending, draining>>
  BY DEF DrainOne, roomVars, handlerVars
<1>2. /\ Tail(queue[c]) \in Seq(Events) /\ Len(Tail(queue[c])) <= Len(queue[c])
      /\ Elements(Tail(queue[c])) \subseteq Elements(queue[c])
      /\ Sorted(Tail(queue[c]))
  BY <1>1, TailElements DEF Types, Ordered
<1>3. /\ queue'[c] = Tail(queue[c])
      /\ \A k \in Clients \ {c} : queue'[k] = queue[k]
      /\ queue' \in [Clients -> Seq(Events)]
  BY <1>1, <1>2 DEF Types
<1>4. Types'
  <2>1. \A k \in Clients : Len(queue'[k]) <= SubBuffer
    <3>1. Len(Tail(queue[c])) \in Int /\ Len(queue[c]) \in Int /\ SubBuffer \in Int
      BY <1>2, FanoutAssumption DEF Types
    <3>2. Len(queue'[c]) <= SubBuffer
      <4>1. Len(queue[c]) <= SubBuffer
        BY DEF Types
      <4>. QED
        BY <1>2, <1>3, <3>1, <4>1
    <3>3. \A k \in Clients \ {c} : Len(queue'[k]) <= SubBuffer
      BY <1>3 DEF Types
    <3>. QED
      BY <3>2, <3>3
  <2>. QED
    BY <1>1, <1>3, <2>1 DEF Types
<1>5. \A k \in Clients : Elements(queue'[k]) \subseteq Elements(queue[k]) /\ Sorted(queue'[k])
  BY <1>2, <1>3 DEF Ordered
<1>6. InFlight' \subseteq InFlight
  BY <1>1, <1>5 DEF InFlight
<1>7. Seen' \subseteq Seen
  BY <1>1, <1>6 DEF Seen, Snapshot
<1>8. OneHistory' /\ Truthful'
  BY <1>1, <1>6, <1>7, Still
<1>9. Ordered'
  <2>1. \A d \in sending : d.to \in Clients
    BY DEF Types, Deliveries
  <2>2. \A d \in sending' : \A e \in Elements(queue'[d.to]) : e.id < d.event.id
    BY <1>1, <1>5, <2>1 DEF Ordered
  <2>. QED
    BY <1>1, <1>5, <2>2 DEF Ordered
<1>10. Owed'
  BY <1>1 DEF Owed, Owing
<1>11. Handlers'
  BY <1>1 DEF Handlers, Sound
<1>12. OnItsWay'
  <2>. SUFFICES ASSUME NEW k \in Clients, pc[k] \in Active
                PROVE  Taken(k)' \/ Queued(k)' \/ Owing(k)'
    BY <1>1 DEF OnItsWay
  <2>1. Taken(k) => Taken(k)'
    BY <1>1 DEF Taken
  <2>2. Owing(k) => Owing(k)'
    BY <1>1 DEF Owing
  <2>3. k # c /\ Queued(k) => Queued(k)'
    BY <1>1, <1>3 DEF Queued
  <2>4. Owing(c)
    BY <1>1 DEF Owed
  <2>. QED
    BY <2>1, <2>2, <2>3, <2>4 DEF OnItsWay
<1>. QED
  BY <1>4, <1>8, <1>9, <1>10, <1>11, <1>12

\* Every branch of fanoutLocked.
LEMMA DeliverInv == Inv /\ RoomDeliver => Inv'
<1>. SUFFICES ASSUME Inv, Deliver, UNCHANGED handlerVars PROVE Inv'
  BY DEF RoomDeliver
<1>1. ASSUME NEW d \in sending, Send(d)
      PROVE  Inv'
  <2>1. /\ Due(d) /\ Delivered(d) /\ UNCHANGED Elsewhere /\ draining' = {}
        /\ Len(queue[d.to]) < SubBuffer
        /\ queue' = [queue EXCEPT ![d.to] = Append(queue[d.to], d.event)]
    BY <1>1 DEF Send, Elsewhere, roomVars, handlerVars
  <2>. QED
    BY <2>1, EnqueueInv
<1>2. ASSUME NEW d \in sending, SendAfterDrain(d)
      PROVE  Inv'
  <2>1. /\ Due(d) /\ Delivered(d) /\ UNCHANGED Elsewhere /\ draining' = {}
        /\ queue[d.to] = <<>>
        /\ queue' = [queue EXCEPT ![d.to] = <<d.event>>]
    BY <1>2 DEF SendAfterDrain, Elsewhere, roomVars, handlerVars
  <2>2. <<d.event>> = Append(queue[d.to], d.event) /\ Len(queue[d.to]) < SubBuffer
    BY <2>1, FanoutAssumption
  <2>. QED
    BY <2>1, <2>2, EnqueueInv
<1>. QED
  BY <1>1, <1>2, DropInv, MakeRoomInv, DrainInv DEF Deliver

---------------------------------------------------------------------------
(* Handlers.                                                               *)

\* What a step of the handler of c leaves alone: the room, what the room
\* owes, and everything of the other handlers.
StepOf(c) ==
  /\ UNCHANGED <<seq, phase, closed, eventSeq, stored, lastChange, sending, draining>>
  /\ pc' \in [Clients -> Labels] /\ last' \in [Clients -> Int]
  /\ item' \in [Clients -> SUBSET Snapshots] /\ shown' \in [Clients -> Snapshots]
  /\ \A k \in Clients \ {c} : /\ pc'[k] = pc[k] /\ last'[k] = last[k]
                              /\ item'[k] = item[k] /\ shown'[k] = shown[k]

\* It may take events from its channel,
TakesFrom(c) ==
  /\ queue' \in [Clients -> Seq(Events)]
  /\ \A k \in Clients \ {c} : queue'[k] = queue[k]
  /\ Len(queue'[c]) <= Len(queue[c]) /\ Sorted(queue'[c])
  /\ Elements(queue'[c]) \subseteq Elements(queue[c])

\* and subscribe or cancel.
Subscribes(c) ==
  /\ subs' \subseteq Clients /\ shut' \subseteq Clients
  /\ (subs \cup shut) \ {c} \subseteq subs' \cup shut'
  /\ shut' # {} => closed

LEMMA HandlerStep ==
  ASSUME Inv, NEW c \in Clients, StepOf(c), TakesFrom(c), Subscribes(c),
         shown'[c] \in Seen, item'[c] \subseteq Seen,
         Sound(c)',
         \A d \in sending : d.to = c => last'[c] < d.event.id,
         pc'[c] \in Active => Taken(c)' \/ Queued(c)' \/ Owing(c)
  PROVE  Inv'
<1>. USE DEF Inv
<1>1. UNCHANGED <<seq, phase, closed, eventSeq, stored, lastChange, sending, draining>>
  BY DEF StepOf
<1>2. Types'
  <2>1. \A k \in Clients : Len(queue'[k]) <= SubBuffer
    <3>1. Len(queue'[c]) \in Int /\ Len(queue[c]) \in Int /\ SubBuffer \in Int
      BY FanoutAssumption DEF Types, TakesFrom
    <3>2. Len(queue'[c]) <= SubBuffer
      <4>1. Len(queue[c]) <= SubBuffer /\ Len(queue'[c]) <= Len(queue[c])
        BY DEF Types, TakesFrom
      <4>. QED
        BY <3>1, <4>1
    <3>3. \A k \in Clients \ {c} : Len(queue'[k]) <= SubBuffer
      BY DEF Types, TakesFrom
    <3>. QED
      BY <3>2, <3>3
  <2>2. queue' \in [Clients -> Seq(Events)] /\ subs' \subseteq Clients /\ shut' \subseteq Clients
    BY DEF TakesFrom, Subscribes
  <2>3. /\ pc' \in [Clients -> Labels] /\ last' \in [Clients -> Int]
        /\ item' \in [Clients -> SUBSET Snapshots] /\ shown' \in [Clients -> Snapshots]
    BY DEF StepOf
  <2>. QED
    BY <1>1, <2>1, <2>2, <2>3 DEF Types
<1>3. \A k \in Clients : Elements(queue'[k]) \subseteq Elements(queue[k]) /\ Sorted(queue'[k])
  BY DEF TakesFrom, Ordered
<1>4. InFlight' \subseteq InFlight
  BY <1>1, <1>3 DEF InFlight
<1>5. Seen' \subseteq Seen
  <2>. SUFFICES ASSUME NEW s \in Seen' PROVE s \in Seen
    OBVIOUS
  <2>1. s \in Snapshots
    BY DEF Seen
  <2>2. CASE s = Snapshot' \/ s = NoSnapshot \/ \E e \in InFlight' : s \in e.state
    BY <1>1, <1>4, <2>1, <2>2 DEF Seen, Snapshot
  <2>3. CASE \E k \in Clients : s = shown'[k] \/ s \in item'[k]
    <3>1. PICK k \in Clients : s = shown'[k] \/ s \in item'[k]
      BY <2>3
    <3>2. CASE k = c
      BY <3>1, <3>2
    <3>3. CASE k # c
      BY <2>1, <3>1, <3>3 DEF StepOf, Seen
    <3>. QED
      BY <3>2, <3>3
  <2>. QED
    BY <2>2, <2>3 DEF Seen
<1>6. OneHistory' /\ Truthful'
  BY <1>1, <1>4, <1>5, Still
<1>7. Ordered'
  <2>1. \A d \in sending : d.to \in Clients
    BY DEF Types, Deliveries
  <2>2. \A d \in sending' : \A e \in Elements(queue'[d.to]) : e.id < d.event.id
    BY <1>1, <1>3, <2>1 DEF Ordered
  <2>3. \A d \in sending' : last'[d.to] < d.event.id
    BY <1>1, <2>1 DEF Ordered, StepOf
  <2>. QED
    BY <1>1, <1>3, <2>2, <2>3 DEF Ordered
<1>8. Owed'
  BY <1>1 DEF Owed, Owing
<1>9. Handlers'
  <2>1. \A k \in Clients \ {c} : Sound(k)'
    <3>. SUFFICES ASSUME NEW k \in Clients \ {c} PROVE Sound(k)'
      OBVIOUS
    <3>1. Sound(k)
      BY DEF Handlers
    <3>2. pc'[k] = pc[k] /\ last'[k] = last[k] /\ item'[k] = item[k] /\ shown'[k] = shown[k]
      BY DEF StepOf
    <3>3. k \in subs \cup shut => k \in subs' \cup shut'
      BY DEF Subscribes
    <3>. QED
      BY <1>1, <3>1, <3>2, <3>3 DEF Sound
  <2>. QED
    BY <1>1, <2>1 DEF Handlers, Subscribes
<1>10. OnItsWay'
  <2>. SUFFICES ASSUME NEW k \in Clients, pc'[k] \in Active
                PROVE  Taken(k)' \/ Queued(k)' \/ Owing(k)'
    BY DEF OnItsWay
  <2>1. Owing(k) => Owing(k)'
    BY <1>1 DEF Owing
  <2>2. CASE k = c
    BY <2>1, <2>2
  <2>3. CASE k # c
    <3>1. /\ pc'[k] = pc[k] /\ last'[k] = last[k] /\ item'[k] = item[k]
          /\ shown'[k] = shown[k] /\ queue'[k] = queue[k]
      BY <2>3 DEF StepOf, TakesFrom
    <3>2. Taken(k) \/ Queued(k) \/ Owing(k)
      BY <3>1 DEF OnItsWay
    <3>3. (Taken(k) => Taken(k)') /\ (Queued(k) => Queued(k)')
      BY <1>1, <3>1 DEF Taken, Queued
    <3>. QED
      BY <2>1, <3>2, <3>3
  <2>. QED
    BY <2>2, <2>3
<1>. QED
  BY <1>2, <1>6, <1>7, <1>8, <1>9, <1>10

\* The parts of a step that does not receive, or does not subscribe.
LEMMA KeepsChannel ==
  ASSUME Inv, NEW c \in Clients
  PROVE  /\ UNCHANGED queue => TakesFrom(c)
         /\ UNCHANGED <<subs, shut, closed>> => Subscribes(c)
<1>1. UNCHANGED queue => TakesFrom(c)
  <2>1. Len(queue[c]) \in Int
    BY DEF Inv, Types
  <2>. QED
    BY <2>1 DEF Inv, Types, TakesFrom, Ordered
<1>2. UNCHANGED <<subs, shut, closed>> => Subscribes(c)
  BY DEF Inv, Types, Subscribes, Handlers
<1>. QED
  BY <1>1, <1>2

\* Snapshots that are there.
LEMMA SeenSnapshots ==
  ASSUME Types
  PROVE  /\ Snapshot \in Seen /\ NoSnapshot \in Seen
         /\ \A c \in Clients : shown[c] \in Seen /\ item[c] \subseteq Seen
         /\ \A c \in Clients : \A e \in Elements(queue[c]) : e \in InFlight /\ e.state \subseteq Seen
         /\ Seen \subseteq Snapshots
<1>1. Snapshot \in Snapshots /\ NoSnapshot \in Snapshots
  BY DEF Types, Snapshot, NoSnapshot, Snapshots
<1>2. \A c \in Clients : \A e \in Elements(queue[c]) : e \in InFlight /\ e.state \subseteq Snapshots
  <2>1. \A c \in Clients : \A e \in Elements(queue[c]) : e \in Events
    BY DEF Types, Elements
  <2>. QED
    BY <2>1 DEF InFlight, Events
<1>. QED
  BY <1>1, <1>2 DEF Seen, Types

\* Before it has sent anything, and after it has returned, a handler only
\* moves on.
LEMMA IdleStep ==
  ASSUME Inv, NEW c \in Clients, NEW l \in Labels \ Active, pc[c] \notin Active,
         Goto(c, l), UNCHANGED <<roomVars, sending, draining, last, item, shown>>,
         TakesFrom(c), Subscribes(c),
         l \in {"subscribed", "reading"} => c \in subs' \cup shut'
  PROVE  Inv'
<1>. USE DEF Inv
<1>1. UNCHANGED <<seq, phase, closed, eventSeq, stored, lastChange, sending, draining>>
  BY DEF roomVars
<1>2. pc' = [pc EXCEPT ![c] = l]
  BY DEF Goto
<1>3. pc'[c] = l /\ StepOf(c)
  BY <1>1, <1>2 DEF StepOf, Types
<1>4. Sound(c)'
  <2>1. Sound(c)
    BY DEF Handlers
  <2>. QED
    BY <1>1, <1>3, <2>1 DEF Sound, Active, Labels
<1>5. shown'[c] \in Seen /\ item'[c] \subseteq Seen
  BY SeenSnapshots
<1>6. \A d \in sending : d.to = c => last'[c] < d.event.id
  BY DEF Ordered
<1>. QED
  BY <1>3, <1>4, <1>5, <1>6, HandlerStep

\* handleEvents up to its first snapshot, and its deferred cancel.
LEMMA IdleInv ==
  ASSUME Inv, NEW c \in Clients, Find(c) \/ Join(c) \/ FindAgain(c) \/ Leave(c)
  PROVE  Inv'
<1>. USE DEF Inv
<1>1. CASE Find(c)
  BY <1>1, IdleStep, KeepsChannel DEF Find, Labels, Active, roomVars, chanVars
<1>2. CASE Join(c)
  <2>1. /\ pc[c] = "found" /\ Goto(c, "subscribed")
        /\ UNCHANGED <<roomVars, sending, draining, last, item, shown>>
        /\ UNCHANGED queue
    BY <1>2 DEF Join, Subscribe
  <2>2. Subscribes(c) /\ c \in subs' \cup shut'
    BY <1>2 DEF Join, Subscribe, Subscribes, Types, Handlers
  <2>. QED
    BY <2>1, <2>2, IdleStep, KeepsChannel DEF Labels, Active
<1>3. CASE FindAgain(c)
  <2>1. /\ pc[c] = "subscribed"
        /\ Goto(c, "reading") \/ Goto(c, "leaving")
        /\ UNCHANGED <<roomVars, sending, draining, last, item, shown>>
        /\ UNCHANGED <<queue, subs, shut, closed>>
    BY <1>3 DEF FindAgain, roomVars, chanVars
  <2>2. c \in subs' \cup shut'
    BY <2>1 DEF Handlers, Sound
  <2>3. TakesFrom(c) /\ Subscribes(c)
    BY <2>1, KeepsChannel
  <2>4. "reading" \in Labels \ Active /\ "leaving" \in Labels \ Active /\ pc[c] \notin Active
    BY <2>1 DEF Labels, Active
  <2>. QED
    BY <2>1, <2>2, <2>3, <2>4, IdleStep
<1>4. CASE Leave(c)
  <2>1. /\ pc[c] = "leaving" /\ Goto(c, "gone")
        /\ UNCHANGED <<roomVars, sending, draining, last, item, shown>>
        /\ subs' = subs \ {c} /\ queue' = [queue EXCEPT ![c] = <<>>] /\ UNCHANGED shut
    BY <1>4 DEF Leave, Cancel
  <2>2. Subscribes(c)
    BY <2>1 DEF Subscribes, Types, Handlers
  <2>3. TakesFrom(c)
    <3>1. queue'[c] = <<>> /\ Len(queue[c]) \in Nat
      BY <2>1 DEF Types
    <3>2. queue' \in [Clients -> Seq(Events)] /\ \A k \in Clients \ {c} : queue'[k] = queue[k]
      BY <2>1, ShortQueues DEF Types
    <3>. QED
      BY <3>1, <3>2, ShortQueues DEF TakesFrom
  <2>. QED
    BY <2>1, <2>2, <2>3, IdleStep DEF Labels, Active
<1>. QED
  BY <1>1, <1>2, <1>3, <1>4

\* The first snapshot is the room of this moment.
LEMMA ReadInv == ASSUME Inv, NEW c \in Clients, ReadState(c) PROVE Inv'
<1>. USE DEF Inv
<1>1. /\ pc[c] = "reading" /\ sending = {}
      /\ last' = [last EXCEPT ![c] = eventSeq] /\ item' = [item EXCEPT ![c] = {Snapshot}]
      /\ pc' = [pc EXCEPT ![c] = "writing"] /\ shown' = shown
      /\ UNCHANGED <<seq, phase, closed, eventSeq, stored, lastChange, sending, draining>>
      /\ UNCHANGED <<queue, subs, shut, closed>>
  BY DEF ReadState, Goto, LockFree, roomVars, chanVars
<1>2. Snapshot \in Snapshots /\ Snapshot \in Seen /\ Snapshot.revision = eventSeq
  BY SeenSnapshots DEF Snapshot
<1>3. eventSeq \in Int /\ lastChange \in Int /\ lastChange <= eventSeq /\ eventSeq >= 0
  BY DEF Types
<1>4. pc'[c] = "writing" /\ last'[c] = eventSeq /\ item'[c] = {Snapshot} /\ shown'[c] = shown[c]
  BY <1>1 DEF Types
<1>5. StepOf(c)
  BY <1>1, <1>2, <1>3 DEF StepOf, Types, Labels
<1>6. shown[c] = NoSnapshot /\ c \in subs \cup shut
  BY <1>1 DEF Handlers, Sound, Active
<1>7. shown[c].revision = -1
  BY <1>6 DEF NoSnapshot
<1>8. Sound(c)'
  BY <1>1, <1>2, <1>3, <1>4, <1>6, <1>7 DEF Sound, Active
<1>9. Taken(c)'
  BY <1>1, <1>2, <1>3, <1>4 DEF Taken
<1>10. shown'[c] \in Seen /\ item'[c] \subseteq Seen
  BY <1>2, <1>4, SeenSnapshots
<1>11. TakesFrom(c) /\ Subscribes(c)
  BY <1>1, KeepsChannel
<1>. QED
  BY <1>1, <1>5, <1>8, <1>9, <1>10, <1>11, HandlerStep

\* An event that is taken is the oldest in the channel.
LEMMA TakeInv == ASSUME Inv, NEW c \in Clients, Take(c) PROVE Inv'
<1>. USE DEF Inv
<1>. DEFINE e == Head(queue[c])
            rest == Tail(queue[c])
<1>1. /\ pc[c] = "streaming" /\ queue[c] # <<>> /\ queue' = [queue EXCEPT ![c] = rest]
      /\ UNCHANGED <<roomVars, subs, shut, sending, draining>>
  BY DEF Take, Receive
<1>2. \/ e.id <= last[c] /\ UNCHANGED handlerVars
      \/ /\ e.id > last[c] /\ last' = [last EXCEPT ![c] = e.id]
         /\ item' = [item EXCEPT ![c] = e.state] /\ pc' = [pc EXCEPT ![c] = "writing"]
         /\ shown' = shown
  BY DEF Take, Goto
<1>3. queue[c] \in Seq(Events) /\ Sorted(queue[c])
  BY DEF Types, Ordered
<1>4. /\ rest \in Seq(Events) /\ Len(rest) <= Len(queue[c]) /\ Sorted(rest)
      /\ e \in Events /\ e \in Elements(queue[c])
      /\ Elements(queue[c]) = {e} \cup Elements(rest)
      /\ \A x \in Elements(rest) : e.id < x.id
  BY <1>1, <1>3, TailElements
<1>. HIDE DEF e, rest
<1>5. UNCHANGED <<seq, phase, closed, eventSeq, stored, lastChange, sending, draining>>
      /\ UNCHANGED <<subs, shut>>
  BY <1>1 DEF roomVars
<1>6. queue'[c] = rest /\ TakesFrom(c)
  BY <1>1, <1>4 DEF Types, TakesFrom
<1>7. Subscribes(c)
  BY <1>5 DEF Subscribes, Types, Handlers
<1>8. Taken(c) \/ Queued(c) \/ Owing(c)
  BY <1>1 DEF OnItsWay, Active
<1>9. Sound(c)
  BY DEF Handlers
<1>10. shown[c] \in Seen /\ item[c] \subseteq Seen /\ e.state \subseteq Seen /\ e \in InFlight
  BY <1>4, SeenSnapshots
<1>11. /\ e.id \in Int /\ last[c] \in Int /\ lastChange \in Int /\ eventSeq \in Int
       /\ shown[c].revision \in Int
  BY <1>4 DEF Types, Events, Snapshots
<1>12. CASE e.id <= last[c] /\ UNCHANGED handlerVars
  <2>1. pc' = pc /\ last' = last /\ item' = item /\ shown' = shown
    BY <1>12 DEF handlerVars
  <2>2. StepOf(c)
    BY <1>5, <2>1 DEF StepOf, Types
  <2>3. Sound(c)'
    BY <1>5, <1>9, <2>1 DEF Sound
  <2>4. Taken(c) => Taken(c)'
    BY <1>5, <2>1 DEF Taken
  <2>5. Queued(c) => Queued(c)'
    BY <1>4, <1>5, <1>6, <1>11, <1>12, <2>1 DEF Queued
  <2>6. \A d \in sending : d.to = c => last'[c] < d.event.id
    BY <2>1 DEF Ordered
  <2>. QED
    BY <1>6, <1>7, <1>8, <1>10, <2>1, <2>2, <2>3, <2>4, <2>5, <2>6, HandlerStep
<1>13. CASE /\ e.id > last[c] /\ last' = [last EXCEPT ![c] = e.id]
            /\ item' = [item EXCEPT ![c] = e.state] /\ pc' = [pc EXCEPT ![c] = "writing"]
            /\ shown' = shown
  <2>1. /\ pc'[c] = "writing" /\ last'[c] = e.id /\ item'[c] = e.state
        /\ shown'[c] = shown[c] /\ item[c] = {}
    BY <1>1, <1>9, <1>13 DEF Types, Sound
  <2>2. e.state \in SUBSET Snapshots
    BY <1>4 DEF Events
  <2>3. StepOf(c)
    BY <1>5, <1>11, <1>13, <2>2 DEF StepOf, Types, Labels
  <2>4. /\ 1 <= e.id /\ e.id <= eventSeq
        /\ e.state # {} => e.id <= lastChange
        /\ \A s \in e.state : s.revision = e.id /\ e.state = {s}
    BY <1>10 DEF Truthful
  <2>5. c \in subs \cup shut /\ -1 <= shown[c].revision /\ shown[c].revision <= last[c]
    BY <1>1, <1>9 DEF Sound
  <2>6. shown[c].revision < e.id
    BY <1>11, <1>13, <2>5
  <2>7. Sound(c)'
    BY <1>5, <1>11, <2>1, <2>4, <2>5, <2>6 DEF Sound, Active
  <2>8. Taken(c) => Taken(c)'
    <3>. SUFFICES ASSUME Taken(c) PROVE Taken(c)'
      OBVIOUS
    <3>1. shown[c].revision >= lastChange
      BY <2>1 DEF Taken
    <3>2. e.state = {}
      BY <1>11, <2>4, <2>6, <3>1
    <3>. QED
      BY <1>5, <2>1, <3>1, <3>2 DEF Taken
  <2>9. Queued(c) => Taken(c)' \/ Queued(c)'
    <3>. SUFFICES ASSUME Queued(c) PROVE Taken(c)' \/ Queued(c)'
      OBVIOUS
    <3>1. PICK x \in Elements(queue[c]) : x.id = lastChange /\ last[c] < x.id /\ x.state # {}
      BY DEF Queued
    <3>2. CASE x = e
      <4>1. \E s \in e.state : s.revision = lastChange
        BY <2>4, <3>1, <3>2
      <4>. QED
        BY <1>5, <1>11, <2>1, <4>1 DEF Taken
    <3>3. CASE x \in Elements(rest)
      BY <1>4, <1>5, <1>6, <2>1, <3>1, <3>3 DEF Queued
    <3>. QED
      BY <1>4, <3>2, <3>3
  <2>10. \A d \in sending : d.to = c => last'[c] < d.event.id
    BY <1>4, <2>1 DEF Ordered
  <2>. QED
    BY <1>6, <1>7, <1>8, <1>10, <2>1, <2>3, <2>7, <2>8, <2>9, <2>10, HandlerStep
<1>. QED
  BY <1>2, <1>12, <1>13

\* What is written is shown.
LEMMA WrittenInv == ASSUME Inv, NEW c \in Clients, Written(c) PROVE Inv'
<1>. USE DEF Inv
<1>1. /\ pc[c] = "writing" /\ pc' = [pc EXCEPT ![c] = "streaming"]
      /\ item' = [item EXCEPT ![c] = {}] /\ last' = last
      /\ shown' = [shown EXCEPT ![c] = IF item[c] = {} THEN @ ELSE CHOOSE s \in item[c] : TRUE]
      /\ UNCHANGED <<seq, phase, closed, eventSeq, stored, lastChange, sending, draining>>
      /\ UNCHANGED <<queue, subs, shut, closed>>
  BY DEF Written, Goto, roomVars, chanVars
<1>2. /\ pc'[c] = "streaming" /\ item'[c] = {} /\ last'[c] = last[c]
      /\ item[c] = {} => shown'[c] = shown[c]
      /\ item[c] # {} => shown'[c] \in item[c]
  BY <1>1 DEF Types
<1>3. Sound(c)
  BY DEF Handlers
<1>4. shown'[c] \in Seen
  BY <1>2, SeenSnapshots
<1>5. StepOf(c)
  <2>1. shown'[c] \in Snapshots
    BY <1>4, SeenSnapshots
  <2>2. /\ pc' \in [Clients -> Labels] /\ last' \in [Clients -> Int]
        /\ item' \in [Clients -> SUBSET Snapshots]
    BY <1>1 DEF Types, Labels
  <2>3. shown' = [shown EXCEPT ![c] = shown'[c]]
    BY <1>1 DEF Types
  <2>4. shown' \in [Clients -> Snapshots]
    BY <2>1, <2>3 DEF Types
  <2>5. \A k \in Clients \ {c} : /\ pc'[k] = pc[k] /\ last'[k] = last[k]
                                 /\ item'[k] = item[k] /\ shown'[k] = shown[k]
    BY <1>1 DEF Types
  <2>. QED
    BY <1>1, <2>2, <2>4, <2>5 DEF StepOf
<1>6. /\ last[c] \in Int /\ shown[c].revision \in Int /\ eventSeq \in Int /\ lastChange \in Int
      /\ \A s \in item[c] : s.revision \in Int
  BY DEF Types, Snapshots
<1>7. CASE item[c] = {}
  <2>1. Sound(c)'
    BY <1>1, <1>2, <1>3, <1>7 DEF Sound, Active
  <2>2. Taken(c) => Taken(c)'
    BY <1>1, <1>2, <1>7 DEF Taken
  <2>. QED
    BY <1>1, <1>2, <1>4, <1>5, <2>1, <2>2, HandlerStep, KeepsChannel
       DEF OnItsWay, Active, Queued, Ordered
<1>8. CASE item[c] # {}
  <2>1. shown'[c].revision = last[c] /\ shown'[c].revision \in Int
    BY <1>2, <1>3, <1>6, <1>8 DEF Sound
  <2>2. -1 <= last[c]
    BY <1>3, <1>6 DEF Sound
  <2>3. Sound(c)'
    BY <1>1, <1>2, <1>3, <1>6, <2>1, <2>2 DEF Sound, Active
  <2>4. Taken(c) => Taken(c)'
    <3>1. Taken(c) => last[c] >= lastChange
      BY <1>3, <1>8 DEF Taken, Sound
    <3>. QED
      BY <1>1, <1>2, <2>1, <3>1 DEF Taken
  <2>5. Queued(c) => Queued(c)'
    BY <1>1, <1>2 DEF Queued
  <2>6. Taken(c) \/ Queued(c) \/ Owing(c)
    BY <1>1 DEF OnItsWay, Active
  <2>7. \A d \in sending : d.to = c => last'[c] < d.event.id
    BY <1>2 DEF Ordered
  <2>8. TakesFrom(c) /\ Subscribes(c)
    BY <1>1, KeepsChannel
  <2>. QED
    BY <1>2, <1>4, <1>5, <2>3, <2>4, <2>5, <2>6, <2>7, <2>8, HandlerStep
<1>. QED
  BY <1>7, <1>8

\* A handler that returns forgets everything.
LEMMA ReturnInv == ASSUME Inv, NEW c \in Clients, Return(c) PROVE Inv'
<1>. USE DEF Inv
<1>1. /\ pc' = [pc EXCEPT ![c] = "leaving"] /\ last' = [last EXCEPT ![c] = -1]
      /\ item' = [item EXCEPT ![c] = {}] /\ shown' = [shown EXCEPT ![c] = NoSnapshot]
      /\ UNCHANGED <<seq, phase, closed, eventSeq, stored, lastChange, sending, draining>>
      /\ UNCHANGED <<queue, subs, shut, closed>>
  BY DEF Return, Goto, roomVars, chanVars
<1>2. /\ pc'[c] = "leaving" /\ last'[c] = -1 /\ item'[c] = {} /\ shown'[c] = NoSnapshot
  BY <1>1 DEF Types
<1>3. NoSnapshot \in Snapshots /\ NoSnapshot \in Seen /\ NoSnapshot.revision = -1
  BY SeenSnapshots DEF NoSnapshot
<1>4. StepOf(c)
  BY <1>1, <1>3 DEF StepOf, Types, Labels
<1>5. Sound(c)'
  BY <1>1, <1>2, <1>3 DEF Sound, Active, Types
<1>6. \A d \in sending : d.to = c => last'[c] < d.event.id
  <2>. SUFFICES ASSUME NEW d \in sending, d.to = c PROVE -1 < d.event.id
    BY <1>2
  <2>1. d.event \in Events
    BY DEF Types, Deliveries
  <2>. QED
    BY <2>1 DEF Events
<1>. QED
  BY <1>1, <1>2, <1>3, <1>4, <1>5, <1>6, HandlerStep, KeepsChannel DEF Active

\* Where nothing moves but the store and the closing of the channels,
LEMMA Steady ==
  ASSUME Inv,
         UNCHANGED <<seq, phase, eventSeq, lastChange, sending, draining, queue>>,
         UNCHANGED <<pc, last, item, shown>>,
         closed' \in BOOLEAN, stored' \in BOOLEAN,
         subs' \subseteq Clients, shut' \subseteq Clients,
         subs \cup shut \subseteq subs' \cup shut',
         shut' # {} => closed'
  PROVE  Inv'
<1>. USE DEF Inv
<1>1. Types'
  BY DEF Types
<1>2. InFlight' \subseteq InFlight /\ Seen' \subseteq Seen
  BY DEF InFlight, Seen, Snapshot
<1>3. OneHistory' /\ Truthful'
  BY <1>2, Still
<1>4. Ordered' /\ Owed'
  BY DEF Ordered, Owed, Owing
<1>5. Handlers'
  BY DEF Handlers, Sound
<1>6. OnItsWay'
  BY DEF OnItsWay, Taken, Queued, Owing
<1>. QED
  BY <1>1, <1>3, <1>4, <1>5, <1>6

\* the invariant stays: the sweep takes the room out of the store, and closes
\* its channels.
LEMMA SweepInv == Inv /\ (RoomExpire \/ RoomClose \/ UNCHANGED vars) => Inv'
<1>. SUFFICES ASSUME Inv, RoomExpire \/ RoomClose \/ UNCHANGED vars PROVE Inv'
  OBVIOUS
<1>1. /\ UNCHANGED <<seq, phase, eventSeq, lastChange, sending, draining, queue>>
      /\ UNCHANGED <<pc, last, item, shown>>
  BY DEF RoomExpire, RoomClose, Expire, Close, Feed!Close, vars, roomVars, handlerVars, chanVars
<1>2. /\ closed' \in BOOLEAN /\ stored' \in BOOLEAN
      /\ subs' \subseteq Clients /\ shut' \subseteq Clients
      /\ subs \cup shut \subseteq subs' \cup shut'
      /\ shut' # {} => closed'
  BY DEF RoomExpire, RoomClose, Expire, Close, Feed!Close, Inv, Types, Handlers,
         vars, roomVars, chanVars
<1>. QED
  BY <1>1, <1>2, Steady

---------------------------------------------------------------------------
(* The theorems.                                                           *)

\* Every step keeps the invariant.
LEMMA NextInv == Inv /\ [Next]_vars => Inv'
<1>. SUFFICES ASSUME Inv, [Next]_vars PROVE Inv'
  OBVIOUS
<1>1. CASE RoomOperate
  BY <1>1, OperateInv
<1>2. CASE RoomDeliver
  BY <1>2, DeliverInv
<1>3. CASE RoomExpire \/ RoomClose \/ UNCHANGED vars
  BY <1>3, SweepInv
<1>4. ASSUME NEW c \in Clients, Find(c) \/ Handle(c) \/ Abandon(c)
      PROVE  Inv'
  <2>1. CASE Find(c) \/ Join(c) \/ FindAgain(c) \/ Leave(c)
    BY <2>1, IdleInv
  <2>2. CASE ReadState(c)
    BY <2>2, ReadInv
  <2>3. CASE Take(c)
    BY <2>3, TakeInv
  <2>4. CASE Written(c)
    BY <2>4, WrittenInv
  <2>5. CASE WriteFails(c) \/ RoomGone(c) \/ Abandon(c)
    BY <2>5, ReturnInv DEF WriteFails, RoomGone, Abandon
  <2>. QED
    BY <1>4, <2>1, <2>2, <2>3, <2>4, <2>5 DEF Handle
<1>. QED
  BY <1>1, <1>2, <1>3, <1>4 DEF Next

LEMMA Invariant == Spec => []Inv
  BY InitInv, NextInv, PTL DEF Spec

\* Every variable keeps its type, and no channel holds more than its buffer
\* (subBuffer in room.go), however many clients and events there are.
THEOREM StreamTypeCorrect == Spec => []TypeOK
<1>1. Inv => TypeOK
  <2>. SUFFICES ASSUME Inv PROVE TypeOK
    OBVIOUS
  <2>. USE DEF Inv
  <2>1. eventSeq \in 0..MaxRevision /\ lastChange \in 0..eventSeq
    BY FanoutAssumption DEF Types
  <2>2. ASSUME NEW c \in Clients
        PROVE  /\ Len(queue[c]) <= SubBuffer
               /\ \A i \in DOMAIN queue[c] : queue[c][i].id \in 1..eventSeq
               /\ shown[c].revision \in -1..eventSeq
               /\ last[c] \in -1..eventSeq
               /\ Cardinality(item[c]) <= 1
               /\ pc[c] \in Labels
    <3>1. ASSUME NEW i \in DOMAIN queue[c]
          PROVE  queue[c][i].id \in 1..eventSeq
      <4>1. queue[c][i] \in Elements(queue[c])
        BY DEF Elements
      <4>2. queue[c][i] \in InFlight
        BY <4>1, SeenSnapshots
      <4>3. queue[c][i].id \in Int
        BY <4>2 DEF InFlight, Events
      <4>. QED
        BY <4>2, <4>3 DEF Truthful, Types
    <3>2. Sound(c)
      BY DEF Handlers
    <3>3. last[c] \in Int /\ shown[c].revision \in Int /\ eventSeq \in Int
      BY DEF Types, Snapshots
    <3>4. item[c] = {} \/ \E s \in item[c] : item[c] = {s}
      BY <3>2 DEF Sound
    <3>5. Cardinality(item[c]) \in {0, 1}
      BY <3>4, FS_EmptySet, FS_Singleton
    <3>6. shown[c].revision \in -1..eventSeq /\ last[c] \in -1..eventSeq
      BY <3>2, <3>3 DEF Sound
    <3>. QED
      BY <3>1, <3>5, <3>6 DEF Types
  <2>. QED
    BY <2>1, <2>2 DEF Types, TypeOK, Labels
<1>. QED
  BY <1>1, Invariant, PTL

\* The last change is the newest that a handler has before it.
LEMMA NewestIs ==
  ASSUME Inv, NEW c \in Clients, Taken(c) \/ Queued(c), pc[c] \in Active
  PROVE  Newest(c) \in Seen /\ Newest(c).revision >= lastChange
<1>. USE DEF Inv
<1>. DEFINE q == queue[c]
            fresh == {i \in DOMAIN q : q[i].state # {} /\ q[i].id > last[c]}
            first == CHOOSE i \in fresh : \A j \in fresh : j <= i
<1>1. q \in Seq(Events) /\ DOMAIN q \subseteq Int /\ Sorted(q)
  BY DEF Types, Ordered
<1>2. \A i \in DOMAIN q : q[i] \in InFlight /\ q[i].state \subseteq Seen /\ q[i].id \in Int
  <2>1. \A i \in DOMAIN q : q[i] \in Elements(q)
    BY DEF Elements
  <2>2. \A i \in DOMAIN q : q[i] \in InFlight /\ q[i].state \subseteq Seen
    BY <2>1, SeenSnapshots
  <2>3. \A e \in InFlight : e.id \in Int
    BY DEF InFlight, Events
  <2>. QED
    BY <2>2, <2>3
<1>3. \A i \in DOMAIN q : /\ q[i].state # {} => q[i].id <= lastChange
                          /\ \A s \in q[i].state : s.revision = q[i].id
  BY <1>2 DEF Truthful
<1>4. /\ last[c] \in Int /\ lastChange \in Int /\ shown[c].revision \in Int
      /\ shown[c].revision <= last[c] /\ \A s \in item[c] : s.revision = last[c]
  BY DEF Types, Snapshots, Handlers, Sound
<1>5. Newest(c) = IF fresh # {} THEN The(q[first].state)
                  ELSE IF item[c] # {} THEN The(item[c]) ELSE shown[c]
  BY DEF Newest
<1>6. \A i \in fresh : i \in DOMAIN q /\ q[i].state # {} /\ q[i].id > last[c]
  OBVIOUS
<1>7. shown[c] \in Seen /\ item[c] \subseteq Seen
  BY SeenSnapshots
<1>8. CASE Queued(c)
  <2>1. \E k \in fresh : q[k].id = lastChange
    BY <1>4, <1>8 DEF Queued, Elements
  <2>2. PICK k \in fresh : q[k].id = lastChange
    BY <2>1
  <2>. HIDE DEF fresh
  <2>3. \A j \in fresh : j <= k
    <3>. SUFFICES ASSUME NEW j \in fresh, ~(j <= k) PROVE FALSE
      OBVIOUS
    <3>1. k < j
      BY <1>1, <1>6, <2>2
    <3>2. q[k].id < q[j].id
      BY <1>1, <1>6, <2>2, <3>1 DEF Sorted
    <3>. QED
      BY <1>2, <1>3, <1>4, <1>6, <2>2, <3>2
  <2>4. first \in fresh /\ \A j \in fresh : j <= first
    BY <2>2, <2>3
  <2>5. first = k
    <3>. HIDE DEF first
    <3>1. first <= k /\ k <= first /\ first \in Int /\ k \in Int
      BY <1>1, <1>6, <2>2, <2>3, <2>4
    <3>. QED
      BY <3>1
  <2>6. The(q[k].state) \in q[k].state
    BY <1>6, <2>2 DEF The
  <2>. HIDE DEF first
  <2>7. Newest(c) = The(q[k].state)
    BY <1>5, <2>2, <2>5
  <2>8. Newest(c) \in Seen /\ Newest(c).revision = lastChange
    BY <1>2, <1>3, <1>6, <2>2, <2>6, <2>7
  <2>. QED
    BY <1>4, <2>8
<1>9. CASE Taken(c)
  <2>1. last[c] >= lastChange
    BY <1>4, <1>9 DEF Taken
  <2>2. fresh = {}
    <3>. SUFFICES ASSUME NEW i \in fresh PROVE FALSE
      OBVIOUS
    <3>. QED
      BY <1>2, <1>3, <1>4, <1>6, <2>1
  <2>. HIDE DEF fresh
  <2>3. CASE item[c] = {}
    BY <1>5, <1>7, <1>9, <2>2, <2>3 DEF Taken
  <2>4. CASE item[c] # {}
    <3>1. Newest(c) \in item[c]
      BY <1>5, <2>2, <2>4 DEF The
    <3>. QED
      BY <1>4, <1>7, <2>1, <3>1
  <2>. QED
    BY <2>3, <2>4
<1>. QED
  BY <1>8, <1>9

\* However full its channel was and wherever its subscription fell between
\* two events, a stream always has the latest change on its way
\* (fanoutLocked, handleEvents).
THEOREM StreamsAreUpToDate == Spec => []StreamIsUpToDate
<1>1. Inv => StreamIsUpToDate
  <2>. SUFFICES ASSUME Inv, LockFree, NEW c \in Clients, pc[c] \in Active
                PROVE  /\ Newest(c).revision >= lastChange
                       /\ Newest(c).seq = seq
                       /\ Newest(c).phase = phase
    BY DEF StreamIsUpToDate, Inv, Types, Active
  <2>1. Taken(c) \/ Queued(c)
    BY DEF Inv, OnItsWay, Owing, LockFree
  <2>2. Newest(c) \in Seen /\ Newest(c).revision >= lastChange
    BY <2>1, NewestIs
  <2>. QED
    BY <2>2 DEF Inv, OneHistory
<1>. QED
  BY <1>1, Invariant, PTL

\* No client sees an older state after a newer one, and no round it has seen
\* revealed is blind again: only a handler that writes shows something, and
\* what it writes is newer and of the same history (handleEvents).
THEOREM StreamsStayForward == Spec => StreamsMoveForward
<1>1. ASSUME Inv, [Next]_vars, NEW c \in Clients, shown'[c] # shown[c], pc'[c] # "leaving"
      PROVE  /\ shown'[c].revision > shown[c].revision
             /\ shown'[c].seq >= shown[c].seq
             /\ shown'[c].seq = shown[c].seq /\ shown[c].phase = "revealed"
                  => shown'[c].phase = "revealed"
  <2>. USE <1>1 DEF Inv
  <2>1. Written(c)
    <3>1. ASSUME NEW k \in Clients, Return(k) PROVE FALSE
      <4>1. CASE k = c
        BY <3>1, <4>1 DEF Return, Goto, Types
      <4>2. CASE k # c
        BY <3>1, <4>2 DEF Return, Types
      <4>. QED
        BY <4>1, <4>2
    <3>2. ASSUME NEW k \in Clients, Written(k) PROVE Written(c)
      BY <3>2 DEF Written, Types
    <3>3. shown' # shown
      BY <1>1
    <3>4. ASSUME NEW k \in Clients, Find(k) \/ Handle(k) \/ Abandon(k) PROVE Written(c)
      BY <3>1, <3>2, <3>3, <3>4
         DEF Find, Handle, Abandon, Join, FindAgain, ReadState, Take, WriteFails,
             RoomGone, Leave, handlerVars
    <3>. QED
      BY <1>1, <3>3, <3>4
         DEF Next, vars, handlerVars, RoomOperate, RoomDeliver, RoomExpire, RoomClose
  <2>2. /\ shown' = [shown EXCEPT ![c] = IF item[c] = {} THEN @ ELSE CHOOSE s \in item[c] : TRUE]
    BY <2>1 DEF Written
  <2>3. shown'[c] \in item[c]
    BY <2>2 DEF Types
  <2>4. shown[c].revision < shown'[c].revision
    BY <2>3 DEF Handlers, Sound
  <2>5. shown'[c] \in Seen /\ shown[c] \in Seen
    BY <2>3, SeenSnapshots
  <2>6. shown'[c] \in Snapshots /\ shown[c] \in Snapshots
    BY <2>5, SeenSnapshots
  <2>7. NotAfter(shown[c], shown'[c])
    BY <2>4, <2>5, <2>6 DEF OneHistory, Snapshots
  <2>. QED
    BY <2>4, <2>6, <2>7 DEF NotAfter, Snapshots
<1>2. Inv /\ [Next]_vars =>
        [\A c \in Clients : shown'[c] # shown[c] /\ pc'[c] # "leaving" =>
           /\ shown'[c].revision > shown[c].revision
           /\ shown'[c].seq >= shown[c].seq
           /\ shown'[c].seq = shown[c].seq /\ shown[c].phase = "revealed"
                => shown'[c].phase = "revealed"]_vars
  BY <1>1
<1>. QED
  BY <1>2, Invariant, PTL DEF Spec, StreamsMoveForward

\* Two clients never disagree: whatever each of them shows, at whatever pace,
\* the one with the higher revision shows what the room became after what the
\* other shows; with the same revision both show the same round, and both or
\* neither show it revealed.
ClientsAgree ==
  \A c, d \in Clients :
    /\ shown[c].revision <= shown[d].revision => NotAfter(shown[c], shown[d])
    /\ shown[c].revision = shown[d].revision =>
         /\ shown[c].seq = shown[d].seq
         /\ shown[c].phase = "revealed" <=> shown[d].phase = "revealed"

\* The clients of a room are never shown two histories (fanoutLocked numbers
\* its events under the lock, handleEvents sends the first snapshot under the
\* number it has).
THEOREM StreamsAgree == Spec => []ClientsAgree
<1>1. Inv => ClientsAgree
  <2>. SUFFICES ASSUME Inv, NEW c \in Clients, NEW d \in Clients
       PROVE  /\ shown[c].revision <= shown[d].revision => NotAfter(shown[c], shown[d])
              /\ shown[c].revision = shown[d].revision =>
                   /\ shown[c].seq = shown[d].seq
                   /\ shown[c].phase = "revealed" <=> shown[d].phase = "revealed"
    BY DEF ClientsAgree
  <2>1. /\ shown[c] \in Seen /\ shown[d] \in Seen
        /\ shown[c] \in Snapshots /\ shown[d] \in Snapshots
    BY SeenSnapshots DEF Inv, Types
  <2>2. /\ shown[c].revision <= shown[d].revision => NotAfter(shown[c], shown[d])
        /\ shown[d].revision <= shown[c].revision => NotAfter(shown[d], shown[c])
    BY <2>1 DEF Inv, OneHistory
  <2>3. /\ shown[c].revision \in Int /\ shown[d].revision \in Int
        /\ shown[c].seq \in Int /\ shown[d].seq \in Int
    BY <2>1 DEF Snapshots
  <2>. QED
    BY <2>2, <2>3 DEF NotAfter
<1>. QED
  BY <1>1, Invariant, PTL DEF Spec

---------------------------------------------------------------------------
(* The lock.                                                               *)

\* Whoever holds the lock can go on by itself: a delivery is due, and no
\* channel but its own is being emptied.  So if that one is empty, the holder
\* sends; if not, it receives from it; and with none being emptied it sends,
\* drops or starts to empty (the branches of fanoutLocked).
HolderCanProceed ==
  ~LockFree => \E d \in sending : Due(d) /\ draining \subseteq {d.to}

\* How far the emptying of a channel has come.
Emptied ==
  IF draining = {} THEN 0 ELSE SubBuffer + 1 - Len(queue[CHOOSE c \in draining : TRUE])

\* The turns the holder has left at most: for each delivery one to find the
\* channel full, one for each event in it, and one to send.
Work == (SubBuffer + 2) * Cardinality(sending) - Emptied

\* There is work exactly while the lock is held, nobody adds to it meanwhile,
\* and each turn of the holder takes some away.
HoldIsBounded ==
  /\ [](Work \in Nat /\ (Work = 0) = LockFree)
  /\ [][~LockFree => Work' <= Work /\ (RoomDeliver => Work' < Work)]_vars

\* There are finitely many deliveries, and only the channel of one that is due
\* is being emptied.
LockInv ==
  /\ IsFiniteSet(subs) /\ IsFiniteSet(sending)
  /\ \A c \in draining : \E d \in sending : Due(d) /\ draining = {d.to}

\* An operation owes finitely many deliveries.
LEMMA OperateIsFinite == LockInv /\ Operate => IsFiniteSet(sending')
<1>. SUFFICES ASSUME LockInv, Operate PROVE IsFiniteSet(sending')
  OBVIOUS
<1>1. \E a, b : outbox' \subseteq {a, b}
  <2>1. \/ outbox' = {Feed!Carrying(eventSeq', seq', phase')}
        \/ outbox' = {Feed!Carrying(eventSeq + 1, seq, "voting"),
                      Feed!Carrying(eventSeq + 2, seq, "revealed")}
        \/ outbox' = {Feed!Bare(eventSeq')}
    BY DEF Operate, Feed!Change, Feed!Reveal, Feed!ChangeAndReveal,
           Feed!StartRound, Feed!React, Feed!Publish
  <2>. QED
    BY <2>1
<1>2. IsFiniteSet(outbox')
  <2>1. PICK a, b : outbox' \subseteq {a, b}
    BY <1>1
  <2>2. IsFiniteSet({a, b})
    <3>1. IsFiniteSet({a})
      BY FS_Singleton
    <3>2. IsFiniteSet({a} \cup {b})
      BY <3>1, FS_AddElement
    <3>3. {a, b} = {a} \cup {b}
      OBVIOUS
    <3>. QED
      BY <3>2, <3>3
  <2>. QED
    BY <2>1, <2>2, FS_Subset
<1>3. IsFiniteSet(subs \X outbox')
  BY <1>2, FS_Product DEF LockInv
<1>. DEFINE P == subs \X outbox'
            f == [p \in P |-> [to |-> p[1], event |-> p[2]]]
<1>4. sending' = {[to |-> c, event |-> e] : c \in subs, e \in outbox'}
  BY DEF Operate
<1>5. f \in Surjection(P, sending')
  <2>1. \A p \in P : f[p] \in sending'
    BY <1>4
  <2>2. ASSUME NEW d \in sending'
        PROVE  \E p \in P : f[p] = d
    <3>1. PICK c \in subs, e \in outbox' : d = [to |-> c, event |-> e]
      BY <1>4, <2>2
    <3>2. <<c, e>> \in P /\ f[<<c, e>>] = d
      BY <3>1
    <3>. QED
      BY <3>2
  <2>. QED
    BY <2>1, <2>2 DEF Surjection
<1>. HIDE DEF f, P
<1>. QED
  BY <1>3, <1>5, FS_Surjection DEF P

\* A free lock has no channel being emptied.
LEMMA FreeIsIdle == Inv /\ LockFree => sending = {} /\ draining = {}
BY DEF Inv, Owed, Owing, LockFree

\* While the lock is held, whoever does not hold it can only receive.
LEMMA OthersReceive ==
  ASSUME Inv, [Next]_vars, ~LockFree, ~RoomDeliver
  PROVE  /\ UNCHANGED <<subs, sending, draining>>
         /\ \A c \in Clients : Len(queue'[c]) <= Len(queue[c])
<1>1. queue \in [Clients -> Seq(Events)]
  BY DEF Inv, Types
<1>2. ASSUME NEW k \in Clients, Receive(k)
      PROVE  /\ UNCHANGED <<subs, sending, draining>>
             /\ \A c \in Clients : Len(queue'[c]) <= Len(queue[c])
  <2>1. queue[k] \in Seq(Events) /\ queue[k] # <<>>
    BY <1>1, <1>2 DEF Receive
  <2>2. Len(Tail(queue[k])) <= Len(queue[k])
    BY <2>1
  <2>3. \A c \in Clients : queue'[c] = IF c = k THEN Tail(queue[k]) ELSE queue[c]
    BY <1>1, <1>2 DEF Receive
  <2>4. \A c \in Clients : Len(queue[c]) \in Nat
    BY <1>1
  <2>. QED
    BY <1>2, <2>2, <2>3, <2>4 DEF Receive
<1>3. CASE UNCHANGED chanVars
  <2>1. \A c \in Clients : Len(queue[c]) \in Nat
    BY <1>1
  <2>. QED
    BY <1>3, <2>1 DEF chanVars
<1>4. ASSUME NEW k \in Clients, Find(k) \/ Handle(k) \/ Abandon(k)
      PROVE  UNCHANGED chanVars \/ Receive(k)
  BY <1>4 DEF Find, Handle, Abandon, Join, FindAgain, ReadState, Take, Written,
              WriteFails, RoomGone, Return, Leave, Subscribe, Cancel
<1>5. UNCHANGED chanVars \/ \E k \in Clients : Receive(k)
  BY <1>4 DEF Next, RoomOperate, RoomExpire, RoomClose, Operate, Expire, Close, vars
<1>. QED
  BY <1>2, <1>3, <1>5

\* A turn of the holder either finishes the delivery that is due, or starts to
\* empty its channel, or receives an event from it.
LEMMA Turns ==
  ASSUME Inv, LockInv, RoomDeliver
  PROVE  /\ subs' = subs
         /\ \E d \in sending :
              /\ Due(d) /\ d.to \in Clients
              /\ \/ /\ sending' = sending \ {d} /\ draining' = {}
                 \/ /\ sending' = sending /\ queue' = queue
                    /\ draining = {} /\ draining' = {d.to}
                    /\ Len(queue[d.to]) = SubBuffer
                 \/ /\ sending' = sending /\ draining' = draining
                    /\ draining = {d.to}
                    /\ Len(queue'[d.to]) = Len(queue[d.to]) - 1
<1>1. \A d \in sending : d.to \in Clients
  BY DEF Inv, Types, Deliveries
<1>2. \A c \in Clients : queue[c] \in Seq(Events) /\ Len(queue[c]) <= SubBuffer
  BY DEF Inv, Types
<1>3. \/ \E d \in sending : Send(d) \/ Drop(d) \/ MakeRoom(d) \/ SendAfterDrain(d)
      \/ \E c \in Clients : DrainOne(c)
  BY DEF RoomDeliver, Deliver
<1>4. ASSUME NEW d \in sending, Send(d) \/ Drop(d) \/ SendAfterDrain(d)
      PROVE  subs' = subs /\ Due(d) /\ sending' = sending \ {d} /\ draining' = {}
  BY <1>4 DEF Send, Drop, SendAfterDrain, Delivered
<1>5. ASSUME NEW d \in sending, MakeRoom(d)
      PROVE  /\ subs' = subs /\ Due(d)
             /\ sending' = sending /\ queue' = queue
             /\ draining = {} /\ draining' = {d.to}
             /\ Len(queue[d.to]) = SubBuffer
  <2>1. Len(queue[d.to]) = SubBuffer
    BY <1>1, <1>2, <1>5, FanoutAssumption DEF MakeRoom
  <2>. QED
    BY <1>5, <2>1 DEF MakeRoom
<1>6. ASSUME NEW c \in Clients, DrainOne(c)
      PROVE  /\ subs' = subs /\ sending' = sending /\ draining' = draining
             /\ \E d \in sending : Due(d) /\ draining = {d.to} /\ d.to = c
             /\ Len(queue'[c]) = Len(queue[c]) - 1
  <2>1. subs' = subs /\ sending' = sending /\ draining' = draining /\ c \in draining
    BY <1>6 DEF DrainOne
  <2>2. PICK d \in sending : Due(d) /\ draining = {d.to}
    BY <2>1 DEF LockInv
  <2>3. queue[c] \in Seq(Events) /\ queue[c] # <<>> /\ queue'[c] = Tail(queue[c])
    BY <1>6 DEF DrainOne, Inv, Types
  <2>. QED
    BY <2>1, <2>2, <2>3
<1>. QED
  BY <1>1, <1>3, <1>4, <1>5, <1>6

\* The invariant of the lock.
LEMMA LockInvariant == Spec => [](Inv /\ LockInv)
<1>1. Init => LockInv
  <2>. SUFFICES ASSUME Init PROVE LockInv
    OBVIOUS
  <2>1. subs = {} /\ sending = {} /\ draining = {}
    BY DEF Init, FanoutInit
  <2>. QED
    BY <2>1, FS_EmptySet DEF LockInv
<1>2. Inv /\ LockInv /\ [Next]_vars => LockInv'
  <2>. SUFFICES ASSUME Inv, LockInv, [Next]_vars PROVE LockInv'
    OBVIOUS
  <2>1. CASE RoomDeliver
    <3>1. PICK d \in sending :
            /\ Due(d) /\ d.to \in Clients
            /\ \/ /\ sending' = sending \ {d} /\ draining' = {}
               \/ /\ sending' = sending /\ draining' \in {{d.to}}
      BY <2>1, Turns
    <3>2. IsFiniteSet(subs') /\ IsFiniteSet(sending')
      <4>1. sending' \in SUBSET sending
        BY <3>1
      <4>. QED
        BY <2>1, <4>1, Turns, FS_Subset DEF LockInv
    <3>3. \A c \in draining' : d \in sending' /\ Due(d)' /\ draining' = {d.to}
      BY <3>1 DEF Due
    <3>. QED
      BY <3>2, <3>3 DEF LockInv
  <2>2. CASE ~LockFree /\ ~RoomDeliver
    BY <2>2, OthersReceive DEF LockInv, Due
  <2>3. CASE LockFree /\ ~RoomDeliver
    <3>1. sending = {} /\ draining = {}
      BY <2>3, FreeIsIdle
    <3>2. CASE RoomOperate
      <4>1. IsFiniteSet(sending')
        BY <3>2, OperateIsFinite DEF RoomOperate
      <4>. QED
        BY <3>1, <3>2, <4>1 DEF LockInv, RoomOperate, Operate
    <3>3. CASE ~RoomOperate
      <4>1. sending' = {} /\ draining' = {}
        BY <2>3, <3>1, <3>3
           DEF Next, RoomExpire, RoomClose, Expire, Close, vars, chanVars, Find, Handle,
               Abandon, Join, FindAgain, ReadState, Take, Written, WriteFails, RoomGone,
               Return, Leave, Subscribe, Cancel, Receive
      <4>2. subs' \subseteq subs \/ \E c \in Clients : subs' \subseteq subs \cup {c}
        BY <2>3, <3>3
           DEF Next, RoomExpire, RoomClose, Expire, Close, vars, chanVars, Find, Handle,
               Abandon, Join, FindAgain, ReadState, Take, Written, WriteFails, RoomGone,
               Return, Leave, Subscribe, Cancel, Receive
      <4>3. IsFiniteSet(subs')
        <5>1. CASE subs' \subseteq subs
          BY <5>1, FS_Subset DEF LockInv
        <5>2. ASSUME NEW c \in Clients, subs' \subseteq subs \cup {c}
              PROVE  IsFiniteSet(subs')
          <6>1. IsFiniteSet(subs \cup {c})
            BY FS_AddElement DEF LockInv
          <6>. QED
            BY <5>2, <6>1, FS_Subset
        <5>. QED
          BY <4>2, <5>1, <5>2
      <4>. QED
        BY <4>1, <4>3, FS_EmptySet DEF LockInv
    <3>. QED
      BY <3>2, <3>3
  <2>. QED
    BY <2>1, <2>2, <2>3
<1>. QED
  BY <1>1, <1>2, InitInv, NextInv, PTL DEF Spec

\* The holder of the lock is never stuck, whatever the receivers do.
THEOREM HolderProceeds == Spec => []HolderCanProceed
<1>1. Inv /\ LockInv => HolderCanProceed
  <2>. SUFFICES ASSUME Inv, LockInv, ~LockFree
                PROVE  \E d \in sending : Due(d) /\ draining \subseteq {d.to}
    BY DEF HolderCanProceed
  <2>1. CASE draining # {}
    BY <2>1 DEF LockInv
  <2>2. CASE draining = {}
    <3>. DEFINE ids == {d.event.id : d \in sending}
    <3>1. ids # {} /\ \A n \in ids : n \in Int
      BY DEF LockFree, Inv, Types, Deliveries, Events
    <3>2. IsFiniteSet(ids)
      <4>. DEFINE f == [d \in sending |-> d.event.id]
      <4>1. f \in Surjection(sending, ids)
        BY DEF Surjection
      <4>. HIDE DEF f, ids
      <4>. QED
        BY <4>1, FS_Surjection DEF LockInv
    <3>3. PICK n \in ids : \A m \in ids : n <= m
      <4>. HIDE DEF ids
      <4>. QED
        BY <3>1, <3>2, LeastExists
    <3>4. PICK d \in sending : d.event.id = n
      OBVIOUS
    <3>5. Due(d)
      BY <3>3, <3>4 DEF Due
    <3>. QED
      BY <2>2, <3>5
  <2>. QED
    BY <2>1, <2>2
<1>. QED
  BY <1>1, LockInvariant, PTL

\* What is left to do, and that emptying is counted right.
LEMMA WorkIs ==
  Inv /\ LockInv =>
    /\ Cardinality(sending) \in Nat /\ (Cardinality(sending) = 0) = LockFree
    /\ Emptied \in 0..(SubBuffer + 1)
    /\ draining # {} => Cardinality(sending) # 0
    /\ Work \in Nat /\ (Work = 0) = LockFree
<1>. SUFFICES ASSUME Inv, LockInv
              PROVE  /\ Cardinality(sending) \in Nat /\ (Cardinality(sending) = 0) = LockFree
                     /\ Emptied \in 0..(SubBuffer + 1)
                     /\ draining # {} => Cardinality(sending) # 0
                     /\ Work \in Nat /\ (Work = 0) = LockFree
  OBVIOUS
<1>. DEFINE n == Cardinality(sending)
<1>1. n \in Nat /\ (n = 0) = LockFree
  BY FS_CardinalityType, FS_EmptySet DEF LockInv, LockFree
<1>2. draining # {} => n # 0
  BY <1>1, FreeIsIdle
<1>3. Emptied \in 0..(SubBuffer + 1)
  <2>1. CASE draining = {}
    BY <2>1, FanoutAssumption DEF Emptied
  <2>2. CASE draining # {}
    <3>1. PICK c : draining = {c} /\ c \in Clients
      BY <2>2 DEF LockInv, Inv, Types
    <3>2. Emptied = SubBuffer + 1 - Len(queue[c])
      BY <3>1 DEF Emptied
    <3>3. Len(queue[c]) \in Nat /\ Len(queue[c]) <= SubBuffer
      BY <3>1 DEF Inv, Types
    <3>. DEFINE k == Len(queue[c])
    <3>. HIDE DEF k
    <3>4. SubBuffer \in Nat /\ k \in Nat /\ k <= SubBuffer
      BY <3>3, FanoutAssumption DEF k
    <3>5. SubBuffer + 1 - k \in 0..(SubBuffer + 1)
      BY <3>4
    <3>. QED
      BY <3>2, <3>5 DEF k
  <2>. QED
    BY <2>1, <2>2
<1>4. draining = {} => Emptied = 0
  BY DEF Emptied
<1>5. Work = (SubBuffer + 2) * n - Emptied
  BY DEF Work
<1>. HIDE DEF n
<1>6. n # 0 => Work \in Nat /\ Work # 0
  <2>1. n # 0 => (SubBuffer + 2) * n >= SubBuffer + 2
    <3>1. n # 0 => (SubBuffer + 2) * (n - 1) >= 0
      BY <1>1, FanoutAssumption
    <3>2. (SubBuffer + 2) * n = (SubBuffer + 2) * (n - 1) + (SubBuffer + 2)
      BY <1>1, FanoutAssumption
    <3>. QED
      BY <1>1, <3>1, <3>2, FanoutAssumption
  <2>2. (SubBuffer + 2) * n \in Int
    BY <1>1, FanoutAssumption
  <2>. QED
    BY <1>3, <1>5, <2>1, <2>2, FanoutAssumption
<1>7. n = 0 => Work = 0
  BY <1>2, <1>4, <1>5, FanoutAssumption
<1>. QED
  BY <1>1, <1>2, <1>3, <1>6, <1>7 DEF n

\* No subscriber holds the room up: however slow, racing or dead the receivers
\* are, each turn of the holder of the lock brings it nearer to giving the lock
\* back, and nothing anybody does takes it further away (fanoutLocked).  That
\* the holder's turns come is all LockIsReleased needs besides.
THEOREM LockHoldsAreBounded == Spec => HoldIsBounded
<1>1. Inv /\ LockInv => Work \in Nat /\ (Work = 0) = LockFree
  BY WorkIs
<1>2. Inv /\ LockInv /\ Inv' /\ LockInv' /\ [Next]_vars =>
        [~LockFree => Work' <= Work /\ (RoomDeliver => Work' < Work)]_vars
  <2>. SUFFICES ASSUME Inv, LockInv, Inv', LockInv', [Next]_vars, ~LockFree
                PROVE  Work' <= Work /\ (RoomDeliver => Work' < Work)
    OBVIOUS
  <2>. DEFINE n == Cardinality(sending)
              b == SubBuffer + 2
  <2>0. SubBuffer \in Nat /\ b \in Nat
    BY FanoutAssumption
  <2>1. /\ n \in Nat /\ Emptied \in 0..(SubBuffer + 1) /\ Work \in Nat
        /\ draining # {} => n # 0
    BY WorkIs
  <2>2. Work = b * n - Emptied /\ Work' = b * Cardinality(sending') - Emptied'
    BY DEF Work
  <2>3. CASE RoomDeliver
    <3>1. PICK d \in sending :
            /\ Due(d) /\ d.to \in Clients
            /\ \/ /\ sending' = sending \ {d} /\ draining' = {}
               \/ /\ sending' = sending /\ queue' = queue
                  /\ draining = {} /\ draining' = {d.to}
                  /\ Len(queue[d.to]) = SubBuffer
               \/ /\ sending' = sending /\ draining' = draining
                  /\ draining = {d.to}
                  /\ Len(queue'[d.to]) = Len(queue[d.to]) - 1
      BY <2>3, Turns
    <3>2. CASE sending' = sending \ {d} /\ draining' = {}
      <4>1. Cardinality(sending') = n - 1
        BY <3>2, FS_RemoveElement DEF LockInv
      <4>2. Emptied' = 0
        BY <3>2 DEF Emptied
      <4>. HIDE DEF n, b
      <4>3. b * n = b * (n - 1) + b /\ b * n \in Int /\ b * (n - 1) \in Int
        BY <2>0, <2>1
      <4>. QED
        BY <2>0, <2>1, <2>2, <4>1, <4>2, <4>3 DEF b
    <3>3. CASE /\ sending' = sending /\ queue' = queue
               /\ draining = {} /\ draining' = {d.to}
               /\ Len(queue[d.to]) = SubBuffer
      <4>1. Emptied = 0 /\ Emptied' = SubBuffer + 1 - SubBuffer
        BY <3>3 DEF Emptied
      <4>2. b * n \in Int
        BY <2>0, <2>1
      <4>. HIDE DEF n, b
      <4>. QED
        BY <2>0, <2>2, <3>3, <4>1, <4>2 DEF n
    <3>4. CASE /\ sending' = sending /\ draining' = draining
               /\ draining = {d.to}
               /\ Len(queue'[d.to]) = Len(queue[d.to]) - 1
      <4>1. /\ Emptied = SubBuffer + 1 - Len(queue[d.to])
            /\ Emptied' = SubBuffer + 1 - Len(queue'[d.to])
        BY <3>4 DEF Emptied
      <4>. DEFINE k == Len(queue[d.to])
      <4>2. k \in Int
        BY <3>1 DEF Inv, Types
      <4>3. b * n \in Int
        BY <2>0, <2>1
      <4>4. Work' = b * n - Emptied'
        BY <2>2, <3>4
      <4>. HIDE DEF n, b, k
      <4>5. Emptied = SubBuffer + 1 - k /\ Emptied' = SubBuffer + 1 - (k - 1)
        BY <3>4, <4>1 DEF k
      <4>6. Emptied' = Emptied + 1 /\ Emptied \in Int
        BY <2>0, <4>2, <4>5
      <4>. QED
        BY <2>2, <4>3, <4>4, <4>6
    <3>. QED
      BY <3>1, <3>2, <3>3, <3>4, <2>1
  <2>4. CASE ~RoomDeliver
    <3>1. /\ UNCHANGED <<subs, sending, draining>>
          /\ \A c \in Clients : Len(queue'[c]) <= Len(queue[c])
      BY <2>4, OthersReceive
    <3>2. Emptied <= Emptied' /\ Emptied' \in Int
      <4>1. CASE draining = {}
        BY <3>1, <4>1 DEF Emptied
      <4>2. CASE draining # {}
        <5>1. PICK c : draining = {c} /\ c \in Clients
          BY <4>2 DEF LockInv, Inv, Types
        <5>2. /\ Emptied = SubBuffer + 1 - Len(queue[c])
              /\ Emptied' = SubBuffer + 1 - Len(queue'[c])
          BY <3>1, <5>1 DEF Emptied
        <5>3. Len(queue[c]) \in Int /\ Len(queue'[c]) \in Int
          BY <5>1 DEF Inv, Types
        <5>. QED
          BY <2>0, <3>1, <5>1, <5>2, <5>3
      <4>. QED
        BY <4>1, <4>2
    <3>3. b * n \in Int
      BY <2>0, <2>1
    <3>. HIDE DEF n, b
    <3>. QED
      BY <2>1, <2>2, <2>4, <3>1, <3>2, <3>3 DEF n
  <2>. QED
    BY <2>3, <2>4
<1>. QED
  BY <1>1, <1>2, LockInvariant, PTL DEF Spec, HoldIsBounded

---------------------------------------------------------------------------
(* What the streams implement.                                             *)

\* Which events are on their way, before a step and after it.
LEMMA OnTheWayIs ==
  ASSUME NEW c \in Clients
  PROVE  /\ \A e : e \in OnTheWay(c) <=>
              /\ Running(c) /\ last[c] < e.id
              /\ e \in Elements(queue[c]) \/ \E d \in sending : d.to = c /\ d.event = e
         /\ \A e : e \in OnTheWay(c)' <=>
              /\ Running(c)' /\ last'[c] < e.id
              /\ e \in Elements(queue'[c]) \/ \E d \in sending' : d.to = c /\ d.event = e
<1>1. \A e : e \in OnTheWay(c) <=>
        /\ Running(c) /\ last[c] < e.id
        /\ e \in Elements(queue[c]) \/ \E d \in sending : d.to = c /\ d.event = e
  BY DEF OnTheWay, Elements
<1>2. \A e : e \in OnTheWay(c)' <=>
        /\ Running(c)' /\ last'[c] < e.id
        /\ e \in Elements(queue'[c]) \/ \E d \in sending' : d.to = c /\ d.event = e
  BY DEF OnTheWay, Elements
<1>. QED
  BY <1>1, <1>2

\* A client whose handler and channel nobody touches sees nothing happen.
LEMMA Undisturbed ==
  ASSUME NEW c \in Clients,
         pc'[c] = pc[c], last'[c] = last[c], item'[c] = item[c], shown'[c] = shown[c]
  PROVE  /\ Running(c)' = Running(c) /\ Sent(c)' = Sent(c)
         /\ queue'[c] = queue[c] /\ sending' = sending => OnTheWay(c)' = OnTheWay(c)
<1>1. Running(c)' = Running(c) /\ Sent(c)' = Sent(c)
  BY DEF Running, Sent
<1>2. queue'[c] = queue[c] /\ sending' = sending => OnTheWay(c)' = OnTheWay(c)
  BY <1>1 DEF OnTheWay
<1>. QED
  BY <1>1, <1>2

\* Whoever watches has been sent something.
LEMMA RunningIsWatching ==
  ASSUME NEW c \in Clients
  PROVE  Running(c) <=> Sent(c) # {}
BY DEF Sent

\* What a step of the room's deliveries, or of the handler of k, may be to
\* the clients: nothing, or a step of k in WatchedRoom.
SeenAs(k) ==
  /\ UNCHANGED <<seq, phase, closed, eventSeq, outbox>>
  /\ \A c \in Clients \ {k} : Sent(c)' = Sent(c) /\ OnTheWay(c)' = OnTheWay(c)
  /\ \/ Sent(k)' = Sent(k) /\ OnTheWay(k)' = OnTheWay(k)
     \/ Sent(k) = {} /\ Sent(k)' = {Snapshot} /\ OnTheWay(k)' = OnTheWay(k)
     \/ /\ Sent(k) # {}
        /\ \E e \in OnTheWay(k) :
             /\ \A f \in OnTheWay(k) : e.id <= f.id
             /\ OnTheWay(k)' = OnTheWay(k) \ {e}
             /\ Sent(k)' = IF e.state = {} THEN Sent(k) ELSE e.state
     \/ /\ Sent(k)' = Sent(k)
        /\ \E e \in OnTheWay(k) :
             /\ e.state = {} \/ \E f \in OnTheWay(k) : f.state # {} /\ e.id < f.id
             /\ OnTheWay(k)' = OnTheWay(k) \ {e}
     \/ Sent(k) # {} /\ Sent(k)' = {} /\ OnTheWay(k)' = {}

LEMMA SeenAsAStep ==
  ASSUME NEW k \in Clients, SeenAs(k)
  PROVE  [Watched!Next]_(Watched!vars)
<1>. DEFINE seen == [c \in Clients |-> Sent(c)]
            way == [c \in Clients |-> OnTheWay(c)]
<1>1. UNCHANGED Watched!feed
  BY DEF SeenAs, Watched!feed
<1>2. /\ seen' = [seen EXCEPT ![k] = Sent(k)']
      /\ way' = [way EXCEPT ![k] = OnTheWay(k)']
      /\ seen[k] = Sent(k) /\ way[k] = OnTheWay(k)
  BY DEF SeenAs
<1>3. CASE Sent(k)' = Sent(k) /\ OnTheWay(k)' = OnTheWay(k)
  <2>1. seen' = seen /\ way' = way
    BY <1>2, <1>3
  <2>. QED
    BY <1>1, <2>1 DEF Watched!vars, Watched!feed
<1>4. CASE Sent(k) = {} /\ Sent(k)' = {Snapshot} /\ OnTheWay(k)' = OnTheWay(k)
  <2>1. way' = way
    BY <1>2, <1>4
  <2>2. Watched!Start(k)
    BY <1>1, <1>2, <1>4, <2>1 DEF Watched!Start, Watched!Watching, Snapshot
  <2>. QED
    BY <2>2 DEF Watched!Next
<1>5. CASE /\ Sent(k) # {}
           /\ \E e \in OnTheWay(k) :
                /\ \A f \in OnTheWay(k) : e.id <= f.id
                /\ OnTheWay(k)' = OnTheWay(k) \ {e}
                /\ Sent(k)' = IF e.state = {} THEN Sent(k) ELSE e.state
  <2>1. Watched!Take(k)
    BY <1>1, <1>2, <1>5 DEF Watched!Take, Watched!Watching
  <2>. QED
    BY <2>1 DEF Watched!Next
<1>6. CASE /\ Sent(k)' = Sent(k)
           /\ \E e \in OnTheWay(k) :
                /\ e.state = {} \/ \E f \in OnTheWay(k) : f.state # {} /\ e.id < f.id
                /\ OnTheWay(k)' = OnTheWay(k) \ {e}
  <2>1. seen' = seen
    BY <1>2, <1>6
  <2>2. Watched!Coalesce(k)
    BY <1>1, <1>2, <1>6, <2>1 DEF Watched!Coalesce
  <2>. QED
    BY <2>2 DEF Watched!Next
<1>7. CASE Sent(k) # {} /\ Sent(k)' = {} /\ OnTheWay(k)' = {}
  <2>1. Watched!End(k)
    BY <1>1, <1>2, <1>7 DEF Watched!End, Watched!Watching
  <2>. QED
    BY <2>1 DEF Watched!Next
<1>. QED
  BY <1>3, <1>4, <1>5, <1>6, <1>7 DEF SeenAs

\* An operation is on its way to all who watch at once.
LEMMA OperateIsSeen == ASSUME Inv, RoomOperate PROVE Watched!Operate
<1>1. Operate /\ Types /\ UNCHANGED <<queue, subs, pc, last, item, shown>>
  BY DEF RoomOperate, Operate, handlerVars, Inv
<1>2. /\ ~closed /\ sending = {}
      /\ \A e \in outbox' : e \in Events /\ eventSeq < e.id
  BY <1>1, Operations
<1>3. sending' = {[to |-> c, event |-> e] : c \in subs, e \in outbox'}
  BY <1>1 DEF Operate
<1>4. \A c \in Clients : Sent(c)' = Sent(c) /\ Running(c)' = Running(c)
  BY <1>1, Undisturbed
<1>5. ASSUME NEW c \in Clients
      PROVE  OnTheWay(c)' = OnTheWay(c) \cup IF Sent(c) # {} THEN outbox' ELSE {}
  <2>1. CASE ~Running(c)
    BY <1>4, <2>1, OnTheWayIs, RunningIsWatching
  <2>2. CASE Running(c)
    <3>1. c \in subs /\ last[c] <= eventSeq /\ last[c] \in Int /\ eventSeq \in Int
      BY <1>2, <2>2 DEF Running, Inv, Handlers, Sound, Types
    <3>2. ASSUME NEW e
          PROVE  (\E d \in sending' : d.to = c /\ d.event = e) <=> e \in outbox'
      <4>1. ASSUME NEW d \in sending', d.to = c, d.event = e
            PROVE  e \in outbox'
        <5>1. PICK b \in subs, x \in outbox' : d = [to |-> b, event |-> x]
          BY <1>3, <4>1
        <5>. QED
          BY <4>1, <5>1
      <4>2. ASSUME e \in outbox'
            PROVE  \E d \in sending' : d.to = c /\ d.event = e
        <5>1. [to |-> c, event |-> e] \in sending'
          BY <1>3, <3>1, <4>2
        <5>. QED
          BY <5>1
      <4>. QED
        BY <4>1, <4>2
    <3>3. \A e \in outbox' : last[c] < e.id
      BY <1>2, <3>1 DEF Events
    <3>4. \A e : e \in OnTheWay(c)' <=> e \in OnTheWay(c) \/ e \in outbox'
      BY <1>1, <1>2, <1>4, <2>2, <3>2, <3>3, OnTheWayIs
    <3>. QED
      BY <2>2, <3>4, RunningIsWatching
  <2>. QED
    BY <2>1, <2>2
<1>6. Watched!Feed!Next
  BY <1>1 DEF Operate, Watched!Feed!Next, Feed!Change, Feed!Reveal, Feed!ChangeAndReveal,
     Feed!StartRound, Feed!React, Feed!Publish, Feed!Carrying, Feed!Bare,
     Watched!Feed!Change, Watched!Feed!Reveal, Watched!Feed!ChangeAndReveal,
     Watched!Feed!StartRound, Watched!Feed!React, Watched!Feed!Publish,
     Watched!Feed!Carrying, Watched!Feed!Bare
<1>7. [c \in Clients |-> Sent(c)'] = [c \in Clients |-> Sent(c)]
  BY <1>4
<1>. QED
  BY <1>5, <1>6, <1>7 DEF Watched!Operate, Watched!Watching

\* An event that goes into a channel stays on its way.
LEMMA EnqueueIsUnseen ==
  ASSUME Inv, NEW d \in sending, Delivered(d), UNCHANGED handlerVars,
         UNCHANGED roomVars,
         queue' = [queue EXCEPT ![d.to] = Append(queue[d.to], d.event)]
  PROVE  d.to \in Clients /\ SeenAs(d.to)
<1>1. /\ d.to \in Clients /\ d.event \in Events /\ queue \in [Clients -> Seq(Events)]
      /\ \A x \in sending : x \in Deliveries
  BY DEF Inv, Types, Deliveries
<1>2. /\ Elements(queue'[d.to]) = Elements(queue[d.to]) \cup {d.event}
      /\ \A c \in Clients \ {d.to} : queue'[c] = queue[c]
  <2>1. Elements(Append(queue[d.to], d.event)) = Elements(queue[d.to]) \cup {d.event}
    BY <1>1, AppendElements
  <2>. QED
    BY <1>1, <2>1
<1>3. sending' = sending \ {d}
  BY DEF Delivered
<1>4. \A c \in Clients : Sent(c)' = Sent(c) /\ Running(c)' = Running(c)
  BY Undisturbed DEF handlerVars
<1>5. ASSUME NEW c \in Clients
      PROVE  OnTheWay(c)' = OnTheWay(c)
  <2>1. ASSUME NEW e
        PROVE  (e \in Elements(queue'[c]) \/ \E x \in sending' : x.to = c /\ x.event = e)
               <=> (e \in Elements(queue[c]) \/ \E x \in sending : x.to = c /\ x.event = e)
    <3>1. CASE c = d.to
      BY <1>2, <1>3, <3>1
    <3>2. CASE c # d.to
      BY <1>2, <1>3, <3>2
    <3>. QED
      BY <3>1, <3>2
  <2>2. last' = last
    BY DEF handlerVars
  <2>3. \A e : e \in OnTheWay(c)' <=> e \in OnTheWay(c)
    BY <1>4, <2>1, <2>2, OnTheWayIs
  <2>. QED
    BY <2>3
<1>. QED
  BY <1>1, <1>4, <1>5 DEF SeenAs, roomVars

\* A reaction that finds its channel full is lost.
LEMMA DropIsSeen ==
  ASSUME Inv, NEW d \in sending, Drop(d), UNCHANGED handlerVars
  PROVE  d.to \in Clients /\ SeenAs(d.to)
<1>. DEFINE k == d.to
            e == d.event
<1>1. k \in Clients /\ \A x \in sending : x \in Deliveries
  BY DEF Inv, Types, Deliveries
<1>2. /\ sending' = sending \ {d} /\ e.state = {}
      /\ UNCHANGED <<seq, phase, closed, eventSeq, outbox, queue, pc, last, item, shown>>
  BY DEF Drop, Delivered, roomVars, handlerVars
<1>3. \A c \in Clients : Sent(c)' = Sent(c) /\ Running(c)' = Running(c)
  BY <1>2, Undisturbed
<1>4. e \notin Elements(queue[k])
  <2>1. \A x \in Elements(queue[k]) : x.id < e.id
    BY DEF Inv, Ordered
  <2>2. e.id \in Int
    BY DEF Inv, Types, Deliveries, Events
  <2>. QED
    BY <2>1, <2>2
<1>5. \A x \in sending' : ~(x.to = k /\ x.event = e)
  BY <1>1, <1>2, SameDelivery
<1>6. ASSUME NEW c \in Clients
      PROVE  \A f : f \in OnTheWay(c)' <=> f \in OnTheWay(c) /\ ~(c = k /\ f = e)
  <2>1. ASSUME NEW f
        PROVE  (f \in Elements(queue'[c]) \/ \E x \in sending' : x.to = c /\ x.event = f)
               <=> /\ f \in Elements(queue[c]) \/ \E x \in sending : x.to = c /\ x.event = f
                   /\ ~(c = k /\ f = e)
    BY <1>2, <1>4, <1>5
  <2>. QED
    BY <1>2, <1>3, <2>1, OnTheWayIs
<1>7. \A c \in Clients \ {k} : OnTheWay(c)' = OnTheWay(c)
  BY <1>6
<1>8. OnTheWay(k)' = OnTheWay(k) \ {e}
  BY <1>1, <1>6
<1>9. CASE e \in OnTheWay(k)
  BY <1>1, <1>2, <1>3, <1>7, <1>8, <1>9 DEF SeenAs
<1>10. CASE e \notin OnTheWay(k)
  <2>1. OnTheWay(k)' = OnTheWay(k)
    BY <1>8, <1>10
  <2>. QED
    BY <1>1, <1>2, <1>3, <1>7, <2>1 DEF SeenAs
<1>. QED
  BY <1>9, <1>10

\* An event that is thrown out of a channel is lost to a later snapshot.
LEMMA DrainIsSeen ==
  ASSUME Inv, NEW k \in Clients, DrainOne(k), UNCHANGED handlerVars
  PROVE  SeenAs(k)
<1>. DEFINE e == Head(queue[k])
<1>1. /\ k \in draining /\ queue[k] # <<>> /\ queue' = [queue EXCEPT ![k] = Tail(queue[k])]
      /\ UNCHANGED <<seq, phase, closed, eventSeq, outbox, sending, pc, last, item, shown>>
  BY DEF DrainOne, roomVars, handlerVars
<1>2. queue \in [Clients -> Seq(Events)] /\ Sorted(queue[k])
  BY DEF Inv, Types, Ordered
<1>3. /\ e \in Events /\ e \in Elements(queue[k])
      /\ Elements(queue[k]) = {e} \cup Elements(Tail(queue[k]))
      /\ \A x \in Elements(Tail(queue[k])) : e.id < x.id
  BY <1>1, <1>2, TailElements
<1>4. /\ queue'[k] = Tail(queue[k])
      /\ \A c \in Clients \ {k} : queue'[c] = queue[c]
  BY <1>1, <1>2
<1>5. /\ \A c \in Clients : Sent(c)' = Sent(c) /\ Running(c)' = Running(c)
      /\ \A c \in Clients \ {k} : OnTheWay(c)' = OnTheWay(c)
  BY <1>1, <1>4, Undisturbed
<1>6. e.id \in Int /\ \A d \in sending : d.to = k => e.id < d.event.id
  BY <1>3 DEF Events, Inv, Ordered
<1>7. OnTheWay(k)' = OnTheWay(k) \ {e}
  <2>1. \A f : f \in Elements(queue'[k]) <=> f \in Elements(queue[k]) /\ f # e
    BY <1>3, <1>4, <1>6
  <2>2. \A d \in sending : d.to = k => d.event # e
    BY <1>6
  <2>3. \A f : f \in OnTheWay(k)' <=> f \in OnTheWay(k) /\ f # e
    BY <1>1, <1>5, <2>1, <2>2, OnTheWayIs
  <2>. QED
    BY <2>3
<1>8. CASE e \in OnTheWay(k)
  <2>1. PICK d \in sending : d.to = k /\ d.event.state # {}
    BY <1>1 DEF Inv, Owed, Owing
  <2>2. Running(k) /\ last[k] < d.event.id /\ e.id < d.event.id
    BY <1>6, <1>8, <2>1, OnTheWayIs DEF Inv, Ordered
  <2>3. d.event \in OnTheWay(k)
    BY <2>1, <2>2, OnTheWayIs
  <2>. QED
    BY <1>1, <1>5, <1>7, <1>8, <2>1, <2>2, <2>3 DEF SeenAs
<1>9. CASE e \notin OnTheWay(k)
  <2>1. OnTheWay(k)' = OnTheWay(k)
    BY <1>7, <1>9
  <2>. QED
    BY <1>1, <1>5, <2>1 DEF SeenAs
<1>. QED
  BY <1>8, <1>9

\* Every branch of fanoutLocked.
LEMMA DeliverIsSeen ==
  ASSUME Inv, RoomDeliver
  PROVE  \E k \in Clients : SeenAs(k)
<1>1. Deliver /\ UNCHANGED handlerVars
  BY DEF RoomDeliver
<1>2. ASSUME NEW d \in sending, Send(d)
      PROVE  \E k \in Clients : SeenAs(k)
  BY <1>1, <1>2, EnqueueIsUnseen DEF Send
<1>3. ASSUME NEW d \in sending, SendAfterDrain(d)
      PROVE  \E k \in Clients : SeenAs(k)
  <2>1. <<d.event>> = Append(queue[d.to], d.event)
    BY <1>3 DEF SendAfterDrain
  <2>. QED
    BY <1>1, <1>3, <2>1, EnqueueIsUnseen DEF SendAfterDrain
<1>4. ASSUME NEW d \in sending, MakeRoom(d)
      PROVE  \E k \in Clients : SeenAs(k)
  <2>1. d.to \in Clients
    BY DEF Inv, Types, Deliveries
  <2>2. UNCHANGED <<seq, phase, closed, eventSeq, outbox, queue, sending, pc, last, item, shown>>
    BY <1>1, <1>4 DEF MakeRoom, roomVars, handlerVars
  <2>3. \A c \in Clients : Sent(c)' = Sent(c) /\ OnTheWay(c)' = OnTheWay(c)
    BY <2>2, Undisturbed
  <2>. QED
    BY <2>1, <2>2, <2>3 DEF SeenAs
<1>. QED
  BY <1>1, <1>2, <1>3, <1>4, DropIsSeen, DrainIsSeen DEF Deliver

\* The handlers.  What has not started, or has returned, is seen by nobody.
LEMMA HandlersAreSeen ==
  ASSUME Inv, NEW k \in Clients, Find(k) \/ Handle(k) \/ Abandon(k)
  PROVE  SeenAs(k)
<1>. USE DEF Goto
<1>1. /\ pc \in [Clients -> Labels] /\ queue \in [Clients -> Seq(Events)]
      /\ last \in [Clients -> Int] /\ item \in [Clients -> SUBSET Snapshots]
      /\ shown \in [Clients -> Snapshots]
  BY DEF Inv, Types
<1>2. UNCHANGED <<seq, phase, closed, eventSeq, outbox, sending>>
  BY DEF Find, Handle, Abandon, Join, FindAgain, ReadState, Take, Written, WriteFails,
     RoomGone, Return, Leave, Subscribe, Cancel, Receive, roomVars, chanVars
<1>3. \A c \in Clients \ {k} :
        /\ pc'[c] = pc[c] /\ last'[c] = last[c] /\ item'[c] = item[c]
        /\ shown'[c] = shown[c] /\ queue'[c] = queue[c]
  BY <1>1 DEF Find, Handle, Abandon, Join, FindAgain, ReadState, Take, Written, WriteFails,
     RoomGone, Return, Leave, Subscribe, Cancel, Receive, handlerVars, chanVars
<1>4. \A c \in Clients \ {k} : Sent(c)' = Sent(c) /\ OnTheWay(c)' = OnTheWay(c)
  BY <1>2, <1>3, Undisturbed
<1>5. CASE ~Running(k) /\ ~Running(k)'
  <2>1. Sent(k) = {} /\ Sent(k)' = {} /\ OnTheWay(k) = {} /\ OnTheWay(k)' = {}
    BY <1>5 DEF Sent, OnTheWay
  <2>. QED
    BY <1>2, <1>4, <2>1 DEF SeenAs
<1>6. CASE ReadState(k)
  <2>1. /\ pc[k] = "reading" /\ pc'[k] = "writing" /\ last'[k] = eventSeq
        /\ item'[k] = {Snapshot} /\ sending = {} /\ queue' = queue
    BY <1>1, <1>6 DEF ReadState, LockFree, chanVars
  <2>2. Sent(k) = {} /\ OnTheWay(k) = {} /\ Sent(k)' = {Snapshot}
    BY <2>1 DEF Sent, OnTheWay, Running
  <2>3. \A e \in Elements(queue[k]) : e.id <= eventSeq /\ e.id \in Int
    <3>1. \A e \in Elements(queue[k]) : e \in Events /\ e \in InFlight
      BY <1>1, SeenSnapshots DEF Inv, Elements
    <3>. QED
      BY <3>1 DEF Inv, Truthful, Events
  <2>4. OnTheWay(k)' = {}
    <3>1. eventSeq \in Int
      BY DEF Inv, Types
    <3>2. \A e : e \notin OnTheWay(k)'
      BY <1>2, <2>1, <2>3, <3>1, OnTheWayIs
    <3>. QED
      BY <3>2
  <2>. QED
    BY <1>2, <1>4, <2>2, <2>4 DEF SeenAs
<1>7. CASE Take(k)
  <2>. DEFINE e == Head(queue[k])
  <2>1. /\ pc[k] = "streaming" /\ queue[k] # <<>> /\ queue'[k] = Tail(queue[k])
        /\ \/ /\ e.id <= last[k]
              /\ UNCHANGED <<pc, last, item, shown>>
           \/ /\ last[k] < e.id
              /\ last'[k] = e.id /\ item'[k] = e.state /\ pc'[k] = "writing"
              /\ UNCHANGED shown
    BY <1>1, <1>7 DEF Take, Receive, handlerVars
  <2>2. /\ e \in Events /\ e \in Elements(queue[k])
        /\ Elements(queue[k]) = {e} \cup Elements(queue'[k])
        /\ \A x \in Elements(queue'[k]) : e.id < x.id
    BY <1>1, <2>1, TailElements DEF Inv, Ordered
  <2>3. /\ e.id \in Int /\ last[k] \in Int
        /\ \A d \in sending : d.to = k => e.id < d.event.id
    BY <1>1, <2>2 DEF Events, Inv, Ordered
  <2>4. Running(k) /\ Running(k)' /\ item[k] = {}
    BY <2>1 DEF Running, Inv, Handlers, Sound
  <2>A. \A f \in Elements(queue[k]) : f.id \in Int
    <3>1. \A f \in Elements(queue[k]) : f \in Events
      BY <1>1 DEF Elements
    <3>. QED
      BY <3>1 DEF Events
  <2>5. CASE e.id <= last[k] /\ UNCHANGED <<pc, last, item, shown>>
    <3>1. Sent(k)' = Sent(k)
      BY <2>5, Undisturbed
    <3>2. \A f : f \in OnTheWay(k)' <=> f \in OnTheWay(k)
      BY <1>2, <2>2, <2>3, <2>4, <2>5, OnTheWayIs
    <3>3. OnTheWay(k)' = OnTheWay(k)
      BY <3>2
    <3>. QED
      BY <1>2, <1>4, <3>1, <3>3 DEF SeenAs
  <2>6. CASE /\ last[k] < e.id /\ last'[k] = e.id /\ item'[k] = e.state
             /\ UNCHANGED shown
    <3>1. e \in OnTheWay(k)
      BY <2>2, <2>4, <2>6, OnTheWayIs
    <3>2. \A f \in OnTheWay(k) : f = e \/ e.id < f.id
      BY <2>2, <2>3, OnTheWayIs
    <3>3. \A f : f \in OnTheWay(k)' <=> f \in OnTheWay(k) /\ f # e
      <4>1. \A f \in Elements(queue'[k]) : f.id \in Int /\ f # e /\ last[k] < f.id
        <5>1. \A f \in Elements(queue'[k]) : f.id \in Int
          BY <2>2, <2>A
        <5>2. \A f \in Elements(queue'[k]) : e.id < f.id
          BY <2>2
        <5>. QED
          BY <2>3, <2>6, <5>1, <5>2
      <4>2. \A d \in sending : d.to = k => d.event # e
        BY <2>3
      <4>3. \A d \in sending : d.to = k => last[k] < d.event.id
        BY DEF Inv, Ordered
      <4>. QED
        BY <1>2, <2>2, <2>3, <2>4, <2>6, <4>1, <4>2, <4>3, OnTheWayIs
    <3>4. OnTheWay(k)' = OnTheWay(k) \ {e}
      BY <3>3
    <3>5. Sent(k) = {shown[k]} /\ Sent(k)' = IF e.state = {} THEN {shown[k]} ELSE e.state
      BY <2>4, <2>6 DEF Sent
    <3>6. \A f \in OnTheWay(k) : e.id <= f.id
      <4>1. \A d \in sending : d.event.id \in Int
        BY DEF Inv, Types, Deliveries, Events
      <4>2. ASSUME NEW f \in OnTheWay(k), f # e PROVE e.id <= f.id
        <5>1. f.id \in Int
          BY <2>A, <4>1, OnTheWayIs
        <5>2. e.id < f.id
          BY <3>2, <4>2
        <5>. HIDE DEF e
        <5>. QED
          BY <2>3, <5>1, <5>2
      <4>3. e.id <= e.id
        BY <2>3
      <4>. QED
        BY <4>2, <4>3
    <3>. QED
      BY <1>2, <1>4, <3>1, <3>4, <3>5, <3>6 DEF SeenAs
  <2>. QED
    BY <2>1, <2>5, <2>6
<1>8. CASE Written(k)
  <2>1. /\ pc[k] = "writing" /\ pc'[k] = "streaming" /\ item'[k] = {}
        /\ shown'[k] = IF item[k] = {} THEN shown[k] ELSE CHOOSE s \in item[k] : TRUE
        /\ last' = last /\ queue' = queue
    BY <1>1, <1>8 DEF Written, chanVars
  <2>2. item[k] # {} => item[k] = {CHOOSE s \in item[k] : TRUE}
    <3>1. \A s \in item[k] : item[k] = {s}
      BY DEF Inv, Handlers, Sound
    <3>. QED
      BY <3>1
  <2>3. Running(k) /\ Running(k)'
    BY <2>1 DEF Running
  <2>4. Sent(k)' = Sent(k)
    BY <2>1, <2>2, <2>3 DEF Sent
  <2>5. OnTheWay(k)' = OnTheWay(k)
    BY <1>2, <2>1, <2>3 DEF OnTheWay
  <2>. QED
    BY <1>2, <1>4, <2>4, <2>5 DEF SeenAs
<1>9. CASE Return(k) /\ Running(k)
  <2>1. pc'[k] = "leaving"
    BY <1>1, <1>9 DEF Return
  <2>2. Sent(k) # {} /\ Sent(k)' = {} /\ OnTheWay(k)' = {}
    BY <1>9, <2>1, RunningIsWatching DEF Sent, OnTheWay, Running
  <2>. QED
    BY <1>2, <1>4, <2>2 DEF SeenAs
<1>10. CASE Find(k) \/ Join(k) \/ FindAgain(k) \/ Leave(k)
  <2>1. /\ pc[k] \in {"start", "found", "subscribed", "leaving"}
        /\ pc'[k] \in {"found", "gone", "subscribed", "reading", "leaving"}
    BY <1>1, <1>10 DEF Find, Join, FindAgain, Leave
  <2>. QED
    BY <1>5, <2>1 DEF Running
<1>11. WriteFails(k) \/ Abandon(k) \/ RoomGone(k) => Return(k) /\ Running(k)
  BY DEF WriteFails, Abandon, RoomGone, Running
<1>. QED
  BY <1>6, <1>7, <1>8, <1>9, <1>10, <1>11 DEF Handle

\* The streams implement the watched room: whatever the interleaving of the
\* deliveries with the receivers, the draining and the subscriptions, the
\* clients see what they would see if every event reached all of them at
\* once and only what a later snapshot replaces, or a reaction, could be
\* lost (fanoutLocked, handleEvents).
THEOREM StreamsImplementWatching == Spec => WatchedSpec
<1>1. Init => Watched!Init
  <2>. SUFFICES ASSUME Init PROVE Watched!Init
    OBVIOUS
  <2>1. Watched!Feed!Init
    BY DEF Init, FanoutInit, Feed!Init, Watched!Feed!Init
  <2>2. \A c \in Clients : Sent(c) = {} /\ OnTheWay(c) = {}
    BY DEF Init, Sent, OnTheWay, Running
  <2>. QED
    BY <2>1, <2>2 DEF Watched!Init
<1>2. Inv /\ [Next]_vars => [Watched!Next]_(Watched!vars)
  <2>. SUFFICES ASSUME Inv, [Next]_vars PROVE [Watched!Next]_(Watched!vars)
    OBVIOUS
  <2>1. CASE RoomOperate
    BY <2>1, OperateIsSeen DEF Watched!Next
  <2>2. CASE RoomDeliver
    BY <2>2, DeliverIsSeen, SeenAsAStep
  <2>3. CASE RoomClose
    <3>1. Watched!Feed!Next /\ outbox' = {}
      BY <2>3 DEF RoomClose, Close, Feed!Close, Watched!Feed!Next, Watched!Feed!Close
    <3>2. UNCHANGED <<queue, sending, pc, last, item, shown>>
      BY <2>3 DEF RoomClose, Close, handlerVars
    <3>3. \A c \in Clients : Sent(c)' = Sent(c) /\ OnTheWay(c)' = OnTheWay(c)
      BY <3>2, Undisturbed
    <3>4. Watched!Operate
      BY <3>1, <3>3 DEF Watched!Operate
    <3>. QED
      BY <3>4 DEF Watched!Next
  <2>4. CASE RoomExpire \/ UNCHANGED vars
    <3>1. UNCHANGED <<seq, phase, closed, eventSeq, outbox, queue, sending,
                      pc, last, item, shown>>
      BY <2>4 DEF RoomExpire, Expire, vars, roomVars, chanVars, handlerVars
    <3>2. \A c \in Clients : Sent(c)' = Sent(c) /\ OnTheWay(c)' = OnTheWay(c)
      BY <3>1, Undisturbed
    <3>. QED
      BY <3>1, <3>2 DEF Watched!vars
  <2>5. ASSUME NEW k \in Clients, Find(k) \/ Handle(k) \/ Abandon(k)
        PROVE  [Watched!Next]_(Watched!vars)
    BY <2>5, HandlersAreSeen, SeenAsAStep
  <2>. QED
    BY <2>1, <2>2, <2>3, <2>4, <2>5 DEF Next
<1>. QED
  BY <1>1, <1>2, Invariant, PTL DEF Spec, WatchedSpec, Watched!Spec
==============================================================================
