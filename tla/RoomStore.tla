----------------------------- MODULE RoomStore -----------------------------
(***************************************************************************)
(* Where rooms live and when they die (src/internal/room/memstore.go and   *)
(* service.go): the store of the live rooms, the requests that create a    *)
(* room or look one up and then use it, and the sweep that expires the     *)
(* idle ones.                                                              *)
(*                                                                         *)
(* The store has a lock, every room has its own, and a request holds       *)
(* neither between its steps: it finds a room, reads the clock, and uses   *)
(* the room it found.  The sweep holds the store's lock while it visits    *)
(* the rooms, and no lock before it closes each expired one.  A room is    *)
(* named by the request that created it; what a room holds is Room.        *)
(***************************************************************************)
EXTENDS Integers, FiniteSets, Maps

CONSTANTS
  Ids,        \* what RandomID may draw
  Requests,   \* the requests, each made once
  MaxRooms,   \* MaxRooms in room.go
  Tries,      \* how often CreateRoom draws an identifier: 20 in service.go
  RoomTTL,    \* RoomTTL in room.go
  MaxTime     \* bound of the model: the clock stops here

ASSUME RoomStoreAssumption ==
  /\ MaxRooms \in Nat
  /\ Tries \in Nat \ {0}
  /\ RoomTTL \in Nat
  /\ MaxTime \in Nat

VARIABLES
  clock,       \* Service.now
  store,       \* MemStore.rooms: identifiers to rooms
  lastActive,  \* Room.lastActive of every room that was ever stored
  closed,      \* the rooms that are closed
  pc,          \* where each request is
  tries,       \* how often it has drawn an identifier
  held,        \* the room it has found, if any
  stamp,       \* the time it has read
  sweep,       \* where the sweep is
  cutoff,      \* the time before which a room is idle
  toVisit,     \* identifiers Expire has still to look at
  expired,     \* rooms SweepExpired has still to close
  usedAt,      \* per room, when it was last used: not in the code,
  slowest      \* nor the longest any use of it took from its stamp on

times == <<lastActive, usedAt, slowest>>
requestVars == <<pc, tries, held, stamp>>
sweepVars == <<sweep, cutoff, toVisit, expired>>
vars == <<clock, store, times, closed, requestVars, sweepVars>>

Live == DOMAIN store
Rooms == DOMAIN lastActive
Stored == {store[id] : id \in Live}

\* Nobody holds the lock of the store.
StoreFree == sweep # "visiting"

Longer(d, e) == IF d < e THEN e ELSE d

Goto(q, label) == pc' = [pc EXCEPT ![q] = label]

Init ==
  /\ clock = 0
  /\ store = <<>>
  /\ lastActive = <<>> /\ usedAt = <<>> /\ slowest = <<>>
  /\ closed = {}
  /\ pc = [q \in Requests |-> "start"]
  /\ tries = [q \in Requests |-> 0]
  /\ held = [q \in Requests |-> {}]
  /\ stamp = [q \in Requests |-> 0]
  /\ sweep = "idle"
  /\ cutoff = 0
  /\ toVisit = {}
  /\ expired = {}

Tick ==
  /\ clock < MaxTime
  /\ clock' = clock + 1
  /\ UNCHANGED <<store, times, closed, requestVars, sweepVars>>

---------------------------------------------------------------------------
(* Requests.                                                               *)

\* CreateRoom reads the clock for a new room and draws its identifier,
Mint(q) ==
  /\ pc[q] \in {"start", "retry"}
  /\ tries[q] < Tries
  /\ tries' = [tries EXCEPT ![q] = @ + 1]
  /\ stamp' = [stamp EXCEPT ![q] = clock]
  /\ Goto(q, "putting")
  /\ UNCHANGED <<clock, store, times, closed, held, sweepVars>>

\* and puts the room into the store if its identifier is not taken and the
\* store is not full.  The answer is a snapshot, which uses the room.
PutNew(q, id) ==
  /\ id \notin Live
  /\ Cardinality(Live) < MaxRooms
  /\ store' = Assign(store, id, q)
  /\ lastActive' = Assign(lastActive, q, stamp[q])
  /\ usedAt' = Assign(usedAt, q, clock)
  /\ slowest' = Assign(slowest, q, clock - stamp[q])
  /\ held' = [held EXCEPT ![q] = {q}]
  /\ Goto(q, "found")

\* Mutant: the cap lets one room too many in.
PutOverCap(q, id) ==
  /\ pc[q] = "putting"
  /\ StoreFree
  /\ id \notin Live
  /\ Cardinality(Live) <= MaxRooms
  /\ store' = Assign(store, id, q)
  /\ lastActive' = Assign(lastActive, q, stamp[q])
  /\ usedAt' = Assign(usedAt, q, clock)
  /\ slowest' = Assign(slowest, q, clock - stamp[q])
  /\ held' = [held EXCEPT ![q] = {q}]
  /\ Goto(q, "found")
  /\ UNCHANGED <<clock, closed, tries, stamp, sweepVars>>

\* Put.  A collision is looked at before the cap.
Put(q, id) ==
  /\ pc[q] = "putting"
  /\ StoreFree
  /\ \/ PutNew(q, id)
     \/ /\ id \in Live
        /\ Goto(q, IF tries[q] < Tries THEN "retry" ELSE "refused")
        /\ UNCHANGED <<store, times, held>>
     \/ /\ id \notin Live
        /\ Cardinality(Live) >= MaxRooms
        /\ Goto(q, "refused")
        /\ UNCHANGED <<store, times, held>>
  /\ UNCHANGED <<clock, closed, tries, stamp, sweepVars>>

\* Any other request looks its room up.
Get(q, id) ==
  /\ pc[q] = "start"
  /\ StoreFree
  /\ \/ /\ id \in Live
        /\ held' = [held EXCEPT ![q] = {store[id]}]
        /\ Goto(q, "found")
     \/ /\ id \notin Live
        /\ Goto(q, "refused")
        /\ UNCHANGED held
  /\ UNCHANGED <<clock, store, times, closed, tries, stamp, sweepVars>>

\* It reads the clock before it takes the lock of the room.
ReadClock(q) ==
  /\ pc[q] = "found"
  /\ stamp' = [stamp EXCEPT ![q] = clock]
  /\ Goto(q, "stamped")
  /\ UNCHANGED <<clock, store, times, closed, tries, held, sweepVars>>

\* A method of the room refuses to touch a closed room; a snapshot does not
\* look.  A slow request sets lastActive back to the time it has read.  The
\* request ends, and its variables with it.
Use(q) ==
  /\ pc[q] = "stamped"
  /\ \E room \in held[q] :
       \/ /\ lastActive' = [lastActive EXCEPT ![room] = stamp[q]]
          /\ usedAt' = [usedAt EXCEPT ![room] = clock]
          /\ slowest' = [slowest EXCEPT ![room] = Longer(@, clock - stamp[q])]
          /\ Goto(q, "accepted")
       \/ /\ room \in closed
          /\ Goto(q, "refused")
          /\ UNCHANGED times
  /\ tries' = [tries EXCEPT ![q] = 0]
  /\ held' = [held EXCEPT ![q] = {}]
  /\ stamp' = [stamp EXCEPT ![q] = 0]
  /\ UNCHANGED <<clock, store, closed, sweepVars>>

---------------------------------------------------------------------------
(* The sweep.                                                              *)

\* SweepExpired computes the cutoff,
SweepStart ==
  /\ sweep = "idle"
  /\ cutoff' = clock - RoomTTL
  /\ sweep' = "waiting"
  /\ UNCHANGED <<clock, store, times, closed, requestVars, toVisit, expired>>

\* Expire takes the lock of the store,
ExpireBegin ==
  /\ sweep = "waiting"
  /\ sweep' = "visiting"
  /\ toVisit' = Live
  /\ UNCHANGED <<clock, store, times, closed, requestVars, cutoff, expired>>

\* Mutant: the boundary is idle too.
VisitTooEager(id) ==
  /\ id \in toVisit
  /\ toVisit' = toVisit \ {id}
  /\ \/ /\ lastActive[store[id]] <= cutoff
        /\ store' = Without(store, id)
        /\ expired' = expired \cup {store[id]}
     \/ /\ lastActive[store[id]] > cutoff
        /\ UNCHANGED <<store, expired>>
  /\ UNCHANGED <<clock, times, closed, requestVars, sweep, cutoff>>

\* Mutant: the idle room is deleted from the map, but not returned.
VisitForgetting(id) ==
  /\ id \in toVisit
  /\ toVisit' = toVisit \ {id}
  /\ store' = IF lastActive[store[id]] < cutoff THEN Without(store, id) ELSE store
  /\ UNCHANGED <<clock, times, closed, requestVars, sweep, cutoff, expired>>

\* Mutant: the comparison is the wrong way round.
VisitReversed(id) ==
  /\ id \in toVisit
  /\ toVisit' = toVisit \ {id}
  /\ \/ /\ lastActive[store[id]] > cutoff
        /\ store' = Without(store, id)
        /\ expired' = expired \cup {store[id]}
     \/ /\ lastActive[store[id]] <= cutoff
        /\ UNCHANGED <<store, expired>>
  /\ UNCHANGED <<clock, times, closed, requestVars, sweep, cutoff>>

\* looks at the rooms in any order, one room's lock at a time, and takes the
\* idle ones out,
Visit(id) ==
  /\ id \in toVisit
  /\ toVisit' = toVisit \ {id}
  /\ \/ /\ lastActive[store[id]] < cutoff
        /\ store' = Without(store, id)
        /\ expired' = expired \cup {store[id]}
     \/ /\ lastActive[store[id]] >= cutoff
        /\ UNCHANGED <<store, expired>>
  /\ UNCHANGED <<clock, times, closed, requestVars, sweep, cutoff>>

\* and returns,
ExpireEnd ==
  /\ sweep = "visiting"
  /\ toVisit = {}
  /\ sweep' = "closing"
  /\ UNCHANGED <<clock, store, times, closed, requestVars, cutoff, toVisit, expired>>

\* whereupon the rooms are closed one by one.
CloseRoom(room) ==
  /\ sweep = "closing"
  /\ room \in expired
  /\ closed' = closed \cup {room}
  /\ expired' = expired \ {room}
  /\ UNCHANGED <<clock, store, times, requestVars, sweep, cutoff, toVisit>>

SweepEnd ==
  /\ sweep = "closing"
  /\ expired = {}
  /\ sweep' = "idle"
  /\ cutoff' = 0
  /\ UNCHANGED <<clock, store, times, closed, requestVars, toVisit, expired>>

Sweep ==
  \/ SweepStart \/ ExpireBegin \/ ExpireEnd \/ SweepEnd
  \/ \E id \in Ids : Visit(id)
  \/ \E room \in Requests : CloseRoom(room)

Next ==
  \/ Tick \/ Sweep
  \/ \E q \in Requests :
       \/ Mint(q) \/ ReadClock(q) \/ Use(q)
       \/ \E id \in Ids : Put(q, id) \/ Get(q, id)

\* Time passes and RunGC keeps sweeping.  A request may be slow for ever.
Spec == Init /\ [][Next]_vars /\ WF_vars(Tick) /\ WF_vars(Sweep)

---------------------------------------------------------------------------
(* Properties.                                                             *)

\* Every variable keeps its type, and the store its cap.
TypeOK ==
  /\ clock \in 0..MaxTime
  /\ store \in PartialFns(Ids, Rooms)
  /\ IsFiniteSet(Live)
  /\ Cardinality(Live) <= MaxRooms
  /\ \A f \in {lastActive, usedAt, slowest} :
       f \in PartialFns(Requests, 0..MaxTime) /\ DOMAIN f = Rooms
  /\ closed \subseteq Rooms
  /\ pc \in [Requests -> {"start", "retry", "putting", "found", "stamped",
                          "accepted", "refused"}]
  /\ tries \in [Requests -> 0..Tries]
  /\ held \in [Requests -> SUBSET Rooms]
  /\ stamp \in [Requests -> 0..MaxTime]
  /\ sweep \in {"idle", "waiting", "visiting", "closing"}
  /\ cutoff \in -RoomTTL..MaxTime
  /\ toVisit \subseteq Live
  /\ expired \subseteq Rooms

\* A room is in exactly one place: in the store under one identifier, or on
\* its way from there to its end, or closed.  So whoever finds a room finds
\* an open one, and no room is lost with its subscribers waiting
\* (MemStore.Put, Expire, SweepExpired).
EveryRoomIsSomewhere ==
  /\ \A id, other \in Live : store[id] = store[other] => id = other
  /\ Rooms = Stored \cup expired \cup closed
  /\ Stored \cap (expired \cup closed) = {}
  /\ expired \cap closed = {}

\* Nobody has used the room for its time to live, less what its slowest
\* request took from reading the clock to using it: so far lastActive may be
\* set back.
Quiet(room) == usedAt[room] < clock - RoomTTL + slowest[room]

IdleRoomLeaves ==
  \A id \in Live : id \notin DOMAIN store' \/ store'[id] # store[id] =>
    id \notin DOMAIN store' /\ Quiet(store[id])

\* Only the sweep takes a room out of the store, and only one that is quiet,
\* however requests overtake each other and the sweep; a new room never
\* replaces one that is there (Put, Expire, and room.go:231).
OnlyIdleRoomsLeave == [][IdleRoomLeaves]_vars

LastUse(room) == IF room \in Rooms THEN usedAt[room] ELSE -1

\* Nothing tells two requests apart, nor the rooms they create.
SomeRoom == CHOOSE q \in Requests : TRUE

\* A room that nobody uses dies, although every sweep visits the store only
\* once and takes its cutoff before it waits for the lock.
QuietRoomsEvaporate ==
  LET room == SomeRoom IN \A t \in 0..(MaxTime - RoomTTL - 1) :
    LastUse(room) = t ~> (room \in closed \/ LastUse(room) # t)

\* What README.md:105 says: a room evaporates after its time of quiet, so
\* the sweep closes only a quiet room, if slow requests are allowed for.
OnlyQuietRoomsClose ==
  [][\A room \in closed' \ closed : Quiet(room)]_vars
============================================================================
