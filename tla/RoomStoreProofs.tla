-------------------------- MODULE RoomStoreProofs --------------------------
(***************************************************************************)
(* Theorems about RoomStore, for every number of requests, identifiers and *)
(* rooms, every time to live and every cap.                                *)
(***************************************************************************)
EXTENDS RoomStore, DataTheorems

\* A request whose room is not in the store yet has never had one there.
NewRoomsAreNew ==
  \A q \in Requests : pc[q] \in {"start", "retry", "putting"} => q \notin Rooms

\* Expire visits the store only while it holds its lock, and the cutoff was
\* computed before that.
SweepIsOrdered ==
  /\ toVisit # {} => sweep = "visiting"
  /\ sweep # "idle" => cutoff <= clock - RoomTTL

\* No request has read a time to come, and what a room's clock has been set
\* back by is no more than the delay of its slowest request.
UsesAreRecorded ==
  /\ \A q \in Requests : stamp[q] <= clock
  /\ \A room \in Rooms :
       usedAt[room] <= clock /\ usedAt[room] <= lastActive[room] + slowest[room]

\* The times of the rooms are there, as TypeOK says.
TimesOK ==
  \A f \in {lastActive, usedAt, slowest} :
    f \in PartialFns(Requests, 0..MaxTime) /\ DOMAIN f = Rooms

\* The inductive invariant: where the rooms are, and their times.
Placed ==
  /\ TypeOK
  /\ EveryRoomIsSomewhere
  /\ NewRoomsAreNew
  /\ SweepIsOrdered

Inv == Placed /\ UsesAreRecorded

---------------------------------------------------------------------------
LEMMA InitInv == Init => Inv
<1>. SUFFICES ASSUME Init PROVE Inv
  OBVIOUS
<1>1. /\ store \in PartialFns(Ids, Rooms) /\ Live = {}
      /\ TimesOK /\ Rooms = {}
  BY EmptyMap DEF Init, Live, Rooms, TimesOK
<1>2. IsFiniteSet(Live) /\ Cardinality(Live) = 0
  BY <1>1, FS_EmptySet
<1>3. MaxRooms >= 0 /\ 0 \in 0..Tries /\ 0 \in 0..MaxTime /\ 0 \in -RoomTTL..MaxTime
  BY RoomStoreAssumption
<1>4. TypeOK
  BY <1>1, <1>2, <1>3, RoomStoreAssumption DEF Init, TypeOK, TimesOK
<1>5. EveryRoomIsSomewhere
  BY <1>1 DEF Init, EveryRoomIsSomewhere, Stored
<1>6. NewRoomsAreNew
  BY <1>1 DEF NewRoomsAreNew
<1>7. SweepIsOrdered
  BY DEF Init, SweepIsOrdered
<1>8. UsesAreRecorded
  BY <1>1, <1>3 DEF Init, UsesAreRecorded
<1>. QED
  BY <1>4, <1>5, <1>6, <1>7, <1>8 DEF Inv, Placed

\* What Inv says of the times, one by one.
LEMMA TypesOfTimes ==
  ASSUME Inv
  PROVE  /\ Rooms \in SUBSET Requests
         /\ lastActive \in [Rooms -> 0..MaxTime]
         /\ usedAt \in [Rooms -> 0..MaxTime]
         /\ slowest \in [Rooms -> 0..MaxTime]
<1>1. ASSUME NEW f \in {lastActive, usedAt, slowest}
      PROVE  f \in [Rooms -> 0..MaxTime] /\ Rooms \in SUBSET Requests
  <2>1. f \in PartialFns(Requests, 0..MaxTime) /\ DOMAIN f = Rooms
    BY <1>1 DEF Inv, Placed, TypeOK
  <2>. QED
    BY <2>1 DEF PartialFns
<1>. QED
  BY <1>1

\* Steps that touch neither the store nor a room.
LEMMA QuietStep ==
  ASSUME Inv, UNCHANGED <<store, times, closed, expired>>
  PROVE  /\ EveryRoomIsSomewhere'
         /\ Live' = Live /\ Rooms' = Rooms
         /\ (store \in PartialFns(Ids, Rooms))'
         /\ IsFiniteSet(Live') /\ Cardinality(Live') <= MaxRooms
         /\ TimesOK'
         /\ closed' \subseteq Rooms' /\ expired' \subseteq Rooms'
<1>1. Live' = Live /\ Rooms' = Rooms /\ Stored' = Stored
  BY DEF Live, Rooms, Stored, times
<1>. QED
  BY <1>1 DEF Inv, Placed, TypeOK, EveryRoomIsSomewhere, times, TimesOK

LEMMA TickStep ==
  ASSUME Inv, Tick
  PROVE  Placed'
<1>. USE RoomStoreAssumption DEF Tick, requestVars, sweepVars
<1>1. TypeOK'
  BY QuietStep DEF Inv, Placed, TypeOK, TimesOK
<1>2. NewRoomsAreNew'
  BY QuietStep DEF Inv, Placed, NewRoomsAreNew
<1>3. SweepIsOrdered'
  BY DEF Inv, Placed, TypeOK, SweepIsOrdered
<1>. QED
  BY <1>1, <1>2, <1>3, QuietStep DEF Inv, Placed

LEMMA MintStep ==
  ASSUME Inv, NEW q \in Requests, Mint(q)
  PROVE  Placed'
<1>. USE RoomStoreAssumption DEF Mint, Goto, sweepVars
<1>1. TypeOK'
  BY QuietStep DEF Inv, Placed, TypeOK, TimesOK
<1>2. NewRoomsAreNew'
  BY QuietStep DEF Inv, Placed, TypeOK, TimesOK, NewRoomsAreNew
<1>3. SweepIsOrdered'
  BY DEF Inv, Placed, SweepIsOrdered
<1>. QED
  BY <1>1, <1>2, <1>3, QuietStep DEF Inv, Placed

\* A room enters the store under an identifier nobody has.
LEMMA PutNewStep ==
  ASSUME Inv, NEW q \in Requests, NEW id \in Ids, Put(q, id), PutNew(q, id)
  PROVE  Placed'
<1>1. q \notin Rooms /\ stamp[q] \in 0..MaxTime
  BY DEF Inv, Placed, TypeOK, NewRoomsAreNew, Put
<1>2. TimesOK' /\ Rooms' = Rooms \cup {q}
  <2>1. /\ lastActive \in [Rooms -> 0..MaxTime] /\ usedAt \in [Rooms -> 0..MaxTime]
        /\ slowest \in [Rooms -> 0..MaxTime] /\ Rooms \cup {q} \in SUBSET Requests
    BY TypesOfTimes DEF Inv, Placed
  <2>2. clock \in 0..MaxTime /\ clock - stamp[q] \in 0..MaxTime
    BY <1>1, RoomStoreAssumption DEF Inv, Placed, TypeOK, UsesAreRecorded
  <2>3. lastActive' \in [Rooms \cup {q} -> 0..MaxTime]
    BY <1>1, <2>1 DEF PutNew, Assign
  <2>4. usedAt' \in [Rooms \cup {q} -> 0..MaxTime]
    BY <2>1, <2>2 DEF PutNew, Assign
  <2>5. slowest' \in [Rooms \cup {q} -> 0..MaxTime]
    BY <2>1, <2>2 DEF PutNew, Assign
  <2>. QED
    BY <2>1, <2>3, <2>4, <2>5 DEF PartialFns, Rooms, TimesOK
<1>3. store \in PartialFns(Ids, Rooms')
  BY <1>2, WiderType DEF Inv, Placed, TypeOK
<1>4. /\ store' \in PartialFns(Ids, Rooms')
      /\ Live' = Live \cup {id}
      /\ store'[id] = q
      /\ \A other \in Live : store'[other] = store[other]
  <2>1. q \in Rooms'
    BY <1>2
  <2>2. PICK X \in SUBSET Ids : store \in [X -> Rooms'] /\ X = Live
    BY <1>3 DEF PartialFns, Live
  <2>3. store' = Assign(store, id, q) /\ id \notin Live
    BY DEF PutNew
  <2>4. store' \in [X \cup {id} -> Rooms'] /\ X \cup {id} \in SUBSET Ids
    BY <2>1, <2>2, <2>3 DEF Assign
  <2>5. store'[id] = q /\ \A other \in Live : store'[other] = store[other]
    BY <2>2, <2>3 DEF Assign
  <2>. QED
    BY <2>2, <2>4, <2>5 DEF PartialFns, Live
<1>5. IsFiniteSet(Live') /\ Cardinality(Live') <= MaxRooms
  <2>1. Cardinality(Live) < MaxRooms /\ IsFiniteSet(Live) /\ id \notin Live
    BY DEF Inv, Placed, TypeOK, PutNew
  <2>2. IsFiniteSet(Live') /\ Cardinality(Live') = Cardinality(Live) + 1
    BY <1>4, <2>1, FS_AddElement
  <2>3. Cardinality(Live) \in Nat
    BY <2>1, FS_CardinalityType
  <2>. QED
    BY <2>1, <2>2, <2>3, RoomStoreAssumption
<1>6. TypeOK'
  <2>1. held' \in [Requests -> SUBSET Rooms']
    BY <1>2 DEF Inv, Placed, TypeOK, PutNew
  <2>2. closed' \subseteq Rooms' /\ expired' \subseteq Rooms' /\ toVisit' \subseteq Live'
    BY <1>2, <1>4 DEF Inv, Placed, TypeOK, Put, sweepVars
  <2>. QED
    BY <1>2, <1>4, <1>5, <2>1, <2>2 DEF Inv, Placed, TypeOK, TimesOK, Put, PutNew, Goto, sweepVars
<1>7. EveryRoomIsSomewhere'
  <2>1. \A other \in Live : store[other] \in Rooms
    BY KeysAndValues DEF Inv, Placed, TypeOK, Live
  <2>2. Stored' = Stored \cup {q}
    BY <1>4 DEF Stored
  <2>3. \A i, j \in Live' : store'[i] = store'[j] => i = j
    BY <1>1, <1>4, <2>1 DEF Inv, Placed, EveryRoomIsSomewhere
  <2>4. closed' = closed /\ expired' = expired
    BY DEF Put, sweepVars
  <2>5. /\ Rooms = Stored \cup expired \cup closed
        /\ Stored \cap (expired \cup closed) = {}
        /\ expired \cap closed = {}
    BY DEF Inv, Placed, EveryRoomIsSomewhere
  <2>6. /\ Rooms' = Stored' \cup expired' \cup closed'
        /\ Stored' \cap (expired' \cup closed') = {}
        /\ expired' \cap closed' = {}
    BY <1>1, <1>2, <2>2, <2>4, <2>5
  <2>. QED
    BY <2>3, <2>6 DEF EveryRoomIsSomewhere
<1>8. NewRoomsAreNew'
  BY <1>2 DEF Inv, Placed, TypeOK, NewRoomsAreNew, PutNew, Goto
<1>9. SweepIsOrdered'
  BY DEF Inv, Placed, SweepIsOrdered, Put, sweepVars
<1>. QED
  BY <1>6, <1>7, <1>8, <1>9 DEF Inv, Placed

LEMMA PutStep ==
  ASSUME Inv, NEW q \in Requests, NEW id \in Ids, Put(q, id)
  PROVE  Placed'
<1>1. CASE PutNew(q, id)
  BY <1>1, PutNewStep
<1>2. ASSUME UNCHANGED <<store, times, held>>,
             pc' = [pc EXCEPT ![q] = pc'[q]], pc'[q] \in {"retry", "refused"}
      PROVE  Placed'
  <2>. USE DEF Put, sweepVars
  <2>1. TypeOK'
    BY <1>2, QuietStep DEF Inv, Placed, TypeOK, TimesOK
  <2>2. NewRoomsAreNew'
    BY <1>2, QuietStep DEF Inv, Placed, TypeOK, TimesOK, NewRoomsAreNew
  <2>3. SweepIsOrdered'
    BY DEF Inv, Placed, SweepIsOrdered
  <2>. QED
    BY <1>2, <2>1, <2>2, <2>3, QuietStep DEF Inv, Placed
<1>3. ASSUME ~PutNew(q, id)
      PROVE  /\ UNCHANGED <<store, times, held>>
             /\ pc' = [pc EXCEPT ![q] = pc'[q]]
             /\ pc'[q] \in {"retry", "refused"}
  BY <1>3 DEF Put, Goto, Inv, Placed, TypeOK
<1>. QED
  BY <1>1, <1>2, <1>3

LEMMA GetStep ==
  ASSUME Inv, NEW q \in Requests, NEW id \in Ids, Get(q, id)
  PROVE  Placed'
<1>. USE DEF Get, Goto, sweepVars
<1>1. held' \in [Requests -> SUBSET Rooms]
  <2>1. id \in Live => store[id] \in Rooms
    BY DEF Inv, Placed, TypeOK, PartialFns, Live
  <2>. QED
    BY <2>1 DEF Inv, Placed, TypeOK
<1>2. TypeOK'
  BY <1>1, QuietStep DEF Inv, Placed, TypeOK, TimesOK
<1>3. NewRoomsAreNew'
  BY QuietStep DEF Inv, Placed, TypeOK, TimesOK, NewRoomsAreNew
<1>4. SweepIsOrdered'
  BY DEF Inv, Placed, SweepIsOrdered
<1>. QED
  BY <1>2, <1>3, <1>4, QuietStep DEF Inv, Placed

LEMMA ReadClockStep ==
  ASSUME Inv, NEW q \in Requests, ReadClock(q)
  PROVE  Placed'
<1>. USE DEF ReadClock, Goto, sweepVars
<1>1. TypeOK'
  BY QuietStep DEF Inv, Placed, TypeOK, TimesOK
<1>2. NewRoomsAreNew'
  BY QuietStep DEF Inv, Placed, TypeOK, TimesOK, NewRoomsAreNew
<1>3. SweepIsOrdered'
  BY DEF Inv, Placed, SweepIsOrdered
<1>. QED
  BY <1>1, <1>2, <1>3, QuietStep DEF Inv, Placed

\* A use changes the time of a room, not where it is.
LEMMA UseStep ==
  ASSUME Inv, NEW q \in Requests, Use(q)
  PROVE  Placed'
<1>. USE DEF Use, Goto, sweepVars
<1>1. PICK room \in held[q] :
        \/ /\ lastActive' = [lastActive EXCEPT ![room] = stamp[q]]
           /\ usedAt' = [usedAt EXCEPT ![room] = clock]
           /\ slowest' = [slowest EXCEPT ![room] = Longer(@, clock - stamp[q])]
        \/ UNCHANGED times
  OBVIOUS
<1>2. TimesOK' /\ Rooms' = Rooms
  <2>1. /\ lastActive \in [Rooms -> 0..MaxTime] /\ usedAt \in [Rooms -> 0..MaxTime]
        /\ slowest \in [Rooms -> 0..MaxTime] /\ Rooms \in SUBSET Requests
    BY TypesOfTimes
  <2>2. /\ stamp[q] \in 0..MaxTime /\ clock \in 0..MaxTime /\ room \in Rooms
        /\ 0 \in 0..MaxTime
    BY RoomStoreAssumption DEF Inv, Placed, TypeOK
  <2>3. clock - stamp[q] \in 0..MaxTime
    BY <2>2, RoomStoreAssumption DEF Inv, UsesAreRecorded
  <2>4. Longer(slowest[room], clock - stamp[q]) \in 0..MaxTime
    BY <2>1, <2>2, <2>3 DEF Longer
  <2>5. /\ lastActive' \in [Rooms -> 0..MaxTime] /\ usedAt' \in [Rooms -> 0..MaxTime]
        /\ slowest' \in [Rooms -> 0..MaxTime]
    BY <1>1, <2>1, <2>2, <2>4 DEF times
  <2>. QED
    BY <2>1, <2>5 DEF PartialFns, Rooms, TimesOK
<1>3. Live' = Live /\ Stored' = Stored
  BY DEF Live, Stored
<1>4. TypeOK'
  <2>1. 0 \in 0..Tries /\ 0 \in 0..MaxTime
    BY RoomStoreAssumption
  <2>2. /\ tries' \in [Requests -> 0..Tries] /\ stamp' \in [Requests -> 0..MaxTime]
        /\ held' \in [Requests -> SUBSET Rooms']
        /\ pc' \in [Requests -> {"start", "retry", "putting", "found", "stamped",
                                 "accepted", "refused"}]
    BY <1>2, <2>1 DEF Inv, Placed, TypeOK
  <2>. QED
    BY <1>2, <1>3, <2>2 DEF Inv, Placed, TypeOK, TimesOK
<1>5. EveryRoomIsSomewhere'
  BY <1>2, <1>3 DEF Inv, Placed, EveryRoomIsSomewhere
<1>6. NewRoomsAreNew'
  BY <1>2 DEF Inv, Placed, TypeOK, NewRoomsAreNew
<1>7. SweepIsOrdered'
  BY DEF Inv, Placed, SweepIsOrdered
<1>. QED
  BY <1>4, <1>5, <1>6, <1>7 DEF Inv, Placed

---------------------------------------------------------------------------
(* The sweep.                                                              *)

\* The steps of the sweep between the rooms.
LEMMA SweepStep ==
  ASSUME Inv, SweepStart \/ ExpireBegin \/ ExpireEnd \/ SweepEnd
  PROVE  Placed'
<1>. USE DEF SweepStart, ExpireBegin, ExpireEnd, SweepEnd, requestVars
<1>1. UNCHANGED <<clock, store, times, closed, expired, pc, tries, held, stamp>>
  OBVIOUS
<1>2. cutoff' \in -RoomTTL..MaxTime
  BY RoomStoreAssumption DEF Inv, Placed, TypeOK
<1>3. TypeOK'
  BY <1>1, <1>2, QuietStep DEF Inv, Placed, TypeOK, TimesOK
<1>4. NewRoomsAreNew'
  BY <1>1, QuietStep DEF Inv, Placed, NewRoomsAreNew
<1>5. SweepIsOrdered'
  <2>1. toVisit' # {} => sweep' = "visiting"
    BY DEF Inv, Placed, SweepIsOrdered
  <2>2. sweep' # "idle" => cutoff' <= clock' - RoomTTL
    BY RoomStoreAssumption DEF Inv, Placed, TypeOK, SweepIsOrdered
  <2>. QED
    BY <2>1, <2>2 DEF SweepIsOrdered
<1>. QED
  BY <1>1, <1>3, <1>4, <1>5, QuietStep DEF Inv, Placed

\* A room that is not idle stays.
LEMMA VisitActiveStep ==
  ASSUME Inv, NEW id \in Ids, Visit(id), UNCHANGED <<store, expired>>
  PROVE  Placed'
<1>. USE DEF Visit, requestVars
<1>1. TypeOK'
  BY QuietStep DEF Inv, Placed, TypeOK, TimesOK
<1>2. NewRoomsAreNew'
  BY QuietStep DEF Inv, Placed, NewRoomsAreNew
<1>3. SweepIsOrdered'
  BY DEF Inv, Placed, SweepIsOrdered
<1>. QED
  BY <1>1, <1>2, <1>3, QuietStep DEF Inv, Placed

\* An idle room moves from the store to the expired ones.
LEMMA VisitIdleStep ==
  ASSUME Inv, NEW id \in Ids, Visit(id),
         store' = Without(store, id), expired' = expired \cup {store[id]}
  PROVE  Placed'
<1>. USE DEF Visit, requestVars
<1>1. Rooms' = Rooms /\ id \in Live
  BY DEF Inv, Placed, TypeOK, Rooms, times
<1>2. /\ store' \in PartialFns(Ids, Rooms)
      /\ Live' = Live \ {id}
      /\ \A other \in Live \ {id} : store'[other] = store[other]
  <2>1. store \in PartialFns(Ids, Rooms)
    BY DEF Inv, Placed, TypeOK
  <2>2. /\ Without(store, id) \in PartialFns(Ids, Rooms)
        /\ DOMAIN Without(store, id) = DOMAIN store \ {id}
        /\ \A other \in DOMAIN store \ {id} :
             Without(store, id)[other] = store[other]
    BY <2>1, WithoutType
  <2>. QED
    BY <2>2 DEF Live
<1>3. \A other \in Live : store[other] \in Rooms
  BY KeysAndValues DEF Inv, Placed, TypeOK, Live
<1>4. IsFiniteSet(Live') /\ Cardinality(Live') <= MaxRooms
  <2>1. IsFiniteSet(Live) /\ Cardinality(Live) <= MaxRooms
    BY DEF Inv, Placed, TypeOK
  <2>2. IsFiniteSet(Live') /\ Cardinality(Live') = Cardinality(Live) - 1
    BY <1>1, <1>2, <2>1, FS_RemoveElement
  <2>3. Cardinality(Live) \in Nat
    BY <2>1, FS_CardinalityType
  <2>. QED
    BY <2>1, <2>2, <2>3, RoomStoreAssumption
<1>5. TypeOK'
  BY <1>1, <1>2, <1>3, <1>4 DEF Inv, Placed, TypeOK, times
<1>6. EveryRoomIsSomewhere'
  <2>1. /\ \A i, j \in Live : store[i] = store[j] => i = j
        /\ Rooms = Stored \cup expired \cup closed
        /\ Stored \cap (expired \cup closed) = {}
        /\ expired \cap closed = {}
    BY DEF Inv, Placed, EveryRoomIsSomewhere
  <2>2. \A i, j \in Live' : store'[i] = store'[j] => i = j
    BY <1>2, <2>1
  <2>3. Stored' = Stored \ {store[id]} /\ store[id] \in Stored
    BY <1>1, <1>2, <2>1 DEF Stored
  <2>4. /\ Rooms' = Stored' \cup expired' \cup closed'
        /\ Stored' \cap (expired' \cup closed') = {}
        /\ expired' \cap closed' = {}
    BY <1>1, <2>1, <2>3
  <2>. QED
    BY <2>2, <2>4 DEF EveryRoomIsSomewhere
<1>7. NewRoomsAreNew'
  BY <1>1 DEF Inv, Placed, NewRoomsAreNew
<1>8. SweepIsOrdered'
  BY DEF Inv, Placed, SweepIsOrdered
<1>. QED
  BY <1>5, <1>6, <1>7, <1>8 DEF Inv, Placed

LEMMA CloseRoomStep ==
  ASSUME Inv, NEW room \in Requests, CloseRoom(room)
  PROVE  Placed'
<1>. USE DEF CloseRoom, requestVars
<1>1. Live' = Live /\ Rooms' = Rooms /\ Stored' = Stored
  BY DEF Live, Rooms, Stored, times
<1>2. TypeOK'
  BY <1>1 DEF Inv, Placed, TypeOK, times
<1>3. EveryRoomIsSomewhere'
  BY <1>1 DEF Inv, Placed, EveryRoomIsSomewhere
<1>4. NewRoomsAreNew'
  BY <1>1 DEF Inv, Placed, NewRoomsAreNew
<1>5. SweepIsOrdered'
  BY DEF Inv, Placed, SweepIsOrdered
<1>. QED
  BY <1>2, <1>3, <1>4, <1>5 DEF Inv, Placed

---------------------------------------------------------------------------
\* Every step keeps the rooms in their places,
LEMMA NextPlaced == Inv /\ [Next]_vars => Placed'
<1>. SUFFICES ASSUME Inv, [Next]_vars PROVE Placed'
  OBVIOUS
<1>1. CASE Tick
  BY <1>1, TickStep
<1>2. CASE SweepStart \/ ExpireBegin \/ ExpireEnd \/ SweepEnd
  BY <1>2, SweepStep
<1>3. ASSUME NEW id \in Ids, Visit(id) PROVE Placed'
  <2>1. \/ UNCHANGED <<store, expired>>
        \/ store' = Without(store, id) /\ expired' = expired \cup {store[id]}
    BY <1>3 DEF Visit
  <2>. QED
    BY <1>3, <2>1, VisitActiveStep, VisitIdleStep
<1>4. ASSUME NEW room \in Requests, CloseRoom(room) PROVE Placed'
  BY <1>4, CloseRoomStep
<1>5. ASSUME NEW q \in Requests, Mint(q) \/ ReadClock(q) \/ Use(q) PROVE Placed'
  BY <1>5, MintStep, ReadClockStep, UseStep
<1>6. ASSUME NEW q \in Requests, NEW id \in Ids, Put(q, id) \/ Get(q, id)
      PROVE  Placed'
  BY <1>6, PutStep, GetStep
<1>7. CASE UNCHANGED vars
  <2>1. UNCHANGED <<clock, store, times, closed, pc, tries, held, stamp,
                    sweep, cutoff, toVisit, expired>>
    BY <1>7 DEF vars, requestVars, sweepVars
  <2>2. TypeOK' /\ NewRoomsAreNew' /\ SweepIsOrdered'
    BY <2>1, QuietStep DEF Inv, Placed, TypeOK, TimesOK, NewRoomsAreNew, SweepIsOrdered
  <2>. QED
    BY <2>1, <2>2, QuietStep DEF Inv, Placed
<1>. QED
  BY <1>1, <1>2, <1>3, <1>4, <1>5, <1>6, <1>7 DEF Next, Sweep

\* and the times of the rooms in order: steps that use no room,
LEMMA UnusedStep ==
  ASSUME Inv, UNCHANGED times, clock' \in Int, clock <= clock',
         \A q \in Requests : stamp'[q] \in {stamp[q], clock', 0}, clock' >= 0
  PROVE  UsesAreRecorded'
<1>1. Rooms' = Rooms
  BY DEF Rooms, times
<1>2. /\ clock \in Int /\ \A q \in Requests : stamp[q] \in Int
      /\ \A room \in Rooms : usedAt[room] \in Int
  <2>1. clock \in Int /\ \A q \in Requests : stamp[q] \in Int
    BY DEF Inv, Placed, TypeOK
  <2>2. \A room \in Rooms : usedAt[room] \in Int
    BY TypesOfTimes
  <2>. QED
    BY <2>1, <2>2
<1>3. \A q \in Requests : stamp'[q] <= clock'
  BY <1>2 DEF Inv, UsesAreRecorded
<1>4. \A room \in Rooms :
        usedAt[room] <= clock' /\ usedAt[room] <= lastActive[room] + slowest[room]
  BY <1>2 DEF Inv, UsesAreRecorded
<1>. QED
  BY <1>1, <1>3, <1>4 DEF UsesAreRecorded, times

\* the first use of a room, by its creator,
LEMMA PutNewUses ==
  ASSUME Inv, NEW q \in Requests, NEW id \in Ids, Put(q, id), PutNew(q, id)
  PROVE  UsesAreRecorded'
<1>1. /\ clock' = clock /\ stamp' = stamp /\ clock \in Int /\ stamp[q] \in Int
      /\ q \notin Rooms
  BY DEF Inv, Placed, TypeOK, NewRoomsAreNew, Put
<1>2. Rooms' = Rooms \cup {q}
  BY DEF PutNew, Rooms, Assign
<1>3. usedAt'[q] = clock /\ lastActive'[q] = stamp[q] /\ slowest'[q] = clock - stamp[q]
  BY DEF PutNew, Assign
<1>4. ASSUME NEW room \in Rooms
      PROVE  /\ usedAt'[room] = usedAt[room] /\ lastActive'[room] = lastActive[room]
             /\ slowest'[room] = slowest[room]
  BY <1>1, TypesOfTimes DEF PutNew, Assign
<1>5. \A other \in Requests : stamp'[other] <= clock'
  BY <1>1 DEF Inv, UsesAreRecorded
<1>6. ASSUME NEW room \in Rooms'
      PROVE  usedAt'[room] <= clock' /\ usedAt'[room] <= lastActive'[room] + slowest'[room]
  <2>1. CASE room = q
    BY <1>1, <1>3, <2>1
  <2>2. CASE room \in Rooms
    BY <1>1, <1>4, <2>2 DEF Inv, UsesAreRecorded
  <2>. QED
    BY <1>2, <2>1, <2>2
<1>. QED
  BY <1>5, <1>6 DEF UsesAreRecorded

\* and any later one, which may set its clock back.
LEMMA UseUses ==
  ASSUME Inv, NEW q \in Requests, Use(q), ~UNCHANGED times
  PROVE  UsesAreRecorded'
<1>1. PICK used \in held[q] :
        /\ lastActive' = [lastActive EXCEPT ![used] = stamp[q]]
        /\ usedAt' = [usedAt EXCEPT ![used] = clock]
        /\ slowest' = [slowest EXCEPT ![used] = Longer(@, clock - stamp[q])]
  BY DEF Use
<1>2. /\ clock' = clock /\ clock \in Int /\ clock >= 0 /\ stamp[q] \in Int
      /\ used \in Rooms /\ stamp[q] <= clock
  BY DEF Inv, Placed, TypeOK, Use, UsesAreRecorded
<1>3. /\ lastActive \in [Rooms -> 0..MaxTime] /\ usedAt \in [Rooms -> 0..MaxTime]
      /\ slowest \in [Rooms -> 0..MaxTime]
  BY TypesOfTimes
<1>4. Rooms' = Rooms
  BY <1>1 DEF Rooms
<1>5. \A other \in Requests : stamp'[other] <= clock'
  <2>1. \A other \in Requests : stamp'[other] \in {stamp[other], 0}
    BY DEF Use, Inv, Placed, TypeOK
  <2>. QED
    BY <1>2, <2>1 DEF Inv, UsesAreRecorded
<1>6. ASSUME NEW room \in Rooms
      PROVE  usedAt'[room] <= clock' /\ usedAt'[room] <= lastActive'[room] + slowest'[room]
  <2>1. CASE room = used
    <3>1. /\ usedAt'[room] = clock /\ lastActive'[room] = stamp[q]
          /\ slowest'[room] = Longer(slowest[room], clock - stamp[q])
      BY <1>1, <1>3, <2>1
    <3>2. slowest[room] \in Int
      BY <1>3
    <3>3. Longer(slowest[room], clock - stamp[q]) >= clock - stamp[q]
      BY <1>2, <3>2 DEF Longer
    <3>4. Longer(slowest[room], clock - stamp[q]) \in Int
      BY <1>2, <3>2 DEF Longer
    <3>. QED
      BY <1>2, <3>1, <3>3, <3>4
  <2>2. CASE room # used
    <3>1. /\ usedAt'[room] = usedAt[room] /\ lastActive'[room] = lastActive[room]
          /\ slowest'[room] = slowest[room]
      BY <1>1, <1>3, <2>2
    <3>. QED
      BY <1>2, <3>1 DEF Inv, UsesAreRecorded
  <2>. QED
    BY <2>1, <2>2
<1>. QED
  BY <1>4, <1>5, <1>6 DEF UsesAreRecorded

LEMMA NextUses == Inv /\ [Next]_vars => UsesAreRecorded'
<1>. SUFFICES ASSUME Inv, [Next]_vars PROVE UsesAreRecorded'
  OBVIOUS
<1>1. /\ clock \in Int /\ clock >= 0 /\ clock + 1 \in Int /\ clock <= clock + 1
      /\ clock <= clock /\ clock + 1 >= 0 /\ stamp \in [Requests -> 0..MaxTime]
  BY DEF Inv, Placed, TypeOK
<1>2. ASSUME UNCHANGED <<times, stamp>>, clock' \in {clock, clock + 1}
      PROVE  UsesAreRecorded'
  BY <1>1, <1>2, UnusedStep
<1>3. CASE Tick
  BY <1>2, <1>3 DEF Tick, requestVars
<1>4. CASE Sweep
  BY <1>2, <1>4 DEF Sweep, SweepStart, ExpireBegin, Visit, ExpireEnd, CloseRoom,
                    SweepEnd, requestVars
<1>5. ASSUME NEW q \in Requests, Mint(q) \/ ReadClock(q) PROVE UsesAreRecorded'
  <2>1. UNCHANGED <<clock, times>> /\ stamp' = [stamp EXCEPT ![q] = clock]
    BY <1>5 DEF Mint, ReadClock
  <2>2. \A other \in Requests : stamp'[other] \in {stamp[other], clock', 0}
    BY <1>1, <2>1
  <2>. QED
    BY <1>1, <2>1, <2>2, UnusedStep
<1>6. ASSUME NEW q \in Requests, Use(q) PROVE UsesAreRecorded'
  <2>1. clock' = clock /\ stamp' = [stamp EXCEPT ![q] = 0]
    BY <1>6 DEF Use
  <2>2. \A other \in Requests : stamp'[other] \in {stamp[other], clock', 0}
    BY <1>1, <2>1
  <2>3. CASE UNCHANGED times
    BY <1>1, <2>1, <2>2, <2>3, UnusedStep
  <2>. QED
    BY <1>6, <2>3, UseUses
<1>7. ASSUME NEW q \in Requests, NEW id \in Ids, Put(q, id) PROVE UsesAreRecorded'
  <2>1. CASE PutNew(q, id)
    BY <1>7, <2>1, PutNewUses
  <2>2. CASE ~PutNew(q, id)
    BY <1>2, <1>7, <2>2 DEF Put
  <2>. QED
    BY <2>1, <2>2
<1>8. ASSUME NEW q \in Requests, NEW id \in Ids, Get(q, id) PROVE UsesAreRecorded'
  BY <1>2, <1>8 DEF Get
<1>9. CASE UNCHANGED vars
  BY <1>2, <1>9 DEF vars, requestVars
<1>. QED
  BY <1>3, <1>4, <1>5, <1>6, <1>7, <1>8, <1>9 DEF Next

\* The inductive invariant holds in every reachable state.
THEOREM StoreInvariant == Spec => []Inv
<1>1. Inv /\ [Next]_vars => Inv'
  BY NextPlaced, NextUses DEF Inv
<1>. QED
  BY InitInv, <1>1, PTL DEF Spec

\* The store is well typed and never holds more than MaxRooms rooms (Put).
THEOREM StoreTypeCorrect == Spec => []TypeOK
<1>1. Inv => TypeOK
  BY DEF Inv, Placed
<1>. QED
  BY <1>1, StoreInvariant, PTL

\* Every room is stored, expired or closed, and only one of them: the sweep
\* loses none and a lookup finds no dead one (Put, Expire, SweepExpired).
THEOREM RoomsAreSomewhere == Spec => []EveryRoomIsSomewhere
<1>1. Inv => EveryRoomIsSomewhere
  BY DEF Inv, Placed
<1>. QED
  BY <1>1, StoreInvariant, PTL

---------------------------------------------------------------------------
LEMMA StepLeavesActiveRooms == Inv /\ [Next]_vars => [IdleRoomLeaves]_vars
<1>. SUFFICES ASSUME Inv, Next PROVE IdleRoomLeaves
  OBVIOUS
<1>1. ASSUME store' = store PROVE IdleRoomLeaves
  BY <1>1 DEF IdleRoomLeaves, Live
<1>2. ASSUME NEW q \in Requests, NEW id \in Ids, Put(q, id) PROVE IdleRoomLeaves
  <2>1. CASE UNCHANGED store
    BY <1>1, <2>1
  <2>2. CASE PutNew(q, id)
    <3>1. \A other \in Live : other \in DOMAIN store' /\ store'[other] = store[other]
      BY <2>2 DEF PutNew, Assign, Live
    <3>. QED
      BY <3>1 DEF IdleRoomLeaves
  <2>. QED
    BY <1>2, <2>1, <2>2 DEF Put
<1>3. ASSUME NEW id \in Ids, Visit(id), store' # store PROVE IdleRoomLeaves
  <2>1. store' = Without(store, id) /\ lastActive[store[id]] < cutoff
    BY <1>3 DEF Visit
  <2>2. /\ DOMAIN store' = Live \ {id}
        /\ \A other \in Live \ {id} : store'[other] = store[other]
    <3>1. store \in PartialFns(Ids, Rooms)
      BY DEF Inv, Placed, TypeOK
    <3>2. /\ DOMAIN Without(store, id) = DOMAIN store \ {id}
          /\ \A other \in DOMAIN store \ {id} :
               Without(store, id)[other] = store[other]
      BY <3>1, WithoutType
    <3>. QED
      BY <2>1, <3>2 DEF Live
  <2>3. /\ store[id] \in Rooms /\ lastActive[store[id]] \in Int
        /\ usedAt[store[id]] \in Int /\ slowest[store[id]] \in Int
    <3>1. id \in Live /\ store[id] \in Rooms
      BY <1>3, KeysAndValues DEF Visit, Inv, Placed, TypeOK, Live
    <3>. QED
      BY <3>1, TypesOfTimes
  <2>4. cutoff <= clock - RoomTTL
    BY <1>3 DEF Visit, Inv, Placed, SweepIsOrdered
  <2>5. usedAt[store[id]] <= lastActive[store[id]] + slowest[store[id]]
    BY <2>3 DEF Inv, UsesAreRecorded
  <2>6. cutoff \in Int /\ clock \in Int /\ RoomTTL \in Int
    BY RoomStoreAssumption DEF Inv, Placed, TypeOK
  <2>7. Quiet(store[id])
    BY <2>1, <2>3, <2>4, <2>5, <2>6 DEF Quiet
  <2>. QED
    BY <2>2, <2>7 DEF IdleRoomLeaves
<1>4. ASSUME \/ Tick \/ SweepStart \/ ExpireBegin \/ ExpireEnd \/ SweepEnd
             \/ \E room \in Requests : CloseRoom(room)
             \/ \E q \in Requests : Mint(q) \/ ReadClock(q) \/ Use(q)
             \/ \E q \in Requests, id \in Ids : Get(q, id)
      PROVE  store' = store
  BY <1>4 DEF Tick, SweepStart, ExpireBegin, ExpireEnd, SweepEnd, CloseRoom,
              Mint, ReadClock, Use, Get
<1>. QED
  BY <1>1, <1>2, <1>3, <1>4 DEF Next, Sweep

\* Only a room that nobody used for RoomTTL, less the delay of its slowest
\* request, leaves the store, and no room is ever replaced (Put, Expire).
THEOREM ActiveRoomsStay == Spec => OnlyIdleRoomsLeave
<1>1. Spec => [][IdleRoomLeaves]_vars
  BY StoreInvariant, StepLeavesActiveRooms, PTL DEF Spec
<1>. QED
  BY <1>1 DEF OnlyIdleRoomsLeave
============================================================================
