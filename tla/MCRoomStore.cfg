SPECIFICATION Spec
CONSTANTS
  Ids = {i1, i2}
  Requests = {q1, q2, q3}
  MaxRooms = 1
  Tries = 2
  RoomTTL = 1
  MaxTime = 2
INVARIANTS
  TypeOK
  EveryRoomIsSomewhere
PROPERTIES
  OnlyIdleRoomsLeave
  QuietRoomsEvaporate
