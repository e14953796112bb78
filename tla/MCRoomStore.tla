---------------------------- MODULE MCRoomStore ----------------------------
(* RoomStore on a small instance. *)
EXTENDS RoomStore
============================================================================
