---------------------------- MODULE MCLongPoll ----------------------------
(* LongPoll on a small instance. *)
EXTENDS LongPoll
===========================================================================
