------------------------ MODULE MCLiveConnection ------------------------
(* LiveConnection on a small instance. *)
EXTENDS LiveConnection
=============================================================================
