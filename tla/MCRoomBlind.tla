---------------------------- MODULE MCRoomBlind ----------------------------
(* RoomBlind on a small instance. *)
EXTENDS RoomBlind, TLC

\* Sound: no action and no property tells two identifiers or two values apart.
Symmetry == Permutations(Pids) \cup Permutations(Deck)
============================================================================
