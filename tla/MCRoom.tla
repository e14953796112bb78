------------------------------ MODULE MCRoom ------------------------------
(* Room on a small instance: identifiers and deck values are model values. *)
EXTENDS Room, TLC

\* Sound: no action and no property tells two identifiers or two values apart.
Symmetry == Permutations(Pids) \cup Permutations(Deck)
===========================================================================
