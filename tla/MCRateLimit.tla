--------------------------- MODULE MCRateLimit ---------------------------
(* RateLimit on a small instance. *)
EXTENDS RateLimit, TLC

\* No action and no property tells two addresses apart.
Symmetry == Permutations(IPs)
=============================================================================
