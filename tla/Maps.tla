------------------------------- MODULE Maps -------------------------------
(***************************************************************************)
(* The maps of Go as functions: a map whose keys are in S and whose values *)
(* are in T is a function from a subset of S to T.                         *)
(***************************************************************************)
EXTENDS Functions

PartialFns(S, T) == UNION {[X -> T] : X \in SUBSET S}

\* m[k] = v
Assign(m, k, v) == [x \in DOMAIN m \cup {k} |-> IF x = k THEN v ELSE m[x]]

\* delete(m, k)
Without(m, k) == Restrict(m, DOMAIN m \ {k})
===========================================================================
