-------------------------- MODULE MCDeliberation --------------------------
(* Deliberation on a small instance: a deck of three numbers with a card   *)
(* between them that is none.                                              *)
EXTENDS Deliberation

MCDeck == <<"1", "2", "?", "3">>
MCNumber == [v \in {"1", "2", "3"} |->
               CASE v = "1" -> 2 [] v = "2" -> 4 [] v = "3" -> 6]

\* A deck of valid options, in units of 10^307: float64 ends below 18.
HugeDeck == <<"-1e308", "0", "1e308">>
HugeNumber == [v \in {"-1e308", "0", "1e308"} |->
                 CASE v = "-1e308" -> -10 [] v = "0" -> 0 [] v = "1e308" -> 10]

Symmetry == Permutations(Names)
===========================================================================
