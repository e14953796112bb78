------------------------------ MODULE Awards ------------------------------
(***************************************************************************)
(* The awards of a settlement (src/internal/room/awards.go): who called    *)
(* the settled value blind, who was furthest from it, who came round to    *)
(* it, and who leaned to one side of it.  A round is the sequence of its   *)
(* revealed votes; the rounds are those the room retains, the earliest     *)
(* first.  Participants are their names.  An award is the set of the names *)
(* it goes to, empty when it is not given; its wording is left out.        *)
(***************************************************************************)
EXTENDS Stats

\* slices.Index: votes and settlements are of the deck.
Index(v) == CHOOSE i \in DOMAIN Deck : Deck[i] = v

\* Distances are steps in the deck.
Distance(v, settled) ==
  LET d == Index(v) - Index(settled) IN IF d < 0 THEN -d ELSE d

\* The votes of the earliest round that compete for the accuracy awards.
Firsts(rounds, settled) ==
  {v \in {rounds[1][i] : i \in DOMAIN rounds[1]} :
     IsNumeric(settled) => IsNumeric(v.value)}

\* The Oracle: the nearest of the first votes.
Oracles(rounds, settled) ==
  LET firsts == Firsts(rounds, settled) IN
  {f.name : f \in {g \in firsts : \A h \in firsts :
             Distance(g.value, settled) <= Distance(h.value, settled)}}

\* Mutant: there is an outlier even when all are equally far.
OutliersAlways(rounds, settled) ==
  LET firsts == Firsts(rounds, settled) IN
  {f.name : f \in {g \in firsts : \A h \in firsts :
             Distance(g.value, settled) >= Distance(h.value, settled)}}

\* Saw Something: the furthest, if anybody was nearer.
Outliers(rounds, settled) ==
  LET firsts == Firsts(rounds, settled) IN
  {f.name : f \in {g \in firsts :
    /\ \A h \in firsts : Distance(g.value, settled) >= Distance(h.value, settled)
    /\ \E h \in firsts : Distance(g.value, settled) > Distance(h.value, settled)}}

\* The Diplomat: finished on the settled value, but started elsewhere.
Diplomats(rounds, settled) ==
  LET first == rounds[1]
      last  == rounds[Len(rounds)]
      elsewhere == {first[i].name : i \in {j \in DOMAIN first :
                                           first[j].value # settled}}
  IN  IF Len(rounds) > 1
        THEN {last[i].name : i \in {j \in DOMAIN last :
                last[j].value = settled /\ last[j].name \in elsewhere}}
        ELSE {}

\* The numeric votes of all rounds, each as its round and its place in it.
Numeric(rounds) ==
  {p \in UNION {{i} \X DOMAIN rounds[i] : i \in DOMAIN rounds} :
     IsNumeric(rounds[p[1]][p[2]].value)}

\* The steps above or below the settled value, over every numeric vote that
\* was cast under a name.
Net(rounds, settled) ==
  LET vote(p) == rounds[p[1]][p[2]]
      steps   == [p \in Numeric(rounds) |-> Index(vote(p).value) - Index(settled)]
      by(name) == {p \in Numeric(rounds) : vote(p).name = name}
  IN  [name \in {vote(p).name : p \in Numeric(rounds)} |->
         SumFunctionOnSet(steps, by(name))]

\* The Optimist and the Pessimist lean furthest below and above; there must
\* be a number to lean from and somebody to compare with.
Optimists(net) ==
  {n \in DOMAIN net : net[n] < 0 /\ \A m \in DOMAIN net : net[n] <= net[m]}
Pessimists(net) ==
  {n \in DOMAIN net : net[n] > 0 /\ \A m \in DOMAIN net : net[n] >= net[m]}

ComputeAwards(rounds, settled) ==
  LET net == Net(rounds, settled)
      leaning == IsNumeric(settled) /\ Cardinality(DOMAIN net) > 1
  IN  [oracle        |-> Oracles(rounds, settled),
       saw_something |-> Outliers(rounds, settled),
       diplomat      |-> Diplomats(rounds, settled),
       optimist      |-> IF leaning THEN Optimists(net) ELSE {},
       pessimist     |-> IF leaning THEN Pessimists(net) ELSE {}]
===========================================================================
