------------------------------- MODULE Stats -------------------------------
(***************************************************************************)
(* What a room computes of the revealed votes of one round                 *)
(* (src/internal/room/stats.go).  A vote is a record of a name and a value *)
(* of the deck; kinds and rationales take no part.                         *)
(*                                                                         *)
(* Floating-point numbers are integers, counted in half the finest step of *)
(* the deck.  Rounding is left out, overflow is not: beyond MaxFloat a     *)
(* result is infinite.                                                     *)
(***************************************************************************)
EXTENDS Integers, FiniteSets, SequencesExt

CONSTANTS
  Deck,     \* the room's options, in order
  Number,   \* the options that strconv.ParseFloat makes finite, with values
  MaxFloat  \* the largest finite number

Options == {Deck[i] : i \in DOMAIN Deck}

\* Options are distinct (ValidateDeck), and numbers even, so that the half of
\* one is an integer.
ASSUME StatsAssumption ==
  /\ Deck \in Seq(Options)
  /\ \A i, j \in DOMAIN Deck : Deck[i] = Deck[j] => i = j
  /\ DOMAIN Number \subseteq Options
  /\ MaxFloat \in Nat
  /\ \A v \in DOMAIN Number :
       Number[v] \in -MaxFloat..MaxFloat /\ Number[v] % 2 = 0

IsNumeric(v) == v \in DOMAIN Number

Infinity == 2 * MaxFloat + 2
IsFinite(x) == -MaxFloat <= x /\ x <= MaxFloat

\* The float64 of a result; Infinity plus a finite number stays infinite.
Float(x) ==
  IF IsFinite(x) THEN x ELSE IF x < 0 THEN -Infinity ELSE Infinity
Plus(x, y) == Float(x + y)
Over(x, n) == IF IsFinite(x) THEN x \div n ELSE x

---------------------------------------------------------------------------
Count(votes, v) == Cardinality({i \in DOMAIN votes : votes[i].value = v})

\* Top, with the modal values as a set: their order is the deck's.
TopWith(values, most) ==
  [values |-> values, count |-> most, tied |-> Cardinality(values) > 1]

\* Mutant: every option somebody voted for is on top.
TopOfAll(votes) ==
  LET most == Max({Count(votes, v) : v \in Options}) IN
  IF votes = <<>> THEN {}
  ELSE {TopWith({v \in Options : Count(votes, v) > 0}, most)}

\* topOf: the most voted options; nil without votes.
TopOf(votes) ==
  LET most == Max({Count(votes, v) : v \in Options}) IN
  IF votes = <<>> THEN {}
  ELSE {TopWith({v \in Options : Count(votes, v) = most}, most)}

\* Mutant: the numbers are not sorted.
NumsUnsorted(votes) ==
  LET numeric == SelectSeq(votes, LAMBDA vote : IsNumeric(vote.value)) IN
  [i \in DOMAIN numeric |-> Number[numeric[i].value]]

\* The numeric votes, sorted: the k-th number is the least that k are up to.
Nums(votes) ==
  LET numeric == {i \in DOMAIN votes : IsNumeric(votes[i].value)}
      numbers == {Number[votes[i].value] : i \in numeric}
      upTo(x) == {i \in numeric : Number[votes[i].value] <= x}
  IN  [k \in 1..Cardinality(numeric) |->
         CHOOSE x \in numbers : \A y \in numbers :
           (k <= Cardinality(upTo(y))) = (x <= y)]

\* The middle of a sorted sequence, or the mean of the two in the middle.
Median(nums) ==
  LET half == Len(nums) \div 2 IN
  IF Len(nums) % 2 = 1 THEN nums[half + 1]
                       ELSE Over(Plus(nums[half], nums[half + 1]), 2)

\* computeStats over the numeric votes; nil pointers if there are none.
NumericStats(votes) ==
  LET nums == Nums(votes)
      n    == Len(nums)
  IN  IF nums = <<>> THEN {}
      ELSE {[min       |-> nums[1],
             max       |-> nums[n],
             median    |-> Median(nums),
             mean      |-> Over(FoldLeft(Plus, 0, nums), n),
             spread    |-> Float(nums[n] - nums[1]),
             consensus |-> nums[1] = nums[n]]}
===========================================================================
