--------------------------- MODULE Deliberation ---------------------------
(***************************************************************************)
(* What a room publishes about the votes of its rounds: the statistics of  *)
(* a revealed round and the awards of a settlement.  The votes of a round  *)
(* are the list that buildResultsLocked makes, by name; that the list is   *)
(* complete and who may vote is Room's concern.                            *)
(***************************************************************************)
EXTENDS Awards

CONSTANTS
  Names,      \* the names people join under
  HistoryLen, \* HistoryLen in room.go
  MaxRounds,  \* bound of the model: the rounds of the room
  MaxVotes    \* bound of the model: the votes in all of them

ASSUME DeliberationAssumption ==
  /\ HistoryLen \in Nat \ {0}
  /\ MaxRounds \in Nat
  /\ MaxVotes \in Nat

VARIABLES
  history,  \* the votes of the finished rounds in the ring, earliest first
  results,  \* the votes of the current round once it is revealed
  settled,  \* the settlement and its awards, if any
  past      \* the votes of every finished round: not in the code

vars == <<history, results, settled, past>>

Votes == [name : Names, value : Options]

\* The rounds the awards of a settlement are computed from.
Retained ==
  IF results = {} THEN history
                  ELSE Append(history, CHOOSE votes \in results : TRUE)

Init ==
  /\ history = <<>>
  /\ results = {}
  /\ settled = {}
  /\ past = <<>>

\* The round's votes become public, with their statistics.
Reveal(votes) ==
  /\ results = {}
  /\ results' = {votes}
  /\ UNCHANGED <<history, settled, past>>

\* Mutant: the ring drops a round before it is full.
StartRoundTooShort ==
  /\ \E votes \in results :
       LET all == Append(history, votes) IN
       /\ history' = IF Len(all) >= HistoryLen THEN Tail(all) ELSE all
       /\ past' = Append(past, votes)
  /\ results' = {}
  /\ settled' = {}

\* The revealed round is archived and a blind one begins.
StartRound ==
  /\ \E votes \in results :
       LET all == Append(history, votes) IN
       /\ history' = IF Len(all) > HistoryLen THEN Tail(all) ELSE all
       /\ past' = Append(past, votes)
  /\ results' = {}
  /\ settled' = {}

\* The history and the round on display, which makes one more than the ring
\* holds; settling again overwrites.
Settle(v) ==
  /\ results # {}
  /\ settled' = {[value |-> v, awards |-> ComputeAwards(Retained, v)]}
  /\ UNCHANGED <<history, results, past>>

Next ==
  \/ \E votes \in BoundedSeq(Votes, MaxVotes - Len(FlattenSeq(past))) :
       Reveal(votes)
  \/ Len(past) + 1 < MaxRounds /\ StartRound
  \/ \E v \in Options : Settle(v)

Spec == Init /\ [][Next]_vars
---------------------------------------------------------------------------
(* Properties.                                                             *)

\* Every variable keeps its type, the ring its length, and only a revealed
\* round is settled.
TypeOK ==
  /\ history \in Seq(Seq(Votes))
  /\ Len(history) <= HistoryLen
  /\ results \subseteq Seq(Votes)
  /\ \A a, b \in results : a = b
  /\ settled # {} => results # {}
  /\ past \in Seq(Seq(Votes))

\* How many of the votes are for v.
Support(votes, v) == Cardinality({i \in DOMAIN votes : votes[i].value = v})

\* The top of a revealed round says what the ballots say: there is one as soon
\* as somebody voted, a majority stands there alone, and a tie is called
\* exactly when nobody leads (topOf).
TopIsHonest ==
  \A votes \in results :
    /\ (TopOf(votes) = {}) = (votes = <<>>)
    /\ \A top \in TopOf(votes) :
         /\ \A v \in Options :
              2 * Support(votes, v) > Len(votes) => top.values = {v}
         /\ top.tied = ~\E v \in Options : \A w \in Options \ {v} :
                            Support(votes, w) < Support(votes, v)

\* Of the numeric votes at least half are at most the median and at least half
\* are not less, it lies between the extremes, every number does, and
\* consensus, no spread and a single number are the same thing
\* (computeStats), for every order in which people joined.
MedianSplitsTheVotes ==
  \A votes \in results : \A s \in NumericStats(votes) :
    LET numeric == {i \in DOMAIN votes : IsNumeric(votes[i].value)}
        numbers == {Number[votes[i].value] : i \in numeric}
        upTo    == {i \in numeric : Number[votes[i].value] <= s.median}
        from    == {i \in numeric : Number[votes[i].value] >= s.median}
    IN  /\ 2 * Cardinality(upTo) >= Cardinality(numeric)
        /\ 2 * Cardinality(from) >= Cardinality(numeric)
        /\ numbers \subseteq s.min..s.max
        /\ s.median \in s.min..s.max
        /\ s.consensus = (Cardinality(numbers) = 1)
        /\ s.consensus = (s.spread = 0)

\* No two participants of the round have the same name.
Distinct(votes) ==
  \A i, j \in DOMAIN votes : votes[i].name = votes[j].name => i = j

\* Somebody voted under the name n for an option on the given side of v.
Leaned(n, v, side) ==
  \E i \in DOMAIN Retained : \E j \in DOMAIN Retained[i] :
    /\ Retained[i][j].name = n
    /\ IsNumeric(Retained[i][j].value)
    /\ side * (Index(Retained[i][j].value) - Index(v)) > 0

\* With distinct names in the first round nobody is both nearest and furthest,
\* and nobody comes round to a value that was called exactly by them before.
AccuracyIsFair(s) ==
  LET first == Retained[1] IN
  Distinct(first) =>
    /\ s.awards.oracle \cap s.awards.saw_something = {}
    /\ (\E i \in DOMAIN first : first[i].value = s.value) =>
         s.awards.oracle \cap s.awards.diplomat = {}

\* Leaning is to one side, by somebody who did vote on that side, and those
\* who agreed from the start do not lean.
LeaningIsFair(s) ==
  LET unanimous == \A i \in DOMAIN Retained : \A j \in DOMAIN Retained[i] :
                     Retained[i][j].value = s.value
  IN  /\ s.awards.optimist \cap s.awards.pessimist = {}
      /\ \A n \in s.awards.optimist : Leaned(n, s.value, -1)
      /\ \A n \in s.awards.pessimist : Leaned(n, s.value, 1)
      /\ unanimous => s.awards.optimist \cup s.awards.pessimist = {}

\* The awards of a settlement contradict neither each other nor the rounds
\* shown beside them, whatever was voted and settled before (computeAwards).
AwardsAreConsistent ==
  \A s \in settled : AccuracyIsFair(s) /\ LeaningIsFair(s)

\* The round that decides the awards of a settlement: the one HistoryLen
\* rounds before the round on display, or the first of all.
Deciding(votes) ==
  LET all == Append(past, votes)
  IN  all[IF Len(all) > HistoryLen THEN Len(all) - HistoryLen ELSE 1]

\* The awards of s against its deciding round and the votes on display:
\* whoever called the settled value in the first, and nobody else, is an
\* Oracle; only its voters get an accuracy award; and the furthest and the
\* Diplomats are among those who voted otherwise in it, the Diplomats among
\* those who now agree.
Anchored(s, first, votes) ==
  LET Under(S) == {first[i].name : i \in S}
      called == {i \in DOMAIN first : first[i].value = s.value}
      missed == DOMAIN first \ called
  IN  /\ s.awards.oracle \cup s.awards.saw_something \subseteq Under(DOMAIN first)
      /\ called # {} => s.awards.oracle = Under(called)
      /\ s.awards.saw_something \cup s.awards.diplomat \subseteq Under(missed)
      /\ \A n \in s.awards.diplomat :
           \E j \in DOMAIN votes : votes[j] = [name |-> n, value |-> s.value]

\* Herding does not pay, however many rounds follow and wherever the ring
\* begins (computeAwards, the rule at awards.go:13, on the rounds StartRound
\* kept).
AccuracyIsAnchored ==
  \A s \in settled, votes \in results : Anchored(s, Deciding(votes), votes)

\* What stats.go:11-14 says of the numbers a room shows: they are finite, or
\* encoding/json cannot marshal the room's state.
StatsAreFinite ==
  \A votes \in results : \A s \in NumericStats(votes) :
    \A x \in {s.min, s.max, s.median, s.mean, s.spread} : IsFinite(x)
===========================================================================
