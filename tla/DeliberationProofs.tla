------------------------ MODULE DeliberationProofs ------------------------
(***************************************************************************)
(* For every deck and the numbers on it, every ring and all votes: a top is *)
(* honest, the median splits the votes (unless a sum overflows), and the   *)
(* awards contradict neither each other nor the rounds they are given for. *)
(***************************************************************************)
EXTENDS Deliberation, DataTheorems, SequenceTheorems

---------------------------------------------------------------------------
(* Sums over finite sets.                                                  *)

\* it[T] folds step over T, which starts with pick[T], from base.
IsFold(it, S, base, pick, step) ==
  \A T \in SUBSET S :
    it[T] = IF T = {} THEN base ELSE step[<<pick[T], it[T \ {pick[T]}]>>]

\* Two folds agree where both are defined.
LEMMA FoldUnique ==
  ASSUME NEW S, IsFiniteSet(S), NEW base, NEW pick, NEW step,
         \A T \in SUBSET S : T # {} => pick[T] \in T,
         NEW T \in SUBSET S, NEW U \in SUBSET S, NEW g, NEW h,
         IsFold(g, T, base, pick, step), IsFold(h, U, base, pick, step)
  PROVE  \A X \in SUBSET (T \cap U) : g[X] = h[X]
<1>. DEFINE B == {X \in SUBSET (T \cap U) : g[X] # h[X]}
<1>1. SUFFICES ASSUME B # {} PROVE FALSE
  OBVIOUS
<1>2. B \in SUBSET SUBSET S
  OBVIOUS
<1>3. PICK X \in B : \A Y \in B : Y \subseteq X => Y = X
  <2>. HIDE DEF B
  <2>. QED
    BY <1>1, <1>2, SmallestSubset
<1>4. X \in SUBSET T /\ X \in SUBSET U /\ g[X] # h[X]
  OBVIOUS
<1>5. X # {}
  BY <1>4 DEF IsFold
<1>6. pick[X] \in X
  BY <1>4, <1>5
<1>. DEFINE Y == X \ {pick[X]}
<1>7. Y \subseteq X /\ Y # X /\ Y \in SUBSET T /\ Y \in SUBSET U
  BY <1>4, <1>6
<1>8. g[Y] = h[Y]
  BY <1>3, <1>7
<1>9. g[X] = step[<<pick[X], g[Y]>>] /\ h[X] = step[<<pick[X], h[Y]>>]
  BY <1>4, <1>5 DEF IsFold
<1>. QED
  BY <1>4, <1>8, <1>9

\* A fold over a finite set exists.
LEMMA FoldExists ==
  ASSUME NEW S, IsFiniteSet(S), NEW V, NEW base \in V, NEW pick, NEW step,
         \A T \in SUBSET S : T # {} => pick[T] \in T,
         \A x \in S, v \in V : step[<<x, v>>] \in V
  PROVE  \E it \in [SUBSET S -> V] : IsFold(it, S, base, pick, step)
<1>. DEFINE Sol(T) == {g \in [SUBSET T -> V] : IsFold(g, T, base, pick, step)}
            B == {T \in SUBSET S : Sol(T) = {}}
<1>1. SUFFICES ASSUME B # {} PROVE FALSE
  <2>1. S \in SUBSET S
    OBVIOUS
  <2>2. B = {} => Sol(S) # {}
    BY <2>1
  <2>. QED
    BY <2>2
<1>2. B \in SUBSET SUBSET S
  OBVIOUS
<1>3. PICK T \in B : \A U \in B : U \subseteq T => U = T
  <2>. HIDE DEF B
  <2>. QED
    BY <1>1, <1>2, SmallestSubset
<1>4. T \in SUBSET S /\ Sol(T) = {}
  OBVIOUS
<1>5. \A U \in SUBSET T : U # T => Sol(U) # {}
  BY <1>3, <1>4
<1>. DEFINE f(U) == CHOOSE g \in Sol(U) : TRUE
            G == [U \in SUBSET T |->
                    IF U = T
                    THEN IF T = {} THEN base
                         ELSE step[<<pick[T], f(T \ {pick[T]})[T \ {pick[T]}]>>]
                    ELSE f(U)[U]]
<1>6. \A U \in SUBSET T : U # T => f(U) \in Sol(U)
  BY <1>5
<1>. HIDE DEF f
<1>7. \A U \in SUBSET T : U # T =>
        f(U) \in [SUBSET U -> V] /\ IsFold(f(U), U, base, pick, step)
  BY <1>6
<1>. HIDE DEF Sol, B
<1>8. \A U \in SUBSET T : U # T => G[U] = f(U)[U] /\ G[U] \in V
  <2>. SUFFICES ASSUME NEW U \in SUBSET T, U # T
                PROVE  G[U] = f(U)[U] /\ G[U] \in V
    OBVIOUS
  <2>1. G[U] = f(U)[U]
    OBVIOUS
  <2>2. f(U) \in [SUBSET U -> V] /\ U \in SUBSET U
    BY <1>7
  <2>3. f(U)[U] \in V
    BY <2>2
  <2>. HIDE DEF G
  <2>. QED
    BY <2>1, <2>3
<1>9. ASSUME NEW U \in SUBSET T, U # {}
      PROVE  /\ pick[U] \in U /\ U \ {pick[U]} \in SUBSET T /\ U \ {pick[U]} # T
             /\ U \ {pick[U]} \in SUBSET U
  BY <1>4, <1>9
<1>10. G[T] = IF T = {} THEN base ELSE step[<<pick[T], G[T \ {pick[T]}]>>]
  <2>1. CASE T = {}
    BY <2>1
  <2>2. CASE T # {}
    <3>1. G[T] = step[<<pick[T], f(T \ {pick[T]})[T \ {pick[T]}]>>]
      BY <2>2
    <3>2. G[T \ {pick[T]}] = f(T \ {pick[T]})[T \ {pick[T]}]
      BY <1>8, <1>9, <2>2
    <3>. QED
      BY <2>2, <3>1, <3>2
  <2>. QED
    BY <2>1, <2>2
<1>11. G[T] \in V
  <2>1. CASE T = {}
    BY <1>10, <2>1
  <2>2. CASE T # {}
    <3>1. G[T \ {pick[T]}] \in V /\ pick[T] \in S
      BY <1>4, <1>8, <1>9, <2>2
    <3>. HIDE DEF G
    <3>. QED
      BY <1>10, <2>2, <3>1
  <2>. QED
    BY <2>1, <2>2
<1>12. G \in [SUBSET T -> V]
  <2>1. \A U \in SUBSET T : G[U] \in V
    <3>. HIDE DEF G
    <3>. QED
      BY <1>8, <1>11
  <2>. QED
    BY <2>1
<1>13. ASSUME NEW U \in SUBSET T, U # T
       PROVE  G[U] = IF U = {} THEN base ELSE step[<<pick[U], G[U \ {pick[U]}]>>]
  <2>. HIDE DEF G
  <2>1. U \in SUBSET U
    OBVIOUS
  <2>2. f(U)[U] = IF U = {} THEN base ELSE step[<<pick[U], f(U)[U \ {pick[U]}]>>]
    BY <1>7, <1>13, <2>1 DEF IsFold
  <2>3. CASE U = {}
    BY <1>8, <1>13, <2>2, <2>3
  <2>4. CASE U # {}
    <3>. DEFINE W == U \ {pick[U]}
    <3>1. W \in SUBSET T /\ W # T /\ W \in SUBSET (U \cap W) /\ W \in SUBSET S /\ U \in SUBSET S
      BY <1>4, <1>9, <2>4
    <3>2. G[W] = f(W)[W] /\ G[U] = f(U)[U]
      BY <1>8, <1>13, <3>1
    <3>3. IsFold(f(U), U, base, pick, step) /\ IsFold(f(W), W, base, pick, step)
      BY <1>7, <1>13, <3>1
    <3>. HIDE DEF W
    <3>4. f(U)[W] = f(W)[W]
      BY <3>1, <3>3, FoldUnique
    <3>. QED
      BY <2>2, <2>4, <3>2, <3>4 DEF W
  <2>. QED
    BY <2>3, <2>4
<1>14. IsFold(G, T, base, pick, step)
  <2>. HIDE DEF G
  <2>. QED
    BY <1>10, <1>13 DEF IsFold
<1>15. G \in Sol(T)
  BY <1>12, <1>14 DEF Sol
<1>. QED
  BY <1>4, <1>15

\* it[T] is the sum of fun over T.
IsSum(it, fun, S) ==
  \A T \in SUBSET S :
    it[T] = IF T = {} THEN 0
            ELSE LET x == CHOOSE y \in T : TRUE IN fun[x] + it[T \ {x}]

\* SumFunctionOnSet is what its definition says.
LEMMA SumIs ==
  ASSUME NEW fun, NEW S, IsFiniteSet(S), \A x \in S : fun[x] \in Int
  PROVE  \E it \in [SUBSET S -> Int] : SumFunctionOnSet(fun, S) = it[S] /\ IsSum(it, fun, S)
<1>. DEFINE pick == [T \in SUBSET S |-> CHOOSE y \in T : TRUE]
            step == [p \in S \X Int |-> fun[p[1]] + p[2]]
            Eq(it) == it = [s \in SUBSET S |->
                              IF s = {} THEN 0
                              ELSE LET x == CHOOSE y \in s : TRUE IN fun[x] + it[s \ {x}]]
            sum == CHOOSE it : Eq(it)
<1>1. \A T \in SUBSET S : T # {} => pick[T] \in T
  OBVIOUS
<1>2. \A x \in S, v \in Int : step[<<x, v>>] = fun[x] + v /\ step[<<x, v>>] \in Int
  OBVIOUS
<1>3. PICK it \in [SUBSET S -> Int] : IsFold(it, S, 0, pick, step)
  <2>1. \A x \in S, v \in Int : step[<<x, v>>] \in Int
    BY <1>2
  <2>2. 0 \in Int
    OBVIOUS
  <2>. HIDE DEF pick, step
  <2>. QED
    BY <1>1, <2>1, <2>2, FoldExists, Zenon
<1>. HIDE DEF step
<1>4. \A T \in SUBSET S : it[T] = IF T = {} THEN 0
                                 ELSE LET x == CHOOSE y \in T : TRUE IN fun[x] + it[T \ {x}]
  <2>. SUFFICES ASSUME NEW T \in SUBSET S
                PROVE  it[T] = IF T = {} THEN 0
                               ELSE LET x == CHOOSE y \in T : TRUE IN fun[x] + it[T \ {x}]
    OBVIOUS
  <2>1. CASE T # {}
    <3>1. pick[T] \in T /\ pick[T] = CHOOSE y \in T : TRUE
      BY <2>1
    <3>2. it[T] = step[<<pick[T], it[T \ {pick[T]}]>>]
      BY <1>3, <2>1 DEF IsFold
    <3>3. it[T \ {pick[T]}] \in Int /\ pick[T] \in S
      BY <1>3, <3>1
    <3>4. it[T] = fun[pick[T]] + it[T \ {pick[T]}]
      BY <1>2, <3>2, <3>3
    <3>. QED
      BY <2>1, <3>1, <3>4
  <2>2. CASE T = {}
    BY <1>3, <2>2 DEF IsFold
  <2>. QED
    BY <2>1, <2>2
<1>5. Eq(it)
  BY <1>3, <1>4
<1>6. Eq(sum)
  <2>. HIDE DEF Eq
  <2>. QED
    BY <1>5
<1>7. sum = it
  <2>1. sum = [s \in SUBSET S |-> sum[s]] /\ it = [s \in SUBSET S |-> it[s]]
    <3>. HIDE DEF sum
    <3>. QED
      BY <1>3, <1>6
  <2>2. \A T \in SUBSET S : sum[T] = IF T = {} THEN 0
                                    ELSE LET x == CHOOSE y \in T : TRUE
                                         IN fun[x] + sum[T \ {x}]
    <3>. HIDE DEF sum
    <3>. QED
      BY <1>6
  <2>. DEFINE B == {T \in SUBSET S : sum[T] # it[T]}
  <2>. HIDE DEF sum
  <2>3. SUFFICES ASSUME B # {} PROVE FALSE
    BY <2>1
  <2>4. B \in SUBSET SUBSET S
    OBVIOUS
  <2>5. PICK T \in B : \A U \in B : U \subseteq T => U = T
    <3>. HIDE DEF B
    <3>. QED
      BY <2>3, <2>4, SmallestSubset
  <2>6. T \in SUBSET S /\ sum[T] # it[T]
    OBVIOUS
  <2>7. T # {}
    BY <1>4, <2>2, <2>6
  <2>. DEFINE x == CHOOSE y \in T : TRUE
  <2>8. x \in T
    BY <2>7
  <2>9. sum[T] = fun[x] + sum[T \ {x}] /\ it[T] = fun[x] + it[T \ {x}]
    BY <1>4, <2>2, <2>6, <2>7
  <2>. HIDE DEF x
  <2>10. T \ {x} \in SUBSET S /\ T \ {x} \subseteq T /\ T \ {x} # T
    BY <2>6, <2>8
  <2>11. sum[T \ {x}] = it[T \ {x}]
    BY <2>5, <2>10
  <2>. QED
    BY <2>6, <2>9, <2>11
<1>8. SumFunctionOnSet(fun, S) = sum[S]
  BY DEF SumFunctionOnSet, FoldFunctionOnSet, MapThenFoldSet
<1>. QED
  BY <1>3, <1>4, <1>7, <1>8 DEF IsSum

\* A sum of integers is one, and has the sign that all its summands have.
LEMMA SumSign ==
  ASSUME NEW fun, NEW S, IsFiniteSet(S), \A x \in S : fun[x] \in Int
  PROVE  /\ SumFunctionOnSet(fun, S) \in Int
         /\ (\A x \in S : fun[x] >= 0) => SumFunctionOnSet(fun, S) >= 0
         /\ (\A x \in S : fun[x] <= 0) => SumFunctionOnSet(fun, S) <= 0
<1>1. PICK it \in [SUBSET S -> Int] :
        SumFunctionOnSet(fun, S) = it[S] /\ IsSum(it, fun, S)
  BY SumIs
<1>2. ASSUME NEW up \in BOOLEAN, \A x \in S : IF up THEN fun[x] >= 0 ELSE fun[x] <= 0
      PROVE  IF up THEN it[S] >= 0 ELSE it[S] <= 0
  <2>. DEFINE OK(v) == IF up THEN v >= 0 ELSE v <= 0
              B == {T \in SUBSET S : ~OK(it[T])}
  <2>1. S \in SUBSET S
    OBVIOUS
  <2>2. SUFFICES ASSUME B # {} PROVE FALSE
    BY <2>1
  <2>3. PICK T \in B : \A U \in B : U \subseteq T => U = T
    <3>1. B \in SUBSET SUBSET S
      OBVIOUS
    <3>. HIDE DEF B
    <3>. QED
      BY <2>2, <3>1, SmallestSubset
  <2>4. T \in SUBSET S /\ ~OK(it[T])
    OBVIOUS
  <2>5. T # {}
    BY <1>1, <2>4 DEF IsSum
  <2>. DEFINE x == CHOOSE y \in T : TRUE
              U == T \ {x}
  <2>6. x \in T
    BY <2>5
  <2>7. it[T] = fun[x] + it[U]
    BY <1>1, <2>4, <2>5 DEF IsSum
  <2>. HIDE DEF x
  <2>8. U \in SUBSET S /\ U \subseteq T /\ U # T
    BY <2>4, <2>6
  <2>9. OK(it[U])
    BY <2>3, <2>8
  <2>10. it[U] \in Int /\ fun[x] \in Int /\ OK(fun[x])
    BY <1>1, <1>2, <2>4, <2>6, <2>8
  <2>. HIDE DEF U, B
  <2>. QED
    BY <2>4, <2>7, <2>9, <2>10
<1>3. it[S] \in Int
  BY <1>1
<1>4. (\A x \in S : fun[x] >= 0) => it[S] >= 0
  BY <1>2
<1>5. (\A x \in S : fun[x] <= 0) => it[S] <= 0
  BY <1>2
<1>. QED
  BY <1>1, <1>3, <1>4, <1>5

---------------------------------------------------------------------------
(* The top.                                                                *)

\* The options are finitely many.
LEMMA OptionsFinite == IsFiniteSet(Options)
<1>1. DOMAIN Deck = 1..Len(Deck) /\ Len(Deck) \in Nat
  BY StatsAssumption
<1>2. IsFiniteSet(DOMAIN Deck)
  BY <1>1, FS_Interval
<1>3. Deck \in Surjection(DOMAIN Deck, Options)
  BY StatsAssumption DEF Surjection, Options
<1>. QED
  BY <1>2, <1>3, FS_Surjection

\* A set of bounded natural numbers has a largest.
LEMMA LargestExists ==
  ASSUME NEW n \in Nat, NEW C, C \subseteq 0..n, C # {}
  PROVE  /\ Max(C) \in C
         /\ \A c \in C : c <= Max(C)
<1>. DEFINE T == {0..(n - c) : c \in C}
<1>1. T \subseteq FiniteSubsetsOf(0..n) /\ T # {}
  <2>1. \A c \in C : c \in Nat /\ 0..(n - c) \subseteq 0..n
    OBVIOUS
  <2>2. \A c \in C : IsFiniteSet(0..(n - c))
    BY <2>1, FS_Interval
  <2>. QED
    BY <2>1, <2>2 DEF FiniteSubsetsOf
<1>2. PICK t \in T : \A u \in T : <<u, t>> \notin StrictSubsetOrdering(0..n)
  <2>1. IsWellFoundedOn(StrictSubsetOrdering(0..n), FiniteSubsetsOf(0..n))
    BY FS_StrictSubsetOrderingWellFounded
  <2>. QED
    BY <1>1, <2>1, WFMin
<1>3. PICK c \in C : t = 0..(n - c)
  OBVIOUS
<1>4. ASSUME NEW d \in C, d > c
      PROVE  FALSE
  <2>1. d \in Int /\ c \in Int
    OBVIOUS
  <2>2. 0..(n - d) \subseteq 0..(n - c) /\ n - c \in 0..(n - c) /\ n - c \notin 0..(n - d)
    BY <1>4, <2>1
  <2>3. <<0..(n - d), t>> \in StrictSubsetOrdering(0..n)
    BY <1>3, <2>1, <2>2 DEF StrictSubsetOrdering
  <2>. QED
    BY <1>2, <2>3
<1>5. \A d \in C : d <= c
  BY <1>4
<1>. QED
  BY <1>5 DEF Max

\* Support is counted as computeStats counts, and two options share no vote.
LEMMA SupportAdds ==
  ASSUME NEW votes \in Seq(Votes), NEW v, NEW w, v # w
  PROVE  /\ Support(votes, v) = Count(votes, v)
         /\ Support(votes, v) \in 0..Len(votes)
         /\ Support(votes, w) \in 0..Len(votes)
         /\ Support(votes, v) + Support(votes, w) <= Len(votes)
<1>. DEFINE D == DOMAIN votes
            A == {i \in D : votes[i].value = v}
            B == {i \in D : votes[i].value = w}
<1>. HIDE DEF D
<1>1. IsFiniteSet(D) /\ Cardinality(D) = Len(votes) /\ Len(votes) \in Nat
  <2>1. D = 1..Len(votes) /\ Len(votes) \in Nat
    BY DEF D
  <2>. QED
    BY <2>1, FS_Interval
<1>2. A \in SUBSET D /\ B \in SUBSET D /\ A \cup B \in SUBSET D /\ A \cap B = {}
  OBVIOUS
<1>. HIDE DEF A, B
<1>3. /\ IsFiniteSet(A) /\ Cardinality(A) \in Nat /\ Cardinality(A) <= Len(votes)
      /\ IsFiniteSet(B) /\ Cardinality(B) \in Nat /\ Cardinality(B) <= Len(votes)
  BY <1>1, <1>2, FS_Subset, FS_CardinalityType
<1>4. Cardinality(A \cup B) <= Len(votes)
  BY <1>1, <1>2, FS_Subset
<1>5. Cardinality(A \cup B) = Cardinality(A) + Cardinality(B)
  <2>1. Cardinality(A \cup B) = Cardinality(A) + Cardinality(B) - Cardinality(A \cap B)
    BY <1>3, FS_Union
  <2>2. Cardinality(A \cap B) = 0
    BY <1>2, FS_EmptySet
  <2>. QED
    BY <1>3, <2>1, <2>2
<1>6. /\ Support(votes, v) = Cardinality(A) /\ Count(votes, v) = Cardinality(A)
      /\ Support(votes, w) = Cardinality(B)
  BY DEF Support, Count, A, B, D
<1>. QED
  BY <1>1, <1>3, <1>4, <1>5, <1>6

---------------------------------------------------------------------------
(* The state.                                                              *)

\* Every variable keeps its type, the ring its length, and only a revealed
\* round is settled.
THEOREM DeliberationTypeCorrect == Spec => []TypeOK
<1>1. Init => TypeOK
  BY DeliberationAssumption DEF Init, TypeOK
<1>2. TypeOK /\ [Next]_vars => TypeOK'
  <2>. SUFFICES ASSUME TypeOK, [Next]_vars
                PROVE  TypeOK'
    OBVIOUS
  <2>. USE DEF TypeOK
  <2>1. ASSUME NEW n, NEW votes \in BoundedSeq(Votes, n), Reveal(votes)
        PROVE  TypeOK'
    <3>1. votes \in UNION {[1..m -> Votes] : m \in 0..n}
      BY <2>1 DEF BoundedSeq, SeqOf
    <3>2. PICK m \in 0..n : votes \in [1..m -> Votes]
      BY <3>1
    <3>3. votes \in Seq(Votes)
      <4>1. m \in Nat
        OBVIOUS
      <4>. QED
        BY <3>2, <4>1, SeqDef
    <3>. QED
      BY <2>1, <3>3 DEF Reveal
  <2>2. CASE StartRound
    <3>1. PICK votes \in results :
            LET all == Append(history, votes) IN
            /\ history' = IF Len(all) > HistoryLen THEN Tail(all) ELSE all
            /\ past' = Append(past, votes)
      BY <2>2 DEF StartRound
    <3>. DEFINE all == Append(history, votes)
    <3>2. all \in Seq(Seq(Votes)) /\ Len(all) = Len(history) + 1
      OBVIOUS
    <3>. HIDE DEF all
    <3>3. all # <<>> /\ Tail(all) \in Seq(Seq(Votes)) /\ Len(Tail(all)) = Len(all) - 1
      BY <3>2
    <3>4. history' = IF Len(all) > HistoryLen THEN Tail(all) ELSE all
      BY <3>1 DEF all
    <3>5. history' \in Seq(Seq(Votes)) /\ Len(history') <= HistoryLen
      BY <3>2, <3>3, <3>4, DeliberationAssumption
    <3>6. past' \in Seq(Seq(Votes))
      BY <3>1
    <3>. QED
      BY <2>2, <3>5, <3>6 DEF StartRound
  <2>3. ASSUME NEW v \in Options, Settle(v)
        PROVE  TypeOK'
    BY <2>3 DEF Settle
  <2>4. CASE UNCHANGED vars
    BY <2>4 DEF vars
  <2>. QED
    BY <2>1, <2>2, <2>3, <2>4 DEF Next
<1>. QED
  BY <1>1, <1>2, PTL DEF Spec

---------------------------------------------------------------------------
(* What the top says.                                                      *)

\* The modal options of a round with votes, as counts.
LEMMA ModalOptions ==
  ASSUME NEW votes \in Seq(Votes), votes # <<>>,
         NEW top \in TopOf(votes)
  PROVE  /\ top.values # {} /\ IsFiniteSet(top.values)
         /\ top.values = {v \in Options : \A w \in Options :
                            Support(votes, w) <= Support(votes, v)}
         /\ top.tied = (Cardinality(top.values) > 1)
<1>. DEFINE C == {Count(votes, v) : v \in Options}
            most == Max(C)
            values == {v \in Options : Count(votes, v) = most}
<1>1. top = [values |-> values, count |-> most, tied |-> Cardinality(values) > 1]
  BY DEF TopOf, TopWith
<1>2. \A v : Support(votes, v) = Count(votes, v) /\ Count(votes, v) \in 0..Len(votes)
  <2>. SUFFICES ASSUME NEW v
                PROVE  Support(votes, v) = Count(votes, v) /\ Count(votes, v) \in 0..Len(votes)
    OBVIOUS
  <2>1. PICK w : v # w
    <3>1. v # {v} \/ v # {}
      OBVIOUS
    <3>. QED
      BY <3>1
  <2>. QED
    BY <2>1, SupportAdds
<1>3. Len(votes) \in Nat /\ C \subseteq 0..Len(votes)
  BY <1>2
<1>4. C # {}
  <2>1. votes[1] \in Votes
    OBVIOUS
  <2>2. votes[1].value \in Options
    BY <2>1 DEF Votes
  <2>. QED
    BY <2>2
<1>5. most \in C /\ \A c \in C : c <= most
  <2>. HIDE DEF C
  <2>. QED
    BY <1>3, <1>4, LargestExists
<1>6. most \in Nat /\ \A v \in Options : Count(votes, v) <= most
  BY <1>3, <1>5
<1>7. PICK u \in Options : Count(votes, u) = most
  BY <1>5
<1>. HIDE DEF most
<1>8. values = {v \in Options : \A w \in Options : Count(votes, w) <= Count(votes, v)}
  <2>1. \A v \in Options : Count(votes, v) \in Int
    BY <1>2, <1>3
  <2>. QED
    BY <1>6, <1>7, <2>1
<1>9. values # {} /\ IsFiniteSet(values)
  BY <1>7, OptionsFinite, FS_Subset
<1>. HIDE DEF values
<1>10. top.values = values /\ top.tied = (Cardinality(values) > 1)
  BY <1>1
<1>. QED
  BY <1>2, <1>8, <1>9, <1>10

\* A majority stands alone on top, and a tie is called exactly when no option
\* leads all others.
LEMMA TopSaysWhatBallotsSay ==
  ASSUME NEW votes \in Seq(Votes), votes # <<>>,
         NEW top \in TopOf(votes)
  PROVE  /\ \A v \in Options :
              2 * Support(votes, v) > Len(votes) => top.values = {v}
         /\ top.tied = ~\E v \in Options : \A w \in Options \ {v} :
                            Support(votes, w) < Support(votes, v)
<1>. DEFINE S(v) == Support(votes, v)
<1>1. \A v, w : v # w => /\ S(v) \in 0..Len(votes) /\ S(w) \in 0..Len(votes)
                        /\ S(v) + S(w) <= Len(votes)
  BY SupportAdds
<1>2. /\ top.values # {} /\ IsFiniteSet(top.values)
      /\ top.values = {v \in Options : \A w \in Options : S(w) <= S(v)}
      /\ top.tied = (Cardinality(top.values) > 1)
  BY ModalOptions
<1>. HIDE DEF S
<1>3. Len(votes) \in Nat
  OBVIOUS
<1>4. ASSUME NEW v \in Options, \A w \in Options \ {v} : S(w) < S(v)
      PROVE  top.values = {v}
  <2>1. ASSUME NEW w \in top.values, w # v
        PROVE  FALSE
    <3>1. w \in Options /\ S(v) <= S(w)
      BY <1>2, <2>1
    <3>2. S(w) < S(v) /\ S(v) \in Int /\ S(w) \in Int
      BY <1>1, <1>3, <1>4, <2>1, <3>1
    <3>. QED
      BY <3>1, <3>2
  <2>. QED
    BY <1>2, <2>1
<1>5. ASSUME NEW v \in Options, 2 * S(v) > Len(votes)
      PROVE  top.values = {v}
  <2>1. ASSUME NEW w \in Options \ {v}
        PROVE  S(w) < S(v)
    <3>1. S(v) \in Int /\ S(w) \in Int /\ S(v) + S(w) <= Len(votes)
      BY <1>1, <1>3
    <3>. QED
      BY <1>3, <1>5, <3>1
  <2>. QED
    BY <1>4, <2>1
<1>6. ASSUME NEW v, top.values = {v}
      PROVE  v \in Options /\ \A w \in Options \ {v} : S(w) < S(v)
  <2>1. v \in Options /\ \A w \in Options : S(w) <= S(v)
    BY <1>2, <1>6
  <2>2. ASSUME NEW w \in Options, w # v
        PROVE  S(w) < S(v)
    <3>1. S(w) \in Int /\ S(v) \in Int /\ S(w) <= S(v)
      BY <1>1, <1>3, <2>1, <2>2
    <3>2. PICK u \in Options : ~(S(u) <= S(w))
      BY <1>2, <1>6, <2>2
    <3>3. S(u) \in Int /\ S(u) <= S(v)
      BY <1>1, <1>3, <2>1, <2>2, <3>1
    <3>. QED
      BY <3>1, <3>2, <3>3
  <2>. QED
    BY <2>1, <2>2
<1>7. top.tied = ~\E v : top.values = {v}
  <2>1. Cardinality(top.values) \in Nat /\ Cardinality(top.values) # 0
    BY <1>2, FS_CardinalityType, FS_EmptySet
  <2>2. Cardinality(top.values) = 1 <=> \E v : top.values = {v}
    BY <1>2, FS_Singleton
  <2>3. (Cardinality(top.values) > 1) = (Cardinality(top.values) # 1)
    BY <2>1
  <2>. QED
    BY <1>2, <2>2, <2>3
<1>8. (\E v : top.values = {v}) <=>
        \E v \in Options : \A w \in Options \ {v} : S(w) < S(v)
  BY <1>4, <1>6
<1>. QED
  BY <1>5, <1>7, <1>8 DEF S

\* The top of every revealed round is honest: there is one as soon as somebody
\* voted, a majority stands there alone, and a tie is a tie (topOf).
THEOREM TopsAreHonest == Spec => []TopIsHonest
<1>1. TypeOK => TopIsHonest
  <2>. SUFFICES ASSUME TypeOK, NEW votes \in results
                PROVE  /\ (TopOf(votes) = {}) = (votes = <<>>)
                       /\ \A top \in TopOf(votes) :
                            /\ \A v \in Options :
                                 2 * Support(votes, v) > Len(votes) => top.values = {v}
                            /\ top.tied = ~\E v \in Options : \A w \in Options \ {v} :
                                 Support(votes, w) < Support(votes, v)
    BY DEF TopIsHonest
  <2>1. votes \in Seq(Votes)
    BY DEF TypeOK
  <2>2. (TopOf(votes) = {}) = (votes = <<>>)
    BY DEF TopOf
  <2>. QED
    BY <2>1, <2>2, TopSaysWhatBallotsSay
<1>. QED
  BY <1>1, DeliberationTypeCorrect, PTL

---------------------------------------------------------------------------
(* What the median says.                                                   *)

\* The numeric votes of a round, and how many are up to x and below it.
Numerics(votes) == {i \in DOMAIN votes : IsNumeric(votes[i].value)}
NumberOf(votes, i) == Number[votes[i].value]
Numbers(votes) == {NumberOf(votes, i) : i \in Numerics(votes)}
UpTo(votes, x) == {i \in Numerics(votes) : NumberOf(votes, i) <= x}
From(votes, x) == {i \in Numerics(votes) : NumberOf(votes, i) >= x}

\* The numeric votes are finitely many, and so are their numbers.
LEMMA NumericsFinite ==
  ASSUME NEW votes \in Seq(Votes)
  PROVE  /\ IsFiniteSet(Numerics(votes)) /\ Cardinality(Numerics(votes)) \in Nat
         /\ Numbers(votes) \subseteq Int /\ IsFiniteSet(Numbers(votes))
         /\ \A i \in Numerics(votes) : NumberOf(votes, i) \in Numbers(votes)
         /\ (Numerics(votes) = {}) = (Cardinality(Numerics(votes)) = 0)
<1>1. IsFiniteSet(1..Len(votes)) /\ Numerics(votes) \subseteq 1..Len(votes)
  <2>1. Len(votes) \in Int
    OBVIOUS
  <2>2. IsFiniteSet(1..Len(votes))
    BY <2>1, FS_Interval
  <2>. QED
    BY <2>2 DEF Numerics
<1>2. IsFiniteSet(Numerics(votes))
  BY <1>1, FS_Subset
<1>3. Cardinality(Numerics(votes)) \in Nat
  BY <1>2, FS_CardinalityType
<1>4. (Numerics(votes) = {}) = (Cardinality(Numerics(votes)) = 0)
  BY <1>2, FS_EmptySet
<1>5. \A i \in Numerics(votes) : NumberOf(votes, i) \in Int
  BY StatsAssumption DEF Numerics, NumberOf, IsNumeric
<1>6. IsFiniteSet(Numbers(votes))
  <2>. DEFINE f == [i \in Numerics(votes) |-> NumberOf(votes, i)]
              S == Numerics(votes)
              R == Numbers(votes)
  <2>1. f \in Surjection(S, R)
    BY DEF Surjection, Numbers
  <2>. QED
    BY <1>2, <2>1, FS_Surjection
<1>. QED
  BY <1>2, <1>3, <1>4, <1>5, <1>6 DEF Numbers

\* More room, more votes: what is up to a smaller number is up to a larger.
LEMMA UpToGrows ==
  ASSUME NEW votes \in Seq(Votes)
  PROVE  /\ \A x \in Int :
              /\ Cardinality(UpTo(votes, x)) \in Nat
              /\ Cardinality(From(votes, x)) \in Nat
         /\ \A x, y \in Int : x <= y =>
              /\ Cardinality(UpTo(votes, x)) <= Cardinality(UpTo(votes, y))
              /\ Cardinality(From(votes, y)) <= Cardinality(From(votes, x))
<1>1. /\ IsFiniteSet(Numerics(votes))
      /\ \A i \in Numerics(votes) : NumberOf(votes, i) \in Int
  BY NumericsFinite
<1>2. ASSUME NEW x \in Int
      PROVE  /\ IsFiniteSet(UpTo(votes, x)) /\ Cardinality(UpTo(votes, x)) \in Nat
             /\ IsFiniteSet(From(votes, x)) /\ Cardinality(From(votes, x)) \in Nat
  <2>1. UpTo(votes, x) \subseteq Numerics(votes) /\ From(votes, x) \subseteq Numerics(votes)
    BY DEF UpTo, From
  <2>2. IsFiniteSet(UpTo(votes, x)) /\ IsFiniteSet(From(votes, x))
    BY <1>1, <2>1, FS_Subset
  <2>. QED
    BY <2>2, FS_CardinalityType
<1>3. ASSUME NEW x \in Int, NEW y \in Int, x <= y
      PROVE  /\ Cardinality(UpTo(votes, x)) <= Cardinality(UpTo(votes, y))
             /\ Cardinality(From(votes, y)) <= Cardinality(From(votes, x))
  <2>1. UpTo(votes, x) \subseteq UpTo(votes, y) /\ From(votes, y) \subseteq From(votes, x)
    BY <1>1, <1>3 DEF UpTo, From
  <2>. QED
    BY <1>2, <2>1, FS_Subset
<1>. QED
  BY <1>2, <1>3

\* For every rank there is a least number that so many votes are up to.
LEMMA RankedNumber ==
  ASSUME NEW votes \in Seq(Votes), NEW k \in 1..Cardinality(Numerics(votes))
  PROVE  \E x \in Numbers(votes) : \A y \in Numbers(votes) :
           (k <= Cardinality(UpTo(votes, y))) = (x <= y)
<1>. DEFINE N == Numerics(votes)
            R == Numbers(votes)
            K == {x \in R : k <= Cardinality(UpTo(votes, x))}
<1>1. /\ IsFiniteSet(N) /\ Cardinality(N) \in Nat
      /\ R \subseteq Int /\ IsFiniteSet(R)
      /\ \A i \in N : NumberOf(votes, i) \in R
      /\ (N = {}) = (Cardinality(N) = 0)
  BY NumericsFinite
<1>2. K # {}
  <2>. DEFINE M == {-x : x \in R}
  <2>1. IsFiniteSet(M)
    <3>. HIDE DEF R
    <3>. DEFINE f == [x \in R |-> -x]
    <3>1. f \in Surjection(R, M)
      BY DEF Surjection
    <3>. HIDE DEF M, f
    <3>. QED
      BY <1>1, <3>1, FS_Surjection
  <2>2. M # {} /\ M \subseteq Int
    BY <1>1
  <2>3. PICK m \in M : \A d \in M : m <= d
    <3>. HIDE DEF M
    <3>. QED
      BY <2>1, <2>2, LeastExists
  <2>4. PICK x \in R : m = -x
    OBVIOUS
  <2>5. \A y \in R : y <= x
    <3>. TAKE y \in R
    <3>1. m <= -y /\ x \in Int /\ y \in Int
      BY <1>1, <2>3
    <3>. QED
      BY <2>4, <3>1
  <2>6. UpTo(votes, x) = N
    BY <1>1, <2>5 DEF UpTo
  <2>. QED
    BY <1>1, <2>6
<1>3. K \subseteq R /\ K \subseteq Int /\ IsFiniteSet(K)
  <2>1. K \subseteq R
    OBVIOUS
  <2>. HIDE DEF K
  <2>. QED
    BY <1>1, <2>1, FS_Subset
<1>4. PICK x \in K : \A y \in K : x <= y
  <2>. HIDE DEF K
  <2>. QED
    BY <1>2, <1>3, LeastExists
<1>5. ASSUME NEW y \in R
      PROVE  (k <= Cardinality(UpTo(votes, y))) = (x <= y)
  <2>1. x \in Int /\ y \in Int /\ x \in R /\ k <= Cardinality(UpTo(votes, x))
    BY <1>1, <1>4
  <2>2. k <= Cardinality(UpTo(votes, y)) => x <= y
    BY <1>4
  <2>3. x <= y => Cardinality(UpTo(votes, x)) <= Cardinality(UpTo(votes, y))
    BY <2>1, UpToGrows
  <2>4. /\ Cardinality(UpTo(votes, x)) \in Int
        /\ Cardinality(UpTo(votes, y)) \in Int /\ k \in Int
    BY <1>1, <2>1, UpToGrows
  <2>. QED
    BY <2>1, <2>2, <2>3, <2>4
<1>. QED
  BY <1>4, <1>5

\* The sorted numbers are as many as the numeric votes; the k-th is a number
\* that k votes are up to and all but k - 1 are from, and none is before the
\* one that precedes it.
LEMMA NumsAreSorted ==
  ASSUME NEW votes \in Seq(Votes)
  PROVE  /\ Len(Nums(votes)) = Cardinality(Numerics(votes))
         /\ DOMAIN Nums(votes) = 1..Cardinality(Numerics(votes))
         /\ \A k \in 1..Cardinality(Numerics(votes)) :
              /\ Nums(votes)[k] \in Numbers(votes)
              /\ k <= Cardinality(UpTo(votes, Nums(votes)[k]))
              /\ Cardinality(Numerics(votes)) - k + 1
                   <= Cardinality(From(votes, Nums(votes)[k]))
         /\ \A k, l \in 1..Cardinality(Numerics(votes)) :
              k <= l => Nums(votes)[k] <= Nums(votes)[l]
<1>. DEFINE N == Numerics(votes)
            R == Numbers(votes)
            n == Cardinality(N)
            s == Nums(votes)
<1>1. /\ IsFiniteSet(N) /\ n \in Nat
      /\ R \subseteq Int /\ IsFiniteSet(R)
      /\ \A i \in N : NumberOf(votes, i) \in R
  BY NumericsFinite
<1>2. s = [k \in 1..n |-> CHOOSE x \in R : \A y \in R :
                            (k <= Cardinality(UpTo(votes, y))) = (x <= y)]
  BY DEF Nums, Numerics, Numbers, NumberOf, UpTo
<1>3. \A x \in Int : Cardinality(UpTo(votes, x)) \in Nat /\ Cardinality(From(votes, x)) \in Nat
  BY UpToGrows
<1>4. ASSUME NEW k \in 1..n
      PROVE  s[k] \in R /\ \A y \in R : (k <= Cardinality(UpTo(votes, y))) = (s[k] <= y)
  <2>1. \E x \in R : \A y \in R : (k <= Cardinality(UpTo(votes, y))) = (x <= y)
    BY RankedNumber
  <2>2. s[k] = CHOOSE x \in R : \A y \in R :
                 (k <= Cardinality(UpTo(votes, y))) = (x <= y)
    BY <1>2
  <2>. HIDE DEF R, s
  <2>. QED
    BY <2>1, <2>2
<1>5. DOMAIN s = 1..n /\ Len(s) = n
  <2>1. DOMAIN s = 1..n
    BY <1>2
  <2>. QED
    BY <1>1, <2>1, LenProperties
<1>. HIDE DEF N, R, n, s
<1>6. ASSUME NEW k \in 1..n
      PROVE  /\ k <= Cardinality(UpTo(votes, s[k]))
             /\ n - k + 1 <= Cardinality(From(votes, s[k]))
  <2>1. s[k] \in R /\ s[k] \in Int /\ k \in Int
    <3>1. s[k] \in R
      BY <1>4
    <3>2. s[k] \in Int
      BY <1>1, <3>1
    <3>3. k \in Int
      BY <1>1
    <3>. QED
      BY <3>1, <3>2, <3>3
  <2>2. k <= Cardinality(UpTo(votes, s[k]))
    BY <1>4, <2>1
  <2>. DEFINE below == {i \in N : NumberOf(votes, i) < s[k]}
  <2>3. IsFiniteSet(below) /\ Cardinality(below) \in Nat /\ Cardinality(below) < k
    <3>1. below \subseteq N
      OBVIOUS
    <3>2. IsFiniteSet(below) /\ Cardinality(below) \in Nat
      <4>. HIDE DEF below
      <4>. QED
        BY <1>1, <3>1, FS_Subset, FS_CardinalityType
    <3>3. CASE below = {}
      <4>1. Cardinality(below) = 0
        BY <3>3, FS_EmptySet
      <4>. QED
        BY <3>2, <4>1
    <3>4. CASE below # {}
      <4>. DEFINE M == {-NumberOf(votes, i) : i \in below}
      <4>1. M # {} /\ M \subseteq Int
        <5>1. \A i \in N : NumberOf(votes, i) \in R
          BY <1>1
        <5>2. \A i \in below : NumberOf(votes, i) \in Int
          BY <1>1, <5>1
        <5>. QED
          BY <3>4, <5>2
      <4>2. IsFiniteSet(M)
        <5>. DEFINE f == [i \in below |-> -NumberOf(votes, i)]
        <5>1. f \in Surjection(below, M)
          BY DEF Surjection
        <5>. HIDE DEF M, f, below
        <5>. QED
          BY <3>2, <5>1, FS_Surjection
      <4>3. PICK m \in M : \A d \in M : m <= d
        <5>. HIDE DEF M
        <5>. QED
          BY <4>1, <4>2, LeastExists
      <4>4. PICK j \in below : m = -NumberOf(votes, j)
        OBVIOUS
      <4>. DEFINE y == NumberOf(votes, j)
      <4>5. y \in R /\ y \in Int /\ y < s[k]
        BY <1>1, <4>4
      <4>6. below \subseteq UpTo(votes, y)
        <5>1. ASSUME NEW i \in below
              PROVE  i \in N /\ NumberOf(votes, i) <= y
          <6>1. i \in N /\ NumberOf(votes, i) \in Int /\ m <= -NumberOf(votes, i)
            BY <1>1, <4>3
          <6>. QED
            BY <4>4, <4>5, <6>1
        <5>. QED
          BY <5>1 DEF UpTo, N
      <4>7. ~(k <= Cardinality(UpTo(votes, y)))
        BY <1>4, <2>1, <4>5
      <4>8. IsFiniteSet(UpTo(votes, y))
        <5>1. UpTo(votes, y) \subseteq N
          BY DEF UpTo, N
        <5>. QED
          BY <1>1, <5>1, FS_Subset
      <4>. HIDE DEF below, y
      <4>9. Cardinality(below) <= Cardinality(UpTo(votes, y))
        BY <4>6, <4>8, FS_Subset
      <4>10. Cardinality(UpTo(votes, y)) \in Int
        BY <1>3, <4>5
      <4>. QED
        BY <2>1, <3>2, <4>7, <4>9, <4>10
    <3>. QED
      BY <3>3, <3>4
  <2>4. below \in SUBSET N /\ From(votes, s[k]) = N \ below
    <3>1. \A i \in N : NumberOf(votes, i) \in Int
      BY <1>1
    <3>2. \A i \in N : (NumberOf(votes, i) >= s[k]) = ~(NumberOf(votes, i) < s[k])
      BY <2>1, <3>1
    <3>3. From(votes, s[k]) = {i \in N : NumberOf(votes, i) >= s[k]}
      BY DEF From, N
    <3>. QED
      BY <3>2, <3>3
  <2>. HIDE DEF below
  <2>5. Cardinality(N \ below) = Cardinality(N) - Cardinality(N \cap below)
    BY <1>1, FS_Difference
  <2>6. N \cap below = below
    BY <2>4
  <2>7. Cardinality(From(votes, s[k])) = n - Cardinality(below)
    BY <2>4, <2>5, <2>6 DEF n
  <2>. QED
    BY <1>1, <2>1, <2>2, <2>3, <2>7
<1>7. ASSUME NEW k \in 1..n, NEW l \in 1..n, k <= l
      PROVE  s[k] <= s[l]
  <2>1. s[l] \in R /\ s[l] \in Int /\ k \in Int /\ l \in Int
    <3>1. s[l] \in R
      BY <1>4
    <3>2. s[l] \in Int
      BY <1>1, <3>1
    <3>3. k \in Int /\ l \in Int
      BY <1>1
    <3>. QED
      BY <3>1, <3>2, <3>3
  <2>2. l <= Cardinality(UpTo(votes, s[l])) /\ Cardinality(UpTo(votes, s[l])) \in Int
    <3>1. l <= Cardinality(UpTo(votes, s[l]))
      BY <1>6
    <3>2. Cardinality(UpTo(votes, s[l])) \in Int
      <4>1. Cardinality(UpTo(votes, s[l])) \in Nat
        BY <1>3, <2>1
      <4>. QED
        BY <4>1
    <3>. QED
      BY <3>1, <3>2
  <2>3. k <= Cardinality(UpTo(votes, s[l]))
    BY <1>7, <2>1, <2>2
  <2>. QED
    BY <1>4, <2>1, <2>3
<1>. QED
  BY <1>4, <1>5, <1>6, <1>7 DEF N, R, n, s

\* The sum of two numbers of the deck does not overflow.  It may (HugeDeck of
\* MCDeliberation), and then so does a median.
SumsAreFinite == \A v, w \in DOMAIN Number : IsFinite(Number[v] + Number[w])

\* The median of a round lies between the two numbers in the middle.
LEMMA MedianInTheMiddle ==
  ASSUME SumsAreFinite, NEW votes \in Seq(Votes), Numerics(votes) # {}
  PROVE  /\ Median(Nums(votes)) \in Int
         /\ \E k, l \in 1..Cardinality(Numerics(votes)) :
              /\ 2 * k >= Cardinality(Numerics(votes))
              /\ 2 * l <= Cardinality(Numerics(votes)) + 2
              /\ Nums(votes)[k] <= Median(Nums(votes))
              /\ Median(Nums(votes)) <= Nums(votes)[l]
<1>. DEFINE n == Cardinality(Numerics(votes))
            s == Nums(votes)
            m == Median(s)
            half == n \div 2
<1>1. n \in Nat /\ n # 0 /\ Numbers(votes) \subseteq Int
  BY NumericsFinite
<1>2. /\ Len(s) = n
      /\ \A k \in 1..n : s[k] \in Numbers(votes)
      /\ \A k, l \in 1..n : k <= l => s[k] <= s[l]
  BY NumsAreSorted
<1>. HIDE DEF n, s
<1>3. \A k \in 1..n : s[k] \in Int
  BY <1>1, <1>2
<1>4. CASE n % 2 = 1
  <2>1. half + 1 \in 1..n /\ 2 * (half + 1) >= n /\ 2 * (half + 1) <= n + 2
    BY <1>1, <1>4
  <2>. HIDE DEF half
  <2>2. m = s[half + 1]
    BY <1>2, <1>4 DEF Median, half
  <2>3. m \in Int
    BY <1>3, <2>1, <2>2
  <2>4. s[half + 1] <= m /\ m <= s[half + 1]
    BY <2>2, <2>3
  <2>. HIDE DEF m
  <2>. QED
    BY <2>1, <2>3, <2>4 DEF n, s, m
<1>5. CASE n % 2 # 1
  <2>1. /\ half \in 1..n /\ 2 * half >= n
        /\ half + 1 \in 1..n /\ 2 * (half + 1) <= n + 2 /\ half <= half + 1
    BY <1>1, <1>5
  <2>. HIDE DEF half
  <2>2. m = Over(Plus(s[half], s[half + 1]), 2)
    BY <1>2, <1>5 DEF Median, half
  <2>3. s[half] \in Int /\ s[half + 1] \in Int
    BY <1>3, <2>1
  <2>4. s[half] <= s[half + 1]
    BY <1>2, <2>1
  <2>5. IsFinite(s[half] + s[half + 1])
    <3>1. \A x \in Numbers(votes) : \E v \in DOMAIN Number : x = Number[v]
      BY DEF Numbers, NumberOf, Numerics, IsNumeric
    <3>2. s[half] \in Numbers(votes) /\ s[half + 1] \in Numbers(votes)
      BY <1>2, <2>1
    <3>. QED
      BY <3>1, <3>2 DEF SumsAreFinite
  <2>6. m = (s[half] + s[half + 1]) \div 2
    BY <2>2, <2>5 DEF Over, Plus, Float
  <2>7. m \in Int /\ s[half] <= m /\ m <= s[half + 1]
    BY <2>3, <2>4, <2>6
  <2>. HIDE DEF m
  <2>. QED
    BY <2>1, <2>7 DEF n, s, m
<1>. QED
  BY <1>4, <1>5

\* The statistics of a round with numeric votes.
LEMMA StatisticsOfRound ==
  ASSUME NEW votes \in Seq(Votes), NEW st \in NumericStats(votes)
  PROVE  /\ Numerics(votes) # {}
         /\ st.min = Nums(votes)[1]
         /\ st.max = Nums(votes)[Cardinality(Numerics(votes))]
         /\ st.median = Median(Nums(votes))
         /\ st.mean = Over(FoldLeft(Plus, 0, Nums(votes)), Cardinality(Numerics(votes)))
         /\ st.spread = Float(st.max - st.min)
         /\ st.consensus = (st.min = st.max)
<1>. DEFINE n == Cardinality(Numerics(votes))
            s == Nums(votes)
            mean == Over(FoldLeft(Plus, 0, s), n)
<1>1. n \in Nat /\ (Numerics(votes) = {}) = (n = 0)
  BY NumericsFinite
<1>2. Len(s) = n /\ DOMAIN s = 1..n
  BY NumsAreSorted
<1>3. /\ s # <<>>
      /\ st = [min |-> s[1], max |-> s[n], median |-> Median(s), mean |-> mean,
               spread |-> Float(s[n] - s[1]), consensus |-> s[1] = s[n]]
  BY <1>2 DEF NumericStats
<1>4. n # 0
  <2>. DEFINE kth(k) == CHOOSE x \in Numbers(votes) : \A y \in Numbers(votes) :
                          (k <= Cardinality(UpTo(votes, y))) = (x <= y)
  <2>1. s = [k \in 1..n |-> kth(k)]
    BY DEF Nums, Numerics, Numbers, NumberOf, UpTo
  <2>. HIDE DEF kth
  <2>2. SUFFICES ASSUME n = 0 PROVE FALSE
    OBVIOUS
  <2>3. s = <<>>
    BY <2>1, <2>2
  <2>. QED
    BY <1>3, <2>3
<1>. HIDE DEF mean
<1>5. st.mean = mean
  BY <1>3
<1>6. /\ Numerics(votes) # {} /\ st.min = s[1] /\ st.max = s[n]
      /\ st.median = Median(s) /\ st.spread = Float(st.max - st.min)
      /\ st.consensus = (st.min = st.max)
  BY <1>1, <1>3, <1>4
<1>. QED
  BY <1>5, <1>6 DEF mean

\* The least and the greatest number bound the numbers of a round, which are
\* one exactly when the two are equal.
LEMMA ExtremesBound ==
  ASSUME NEW votes \in Seq(Votes), Numerics(votes) # {}
  PROVE  LET n == Cardinality(Numerics(votes))
             a == Nums(votes)[1]
             b == Nums(votes)[n]
         IN  /\ n \in Nat \ {0} /\ a \in Numbers(votes) /\ b \in Numbers(votes)
             /\ \A x \in Numbers(votes) : a <= x /\ x <= b
             /\ (a = b) = (Cardinality(Numbers(votes)) = 1)
<1>. DEFINE N == Numerics(votes)
            R == Numbers(votes)
            n == Cardinality(N)
            a == Nums(votes)[1]
            b == Nums(votes)[n]
<1>1. /\ IsFiniteSet(N) /\ n \in Nat \ {0}
      /\ R \subseteq Int /\ IsFiniteSet(R)
      /\ \A i \in N : NumberOf(votes, i) \in R
  BY NumericsFinite
<1>2. 1 \in 1..n /\ n \in 1..n
  BY <1>1
<1>3. a \in R /\ b \in R
  BY <1>2, NumsAreSorted
<1>4. n <= Cardinality(UpTo(votes, b)) /\ n <= Cardinality(From(votes, a))
  <2>1. n <= Cardinality(UpTo(votes, b))
    BY <1>2, NumsAreSorted
  <2>2. n - 1 + 1 <= Cardinality(From(votes, a))
    BY <1>2, NumsAreSorted
  <2>. QED
    BY <1>1, <2>1, <2>2
<1>5. UpTo(votes, b) = N /\ From(votes, a) = N
  <2>1. UpTo(votes, b) \in SUBSET N /\ From(votes, a) \in SUBSET N
    BY DEF UpTo, From
  <2>2. ASSUME NEW S \in SUBSET N, n <= Cardinality(S)
        PROVE  S = N
    <3>1. IsFiniteSet(S) /\ Cardinality(S) <= n /\ (n = Cardinality(S) => S = N)
      <4>. HIDE DEF N
      <4>. QED
        BY <1>1, FS_Subset DEF n
    <3>2. Cardinality(S) \in Int /\ n \in Int
      BY <1>1, <3>1, FS_CardinalityType
    <3>. QED
      BY <2>2, <3>1, <3>2
  <2>. HIDE DEF n, a, b
  <2>. QED
    BY <1>4, <2>1, <2>2
<1>6. \A x \in R : a <= x /\ x <= b
  <2>. SUFFICES ASSUME NEW i \in N
                PROVE  a <= NumberOf(votes, i) /\ NumberOf(votes, i) <= b
    BY DEF Numbers
  <2>1. NumberOf(votes, i) <= b /\ NumberOf(votes, i) >= a
    BY <1>5 DEF UpTo, From
  <2>2. NumberOf(votes, i) \in Int /\ a \in Int
    BY <1>1, <1>3
  <2>. QED
    BY <2>1, <2>2
<1>7. (a = b) = (Cardinality(R) = 1)
  <2>. HIDE DEF R, a, b
  <2>1. Cardinality(R) = 1 <=> \E x : R = {x}
    BY <1>1, FS_Singleton
  <2>2. ASSUME a = b
        PROVE  R = {a}
    <3>1. ASSUME NEW x \in R
          PROVE  x = a
      <4>1. x \in Int /\ a \in Int
        BY <1>1, <1>3
      <4>. QED
        BY <1>6, <2>2, <4>1
    <3>. QED
      BY <1>3, <3>1
  <2>3. ASSUME NEW x, R = {x}
        PROVE  a = b
    BY <1>3, <2>3
  <2>. QED
    BY <2>1, <2>2, <2>3
<1>. HIDE DEF R, a, b, n
<1>. QED
  BY <1>1, <1>3, <1>6, <1>7 DEF R, a, b, n

\* The median of every revealed round splits its votes, whatever they are and
\* in whatever order they came, and the extremes, the spread and the consensus
\* shown with it agree, on every deck whose sums of two numbers are finite
\* (computeStats).
THEOREM MediansSplitTheVotes ==
  ASSUME SumsAreFinite
  PROVE  Spec => []MedianSplitsTheVotes
<1>1. TypeOK => MedianSplitsTheVotes
  <2>. SUFFICES ASSUME TypeOK, NEW votes \in results, NEW st \in NumericStats(votes)
                PROVE  /\ 2 * Cardinality(UpTo(votes, st.median)) >= Cardinality(Numerics(votes))
                       /\ 2 * Cardinality(From(votes, st.median)) >= Cardinality(Numerics(votes))
                       /\ Numbers(votes) \subseteq st.min..st.max
                       /\ st.median \in st.min..st.max
                       /\ st.consensus = (Cardinality(Numbers(votes)) = 1)
                       /\ st.consensus = (st.spread = 0)
    BY DEF MedianSplitsTheVotes, UpTo, From, Numerics, Numbers, NumberOf
  <2>. DEFINE n == Cardinality(Numerics(votes))
              s == Nums(votes)
              m == st.median
  <2>1. votes \in Seq(Votes)
    BY DEF TypeOK
  <2>2. /\ Numerics(votes) # {} /\ m = Median(s)
        /\ st.min = s[1] /\ st.max = s[n]
        /\ st.spread = Float(st.max - st.min)
        /\ st.consensus = (st.min = st.max)
    BY <2>1, StatisticsOfRound
  <2>3. /\ n \in Nat \ {0} /\ s[1] \in Numbers(votes) /\ s[n] \in Numbers(votes)
        /\ \A x \in Numbers(votes) : s[1] <= x /\ x <= s[n]
        /\ (s[1] = s[n]) = (Cardinality(Numbers(votes)) = 1)
    BY <2>1, <2>2, ExtremesBound
  <2>4. Numbers(votes) \subseteq Int /\ s[1] \in Int /\ s[n] \in Int
    BY <2>1, <2>3, NumericsFinite
  <2>5. /\ m \in Int
        /\ \E k, l \in 1..n : /\ 2 * k >= n /\ 2 * l <= n + 2
                              /\ s[k] <= m /\ m <= s[l]
    BY <2>1, <2>2, MedianInTheMiddle
  <2>6. PICK k \in 1..n, l \in 1..n : /\ 2 * k >= n /\ 2 * l <= n + 2
                                      /\ s[k] <= m /\ m <= s[l]
    BY <2>5
  <2>7. /\ s[k] \in Numbers(votes) /\ k <= Cardinality(UpTo(votes, s[k]))
        /\ s[l] \in Numbers(votes) /\ n - l + 1 <= Cardinality(From(votes, s[l]))
    BY <2>1, NumsAreSorted
  <2>. HIDE DEF n, s, m
  <2>8. s[k] \in Int /\ s[l] \in Int /\ k \in Int /\ l \in Int /\ n \in Int
    BY <2>3, <2>4, <2>7
  <2>9. 2 * Cardinality(UpTo(votes, m)) >= n
    <3>1. Cardinality(UpTo(votes, s[k])) <= Cardinality(UpTo(votes, m))
      BY <2>1, <2>5, <2>6, <2>8, UpToGrows
    <3>2. Cardinality(UpTo(votes, s[k])) \in Nat /\ Cardinality(UpTo(votes, m)) \in Nat
      BY <2>1, <2>5, <2>8, UpToGrows
    <3>. QED
      BY <2>6, <2>7, <2>8, <3>1, <3>2
  <2>10. 2 * Cardinality(From(votes, m)) >= n
    <3>1. Cardinality(From(votes, s[l])) <= Cardinality(From(votes, m))
      BY <2>1, <2>5, <2>6, <2>8, UpToGrows
    <3>2. Cardinality(From(votes, s[l])) \in Nat /\ Cardinality(From(votes, m)) \in Nat
      BY <2>1, <2>5, <2>8, UpToGrows
    <3>. QED
      BY <2>6, <2>7, <2>8, <3>1, <3>2
  <2>11. Numbers(votes) \subseteq st.min..st.max
    <3>1. \A x \in Numbers(votes) : x \in Int /\ s[1] <= x /\ x <= s[n]
      BY <2>3, <2>4
    <3>. QED
      BY <2>2, <2>4, <3>1
  <2>12. m \in st.min..st.max
    <3>1. s[1] <= s[k] /\ s[l] <= s[n]
      BY <2>3, <2>7
    <3>2. s[1] <= m /\ m <= s[n]
      BY <2>4, <2>5, <2>6, <2>8, <3>1
    <3>. QED
      BY <2>2, <2>4, <2>5, <3>2
  <2>13. (st.min = st.max) = (st.spread = 0)
    <3>1. st.min \in Int /\ st.max \in Int
      BY <2>2, <2>4
    <3>. QED
      BY <2>2, <3>1, StatsAssumption DEF Float, IsFinite, Infinity
  <2>. QED
    BY <2>2, <2>3, <2>9, <2>10, <2>11, <2>12, <2>13 DEF n, m
<1>. QED
  BY <1>1, DeliberationTypeCorrect, PTL

---------------------------------------------------------------------------
(* When statistics are finite.                                             *)

\* A result is a number, and one in range is what it is without overflow.
LEMMA PlusType ==
  ASSUME NEW x \in Int, NEW y \in Int
  PROVE  Plus(x, y) \in Int /\ (IsFinite(x + y) => Plus(x, y) = x + y)
BY StatsAssumption DEF Plus, Float, IsFinite, Infinity

\* Multiples of a natural number.
LEMMA Multiples ==
  ASSUME NEW b \in Nat, NEW c \in Nat, NEW n \in Nat
  PROVE  c * b \in Nat /\ (c + 1) * b = c * b + b /\ (c <= n => c * b <= n * b)
<1>1. c * b \in Nat /\ (c + 1) * b = c * b + b
  OBVIOUS
<1>2. ASSUME c <= n PROVE c * b <= n * b
  <2>1. n - c \in Nat /\ (n - c) * b \in Nat
    BY <1>2
  <2>2. n * b = c * b + (n - c) * b
    OBVIOUS
  <2>. QED
    BY <1>1, <2>1, <2>2
<1>. QED
  BY <1>1, <1>2

\* it[T] is the sum, with overflow, of the places T of s, the last one first.
IsTotal(it, s, S) ==
  \A T \in SUBSET S :
    it[T] = IF T = {} THEN 0
            ELSE LET i == Max(T) IN Plus(it[T \ {i}], s[i])

\* FoldLeft is what its definition says.
LEMMA TotalIs ==
  ASSUME NEW n \in Nat, NEW s, DOMAIN s = 1..n, \A i \in 1..n : s[i] \in Int
  PROVE  \E it \in [SUBSET (1..n) -> Int] :
           FoldLeft(Plus, 0, s) = it[1..n] /\ IsTotal(it, s, 1..n)
<1>. DEFINE S == 1..n
            pick == [T \in SUBSET S |-> Max(T)]
            step == [p \in S \X Int |-> Plus(p[2], s[p[1]])]
            Eq(it) == it = [t \in SUBSET S |->
                              IF t = {} THEN 0
                              ELSE LET i == Max(t) IN Plus(it[t \ {i}], s[i])]
            total == CHOOSE it : Eq(it)
<1>1. IsFiniteSet(S)
  <2>1. 1 \in Int /\ n \in Int
    OBVIOUS
  <2>. QED
    BY <2>1, FS_Interval
<1>2. \A T \in SUBSET S : T # {} => Max(T) \in T
  <2>. SUFFICES ASSUME NEW T \in SUBSET S, T # {}
                PROVE  Max(T) \in T
    OBVIOUS
  <2>1. T \subseteq 0..n
    OBVIOUS
  <2>. QED
    BY <2>1, LargestExists
<1>3. \A T \in SUBSET S : T # {} => pick[T] \in T
  BY <1>2
<1>4. \A i \in S, v \in Int : step[<<i, v>>] = Plus(v, s[i]) /\ step[<<i, v>>] \in Int
  BY PlusType
<1>5. PICK it \in [SUBSET S -> Int] : IsFold(it, S, 0, pick, step)
  <2>1. \A i \in S, v \in Int : step[<<i, v>>] \in Int
    BY <1>4
  <2>2. 0 \in Int
    OBVIOUS
  <2>. HIDE DEF pick, step, S
  <2>. QED
    BY <1>1, <1>3, <2>1, <2>2, FoldExists, Zenon
<1>. HIDE DEF step
<1>6. \A T \in SUBSET S : it[T] = IF T = {} THEN 0
                                 ELSE LET i == Max(T) IN Plus(it[T \ {i}], s[i])
  <2>. SUFFICES ASSUME NEW T \in SUBSET S
                PROVE  it[T] = IF T = {} THEN 0
                               ELSE LET i == Max(T) IN Plus(it[T \ {i}], s[i])
    OBVIOUS
  <2>1. CASE T # {}
    <3>1. pick[T] \in T /\ pick[T] = Max(T)
      BY <1>3, <2>1
    <3>2. it[T] = step[<<pick[T], it[T \ {pick[T]}]>>]
      BY <1>5, <2>1 DEF IsFold
    <3>3. it[T \ {pick[T]}] \in Int /\ pick[T] \in S
      BY <1>5, <3>1
    <3>4. it[T] = Plus(it[T \ {pick[T]}], s[pick[T]])
      BY <1>4, <3>2, <3>3
    <3>. QED
      BY <2>1, <3>1, <3>4
  <2>2. CASE T = {}
    BY <1>5, <2>2 DEF IsFold
  <2>. QED
    BY <2>1, <2>2
<1>7. Eq(it)
  BY <1>5, <1>6
<1>8. Eq(total)
  <2>. HIDE DEF Eq
  <2>. QED
    BY <1>7
<1>9. total = it
  <2>1. total = [t \in SUBSET S |-> total[t]] /\ it = [t \in SUBSET S |-> it[t]]
    <3>. HIDE DEF total
    <3>. QED
      BY <1>5, <1>8
  <2>2. \A T \in SUBSET S : total[T] = IF T = {} THEN 0
                                      ELSE LET i == Max(T) IN Plus(total[T \ {i}], s[i])
    <3>. HIDE DEF total
    <3>. QED
      BY <1>8
  <2>. DEFINE B == {T \in SUBSET S : total[T] # it[T]}
  <2>. HIDE DEF total
  <2>3. SUFFICES ASSUME B # {} PROVE FALSE
    BY <2>1
  <2>4. B \in SUBSET SUBSET S
    OBVIOUS
  <2>5. PICK T \in B : \A U \in B : U \subseteq T => U = T
    <3>. HIDE DEF B, S
    <3>. QED
      BY <1>1, <2>3, <2>4, SmallestSubset
  <2>6. T \in SUBSET S /\ total[T] # it[T]
    OBVIOUS
  <2>7. T # {}
    BY <1>6, <2>2, <2>6
  <2>. DEFINE i == Max(T)
  <2>8. i \in T
    BY <1>2, <2>6, <2>7
  <2>9. total[T] = Plus(total[T \ {i}], s[i]) /\ it[T] = Plus(it[T \ {i}], s[i])
    BY <1>6, <2>2, <2>6, <2>7
  <2>. HIDE DEF i
  <2>10. T \ {i} \in SUBSET S /\ T \ {i} \subseteq T /\ T \ {i} # T
    BY <2>6, <2>8
  <2>11. total[T \ {i}] = it[T \ {i}]
    BY <2>5, <2>10
  <2>. QED
    BY <2>6, <2>9, <2>11
<1>10. FoldLeft(Plus, 0, s) = total[S]
  BY DEF FoldLeft, MapThenFoldSet
<1>. QED
  BY <1>5, <1>6, <1>9, <1>10 DEF IsTotal

\* The sum of n numbers of size b or less is of size n * b or less, and no
\* partial sum overflows if that does not.
LEMMA TotalIsBounded ==
  ASSUME NEW n \in Nat, NEW s, DOMAIN s = 1..n, NEW b \in Nat,
         \A i \in 1..n : s[i] \in Int /\ -b <= s[i] /\ s[i] <= b,
         n * b <= MaxFloat
  PROVE  IsFinite(FoldLeft(Plus, 0, s)) /\ FoldLeft(Plus, 0, s) \in Int
<1>. DEFINE S == 1..n
            bound(T) == Cardinality(T) * b
            OK(v, T) == -bound(T) <= v /\ v <= bound(T)
<1>1. PICK it \in [SUBSET S -> Int] :
        FoldLeft(Plus, 0, s) = it[S] /\ IsTotal(it, s, S)
  BY TotalIs
<1>2. IsFiniteSet(S) /\ Cardinality(S) = n
  <2>1. 1 \in Int /\ n \in Int
    OBVIOUS
  <2>2. IsFiniteSet(S) /\ Cardinality(S) = IF 1 > n THEN 0 ELSE n - 1 + 1
    BY <2>1, FS_Interval
  <2>. HIDE DEF S
  <2>. QED
    BY <2>2
<1>3. \A T \in SUBSET S : Cardinality(T) \in Nat /\ Cardinality(T) <= n /\ IsFiniteSet(T)
  <2>. HIDE DEF S
  <2>. QED
    BY <1>2, FS_Subset, FS_CardinalityType
<1>4. \A T \in SUBSET S : bound(T) \in Nat /\ bound(T) <= MaxFloat
  <2>. SUFFICES ASSUME NEW T \in SUBSET S
                PROVE  bound(T) \in Nat /\ bound(T) <= MaxFloat
    OBVIOUS
  <2>1. bound(T) \in Nat /\ bound(T) <= n * b
    BY <1>3, Multiples
  <2>2. n * b \in Nat /\ MaxFloat \in Nat
    BY Multiples, StatsAssumption
  <2>. HIDE DEF bound
  <2>. QED
    BY <2>1, <2>2
<1>5. \A T \in SUBSET S : OK(it[T], T)
  <2>. DEFINE B == {T \in SUBSET S : ~OK(it[T], T)}
  <2>1. SUFFICES ASSUME B # {} PROVE FALSE
    OBVIOUS
  <2>2. PICK T \in B : \A U \in B : U \subseteq T => U = T
    <3>1. B \in SUBSET SUBSET S
      OBVIOUS
    <3>. HIDE DEF B, S
    <3>. QED
      BY <1>2, <2>1, <3>1, SmallestSubset
  <2>3. T \in SUBSET S /\ ~OK(it[T], T)
    OBVIOUS
  <2>4. T # {}
    <3>1. SUFFICES ASSUME T = {} PROVE FALSE
      OBVIOUS
    <3>2. it[T] = 0
      BY <1>1, <2>3, <3>1 DEF IsTotal
    <3>3. bound(T) \in Nat
      BY <1>4, <2>3
    <3>. HIDE DEF bound
    <3>. QED
      BY <2>3, <3>2, <3>3
  <2>. DEFINE i == Max(T)
              U == T \ {i}
  <2>5. i \in T
    <3>1. T \subseteq 0..n
      BY <2>3
    <3>. QED
      BY <2>4, <3>1, LargestExists
  <2>6. it[T] = Plus(it[U], s[i])
    BY <1>1, <2>3, <2>4 DEF IsTotal
  <2>. HIDE DEF i
  <2>7. U \in SUBSET S /\ U \subseteq T /\ U # T
    BY <2>3, <2>5
  <2>8. OK(it[U], U)
    BY <2>2, <2>7
  <2>9. Cardinality(T) = Cardinality(U) + 1
    <3>1. IsFiniteSet(T)
      BY <1>3, <2>3
    <3>2. Cardinality(T \ {i}) = Cardinality(T) - 1
      BY <2>5, <3>1, FS_RemoveElement
    <3>3. Cardinality(T) \in Int
      BY <1>3, <2>3
    <3>. QED
      BY <3>2, <3>3
  <2>10. bound(T) = bound(U) + b
    <3>1. Cardinality(U) \in Nat
      BY <1>3, <2>7
    <3>2. (Cardinality(U) + 1) * b = Cardinality(U) * b + b
      BY <3>1, Multiples
    <3>. QED
      BY <2>9, <3>2
  <2>11. /\ it[U] \in Int /\ s[i] \in Int /\ -b <= s[i] /\ s[i] <= b
         /\ bound(U) \in Int /\ bound(T) \in Int /\ bound(T) <= MaxFloat
    <3>1. it[U] \in Int /\ i \in 1..n
      BY <1>1, <2>3, <2>5, <2>7
    <3>2. bound(U) \in Nat /\ bound(T) \in Nat /\ bound(T) <= MaxFloat
      BY <1>4, <2>3, <2>7
    <3>. HIDE DEF bound
    <3>. QED
      BY <3>1, <3>2
  <2>. HIDE DEF bound, U, B
  <2>12. -bound(T) <= it[U] + s[i] /\ it[U] + s[i] <= bound(T)
    BY <2>8, <2>10, <2>11
  <2>13. IsFinite(it[U] + s[i])
    BY <2>11, <2>12, StatsAssumption DEF IsFinite
  <2>14. it[T] = it[U] + s[i]
    BY <2>6, <2>11, <2>13, PlusType
  <2>. QED
    BY <2>3, <2>12, <2>14
<1>6. it[S] \in Int /\ OK(it[S], S)
  BY <1>1, <1>5
<1>7. bound(S) \in Nat /\ bound(S) <= MaxFloat
  BY <1>4
<1>. HIDE DEF bound, S
<1>8. IsFinite(it[S])
  BY <1>6, <1>7, StatsAssumption DEF IsFinite
<1>. QED
  BY <1>1, <1>6, <1>8 DEF S

\* A quotient is no larger than what is divided.
LEMMA OverIsFinite ==
  ASSUME NEW x \in Int, NEW n \in Nat \ {0}, IsFinite(x)
  PROVE  IsFinite(Over(x, n))
<1>. DEFINE q == x \div n
<1>1. q \in Int /\ n * q <= x /\ x < n * (q + 1)
  OBVIOUS
<1>. HIDE DEF q
<1>2. n * (q + 1) = n * q + n
  BY <1>1
<1>3. q >= 0 => n * q >= q
  <2>1. q >= 0 => (n - 1) * q >= 0
    BY <1>1
  <2>2. n * q = (n - 1) * q + q
    BY <1>1
  <2>. QED
    BY <1>1, <2>1, <2>2
<1>4. q < 0 => n * q + n <= q + 1
  <2>1. q < 0 => (n - 1) * (q + 1) <= 0
    BY <1>1
  <2>2. n * q + n = (n - 1) * (q + 1) + (q + 1)
    BY <1>1
  <2>. QED
    BY <1>1, <2>1, <2>2
<1>5. n * q \in Int
  BY <1>1
<1>6. -MaxFloat <= q /\ q <= MaxFloat
  BY <1>1, <1>2, <1>3, <1>4, <1>5, StatsAssumption DEF IsFinite
<1>. QED
  BY <1>6 DEF Over, IsFinite, q

\* No result of a round overflows if the number of its votes times the size of
\* the largest number does not.
SmallRoundsAreFinite(b) ==
  \A votes \in results : Len(votes) * b <= MaxFloat =>
    \A st \in NumericStats(votes) :
      \A x \in {st.min, st.max, st.median, st.mean, st.spread} : IsFinite(x)

\* StatsAreFinite fails on some decks.  It holds of every round whose votes are
\* few enough for the size of the deck's numbers (computeStats): as a room
\* admits 100 participants, of a deck whose numbers stay below a hundredth of
\* the largest float64.
THEOREM SmallRoundsStayFinite ==
  ASSUME NEW b \in Nat,
         \A v \in DOMAIN Number : -b <= Number[v] /\ Number[v] <= b
  PROVE  Spec => []SmallRoundsAreFinite(b)
<1>1. TypeOK => SmallRoundsAreFinite(b)
  <2>. SUFFICES ASSUME TypeOK, NEW votes \in results, Len(votes) * b <= MaxFloat,
                       NEW st \in NumericStats(votes)
                PROVE  /\ IsFinite(st.min) /\ IsFinite(st.max) /\ IsFinite(st.median)
                       /\ IsFinite(st.mean) /\ IsFinite(st.spread)
    BY DEF SmallRoundsAreFinite
  <2>. DEFINE n == Cardinality(Numerics(votes))
              s == Nums(votes)
  <2>1. votes \in Seq(Votes)
    BY DEF TypeOK
  <2>2. /\ Numerics(votes) # {} /\ st.min = s[1] /\ st.max = s[n]
        /\ st.median = Median(s) /\ st.spread = Float(st.max - st.min)
        /\ st.mean = Over(FoldLeft(Plus, 0, s), n)
    BY <2>1, StatisticsOfRound
  <2>3. /\ n \in Nat \ {0} /\ s[1] \in Numbers(votes) /\ s[n] \in Numbers(votes)
    BY <2>1, <2>2, ExtremesBound
  <2>4. n <= Len(votes)
    <3>1. Numerics(votes) \subseteq 1..Len(votes) /\ Len(votes) \in Nat
      BY <2>1 DEF Numerics
    <3>2. IsFiniteSet(1..Len(votes)) /\ Cardinality(1..Len(votes)) = Len(votes)
      <4>1. 1 \in Int /\ Len(votes) \in Int
        BY <3>1
      <4>2. /\ IsFiniteSet(1..Len(votes))
            /\ Cardinality(1..Len(votes)) = IF 1 > Len(votes) THEN 0 ELSE Len(votes) - 1 + 1
        BY <4>1, FS_Interval
      <4>. QED
        BY <3>1, <4>2
    <3>. QED
      BY <3>1, <3>2, FS_Subset
  <2>5. n * b <= MaxFloat
    <3>1. n * b <= Len(votes) * b
      BY <2>1, <2>3, <2>4, Multiples
    <3>2. n * b \in Nat /\ Len(votes) * b \in Nat
      BY <2>1, <2>3, Multiples
    <3>. QED
      BY <3>1, <3>2, StatsAssumption
  <2>6. \A x \in Numbers(votes) : x \in Int /\ IsFinite(x) /\ -b <= x /\ x <= b
    <3>1. \A x \in Numbers(votes) : \E v \in DOMAIN Number : x = Number[v]
      BY DEF Numbers, NumberOf, Numerics, IsNumeric
    <3>. QED
      BY <3>1, StatsAssumption DEF IsFinite
  <2>7. /\ DOMAIN s = 1..n /\ Len(s) = n
        /\ \A k \in 1..n : s[k] \in Numbers(votes)
    BY <2>1, NumsAreSorted
  <2>8. IsFinite(st.mean)
    <3>1. \A k \in 1..n : s[k] \in Int /\ -b <= s[k] /\ s[k] <= b
      BY <2>6, <2>7
    <3>. HIDE DEF n, s
    <3>2. IsFinite(FoldLeft(Plus, 0, s)) /\ FoldLeft(Plus, 0, s) \in Int
      BY <2>3, <2>5, <2>7, <3>1, TotalIsBounded
    <3>. QED
      BY <2>2, <2>3, <3>2, OverIsFinite
  <2>9. n >= 2 => 2 * b <= MaxFloat
    <3>1. n >= 2 => 2 * b <= n * b
      BY <2>3, Multiples
    <3>2. n * b \in Nat
      BY <2>3, Multiples
    <3>. QED
      BY <2>5, <3>1, <3>2, StatsAssumption
  <2>10. IsFinite(st.spread)
    <3>1. /\ st.min \in Int /\ -b <= st.min /\ st.min <= b
          /\ st.max \in Int /\ -b <= st.max /\ st.max <= b
      BY <2>2, <2>3, <2>6
    <3>. HIDE DEF n, s
    <3>2. CASE n = 1
      <4>1. st.max - st.min = 0
        BY <2>2, <3>1, <3>2
      <4>. QED
        BY <2>2, <4>1, StatsAssumption DEF Float, IsFinite
    <3>3. CASE n >= 2
      <4>1. IsFinite(st.max - st.min)
        BY <2>9, <3>1, <3>3, StatsAssumption DEF IsFinite
      <4>. QED
        BY <2>2, <4>1 DEF Float
    <3>. QED
      BY <2>3, <3>2, <3>3
  <2>11. IsFinite(st.median)
    <3>1. CASE n = 1
      <4>1. st.median = s[1]
        BY <2>2, <2>7, <3>1 DEF Median
      <4>. QED
        BY <2>3, <2>6, <4>1
    <3>2. CASE n >= 2
      <4>1. SumsAreFinite
        <5>. SUFFICES ASSUME NEW v \in DOMAIN Number, NEW w \in DOMAIN Number
                      PROVE  IsFinite(Number[v] + Number[w])
          BY DEF SumsAreFinite
        <5>1. /\ Number[v] \in Int /\ -b <= Number[v] /\ Number[v] <= b
              /\ Number[w] \in Int /\ -b <= Number[w] /\ Number[w] <= b
          BY StatsAssumption
        <5>. HIDE DEF n, s
        <5>. QED
          BY <2>9, <3>2, <5>1, StatsAssumption DEF IsFinite
      <4>2. PICK k \in 1..n, l \in 1..n : s[k] <= Median(s) /\ Median(s) <= s[l]
        BY <2>1, <2>2, <4>1, MedianInTheMiddle
      <4>3. Median(s) \in Int
        BY <2>1, <2>2, <4>1, MedianInTheMiddle
      <4>4. /\ s[k] \in Int /\ IsFinite(s[k])
            /\ s[l] \in Int /\ IsFinite(s[l])
        BY <2>6, <2>7
      <4>. HIDE DEF n, s
      <4>5. IsFinite(Median(s))
        BY <4>2, <4>3, <4>4, StatsAssumption DEF IsFinite
      <4>. QED
        BY <2>2, <4>5
    <3>. QED
      BY <2>3, <3>1, <3>2
  <2>. QED
    BY <2>2, <2>3, <2>6, <2>8, <2>10, <2>11
<1>. QED
  BY <1>1, DeliberationTypeCorrect, PTL

---------------------------------------------------------------------------
(* Who gets the accuracy awards.                                           *)

\* The index of an option.
LEMMA IndexType ==
  ASSUME NEW v \in Options
  PROVE  Index(v) \in DOMAIN Deck /\ Index(v) \in Int /\ Deck[Index(v)] = v
<1>1. Index(v) \in DOMAIN Deck /\ Deck[Index(v)] = v
  BY DEF Index, Options
<1>2. DOMAIN Deck = 1..Len(Deck) /\ Len(Deck) \in Nat
  BY StatsAssumption
<1>. QED
  BY <1>1, <1>2

\* An option has one index, and the distance to itself only is none.
LEMMA DistanceMeasures ==
  ASSUME NEW v \in Options, NEW w \in Options
  PROVE  /\ Distance(v, w) \in Nat
         /\ Distance(v, w) = 0 <=> v = w
<1>1. /\ Index(v) \in Int /\ Deck[Index(v)] = v
      /\ Index(w) \in Int /\ Deck[Index(w)] = w
  BY IndexType
<1>2. Index(v) = Index(w) <=> v = w
  BY <1>1
<1>. QED
  BY <1>1, <1>2 DEF Distance

\* The awards of a settlement are those of the rounds retained, of which the
\* one on display is the last.
SettledOfRounds ==
  /\ settled # {} => results # {}
  /\ \A s \in settled : \E v \in Options :
       s = [value |-> v, awards |-> ComputeAwards(Retained, v)]

LEMMA SettlementsStandOnRounds == Spec => [](TypeOK /\ SettledOfRounds)
<1>1. Init => SettledOfRounds
  BY DEF Init, SettledOfRounds
<1>2. TypeOK /\ SettledOfRounds /\ [Next]_vars => SettledOfRounds'
  <2>. SUFFICES ASSUME TypeOK, SettledOfRounds, [Next]_vars
                PROVE  SettledOfRounds'
    OBVIOUS
  <2>. USE DEF SettledOfRounds
  <2>1. ASSUME NEW votes, Reveal(votes)
        PROVE  SettledOfRounds'
    BY <2>1 DEF Reveal
  <2>2. CASE StartRound
    BY <2>2 DEF StartRound
  <2>3. ASSUME NEW v \in Options, Settle(v)
        PROVE  SettledOfRounds'
    <3>1. Retained' = Retained
      BY <2>3 DEF Settle, Retained
    <3>2. /\ results # {} /\ results' = results
          /\ settled' = {[value |-> v, awards |-> ComputeAwards(Retained, v)]}
      BY <2>3 DEF Settle
    <3>3. \A s \in settled' : s = [value |-> v, awards |-> ComputeAwards(Retained, v)]
      BY <3>2
    <3>. QED
      BY <3>1, <3>2, <3>3
  <2>4. CASE UNCHANGED vars
    BY <2>4 DEF vars, Retained
  <2>. QED
    BY <2>1, <2>2, <2>3, <2>4 DEF Next
<1>. QED
  BY <1>1, <1>2, DeliberationTypeCorrect, PTL DEF Spec

\* Nearest and furthest in the first round: with distinct names they are
\* different people, and a nearest one who called the value did not come
\* round to it.
LEMMA NearestAndFurthest ==
  ASSUME NEW rounds, NEW v \in Options,
         rounds[1] \in Seq(Votes), Distinct(rounds[1])
  PROVE  /\ Oracles(rounds, v) \cap Outliers(rounds, v) = {}
         /\ (\E i \in DOMAIN rounds[1] : rounds[1][i].value = v) =>
              Oracles(rounds, v) \cap Diplomats(rounds, v) = {}
<1>. DEFINE first == rounds[1]
            firsts == Firsts(rounds, v)
            d(f) == Distance(f.value, v)
<1>1. firsts \subseteq {first[i] : i \in DOMAIN first}
  BY DEF Firsts
<1>2. \A i \in DOMAIN first : first[i].value \in Options
  <2>1. \A votes \in Seq(Votes) : \A i \in DOMAIN votes : votes[i] \in Votes
    OBVIOUS
  <2>2. \A vote \in Votes : vote.value \in Options
    BY DEF Votes
  <2>. QED
    BY <2>1, <2>2
<1>3. \A i \in DOMAIN first : d(first[i]) \in Nat /\ (d(first[i]) = 0 <=> first[i].value = v)
  BY <1>2, DistanceMeasures
<1>4. \A i \in DOMAIN first : first[i].value = v => first[i] \in firsts
  BY DEF Firsts
<1>5. \A i, j \in DOMAIN first : first[i].name = first[j].name => i = j
  BY DEF Distinct
<1>6. /\ Oracles(rounds, v) =
           {f.name : f \in {g \in firsts : \A h \in firsts : d(g) <= d(h)}}
      /\ Outliers(rounds, v) =
           {f.name : f \in {g \in firsts : /\ \A h \in firsts : d(g) >= d(h)
                                           /\ \E h \in firsts : d(g) > d(h)}}
  BY DEF Oracles, Outliers
<1>. HIDE DEF d, firsts
<1>7. ASSUME NEW n \in Oracles(rounds, v), n \in Outliers(rounds, v)
      PROVE  FALSE
  <2>1. PICK f \in firsts : f.name = n /\ \A h \in firsts : d(f) <= d(h)
    BY <1>6
  <2>2. PICK g \in firsts : g.name = n /\ \E h \in firsts : d(g) > d(h)
    BY <1>6, <1>7
  <2>3. PICK h \in firsts : d(g) > d(h)
    BY <2>2
  <2>4. f = g
    BY <1>1, <1>5, <2>1, <2>2
  <2>5. d(g) \in Nat /\ d(h) \in Nat
    BY <1>1, <1>3
  <2>. QED
    BY <2>1, <2>3, <2>4, <2>5
<1>8. ASSUME NEW i \in DOMAIN first, first[i].value = v,
             NEW n \in Oracles(rounds, v), n \in Diplomats(rounds, v)
      PROVE  FALSE
  <2>1. PICK f \in firsts : f.name = n /\ \A h \in firsts : d(f) <= d(h)
    BY <1>6
  <2>2. n \in {first[j].name : j \in {k \in DOMAIN first : first[k].value # v}}
    BY <1>8 DEF Diplomats
  <2>3. PICK j \in DOMAIN first : first[j].value # v /\ first[j].name = n
    BY <2>2
  <2>4. f = first[j]
    BY <1>1, <1>5, <2>1, <2>3
  <2>5. d(first[j]) <= d(first[i]) /\ d(first[i]) = 0
    BY <1>3, <1>4, <1>8, <2>1, <2>4
  <2>6. d(first[j]) = 0
    BY <1>3, <2>5
  <2>. QED
    BY <1>3, <2>3, <2>6
<1>. QED
  BY <1>7, <1>8

\* The rounds a settled room retains are sequences of votes.
LEMMA RetainedRounds ==
  ASSUME TypeOK, results # {}
  PROVE  Retained \in Seq(Seq(Votes)) /\ Retained[1] \in Seq(Votes)
<1>1. (CHOOSE votes \in results : TRUE) \in Seq(Votes)
  BY DEF TypeOK
<1>2. history \in Seq(Seq(Votes))
  BY DEF TypeOK
<1>. QED
  BY <1>1, <1>2 DEF Retained

\* A vote is for an option of the deck.
LEMMA VoteIndex ==
  ASSUME NEW rounds \in Seq(Seq(Votes)), NEW i \in DOMAIN rounds,
         NEW j \in DOMAIN rounds[i], NEW v \in Options
  PROVE  Index(rounds[i][j].value) - Index(v) \in Int
<1>1. rounds[i] \in Seq(Votes)
  OBVIOUS
<1>2. rounds[i][j] \in Votes
  BY <1>1
<1>3. rounds[i][j].value \in Options
  BY <1>2 DEF Votes
<1>4. Index(rounds[i][j].value) \in Int /\ Index(v) \in Int
  BY <1>3, IndexType
<1>. QED
  BY <1>4

\* What somebody leans is an integer, and whoever leans to a side has voted on
\* that side.
LEMMA LeaningIsVoted ==
  ASSUME NEW rounds \in Seq(Seq(Votes)), NEW v \in Options,
         NEW n \in DOMAIN Net(rounds, v)
  PROVE  /\ Net(rounds, v)[n] \in Int
         /\ Net(rounds, v)[n] # 0 =>
              \E i \in DOMAIN rounds : \E j \in DOMAIN rounds[i] :
                /\ rounds[i][j].name = n
                /\ IsNumeric(rounds[i][j].value)
                /\ Net(rounds, v)[n] < 0 => Index(rounds[i][j].value) - Index(v) < 0
                /\ Net(rounds, v)[n] > 0 => Index(rounds[i][j].value) - Index(v) > 0
<1>. DEFINE vote(p) == rounds[p[1]][p[2]]
            steps == [p \in Numeric(rounds) |-> Index(vote(p).value) - Index(v)]
            by == {p \in Numeric(rounds) : vote(p).name = n}
            sum == SumFunctionOnSet(steps, by)
<1>1. Net(rounds, v)[n] = sum
  BY DEF Net
<1>2. \A p \in Numeric(rounds) : /\ p[1] \in DOMAIN rounds /\ p[2] \in DOMAIN rounds[p[1]]
                                 /\ IsNumeric(vote(p).value)
  BY DEF Numeric
<1>3. \A i \in DOMAIN rounds : rounds[i] \in Seq(Votes)
  OBVIOUS
<1>4. IsFiniteSet(Numeric(rounds))
  <2>. DEFINE places == {{i} \X DOMAIN rounds[i] : i \in DOMAIN rounds}
  <2>1. \A i \in DOMAIN rounds : IsFiniteSet({i} \X DOMAIN rounds[i])
    <3>. SUFFICES ASSUME NEW i \in DOMAIN rounds
                  PROVE  IsFiniteSet({i} \X DOMAIN rounds[i])
      OBVIOUS
    <3>1. DOMAIN rounds[i] = 1..Len(rounds[i]) /\ Len(rounds[i]) \in Nat
      BY <1>3
    <3>2. IsFiniteSet({i})
      BY FS_Singleton
    <3>3. IsFiniteSet(1..Len(rounds[i]))
      <4>. DEFINE m == Len(rounds[i])
      <4>1. m \in Int /\ 1 \in Int
        BY <3>1
      <4>. HIDE DEF m
      <4>2. IsFiniteSet(1..m)
        BY <4>1, FS_Interval
      <4>. QED
        BY <4>2 DEF m
    <3>. QED
      BY <3>1, <3>2, <3>3, FS_Product
  <2>2. IsFiniteSet(places)
    <3>1. DOMAIN rounds = 1..Len(rounds) /\ Len(rounds) \in Nat
      OBVIOUS
    <3>2. IsFiniteSet(DOMAIN rounds)
      BY <3>1, FS_Interval
    <3>. DEFINE f == [i \in DOMAIN rounds |-> {i} \X DOMAIN rounds[i]]
    <3>3. f \in Surjection(DOMAIN rounds, places)
      BY DEF Surjection
    <3>. HIDE DEF f, places
    <3>. QED
      BY <3>2, <3>3, FS_Surjection
  <2>3. \A place \in places : IsFiniteSet(place)
    BY <2>1
  <2>4. IsFiniteSet(UNION places)
    <3>. HIDE DEF places
    <3>. QED
      BY <2>2, <2>3, FS_UNION
  <2>5. Numeric(rounds) \subseteq UNION places
    BY DEF Numeric
  <2>. QED
    BY <2>4, <2>5, FS_Subset
<1>5. IsFiniteSet(by)
  BY <1>4, FS_Subset
<1>6. \A p \in by : steps[p] \in Int /\ steps[p] = Index(vote(p).value) - Index(v)
  <2>1. ASSUME NEW p \in by
        PROVE  steps[p] \in Int /\ steps[p] = Index(vote(p).value) - Index(v)
    <3>1. vote(p) \in Votes
      BY <1>2, <1>3
    <3>2. vote(p).value \in Options
      BY <3>1 DEF Votes
    <3>3. Index(vote(p).value) \in Int /\ Index(v) \in Int
      BY <3>2, IndexType
    <3>. QED
      BY <3>3
  <2>. QED
    BY <2>1
<1>7. \A p \in by : vote(p).name = n /\ p \in Numeric(rounds)
  OBVIOUS
<1>. HIDE DEF steps, by
<1>8. /\ sum \in Int
      /\ (\A p \in by : steps[p] >= 0) => sum >= 0
      /\ (\A p \in by : steps[p] <= 0) => sum <= 0
  BY <1>5, <1>6, SumSign
<1>. HIDE DEF sum
<1>9. CASE sum = 0
  BY <1>1, <1>8, <1>9
<1>10. CASE sum < 0
  <2>1. PICK p \in by : ~(steps[p] >= 0)
    BY <1>8, <1>10
  <2>2. Index(vote(p).value) - Index(v) < 0
    BY <1>6, <2>1
  <2>3. /\ p[1] \in DOMAIN rounds /\ p[2] \in DOMAIN rounds[p[1]]
        /\ IsNumeric(vote(p).value) /\ vote(p).name = n
    BY <1>2, <1>7
  <2>. DEFINE i == p[1]
              j == p[2]
  <2>4. /\ i \in DOMAIN rounds /\ j \in DOMAIN rounds[i]
        /\ rounds[i][j].name = n /\ IsNumeric(rounds[i][j].value)
        /\ Index(rounds[i][j].value) - Index(v) < 0
    BY <2>2, <2>3
  <2>5. Net(rounds, v)[n] < 0 /\ ~(Net(rounds, v)[n] > 0)
    BY <1>1, <1>8, <1>10
  <2>. HIDE DEF i, j
  <2>. QED
    BY <1>1, <1>8, <2>4, <2>5
<1>11. CASE sum > 0
  <2>1. PICK p \in by : ~(steps[p] <= 0)
    BY <1>8, <1>11
  <2>2. Index(vote(p).value) - Index(v) > 0
    BY <1>6, <2>1
  <2>3. /\ p[1] \in DOMAIN rounds /\ p[2] \in DOMAIN rounds[p[1]]
        /\ IsNumeric(vote(p).value) /\ vote(p).name = n
    BY <1>2, <1>7
  <2>. DEFINE i == p[1]
              j == p[2]
  <2>4. /\ i \in DOMAIN rounds /\ j \in DOMAIN rounds[i]
        /\ rounds[i][j].name = n /\ IsNumeric(rounds[i][j].value)
        /\ Index(rounds[i][j].value) - Index(v) > 0
    BY <2>2, <2>3
  <2>5. Net(rounds, v)[n] > 0 /\ ~(Net(rounds, v)[n] < 0)
    BY <1>1, <1>8, <1>11
  <2>. HIDE DEF i, j
  <2>. QED
    BY <1>1, <1>8, <2>4, <2>5
<1>. QED
  BY <1>8, <1>9, <1>10, <1>11

\* The awards of a settlement contradict neither each other nor the rounds
\* shown beside them: with distinct names in the first round nobody is both
\* nearest and furthest, nobody comes round to a value that was called exactly
\* by them, and whoever leans to a side of it did vote on that side
\* (computeAwards).
THEOREM AwardsStayConsistent == Spec => []AwardsAreConsistent
<1>1. TypeOK /\ SettledOfRounds => AwardsAreConsistent
  <2>. SUFFICES ASSUME TypeOK, SettledOfRounds, NEW s \in settled
                PROVE  AccuracyIsFair(s) /\ LeaningIsFair(s)
    BY DEF AwardsAreConsistent
  <2>1. PICK v \in Options : s = [value |-> v, awards |-> ComputeAwards(Retained, v)]
    BY DEF SettledOfRounds
  <2>2. Retained \in Seq(Seq(Votes)) /\ Retained[1] \in Seq(Votes)
    BY RetainedRounds DEF SettledOfRounds
  <2>3. /\ s.value = v
        /\ s.awards.oracle = Oracles(Retained, v)
        /\ s.awards.saw_something = Outliers(Retained, v)
        /\ s.awards.diplomat = Diplomats(Retained, v)
    BY <2>1 DEF ComputeAwards
  <2>4. AccuracyIsFair(s)
    BY <2>2, <2>3, NearestAndFurthest DEF AccuracyIsFair
  <2>. DEFINE net == Net(Retained, v)
  <2>5. /\ s.awards.optimist \subseteq {n \in DOMAIN net : net[n] < 0}
        /\ s.awards.pessimist \subseteq {n \in DOMAIN net : net[n] > 0}
    BY <2>1 DEF ComputeAwards, Optimists, Pessimists
  <2>6. \A n \in DOMAIN net : net[n] \in Int
    BY <2>2, LeaningIsVoted
  <2>7. ASSUME NEW n \in DOMAIN net, net[n] < 0
        PROVE  Leaned(n, v, -1)
    <3>1. PICK i \in DOMAIN Retained : \E j \in DOMAIN Retained[i] :
            /\ Retained[i][j].name = n
            /\ IsNumeric(Retained[i][j].value)
            /\ Index(Retained[i][j].value) - Index(v) < 0
      BY <2>2, <2>6, <2>7, LeaningIsVoted
    <3>2. PICK j \in DOMAIN Retained[i] :
            /\ Retained[i][j].name = n
            /\ IsNumeric(Retained[i][j].value)
            /\ Index(Retained[i][j].value) - Index(v) < 0
      BY <3>1
    <3>3. (-1) * (Index(Retained[i][j].value) - Index(v)) > 0
      BY <3>2, <2>2, VoteIndex
    <3>. QED
      BY <3>2, <3>3 DEF Leaned
  <2>8. ASSUME NEW n \in DOMAIN net, net[n] > 0
        PROVE  Leaned(n, v, 1)
    <3>1. PICK i \in DOMAIN Retained : \E j \in DOMAIN Retained[i] :
            /\ Retained[i][j].name = n
            /\ IsNumeric(Retained[i][j].value)
            /\ Index(Retained[i][j].value) - Index(v) > 0
      BY <2>2, <2>6, <2>8, LeaningIsVoted
    <3>2. PICK j \in DOMAIN Retained[i] :
            /\ Retained[i][j].name = n
            /\ IsNumeric(Retained[i][j].value)
            /\ Index(Retained[i][j].value) - Index(v) > 0
      BY <3>1
    <3>3. 1 * (Index(Retained[i][j].value) - Index(v)) > 0
      BY <3>2, <2>2, VoteIndex
    <3>. QED
      BY <3>2, <3>3 DEF Leaned
  <2>. HIDE DEF net
  <2>9. s.awards.optimist \cap s.awards.pessimist = {}
    BY <2>5, <2>6
  <2>10. ASSUME \A i \in DOMAIN Retained : \A j \in DOMAIN Retained[i] :
                  Retained[i][j].value = v
         PROVE  \A n : ~Leaned(n, v, -1) /\ ~Leaned(n, v, 1)
    <3>1. Index(v) - Index(v) = 0
      BY IndexType
    <3>2. ~((-1) * (Index(v) - Index(v)) > 0) /\ ~(1 * (Index(v) - Index(v)) > 0)
      BY <3>1
    <3>. QED
      BY <2>10, <3>2 DEF Leaned
  <2>11. LeaningIsFair(s)
    BY <2>3, <2>5, <2>7, <2>8, <2>9, <2>10 DEF LeaningIsFair
  <2>. QED
    BY <2>4, <2>11
<1>. QED
  BY <1>1, SettlementsStandOnRounds, PTL

---------------------------------------------------------------------------
(* Which round decides.                                                    *)

\* The ring holds the last of the finished rounds, as many as it can.
RingIsRecent ==
  /\ Len(history) = IF Len(past) < HistoryLen THEN Len(past) ELSE HistoryLen
  /\ \A i \in 1..Len(history) : history[i] = past[Len(past) - Len(history) + i]

LEMMA RingStaysRecent == Spec => []RingIsRecent
<1>1. Init => RingIsRecent
  BY DeliberationAssumption DEF Init, RingIsRecent
<1>2. TypeOK /\ RingIsRecent /\ [Next]_vars => RingIsRecent'
  <2>. SUFFICES ASSUME TypeOK, RingIsRecent, [Next]_vars
                PROVE  RingIsRecent'
    OBVIOUS
  <2>1. ASSUME UNCHANGED <<history, past>>
        PROVE  RingIsRecent'
    BY <2>1 DEF RingIsRecent
  <2>2. CASE StartRound
    <3>1. PICK votes \in results :
            LET all == Append(history, votes) IN
            /\ history' = IF Len(all) > HistoryLen THEN Tail(all) ELSE all
            /\ past' = Append(past, votes)
      BY <2>2 DEF StartRound
    <3>. DEFINE all == Append(history, votes)
                h == Len(history)
                k == Len(past)
    <3>2. /\ history \in Seq(Seq(Votes)) /\ past \in Seq(Seq(Votes)) /\ votes \in Seq(Votes)
          /\ h \in Nat /\ k \in Nat /\ h <= HistoryLen /\ HistoryLen \in Nat /\ HistoryLen > 0
      BY DeliberationAssumption DEF TypeOK
    <3>3. /\ all \in Seq(Seq(Votes)) /\ Len(all) = h + 1 /\ all[h + 1] = votes
          /\ \A i \in 1..h : all[i] = history[i]
      BY <3>2
    <3>4. /\ Len(past') = k + 1 /\ past'[k + 1] = votes
          /\ \A i \in 1..k : past'[i] = past[i]
      BY <3>1, <3>2
    <3>5. /\ h = IF k < HistoryLen THEN k ELSE HistoryLen
          /\ \A i \in 1..h : history[i] = past[k - h + i]
      BY DEF RingIsRecent
    <3>6. \A i \in 1..(h + 1) : all[i] = past'[k - h + i]
      <4>. SUFFICES ASSUME NEW i \in 1..(h + 1)
                    PROVE  all[i] = past'[k - h + i]
        OBVIOUS
      <4>. HIDE DEF all, h, k
      <4>1. CASE i = h + 1
        <5>1. k - h + i = k + 1
          BY <3>2, <4>1
        <5>. QED
          BY <3>3, <3>4, <4>1, <5>1
      <4>2. CASE i \in 1..h
        <5>1. k - h + i \in 1..k
          BY <3>2, <3>5, <4>2
        <5>. QED
          BY <3>3, <3>4, <3>5, <4>2, <5>1
      <4>. QED
        BY <3>2, <4>1, <4>2
    <3>7. history' = IF h + 1 > HistoryLen THEN Tail(all) ELSE all
      BY <3>1, <3>3
    <3>8. /\ Tail(all) \in Seq(Seq(Votes)) /\ Len(Tail(all)) = h
          /\ \A i \in 1..h : Tail(all)[i] = all[i + 1]
      <4>. HIDE DEF all, h
      <4>1. all # <<>>
        BY <3>2, <3>3
      <4>. QED
        BY <3>2, <3>3, <4>1, HeadTailProperties
    <3>. HIDE DEF all, h, k
    <3>9. CASE h + 1 > HistoryLen
      <4>1. history' = Tail(all) /\ Len(history') = h /\ h = HistoryLen
        BY <3>2, <3>7, <3>8, <3>9
      <4>2. ASSUME NEW i \in 1..h
            PROVE  history'[i] = past'[(k + 1) - h + i]
        <5>1. i + 1 \in 1..(h + 1) /\ k - h + (i + 1) = (k + 1) - h + i
          BY <3>2
        <5>. QED
          BY <3>6, <3>8, <4>1, <5>1
      <4>3. ~(k + 1 < HistoryLen)
        BY <3>2, <3>5, <4>1
      <4>4. Len(history') = IF Len(past') < HistoryLen THEN Len(past') ELSE HistoryLen
        BY <3>4, <4>1, <4>3
      <4>5. Len(past') - Len(history') = (k + 1) - h
        <5>1. Len(past') = k + 1 /\ Len(history') = h
          BY <3>4, <4>1
        <5>. QED
          BY <5>1, Zenon
      <4>6. \A i \in 1..Len(history') : history'[i] = past'[Len(past') - Len(history') + i]
        BY <4>1, <4>2, <4>5
      <4>. QED
        BY <4>4, <4>6 DEF RingIsRecent
    <3>10. CASE ~(h + 1 > HistoryLen)
      <4>1. history' = all /\ Len(history') = h + 1 /\ h = k
        BY <3>2, <3>3, <3>5, <3>7, <3>10
      <4>3. k + 1 = IF k + 1 < HistoryLen THEN k + 1 ELSE HistoryLen
        BY <3>2, <3>10, <4>1
      <4>4. Len(history') = IF Len(past') < HistoryLen THEN Len(past') ELSE HistoryLen
        BY <3>4, <4>1, <4>3
      <4>5. Len(past') - Len(history') = k - h
        BY <3>2, <3>4, <4>1
      <4>6. \A i \in 1..Len(history') : history'[i] = past'[Len(past') - Len(history') + i]
        BY <3>6, <4>1, <4>5
      <4>. QED
        BY <4>4, <4>6 DEF RingIsRecent
    <3>. QED
      BY <3>9, <3>10
  <2>. QED
    BY <2>1, <2>2 DEF Next, Reveal, Settle, vars
<1>. QED
  BY <1>1, <1>2, DeliberationTypeCorrect, PTL DEF Spec

\* The first of the rounds retained is the one that should decide.
LEMMA FirstRetainedDecides ==
  ASSUME TypeOK, RingIsRecent, NEW votes \in results
  PROVE  /\ Retained[1] = Deciding(votes)
         /\ Retained[Len(Retained)] = votes
         /\ Len(Retained) \in Nat
<1>. DEFINE all == Append(past, votes)
            h == Len(history)
            k == Len(past)
<1>1. Retained = Append(history, votes)
  BY DEF TypeOK, Retained
<1>2. /\ history \in Seq(Seq(Votes)) /\ past \in Seq(Seq(Votes)) /\ votes \in Seq(Votes)
      /\ h \in Nat /\ k \in Nat /\ h <= HistoryLen /\ HistoryLen \in Nat /\ HistoryLen > 0
  BY DeliberationAssumption DEF TypeOK
<1>3. /\ Retained \in Seq(Seq(Votes)) /\ Len(Retained) = h + 1 /\ Retained[h + 1] = votes
      /\ \A i \in 1..h : Retained[i] = history[i]
  BY <1>1, <1>2
<1>4. /\ Len(all) = k + 1 /\ all[k + 1] = votes
      /\ \A i \in 1..k : all[i] = past[i]
  BY <1>2
<1>5. /\ h = IF k < HistoryLen THEN k ELSE HistoryLen
      /\ \A i \in 1..h : history[i] = past[k - h + i]
  BY DEF RingIsRecent
<1>6. Deciding(votes) = all[IF k + 1 > HistoryLen THEN (k + 1) - HistoryLen ELSE 1]
  <2>1. Deciding(votes) = all[IF Len(all) > HistoryLen THEN Len(all) - HistoryLen ELSE 1]
    BY DEF Deciding
  <2>2. Len(all) = k + 1
    BY <1>4
  <2>. HIDE DEF all, k
  <2>. QED
    BY <2>1, <2>2, Zenon
<1>. HIDE DEF all, h, k
<1>7. CASE h = 0
  <2>1. k = 0 /\ ~(k + 1 > HistoryLen)
    BY <1>2, <1>5, <1>7
  <2>. QED
    BY <1>3, <1>4, <1>6, <1>7, <2>1
<1>8. CASE h # 0
  <2>1. 1 \in 1..h /\ k - h + 1 \in 1..k
    BY <1>2, <1>5, <1>8
  <2>2. Retained[1] = all[k - h + 1]
    BY <1>3, <1>4, <1>5, <2>1
  <2>3. k - h + 1 = IF k + 1 > HistoryLen THEN (k + 1) - HistoryLen ELSE 1
    BY <1>2, <1>5
  <2>. QED
    BY <1>2, <1>3, <1>6, <2>2, <2>3
<1>. QED
  BY <1>7, <1>8

\* The accuracy awards are those of the first round: of whoever called the
\* value in it, else of its nearest and furthest, and the furthest did not.
LEMMA AccuracyOfTheFirst ==
  ASSUME NEW rounds, rounds[1] \in Seq(Votes), rounds[Len(rounds)] \in Seq(Votes),
         NEW s, s.value \in Options, s.awards = ComputeAwards(rounds, s.value)
  PROVE  Anchored(s, rounds[1], rounds[Len(rounds)])
<1>. DEFINE v == s.value
            first == rounds[1]
            last == rounds[Len(rounds)]
            Under(S) == {first[i].name : i \in S}
            called == {i \in DOMAIN first : first[i].value = v}
            missed == DOMAIN first \ called
            firsts == Firsts(rounds, v)
            d(f) == Distance(f.value, v)
<1>1. firsts \subseteq {first[i] : i \in DOMAIN first}
  BY DEF Firsts
<1>2. \A i \in DOMAIN first : first[i].value \in Options
  <2>1. \A votes \in Seq(Votes) : \A i \in DOMAIN votes : votes[i] \in Votes
    OBVIOUS
  <2>2. \A vote \in Votes : vote.value \in Options
    BY DEF Votes
  <2>. QED
    BY <2>1, <2>2
<1>3. \A i \in DOMAIN first : d(first[i]) \in Nat /\ (d(first[i]) = 0 <=> first[i].value = v)
  BY <1>2, DistanceMeasures
<1>4. \A i \in DOMAIN first : first[i].value = v => first[i] \in firsts
  BY DEF Firsts
<1>5. /\ Oracles(rounds, v) =
           {f.name : f \in {g \in firsts : \A h \in firsts : d(g) <= d(h)}}
      /\ Outliers(rounds, v) =
           {f.name : f \in {g \in firsts : /\ \A h \in firsts : d(g) >= d(h)
                                           /\ \E h \in firsts : d(g) > d(h)}}
  BY DEF Oracles, Outliers
<1>6. Diplomats(rounds, v) \subseteq {first[i].name : i \in {j \in DOMAIN first : first[j].value # v}}
  BY DEF Diplomats
<1>. HIDE DEF d, firsts
<1>7. Oracles(rounds, v) \cup Outliers(rounds, v) \subseteq Under(DOMAIN first)
  BY <1>1, <1>5
<1>8. ASSUME called # {}
      PROVE  Oracles(rounds, v) = Under(called)
  <2>1. PICK c \in DOMAIN first : first[c].value = v
    BY <1>8
  <2>2. ASSUME NEW n \in Oracles(rounds, v)
        PROVE  n \in Under(called)
    <3>1. PICK f \in firsts : f.name = n /\ \A h \in firsts : d(f) <= d(h)
      BY <1>5
    <3>2. PICK i \in DOMAIN first : f = first[i]
      BY <1>1
    <3>3. d(first[i]) <= d(first[c]) /\ d(first[c]) = 0
      BY <1>3, <1>4, <2>1, <3>1, <3>2
    <3>4. first[i].value = v
      BY <1>3, <3>3
    <3>. QED
      BY <3>1, <3>2, <3>4
  <2>3. ASSUME NEW i \in called
        PROVE  first[i].name \in Oracles(rounds, v)
    <3>1. first[i] \in firsts /\ d(first[i]) = 0
      BY <1>3, <1>4
    <3>2. \A h \in firsts : d(h) \in Nat
      BY <1>1, <1>3
    <3>3. \A h \in firsts : d(first[i]) <= d(h)
      BY <3>1, <3>2
    <3>. QED
      BY <1>5, <3>1, <3>3
  <2>. QED
    BY <2>2, <2>3
<1>9. ASSUME NEW n \in Outliers(rounds, v)
      PROVE  n \in Under(missed)
  <2>1. PICK f \in firsts : f.name = n /\ \E h \in firsts : d(f) > d(h)
    BY <1>5
  <2>2. PICK h \in firsts : d(f) > d(h)
    BY <2>1
  <2>3. PICK i \in DOMAIN first : f = first[i]
    BY <1>1
  <2>4. d(first[i]) \in Nat /\ d(h) \in Nat
    BY <1>1, <1>3
  <2>5. first[i].value # v
    BY <1>3, <2>2, <2>3, <2>4
  <2>. QED
    BY <2>1, <2>3, <2>5
<1>10. Diplomats(rounds, v) \subseteq Under(missed)
  BY <1>6
<1>11. ASSUME NEW n \in Diplomats(rounds, v)
       PROVE  \E j \in DOMAIN last : last[j] = [name |-> n, value |-> v]
  <2>1. PICK j \in DOMAIN last : last[j].value = v /\ last[j].name = n
    BY <1>11 DEF Diplomats
  <2>2. last[j] \in Votes
    OBVIOUS
  <2>. QED
    BY <2>1, <2>2 DEF Votes
<1>12. /\ s.awards.oracle = Oracles(rounds, v)
       /\ s.awards.saw_something = Outliers(rounds, v)
       /\ s.awards.diplomat = Diplomats(rounds, v)
  BY DEF ComputeAwards
<1>. QED
  BY <1>7, <1>8, <1>9, <1>10, <1>11, <1>12 DEF Anchored

\* Over every ring of rounds, and whatever was voted since, the round that
\* decides the awards of a settlement is the earliest the ring retained:
\* whoever called the value in it is an Oracle, nobody else gets an accuracy
\* award for a later vote, and the Diplomats changed theirs (computeAwards,
\* StartRound).
THEOREM AccuracyStaysAnchored == Spec => []AccuracyIsAnchored
<1>1. TypeOK /\ SettledOfRounds /\ RingIsRecent => AccuracyIsAnchored
  <2>. SUFFICES ASSUME TypeOK, SettledOfRounds, RingIsRecent,
                       NEW s \in settled, NEW votes \in results
                PROVE  Anchored(s, Deciding(votes), votes)
    BY DEF AccuracyIsAnchored
  <2>1. s.value \in Options /\ s.awards = ComputeAwards(Retained, s.value)
    BY DEF SettledOfRounds
  <2>2. Retained[1] \in Seq(Votes) /\ votes \in Seq(Votes)
    BY RetainedRounds DEF TypeOK
  <2>3. Retained[1] = Deciding(votes) /\ Retained[Len(Retained)] = votes
    BY FirstRetainedDecides
  <2>4. Anchored(s, Retained[1], Retained[Len(Retained)])
    BY <2>1, <2>2, <2>3, AccuracyOfTheFirst
  <2>. QED
    BY <2>3, <2>4
<1>. QED
  BY <1>1, SettlementsStandOnRounds, RingStaysRecent, PTL
===========================================================================
