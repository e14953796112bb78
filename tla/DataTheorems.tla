--------------------------- MODULE DataTheorems ---------------------------
(***************************************************************************)
(* What the operators on maps return, for every map, what the channels of  *)
(* subscribers hold after a send and a receive, and which smallest elements *)
(* finite sets have.                                                       *)
(***************************************************************************)
EXTENDS Integers, Sequences, Maps, FiniteSetTheorems, WellFoundedInduction, TLAPS

\* Assigning to a map keeps its type and adds one key.
LEMMA AssignType ==
  ASSUME NEW S, NEW T, NEW m \in PartialFns(S, T), NEW k \in S, NEW v \in T
  PROVE  /\ Assign(m, k, v) \in PartialFns(S, T)
         /\ DOMAIN Assign(m, k, v) = DOMAIN m \cup {k}
         /\ Assign(m, k, v)[k] = v
         /\ \A x \in DOMAIN m \ {k} : Assign(m, k, v)[x] = m[x]
<1>1. PICK X \in SUBSET S : m \in [X -> T]
  BY DEF PartialFns
<1>. DEFINE f == [x \in X \cup {k} |-> IF x = k THEN v ELSE m[x]]
<1>2. f \in [X \cup {k} -> T] /\ X \cup {k} \in SUBSET S
  BY <1>1
<1>3. f \in PartialFns(S, T)
  BY <1>2 DEF PartialFns
<1>4. Assign(m, k, v) = f /\ DOMAIN m = X
  BY <1>1 DEF Assign
<1>. QED
  BY <1>3, <1>4

\* Restricting a map to some of its keys keeps its type and its values.
LEMMA RestrictType ==
  ASSUME NEW S, NEW T, NEW m \in PartialFns(S, T), NEW K \in SUBSET DOMAIN m
  PROVE  /\ Restrict(m, K) \in PartialFns(S, T)
         /\ DOMAIN Restrict(m, K) = K
         /\ \A x \in K : Restrict(m, K)[x] = m[x]
<1>1. PICK X \in SUBSET S : m \in [X -> T]
  BY DEF PartialFns
<1>2. Restrict(m, K) \in [K -> T] /\ K \in SUBSET S
  BY <1>1 DEF Restrict
<1>. QED
  BY <1>2 DEF PartialFns, Restrict

\* Deleting a key keeps the type and the other values.
LEMMA WithoutType ==
  ASSUME NEW S, NEW T, NEW m \in PartialFns(S, T), NEW k
  PROVE  /\ Without(m, k) \in PartialFns(S, T)
         /\ DOMAIN Without(m, k) = DOMAIN m \ {k}
         /\ \A x \in DOMAIN m \ {k} : Without(m, k)[x] = m[x]
<1>1. DOMAIN m \ {k} \in SUBSET DOMAIN m
  OBVIOUS
<1>. QED
  BY <1>1, RestrictType DEF Without

\* A map stays one when more values are allowed.
LEMMA WiderType ==
  ASSUME NEW S, NEW T, NEW U, T \subseteq U, NEW m \in PartialFns(S, T)
  PROVE  m \in PartialFns(S, U)
<1>1. PICK X \in SUBSET S : m \in [X -> T]
  BY DEF PartialFns
<1>2. m \in [X -> U]
  BY <1>1
<1>. QED
  BY <1>1, <1>2 DEF PartialFns

\* The keys and the values of a map.
LEMMA KeysAndValues ==
  ASSUME NEW S, NEW T, NEW m \in PartialFns(S, T)
  PROVE  DOMAIN m \subseteq S /\ \A k \in DOMAIN m : m[k] \in T
  BY DEF PartialFns

\* Restricting a map to a superset of its keys changes nothing.
LEMMA RestrictAll ==
  ASSUME NEW S, NEW T, NEW m \in PartialFns(S, T), NEW K, DOMAIN m \subseteq K
  PROVE  Restrict(m, DOMAIN m \cap K) = m
<1>1. DOMAIN m \cap K = DOMAIN m
  OBVIOUS
<1>. QED
  BY <1>1 DEF PartialFns, Restrict

\* The empty map is a map of every type.
LEMMA EmptyMap ==
  ASSUME NEW S, NEW T
  PROVE  <<>> \in PartialFns(S, T) /\ DOMAIN <<>> = {}
<1>1. <<>> \in [{} -> T] /\ DOMAIN <<>> = {}
  OBVIOUS
<1>. QED
  BY <1>1 DEF PartialFns

---------------------------------------------------------------------------
(* Channels as sequences of events with numbers.                           *)

Elements(q) == {q[i] : i \in DOMAIN q}
Sorted(q) == \A i, j \in DOMAIN q : i < j => q[i].id < q[j].id

\* What a receive leaves in a channel.
LEMMA TailElements ==
  ASSUME NEW E, NEW q \in Seq(E), q # <<>>
  PROVE  /\ Tail(q) \in Seq(E) /\ Len(Tail(q)) <= Len(q)
         /\ Head(q) \in E /\ Head(q) \in Elements(q)
         /\ Elements(q) = {Head(q)} \cup Elements(Tail(q))
         /\ Sorted(q) => /\ Sorted(Tail(q))
                         /\ \A e \in Elements(Tail(q)) : Head(q).id < e.id
<1>1. /\ Len(q) \in Nat /\ Len(q) >= 1 /\ DOMAIN q = 1..Len(q) /\ Head(q) = q[1]
  OBVIOUS
<1>2. /\ Tail(q) \in Seq(E) /\ Len(Tail(q)) = Len(q) - 1
      /\ DOMAIN Tail(q) = 1..(Len(q) - 1)
      /\ \A i \in 1..(Len(q) - 1) : Tail(q)[i] = q[i + 1]
  BY <1>1
<1>3. \A i \in 1..(Len(q) - 1) : i + 1 \in DOMAIN q /\ 1 < i + 1
  BY <1>1
<1>4. \A i \in DOMAIN q : i = 1 \/ (i - 1 \in 1..(Len(q) - 1) /\ (i - 1) + 1 = i)
  BY <1>1
<1>. DEFINE t == Tail(q)
<1>5. t \in Seq(E) /\ DOMAIN t = 1..(Len(q) - 1) /\ \A i \in DOMAIN t : t[i] = q[i + 1]
  BY <1>2
<1>6. Len(t) <= Len(q)
  BY <1>1, <1>2
<1>. HIDE DEF t
<1>7. 1 \in DOMAIN q
  BY <1>1
<1>8. Elements(q) = {q[1]} \cup Elements(t)
  <2>1. ASSUME NEW i \in DOMAIN q
        PROVE  q[i] \in {q[1]} \cup Elements(t)
    <3>1. CASE i = 1
      BY <3>1
    <3>2. CASE i - 1 \in DOMAIN t /\ (i - 1) + 1 = i
      BY <1>5, <3>2 DEF Elements
    <3>. QED
      BY <1>4, <1>5, <3>1, <3>2
  <2>2. ASSUME NEW i \in DOMAIN t
        PROVE  t[i] \in Elements(q)
    BY <1>3, <1>5 DEF Elements
  <2>3. q[1] \in Elements(q)
    BY <1>7 DEF Elements
  <2>. QED
    BY <2>1, <2>2, <2>3 DEF Elements
<1>9. ASSUME Sorted(q)
      PROVE  Sorted(t) /\ \A e \in Elements(t) : q[1].id < e.id
  <2>1. ASSUME NEW i \in DOMAIN t, NEW j \in DOMAIN t, i < j
        PROVE  t[i].id < t[j].id
    <3>1. i + 1 \in DOMAIN q /\ j + 1 \in DOMAIN q /\ i + 1 < j + 1
      BY <1>1, <1>3, <1>5, <2>1
    <3>. QED
      BY <1>5, <1>9, <3>1 DEF Sorted
  <2>2. ASSUME NEW i \in DOMAIN t
        PROVE  q[1].id < t[i].id
    <3>1. i + 1 \in DOMAIN q /\ 1 < i + 1
      BY <1>3, <1>5
    <3>. QED
      BY <1>5, <1>7, <1>9, <3>1 DEF Sorted
  <2>. QED
    BY <2>1, <2>2 DEF Sorted, Elements
<1>10. q[1] \in E
  BY <1>7
<1>. QED
  BY <1>1, <1>5, <1>6, <1>8, <1>9, <1>10 DEF t

\* What a send adds to it.
LEMMA AppendElements ==
  ASSUME NEW E, NEW q \in Seq(E), NEW e \in E
  PROVE  /\ Append(q, e) \in Seq(E) /\ Len(Append(q, e)) = Len(q) + 1
         /\ Elements(Append(q, e)) = Elements(q) \cup {e}
         /\ Sorted(q) /\ (\A x \in Elements(q) : x.id < e.id) => Sorted(Append(q, e))
<1>. DEFINE a == Append(q, e)
            n == Len(q)
<1>1. n \in Nat /\ DOMAIN q = 1..n
  OBVIOUS
<1>2. a \in Seq(E) /\ Len(a) = n + 1 /\ DOMAIN a = 1..(n + 1)
  OBVIOUS
<1>3. a[n + 1] = e /\ \A i \in 1..n : a[i] = q[i]
  BY <1>1
<1>. HIDE DEF a, n
<1>4. \A i \in 1..(n + 1) : i = n + 1 \/ i \in 1..n
  BY <1>1
<1>5. n + 1 \in 1..(n + 1) /\ \A i \in 1..n : i \in 1..(n + 1) /\ i < n + 1
  BY <1>1
<1>6. Elements(a) = Elements(q) \cup {e}
  BY <1>1, <1>2, <1>3, <1>4, <1>5 DEF Elements
<1>7. ASSUME Sorted(q), \A x \in Elements(q) : x.id < e.id,
             NEW i \in DOMAIN a, NEW j \in DOMAIN a, i < j
      PROVE  a[i].id < a[j].id
  <2>1. i \in 1..n
    BY <1>1, <1>2, <1>7
  <2>2. CASE j \in 1..n
    BY <1>1, <1>3, <1>7, <2>1, <2>2 DEF Sorted
  <2>3. CASE j = n + 1
    <3>1. q[i] \in Elements(q)
      BY <1>1, <2>1 DEF Elements
    <3>. QED
      BY <1>3, <1>7, <2>1, <2>3, <3>1
  <2>. QED
    BY <1>2, <1>4, <2>2, <2>3
<1>8. Sorted(q) /\ (\A x \in Elements(q) : x.id < e.id) => Sorted(a)
  BY <1>7 DEF Sorted
<1>. QED
  BY <1>2, <1>6, <1>8 DEF a, n

\* A channel that has nothing, and one that has one event.
LEMMA ShortQueues ==
  /\ Len(<<>>) = 0 /\ Elements(<<>>) = {} /\ Sorted(<<>>) /\ \A E : <<>> \in Seq(E)
  /\ \A e : Len(<<e>>) = 1 /\ Elements(<<e>>) = {e} /\ Sorted(<<e>>)
<1>1. Len(<<>>) = 0 /\ DOMAIN <<>> = {} /\ \A E : <<>> \in Seq(E)
  OBVIOUS
<1>2. Elements(<<>>) = {} /\ Sorted(<<>>)
  BY <1>1 DEF Elements, Sorted
<1>3. ASSUME NEW e
      PROVE  Len(<<e>>) = 1 /\ Elements(<<e>>) = {e} /\ Sorted(<<e>>)
  <2>1. Len(<<e>>) = 1 /\ DOMAIN <<e>> = {1} /\ <<e>>[1] = e
    OBVIOUS
  <2>2. Elements(<<e>>) = {e}
    BY <2>1 DEF Elements
  <2>3. Sorted(<<e>>)
    BY <2>1 DEF Sorted
  <2>. QED
    BY <2>1, <2>2, <2>3
<1>. QED
  BY <1>1, <1>2, <1>3

---------------------------------------------------------------------------
(* Finite sets.  Induction over a finite set is by its smallest subset     *)
(* without a property.                                                     *)

\* A set of subsets of a finite set has a smallest.
LEMMA SmallestSubset ==
  ASSUME NEW S, IsFiniteSet(S), NEW B \in SUBSET SUBSET S, B # {}
  PROVE  \E T \in B : \A U \in B : U \subseteq T => U = T
<1>1. B \subseteq FiniteSubsetsOf(S)
  BY FS_Subset DEF FiniteSubsetsOf
<1>2. PICK T \in B : \A U \in B : <<U, T>> \notin StrictSubsetOrdering(S)
  BY <1>1, WFMin, FS_StrictSubsetOrderingWellFounded
<1>3. ASSUME NEW U \in B, U \subseteq T, U # T
      PROVE  FALSE
  <2>1. <<U, T>> \in StrictSubsetOrdering(S)
    BY <1>3 DEF StrictSubsetOrdering
  <2>. QED
    BY <1>2, <2>1
<1>. QED
  BY <1>3

\* Of finitely many integers one is the least.
LEMMA LeastExists ==
  ASSUME NEW C, IsFiniteSet(C), C # {}, \A c \in C : c \in Int
  PROVE  \E c \in C : \A d \in C : c <= d
<1>. DEFINE upTo == [c \in C |-> {d \in C : d <= c}]
            B == {upTo[c] : c \in C}
<1>0. B \in SUBSET SUBSET C
  OBVIOUS
<1>1. B # {}
  OBVIOUS
<1>2. PICK T \in B : \A U \in B : U \subseteq T => U = T
  <2>1. IsFiniteSet(C)
    OBVIOUS
  <2>. HIDE DEF B, upTo
  <2>. QED
    BY <1>0, <1>1, <2>1, SmallestSubset
<1>3. PICK c \in C : T = upTo[c]
  OBVIOUS
<1>4. ASSUME NEW d \in C, d < c
      PROVE  FALSE
  <2>1. c \in Int /\ d \in Int
    OBVIOUS
  <2>2. \A e \in C : e <= d => e <= c
    <3>. TAKE e \in C
    <3>1. e \in Int
      OBVIOUS
    <3>. QED
      BY <1>4, <2>1, <3>1
  <2>3. c <= c /\ ~(c <= d)
    BY <1>4, <2>1
  <2>4. upTo[d] \subseteq upTo[c] /\ c \in upTo[c] /\ c \notin upTo[d]
    BY <2>2, <2>3
  <2>5. upTo[d] \in B
    OBVIOUS
  <2>. QED
    BY <1>2, <1>3, <2>4, <2>5
<1>5. \A d \in C : c <= d
  <2>. TAKE d \in C
  <2>1. c \in Int /\ d \in Int
    OBVIOUS
  <2>. QED
    BY <1>4, <2>1
<1>. QED
  BY <1>5
===========================================================================
