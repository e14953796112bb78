------------------------- MODULE RateLimitProofs -------------------------
(***************************************************************************)
(* Theorems about RateLimit, for every set of addresses, every rate and    *)
(* every size at which the limiter prunes.                                 *)
(***************************************************************************)
EXTENDS RateLimit, DataTheorems, SequenceTheorems

LEMMA BurstType == Burst \in Nat /\ TicksPerToken <= Burst
  BY RateLimitAssumption DEF Burst

LEMMA InitType == Init => TypeOK
<1>. SUFFICES ASSUME Init PROVE TypeOK
  OBVIOUS
<1>1. buckets \in PartialFns(IPs, Buckets) /\ DOMAIN buckets = {}
  BY EmptyMap DEF Init
<1>2. grants \in [IPs -> Seq(0..MaxTime)]
  BY DEF Init
<1>3. now \in 0..MaxTime
  BY RateLimitAssumption DEF Init
<1>. QED
  BY <1>1, <1>2, <1>3 DEF TypeOK

\* A bucket that is kept holds between nothing and the burst.
LEMMA RefilledType ==
  ASSUME TypeOK, NEW ip \in DOMAIN buckets
  PROVE  /\ buckets[ip] \in Buckets
         /\ buckets[ip].last <= now
         /\ Refilled(buckets[ip]) \in 0..Burst
<1>1. buckets[ip] \in Buckets
  BY KeysAndValues DEF TypeOK
<1>2. buckets[ip].last <= now
  BY DEF TypeOK
<1>3. /\ buckets[ip].tokens \in Nat /\ buckets[ip].last \in Nat
      /\ now \in Nat
  BY <1>1, BurstType, RateLimitAssumption DEF Buckets, TypeOK
<1>. QED
  BY <1>1, <1>2, <1>3, BurstType DEF Refilled

LEMMA FoundType ==
  ASSUME TypeOK, NEW ip \in IPs
  PROVE  Found(ip) \in 0..Burst
  BY RefilledType, BurstType DEF Found

\* What allow goes on with: it forgets only buckets that are full.
LEMMA KeptBuckets ==
  ASSUME TypeOK, NEW ip \in IPs
  PROVE  /\ Kept(ip) \in PartialFns(IPs, Buckets)
         /\ DOMAIN Kept(ip) \subseteq DOMAIN buckets
         /\ \A q \in DOMAIN Kept(ip) : Kept(ip)[q] = buckets[q]
         /\ \A q \in DOMAIN buckets \ DOMAIN Kept(ip) : Refilled(buckets[q]) = Burst
<1>. DEFINE K == {q \in DOMAIN buckets : Refilled(buckets[q]) < Burst}
<1>1. buckets \in PartialFns(IPs, Buckets)
  BY DEF TypeOK
<1>2. CASE Kept(ip) = buckets
  BY <1>1, <1>2
<1>3. CASE Kept(ip) = Restrict(buckets, K)
  <2>1. /\ Restrict(buckets, K) \in PartialFns(IPs, Buckets)
        /\ DOMAIN Restrict(buckets, K) = K
        /\ \A x \in K : Restrict(buckets, K)[x] = buckets[x]
    BY <1>1, RestrictType
  <2>2. \A q \in DOMAIN buckets \ K : Refilled(buckets[q]) = Burst
    BY RefilledType, BurstType
  <2>. QED
    BY <1>3, <2>1, <2>2
<1>. QED
  BY <1>2, <1>3 DEF Kept, Pruned

\* Writing back a bucket changes what that address finds, and nothing else.
LEMMA PutLevel ==
  ASSUME TypeOK, NEW ip \in IPs, NEW tokens \in 0..Burst,
         Put(ip, tokens), now' = now
  PROVE  /\ (buckets \in PartialFns(IPs, Buckets))'
         /\ (\A q \in DOMAIN buckets : buckets[q].last <= now)'
         /\ Found(ip)' = tokens
         /\ \A q \in IPs \ {ip} : Found(q)' = Found(q)
<1>1. PICK b \in Buckets : b = [tokens |-> tokens, last |-> now]
  BY DEF Buckets, TypeOK
<1>2. /\ buckets' \in PartialFns(IPs, Buckets)
      /\ DOMAIN buckets' = DOMAIN Kept(ip) \cup {ip}
      /\ buckets'[ip] = b
      /\ \A q \in DOMAIN Kept(ip) \ {ip} : buckets'[q] = Kept(ip)[q]
  <2>1. PICK m \in PartialFns(IPs, Buckets) : m = Kept(ip)
    BY KeptBuckets
  <2>2. buckets' = Assign(m, ip, b)
    BY <1>1, <2>1 DEF Put
  <2>3. buckets' \in PartialFns(IPs, Buckets)
    BY <2>2, AssignType
  <2>4. /\ DOMAIN buckets' = DOMAIN m \cup {ip}
        /\ buckets'[ip] = b
        /\ \A q \in DOMAIN m \ {ip} : buckets'[q] = m[q]
    BY <2>2 DEF Assign
  <2>. QED
    BY <2>1, <2>3, <2>4
<1>3. \A q \in DOMAIN Kept(ip) \ {ip} : q \in DOMAIN buckets /\ buckets'[q] = buckets[q]
  BY <1>2, KeptBuckets
<1>4. \A q \in DOMAIN buckets' : buckets'[q].last <= now'
  BY <1>1, <1>2, <1>3, RefilledType DEF TypeOK
<1>5. Found(ip)' = tokens
  <2>1. Found(ip)' = Refilled(b)'
    BY <1>2 DEF Found, Refilled
  <2>2. tokens + now - now = tokens
    BY BurstType DEF TypeOK
  <2>3. Refilled(b)' = tokens
    BY <1>1, <2>2, BurstType DEF Refilled
  <2>. QED
    BY <2>1, <2>3
<1>6. ASSUME NEW q \in IPs \ {ip} PROVE Found(q)' = Found(q)
  <2>1. CASE q \in DOMAIN Kept(ip)
    BY <2>1, <1>2, <1>3 DEF Found, Refilled
  <2>2. CASE q \notin DOMAIN Kept(ip)
    <3>1. Found(q)' = Burst
      BY <2>2, <1>2 DEF Found
    <3>2. Found(q) = Burst
      BY <2>2, KeptBuckets DEF Found
    <3>. QED
      BY <3>1, <3>2
  <2>. QED
    BY <2>1, <2>2
<1>. QED
  BY <1>2, <1>4, <1>5, <1>6

\* What accrues in a tick.
LEMMA TickLevel ==
  ASSUME TypeOK, Tick, NEW ip \in IPs
  PROVE  Found(ip)' = IF Found(ip) < Burst THEN Found(ip) + 1 ELSE Burst
<1>1. CASE ip \in DOMAIN buckets
  <2>1. /\ buckets[ip].tokens \in Nat /\ buckets[ip].last \in Nat
        /\ now \in Nat /\ buckets[ip].last <= now
    BY <1>1, RefilledType, BurstType, RateLimitAssumption DEF Buckets, TypeOK
  <2>2. /\ Found(ip) = Refilled(buckets[ip])
        /\ Found(ip)' = Refilled(buckets[ip])'
    BY <1>1 DEF Found, Tick
  <2>3. /\ now' = now + 1 /\ buckets' = buckets
    BY DEF Tick
  <2>. QED
    BY <2>1, <2>2, <2>3, BurstType DEF Refilled
<1>2. CASE ip \notin DOMAIN buckets
  BY <1>2, BurstType DEF Found, Tick
<1>. QED
  BY <1>1, <1>2

-----------------------------------------------------------------------------
(* Every step of the limiter is one of the ideal limiter.                  *)

LEMMA TickStep ==
  ASSUME TypeOK, Tick
  PROVE  TypeOK' /\ Ideal!Tick
<1>1. TypeOK'
  <2>1. now' \in 0..MaxTime /\ now' = now + 1 /\ UNCHANGED <<buckets, grants>>
    BY RateLimitAssumption DEF Tick, TypeOK
  <2>2. \A ip \in DOMAIN buckets' : buckets'[ip].last <= now'
    BY <2>1, RefilledType DEF TypeOK, Buckets
  <2>. QED
    BY <2>1, <2>2 DEF TypeOK
<1>2. Level' = [ip \in IPs |-> IF Level[ip] < Burst THEN Level[ip] + 1 ELSE Burst]
  BY TickLevel DEF Level
<1>3. Ideal!Burst = Burst
  BY DEF Burst, Ideal!Burst
<1>. QED
  BY <1>1, <1>2, <1>3 DEF Tick, Ideal!Tick

LEMMA AllowStep ==
  ASSUME TypeOK, NEW ip \in IPs, Allow(ip)
  PROVE  TypeOK' /\ Ideal!Grant(ip)
<1>. DEFINE rest == Found(ip) - TicksPerToken
<1>1. rest \in 0..Burst
  BY FoundType, BurstType, RateLimitAssumption DEF Allow
<1>2. Put(ip, rest) /\ now' = now
  BY DEF Allow
<1>3. /\ (buckets \in PartialFns(IPs, Buckets))'
      /\ (\A q \in DOMAIN buckets : buckets[q].last <= now)'
      /\ Found(ip)' = rest
      /\ \A q \in IPs \ {ip} : Found(q)' = Found(q)
  <2>. HIDE DEF rest
  <2>. QED
    BY <1>1, <1>2, PutLevel
<1>4. grants' \in [IPs -> Seq(0..MaxTime)]
  BY DEF Allow, TypeOK
<1>5. TypeOK'
  BY <1>2, <1>3, <1>4 DEF TypeOK
<1>6. Level' = [Level EXCEPT ![ip] = @ - TicksPerToken]
  BY <1>3 DEF Level
<1>7. Level[ip] >= TicksPerToken
  BY DEF Allow, Level
<1>. QED
  BY <1>5, <1>6, <1>7 DEF Allow, Ideal!Grant

LEMMA RefuseStep ==
  ASSUME TypeOK, NEW ip \in IPs, Refuse(ip)
  PROVE  TypeOK' /\ UNCHANGED <<now, Level, grants>>
<1>1. Found(ip) \in 0..Burst
  BY FoundType
<1>2. Put(ip, Found(ip)) /\ now' = now /\ grants' = grants
  BY DEF Refuse
<1>3. /\ (buckets \in PartialFns(IPs, Buckets))'
      /\ (\A q \in DOMAIN buckets : buckets[q].last <= now)'
      /\ \A q \in IPs : Found(q)' = Found(q)
  BY <1>1, <1>2, PutLevel
<1>. QED
  BY <1>2, <1>3 DEF TypeOK, Level

LEMMA StutterStep ==
  ASSUME TypeOK, UNCHANGED vars
  PROVE  TypeOK' /\ UNCHANGED <<now, Level, grants>>
<1>1. \A ip \in IPs : Found(ip)' = Found(ip)
  BY DEF vars, Found, Refilled
<1>. QED
  BY <1>1 DEF vars, TypeOK, Level

LEMMA Step ==
  ASSUME TypeOK, [Next]_vars
  PROVE  TypeOK' /\ [Ideal!Next]_(Ideal!vars)
<1>1. CASE Tick
  BY <1>1, TickStep DEF Ideal!Next
<1>2. ASSUME NEW ip \in IPs, Allow(ip) PROVE TypeOK' /\ Ideal!Next
  BY <1>2, AllowStep DEF Ideal!Next
<1>3. ASSUME NEW ip \in IPs, Refuse(ip) PROVE TypeOK' /\ UNCHANGED Ideal!vars
  BY <1>3, RefuseStep DEF Ideal!vars
<1>4. CASE UNCHANGED vars
  BY <1>4, StutterStep DEF Ideal!vars
<1>. QED
  BY <1>1, <1>2, <1>3, <1>4 DEF Next

LEMMA InitIdeal == Init => Ideal!Init
<1>. SUFFICES ASSUME Init PROVE Ideal!Init
  OBVIOUS
<1>1. DOMAIN buckets = {}
  BY EmptyMap DEF Init
<1>2. Level = [ip \in IPs |-> Burst]
  BY <1>1 DEF Level, Found
<1>. QED
  BY <1>2 DEF Init, Ideal!Init, Burst, Ideal!Burst

\* The limiter's buckets are well formed in every state: what is kept holds
\* between nothing and the burst, and was not used in the future.
THEOREM LimiterTypeCorrect == Spec => []TypeOK
<1>1. TypeOK /\ [Next]_vars => TypeOK'
  BY Step
<1>. QED
  BY <1>1, InitType, PTL DEF Spec

\* Filling up on use, and forgetting full buckets whenever there are many,
\* cannot be told from keeping every bucket for ever.
THEOREM LimiterIsIdeal == Spec => PruningIsInvisible
<1>1. TypeOK /\ [Next]_vars => TypeOK' /\ [Ideal!Next]_(Ideal!vars)
  BY Step
<1>. QED
  BY <1>1, InitType, InitIdeal, PTL DEF Spec, PruningIsInvisible, Ideal!Spec

-----------------------------------------------------------------------------
(* What every grant has left in the bucket: since grant i, the bucket has  *)
(* paid for it and for those that followed, and what it holds is the rest. *)

Paid ==
  \A ip \in IPs : \A i \in DOMAIN grants[ip] :
    (Len(grants[ip]) - i + 1) * TicksPerToken + Level[ip]
      <= Burst + now - grants[ip][i]

Accounts == TypeOK /\ Paid /\ GrantsAreBounded

LEMMA LevelType == ASSUME TypeOK, NEW ip \in IPs PROVE Level[ip] \in 0..Burst
  BY FoundType DEF Level

LEMMA GrantsType ==
  ASSUME TypeOK, NEW ip \in IPs
  PROVE  /\ grants[ip] \in Seq(0..MaxTime)
         /\ DOMAIN grants[ip] = 1..Len(grants[ip])
         /\ Len(grants[ip]) \in Nat
         /\ \A i \in DOMAIN grants[ip] : grants[ip][i] \in Nat
         /\ now \in Nat
<1>1. PICK T \in SUBSET Nat : T = 0..MaxTime
  BY RateLimitAssumption
<1>2. grants[ip] \in Seq(T) /\ now \in Nat
  BY <1>1, RateLimitAssumption DEF TypeOK
<1>3. /\ Len(grants[ip]) \in Nat
      /\ grants[ip] \in [1..Len(grants[ip]) -> T]
      /\ DOMAIN grants[ip] = 1..Len(grants[ip])
  BY <1>2, LenProperties
<1>4. \A i \in DOMAIN grants[ip] : grants[ip][i] \in T
  BY <1>3
<1>. QED
  BY <1>1, <1>2, <1>3, <1>4

LEMMA TickPaid ==
  ASSUME Accounts, Ideal!Tick
  PROVE  Paid' /\ GrantsAreBounded'
<1>1. now' = now + 1 /\ grants' = grants
  BY DEF Ideal!Tick
<1>2. GrantsAreBounded'
  BY <1>1 DEF Accounts, GrantsAreBounded, Ideal!GrantsAreBounded, Ideal!Burst
<1>3. ASSUME NEW ip \in IPs, NEW i \in DOMAIN grants[ip]
      PROVE  (Len(grants[ip]) - i + 1) * TicksPerToken + Level'[ip]
               <= Burst + now' - grants[ip][i]
  <2>1. PICK paid \in Int : paid = (Len(grants[ip]) - i + 1) * TicksPerToken
    BY GrantsType, RateLimitAssumption DEF Accounts
  <2>4. grants[ip][i] \in Int /\ now \in Int
    BY GrantsType DEF Accounts
  <2>2. paid + Level[ip] <= Burst + now - grants[ip][i]
    BY <2>1 DEF Accounts, Paid
  <2>3. Level[ip] \in Int /\ Level'[ip] \in Int /\ Level'[ip] <= Level[ip] + 1
    BY LevelType, BurstType DEF Accounts, Ideal!Tick, Ideal!Burst, Burst
  <2>5. paid + Level'[ip] <= Burst + now' - grants[ip][i]
    BY <1>1, <2>2, <2>3, <2>4, BurstType
  <2>. QED
    BY <2>1, <2>5
<1>. QED
  BY <1>1, <1>2, <1>3 DEF Paid

LEMMA GrantPaid ==
  ASSUME Accounts, NEW ip \in IPs, Ideal!Grant(ip)
  PROVE  Paid' /\ GrantsAreBounded'
<1>. DEFINE g == grants[ip]
           n == Len(grants[ip])
<1>1. /\ g \in Seq(0..MaxTime) /\ n \in Nat /\ DOMAIN g = 1..n
      /\ \A i \in 1..n : g[i] \in Nat
      /\ now \in Nat /\ TicksPerToken \in Nat /\ Burst \in Nat
      /\ now \in 0..MaxTime
  BY GrantsType, BurstType, RateLimitAssumption DEF Accounts, TypeOK
<1>2. now' = now /\ \A q \in IPs \ {ip} : grants'[q] = grants[q] /\ Level'[q] = Level[q]
  <2>1. DOMAIN Level = IPs /\ DOMAIN grants = IPs
    BY DEF Level, Accounts, TypeOK
  <2>. QED
    BY <2>1 DEF Ideal!Grant
<1>3. /\ Level[ip] \in Nat /\ TicksPerToken <= Level[ip] /\ Level[ip] <= Burst
      /\ Level'[ip] = Level[ip] - TicksPerToken
  BY <1>1, LevelType, BurstType DEF Ideal!Grant, Level, Accounts
<1>4. /\ DOMAIN grants'[ip] = 1..(n + 1)
      /\ Len(grants'[ip]) = n + 1
      /\ \A i \in 1..n : grants'[ip][i] = g[i]
      /\ grants'[ip][n + 1] = now
  <2>1. grants'[ip] = Append(g, now)
    BY DEF Ideal!Grant, Accounts, TypeOK
  <2>. HIDE DEF g, n
  <2>. QED
    BY <1>1, <2>1, Len(g) = n DEF n, g
\* The bucket has paid for the grants since grant i and for the new one.
<1>5. \A i \in 1..n : (n - i + 2) * TicksPerToken + Level'[ip] <= Burst + now - g[i]
  <2>1. SUFFICES ASSUME NEW i \in 1..n
                 PROVE  (n - i + 2) * TicksPerToken + Level'[ip] <= Burst + now - g[i]
    OBVIOUS
  <2>2. (n - i + 1) * TicksPerToken + Level[ip] <= Burst + now - g[i]
    BY <1>1 DEF Accounts, Paid
  <2>3. (n - i + 2) * TicksPerToken = (n - i + 1) * TicksPerToken + TicksPerToken
    BY <1>1
  <2>4. (n - i + 1) * TicksPerToken \in Int /\ g[i] \in Int
    BY <1>1
  <2>. QED
    BY <1>1, <1>3, <2>2, <2>3, <2>4
<1>6. Paid'
  <2>1. ASSUME NEW q \in IPs, NEW i \in DOMAIN grants'[q]
        PROVE  (Len(grants'[q]) - i + 1) * TicksPerToken + Level'[q]
                 <= Burst + now' - grants'[q][i]
    <3>1. CASE q # ip
      BY <3>1, <1>2 DEF Accounts, Paid
    <3>2. CASE q = ip /\ i \in 1..n
      <4>1. (Len(grants'[q]) - i + 1) * TicksPerToken = (n - i + 2) * TicksPerToken
        BY <3>2, <1>1, <1>4
      <4>2. grants'[q][i] = g[i] /\ now' = now
        BY <3>2, <1>2, <1>4
      <4>3. (n - i + 2) * TicksPerToken + Level'[q] <= Burst + now - g[i]
        BY <3>2, <1>5
      <4>. QED
        BY <4>1, <4>2, <4>3
    <3>3. CASE q = ip /\ i = n + 1
      <4>1. (Len(grants'[q]) - i + 1) * TicksPerToken = TicksPerToken
        BY <3>3, <1>1, <1>4
      <4>2. TicksPerToken + Level'[q] <= Burst + now - now
        BY <3>3, <1>1, <1>3
      <4>3. grants'[q][i] = now /\ now' = now
        BY <3>3, <1>2, <1>4
      <4>. QED
        BY <4>1, <4>2, <4>3
    <3>4. ASSUME q = ip PROVE i \in 1..n \/ i = n + 1
      <4>1. Len(grants'[q]) = n + 1 /\ DOMAIN grants'[q] = 1..(n + 1)
        BY <3>4, <1>1, <1>4
      <4>. QED
        BY <2>1, <4>1, <1>1
    <3>. QED
      BY <3>1, <3>2, <3>3, <3>4
  <2>. QED
    BY <2>1 DEF Paid
<1>7. GrantsAreBounded'
  <2>1. ASSUME NEW q \in IPs, NEW i \in DOMAIN grants'[q], NEW j \in DOMAIN grants'[q],
               i <= j
        PROVE  (j - i + 1) * TicksPerToken <= Burst + grants'[q][j] - grants'[q][i]
    <3>1. CASE q # ip
      BY <2>1, <3>1, <1>2
         DEF Accounts, GrantsAreBounded, Ideal!GrantsAreBounded, Ideal!Burst, Burst
    <3>2. CASE q = ip /\ j \in 1..n
      <4>1. i \in 1..n
        BY <2>1, <3>2, <1>1, <1>4
      <4>2. (j - i + 1) * TicksPerToken <= Burst + g[j] - g[i]
        BY <2>1, <3>2, <4>1, <1>1
           DEF Accounts, GrantsAreBounded, Ideal!GrantsAreBounded, Ideal!Burst, Burst
      <4>. QED
        BY <3>2, <4>1, <4>2, <1>4
    <3>3. CASE q = ip /\ j = n + 1 /\ i \in 1..n
      <4>1. PICK paid \in Int : paid = (n - i + 2) * TicksPerToken
        BY <3>3, <1>1
      <4>2. (j - i + 1) * TicksPerToken = paid
        BY <3>3, <4>1, <1>1
      <4>3. paid + Level'[ip] <= Burst + now - g[i]
        BY <3>3, <4>1, <1>5
      <4>4. g[i] \in Int /\ Level'[ip] \in Nat
        BY <3>3, <1>1, <1>3
      <4>5. paid <= Burst + now - g[i]
        BY <4>3, <4>4, <1>1
      <4>6. grants'[q][j] = now /\ grants'[q][i] = g[i]
        BY <3>3, <1>4
      <4>. QED
        BY <4>2, <4>5, <4>6
    <3>4. CASE q = ip /\ j = n + 1 /\ i = n + 1
      <4>1. (j - i + 1) * TicksPerToken = TicksPerToken
        BY <3>4, <1>1
      <4>2. grants'[q][j] = now /\ grants'[q][i] = now
        BY <3>4, <1>4
      <4>3. TicksPerToken <= Burst + now - now
        BY <1>1, BurstType
      <4>. QED
        BY <4>1, <4>2, <4>3
    <3>5. ASSUME q = ip, NEW k \in DOMAIN grants'[q] PROVE k \in 1..n \/ k = n + 1
      <4>1. Len(grants'[q]) = n + 1 /\ DOMAIN grants'[q] = 1..(n + 1)
        BY <3>5, <1>1, <1>4
      <4>. QED
        BY <4>1, <1>1
    <3>. QED
      BY <3>1, <3>2, <3>3, <3>4, <3>5
  <2>. QED
    BY <2>1 DEF GrantsAreBounded, Ideal!GrantsAreBounded, Ideal!Burst, Burst
<1>. QED
  BY <1>6, <1>7

LEMMA AccountsStep == Accounts /\ [Next]_vars => Accounts'
<1>. SUFFICES ASSUME Accounts, [Next]_vars PROVE Accounts'
  OBVIOUS
<1>1. TypeOK' /\ [Ideal!Next]_(Ideal!vars)
  BY Step DEF Accounts
<1>2. CASE Ideal!Tick
  BY <1>1, <1>2, TickPaid DEF Accounts
<1>3. ASSUME NEW ip \in IPs, Ideal!Grant(ip) PROVE Paid' /\ GrantsAreBounded'
  BY <1>3, GrantPaid
<1>4. CASE UNCHANGED Ideal!vars
  BY <1>1, <1>4 DEF Accounts, Paid, Ideal!vars, GrantsAreBounded, Ideal!GrantsAreBounded
<1>. QED
  BY <1>1, <1>2, <1>3, <1>4 DEF Accounts, Ideal!Next

\* However its bucket is filled up, forgotten and made again, an address gets
\* no more rooms than the burst and what accrues between the first and the
\* last of them.
THEOREM GrantsStayBounded == Spec => []GrantsAreBounded
<1>1. Init => Accounts
  <2>. SUFFICES ASSUME Init PROVE Accounts
    OBVIOUS
  <2>1. \A ip \in IPs : DOMAIN grants[ip] = {}
    BY DEF Init
  <2>. QED
    BY <2>1, InitType DEF Accounts, Paid, GrantsAreBounded, Ideal!GrantsAreBounded
<1>2. Accounts => GrantsAreBounded
  BY DEF Accounts
<1>. QED
  BY <1>1, <1>2, AccountsStep, PTL DEF Spec
=============================================================================
