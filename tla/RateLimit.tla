---------------------------- MODULE RateLimit ----------------------------
(***************************************************************************)
(* The limit on the rooms an address creates (src/internal/api/            *)
(* ratelimit.go).  A bucket is filled up when it is next used, and full    *)
(* buckets are forgotten when there are too many.                          *)
(*                                                                         *)
(* allow holds the limiter's mutex throughout, so it is one step; its two  *)
(* readings of the clock are taken as one.  Fractions of a token are the   *)
(* ticks of TokenBucket; the rounding of float64 is left out.              *)
(***************************************************************************)
EXTENDS Integers, Sequences, FiniteSets, Maps

CONSTANTS
  IPs, PerHour, TicksPerToken, MaxTime,   \* as in TokenBucket
  PruneAt                                 \* 10000 in the code

ASSUME RateLimitAssumption ==
  /\ PerHour \in Nat \ {0}
  /\ TicksPerToken \in Nat \ {0}
  /\ MaxTime \in Nat
  /\ PruneAt \in Nat

VARIABLES
  now,       \* the clock
  buckets,   \* the buckets that are kept
  grants     \* per address: when allow returned true

vars == <<now, buckets, grants>>

Burst == PerHour * TicksPerToken
Buckets == [tokens : 0..Burst, last : 0..MaxTime]

\* newIPLimiter
Init ==
  /\ now = 0
  /\ buckets = <<>>
  /\ grants = [ip \in IPs |-> <<>>]

Tick ==
  /\ now < MaxTime
  /\ now' = now + 1
  /\ UNCHANGED <<buckets, grants>>

\* What a bucket holds by now.
Refilled(b) ==
  LET filled == b.tokens + now - b.last
  IN  IF filled < Burst THEN filled ELSE Burst

\* Mutant: prune drops every bucket that would grant a room.
PrunedTooMuch ==
  IF Cardinality(DOMAIN buckets) < PruneAt THEN buckets
  ELSE Restrict(buckets,
                {ip \in DOMAIN buckets : Refilled(buckets[ip]) < TicksPerToken})

\* prune
Pruned ==
  IF Cardinality(DOMAIN buckets) < PruneAt THEN buckets
  ELSE Restrict(buckets,
                {ip \in DOMAIN buckets : Refilled(buckets[ip]) < Burst})

\* The buckets that allow goes on with, and what it finds in that of ip.
Kept(ip) ==
  IF ip \in DOMAIN buckets THEN buckets ELSE Pruned

Found(ip) ==
  IF ip \in DOMAIN buckets THEN Refilled(buckets[ip]) ELSE Burst

Put(ip, tokens) ==
  buckets' = Assign(Kept(ip), ip, [tokens |-> tokens, last |-> now])

\* allow returns true.
Allow(ip) ==
  /\ Found(ip) >= TicksPerToken
  /\ Put(ip, Found(ip) - TicksPerToken)
  /\ grants' = [grants EXCEPT ![ip] = Append(@, now)]
  /\ UNCHANGED now

\* Mutant: a refusal credits the time since the last grant and keeps last.
RefuseKeepingLast(ip) ==
  /\ Found(ip) < TicksPerToken
  /\ buckets' = [buckets EXCEPT ![ip].tokens = Found(ip)]
  /\ UNCHANGED <<now, grants>>

\* allow returns false.
Refuse(ip) ==
  /\ Found(ip) < TicksPerToken
  /\ Put(ip, Found(ip))
  /\ UNCHANGED <<now, grants>>

Next ==
  \/ Tick
  \/ \E ip \in IPs : Allow(ip) \/ Refuse(ip)

Spec == Init /\ [][Next]_vars

-----------------------------------------------------------------------------
\* The buckets kept are those of addresses, and none has been used in the
\* future.
TypeOK ==
  /\ now \in 0..MaxTime
  /\ buckets \in PartialFns(IPs, Buckets)
  /\ \A ip \in DOMAIN buckets : buckets[ip].last <= now
  /\ grants \in [IPs -> Seq(0..MaxTime)]

\* The bucket an address would have if none were forgotten and all were
\* filled up all the time.
Level == [ip \in IPs |-> Found(ip)]

Ideal == INSTANCE TokenBucket WITH level <- Level

\* Filling up on use and pruning are invisible: the limiter grants what the
\* one with a bucket for every address grants (allow and prune).
PruningIsInvisible == Ideal!Spec

\* No address gets more rooms than the burst and what accrues meanwhile,
\* whatever it does and however often its bucket is forgotten (allow, prune).
GrantsAreBounded == Ideal!GrantsAreBounded
=============================================================================
