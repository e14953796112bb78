--------------------------- MODULE TokenBucket ---------------------------
(***************************************************************************)
(* What src/internal/api/ratelimit.go promises: every address has a bucket *)
(* for ever, which fills up steadily and pays for the rooms it creates.    *)
(*                                                                         *)
(* Time is counted in ticks and a bucket in the ticks it took to fill, so  *)
(* that a token, one room, costs TicksPerToken.                            *)
(***************************************************************************)
EXTENDS Integers, Sequences

CONSTANTS
  IPs,             \* the addresses rooms are created from
  PerHour,         \* the burst, and the tokens that accrue in an hour
  TicksPerToken,   \* an hour is PerHour * TicksPerToken ticks
  MaxTime          \* the clock stops here

VARIABLES
  now,      \* the clock
  level,    \* per address: what its bucket holds
  grants    \* per address: when it was allowed to create a room

vars == <<now, level, grants>>

Burst == PerHour * TicksPerToken

Init ==
  /\ now = 0
  /\ level = [ip \in IPs |-> Burst]
  /\ grants = [ip \in IPs |-> <<>>]

Tick ==
  /\ now < MaxTime
  /\ now' = now + 1
  /\ level' = [ip \in IPs |-> IF level[ip] < Burst THEN level[ip] + 1 ELSE Burst]
  /\ UNCHANGED grants

Grant(ip) ==
  /\ level[ip] >= TicksPerToken
  /\ level' = [level EXCEPT ![ip] = @ - TicksPerToken]
  /\ grants' = [grants EXCEPT ![ip] = Append(@, now)]
  /\ UNCHANGED now

Next ==
  \/ Tick
  \/ \E ip \in IPs : Grant(ip)

Spec == Init /\ [][Next]_vars

-----------------------------------------------------------------------------
TypeOK ==
  /\ now \in 0..MaxTime
  /\ level \in [IPs -> 0..Burst]
  /\ grants \in [IPs -> Seq(0..MaxTime)]

\* Between any two grants of an address lies the time that the grants beyond
\* the burst take to accrue: n grants in d ticks only if n exceeds PerHour by
\* no more than the tokens of d ticks.
GrantsAreBounded ==
  \A ip \in IPs :
    \A i, j \in DOMAIN grants[ip] :
      i <= j => (j - i + 1) * TicksPerToken <= Burst + grants[ip][j] - grants[ip][i]
=============================================================================
