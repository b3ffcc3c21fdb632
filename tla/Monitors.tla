------------------------------ MODULE Monitors ------------------------------
(***************************************************************************)
(* What watches the gateway over time: the memory watch (src/memory-alerts   *)
(* .ts), the certificate watch (src/tls-expiry.ts), and the per-IP token      *)
(* bucket, kept lazily and swept when idle (src/proxy/rate-limit.ts).         *)
(*                                                                          *)
(* Each keeps a few variables between ticks or requests; beside them stands  *)
(* what they are to be judged by, kept by the environment: since when the     *)
(* outage, the late renewal, the pressure lasts, what was told of it, and a   *)
(* bucket that really refills at every tick.  A tick of the clock here is     *)
(* the time in which a bucket refills by Rate.                               *)
(***************************************************************************)
EXTENDS Naturals, FiniteSets, FiniteSetsExt

CONSTANTS
    Ips,
    Rate,           \* tokens a bucket regains in a tick
    Burst,          \* and holds
    Cost,           \* of a request: one token, in the unit of Rate and Burst
    IdleEvict,      \* ticks after which an idle bucket is swept
    SweepSize,      \* buckets below which there is no sweep
    FailuresBeforeAlert,
    MaxSeen         \* bound on what is counted of an outage

\* An evicted bucket would have been full: rate-limit.ts's five minutes are
\* much longer than the two seconds in which a bucket of perSecond * 2 fills.
ASSUME MonitorsAssumption ==
    /\ {Rate, Burst, Cost, IdleEvict, FailuresBeforeAlert} \subseteq Nat \ {0}
    /\ SweepSize \in Nat /\ MaxSeen \in Nat /\ MaxSeen > FailuresBeforeAlert
    /\ IdleEvict * Rate >= Burst /\ Burst >= Cost

VARIABLES
    buckets,   \* the limiter's map: tokens and age of each bucket there is
    credit,    \* what a bucket that refills by itself would hold
    memory,    \* createMemoryWatch's state
    pressure,  \* since the working set was low: "none", "mid", "high", and what was told
    tls,       \* createTlsExpiryWatch's state
    outage,    \* failed checks in a row, and how often that was told
    late       \* late certificates since a timely one, and how often that was told

monitorVars == <<buckets, credit, memory, pressure, tls, outage, late>>

Least(a, b) == Min({a, b})

MonitorsInit ==
    /\ buckets = [ip \in {} |-> [tokens |-> 0, age |-> 0]]
    /\ credit = [ip \in Ips |-> Burst]
    /\ memory = [armed |-> TRUE]
    /\ pressure = [high |-> FALSE, told |-> 0]
    /\ tls = [failures |-> 0, failureAlerted |-> FALSE, expiryAlerted |-> FALSE]
    /\ outage = [seen |-> 0, told |-> 0]
    /\ late = [seen |-> FALSE, told |-> 0]

-----------------------------------------------------------------------------
(* The clock and the buckets.                                               *)

\* External: time passes.
Tick ==
    /\ buckets' = [ip \in DOMAIN buckets |->
                     [buckets[ip] EXCEPT !.age = Least(@ + 1, IdleEvict + 1)]]
    /\ credit' = [ip \in Ips |-> Least(Burst, credit[ip] + Rate)]
    /\ UNCHANGED <<memory, pressure, tls, outage, late>>

\* Mutant: a bucket is idle when it is not used for a tick.
Idle_Early(ip) == buckets[ip].age > 0

\* sweep, what it evicts.
Idle(ip) == buckets[ip].age > IdleEvict

\* sweep: a request from any IP evicts the idle buckets, if there are many.
Swept ==
    LET kept == IF Cardinality(DOMAIN buckets) < SweepSize THEN DOMAIN buckets
                ELSE {ip \in DOMAIN buckets : ~Idle(ip)}
    IN [ip \in kept |-> buckets[ip]]

\* The tokens of a bucket when it is touched; one that is not there is full.
Refilled(map, ip) ==
    IF ip \in DOMAIN map THEN Least(Burst, map[ip].tokens + map[ip].age * Rate) ELSE Burst

Touched(ip, tokens) ==
    buckets' = [i \in DOMAIN Swept \cup {ip} |->
                  IF i = ip THEN [tokens |-> tokens, age |-> 0] ELSE Swept[i]]

\* createIpRateLimiter: a token, or 429.
Request(ip) ==
    /\ \/ /\ Refilled(Swept, ip) >= Cost
          /\ Touched(ip, Refilled(Swept, ip) - Cost)
          /\ credit' = [credit EXCEPT ![ip] = @ - Cost]
       \/ /\ Refilled(Swept, ip) < Cost
          /\ Touched(ip, Refilled(Swept, ip))
          /\ UNCHANGED credit
    /\ UNCHANGED <<memory, pressure, tls, outage, late>>

-----------------------------------------------------------------------------
(* The memory watch.                                                        *)

\* Mutant: it re-arms as soon as the alert mark is left.
EvaluatePressure_NoHysteresis(armed, level) ==
    IF armed /\ level = "high" THEN [armed |-> FALSE, alert |-> TRUE]
    ELSE IF ~armed /\ level # "high" THEN [armed |-> TRUE, alert |-> FALSE]
    ELSE [armed |-> armed, alert |-> FALSE]

\* evaluatePressure: "high" from ALERT_RATIO on, "low" under REARM_RATIO.
EvaluatePressure(armed, level) ==
    IF armed /\ level = "high" THEN [armed |-> FALSE, alert |-> TRUE]
    ELSE IF ~armed /\ level = "low" THEN [armed |-> TRUE, alert |-> FALSE]
    ELSE [armed |-> armed, alert |-> FALSE]

\* tick: it samples the working set.
Sample(level) ==
    LET result == EvaluatePressure(memory.armed, level) IN
    /\ memory' = [armed |-> result.armed]
    /\ pressure' = IF level = "low" THEN [high |-> FALSE, told |-> 0]
                   ELSE [high |-> pressure.high \/ level = "high",
                         told |-> Least(pressure.told + (IF result.alert THEN 1 ELSE 0), 2)]
    /\ UNCHANGED <<buckets, credit, tls, outage, late>>

-----------------------------------------------------------------------------
(* The certificate watch.                                                   *)

\* tick, catch: told once, when the failures are enough.
CheckFailed ==
    LET failures == Least(tls.failures + 1, MaxSeen)
        tell     == failures >= FailuresBeforeAlert /\ ~tls.failureAlerted
    IN /\ tls' = [tls EXCEPT !.failures = failures, !.failureAlerted = @ \/ tell]
       /\ outage' = [seen |-> Least(outage.seen + 1, MaxSeen),
                     told |-> Least(outage.told + (IF tell THEN 1 ELSE 0), 2)]
       /\ UNCHANGED <<buckets, credit, memory, pressure, late>>

\* tick: a certificate that is valid for WARN_BEFORE_MS and more was renewed.
CheckTimely ==
    /\ tls' = [failures |-> 0, failureAlerted |-> FALSE, expiryAlerted |-> FALSE]
    /\ outage' = [seen |-> 0, told |-> 0] /\ late' = [seen |-> FALSE, told |-> 0]
    /\ UNCHANGED <<buckets, credit, memory, pressure>>

\* tick: a certificate that should have been renewed by now is told of once.
CheckLate ==
    /\ tls' = [failures |-> 0, failureAlerted |-> FALSE, expiryAlerted |-> TRUE]
    /\ outage' = [seen |-> 0, told |-> 0]
    /\ late' = [seen |-> TRUE, told |-> Least(late.told + (IF tls.expiryAlerted THEN 0 ELSE 1), 2)]
    /\ UNCHANGED <<buckets, credit, memory, pressure>>

MonitorsNext ==
    \/ Tick
    \/ \E ip \in Ips : Request(ip)
    \/ \E level \in {"low", "mid", "high"} : Sample(level)
    \/ CheckFailed \/ CheckTimely \/ CheckLate

MonitorsSpec == MonitorsInit /\ [][MonitorsNext]_monitorVars

-----------------------------------------------------------------------------

\* Every trouble is told once while it lasts: an outage of the certificate
\* check when it has lasted, a late renewal whatever outages interrupt it, a
\* pressure that wavers between the marks; and told again when it comes again
\* (src/tls-expiry.ts:118-147, src/memory-alerts.ts:29-37).
MonitorsTellOnce ==
    /\ outage.told = IF outage.seen >= FailuresBeforeAlert THEN 1 ELSE 0
    /\ late.told = IF late.seen THEN 1 ELSE 0
    /\ pressure.told = IF pressure.high THEN 1 ELSE 0

\* The lazy, swept bucket grants what one that refills by itself would, no
\* more and no less, for every IP at every moment (src/proxy/rate-limit.ts:55-86).
BucketsAreExact == \A ip \in Ips : Refilled(buckets, ip) = credit[ip]

=============================================================================
