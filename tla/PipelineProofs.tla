--------------------------- MODULE PipelineProofs ----------------------------
(***************************************************************************)
(* What every request leaves behind, for any number of requests, keys, caps, *)
(* events and tokens: slots of both limiters, one true row, a charge that    *)
(* agrees with the row, and signals that are those of good answers.          *)
(*                                                                          *)
(* Every step is one request's.  So the invariant is a condition of single    *)
(* requests (RequestOK), with what ties the shared variables to all of them; *)
(* each action is shown to be a RequestStep, and RequestSteps to keep it.    *)
(***************************************************************************)
EXTENDS Pipeline, FiniteSetTheorems, TLAPS

-----------------------------------------------------------------------------
(* The invariant.                                                           *)

RequestType ==
    [phase : Phases, key : Keys \cup {None}, status : Statuses,
     logged : {"no", "yes"}, candidate : {"no", "yes"}, tier : Tiers,
     remaining : Headrooms, rows : Nat,
     source : {"none", "upstream", "proxy", "client"}, written : Nat,
     charge : {"none", "due", "done", "failed"}, used : Nat, shed : {"no", "yes"}]

StreamType ==
    [source : {"none", "open", "ended", "broken"}, sent : Nat, sniffed : Nat, kept : Nat,
     client : {"open", "gone"}, flushed : {"no", "yes"}]

\* The tee: neither branch runs ahead of the source, and what is flushed is over.
TeeOK(s) ==
    /\ s.source = "none" => s = NoStream
    /\ s.sniffed <= s.sent /\ s.kept <= s.sent
    /\ s.flushed = "yes" => s.source = "ended" /\ s.sniffed = s.sent

\* What a messages request leaves: a body the handler read and logged, ...
Buffered(q, s) ==
    /\ q.logged = "yes" /\ q.status \in {"ok", "upstream"} /\ s.source = "none"
    /\ q.rows = 1 /\ q.source = "upstream"
    /\ q.charge # "none" => q.used = q.written

\* ... a stream logged when it is over and charged when it has been flushed, ...
Relayed(q, s) ==
    /\ q.logged = "yes" /\ q.status = "ok" /\ s.source # "none"
    /\ q.rows \in {0, 1}
    /\ q.rows = 1 => /\ q.source = "upstream"
                     /\ s.source = "broken" \/ (s.source = "ended" /\ q.written = s.sent)
    /\ q.charge # "none" <=> s.flushed = "yes"
    /\ q.charge # "none" => q.used = s.sent

\* ... or an error of the proxy's, the observer's to log or to shed.
Failed(q, s) ==
    /\ q.logged = "no" /\ q.status \in {"proxy", "client"} /\ s.source = "none"
    /\ q.charge = "none"

Refused(q, s) ==
    /\ Failed(q, s)
    /\ \/ q.rows = 0 /\ q.shed = "yes"
       \/ q.rows = 1 /\ q.source = SourceOf(q.status)

\* A request that has left nothing behind yet.
Blank(q, s) == q.rows = 0 /\ q.logged = "no" /\ q.charge = "none" /\ s.source = "none"

\* A model discovery leaves nothing.
Traceless(q, s) == q.rows = 0 /\ q.charge = "none" /\ s.source = "none"

\* Where a request may be, and with what.
PlaceOK(r, q, s) ==
    /\ q.phase # "answered" => Blank(q, s)
    /\ q.phase \in Inside => q.key \in Keys
    /\ q.phase \notin {"reading", "observing", "answered"} => q.remaining = "unknown"
    /\ q.phase = "reading" => q.status \in {"ok", "upstream"}
    /\ q.phase = "observing" => q.status \in {"proxy", "client"}
    /\ r \in Discoveries => q.phase \in {"new", "upstream", "answered"} /\ Traceless(q, s)
    /\ r \notin Discoveries /\ q.phase = "answered" =>
          Buffered(q, s) \/ Relayed(q, s) \/ Refused(q, s)

RequestOK(r, q, s) == TeeOK(s) /\ PlaceOK(r, q, s)

\* The signals one request gives.
Trips(q) == q.status = "ok" /\ q.charge # "none" /\ q.candidate = "yes" /\ q.tier = "other"
Tells(q) == q.status = "ok" /\ q.charge # "none" /\ q.tier \in {"other", "header"}
Lowers(q) == q.remaining = "low" /\ q.status # "upstream"

SignalsOK ==
    /\ canary = "tripped" <=> \E r \in Requests : Trips(req[r])
    /\ alarm = "told" <=> \E r \in Requests : Tells(req[r])
    /\ headroom = "low" => \E r \in Requests : Lowers(req[r])

PipelineInv ==
    /\ TypeOK
    /\ \A r \in Requests : RequestOK(r, req[r], stream[r])
    /\ SignalsOK
    /\ SlotsAreHeld

-----------------------------------------------------------------------------
(* A step of one request.                                                   *)

\* The slots stay, one is taken, or the request gives its own back.
SlotStep(r, q) ==
    \/ /\ UNCHANGED <<slots, keySlots>>
       /\ q.phase \in Inside <=> req[r].phase \in Inside
       /\ q.phase \in Inside => q.key = req[r].key
    \/ /\ req[r].phase \notin Inside /\ q.phase \in Inside
       /\ slots < MaxInFlight /\ keySlots[q.key] < MaxPerKey
       /\ slots' = slots + 1 /\ keySlots' = [keySlots EXCEPT ![q.key] = @ + 1]
    \/ /\ req[r].phase \in Inside /\ q.phase \notin Inside
       /\ slots' = slots - 1 /\ keySlots' = [keySlots EXCEPT ![req[r].key] = @ - 1]

\* The signals the request gave stay, and it may give more.
SignalStep(r, q) ==
    /\ Trips(req[r]) => Trips(q)
    /\ Tells(req[r]) => Tells(q)
    /\ Lowers(req[r]) => Lowers(q)
    /\ canary' = IF Trips(q) THEN "tripped" ELSE canary
    /\ alarm' = IF Tells(q) THEN "told" ELSE alarm
    /\ headroom' = "low" => headroom = "low" \/ Lowers(q)

\* A tripped canary decides for the stable template.
DecisionStep(r, q) == canary = "tripped" /\ req[r].candidate = "no" => q.candidate = "no"

RestType == headroom' \in Headrooms /\ tokens' \in [Keys -> Nat] /\ budget' \in 0..WriteBurst

RequestStep(r, q, s) ==
    /\ q \in RequestType /\ s \in StreamType
    /\ req' = [req EXCEPT ![r] = q] /\ stream' = [stream EXCEPT ![r] = s]
    /\ RequestOK(r, q, s)
    /\ SlotStep(r, q) /\ SignalStep(r, q) /\ DecisionStep(r, q) /\ RestType

-----------------------------------------------------------------------------
(* RequestSteps keep the invariant.                                         *)

KeyHolders(k) == {r \in InsideNow : req[r].key = k}

\* The limiters count finitely many requests.
LEMMA HoldersFinite ==
    /\ IsFiniteSet(InsideNow) /\ \A k \in Keys : IsFiniteSet(KeyHolders(k))
    /\ Cardinality(InsideNow) \in Nat /\ \A k \in Keys : Cardinality(KeyHolders(k)) \in Nat
<1>1. InsideNow \in SUBSET Requests /\ \A k \in Keys : KeyHolders(k) \in SUBSET Requests
  BY DEF InsideNow, KeyHolders
<1>2. IsFiniteSet(InsideNow) /\ \A k \in Keys : IsFiniteSet(KeyHolders(k))
  BY <1>1, FS_Subset, PipelineAssumption
<1> QED
  BY <1>2, FS_CardinalityType

\* Both limiters give back what they took, once, and admit within the caps
\* (src/proxy/concurrency.ts:44-79, 93-138).
LEMMA SlotsKept ==
    ASSUME PipelineInv, NEW r \in Requests, NEW q, NEW s, RequestStep(r, q, s)
    PROVE  SlotsAreHeld'
<1>1. /\ req \in [Requests -> RequestType] /\ req' \in [Requests -> RequestType]
      /\ req'[r] = q /\ \A o \in Requests \ {r} : req'[o] = req[o]
  BY DEF PipelineInv, TypeOK, RequestType, RequestStep
<1>2. /\ slots = Cardinality(InsideNow) /\ slots <= MaxInFlight /\ slots \in Nat
      /\ keySlots \in [Keys -> Int]
      /\ \A k \in Keys : /\ keySlots[k] = Cardinality(KeyHolders(k)) /\ keySlots[k] <= MaxPerKey
                         /\ keySlots[k] \in Nat
  BY HoldersFinite DEF PipelineInv, TypeOK, SlotsAreHeld, KeyHolders
<1>3. req[r].phase \in Inside => req[r].key \in Keys
  BY DEF PipelineInv, RequestOK, PlaceOK
<1>4. q.phase \in Inside => q.key \in Keys
  BY DEF RequestStep, RequestOK, PlaceOK
<1> USE PipelineAssumption
<1>5. SUFFICES /\ slots' = Cardinality(InsideNow') /\ slots' <= MaxInFlight
               /\ \A k \in Keys : /\ keySlots'[k] = Cardinality(KeyHolders(k)')
                                  /\ keySlots'[k] <= MaxPerKey
  BY DEF SlotsAreHeld, KeyHolders
<1>6. CASE /\ UNCHANGED <<slots, keySlots>>
           /\ q.phase \in Inside <=> req[r].phase \in Inside
           /\ q.phase \in Inside => q.key = req[r].key
  <2>1. InsideNow' = InsideNow
    BY <1>1, <1>6 DEF InsideNow
  <2>2. \A k \in Keys : KeyHolders(k)' = KeyHolders(k)
    BY <1>1, <1>6, <2>1 DEF KeyHolders, InsideNow
  <2> QED
    BY <1>2, <1>6, <2>1, <2>2
<1>7. CASE /\ req[r].phase \notin Inside /\ q.phase \in Inside
           /\ slots < MaxInFlight /\ keySlots[q.key] < MaxPerKey
           /\ slots' = slots + 1 /\ keySlots' = [keySlots EXCEPT ![q.key] = @ + 1]
  <2>1. InsideNow' = InsideNow \cup {r} /\ r \notin InsideNow
    BY <1>1, <1>7 DEF InsideNow
  <2>2. \A k \in Keys : KeyHolders(k)' = IF k = q.key THEN KeyHolders(k) \cup {r} ELSE KeyHolders(k)
    BY <1>1, <2>1 DEF KeyHolders, InsideNow
  <2>3. Cardinality(InsideNow') = Cardinality(InsideNow) + 1
    BY <2>1, HoldersFinite, FS_AddElement
  <2>4. \A k \in Keys : r \notin KeyHolders(k)
    BY <2>1 DEF KeyHolders
  <2>5. \A k \in Keys : Cardinality(KeyHolders(k) \cup {r}) = Cardinality(KeyHolders(k)) + 1
    BY <2>4, HoldersFinite, FS_AddElement
  <2>6. \A k \in Keys : keySlots'[k] = IF k = q.key THEN keySlots[k] + 1 ELSE keySlots[k]
    BY <1>2, <1>4, <1>7
  <2> QED
    BY <1>2, <1>4, <1>7, <2>2, <2>3, <2>5, <2>6
<1>8. CASE /\ req[r].phase \in Inside /\ q.phase \notin Inside
           /\ slots' = slots - 1 /\ keySlots' = [keySlots EXCEPT ![req[r].key] = @ - 1]
  <2>1. InsideNow' = InsideNow \ {r} /\ r \in InsideNow
    BY <1>1, <1>8 DEF InsideNow
  <2>2. \A k \in Keys : KeyHolders(k)' = IF k = req[r].key THEN KeyHolders(k) \ {r} ELSE KeyHolders(k)
    BY <1>1, <2>1 DEF KeyHolders, InsideNow
  <2>3. Cardinality(InsideNow') = Cardinality(InsideNow) - 1
    BY <2>1, HoldersFinite, FS_RemoveElement
  <2>4. r \in KeyHolders(req[r].key)
    BY <2>1 DEF KeyHolders
  <2>5. Cardinality(KeyHolders(req[r].key) \ {r}) = Cardinality(KeyHolders(req[r].key)) - 1
    BY <1>3, <1>8, <2>4, HoldersFinite, FS_RemoveElement
  <2>6. \A k \in Keys : keySlots'[k] = IF k = req[r].key THEN keySlots[k] - 1 ELSE keySlots[k]
    BY <1>2, <1>3, <1>8
  <2>7. slots' = Cardinality(InsideNow') /\ slots' <= MaxInFlight
    BY <1>2, <1>8, <2>3
  <2>8. ASSUME NEW k \in Keys
        PROVE  keySlots'[k] = Cardinality(KeyHolders(k)') /\ keySlots'[k] <= MaxPerKey
    <3>1. CASE k = req[r].key
      BY <1>2, <2>2, <2>5, <2>6, <3>1
    <3>2. CASE k # req[r].key
      BY <1>2, <2>2, <2>6, <3>2
    <3> QED
      BY <3>1, <3>2
  <2> QED
    BY <2>7, <2>8
<1> QED
  BY <1>6, <1>7, <1>8 DEF RequestStep, SlotStep

\* The canary and the alarm stay, and headroom low needs an answer that said so.
LEMMA SignalsKept ==
    ASSUME PipelineInv, NEW r \in Requests, NEW q, NEW s, RequestStep(r, q, s)
    PROVE  SignalsOK'
<1>1. req'[r] = q /\ \A o \in Requests \ {r} : req'[o] = req[o]
  BY DEF PipelineInv, TypeOK, RequestStep
<1>2. /\ (\E o \in Requests : Trips(req[o])) \/ Trips(q) <=> \E o \in Requests : Trips(req'[o])
      /\ (\E o \in Requests : Tells(req[o])) \/ Tells(q) <=> \E o \in Requests : Tells(req'[o])
      /\ (\E o \in Requests : Lowers(req[o])) \/ Lowers(q) => \E o \in Requests : Lowers(req'[o])
  BY <1>1 DEF RequestStep, SignalStep
<1>3. /\ canary' = IF Trips(q) THEN "tripped" ELSE canary
      /\ alarm' = IF Tells(q) THEN "told" ELSE alarm
      /\ headroom' = "low" => headroom = "low" \/ Lowers(q)
  BY DEF RequestStep, SignalStep
<1> QED
  BY <1>2, <1>3 DEF PipelineInv, SignalsOK

\* A step of one request keeps the invariant, and the canary final.
LEMMA RequestStepKeeps ==
    ASSUME PipelineInv, NEW r \in Requests, NEW q, NEW s, RequestStep(r, q, s)
    PROVE  /\ PipelineInv'
           /\ canary = "tripped" =>
                 /\ canary' = "tripped"
                 /\ \A o \in Requests : req[o].candidate = "no" => req'[o].candidate = "no"
<1>1. /\ req'[r] = q /\ \A o \in Requests \ {r} : req'[o] = req[o]
      /\ stream'[r] = s /\ \A o \in Requests \ {r} : stream'[o] = stream[o]
      /\ req' \in [Requests -> RequestType] /\ stream' \in [Requests -> StreamType]
  BY DEF PipelineInv, TypeOK, RequestType, StreamType, RequestStep
<1>2. canary' \in {"armed", "tripped"} /\ alarm' \in {"silent", "told"}
  BY DEF PipelineInv, TypeOK, RequestStep, SignalStep
<1>3. slots' \in Int /\ keySlots' \in [Keys -> Int]
  BY DEF PipelineInv, TypeOK, RequestStep, SlotStep
<1>4. TypeOK'
  BY <1>1, <1>2, <1>3 DEF RequestStep, RestType, TypeOK, RequestType, StreamType
<1>5. \A o \in Requests : RequestOK(o, req[o], stream[o])'
  BY <1>1 DEF PipelineInv, RequestStep, RequestOK, PlaceOK, TeeOK, Blank, Traceless, Buffered,
              Relayed, Refused, Failed
<1>6. canary = "tripped" =>
         /\ canary' = "tripped"
         /\ \A o \in Requests : req[o].candidate = "no" => req'[o].candidate = "no"
  BY <1>1 DEF RequestStep, SignalStep, DecisionStep
<1> QED
  BY <1>4, <1>5, <1>6, SlotsKept, SignalsKept DEF PipelineInv

-----------------------------------------------------------------------------
(* The actions are RequestSteps.                                            *)

\* What the invariant says of one request before a step.
LEMMA Before ==
    ASSUME PipelineInv, NEW r \in Requests
    PROVE  /\ req[r] \in RequestType /\ stream[r] \in StreamType
           /\ req \in [Requests -> RequestType] /\ stream \in [Requests -> StreamType]
           /\ RequestOK(r, req[r], stream[r])
           /\ headroom \in Headrooms /\ tokens \in [Keys -> Nat] /\ budget \in 0..WriteBurst
           /\ canary \in {"armed", "tripped"} /\ alarm \in {"silent", "told"}
  BY DEF PipelineInv, TypeOK, RequestType, StreamType

\* With what a request may leave.
LeaveReady(r, q, s) ==
    /\ r \in Discoveries => Traceless(q, s)
    /\ r \notin Discoveries => Buffered(q, s) \/ Relayed(q, s) \/ (Failed(q, s) /\ q.rows = 0)

\* Whatever leaves is a row written, a row of the observer's, or one shed
\* (src/proxy/observe-outcome.ts, createOutcomeObserver).
LEMMA LeaveStep ==
    ASSUME PipelineInv, NEW r \in Requests, NEW q \in RequestType, NEW s,
           q.phase # "answered", Leave(r, q), TeeOK(s), LeaveReady(r, q, s)
    PROVE  \E p \in RequestType :
              /\ req' = [req EXCEPT ![r] = p] /\ RequestOK(r, p, s)
              /\ p.phase \notin Inside /\ budget' \in 0..WriteBurst
              /\ p.status = q.status /\ p.charge = q.charge /\ p.candidate = q.candidate
              /\ p.tier = q.tier /\ p.remaining = q.remaining
<1>0. budget \in 0..WriteBurst
  BY Before
<1>1. CASE Observes(r, q) /\ budget >= 1
  <2> DEFINE p == [q EXCEPT !.phase = "observing"]
  <2>1. p \in RequestType /\ req' = [req EXCEPT ![r] = p] /\ budget' \in 0..WriteBurst
    BY <1>0, <1>1, PipelineAssumption DEF Leave, RequestType, Phases
  <2>2. RequestOK(r, p, s)
    BY <1>1 DEF LeaveReady, RequestOK, PlaceOK, Observes, Buffered, Relayed, Failed, Blank, Inside, RequestType
  <2>3. /\ p.phase = "observing" /\ p.status = q.status /\ p.charge = q.charge
        /\ p.candidate = q.candidate /\ p.tier = q.tier /\ p.remaining = q.remaining
    BY DEF RequestType
  <2> QED
    BY <2>1, <2>2, <2>3 DEF Inside
<1>2. CASE Observes(r, q) /\ ~(budget >= 1)
  <2> DEFINE p == [q EXCEPT !.phase = "answered", !.shed = "yes"]
  <2>1. p \in RequestType /\ req' = [req EXCEPT ![r] = p] /\ budget' \in 0..WriteBurst
    BY <1>0, <1>2 DEF Leave, RequestType, Phases
  <2>2. RequestOK(r, p, s)
    BY <1>2 DEF LeaveReady, RequestOK, PlaceOK, Observes, Buffered, Relayed, Refused, Failed, Inside, RequestType
  <2>3. /\ p.phase = "answered" /\ p.status = q.status /\ p.charge = q.charge
        /\ p.candidate = q.candidate /\ p.tier = q.tier /\ p.remaining = q.remaining
    BY DEF RequestType
  <2> QED
    BY <2>1, <2>2, <2>3 DEF Inside
<1>3. CASE ~Observes(r, q)
  <2> DEFINE p == [q EXCEPT !.phase = "answered"]
  <2>1. p \in RequestType /\ req' = [req EXCEPT ![r] = p] /\ budget' \in 0..WriteBurst
    BY <1>0, <1>3 DEF Leave, RequestType, Phases
  <2>2. RequestOK(r, p, s)
    BY <1>3 DEF LeaveReady, RequestOK, PlaceOK, Observes, Traceless, Buffered, Relayed, Refused, Failed, Inside,
                RequestType
  <2>3. /\ p.phase = "answered" /\ p.status = q.status /\ p.charge = q.charge
        /\ p.candidate = q.candidate /\ p.tier = q.tier /\ p.remaining = q.remaining
    BY DEF RequestType
  <2> QED
    BY <2>1, <2>2, <2>3 DEF Inside
<1> QED
  BY <1>1, <1>2, <1>3

\* A request that has no charge gives no signal.
LEMMA SilentSignals ==
    ASSUME NEW r \in Requests, NEW q, UNCHANGED <<canary, alarm, headroom>>,
           req[r].charge = "none", q.charge = "none", Lowers(req[r]) => Lowers(q)
    PROVE  SignalStep(r, q)
  BY DEF SignalStep, Trips, Tells

\* A request not inside that is refused at the door (Enter), or whose step in
\* the handler ends in an error of the proxy's.
LEMMA RefusedStep ==
    ASSUME PipelineInv, NEW r \in Requests, NEW q \in RequestType,
           q.phase \in {"new", "quota", "body", "upstream"}, Blank(q, stream[r]),
           stream[r] = NoStream, q.status \in {"proxy", "client"},
           req[r].charge = "none", ~Lowers(req[r]), q.candidate = req[r].candidate,
           \/ req[r].phase \notin Inside /\ UNCHANGED <<slots, keySlots>>
           \/ req[r].phase \in Inside /\ q.key = req[r].key /\ GiveBack(q.key, q.status),
           Leave(r, q), UNCHANGED <<stream, tokens, headroom, canary, alarm>>
    PROVE  \E p, s : RequestStep(r, p, s)
<1>1. TeeOK(stream[r])
  BY DEF TeeOK, NoStream
<1>2. PICK p \in RequestType :
              /\ req' = [req EXCEPT ![r] = p] /\ RequestOK(r, p, stream[r])
              /\ p.phase \notin Inside /\ budget' \in 0..WriteBurst
              /\ p.status = q.status /\ p.charge = q.charge /\ p.candidate = q.candidate
              /\ p.tier = q.tier /\ p.remaining = q.remaining
  BY <1>1, LeaveStep DEF LeaveReady, Blank, Traceless, Failed
<1>3. SlotStep(r, p)
  BY <1>2 DEF SlotStep, GiveBack
<1>4. SignalStep(r, p)
  BY <1>2, SilentSignals DEF Blank
<1>5. stream[r] \in StreamType /\ stream' = [stream EXCEPT ![r] = stream[r]]
  BY Before
<1>6. RestType /\ DecisionStep(r, p)
  BY <1>2, Before DEF RestType, DecisionStep
<1> QED
  BY <1>2, <1>3, <1>4, <1>5, <1>6 DEF RequestStep

\* A request whose signals stay gives none.
LEMMA SameSignals ==
    ASSUME PipelineInv, NEW r \in Requests, NEW q, UNCHANGED <<canary, alarm, headroom>>,
           Trips(req[r]) <=> Trips(q), Tells(req[r]) <=> Tells(q), Lowers(req[r]) <=> Lowers(q)
    PROVE  SignalStep(r, q)
  BY DEF SignalStep, PipelineInv, SignalsOK

\* What may happen to a stream and leaves its request alone.
LEMMA StreamStep ==
    ASSUME PipelineInv, NEW r \in Requests, NEW s \in StreamType, TeeOK(s),
           stream[r].source # "none", s.source # "none", s.flushed = stream[r].flushed,
           stream[r].source # "open" => s.source = stream[r].source /\ s.sent = stream[r].sent,
           stream' = [stream EXCEPT ![r] = s],
           UNCHANGED <<req, slots, keySlots, tokens, headroom, canary, alarm, budget>>
    PROVE  \E p, t : RequestStep(r, p, t)
<1>1. req[r] \in RequestType /\ req' = [req EXCEPT ![r] = req[r]]
  BY Before
<1>2. RequestOK(r, req[r], s)
  BY Before DEF RequestOK, PlaceOK, TeeOK, Blank, Traceless, Buffered, Relayed, Refused, Failed
<1>3. SlotStep(r, req[r]) /\ SignalStep(r, req[r]) /\ DecisionStep(r, req[r]) /\ RestType
  BY SameSignals, Before DEF SlotStep, DecisionStep, RestType
<1> QED
  BY <1>1, <1>2, <1>3 DEF RequestStep

\* Entering: the caps are read before anything is taken (src/proxy/concurrency.ts:44-48).
LEMMA EnterStep ==
    ASSUME PipelineInv, NEW r \in Requests, NEW k \in Keys, Enter(r, k)
    PROVE  \E p, s : RequestStep(r, p, s)
<1>1. /\ req[r] \in RequestType /\ req[r].phase = "new" /\ req[r].phase \notin Inside
      /\ Blank(req[r], stream[r]) /\ stream[r] = NoStream /\ TeeOK(stream[r]) /\ ~Lowers(req[r])
      /\ stream[r] \in StreamType /\ stream' = [stream EXCEPT ![r] = stream[r]]
  BY Before DEF Enter, RequestOK, PlaceOK, TeeOK, Lowers, Blank, Inside
<1>2. ASSUME NEW x \in {"client", "proxy"},
             Leave(r, [req[r] EXCEPT !.key = k, !.status = x]), UNCHANGED <<slots, keySlots>>
      PROVE  \E p, s : RequestStep(r, p, s)
  <2> DEFINE q == [req[r] EXCEPT !.key = k, !.status = x]
  <2>1. /\ q \in RequestType /\ q.phase = "new" /\ Blank(q, stream[r])
        /\ q.status \in {"proxy", "client"} /\ q.candidate = req[r].candidate
    BY <1>1 DEF RequestType, Statuses, Blank
  <2>2. Leave(r, q) /\ UNCHANGED <<stream, tokens, headroom, canary, alarm>>
    BY <1>2 DEF Enter
  <2>3. req[r].charge = "none"
    BY <1>1 DEF Blank
  <2> HIDE DEF q
  <2> QED
    BY <1>1, <1>2, <2>1, <2>2, <2>3, RefusedStep
<1>3. ASSUME keySlots[k] < MaxPerKey, slots < MaxInFlight,
             slots' = slots + 1, keySlots' = [keySlots EXCEPT ![k] = @ + 1],
             req' = [req EXCEPT ![r] = [req[r] EXCEPT !.key = k,
                        !.phase = IF r \in Discoveries THEN "upstream" ELSE "quota"]],
             UNCHANGED budget
      PROVE  \E p, s : RequestStep(r, p, s)
  <2> DEFINE q == [req[r] EXCEPT !.key = k,
                      !.phase = IF r \in Discoveries THEN "upstream" ELSE "quota"]
  <2>1. /\ q \in RequestType /\ q.phase = (IF r \in Discoveries THEN "upstream" ELSE "quota")
        /\ Blank(q, stream[r]) /\ q.key = k /\ q.remaining = "unknown"
        /\ q.candidate = req[r].candidate
    BY <1>1, Before DEF RequestType, Phases, Inside, Blank, RequestOK, PlaceOK
  <2>2. req' = [req EXCEPT ![r] = q]
    BY <1>3
  <2> HIDE DEF q
  <2>3. RequestOK(r, q, stream[r])
    BY <1>1, <2>1 DEF RequestOK, PlaceOK, Blank, Traceless, Inside
  <2>4. SlotStep(r, q)
    BY <1>1, <1>3, <2>1 DEF SlotStep, Inside
  <2>5. SignalStep(r, q)
    BY <1>1, <2>1, SilentSignals DEF Blank, Enter
  <2>6. RestType /\ DecisionStep(r, q)
    BY <1>3, <2>1, Before DEF Enter, RestType, DecisionStep
  <2> QED
    BY <1>1, <2>1, <2>2, <2>3, <2>4, <2>5, <2>6 DEF RequestStep
<1> QED
  BY <1>1, <1>2, <1>3 DEF Enter

\* What a request inside the limiters has, and what it leaves as when the
\* handler throws (src/app.ts, onError).
LEMMA Throws ==
    ASSUME PipelineInv, NEW r \in Requests, NEW q \in RequestType,
           req[r].phase \in {"quota", "body", "upstream"},
           q.phase = req[r].phase, q.key = req[r].key, q.candidate = req[r].candidate,
           q.rows = 0, q.logged = "no", q.charge = "none", q.status \in {"proxy", "client"},
           LeaveSlot(r, q), UNCHANGED <<stream, tokens, headroom, canary, alarm>>
    PROVE  \E p, s : RequestStep(r, p, s)
<1>1. /\ Blank(req[r], stream[r]) /\ TeeOK(stream[r]) /\ ~Lowers(req[r])
  BY Before DEF RequestOK, PlaceOK, Lowers, Blank
<1>2. stream[r] = NoStream /\ Blank(q, stream[r]) /\ req[r].charge = "none"
  BY <1>1 DEF Blank, TeeOK
<1>3. Leave(r, q) /\ GiveBack(q.key, q.status) /\ req[r].phase \in Inside
  BY DEF LeaveSlot, Inside
<1> QED
  BY <1>1, <1>2, <1>3, RefusedStep

\* The handler up to the call of Anthropic (src/proxy/messages.ts).
LEMMA QuotaStep ==
    ASSUME PipelineInv, NEW r \in Requests, QuotaChecked(r)
    PROVE  \E p, s : RequestStep(r, p, s)
<1>1. req[r] \in RequestType /\ req[r].phase = "quota" /\ RequestOK(r, req[r], stream[r])
  BY Before DEF QuotaChecked
<1>2. CASE LeaveSlot(r, [req[r] EXCEPT !.status = "proxy"])
  <2> DEFINE q == [req[r] EXCEPT !.status = "proxy"]
  <2>1. /\ q \in RequestType /\ q.phase = req[r].phase /\ q.key = req[r].key
        /\ q.candidate = req[r].candidate /\ q.rows = 0 /\ q.logged = "no" /\ q.charge = "none"
        /\ q.status \in {"proxy", "client"}
    BY <1>1 DEF RequestType, Statuses, RequestOK, PlaceOK, Blank
  <2>2. LeaveSlot(r, q) /\ UNCHANGED <<stream, tokens, headroom, canary, alarm>>
    BY <1>2 DEF QuotaChecked
  <2> HIDE DEF q
  <2> QED
    BY <1>1, <2>1, <2>2, Throws
<1>3. CASE req' = [req EXCEPT ![r].phase = "body"] /\ UNCHANGED <<slots, keySlots, budget>>
  <2> DEFINE q == [req[r] EXCEPT !.phase = "body"]
  <2>1. /\ q \in RequestType /\ req' = [req EXCEPT ![r] = q] /\ q.phase = "body"
        /\ q.key = req[r].key /\ q.candidate = req[r].candidate /\ q.remaining = req[r].remaining
        /\ q.rows = req[r].rows /\ q.logged = req[r].logged /\ q.charge = req[r].charge
        /\ q.status = req[r].status
    BY <1>1, <1>3, Before DEF RequestType, Phases, Inside
  <2> HIDE DEF q
  <2>2. RequestOK(r, q, stream[r])
    BY <1>1, <2>1 DEF RequestOK, PlaceOK, Blank, Traceless, Inside
  <2>3. UNCHANGED <<stream, tokens, headroom, canary, alarm>>
    BY DEF QuotaChecked
  <2>4. SignalStep(r, q)
    BY <1>1, <2>1, <2>3, SilentSignals DEF RequestOK, PlaceOK, Blank, Lowers
  <2>5. stream[r] \in StreamType /\ stream' = [stream EXCEPT ![r] = stream[r]]
    BY <2>3, Before
  <2>6. SlotStep(r, q) /\ RestType /\ DecisionStep(r, q)
    BY <1>1, <1>3, <2>1, <2>3, Before DEF SlotStep, Inside, RestType, DecisionStep
  <2> QED
    BY <2>1, <2>2, <2>4, <2>5, <2>6 DEF RequestStep
<1> QED
  BY <1>2, <1>3 DEF QuotaChecked

LEMMA BodyParsedStep ==
    ASSUME PipelineInv, NEW r \in Requests, BodyParsed(r)
    PROVE  \E p, s : RequestStep(r, p, s)
<1>1. req[r] \in RequestType /\ req[r].phase = "body" /\ RequestOK(r, req[r], stream[r])
  BY Before DEF BodyParsed
<1>2. CASE LeaveSlot(r, [req[r] EXCEPT !.status = "client"])
  <2> DEFINE q == [req[r] EXCEPT !.status = "client"]
  <2>1. /\ q \in RequestType /\ q.phase = req[r].phase /\ q.key = req[r].key
        /\ q.candidate = req[r].candidate /\ q.rows = 0 /\ q.logged = "no" /\ q.charge = "none"
        /\ q.status \in {"proxy", "client"}
    BY <1>1 DEF RequestType, Statuses, RequestOK, PlaceOK, Blank
  <2>2. LeaveSlot(r, q) /\ UNCHANGED <<stream, tokens, headroom, canary, alarm>>
    BY <1>2 DEF BodyParsed
  <2> HIDE DEF q
  <2> QED
    BY <1>1, <2>1, <2>2, Throws
<1>3. ASSUME NEW c \in MayUseCandidate,
             req' = [req EXCEPT ![r] = [@ EXCEPT !.phase = "upstream", !.candidate = c]],
             UNCHANGED <<slots, keySlots, budget>>
      PROVE  \E p, s : RequestStep(r, p, s)
  <2> DEFINE q == [req[r] EXCEPT !.phase = "upstream", !.candidate = c]
  <2>1. /\ q \in RequestType /\ req' = [req EXCEPT ![r] = q] /\ q.phase = "upstream"
        /\ q.key = req[r].key /\ q.candidate = c /\ q.remaining = req[r].remaining
        /\ q.rows = req[r].rows /\ q.logged = req[r].logged /\ q.charge = req[r].charge
        /\ q.status = req[r].status
    BY <1>1, <1>3, Before DEF RequestType, Phases, Inside, MayUseCandidate
  <2> HIDE DEF q
  <2>2. RequestOK(r, q, stream[r])
    BY <1>1, <2>1 DEF RequestOK, PlaceOK, Blank, Traceless, Inside
  <2>3. UNCHANGED <<stream, tokens, headroom, canary, alarm>>
    BY DEF BodyParsed
  <2>4. SignalStep(r, q)
    BY <1>1, <2>1, <2>3, SilentSignals DEF RequestOK, PlaceOK, Blank, Lowers
  <2>5. stream[r] \in StreamType /\ stream' = [stream EXCEPT ![r] = stream[r]]
    BY <2>3, Before
  <2>6. SlotStep(r, q) /\ RestType /\ DecisionStep(r, q)
    BY <1>1, <1>3, <2>1, <2>3, Before DEF SlotStep, Inside, RestType, DecisionStep, MayUseCandidate
  <2> QED
    BY <2>1, <2>2, <2>4, <2>5, <2>6 DEF RequestStep
<1> QED
  BY <1>2, <1>3 DEF BodyParsed

LEMMA UpstreamFailsStep ==
    ASSUME PipelineInv, NEW r \in Requests, UpstreamFails(r)
    PROVE  \E p, s : RequestStep(r, p, s)
<1> DEFINE q == [req[r] EXCEPT !.status = "proxy"]
<1>1. req[r] \in RequestType /\ req[r].phase = "upstream" /\ RequestOK(r, req[r], stream[r])
  BY Before DEF UpstreamFails
<1>2. /\ q \in RequestType /\ q.phase = req[r].phase /\ q.key = req[r].key
      /\ q.candidate = req[r].candidate /\ q.rows = 0 /\ q.logged = "no" /\ q.charge = "none"
      /\ q.status \in {"proxy", "client"}
  BY <1>1 DEF RequestType, Statuses, RequestOK, PlaceOK, Blank
<1>3. LeaveSlot(r, q) /\ UNCHANGED <<stream, tokens, headroom, canary, alarm>>
  BY DEF UpstreamFails
<1> HIDE DEF q
<1> QED
  BY <1>1, <1>2, <1>3, Throws

\* The models handler passes an answer on and reports nothing (src/proxy/models.ts).
LEMMA DiscoveryStep ==
    ASSUME PipelineInv, NEW r \in Requests, DiscoveryAnswered(r)
    PROVE  \E p, s : RequestStep(r, p, s)
<1>1. /\ req[r] \in RequestType /\ req[r].phase = "upstream" /\ RequestOK(r, req[r], stream[r])
      /\ r \in Discoveries /\ UNCHANGED <<stream, tokens, headroom, canary, alarm>>
  BY Before DEF DiscoveryAnswered
<1>2. PICK x \in {"ok", "upstream"} : LeaveSlot(r, [req[r] EXCEPT !.status = x])
  BY DEF DiscoveryAnswered
<1> DEFINE q == [req[r] EXCEPT !.status = x]
<1>3. /\ q \in RequestType /\ q.phase = "upstream" /\ q.key = req[r].key
      /\ q.candidate = req[r].candidate /\ Traceless(q, stream[r]) /\ q.remaining = "unknown"
  BY <1>1 DEF RequestType, Statuses, RequestOK, PlaceOK, Traceless
<1>4. Leave(r, q) /\ GiveBack(q.key, q.status)
  BY <1>2 DEF LeaveSlot
<1> HIDE DEF q
<1>5. PICK p \in RequestType :
              /\ req' = [req EXCEPT ![r] = p] /\ RequestOK(r, p, stream[r])
              /\ p.phase \notin Inside /\ budget' \in 0..WriteBurst
              /\ p.status = q.status /\ p.charge = q.charge /\ p.candidate = q.candidate
              /\ p.tier = q.tier /\ p.remaining = q.remaining
  BY <1>1, <1>3, <1>4, LeaveStep DEF LeaveReady, RequestOK
<1>6. SlotStep(r, p)
  BY <1>1, <1>3, <1>4, <1>5 DEF SlotStep, GiveBack, Inside
<1>7. SignalStep(r, p)
  <2>1. req[r].charge = "none" /\ p.charge = "none" /\ ~Lowers(req[r])
    BY <1>1, <1>3, <1>5 DEF RequestOK, PlaceOK, Traceless, Lowers
  <2> QED
    BY <1>1, <2>1, SilentSignals
<1>8. stream[r] \in StreamType /\ stream' = [stream EXCEPT ![r] = stream[r]]
  BY <1>1, Before
<1>9. RestType /\ DecisionStep(r, p)
  BY <1>1, <1>3, <1>5, Before DEF RestType, DecisionStep
<1> QED
  BY <1>5, <1>6, <1>7, <1>8, <1>9 DEF RequestStep

\* Anthropic's headers: a stream is claimed and relayed, another body is read,
\* or the handler throws before it claims anything (src/proxy/messages.ts).
LEMMA AnswersStep ==
    ASSUME PipelineInv, NEW r \in Requests, UpstreamAnswers(r)
    PROVE  \E p, s : RequestStep(r, p, s)
<1>1. /\ req[r] \in RequestType /\ req[r].phase = "upstream" /\ RequestOK(r, req[r], stream[r])
      /\ r \notin Discoveries /\ UNCHANGED <<tokens, canary, alarm>>
      /\ stream \in [Requests -> StreamType] /\ stream[r] \in StreamType
  BY Before DEF UpstreamAnswers
<1>2. /\ stream[r] = NoStream /\ Blank(req[r], NoStream) /\ ~Lowers(req[r]) /\ req[r].key \in Keys
      /\ req[r].phase \in Inside /\ TeeOK(NoStream)
  BY <1>1 DEF RequestOK, PlaceOK, Lowers, TeeOK, Blank, Inside, NoStream
<1>3. PICK x \in {"ok", "upstream"}, h \in Headrooms :
          LET q == [req[r] EXCEPT !.status = x, !.remaining = h, !.logged = Claim] IN
          /\ ObserveHeaders(q)
          /\ \/ LeaveSlot(r, [q EXCEPT !.status = "proxy"]) /\ UNCHANGED stream
             \/ /\ x = "ok"
                /\ LeaveSlot(r, [q EXCEPT !.logged = "yes"])
                /\ stream' = [stream EXCEPT ![r].source = "open"]
             \/ /\ req' = [req EXCEPT ![r] = [q EXCEPT !.phase = "reading"]]
                /\ UNCHANGED <<stream, slots, keySlots, budget>>
  BY DEF UpstreamAnswers
<1> DEFINE q == [req[r] EXCEPT !.status = x, !.remaining = h, !.logged = Claim]
<1>4. /\ q \in RequestType /\ q.phase = "upstream" /\ q.key = req[r].key
      /\ q.candidate = req[r].candidate /\ q.rows = 0 /\ q.logged = "no" /\ q.charge = "none"
      /\ q.status = x /\ q.remaining = h
  BY <1>1, <1>2 DEF RequestType, Statuses, Claim, Blank
<1>5. /\ ObserveHeaders(q)
      /\ \/ LeaveSlot(r, [q EXCEPT !.status = "proxy"]) /\ UNCHANGED stream
         \/ /\ x = "ok"
            /\ LeaveSlot(r, [q EXCEPT !.logged = "yes"])
            /\ stream' = [stream EXCEPT ![r].source = "open"]
         \/ /\ req' = [req EXCEPT ![r] = [q EXCEPT !.phase = "reading"]]
            /\ UNCHANGED <<stream, slots, keySlots, budget>>
  BY <1>3
<1> HIDE DEF q
<1>6. headroom' \in Headrooms /\ (headroom' = "low" => headroom = "low" \/ (x = "ok" /\ h = "low"))
  BY <1>4, <1>5, Before DEF ObserveHeaders
<1>7. ASSUME NEW p \in RequestType, p.charge = "none", p.remaining = h, p.status \in {x, "proxy"}
      PROVE  SignalStep(r, p)
  BY <1>1, <1>2, <1>6, <1>7 DEF SignalStep, Trips, Tells, Lowers, Blank
<1>8. CASE LeaveSlot(r, [q EXCEPT !.status = "proxy"]) /\ UNCHANGED stream
  <2> DEFINE z == [q EXCEPT !.status = "proxy"]
  <2>1. /\ z \in RequestType /\ z.phase = "upstream" /\ z.key = req[r].key
        /\ z.candidate = req[r].candidate /\ z.rows = 0 /\ z.logged = "no" /\ z.charge = "none"
        /\ z.status = "proxy" /\ z.remaining = h
    BY <1>4 DEF RequestType, Statuses
  <2>2. Leave(r, z) /\ GiveBack(z.key, z.status)
    BY <1>8 DEF LeaveSlot
  <2> HIDE DEF z
  <2>3. Failed(z, NoStream)
    BY <2>1 DEF Failed, NoStream
  <2>4. PICK p \in RequestType :
              /\ req' = [req EXCEPT ![r] = p] /\ RequestOK(r, p, NoStream)
              /\ p.phase \notin Inside /\ budget' \in 0..WriteBurst
              /\ p.status = z.status /\ p.charge = z.charge /\ p.candidate = z.candidate
              /\ p.tier = z.tier /\ p.remaining = z.remaining
    BY <1>1, <1>2, <2>1, <2>2, <2>3, LeaveStep DEF LeaveReady
  <2>5. SlotStep(r, p) /\ SignalStep(r, p) /\ DecisionStep(r, p) /\ RestType
    BY <1>1, <1>2, <1>6, <1>7, <2>1, <2>2, <2>4, Before DEF SlotStep, GiveBack, DecisionStep, RestType
  <2>6. stream' = [stream EXCEPT ![r] = stream[r]]
    BY <1>1, <1>8
  <2> QED
    BY <1>1, <1>2, <2>4, <2>5, <2>6 DEF RequestStep
<1>9. CASE /\ x = "ok"
           /\ LeaveSlot(r, [q EXCEPT !.logged = "yes"])
           /\ stream' = [stream EXCEPT ![r].source = "open"]
  <2> DEFINE z == [q EXCEPT !.logged = "yes"]
             s == [stream[r] EXCEPT !.source = "open"]
  <2>1. /\ z \in RequestType /\ z.phase = "upstream" /\ z.key = req[r].key
        /\ z.candidate = req[r].candidate /\ z.rows = 0 /\ z.logged = "yes" /\ z.charge = "none"
        /\ z.status = "ok" /\ z.remaining = h
    BY <1>4, <1>9 DEF RequestType, Statuses
  <2>2. Leave(r, z) /\ GiveBack(z.key, z.status)
    BY <1>9 DEF LeaveSlot
  <2>3. s \in StreamType /\ stream' = [stream EXCEPT ![r] = s]
    BY <1>1, <1>9 DEF StreamType
  <2>4. /\ s.source = "open" /\ s.sent = 0 /\ s.sniffed = 0 /\ s.kept = 0 /\ s.flushed = "no"
    BY <1>2 DEF NoStream
  <2> HIDE DEF z, s
  <2>5. Relayed(z, s) /\ TeeOK(s)
    BY <2>1, <2>4 DEF Relayed, TeeOK
  <2>6. PICK p \in RequestType :
              /\ req' = [req EXCEPT ![r] = p] /\ RequestOK(r, p, s)
              /\ p.phase \notin Inside /\ budget' \in 0..WriteBurst
              /\ p.status = z.status /\ p.charge = z.charge /\ p.candidate = z.candidate
              /\ p.tier = z.tier /\ p.remaining = z.remaining
    BY <1>1, <2>1, <2>2, <2>5, LeaveStep DEF LeaveReady
  <2>7. SlotStep(r, p) /\ SignalStep(r, p) /\ DecisionStep(r, p) /\ RestType
    BY <1>1, <1>2, <1>6, <1>7, <1>9, <2>1, <2>2, <2>6, Before
    DEF SlotStep, GiveBack, DecisionStep, RestType
  <2> QED
    BY <2>3, <2>6, <2>7 DEF RequestStep
<1>10. CASE /\ req' = [req EXCEPT ![r] = [q EXCEPT !.phase = "reading"]]
            /\ UNCHANGED <<stream, slots, keySlots, budget>>
  <2> DEFINE z == [q EXCEPT !.phase = "reading"]
  <2>1. /\ z \in RequestType /\ z.phase = "reading" /\ z.key = req[r].key
        /\ z.candidate = req[r].candidate /\ z.rows = 0 /\ z.logged = "no" /\ z.charge = "none"
        /\ z.status = x /\ z.remaining = h
    BY <1>4 DEF RequestType, Phases, Inside
  <2>2. req' = [req EXCEPT ![r] = z]
    BY <1>10
  <2> HIDE DEF z
  <2>3. RequestOK(r, z, NoStream)
    BY <1>1, <1>2, <2>1 DEF RequestOK, PlaceOK, Blank, NoStream
  <2>4. SlotStep(r, z) /\ SignalStep(r, z) /\ DecisionStep(r, z) /\ RestType
    BY <1>1, <1>2, <1>6, <1>7, <1>10, <2>1, Before DEF SlotStep, DecisionStep, RestType, Inside
  <2>5. stream' = [stream EXCEPT ![r] = stream[r]]
    BY <1>1, <1>10
  <2> QED
    BY <1>1, <1>2, <2>1, <2>2, <2>3, <2>4, <2>5 DEF RequestStep
<1> QED
  BY <1>5, <1>8, <1>9, <1>10

\* What a reported usage of tier t does to canary and alarm
\* (src/proxy/messages.ts, onUsage).
LEMMA ReportSignals ==
    ASSUME PipelineInv, NEW r \in Requests, NEW q \in RequestType, NEW p, Signal(q),
           q.charge = "due", q.tier \in {"standard", "other", "header"},
           req[r].charge = "none", q.remaining = req[r].remaining, q.status = req[r].status,
           p.status = q.status, p.charge = q.charge, p.candidate = q.candidate, p.tier = q.tier,
           p.remaining = q.remaining, UNCHANGED headroom
    PROVE  SignalStep(r, p)
  BY DEF Signal, ObserveBilling, TripCanary, SignalStep, Trips, Tells, Lowers

\* A row is written (src/proxy/messages.ts).
LEMMA RowFields ==
    ASSUME NEW q \in RequestType, q.rows = 0, NEW n \in Nat
    PROVE  /\ Row(q, n) \in RequestType
           /\ Row(q, n).rows = 1 /\ Row(q, n).source = "upstream" /\ Row(q, n).written = n
           /\ Row(q, n).phase = q.phase /\ Row(q, n).key = q.key /\ Row(q, n).status = q.status
           /\ Row(q, n).candidate = q.candidate /\ Row(q, n).tier = q.tier
           /\ Row(q, n).remaining = q.remaining /\ Row(q, n).charge = q.charge
           /\ Row(q, n).used = q.used /\ Row(q, n).logged = q.logged
<1>1. q.rows + 1 = 1 /\ 1 \in Nat
  OBVIOUS
<1>2. Row(q, n) = [q EXCEPT !.rows = 1, !.source = "upstream", !.written = n]
  BY <1>1 DEF Row
<1> QED
  BY <1>1, <1>2 DEF RequestType

\* A body read whole: reported, logged, claimed, and the slot given back
\* (src/proxy/messages.ts, the buffered answer).
LEMMA BodyReadStep ==
    ASSUME PipelineInv, NEW r \in Requests, BodyRead(r)
    PROVE  \E p, s : RequestStep(r, p, s)
<1>1. /\ req[r] \in RequestType /\ req[r].phase = "reading" /\ RequestOK(r, req[r], stream[r])
      /\ UNCHANGED <<stream, tokens, headroom>> /\ stream[r] \in StreamType
      /\ stream' = [stream EXCEPT ![r] = stream[r]]
  BY Before DEF BodyRead
<1>2. /\ stream[r] = NoStream /\ Blank(req[r], NoStream) /\ req[r].key \in Keys
      /\ req[r].phase \in Inside /\ TeeOK(NoStream) /\ r \notin Discoveries
      /\ req[r].status \in {"ok", "upstream"}
  BY <1>1 DEF RequestOK, PlaceOK, TeeOK, Blank, Inside, NoStream
<1>3. ASSUME NEW n \in 1..MaxEvents, NEW t \in TierOf(1),
             LeaveSlot(r, [Row(Reported(req[r], n, t), n) EXCEPT !.logged = "yes"]),
             Signal(Reported(req[r], n, t))
      PROVE  \E p, s : RequestStep(r, p, s)
  <2> DEFINE q == Reported(req[r], n, t)
             z == [Row(q, n) EXCEPT !.logged = "yes"]
  <2>1. t \in {"standard", "other", "header"} /\ t \in Tiers /\ n \in Nat
    BY PipelineAssumption DEF TierOf, Tiers
  <2>2. /\ q \in RequestType /\ q.charge = "due" /\ q.tier = t /\ q.remaining = req[r].remaining
        /\ q.status = req[r].status /\ q.candidate = req[r].candidate
        /\ q.phase = req[r].phase /\ q.key = req[r].key /\ q.rows = 0 /\ q.used = n
    BY <1>1, <1>2, <2>1 DEF RequestType, Reported, Blank
  <2>3. Leave(r, z) /\ GiveBack(z.key, z.status)
    BY <1>3 DEF LeaveSlot
  <2>4. Signal(q)
    BY <1>3
  <2> HIDE DEF q
  <2>5. /\ z \in RequestType /\ z.charge = "due" /\ z.tier = t /\ z.remaining = req[r].remaining
        /\ z.status = req[r].status /\ z.candidate = req[r].candidate
        /\ z.phase = "reading" /\ z.key = req[r].key /\ z.rows = 1 /\ z.used = n
        /\ z.source = "upstream" /\ z.written = n /\ z.logged = "yes"
    <3>1. /\ Row(q, n) \in RequestType
          /\ Row(q, n).rows = 1 /\ Row(q, n).source = "upstream" /\ Row(q, n).written = n
          /\ Row(q, n).phase = "reading" /\ Row(q, n).key = req[r].key
          /\ Row(q, n).status = req[r].status /\ Row(q, n).candidate = req[r].candidate
          /\ Row(q, n).tier = t /\ Row(q, n).remaining = req[r].remaining
          /\ Row(q, n).charge = "due" /\ Row(q, n).used = n
      BY <1>1, <2>1, <2>2, RowFields
    <3> QED
      BY <3>1 DEF RequestType
  <2> HIDE DEF z
  <2>6. Buffered(z, NoStream)
    BY <1>2, <2>5 DEF Buffered, NoStream
  <2>7. PICK p \in RequestType :
              /\ req' = [req EXCEPT ![r] = p] /\ RequestOK(r, p, NoStream)
              /\ p.phase \notin Inside /\ budget' \in 0..WriteBurst
              /\ p.status = z.status /\ p.charge = z.charge /\ p.candidate = z.candidate
              /\ p.tier = z.tier /\ p.remaining = z.remaining
    <3>1. z.phase # "answered" /\ r \notin Discoveries /\ TeeOK(NoStream)
      BY <1>2, <2>5
    <3> QED
      BY <2>3, <2>5, <2>6, <3>1, LeaveStep DEF LeaveReady
  <2>8. SignalStep(r, p)
    BY <1>1, <1>2, <2>1, <2>2, <2>4, <2>5, <2>7, ReportSignals DEF Blank
  <2>9. SlotStep(r, p) /\ DecisionStep(r, p) /\ RestType
    BY <1>1, <1>2, <2>3, <2>5, <2>7, Before DEF SlotStep, GiveBack, DecisionStep, RestType
  <2> QED
    BY <1>1, <1>2, <2>7, <2>8, <2>9 DEF RequestStep
<1>4. CASE /\ LeaveSlot(r, [Row(req[r], 0) EXCEPT !.logged = "yes"])
           /\ UNCHANGED <<canary, alarm>>
  <2> DEFINE z == [Row(req[r], 0) EXCEPT !.logged = "yes"]
  <2>1. Leave(r, z) /\ GiveBack(z.key, z.status)
    BY <1>4 DEF LeaveSlot
  <2>2. /\ z \in RequestType /\ z.charge = "none" /\ z.remaining = req[r].remaining
        /\ z.status = req[r].status /\ z.candidate = req[r].candidate
        /\ z.phase = "reading" /\ z.key = req[r].key /\ z.rows = 1
        /\ z.source = "upstream" /\ z.logged = "yes"
    <3>1. /\ Row(req[r], 0) \in RequestType
          /\ Row(req[r], 0).rows = 1 /\ Row(req[r], 0).source = "upstream"
          /\ Row(req[r], 0).phase = "reading" /\ Row(req[r], 0).key = req[r].key
          /\ Row(req[r], 0).status = req[r].status /\ Row(req[r], 0).candidate = req[r].candidate
          /\ Row(req[r], 0).remaining = req[r].remaining /\ Row(req[r], 0).charge = "none"
      BY <1>1, <1>2, RowFields DEF Blank
    <3> QED
      BY <3>1 DEF RequestType
  <2> HIDE DEF z
  <2>3. Buffered(z, NoStream)
    BY <1>2, <2>2 DEF Buffered, NoStream
  <2>4. PICK p \in RequestType :
              /\ req' = [req EXCEPT ![r] = p] /\ RequestOK(r, p, NoStream)
              /\ p.phase \notin Inside /\ budget' \in 0..WriteBurst
              /\ p.status = z.status /\ p.charge = z.charge /\ p.candidate = z.candidate
              /\ p.tier = z.tier /\ p.remaining = z.remaining
    <3>1. z.phase # "answered" /\ r \notin Discoveries /\ TeeOK(NoStream)
      BY <1>2, <2>2
    <3> QED
      BY <2>1, <2>2, <2>3, <3>1, LeaveStep DEF LeaveReady
  <2>5. SignalStep(r, p)
    BY <1>1, <1>2, <1>4, <2>2, <2>4, SilentSignals DEF Blank, Lowers
  <2>6. SlotStep(r, p) /\ DecisionStep(r, p) /\ RestType
    BY <1>1, <1>2, <2>1, <2>2, <2>4, Before DEF SlotStep, GiveBack, DecisionStep, RestType
  <2> QED
    BY <1>1, <1>2, <2>4, <2>5, <2>6 DEF RequestStep
<1> QED
  BY <1>3, <1>4 DEF BodyRead

\* The observer writes the one row of a failed request (src/proxy/observe-outcome.ts).
LEMMA ObserverStep ==
    ASSUME PipelineInv, NEW r \in Requests, ObserverRecords(r)
    PROVE  \E p, s : RequestStep(r, p, s)
<1> DEFINE q == [req[r] EXCEPT !.phase = "answered", !.rows = req[r].rows + 1,
                    !.source = SourceOf(req[r].status)]
<1>1. /\ req[r] \in RequestType /\ req[r].phase = "observing" /\ RequestOK(r, req[r], stream[r])
      /\ UNCHANGED <<stream, slots, keySlots, tokens, headroom, canary, alarm, budget>>
      /\ stream[r] \in StreamType /\ stream' = [stream EXCEPT ![r] = stream[r]]
  BY Before DEF ObserverRecords
<1>2. /\ Blank(req[r], stream[r]) /\ req[r].status \in {"proxy", "client"} /\ r \notin Discoveries
  BY <1>1 DEF RequestOK, PlaceOK
<1>3. /\ q \in RequestType /\ req' = [req EXCEPT ![r] = q] /\ q.phase = "answered"
      /\ q.rows = 1 /\ q.source = SourceOf(q.status) /\ q.status = req[r].status
      /\ q.logged = "no" /\ q.charge = "none" /\ q.candidate = req[r].candidate
      /\ q.remaining = req[r].remaining
  <2>1. req[r].rows + 1 = 1 /\ 1 \in Nat
    BY <1>2 DEF Blank
  <2>2. SourceOf(req[r].status) \in {"proxy", "client"}
    BY DEF SourceOf
  <2>3. q = [req[r] EXCEPT !.phase = "answered", !.rows = 1, !.source = SourceOf(req[r].status)]
    BY <2>1
  <2>4. req' = [req EXCEPT ![r] = q]
    BY DEF ObserverRecords
  <2> HIDE DEF q
  <2> QED
    BY <1>1, <1>2, <2>1, <2>2, <2>3, <2>4 DEF RequestType, Phases, Blank
<1> HIDE DEF q
<1>4. RequestOK(r, q, stream[r])
  BY <1>1, <1>2, <1>3 DEF RequestOK, PlaceOK, Blank, Refused, Failed, Inside
<1>5. SignalStep(r, q)
  BY <1>1, <1>2, <1>3, SilentSignals DEF Blank, Lowers
<1>6. SlotStep(r, q) /\ DecisionStep(r, q) /\ RestType
  BY <1>1, <1>3, Before DEF SlotStep, DecisionStep, RestType, Inside
<1> QED
  BY <1>1, <1>3, <1>4, <1>5, <1>6 DEF RequestStep

\* The relayed stream and its tee (src/proxy/response-tap.ts, src/usage/sniff.ts).
LEMMA RelayStep ==
    ASSUME PipelineInv, NEW r \in Requests,
           Emit(r) \/ End(r) \/ Break(r) \/ Disconnect(r) \/ Sniff(r) \/ Keep(r)
    PROVE  \E p, s : RequestStep(r, p, s)
<1> DEFINE t == stream[r]
<1>1. /\ t \in StreamType /\ TeeOK(t) /\ t.source # "none"
      /\ UNCHANGED <<req, slots, keySlots, tokens, headroom, canary, alarm, budget>>
      /\ stream \in [Requests -> StreamType]
  BY Before DEF RequestOK, Emit, End, Break, Disconnect, Sniff, Keep, StreamFrame
<1>2. CASE Emit(r)
  <2> DEFINE s == [t EXCEPT !.sent = t.sent + 1]
  <2>1. s \in StreamType /\ TeeOK(s) /\ stream' = [stream EXCEPT ![r] = s]
    BY <1>1, <1>2 DEF StreamType, TeeOK, Emit
  <2>2. s.source # "none" /\ s.flushed = t.flushed /\ t.source = "open"
    BY <1>1, <1>2 DEF StreamType, Emit
  <2> QED
    BY <1>1, <2>1, <2>2, StreamStep
<1>3. CASE End(r)
  <2> DEFINE s == [t EXCEPT !.source = "ended"]
  <2>1. s \in StreamType /\ TeeOK(s) /\ stream' = [stream EXCEPT ![r] = s]
    BY <1>1, <1>3 DEF StreamType, TeeOK, End
  <2>2. s.source # "none" /\ s.flushed = t.flushed /\ t.source = "open"
    BY <1>1, <1>3 DEF StreamType, End
  <2> QED
    BY <1>1, <2>1, <2>2, StreamStep
<1>4. CASE Break(r)
  <2> DEFINE s == [t EXCEPT !.source = "broken"]
  <2>1. s \in StreamType /\ TeeOK(s) /\ stream' = [stream EXCEPT ![r] = s]
    BY <1>1, <1>4 DEF StreamType, TeeOK, Break
  <2>2. s.source # "none" /\ s.flushed = t.flushed /\ t.source = "open"
    BY <1>1, <1>4 DEF StreamType, Break
  <2> QED
    BY <1>1, <2>1, <2>2, StreamStep
<1>5. CASE Disconnect(r)
  <2> DEFINE s == [t EXCEPT !.client = "gone"]
  <2>1. s \in StreamType /\ TeeOK(s) /\ stream' = [stream EXCEPT ![r] = s]
    BY <1>1, <1>5 DEF StreamType, TeeOK, Disconnect
  <2>2. s.source = t.source /\ s.sent = t.sent /\ s.flushed = t.flushed
    BY <1>1, <1>5 DEF StreamType, Disconnect
  <2> QED
    BY <1>1, <2>1, <2>2, StreamStep
<1>6. CASE Sniff(r)
  <2> DEFINE s == [t EXCEPT !.sniffed = t.sniffed + 1]
  <2>1. s \in StreamType /\ TeeOK(s) /\ stream' = [stream EXCEPT ![r] = s]
    BY <1>1, <1>6 DEF StreamType, TeeOK, Sniff
  <2>2. s.source = t.source /\ s.sent = t.sent /\ s.flushed = t.flushed
    BY <1>1, <1>6 DEF StreamType, Sniff
  <2> QED
    BY <1>1, <2>1, <2>2, StreamStep
<1>7. CASE Keep(r)
  <2> DEFINE s == [t EXCEPT !.kept = t.kept + 1]
  <2>1. s \in StreamType /\ TeeOK(s) /\ stream' = [stream EXCEPT ![r] = s]
    BY <1>1, <1>7 DEF StreamType, TeeOK, Keep
  <2>2. s.source = t.source /\ s.sent = t.sent /\ s.flushed = t.flushed
    BY <1>1, <1>7 DEF StreamType, Keep
  <2> QED
    BY <1>1, <2>1, <2>2, StreamStep
<1> QED
  BY <1>2, <1>3, <1>4, <1>5, <1>6, <1>7

\* A request whose answer is a stream has been answered and claimed.
LEMMA StreamIsRelayed ==
    ASSUME PipelineInv, NEW r \in Requests, stream[r].source # "none"
    PROVE  /\ req[r].phase = "answered" /\ r \notin Discoveries /\ Relayed(req[r], stream[r])
           /\ TeeOK(stream[r]) /\ req[r] \in RequestType /\ stream[r] \in StreamType
  BY Before DEF RequestOK, PlaceOK, Blank, Traceless, Buffered, Refused, Failed

\* The sniffer's flush reports what the whole stream used (src/usage/sniff.ts:96-104).
LEMMA FlushStep ==
    ASSUME PipelineInv, NEW r \in Requests, Flush(r)
    PROVE  \E p, s : RequestStep(r, p, s)
<1> DEFINE s == [stream[r] EXCEPT !.flushed = "yes"]
<1>1. /\ req[r].phase = "answered" /\ r \notin Discoveries /\ Relayed(req[r], stream[r])
      /\ TeeOK(stream[r]) /\ req[r] \in RequestType /\ stream[r] \in StreamType
  BY StreamIsRelayed DEF Flush
<1>2. /\ stream[r].source = "ended" /\ stream[r].flushed = "no"
      /\ stream[r].sniffed = stream[r].sent /\ req[r].charge = "none" /\ req[r].status = "ok"
      /\ UNCHANGED <<slots, keySlots, tokens, headroom, budget>>
  BY <1>1 DEF Flush, Relayed, StreamFrame
<1>3. PICK t \in TierOf(stream[r].sniffed) :
          /\ req' = [req EXCEPT ![r] = Reported(req[r], stream[r].sniffed, t)]
          /\ Signal(Reported(req[r], stream[r].sniffed, t))
  BY DEF Flush
<1> DEFINE q == Reported(req[r], stream[r].sniffed, t)
<1>4. t \in {"standard", "other", "header"} /\ t \in Tiers
  BY DEF TierOf, Tiers
<1>5. /\ q \in RequestType /\ q.charge = "due" /\ q.tier = t /\ q.remaining = req[r].remaining
      /\ q.status = req[r].status /\ q.candidate = req[r].candidate /\ q.phase = req[r].phase
      /\ q.key = req[r].key /\ q.rows = req[r].rows /\ q.used = stream[r].sent
      /\ q.written = req[r].written /\ q.source = req[r].source /\ q.logged = req[r].logged
  <2>1. stream[r].sniffed \in Nat
    BY <1>1 DEF StreamType
  <2>2. q = [req[r] EXCEPT !.charge = "due", !.used = stream[r].sniffed, !.tier = t]
    BY DEF Reported
  <2> HIDE DEF q
  <2> QED
    BY <1>1, <1>2, <1>4, <2>1, <2>2 DEF RequestType
<1>6. req' = [req EXCEPT ![r] = q] /\ Signal(q)
  BY <1>3
<1> HIDE DEF q
<1>7. /\ s \in StreamType /\ s.source = "ended" /\ s.sent = stream[r].sent /\ s.flushed = "yes"
      /\ s.sniffed = stream[r].sniffed /\ s.kept = stream[r].kept
  BY <1>1, <1>2 DEF StreamType
<1>8. stream' = [stream EXCEPT ![r] = s]
  BY DEF Flush
<1> HIDE DEF s
<1>9. RequestOK(r, q, s)
  BY <1>1, <1>2, <1>5, <1>7 DEF RequestOK, PlaceOK, TeeOK, Relayed, Inside
<1>10. SignalStep(r, q)
  BY <1>1, <1>2, <1>4, <1>5, <1>6, ReportSignals
<1>11. SlotStep(r, q) /\ DecisionStep(r, q) /\ RestType
  BY <1>1, <1>2, <1>5, Before DEF SlotStep, DecisionStep, RestType
<1> QED
  BY <1>5, <1>6, <1>7, <1>8, <1>9, <1>10, <1>11 DEF RequestStep

\* The row of a stream is written once, with what the log branch read.
LEMMA WriteRowStep ==
    ASSUME PipelineInv, NEW r \in Requests, WriteRow(r)
    PROVE  \E p, s : RequestStep(r, p, s)
<1> DEFINE q == Row(req[r], stream[r].kept)
<1>1. /\ req[r].phase = "answered" /\ r \notin Discoveries /\ Relayed(req[r], stream[r])
      /\ TeeOK(stream[r]) /\ req[r] \in RequestType /\ stream[r] \in StreamType
  BY StreamIsRelayed DEF WriteRow
<1>2. /\ req[r].rows = 0 /\ stream[r].kept \in Nat
      /\ (stream[r].source = "ended" /\ stream[r].kept = stream[r].sent) \/ stream[r].source = "broken"
      /\ req' = [req EXCEPT ![r] = q] /\ stream' = [stream EXCEPT ![r] = stream[r]]
      /\ UNCHANGED <<slots, keySlots, tokens, headroom, budget, canary, alarm>>
  BY <1>1, Before DEF WriteRow, StreamFrame, StreamType
<1>3. /\ q \in RequestType /\ q.rows = 1 /\ q.source = "upstream" /\ q.written = stream[r].kept
      /\ q.phase = req[r].phase /\ q.key = req[r].key /\ q.status = req[r].status
      /\ q.candidate = req[r].candidate /\ q.tier = req[r].tier
      /\ q.remaining = req[r].remaining /\ q.charge = req[r].charge
      /\ q.used = req[r].used /\ q.logged = req[r].logged
  BY <1>1, <1>2, RowFields
<1> HIDE DEF q
<1>4. RequestOK(r, q, stream[r])
  BY <1>1, <1>2, <1>3 DEF RequestOK, PlaceOK, Relayed, Inside
<1>5. SignalStep(r, q)
  BY <1>2, <1>3, SameSignals DEF Trips, Tells, Lowers
<1>6. SlotStep(r, q) /\ DecisionStep(r, q) /\ RestType
  BY <1>2, <1>3, Before DEF SlotStep, DecisionStep, RestType
<1> QED
  BY <1>1, <1>2, <1>3, <1>4, <1>5, <1>6 DEF RequestStep

\* The tracker adds the tokens, or fails (src/proxy/messages.ts, onUsage).
LEMMA ChargeStep ==
    ASSUME PipelineInv, NEW r \in Requests, Charge(r)
    PROVE  \E p, s : RequestStep(r, p, s)
<1>1. /\ req[r] \in RequestType /\ RequestOK(r, req[r], stream[r]) /\ req[r].charge = "due"
      /\ stream[r] \in StreamType /\ stream' = [stream EXCEPT ![r] = stream[r]]
      /\ UNCHANGED <<slots, keySlots, headroom, canary, alarm, budget>>
  BY Before DEF Charge
<1>2. PICK c \in {"done", "failed"} : req' = [req EXCEPT ![r].charge = c]
  BY DEF Charge
<1>3. tokens' \in [Keys -> Nat]
  <2>1. req[r].used \in Nat /\ tokens \in [Keys -> Nat]
    BY <1>1, Before DEF RequestType
  <2> QED
    BY <2>1 DEF Charge
<1> DEFINE q == [req[r] EXCEPT !.charge = c]
<1>4. /\ q \in RequestType /\ req' = [req EXCEPT ![r] = q] /\ q.charge = c
      /\ q.phase = req[r].phase /\ q.key = req[r].key /\ q.status = req[r].status
      /\ q.candidate = req[r].candidate /\ q.tier = req[r].tier /\ q.remaining = req[r].remaining
      /\ q.rows = req[r].rows /\ q.source = req[r].source /\ q.written = req[r].written
      /\ q.used = req[r].used /\ q.logged = req[r].logged /\ q.shed = req[r].shed
  BY <1>1, <1>2, Before DEF RequestType
<1> HIDE DEF q
<1>5. RequestOK(r, q, stream[r])
  BY <1>1, <1>4 DEF RequestOK, PlaceOK, Blank, Traceless, Buffered, Relayed, Refused, Failed
<1>6. SignalStep(r, q)
  BY <1>1, <1>4, SameSignals DEF Trips, Tells, Lowers
<1>7. SlotStep(r, q) /\ DecisionStep(r, q) /\ RestType
  BY <1>1, <1>3, <1>4, Before DEF SlotStep, DecisionStep, RestType
<1> QED
  BY <1>1, <1>4, <1>5, <1>6, <1>7 DEF RequestStep

-----------------------------------------------------------------------------
(* Results.                                                                 *)

LEMMA InitHolds == Init => PipelineInv
<1> SUFFICES ASSUME Init PROVE PipelineInv
  OBVIOUS
<1>1. TypeOK
  BY PipelineAssumption DEF Init, TypeOK, NewRequest, NoStream, Phases, Inside, Statuses, Tiers, Headrooms
<1>2. \A r \in Requests : RequestOK(r, req[r], stream[r])
  BY DEF Init, NewRequest, NoStream, RequestOK, PlaceOK, TeeOK, Blank, Traceless, Inside
<1>3. SignalsOK
  BY DEF Init, NewRequest, SignalsOK, Trips, Tells, Lowers
<1>4. SlotsAreHeld
  <2>1. InsideNow = {} /\ \A k \in Keys : {r \in InsideNow : req[r].key = k} = {}
    BY DEF Init, NewRequest, InsideNow, Inside
  <2> QED
    BY <2>1, FS_EmptySet, PipelineAssumption DEF Init, SlotsAreHeld
<1> QED
  BY <1>1, <1>2, <1>3, <1>4 DEF PipelineInv

\* A step keeps the invariant and the canary final.
LEMMA StepHolds ==
    ASSUME PipelineInv, [Next]_vars
    PROVE  /\ PipelineInv'
           /\ canary = "tripped" =>
                 /\ canary' = "tripped"
                 /\ \A o \in Requests : req[o].candidate = "no" => req'[o].candidate = "no"
<1>1. ASSUME NEW r \in Requests, NEW k \in Keys, Enter(r, k) PROVE \E p, s : RequestStep(r, p, s)
  BY <1>1, EnterStep
<1>2. ASSUME NEW r \in Requests,
             \/ ObserverRecords(r) \/ QuotaChecked(r) \/ BodyParsed(r) \/ UpstreamFails(r)
             \/ DiscoveryAnswered(r) \/ UpstreamAnswers(r) \/ BodyRead(r)
             \/ Emit(r) \/ End(r) \/ Break(r) \/ Disconnect(r) \/ Sniff(r) \/ Flush(r)
             \/ Keep(r) \/ WriteRow(r) \/ Charge(r)
      PROVE  \E p, s : RequestStep(r, p, s)
  BY <1>2, ObserverStep, QuotaStep, BodyParsedStep, UpstreamFailsStep, DiscoveryStep, AnswersStep,
     BodyReadStep, RelayStep, FlushStep, WriteRowStep, ChargeStep
<1>3. CASE Refill \/ UNCHANGED vars
  <2>1. /\ UNCHANGED <<req, stream, slots, keySlots, tokens, headroom, canary, alarm>>
        /\ budget' \in 0..WriteBurst
    BY <1>3, PipelineAssumption DEF Refill, vars, PipelineInv, TypeOK
  <2>2. TypeOK'
    BY <2>1 DEF PipelineInv, TypeOK
  <2>3. SignalsOK' /\ SlotsAreHeld'
    BY <2>1 DEF PipelineInv, SignalsOK, SlotsAreHeld, InsideNow
  <2>4. \A r \in Requests : RequestOK(r, req[r], stream[r])'
    BY <2>1 DEF PipelineInv, RequestOK, PlaceOK, TeeOK, Blank, Traceless, Buffered, Relayed,
                Refused, Failed
  <2> QED
    BY <2>1, <2>2, <2>3, <2>4 DEF PipelineInv
<1>4. CASE \E r \in Requests : \E p, s : RequestStep(r, p, s)
  BY <1>4, RequestStepKeeps
<1> QED
  BY <1>1, <1>2, <1>3, <1>4 DEF Next

LEMMA InvHolds == Spec => []PipelineInv
<1>1. PipelineInv /\ [Next]_vars => PipelineInv'
  BY StepHolds
<1> QED
  BY <1>1, InitHolds, PTL DEF Spec

\* Every variable has the values the code gives it.
THEOREM TypeCorrect == Spec => []TypeOK
<1>1. PipelineInv => TypeOK
  BY DEF PipelineInv
<1> QED
  BY <1>1, InvHolds, PTL

\* However requests end, both limiters count exactly those inside and admit
\* within their caps (src/proxy/concurrency.ts).
THEOREM CapsHold == Spec => []SlotsAreHeld
<1>1. PipelineInv => SlotsAreHeld
  BY DEF PipelineInv
<1> QED
  BY <1>1, InvHolds, PTL

\* Handler and observer together leave one row of an answered request, and it
\* says whose answer it was (src/proxy/messages.ts, src/proxy/observe-outcome.ts).
THEOREM RowsAreOneAndTrue == Spec => []OneRowEach
<1>1. PipelineInv => OneRowEach
  <2> SUFFICES ASSUME PipelineInv, NEW r \in Requests
               PROVE  /\ req[r].rows <= 1
                      /\ r \notin Discoveries /\ req[r].phase = "answered" =>
                            req[r].rows = 1 \/ req[r].shed = "yes" \/ stream[r].source # "none"
                      /\ req[r].rows > 0 =>
                            /\ req[r].source = "upstream" <=> req[r].status \in {"ok", "upstream"}
                            /\ req[r].source = "client" <=> req[r].status = "client"
    BY DEF OneRowEach, LoggedOnce, AnsweredIsLogged, RowTellsOrigin
  <2>1. RequestOK(r, req[r], stream[r])
    BY Before
  <2>2. CASE r \in Discoveries \/ req[r].phase # "answered"
    BY <2>1, <2>2 DEF RequestOK, PlaceOK, Blank, Traceless
  <2>3. CASE r \notin Discoveries /\ req[r].phase = "answered"
    BY <2>1, <2>3 DEF RequestOK, PlaceOK, Buffered, Relayed, Refused, Failed, SourceOf
  <2> QED
    BY <2>2, <2>3
<1> QED
  BY <1>1, InvHolds, PTL

\* The sniffer's branch and the log's branch of a stream agree on what was used
\* (src/usage/sniff.ts, src/proxy/response-tap.ts).
THEOREM ChargesAreLogged == Spec => []ChargedAsLogged
<1>1. PipelineInv => ChargedAsLogged
  BY Before DEF ChargedAsLogged, RequestOK, PlaceOK, TeeOK, Blank, Traceless, Buffered, Relayed, Refused,
                Failed
<1> QED
  BY <1>1, InvHolds, PTL

\* Canary and alarm heed the signals of good answers and nothing else
\* (src/proxy/messages.ts, onUsage and observeHeaders).
THEOREM SignalsAreGood == Spec => []SignalsFromAnswers
<1>1. PipelineInv => SignalsFromAnswers
  BY DEF PipelineInv, SignalsOK, SignalsFromAnswers, Trips, Tells, Lowers
<1> QED
  BY <1>1, InvHolds, PTL

-----------------------------------------------------------------------------
(* The ledger.                                                              *)

\* As the steps keep it: the tokens of a key are finitely many.
Ledger == \A k \in Keys : IsFiniteSet(Landed(k)) /\ tokens[k] = Cardinality(Landed(k))

\* A step that leaves the ledger alone: a charge that has landed stays as it
\* was reported, and none lands.
LeavesLedger(r, p) ==
    /\ req' = [req EXCEPT ![r] = p] /\ tokens' = tokens
    /\ p.charge = "done" <=> req[r].charge = "done"
    /\ p.charge = "done" => p.key = req[r].key /\ p.used = req[r].used

LEMMA LedgerLeft ==
    ASSUME PipelineInv, Ledger, NEW r \in Requests, NEW p, LeavesLedger(r, p)
    PROVE  Ledger'
<1>1. req'[r] = p /\ \A o \in Requests \ {r} : req'[o] = req[o]
  BY Before DEF LeavesLedger
<1>2. ASSUME NEW k \in Keys PROVE Landed(k)' = Landed(k)
  <2>1. \A o \in Requests :
          /\ req'[o].key = k /\ req'[o].charge = "done" <=> req[o].key = k /\ req[o].charge = "done"
          /\ req[o].charge = "done" => req'[o].used = req[o].used
    BY <1>1 DEF LeavesLedger
  <2> DEFINE D == {o \in Requests : req[o].key = k /\ req[o].charge = "done"}
  <2>2. {o \in Requests : req'[o].key = k /\ req'[o].charge = "done"} = D
    BY <2>1
  <2>3. \A o \in D : req'[o].used = req[o].used
    BY <2>1
  <2>4. Landed(k) = UNION {{o} \X (1..req[o].used) : o \in D}
        /\ Landed(k)' = UNION {{o} \X (1..req'[o].used) : o \in D}
    BY <2>2 DEF Landed
  <2> HIDE DEF D
  <2> QED BY <2>3, <2>4
<1> QED BY <1>2 DEF Ledger, LeavesLedger

\* The tokens of one request.
LEMMA TokensOf ==
    ASSUME NEW r, NEW n \in Nat
    PROVE  IsFiniteSet({r} \X (1..n)) /\ Cardinality({r} \X (1..n)) = n
<1> DEFINE T == {r} \X (1..n)
           f == [i \in 1..n |-> <<r, i>>]
<1>1. f \in Surjection(1..n, T)
  <2>1. f \in [1..n -> T] /\ \A t \in T : \E i \in 1..n : f[i] = t
    OBVIOUS
  <2> QED BY <2>1 DEF Surjection
<1>2. f \in Injection(1..n, T)
  <2>1. f \in [1..n -> T] /\ \A i, j \in 1..n : f[i] = f[j] => i = j
    OBVIOUS
  <2> QED BY <2>1 DEF Injection, IsInjective
<1>3. IsFiniteSet(1..n) /\ Cardinality(1..n) = n
  BY FS_Interval
<1> HIDE DEF f, T
<1>4. IsFiniteSet(T) /\ Cardinality(T) = n
  BY <1>1, <1>2, <1>3, FS_Surjection
<1> QED BY <1>4 DEF T

\* A charge that lands adds its tokens to its own key's, and they are new.
LEMMA LedgerCharged ==
    ASSUME PipelineInv, Ledger, NEW r \in Requests, Charge(r)
    PROVE  Ledger'
<1>0. req[r] \in RequestType /\ req \in [Requests -> RequestType] /\ tokens \in [Keys -> Nat]
      /\ req[r].charge = "due"
  BY Before DEF Charge
<1>1. CASE req' = [req EXCEPT ![r].charge = "failed"] /\ UNCHANGED tokens
  <2> DEFINE p == [req[r] EXCEPT !.charge = "failed"]
  <2>1. req' = [req EXCEPT ![r] = p] /\ p.charge = "failed"
    BY <1>0, <1>1 DEF RequestType
  <2> HIDE DEF p
  <2>2. LeavesLedger(r, p)
    BY <1>0, <1>1, <2>1 DEF LeavesLedger
  <2> QED BY <2>2, LedgerLeft
<1>2. CASE /\ tokens' = [tokens EXCEPT ![req[r].key] = @ + req[r].used]
           /\ req' = [req EXCEPT ![r].charge = "done"]
  <2> DEFINE n == req[r].used
             own == {r} \X (1..n)
  <2>1. /\ req'[r].charge = "done" /\ req'[r].key = req[r].key /\ req'[r].used = n /\ n \in Nat
        /\ \A o \in Requests \ {r} : req'[o] = req[o]
    BY <1>0, <1>2 DEF RequestType
  <2>2. IsFiniteSet(own) /\ Cardinality(own) = n
    BY <2>1, TokensOf
  <2> SUFFICES ASSUME NEW k \in Keys
               PROVE  IsFiniteSet(Landed(k)') /\ tokens'[k] = Cardinality(Landed(k)')
    BY DEF Ledger
  <2> DEFINE D == {o \in Requests : req[o].key = k /\ req[o].charge = "done"}
             E == {o \in Requests : req'[o].key = k /\ req'[o].charge = "done"}
  <2>3. r \notin D /\ E = (IF req[r].key = k THEN D \cup {r} ELSE D)
    BY <1>0, <2>1
  <2>4. \A o \in D : req'[o].used = req[o].used
    BY <2>1, <2>3
  <2>5. Landed(k) = UNION {{o} \X (1..req[o].used) : o \in D}
        /\ Landed(k)' = UNION {{o} \X (1..req'[o].used) : o \in E}
    BY DEF Landed
  <2>6. IsFiniteSet(Landed(k)) /\ tokens[k] = Cardinality(Landed(k))
    BY DEF Ledger
  <2> HIDE DEF D, E, n
  <2>7. CASE req[r].key # k
    <3>1. Landed(k)' = Landed(k)
      BY <2>3, <2>4, <2>5, <2>7
    <3>2. tokens'[k] = tokens[k]
      BY <1>0, <1>2, <2>7
    <3> QED BY <2>6, <3>1, <3>2
  <2>8. CASE req[r].key = k
    <3>1. Landed(k)' = Landed(k) \cup own
      BY <2>1, <2>3, <2>4, <2>5, <2>8
    <3>2. Landed(k) \cap own = {}
      BY <2>3, <2>5
    <3>3. tokens'[k] = tokens[k] + n
      BY <1>0, <1>2, <2>8 DEF n
    <3> HIDE DEF own
    <3>4. IsFiniteSet(Landed(k) \cup own)
          /\ Cardinality(Landed(k) \cup own) = Cardinality(Landed(k)) + Cardinality(own) - Cardinality(Landed(k) \cap own)
      BY <2>2, <2>6, FS_Union
    <3>5. Cardinality(Landed(k) \cap own) = 0
      BY <3>2, FS_EmptySet
    <3>6. Cardinality(Landed(k)) \in Nat
      BY <2>6, FS_CardinalityType
    <3> QED BY <2>1, <2>2, <2>6, <3>1, <3>3, <3>4, <3>5, <3>6
  <2> QED BY <2>7, <2>8
<1> QED BY <1>1, <1>2 DEF Charge

\* What a request becomes on its way out has the charge it came with.
LEMMA LedgerLeave ==
    ASSUME PipelineInv, NEW r \in Requests, NEW q \in RequestType, Leave(r, q), tokens' = tokens,
           req[r].charge # "done", q.charge # "done"
    PROVE  \E p : LeavesLedger(r, p)
<1> DEFINE a == [q EXCEPT !.phase = "observing"]
           b == [q EXCEPT !.phase = "answered", !.shed = "yes"]
           c == [q EXCEPT !.phase = "answered"]
<1>1. a.charge # "done" /\ b.charge # "done" /\ c.charge # "done"
  BY DEF RequestType
<1>2. req' = [req EXCEPT ![r] = a] \/ req' = [req EXCEPT ![r] = b] \/ req' = [req EXCEPT ![r] = c]
  BY DEF Leave
<1> HIDE DEF a, b, c
<1>3. \E p \in {a, b, c} : req' = [req EXCEPT ![r] = p]
  BY <1>2
<1> QED BY <1>1, <1>3 DEF LeavesLedger

\* Whatever else happens leaves the ledger alone: what may report usage has not
\* reported any (src/proxy/messages.ts:711-832, src/usage/sniff.ts:104-121).
LEMMA LedgerElsewhere ==
    ASSUME PipelineInv, NEW r \in Requests,
           \/ \E k \in Keys : Enter(r, k)
           \/ ObserverRecords(r) \/ QuotaChecked(r) \/ BodyParsed(r) \/ UpstreamFails(r)
           \/ DiscoveryAnswered(r) \/ UpstreamAnswers(r) \/ BodyRead(r)
           \/ Emit(r) \/ End(r) \/ Break(r) \/ Disconnect(r) \/ Sniff(r) \/ Flush(r)
           \/ Keep(r) \/ WriteRow(r)
    PROVE  \E p : LeavesLedger(r, p)
<1>0. /\ req \in [Requests -> RequestType] /\ req[r] \in RequestType
      /\ RequestOK(r, req[r], stream[r])
  BY Before
<1>1. req[r].phase # "answered" => req[r].charge = "none" /\ stream[r].source = "none"
  BY <1>0 DEF RequestOK, PlaceOK, Blank
<1>2. CASE \E k \in Keys : Enter(r, k)
  <2>1. PICK k \in Keys : Enter(r, k)
    BY <1>2
  <2>2. req[r].charge = "none" /\ tokens' = tokens
    BY <1>1, <2>1 DEF Enter
  <2>3. ASSUME NEW x \in {"client", "proxy"}, Leave(r, [req[r] EXCEPT !.key = k, !.status = x])
        PROVE  \E p : LeavesLedger(r, p)
    <3>1. [req[r] EXCEPT !.key = k, !.status = x] \in RequestType
          /\ [req[r] EXCEPT !.key = k, !.status = x].charge = "none"
      BY <1>0, <2>2 DEF RequestType, Statuses
    <3> QED BY <2>2, <2>3, <3>1, LedgerLeave
  <2>4. ASSUME req' = [req EXCEPT ![r] = [req[r] EXCEPT !.key = k,
                          !.phase = IF r \in Discoveries THEN "upstream" ELSE "quota"]]
        PROVE  \E p : LeavesLedger(r, p)
    <3> DEFINE p == [req[r] EXCEPT !.key = k, !.phase = IF r \in Discoveries THEN "upstream" ELSE "quota"]
    <3>1. p.charge = "none" /\ req' = [req EXCEPT ![r] = p]
      BY <1>0, <2>2, <2>4 DEF RequestType
    <3> HIDE DEF p
    <3> QED BY <2>2, <3>1 DEF LeavesLedger
  <2> QED BY <2>1, <2>3, <2>4 DEF Enter
<1>3. CASE ObserverRecords(r)
  <2> DEFINE p == [req[r] EXCEPT !.phase = "answered", !.rows = req[r].rows + 1,
                      !.source = SourceOf(req[r].status)]
  <2>1. p.charge = req[r].charge /\ p.key = req[r].key /\ p.used = req[r].used
        /\ req' = [req EXCEPT ![r] = p] /\ tokens' = tokens
    BY <1>0, <1>3 DEF ObserverRecords, RequestType
  <2> HIDE DEF p
  <2> QED BY <2>1 DEF LeavesLedger
<1>4. CASE QuotaChecked(r) \/ BodyParsed(r) \/ UpstreamFails(r) \/ DiscoveryAnswered(r)
  <2>1. req[r].phase # "answered" /\ tokens' = tokens
    BY <1>4 DEF QuotaChecked, BodyParsed, UpstreamFails, DiscoveryAnswered
  <2>2. req[r].charge = "none"
    BY <1>1, <2>1
  <2>3. ASSUME NEW x \in Statuses, LeaveSlot(r, [req[r] EXCEPT !.status = x])
        PROVE  \E p : LeavesLedger(r, p)
    <3>1. [req[r] EXCEPT !.status = x] \in RequestType /\ [req[r] EXCEPT !.status = x].charge = "none"
      BY <1>0, <2>2 DEF RequestType
    <3> QED BY <2>1, <2>2, <2>3, <3>1, LedgerLeave DEF LeaveSlot
  <2>4. CASE req' = [req EXCEPT ![r].phase = "body"]
    <3> DEFINE p == [req[r] EXCEPT !.phase = "body"]
    <3>1. p.charge = "none" /\ req' = [req EXCEPT ![r] = p]
      BY <1>0, <2>2, <2>4 DEF RequestType
    <3> HIDE DEF p
    <3> QED BY <2>1, <2>2, <3>1 DEF LeavesLedger
  <2>5. ASSUME NEW c, req' = [req EXCEPT ![r] = [@ EXCEPT !.phase = "upstream", !.candidate = c]]
        PROVE  \E p : LeavesLedger(r, p)
    <3> DEFINE p == [req[r] EXCEPT !.phase = "upstream", !.candidate = c]
    <3>1. p.charge = "none" /\ req' = [req EXCEPT ![r] = p]
      BY <1>0, <2>2, <2>5 DEF RequestType
    <3> HIDE DEF p
    <3> QED BY <2>1, <2>2, <3>1 DEF LeavesLedger
  <2>6. \/ \E x \in Statuses : LeaveSlot(r, [req[r] EXCEPT !.status = x])
        \/ req' = [req EXCEPT ![r].phase = "body"]
        \/ \E c \in MayUseCandidate :
              req' = [req EXCEPT ![r] = [@ EXCEPT !.phase = "upstream", !.candidate = c]]
    BY <1>4 DEF QuotaChecked, BodyParsed, UpstreamFails, DiscoveryAnswered, Statuses
  <2> QED BY <2>3, <2>4, <2>5, <2>6
<1>5. CASE UpstreamAnswers(r)
  <2>1. PICK s \in {"ok", "upstream"}, h \in Headrooms :
          LET q == [req[r] EXCEPT !.status = s, !.remaining = h, !.logged = Claim] IN
          \/ LeaveSlot(r, [q EXCEPT !.status = "proxy"])
          \/ LeaveSlot(r, [q EXCEPT !.logged = "yes"])
          \/ req' = [req EXCEPT ![r] = [q EXCEPT !.phase = "reading"]]
    BY <1>5 DEF UpstreamAnswers
  <2> DEFINE q == [req[r] EXCEPT !.status = s, !.remaining = h, !.logged = Claim]
             a == [q EXCEPT !.status = "proxy"]
             b == [q EXCEPT !.logged = "yes"]
             c == [q EXCEPT !.phase = "reading"]
  <2>2. req[r].charge = "none" /\ tokens' = tokens
    BY <1>1, <1>5 DEF UpstreamAnswers
  <2>3. q \in RequestType /\ q.charge = "none"
    BY <1>0, <2>2 DEF RequestType, Statuses, Headrooms, Claim
  <2>4. LeaveSlot(r, a) \/ LeaveSlot(r, b) \/ req' = [req EXCEPT ![r] = c]
    BY <2>1
  <2> HIDE DEF q
  <2>5. /\ a \in RequestType /\ b \in RequestType
        /\ a.charge = "none" /\ b.charge = "none" /\ c.charge = "none"
    BY <2>3 DEF RequestType, Statuses
  <2> HIDE DEF a, b, c
  <2>6. CASE LeaveSlot(r, a) \/ LeaveSlot(r, b)
    <3>1. Leave(r, a) \/ Leave(r, b)
      BY <2>6 DEF LeaveSlot
    <3> QED BY <2>2, <2>5, <3>1, LedgerLeave
  <2>7. CASE req' = [req EXCEPT ![r] = c]
    BY <2>2, <2>5, <2>7 DEF LeavesLedger
  <2> QED BY <2>4, <2>6, <2>7
<1>6. CASE BodyRead(r)
  <2>1. req[r].charge = "none" /\ req[r].rows = 0 /\ tokens' = tokens
    BY <1>0, <1>6 DEF BodyRead, RequestOK, PlaceOK, Blank
  <2>2. CASE LeaveSlot(r, [Row(req[r], 0) EXCEPT !.logged = "yes"])
    <3> DEFINE row == Row(req[r], 0)
               q == [row EXCEPT !.logged = "yes"]
    <3>0. row \in RequestType /\ row.charge = "none"
      BY <1>0, <2>1, RowFields
    <3> HIDE DEF row
    <3>1. q \in RequestType /\ q.charge = "none"
      BY <3>0 DEF RequestType
    <3> HIDE DEF q
    <3>2. Leave(r, q)
      BY <2>2 DEF LeaveSlot, q, row
    <3> QED BY <2>1, <3>1, <3>2, LedgerLeave
  <2>3. CASE \E n \in 1..MaxEvents, t \in TierOf(1) :
                LeaveSlot(r, [Row(Reported(req[r], n, t), n) EXCEPT !.logged = "yes"])
    <3>1. PICK n \in 1..MaxEvents, t \in TierOf(1) :
                LeaveSlot(r, [Row(Reported(req[r], n, t), n) EXCEPT !.logged = "yes"])
      BY <2>3
    <3> DEFINE p == Reported(req[r], n, t)
               row == Row(p, n)
               q == [row EXCEPT !.logged = "yes"]
    <3>2. n \in Nat /\ t \in Tiers
      BY PipelineAssumption DEF TierOf, Tiers
    <3>3. p \in RequestType /\ p.charge = "due" /\ p.rows = 0
      BY <1>0, <2>1, <3>2 DEF Reported, RequestType
    <3>4. LeaveSlot(r, q)
      BY <3>1
    <3> HIDE DEF p
    <3>5. row \in RequestType /\ row.charge = "due"
      BY <3>2, <3>3, RowFields
    <3> HIDE DEF row
    <3>6. q \in RequestType /\ q.charge = "due"
      BY <3>5 DEF RequestType
    <3> HIDE DEF q
    <3>7. Leave(r, q)
      BY <3>4 DEF LeaveSlot
    <3> QED BY <2>1, <3>6, <3>7, LedgerLeave
  <2> QED BY <1>6, <2>2, <2>3 DEF BodyRead
<1>7. CASE Emit(r) \/ End(r) \/ Break(r) \/ Disconnect(r) \/ Sniff(r) \/ Keep(r)
  <2>1. req' = [req EXCEPT ![r] = req[r]] /\ tokens' = tokens
    BY <1>0, <1>7 DEF Emit, End, Break, Disconnect, Sniff, Keep, StreamFrame
  <2> QED BY <2>1 DEF LeavesLedger
<1>8. CASE Flush(r)
  <2>1. PICK t \in TierOf(stream[r].sniffed) :
          req' = [req EXCEPT ![r] = Reported(req[r], stream[r].sniffed, t)]
    BY <1>8 DEF Flush
  <2>2. stream[r].source # "none" /\ stream[r].flushed = "no" /\ tokens' = tokens
    BY <1>8 DEF Flush, StreamFrame
  <2>3. req[r].charge = "none"
    BY <1>0, <1>1, <2>2 DEF RequestOK, PlaceOK, Traceless, Buffered, Relayed, Refused, Failed
  <2>4. Reported(req[r], stream[r].sniffed, t).charge = "due"
    BY <1>0 DEF Reported, RequestType
  <2> QED BY <2>1, <2>2, <2>3, <2>4 DEF LeavesLedger
<1>9. CASE WriteRow(r)
  <2> DEFINE p == Row(req[r], stream[r].kept)
  <2>1. p.charge = req[r].charge /\ p.key = req[r].key /\ p.used = req[r].used
        /\ req' = [req EXCEPT ![r] = p] /\ tokens' = tokens
    BY <1>0, <1>9 DEF WriteRow, Row, RequestType, StreamFrame
  <2> HIDE DEF p
  <2> QED BY <2>1 DEF LeavesLedger
<1> QED BY <1>2, <1>3, <1>4, <1>5, <1>6, <1>7, <1>8, <1>9

LEMMA LedgerStep == PipelineInv /\ Ledger /\ [Next]_vars => Ledger'
<1> SUFFICES ASSUME PipelineInv, Ledger, [Next]_vars PROVE Ledger'
  OBVIOUS
<1>1. CASE Refill \/ UNCHANGED vars
  <2>1. req' = req /\ tokens' = tokens
    BY <1>1 DEF Refill, vars
  <2> QED BY <2>1 DEF Ledger, Landed
<1>2. CASE \E r \in Requests : Charge(r)
  BY <1>2, LedgerCharged
<1>3. CASE \E r \in Requests : \E p : LeavesLedger(r, p)
  BY <1>3, LedgerLeft
<1>4. ASSUME Next, ~Refill, \A r \in Requests : ~Charge(r)
      PROVE  \E r \in Requests : \E p : LeavesLedger(r, p)
  <2>1. PICK r \in Requests :
           \/ \E k \in Keys : Enter(r, k)
           \/ ObserverRecords(r) \/ QuotaChecked(r) \/ BodyParsed(r) \/ UpstreamFails(r)
           \/ DiscoveryAnswered(r) \/ UpstreamAnswers(r) \/ BodyRead(r)
           \/ Emit(r) \/ End(r) \/ Break(r) \/ Disconnect(r) \/ Sniff(r) \/ Flush(r)
           \/ Keep(r) \/ WriteRow(r)
    BY <1>4 DEF Next
  <2> QED BY <2>1, LedgerElsewhere
<1> QED BY <1>1, <1>2, <1>3, <1>4

\* The ledger has each token of a charge that landed once (src/usage/
\* per-user-postgres.ts:68-78), and the quota is judged by nothing else.
THEOREM LedgerExact == Spec => []LedgerIsExact
<1>1. Init => Ledger
  <2> SUFFICES ASSUME Init, NEW k \in Keys
               PROVE  IsFiniteSet(Landed(k)) /\ tokens[k] = Cardinality(Landed(k))
    BY DEF Ledger
  <2>1. {q \in Requests : req[q].key = k /\ req[q].charge = "done"} = {}
    BY DEF Init, NewRequest
  <2>2. Landed(k) = {}
    BY <2>1 DEF Landed
  <2> QED BY <2>2, FS_EmptySet DEF Init
<1>2. Spec => []Ledger
  BY <1>1, LedgerStep, InvHolds, PTL DEF Spec
<1>3. Ledger => LedgerIsExact
  BY DEF Ledger, LedgerIsExact
<1> QED
  BY <1>2, <1>3, PTL

\* A tripped canary stays so and decides for the stable template (src/canary.ts).
THEOREM TripIsFinal == Spec => TrippedIsFinal
<1>1. PipelineInv /\ [Next]_vars =>
        [canary = "tripped" =>
          /\ canary' = "tripped"
          /\ \A r \in Requests : req[r].candidate = "no" => req'[r].candidate = "no"]_vars
  BY StepHolds
<1> QED
  BY <1>1, InvHolds, PTL DEF Spec, TrippedIsFinal

\* The rows, the charges and the ledger tell of the same tokens, each once
\* (src/usage/sniff.ts, src/usage/per-user-postgres.ts).
THEOREM ChargesHold == Spec => []ChargesAreTrue
<1>1. ChargedAsLogged /\ LedgerIsExact => ChargesAreTrue
  BY DEF ChargesAreTrue
<1> QED
  BY <1>1, ChargesAreLogged, LedgerExact, PTL
=============================================================================
