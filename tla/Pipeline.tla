------------------------------ MODULE Pipeline ------------------------------
(***************************************************************************)
(* What one request goes through, from the limiters (src/proxy/             *)
(* concurrency.ts) and the messages handler (src/proxy/messages.ts) to the   *)
(* relayed stream with its tee (src/proxy/response-tap.ts) and its sniffer   *)
(* (src/usage/sniff.ts), the log row written by the handler or by the        *)
(* outcome observer (src/proxy/observe-outcome.ts), and what it leaves       *)
(* behind: tokens charged, headroom seen, the billing alarm, the canary.     *)
(*                                                                          *)
(* callUpstream is one await here; module Upstream is about its inside.  The *)
(* per-IP bucket is in module Lifecycle. An answer's usage is cumulative:    *)
(* its first n events report n tokens.                                       *)
(***************************************************************************)
EXTENDS Integers, FiniteSets

CONSTANTS
    Requests,      \* authenticated requests
    Discoveries,   \* those of them for GET /v1/models
    Keys,          \* names of API keys
    None,          \* no key yet
    MaxPerKey,     \* MAX_CONCURRENT_REQUESTS_PER_KEY
    MaxInFlight,   \* MAX_CONCURRENT_REQUESTS
    Limit,         \* DAILY_TOKEN_LIMIT_PER_KEY
    MaxEvents,     \* bound on the events of one answer
    WriteBurst     \* WRITE_BURST, rows the observer writes without pause

ASSUME PipelineAssumption ==
    /\ IsFiniteSet(Requests) /\ Discoveries \subseteq Requests
    /\ MaxPerKey \in Nat \ {0} /\ MaxInFlight \in Nat \ {0} /\ Limit \in Nat \ {0}
    /\ MaxEvents \in Nat \ {0} /\ WriteBurst \in Nat \ {0} /\ IsFiniteSet(Keys)

Inside == {"quota", "body", "upstream", "reading"}
Phases == Inside \cup {"new", "observing", "answered"}

\* What the usage of an answer, once reported, says of the billing: nothing
\* unusual, another service_tier, or a unified-status header that is not OK.
Tiers == {"unknown", "standard", "other", "header"}

\* Remaining tokens against GLOBAL_SUBSCRIPTION_THRESHOLD_TOKENS.
Headrooms == {"unknown", "enough", "low"}

\* An answer passed on, an error of Anthropic's, one of the proxy's own
\* (429 or 5xx), one the caller brought on itself (another 4xx).
Statuses == {"ok", "upstream", "proxy", "client"}

VARIABLES
    req,       \* per request: how far it is, its answer and its log row
    stream,    \* per request: the relayed stream
    slots,     \* inFlight
    keySlots,  \* inFlightByKey, 0 for an absent entry
    tokens,    \* tokens charged to each key today
    headroom,  \* remaining, as last observed
    canary,    \* whether it tripped
    alarm,     \* whether the billing monitor has told anyone
    budget     \* rows the observer may still write

vars == <<req, stream, slots, keySlots, tokens, headroom, canary, alarm, budget>>

NewRequest == [phase |-> "new", key |-> None, status |-> "ok", logged |-> "no",
               candidate |-> "no", tier |-> "unknown", remaining |-> "unknown", rows |-> 0,
               source |-> "none", written |-> 0, charge |-> "none", used |-> 0, shed |-> "no"]
NoStream == [source |-> "none", sent |-> 0, sniffed |-> 0, kept |-> 0, client |-> "open",
             flushed |-> "no"]

Init ==
    /\ req = [r \in Requests |-> NewRequest]
    /\ stream = [r \in Requests |-> NoStream]
    /\ slots = 0
    /\ keySlots = [k \in Keys |-> 0]
    /\ tokens = [k \in Keys |-> 0]
    /\ headroom = "unknown"
    /\ canary = "armed"
    /\ alarm = "silent"
    /\ budget = WriteBurst

-----------------------------------------------------------------------------
(* The way out.                                                             *)

\* Mutant: the per-key entry is given back only by a request that succeeded.
GiveBack_OnSuccess(k, status) ==
    /\ slots' = slots - 1
    /\ keySlots' = IF status = "ok" THEN [keySlots EXCEPT ![k] = @ - 1] ELSE keySlots

\* Both limiters' finally: the handler returned or threw.
GiveBack(k, status) ==
    /\ slots' = slots - 1
    /\ keySlots' = [keySlots EXCEPT ![k] = @ - 1]

\* The observer is on the messages route, leaves rows of the handler to it
\* and records failures only.
Observes(r, q) == r \notin Discoveries /\ q.logged = "no" /\ q.status # "ok"

\* Request r leaves as q: onError has made a response of whatever was thrown,
\* and the observer, if it has something to record, may write or sheds it.
Leave(r, q) ==
    IF Observes(r, q)
    THEN IF budget >= 1
         THEN /\ req' = [req EXCEPT ![r] = [q EXCEPT !.phase = "observing"]]
              /\ budget' = budget - 1
         ELSE /\ req' = [req EXCEPT ![r] = [q EXCEPT !.phase = "answered", !.shed = "yes"]]
              /\ UNCHANGED budget
    ELSE /\ req' = [req EXCEPT ![r] = [q EXCEPT !.phase = "answered"]]
         /\ UNCHANGED budget

\* Leaves from inside the limiters.
LeaveSlot(r, q) == Leave(r, q) /\ GiveBack(q.key, q.status)

\* classifyProxySource
SourceOf(status) == IF status = "client" THEN "client" ELSE "proxy"

\* The observer has read the error envelope and records the row.
ObserverRecords(r) ==
    /\ req[r].phase = "observing"
    /\ req' = [req EXCEPT ![r] = [@ EXCEPT !.phase = "answered", !.rows = req[r].rows + 1,
                  !.source = SourceOf(req[r].status)]]
    /\ UNCHANGED <<stream, slots, keySlots, tokens, headroom, canary, alarm, budget>>

\* Mutant: the bucket grows past its burst while nothing is written.
Refill_Uncapped ==
    /\ budget' = budget + 1
    /\ UNCHANGED <<req, stream, slots, keySlots, tokens, headroom, canary, alarm>>

\* Time refills the observer's bucket.
Refill ==
    /\ budget < WriteBurst
    /\ budget' = budget + 1
    /\ UNCHANGED <<req, stream, slots, keySlots, tokens, headroom, canary, alarm>>

-----------------------------------------------------------------------------
(* The way in, up to the call of Anthropic.                                 *)

\* assertSubscriptionHealthy: no observation admits.
Healthy == headroom # "low"

\* Up to the first await: body size and the per-IP bucket, the cap of the
\* key, the cap of all, and for messages the guard of the subscription.
Enter(r, k) ==
    /\ req[r].phase = "new"
    /\ LET q == [req[r] EXCEPT !.key = k] IN
          \/ /\ \E s \in {"client", "proxy"} : Leave(r, [q EXCEPT !.status = s])
             /\ UNCHANGED <<slots, keySlots>>
          \/ /\ keySlots[k] >= MaxPerKey \/ slots >= MaxInFlight
             /\ Leave(r, [q EXCEPT !.status = "proxy"])
             /\ UNCHANGED <<slots, keySlots>>
          \/ /\ keySlots[k] < MaxPerKey /\ slots < MaxInFlight
             /\ r \notin Discoveries /\ ~Healthy
             /\ Leave(r, [q EXCEPT !.status = "proxy"])
             /\ UNCHANGED <<slots, keySlots>>
          \/ /\ keySlots[k] < MaxPerKey /\ slots < MaxInFlight
             /\ r \in Discoveries \/ Healthy
             /\ slots' = slots + 1
             /\ keySlots' = [keySlots EXCEPT ![k] = @ + 1]
             /\ req' = [req EXCEPT ![r] = [q EXCEPT
                           !.phase = IF r \in Discoveries THEN "upstream" ELSE "quota"]]
             /\ UNCHANGED budget
    /\ UNCHANGED <<stream, tokens, headroom, canary, alarm>>

\* The key has used up its daily limit.
UsedUp(k) == tokens[k] >= Limit

\* assertCanRequest answers, or the database does not (onError makes it 500).
QuotaChecked(r) ==
    LET q == req[r] IN
    /\ q.phase = "quota"
    /\ \/ /\ ~UsedUp(q.key)
          /\ req' = [req EXCEPT ![r].phase = "body"]
          /\ UNCHANGED <<slots, keySlots, budget>>
       \/ LeaveSlot(r, [q EXCEPT !.status = "proxy"])
    /\ UNCHANGED <<stream, tokens, headroom, canary, alarm>>

\* Mutant: a trip is not heeded.
MayUseCandidate_Sticky == {"no", "yes"}

\* decide: a tripped canary keeps everyone on the stable template.
MayUseCandidate == IF canary = "tripped" THEN {"no"} ELSE {"no", "yes"}

\* The body has arrived: it is no JSON object, holds an invalid system block
\* or asks for a model the key may not use; or the request goes upstream.
BodyParsed(r) ==
    /\ req[r].phase = "body"
    /\ \/ LeaveSlot(r, [req[r] EXCEPT !.status = "client"])
       \/ /\ \E c \in MayUseCandidate :
                req' = [req EXCEPT ![r] = [@ EXCEPT !.phase = "upstream", !.candidate = c]]
          /\ UNCHANGED <<slots, keySlots, budget>>
    /\ UNCHANGED <<stream, tokens, headroom, canary, alarm>>

\* callUpstream, or the models handler, throws: 500 or 502.
UpstreamFails(r) ==
    /\ req[r].phase = "upstream"
    /\ LeaveSlot(r, [req[r] EXCEPT !.status = "proxy"])
    /\ UNCHANGED <<stream, tokens, headroom, canary, alarm>>

\* The models handler passes the answer on and observes nothing.
DiscoveryAnswered(r) ==
    /\ req[r].phase = "upstream" /\ r \in Discoveries
    /\ \E s \in {"ok", "upstream"} :
          LeaveSlot(r, [req[r] EXCEPT !.status = s])
    /\ UNCHANGED <<stream, tokens, headroom, canary, alarm>>

-----------------------------------------------------------------------------
(* Anthropic has answered.                                                  *)

\* observeHeaders, for answers that are no errors; the header may be missing.
ObserveHeaders(q) ==
    headroom' = IF q.status # "ok" \/ q.remaining = "unknown" THEN headroom ELSE q.remaining

\* Mutant: the row is claimed when the answer arrives, before it is assured.
ClaimAtOnce == "yes"

\* The claim of the row is left open until the write of it is assured.
Claim == "no"

\* From the headers on to the next await.  A step of the handler may throw
\* (500); a stream is tapped, sniffed and returned, its row assured; of any
\* other answer the body is read.
UpstreamAnswers(r) ==
    /\ req[r].phase = "upstream" /\ r \notin Discoveries
    /\ \E s \in {"ok", "upstream"}, h \in Headrooms :
          LET q == [req[r] EXCEPT !.status = s, !.remaining = h, !.logged = Claim] IN
          /\ ObserveHeaders(q)
          /\ \/ LeaveSlot(r, [q EXCEPT !.status = "proxy"]) /\ UNCHANGED stream
             \/ /\ s = "ok"
                /\ LeaveSlot(r, [q EXCEPT !.logged = "yes"])
                /\ stream' = [stream EXCEPT ![r].source = "open"]
             \/ /\ req' = [req EXCEPT ![r] = [q EXCEPT !.phase = "reading"]]
                /\ UNCHANGED <<stream, slots, keySlots, budget>>
    /\ UNCHANGED <<tokens, canary, alarm>>

\* The usage of n events or tokens: with none of them nothing is said of the tier.
TierOf(n) == IF n = 0 THEN {"standard", "header"} ELSE {"standard", "other", "header"}

\* billingMonitor.observe: tells, unless it has told within the cooldown.
ObserveBilling(q) == alarm' = IF q.tier = "standard" THEN alarm ELSE "told"

\* canary.trip, for a candidate's answer of another tier.
TripCanary(q) ==
    canary' = IF q.candidate = "yes" /\ q.tier = "other" THEN "tripped" ELSE canary

\* Mutant: the tier of an error is taken for a signal.
Signal_OfErrors(q) == ObserveBilling(q) /\ TripCanary(q)

\* The signals of onUsage: alarm and canary heed answers that are no errors.
Signal(q) ==
    IF q.status = "ok" THEN ObserveBilling(q) /\ TripCanary(q)
    ELSE UNCHANGED <<canary, alarm>>

\* onUsage(n tokens of tier t): the charge is due, whatever the status.
Reported(q, n, t) == [q EXCEPT !.charge = "due", !.used = n, !.tier = t]

\* The handler's row: it says what the answer used.
Row(q, n) == [q EXCEPT !.rows = q.rows + 1, !.source = "upstream", !.written = n]

\* The body is read and has usage; or it has none, or reading it failed,
\* which makes it empty.  Usage is reported, then the row written, then claimed.
BodyRead(r) ==
    /\ req[r].phase = "reading"
    /\ \/ \E n \in 1..MaxEvents, t \in TierOf(1) :
             LET q == Reported(req[r], n, t) IN
             LeaveSlot(r, [Row(q, n) EXCEPT !.logged = "yes"]) /\ Signal(q)
       \/ /\ LeaveSlot(r, [Row(req[r], 0) EXCEPT !.logged = "yes"])
          /\ UNCHANGED <<canary, alarm>>
    /\ UNCHANGED <<stream, tokens, headroom>>

-----------------------------------------------------------------------------
(* The relayed stream: tee, sniffer, log branch.                            *)

StreamFrame == UNCHANGED <<slots, keySlots, tokens, headroom, budget>>

\* Anthropic sends an event, ends the stream, or fails; the hard cap of
\* STREAMING_HARD_CAP_MS fails it too.
Emit(r) ==
    /\ stream[r].source = "open" /\ stream[r].sent < MaxEvents
    /\ stream' = [stream EXCEPT ![r].sent = @ + 1]
    /\ StreamFrame /\ UNCHANGED <<req, canary, alarm>>

End(r) ==
    /\ stream[r].source = "open"
    /\ stream' = [stream EXCEPT ![r].source = "ended"]
    /\ StreamFrame /\ UNCHANGED <<req, canary, alarm>>

Break(r) ==
    /\ stream[r].source = "open"
    /\ stream' = [stream EXCEPT ![r].source = "broken"]
    /\ StreamFrame /\ UNCHANGED <<req, canary, alarm>>

\* The client goes away, which cancels its branch of the tee.
Disconnect(r) ==
    /\ stream[r].source \in {"open", "ended"} /\ stream[r].client = "open"
    /\ stream[r].flushed = "no"
    /\ stream' = [stream EXCEPT ![r].client = "gone"]
    /\ StreamFrame /\ UNCHANGED <<req, canary, alarm>>

\* The sniffer passes an event of its branch on and takes note of the usage.
Sniff(r) ==
    /\ stream[r].client = "open" /\ stream[r].source \in {"open", "ended"}
    /\ stream[r].sniffed < stream[r].sent
    /\ stream' = [stream EXCEPT ![r].sniffed = @ + 1]
    /\ StreamFrame /\ UNCHANGED <<req, canary, alarm>>

\* Mutant: the usage is reported as soon as the source ends.
Flush_Early(r) ==
    /\ stream[r].source = "ended" /\ stream[r].client = "open" /\ stream[r].flushed = "no"
    /\ stream' = [stream EXCEPT ![r].flushed = "yes"]
    /\ \E t \in TierOf(stream[r].sniffed) :
          LET q == Reported(req[r], stream[r].sniffed, t) IN
          req' = [req EXCEPT ![r] = q] /\ Signal(q)
    /\ StreamFrame

\* The branch has ended: the sniffer reports the usage.
Flush(r) ==
    /\ stream[r].source = "ended" /\ stream[r].client = "open" /\ stream[r].flushed = "no"
    /\ stream[r].sniffed = stream[r].sent
    /\ stream' = [stream EXCEPT ![r].flushed = "yes"]
    /\ \E t \in TierOf(stream[r].sniffed) :
          LET q == Reported(req[r], stream[r].sniffed, t) IN
          req' = [req EXCEPT ![r] = q] /\ Signal(q)
    /\ StreamFrame

\* The log branch reads on, whatever the client does.
Keep(r) ==
    /\ stream[r].source \in {"open", "ended"} /\ stream[r].kept < stream[r].sent
    /\ stream' = [stream EXCEPT ![r].kept = @ + 1]
    /\ StreamFrame /\ UNCHANGED <<req, canary, alarm>>

\* Mutant: the log waits for a client that may be gone.
WriteRow_AfterClient(r) ==
    /\ stream[r].source # "none" /\ stream[r].flushed = "yes" /\ req[r].rows = 0
    /\ req' = [req EXCEPT ![r] = Row(req[r], stream[r].kept)]
    /\ StreamFrame /\ UNCHANGED <<stream, canary, alarm>>

\* tap.done settles, at the end with all events or at an error with those
\* that were read, and the row is written.
WriteRow(r) ==
    /\ \/ stream[r].source = "ended" /\ stream[r].kept = stream[r].sent
       \/ stream[r].source = "broken"
    /\ req[r].rows = 0
    /\ req' = [req EXCEPT ![r] = Row(req[r], stream[r].kept)]
    /\ StreamFrame /\ UNCHANGED <<stream, canary, alarm>>

\* Mutant: the upsert sets the tokens instead of adding them.
Charge_Overwrites(r) ==
    /\ req[r].charge = "due"
    /\ \/ /\ tokens' = [tokens EXCEPT ![req[r].key] = req[r].used]
          /\ req' = [req EXCEPT ![r].charge = "done"]
       \/ /\ req' = [req EXCEPT ![r].charge = "failed"]
          /\ UNCHANGED tokens
    /\ UNCHANGED <<stream, slots, keySlots, headroom, canary, alarm, budget>>

\* tracker.record lands, or fails and is only told.
Charge(r) ==
    /\ req[r].charge = "due"
    /\ \/ /\ tokens' = [tokens EXCEPT ![req[r].key] = @ + req[r].used]
          /\ req' = [req EXCEPT ![r].charge = "done"]
       \/ /\ req' = [req EXCEPT ![r].charge = "failed"]
          /\ UNCHANGED tokens
    /\ UNCHANGED <<stream, slots, keySlots, headroom, canary, alarm, budget>>

Next ==
    \/ \E r \in Requests, k \in Keys : Enter(r, k)
    \/ \E r \in Requests :
          \/ ObserverRecords(r) \/ QuotaChecked(r) \/ BodyParsed(r) \/ UpstreamFails(r)
          \/ DiscoveryAnswered(r) \/ UpstreamAnswers(r) \/ BodyRead(r)
          \/ Emit(r) \/ End(r) \/ Break(r) \/ Disconnect(r) \/ Sniff(r) \/ Flush(r)
          \/ Keep(r) \/ WriteRow(r) \/ Charge(r)
    \/ Refill

Spec == Init /\ [][Next]_vars

\* The timer of the hard cap fires; the runtime pumps both branches of the
\* tee, calls the sniffer's flush and settles tap.done.
FairSpec ==
    /\ Spec
    /\ \A r \in Requests : WF_vars(Break(r)) /\ WF_vars(Keep(r)) /\ WF_vars(WriteRow(r))
                          /\ WF_vars(Sniff(r)) /\ WF_vars(Flush(r))

-----------------------------------------------------------------------------
(* What should hold.                                                        *)

\* Every variable has the values the code gives it.
TypeOK ==
    /\ req \in [Requests -> [phase : Phases, key : Keys \cup {None}, status : Statuses,
                  logged : {"no", "yes"}, candidate : {"no", "yes"}, tier : Tiers,
                  remaining : Headrooms, rows : Nat,
                  source : {"none", "upstream", "proxy", "client"}, written : Nat,
                  charge : {"none", "due", "done", "failed"}, used : Nat, shed : {"no", "yes"}]]
    /\ stream \in [Requests -> [source : {"none", "open", "ended", "broken"}, sent : Nat,
                     sniffed : Nat, kept : Nat, client : {"open", "gone"},
                     flushed : {"no", "yes"}]]
    /\ slots \in Int /\ keySlots \in [Keys -> Int] /\ tokens \in [Keys -> Nat]
    /\ headroom \in Headrooms /\ canary \in {"armed", "tripped"}
    /\ alarm \in {"silent", "told"} /\ budget \in 0..WriteBurst

InsideNow == {r \in Requests : req[r].phase \in Inside}

\* The counters of both limiters are the requests inside them, however those
\* end, and no more requests are inside than the caps allow.
SlotsAreHeld ==
    /\ slots = Cardinality(InsideNow) /\ slots <= MaxInFlight
    /\ \A k \in Keys :
          /\ keySlots[k] = Cardinality({r \in InsideNow : req[r].key = k})
          /\ keySlots[k] <= MaxPerKey

\* The handler and the observer never both write a request's row.
LoggedOnce == \A r \in Requests : req[r].rows <= 1

\* One of them does: an answered messages request has its row, unless the
\* observer shed it or a stream is to be logged when it is over.
AnsweredIsLogged ==
    \A r \in Requests \ Discoveries : req[r].phase = "answered" =>
        req[r].rows = 1 \/ req[r].shed = "yes" \/ stream[r].source # "none"

\* The row says upstream when the answer passed on is Anthropic's, client when
\* the caller was at fault, proxy for whatever the proxy itself made of it.
RowTellsOrigin ==
    \A r \in Requests : req[r].rows > 0 =>
        /\ req[r].source = "upstream" <=> req[r].status \in {"ok", "upstream"}
        /\ req[r].source = "client" <=> req[r].status = "client"

\* A failure anywhere between entry, answer, claim and write leaves exactly one
\* row, and a true one.
OneRowEach == LoggedOnce /\ AnsweredIsLogged /\ RowTellsOrigin

\* What is charged to the key and what the row says were used agree, though
\* two readers counted them on two branches of the stream.
ChargedAsLogged ==
    \A r \in Requests : req[r].charge # "none" /\ req[r].rows > 0 => req[r].used = req[r].written

\* Every token that requests of key k reported in a charge that has landed.
Landed(k) ==
    UNION {{r} \X (1..req[r].used) : r \in {q \in Requests : req[q].key = k /\ req[q].charge = "done"}}

\* The ledger the quota is judged by has each of these tokens once, in whatever
\* order charges of bodies and of streams land among other requests' checks,
\* and none of a charge that failed.
LedgerIsExact == \A k \in Keys : tokens[k] = Cardinality(Landed(k))

\* What a request used is written and charged alike, and charged once: neither
\* the pace of the two readers nor what other requests do between shows.
ChargesAreTrue == ChargedAsLogged /\ LedgerIsExact

\* The canary trips on, and the alarm tells of, exactly the signals of answers
\* that are no errors, streamed or read whole, in whatever order they come; and
\* the guard that can close the proxy to all never judges by an error's headers.
SignalsFromAnswers ==
    LET Good(r) == req[r].status = "ok" /\ req[r].charge # "none" IN
    /\ canary = "tripped" <=> \E r \in Requests :
          Good(r) /\ req[r].candidate = "yes" /\ req[r].tier = "other"
    /\ alarm = "told" <=> \E r \in Requests : Good(r) /\ req[r].tier \in {"other", "header"}
    /\ headroom = "low" => \E r \in Requests :
          req[r].remaining = "low" /\ req[r].status # "upstream"

\* Once tripped the canary stays so, and no request is decided for the candidate.
TrippedIsFinal ==
    [][canary = "tripped" =>
          /\ canary' = "tripped"
          /\ \A r \in Requests : req[r].candidate = "no" => req'[r].candidate = "no"]_vars

\* A streamed answer is logged in the end, whether the client stays, leaves or
\* Anthropic never ends it; and charged when client and stream lasted.
StreamsAreAccounted ==
    \A r \in Requests : stream[r].source # "none" ~>
        /\ req[r].rows = 1
        /\ \/ req[r].charge # "none"
           \/ stream[r].client = "gone" \/ stream[r].source = "broken"

=============================================================================
