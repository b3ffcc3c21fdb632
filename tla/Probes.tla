------------------------------- MODULE Probes -------------------------------
(***************************************************************************)
(* The self-tests an operator starts from the admin page                     *)
(* (src/admin/test-runners.ts): a forced refresh of one account's token, a    *)
(* request through the gateway itself with its first key or a chosen one, a   *)
(* request past it, and the pair of requests, with and without the identity   *)
(* text, whose two answers tell whether Anthropic still wants it.             *)
(*                                                                          *)
(* Every wait lets other operators' probes run, keys come and go and the      *)
(* world change, which the code cannot see: a result tells of the worlds      *)
(* there were while its requests were out, and no more.  How an account comes *)
(* by a token, or fails to, is the subject of OAuthManager.                   *)
(***************************************************************************)
EXTENDS Naturals, Sequences, FiniteSets, SequencesExt

CONSTANTS
    Operators,   \* requests that may be open at once
    KeyNames,    \* names of API keys, in the order the key store lists them
    Accounts,    \* the pool's members
    Unknown,     \* a name the pool has no member for
    Worlds,      \* gate: the identity text is wanted; limited: the accounts out
                 \* of quota; honoured: those whose tokens Anthropic takes
    Nil

ASSUME ProbesAssumption ==
    /\ Worlds \subseteq [gate : BOOLEAN, limited : SUBSET Accounts, honoured : SUBSET Accounts]
    /\ Worlds # {} /\ Unknown \notin Accounts /\ Nil \notin Range(KeyNames)

Kinds == {"oauth-probe", "self-ping", "key-invoke", "upstream-direct", "verify-entitlement"}
Pings == {"self-ping", "key-invoke"}

Verdicts == {"ok", "marker-drift", "account-issue", "reversed", "inconclusive"}

\* "failed" is every other status and a transport error; "none" is awaited.
Statuses == {"200", "401", "429", "failed", "none"}

VARIABLES
    world,    \* how things are
    keys,     \* names the key store lists
    probe,    \* what each operator has running
    latest    \* TestResultStore

probeVars == <<world, keys, probe, latest>>

\* live: the key has not been revoked since it was read; saw: the worlds there
\* were since the requests went out.
NoProbe == [kind |-> Nil, phase |-> "idle", key |-> Nil, live |-> TRUE,
            account |-> Nil, a |-> "none", b |-> "none", saw |-> {}]

ProbesInit ==
    /\ world \in Worlds
    /\ keys = Range(KeyNames)
    /\ probe = [o \in Operators |-> NoProbe]
    /\ latest = [k \in Kinds |-> Nil]

-----------------------------------------------------------------------------
(* Outside.                                                                 *)

Out(p) == p.phase = "calling"

\* Anthropic changes its mind, or an account its standing.
Shift ==
    /\ world' \in Worlds \ {world}
    /\ probe' = [o \in Operators |->
                    IF Out(probe[o]) THEN [probe[o] EXCEPT !.saw = @ \cup {world'}] ELSE probe[o]]
    /\ UNCHANGED <<keys, latest>>

\* Anthropic's answer in world w to a small request of an account, as the code
\* tells it: 429 without quota or without the identity text where it is wanted.
\* Anything may fail.
Anthropic(w, account, marker) ==
    {"failed"} \cup
    (IF account \notin w.honoured THEN {"401"}
     ELSE IF account \in w.limited \/ (w.gate /\ ~marker) THEN {"429"} ELSE {"200"})

\* revoke, and add: a key that was read before may be gone when it is used.
ChangeKeys(n) ==
    /\ keys' = IF n \in keys THEN keys \ {n} ELSE keys \cup {n}
    /\ probe' = [o \in Operators |->
                    IF n \in keys /\ probe[o].key = n THEN [probe[o] EXCEPT !.live = FALSE] ELSE probe[o]]
    /\ UNCHANGED <<world, latest>>

\* The gateway's own handler: it looks the key up when the request arrives, has
\* limits of its own, and relays, of any account, what upstream says to a
\* request with the identity text.
Gateway(p) ==
    {"429", "failed"} \cup (IF p.live THEN {} ELSE {"401"})
                     \cup UNION {UNION {Anthropic(w, account, TRUE) : account \in Accounts} : w \in p.saw}

-----------------------------------------------------------------------------
(* The handlers.                                                            *)

\* What is recorded, and the request answered.
Report(o, p, ok, says) ==
    /\ latest' = [latest EXCEPT ![p.kind] =
                    [ok |-> ok, says |-> says, account |-> p.account, live |-> p.live, saw |-> p.saw]]
    /\ probe' = [probe EXCEPT ![o] = NoProbe]
    /\ UNCHANGED <<world, keys>>

Free(o) == probe[o].phase = "idle"

Begin(o, p) ==
    /\ probe' = [probe EXCEPT ![o] = p]
    /\ UNCHANGED <<world, keys, latest>>

\* The request goes out.
Calling(p) == [p EXCEPT !.phase = "calling", !.saw = {world}]

\* pickFirstKey, of those the store lists.
FirstKey == SelectSeq(KeyNames, LAMBDA n : n \in keys)[1]

\* createSelfPingHandler.
SelfPing(o) ==
    LET p == [NoProbe EXCEPT !.kind = "self-ping"] IN
    /\ Free(o)
    /\ IF keys = {} THEN Report(o, p, FALSE, "no keys")
       ELSE Begin(o, Calling([p EXCEPT !.key = FirstKey]))

\* createKeyInvokeHandler: a name that was revoked is reported, and a 404.
KeyInvoke(o, n) ==
    LET p == [NoProbe EXCEPT !.kind = "key-invoke", !.key = n] IN
    /\ Free(o)
    /\ IF n \notin keys THEN Report(o, p, FALSE, "not found") ELSE Begin(o, Calling(p))

\* isEntitlementModelAllowed: other models are reported, and a 400.
RefuseModel(o) ==
    /\ Free(o)
    /\ Report(o, [NoProbe EXCEPT !.kind = "verify-entitlement"], FALSE, "rejected")

\* createOAuthProbeHandler: the name is the form's, and may be none of the pool.
ProbeOAuth(o, name) ==
    /\ Free(o)
    /\ Begin(o, [NoProbe EXCEPT !.kind = "oauth-probe", !.phase = "refreshing", !.account = name])

\* forceRefresh throws for a name the pool does not have; of a member the
\* refresh may end either way, whatever token it may still have in use.
Refreshed(o) ==
    /\ probe[o].phase = "refreshing" /\ probe[o].account \in Accounts
    /\ Report(o, probe[o], TRUE, "refreshed")
NotRefreshed(o) ==
    /\ probe[o].phase = "refreshing"
    /\ Report(o, probe[o], FALSE, "failed")

\* createUpstreamDirectHandler and createVerifyEntitlementHandler, up to
\* getAccessToken, which picks an account.
AskPool(o, kind, account) ==
    /\ Free(o)
    /\ Begin(o, [NoProbe EXCEPT !.kind = kind, !.phase = "token", !.account = account])

\* It throws.
NoToken(o) ==
    /\ probe[o].phase = "token"
    /\ Report(o, probe[o], FALSE, "token-fetch")

\* It has a token, in use or refreshed: the calls go out, the pair at once.
Given(o) == probe[o].phase = "token" /\ Begin(o, Calling(probe[o]))

\* Mutant: each call of the pair asks the pool for itself.
TokenOf_Each(p, side) ==
    IF side = "b" THEN CHOOSE account \in Accounts : account # p.account ELSE p.account

\* Whose token a call bears: both calls of a pair that of the account picked.
TokenOf(p, side) == p.account

\* classifyEntitlement.
ClassifyEntitlement(a, b) ==
    CASE a = "200" /\ b = "429" -> "ok"            [] a = "200" /\ b = "200" -> "marker-drift"
      [] a = "429" /\ b = "429" -> "account-issue" [] a = "429" /\ b = "200" -> "reversed"
      [] OTHER -> "inconclusive"

\* What a call past the gateway may have been answered, in a world since it
\* went out.
MayAnswer(p, side) == UNION {Anthropic(w, TokenOf(p, side), side = "a") : w \in p.saw}

\* callAnthropicDirect or runLoopbackPing returns; a failure is a status too.
PingAnswered(o) ==
    LET p == probe[o] IN
    /\ Out(p) /\ p.kind # "verify-entitlement"
    /\ \E status \in IF p.kind \in Pings THEN Gateway(p) ELSE MayAnswer(p, "a") :
            Report(o, p, status = "200", status)

\* Promise.all: either call of the pair may be the first to return.
PairAnswered(o, side) ==
    /\ Out(probe[o]) /\ probe[o].kind = "verify-entitlement" /\ probe[o][side] = "none"
    /\ \E status \in MayAnswer(probe[o], side) :
         LET p       == [probe[o] EXCEPT ![side] = status]
             verdict == ClassifyEntitlement(p.a, p.b)
         IN IF "none" \in {p.a, p.b} THEN Begin(o, p) ELSE Report(o, p, verdict = "ok", verdict)

ProbesNext ==
    \/ Shift
    \/ \E n \in Range(KeyNames) : ChangeKeys(n)
    \/ \E o \in Operators :
        \/ SelfPing(o) \/ RefuseModel(o)
        \/ \E n \in Range(KeyNames) : KeyInvoke(o, n)
        \/ \E name \in Accounts \cup {Unknown} : ProbeOAuth(o, name)
        \/ \E kind \in {"upstream-direct", "verify-entitlement"}, account \in Accounts : AskPool(o, kind, account)
        \/ Refreshed(o) \/ NotRefreshed(o) \/ NoToken(o) \/ Given(o) \/ PingAnswered(o)
        \/ \E side \in {"a", "b"} : PairAnswered(o, side)

ProbesSpec == ProbesInit /\ [][ProbesNext]_probeVars
-----------------------------------------------------------------------------

\* The types of the state: an idle operator has nothing under way.
ProbesTypeOK ==
    /\ world \in Worlds /\ keys \subseteq Range(KeyNames)
    /\ probe \in [Operators ->
         [kind : Kinds \cup {Nil}, phase : {"idle", "refreshing", "token", "calling"},
          key : Range(KeyNames) \cup {Nil}, live : BOOLEAN,
          account : Accounts \cup {Unknown, Nil}, a : Statuses, b : Statuses, saw : SUBSET Worlds]]
    /\ \A o \in Operators : probe[o].phase # "idle" => probe[o].kind \in Kinds

Serves(w, account) == account \in w.honoured \ w.limited

\* What a result claims of the worlds its requests were out in, and of the
\* account they went out for.
Claim(kind, r) ==
    /\ kind = "verify-entitlement" =>
        /\ r.ok => /\ \E w \in r.saw : Serves(w, r.account)
                   /\ \E w \in r.saw : w.gate \/ r.account \in w.limited
        /\ r.says = "marker-drift" => \E w \in r.saw : ~w.gate /\ Serves(w, r.account)
        /\ r.says = "account-issue" => \E w \in r.saw : r.account \in w.limited
        /\ r.says = "reversed" => \E v, w \in r.saw : v # w
    /\ kind = "upstream-direct" =>
        /\ r.ok => \E w \in r.saw : Serves(w, r.account)
        /\ r.says = "429" => \E w \in r.saw : r.account \in w.limited
        /\ r.says = "401" => \E w \in r.saw : r.account \notin w.honoured
    /\ kind \in Pings =>
        /\ r.ok => \E w \in r.saw : \E account \in Accounts : Serves(w, account)
        /\ r.says = "401" => ~r.live \/ \E w \in r.saw : Accounts \ w.honoured # {}
    /\ kind = "oauth-probe" => (r.ok => r.account \in Accounts)

\* A result on the page tells the truth of a moment its requests were out, the
\* two answers of a pair of one account, whichever returned first, whatever
\* changed between them and whatever other operators ran: in a world that did
\* not change "ok" means the identity text is wanted, and "reversed" is never
\* said (src/admin/test-runners.ts:373-378, 502-554, 620-640).
ReportsAreTrue == \A k \in Kinds : latest[k] # Nil => Claim(k, latest[k])

=============================================================================
