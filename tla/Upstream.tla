------------------------------ MODULE Upstream ------------------------------
(***************************************************************************)
(* The way of a request to Anthropic: the account pool picks a member       *)
(* (src/auth/account-pool.ts), its OAuth manager yields a token, pacing      *)
(* spaces the sends of a session (src/pacing.ts), and callUpstream           *)
(* (src/proxy/upstream.ts) sends, and once more after a 401.  The models     *)
(* handler (src/proxy/models.ts) takes the same way without session, pacing  *)
(* or headroom.                                                             *)
(*                                                                          *)
(* The manager is the one of OAuthManager, kept to what its callers see: a   *)
(* token in memory, at most one refresh in flight, and a refresh that is     *)
(* stored in memory before it is saved and settles those who wait.  A token  *)
(* is its login, which the operator may replace, and its rotation.           *)
(*                                                                          *)
(* Time is kept as the age of a session's last send and as what is left of   *)
(* a wait, so that it may pass without bound.                                *)
(***************************************************************************)
EXTENDS Integers

CONSTANTS
    Requests,    \* requests that reach a handler, each with its own identity
    Sessions,    \* values of x-claude-code-session-id
    Members,     \* accounts of the pool
    None,        \* no session, no member
    MinGap,      \* PACING_MIN_GAP_MS
    MaxLeft,     \* bound on the remaining tokens a response reports
    MaxGen,      \* bound on the rotations of one login
    MaxReplace   \* bound on the operator's replaces of one member

ASSUME UpstreamAssumption ==
    /\ None \notin Sessions \cup Members
    /\ MinGap \in Nat /\ MaxLeft \in Nat /\ MaxGen \in Nat /\ MaxReplace \in Nat

Token == [login : 0..MaxReplace, gen : 0..MaxGen]
NoToken == [login |-> 0, gen |-> 0]

Statuses == {"ok", "limited", "error", "unauthorized"}

\* What the pool knows of a member's headroom: nothing, or what a response
\* reported, to whichever login the request was sent with.
Unknown == -1
Estimate == 0..MaxLeft \cup {Unknown}

Phases == {"new", "awaitToken", "template", "paced", "sent", "awaitRefresh", "done"}

VARIABLES
    req,        \* per request: how far it is and what it carries
    assigned,   \* sessionAssignments: the member of each session, or None
    estimate,   \* remainingTokens of each member
    held,       \* the token in each manager's memory
    fresh,      \* whether that token is far from its expiry
    flight,     \* each manager's refresh in flight
    replace,    \* how many replaces of each member still write
    issued,     \* how many logins the operator gave each member
    age         \* per session, time since its last send, up to MinGap

vars == <<req, assigned, estimate, held, fresh, flight, replace, issued, age>>

NewRequest == [phase |-> "new", kind |-> "messages", session |-> None, member |-> None,
               token |-> NoToken, attempt |-> 1, rejected |-> NoToken, late |-> "no",
               acted |-> 0, wait |-> 0, overtaken |-> "no"]
NoFlight == [phase |-> "none", token |-> NoToken]

Init ==
    /\ req = [r \in Requests |-> NewRequest]
    /\ assigned = [s \in Sessions |-> None]
    /\ estimate = [m \in Members |-> Unknown]
    /\ held = [m \in Members |-> NoToken]
    /\ fresh \in [Members -> BOOLEAN]
    /\ flight = [m \in Members |-> NoFlight]
    /\ replace = [m \in Members |-> 0]
    /\ issued = [m \in Members |-> 0]
    /\ age = [s \in Sessions |-> MinGap]

-----------------------------------------------------------------------------
(* The account pool and its managers.                                       *)

\* pickByHeadroom: more is better, and nothing known counts as infinite.
Better(m, n) ==
    /\ estimate[n] # Unknown
    /\ estimate[m] = Unknown \/ estimate[m] > estimate[n]
Best == {m \in Members : \A n \in Members : ~Better(n, m)}

\* Mutant: routing by headroom alone.
Candidates_ByHeadroom(s) == Best

\* A session keeps the member it was first given.
Candidates(s) == IF s # None /\ assigned[s] # None THEN {assigned[s]} ELSE Best

Assign(s, m) == assigned' = IF s = None THEN assigned ELSE [assigned EXCEPT ![s] = m]

\* ensureFresh, forced or near expiry: the refresh that is in flight, or one
\* that starts now with the token in memory.
JoinOrLaunch(m) ==
    flight' = IF flight[m].phase # "none" THEN flight
              ELSE [flight EXCEPT ![m] = [phase |-> "asked", token |-> held[m]]]

\* The handler starts: the pool picks a member and asks it for a token.
Start(r, kind, s) ==
    /\ req[r].phase = "new"
    /\ kind = "models" => s = None
    /\ \E m \in Candidates(s) :
          /\ Assign(s, m)
          /\ \/ /\ fresh[m]
                /\ req' = [req EXCEPT ![r] = [NewRequest EXCEPT
                              !.phase = "template", !.kind = kind, !.session = s,
                              !.member = m, !.token = held[m]]]
                /\ UNCHANGED flight
             \/ /\ ~fresh[m]
                /\ req' = [req EXCEPT ![r] = [NewRequest EXCEPT
                              !.phase = "awaitToken", !.kind = kind, !.session = s,
                              !.member = m]]
                /\ JoinOrLaunch(m)
    /\ UNCHANGED <<estimate, held, fresh, replace, issued, age>>

\* doRefresh assigns current and goes on to write the file.
RefreshStore(m) ==
    /\ flight[m].phase = "asked"
    /\ flight[m].token.gen < MaxGen
    /\ LET next == [flight[m].token EXCEPT !.gen = @ + 1] IN
          /\ held' = [held EXCEPT ![m] = next]
          /\ flight' = [flight EXCEPT ![m] = [phase |-> "saving", token |-> next]]
    /\ fresh' = [fresh EXCEPT ![m] = TRUE]
    /\ UNCHANGED <<req, assigned, estimate, replace, issued, age>>

Waits(r, m) == req[r].phase \in {"awaitToken", "awaitRefresh"} /\ req[r].member = m

\* The refresh resolves with the token it stored: everyone who awaited it,
\* for a first or a second attempt, goes on to build a request with it.
RefreshSaved(m) ==
    /\ flight[m].phase = "saving"
    /\ req' = [r \in Requests |->
                 IF Waits(r, m)
                 THEN [req[r] EXCEPT !.phase = "template", !.token = flight[m].token]
                 ELSE req[r]]
    /\ flight' = [flight EXCEPT ![m] = NoFlight]
    /\ UNCHANGED <<assigned, estimate, held, fresh, replace, issued, age>>

\* What an answered handler carried no longer matters.
Released(q) == [q EXCEPT !.token = NoToken, !.rejected = NoToken, !.late = "no",
                         !.wait = 0, !.overtaken = "no"]

Answered(q, acted) == [Released(q) EXCEPT !.phase = "done", !.acted = acted]

\* Mutant: a failed refresh rejects nobody.
RefreshFails_Swallowed(m) ==
    /\ flight[m].phase # "none"
    /\ flight' = [flight EXCEPT ![m] = NoFlight]
    /\ UNCHANGED <<req, assigned, estimate, held, fresh, replace, issued, age>>

\* The endpoint refused, timed out or sent nonsense, or the write failed:
\* everyone who awaited the refresh answers 502.
RefreshFails(m) ==
    /\ flight[m].phase # "none"
    /\ req' = [r \in Requests |->
                 IF Waits(r, m) THEN Answered(req[r], req[r].acted) ELSE req[r]]
    /\ flight' = [flight EXCEPT ![m] = NoFlight]
    /\ UNCHANGED <<assigned, estimate, held, fresh, replace, issued, age>>

\* The token in memory comes near its expiry.
Expire(m) ==
    /\ fresh[m]
    /\ fresh' = [fresh EXCEPT ![m] = FALSE]
    /\ UNCHANGED <<req, assigned, estimate, held, flight, replace, issued, age>>

\* replaceOAuth: memory has the new login at once, with whatever expiry the
\* operator gave, whether or not an earlier one still writes, and the write is
\* awaited ...
Replace(m) ==
    /\ issued[m] < MaxReplace
    /\ issued' = [issued EXCEPT ![m] = @ + 1]
    /\ held' = [held EXCEPT ![m] = [login |-> issued[m] + 1, gen |-> 0]]
    /\ \E b \in BOOLEAN : fresh' = [fresh EXCEPT ![m] = b]
    /\ replace' = [replace EXCEPT ![m] = @ + 1]
    /\ UNCHANGED <<req, assigned, estimate, flight, age>>

\* ... before the estimate of the previous account is dropped.
ReplaceSaved(m) ==
    /\ replace[m] > 0
    /\ replace' = [replace EXCEPT ![m] = @ - 1]
    /\ estimate' = [estimate EXCEPT ![m] = Unknown]
    /\ UNCHANGED <<req, assigned, held, fresh, flight, issued, age>>

ReplaceFails(m) ==
    /\ replace[m] > 0
    /\ replace' = [replace EXCEPT ![m] = @ - 1]
    /\ UNCHANGED <<req, assigned, estimate, held, fresh, flight, issued, age>>

-----------------------------------------------------------------------------
(* Pacing and the two attempts.                                             *)

\* Without a session pacing is a no-op, and the models handler has none.
Paced(r) == req[r].session # None

\* The request leaves for Anthropic and is its session's last send; those
\* of the session that still wait are overtaken.
Send(r) ==
    /\ req' = [q \in Requests |->
                 IF q = r THEN [req[q] EXCEPT !.phase = "sent"]
                 ELSE IF /\ Paced(r) /\ req[q].session = req[r].session
                         /\ req[q].phase = "paced"
                      THEN [req[q] EXCEPT !.overtaken = "yes"]
                      ELSE req[q]]
    /\ age' = IF Paced(r) THEN [age EXCEPT ![req[r].session] = 0] ELSE age

\* Mutant: waits as long as has already passed.
Remaining_Elapsed(r) ==
    IF Paced(r) /\ age[req[r].session] < MinGap THEN age[req[r].session] ELSE 0

\* Mutant: the elapsed time is added to the gap.
Remaining_Added(r) ==
    IF Paced(r) /\ age[req[r].session] < MinGap THEN MinGap + age[req[r].session] ELSE 0

\* What is left of the gap since the session's last send.
Remaining(r) == IF Paced(r) THEN MinGap - age[req[r].session] ELSE 0

\* pacing.await reads when the session last sent.  A request that need not
\* wait records its own send and goes out in the same step.
AwaitPacing(r) ==
    /\ req[r].phase = "template"
    /\ \/ Remaining(r) = 0 /\ Send(r)
       \/ /\ Remaining(r) > 0
          /\ req' = [req EXCEPT ![r].phase = "paced", ![r].wait = Remaining(r),
                                ![r].overtaken = "no"]
          /\ UNCHANGED age
    /\ UNCHANGED <<assigned, estimate, held, fresh, flight, replace, issued>>

\* The timer fires; nothing is read again before the send.
PacingDone(r) ==
    /\ req[r].phase = "paced" /\ req[r].wait = 0
    /\ Send(r)
    /\ UNCHANGED <<assigned, estimate, held, fresh, flight, replace, issued>>

\* template.apply threw.
PrepareFails(r) ==
    /\ req[r].phase = "template" /\ req[r].kind = "messages"
    /\ req' = [req EXCEPT ![r] = Answered(@, @.acted)]
    /\ UNCHANGED <<assigned, estimate, held, fresh, flight, replace, issued, age>>

\* Mutant: a fetch that failed is tried once more.
FetchFails_Retries(r) ==
    /\ req[r].phase = "sent"
    /\ \E n \in {0, 1} :
          req' = [req EXCEPT ![r] =
                    IF @.attempt = 1
                    THEN [@ EXCEPT !.phase = "template", !.attempt = 2, !.acted = @ + n]
                    ELSE Answered(@, @.acted + n)]
    /\ UNCHANGED <<assigned, estimate, held, fresh, flight, replace, issued, age>>

\* Mutant: the TTFB timer guards the first attempt alone.
FetchFails_FirstOnly(r) ==
    /\ req[r].phase = "sent" /\ req[r].attempt = 1
    /\ \E n \in {0, 1} : req' = [req EXCEPT ![r] = Answered(@, @.acted + n)]
    /\ UNCHANGED <<assigned, estimate, held, fresh, flight, replace, issued, age>>

\* No headers within the TTFB timeout, or a transport error: Anthropic may
\* have acted on the request or not, and it is not sent again.
FetchFails(r) ==
    /\ req[r].phase = "sent"
    /\ \E n \in {0, 1} : req' = [req EXCEPT ![r] = Answered(@, @.acted + n)]
    /\ UNCHANGED <<assigned, estimate, held, fresh, flight, replace, issued, age>>

\* Mutant: a 401 asks for a token without forcing a refresh.
Unauthorized_NotForced(r) ==
    LET m == req[r].member IN
    /\ req[r].phase = "sent" /\ req[r].attempt = 1
    /\ req' = [req EXCEPT ![r] = [@ EXCEPT !.attempt = 2, !.rejected = req[r].token,
                  !.token = held[m], !.phase = IF fresh[m] THEN "template"
                                                           ELSE "awaitRefresh"]]
    /\ IF fresh[m] THEN UNCHANGED flight ELSE JoinOrLaunch(m)
    /\ UNCHANGED <<assigned, estimate, held, fresh, replace, issued, age>>

\* A first 401, on which Anthropic did not act: force a refresh of the same
\* member, or join the one that is in flight, at whatever stage that one is.
Unauthorized(r) ==
    LET m == req[r].member
        stored == [phase |-> "saving", token |-> req[r].token]
    IN
    /\ req[r].phase = "sent" /\ req[r].attempt = 1
    /\ req' = [req EXCEPT ![r] = [@ EXCEPT !.phase = "awaitRefresh", !.attempt = 2,
                  !.rejected = req[r].token,
                  !.late = IF flight[m] = stored THEN "yes" ELSE "no"]]
    /\ JoinOrLaunch(m)
    /\ UNCHANGED <<assigned, estimate, held, fresh, replace, issued, age>>

\* observeResponse is for non-error responses of the messages endpoint.
Observes(r, status) == req[r].kind = "messages" /\ status = "ok"

\* How often Anthropic acts on a request it answers so.
Acts(status) == CASE status = "ok" -> {1} [] status = "error" -> {0, 1} [] OTHER -> {0}

\* Any other answer, and the answer to the second attempt, goes to the
\* client as it is; a response with headers of the rate limit is observed.
Respond(r, status) ==
    /\ req[r].phase = "sent"
    /\ status = "unauthorized" => req[r].attempt = 2
    /\ \E n \in Acts(status) : req' = [req EXCEPT ![r] = Answered(@, @.acted + n)]
    /\ \/ UNCHANGED estimate
       \/ /\ Observes(r, status)
          /\ \E left \in 0..MaxLeft : estimate' = [estimate EXCEPT ![req[r].member] = left]
    /\ UNCHANGED <<assigned, held, fresh, flight, replace, issued, age>>

\* Time passes for every session and every waiting request.
Tick ==
    /\ \/ \E s \in Sessions : age[s] < MinGap
       \/ \E r \in Requests : req[r].wait > 0
    /\ age' = [s \in Sessions |-> IF age[s] < MinGap THEN age[s] + 1 ELSE MinGap]
    /\ req' = [r \in Requests |->
                 IF req[r].wait > 0 THEN [req[r] EXCEPT !.wait = @ - 1] ELSE req[r]]
    /\ UNCHANGED <<assigned, estimate, held, fresh, flight, replace, issued>>

Next ==
    \/ \E r \in Requests, kind \in {"messages", "models"}, s \in Sessions \cup {None} :
          Start(r, kind, s)
    \/ \E r \in Requests :
          \/ AwaitPacing(r) \/ PacingDone(r) \/ PrepareFails(r)
          \/ FetchFails(r) \/ Unauthorized(r)
          \/ \E status \in Statuses : Respond(r, status)
    \/ \E m \in Members :
          \/ RefreshStore(m) \/ RefreshSaved(m) \/ RefreshFails(m) \/ Expire(m)
          \/ Replace(m) \/ ReplaceSaved(m) \/ ReplaceFails(m)
    \/ Tick

Spec == Init /\ [][Next]_vars

\* Timers fire and continuations run; neither Anthropic nor the token
\* endpoint need ever answer, but each fetch has its timeout.
FairSpec ==
    /\ Spec
    /\ WF_vars(Tick)
    /\ \A r \in Requests :
          WF_vars(AwaitPacing(r)) /\ WF_vars(PacingDone(r)) /\ WF_vars(FetchFails(r))
    /\ \A m \in Members : WF_vars(RefreshSaved(m) \/ RefreshFails(m))

-----------------------------------------------------------------------------
(* Properties.                                                              *)

Request == [phase : Phases, kind : {"messages", "models"}, session : Sessions \cup {None},
            member : Members \cup {None}, token : Token, attempt : {1, 2},
            rejected : Token, late : {"no", "yes"}, acted : 0..2, wait : 0..MinGap,
            overtaken : {"no", "yes"}]

\* Every variable keeps its type.
TypeOK ==
    /\ req \in [Requests -> Request]
    /\ assigned \in [Sessions -> Members \cup {None}]
    /\ estimate \in [Members -> Estimate]
    /\ held \in [Members -> Token]
    /\ fresh \in [Members -> BOOLEAN]
    /\ flight \in [Members -> [phase : {"none", "asked", "saving"}, token : Token]]
    /\ replace \in [Members -> Nat]
    /\ issued \in [Members -> 0..MaxReplace]
    /\ age \in [Sessions -> 0..MinGap]

\* All requests of one session go through one account, however the estimates
\* moved between them (sticky sessionAssignments, account-pool.ts).
SessionsStick ==
    \A q, r \in Requests :
        /\ req[q].session # None /\ req[q].session = req[r].session
        /\ req[q].member # None /\ req[r].member # None
        => req[q].member = req[r].member

\* POST /v1/messages is not idempotent: whatever fails on the way, and
\* whatever the retry does, Anthropic acts on a request at most once
\* (callUpstream retries after a 401 alone).
NeverSubmitsTwice == \A r \in Requests : req[r].acted <= 1

\* Whoever awaits a refresh has one in flight that will settle it, also when
\* it joined late, and also when others failed with one before (ensureFresh).
WaitersHaveRefresh ==
    \A r \in Requests, m \in Members : Waits(r, m) => flight[m].phase # "none"

\* Each member is to its requests the source of TokenSource, which is what a
\* manager promises: whoever waits, for a first or a second attempt, also if it
\* joined late, has a refresh that will settle it, and one that ends leaves
\* nobody behind (getAccessToken and forceRefresh, account-pool.ts 111-128).
Source(m) == INSTANCE TokenSource WITH
    Users <- Requests,
    held <- held[m],
    fresh <- fresh[m],
    flight <- flight[m],
    waiting <- {r \in Requests : Waits(r, m)},
    issued <- issued[m]
MembersAreSources ==
    /\ \A m \in Members : Source(m)!Init
    /\ [][\A m \in Members : Source(m)!Next \/ UNCHANGED Source(m)!svars]_vars

\* A 401 refreshes the member: the second attempt has another token than the
\* one just rejected, unless that is the token of the refresh it joined, which
\* was in use but not yet saved (forceRefresh after a 401).
RetryHasNewToken ==
    \A r \in Requests :
        req[r].attempt = 2 /\ req[r].phase \in {"template", "paced", "sent"}
        => req[r].token # req[r].rejected \/ req[r].late = "yes"

\* A request that was not overtaken while it waited goes out at least MinGap
\* after the last send of its session (pacing.await).
SpacedUnlessOvertaken ==
    [][\A r \in Requests :
          /\ req[r].phase # "sent" /\ req'[r].phase = "sent" /\ Paced(r)
          /\ req[r].phase = "paced" => req[r].overtaken = "no"
          => age[req[r].session] = MinGap]_vars

\* Every request is answered.
RequestsAnswered == \A r \in Requests : req[r].phase # "new" ~> req[r].phase = "done"

\* src/pacing.ts:4-5: "consecutive outbound requests sharing the same
\* x-claude-code-session-id are spaced by at least `minGapMs`".
SessionSpacing ==
    [][\A r \in Requests :
          req[r].phase # "sent" /\ req'[r].phase = "sent" /\ Paced(r)
          => age[req[r].session] = MinGap]_vars
=============================================================================
