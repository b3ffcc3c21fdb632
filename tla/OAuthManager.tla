---------------------------- MODULE OAuthManager ----------------------------
(***************************************************************************)
(* The OAuth token manager of one upstream account: createOAuthManager in   *)
(* src/auth/oauth.ts, with the admin handler that calls replace             *)
(* (src/admin/oauth.ts).                                                    *)
(*                                                                          *)
(* One process runs the manager; every await is a point where another       *)
(* request may run.  `current` is the token in memory, `disk` the file at   *)
(* storePath.  A refresh is a task of its own: it is sent, answered (or     *)
(* rejected, or timed out), stored in memory, renamed over the file, and     *)
(* settles the callers that wait for it.  A replace by the operator sets    *)
(* memory at once and renames later.  Nothing orders two renames.           *)
(*                                                                          *)
(* The token endpoint is external: it rotates the refresh token at each     *)
(* grant and honours only the latest one of a login                         *)
(* (docs/operational-pitfalls.md, pitfall 11).                              *)
(***************************************************************************)
EXTENDS Integers

CONSTANTS
    Callers,      \* requests that ask the manager for an access token
    Attempts,     \* identities of doRefresh calls
    None,         \* no file, or no refresh in flight
    Life,         \* expires_in of a granted token
    Margin,       \* REFRESH_BEFORE_EXPIRY_MS
    EnvExpiry,    \* ANTHROPIC_OAUTH_EXPIRES_AT
    MaxTime,      \* bound on the clock
    MaxReplace,   \* bound on the operator's replaces
    MaxRotation,  \* bound on the grants of one login
    MaxRestart    \* bound on the restarts of the process

\* The environment's login was issued before the process started, so its
\* token expires before any token granted later.
ASSUME ConstantsAssumption ==
    /\ Life \in Nat /\ Margin \in Nat /\ EnvExpiry \in Nat /\ EnvExpiry < Life
    /\ MaxTime \in Nat /\ MaxReplace \in Nat
    /\ MaxRotation \in Nat /\ MaxRestart \in Nat

VARIABLES
    now,       \* Date.now()
    current,   \* the manager's TokenState in memory
    disk,      \* the token file, or None
    attempt,   \* what each doRefresh call is doing and the token it carries
    inFlight,  \* refreshInFlight: the attempt callers join, or None
    saving,    \* tokens of replaces whose rename is still to come
    caller,    \* what each caller waits for or was given
    rotation,  \* endpoint: the generation it honours, per login
    stray,     \* refresh tokens of abandoned requests still on the network
    pasted,    \* number of replaces so far: the operator's latest login
    restarts,  \* number of restarts so far
    mishap     \* auxiliary: what has gone wrong so far, for the properties

vars == <<now, current, disk, attempt, inFlight, saving, caller, rotation,
          stray, pasted, restarts, mishap>>

-----------------------------------------------------------------------------
(* Tokens.  Login 0 is the one in the environment, login k the k-th one the *)
(* operator pasted; gen counts the rotations since that login.              *)

Logins == 0..MaxReplace

Token == [login: Logins, gen: 0..MaxRotation, access: BOOLEAN, expiresAt: Nat]

ASSUME NoneAssumption == None \notin Attempts \cup Token

EnvToken == [login |-> 0, gen |-> 0, access |-> TRUE, expiresAt |-> EnvExpiry]

\* The token used at boot: the file's only if it expires strictly later.
SelectInitial(file) ==
    IF file # None /\ file.expiresAt > EnvExpiry THEN file ELSE EnvToken

NearExpiry(t) == now + Margin >= t.expiresAt

\* Mutant: the length check of oauth.ts 131 is forgotten.
Fresh_IgnoresEmpty(t) == ~NearExpiry(t)

\* What getAccessToken returns without a refresh.
Fresh(t) == ~NearExpiry(t) /\ t.access

-----------------------------------------------------------------------------
(* Tasks and callers.                                                       *)

Phases == {"idle", "sent", "answered", "saving"}

Idle == [phase |-> "idle", token |-> EnvToken]

\* The refresh token of a TokenState: all the endpoint looks at.
RefreshToken(t) == [login |-> t.login, gen |-> t.gen]

Active == {r \in Attempts : attempt[r].phase # "idle"}

\* A caller waits for a refresh or is idle: it has its answer, a token or an
\* error.  One handed an empty string in a token's place is set apart.
Statuses == {"idle", "waiting", "empty"}

Resting == [status |-> "idle", on |-> None]

Served(t) == [status |-> IF t.access THEN "idle" ELSE "empty", on |-> None]

Failed == Resting

WaitingOn(r) == [status |-> "waiting", on |-> r]

\* What the properties excuse: a write failed; a replace overlapped a refresh
\* or another replace; or the process may have lost hold of the latest refresh
\* token (an answer timed out, it died with a task running, or boot chose the
\* environment over the file).
Mishaps == {"saveFailed", "overlap", "tokenLost"}

Note(kinds) == mishap' = mishap \cup kinds

TypeOK ==
    /\ now \in 0..MaxTime
    /\ current \in Token
    /\ disk \in Token \cup {None}
    /\ attempt \in [Attempts -> [phase: Phases, token: Token]]
    /\ inFlight \in Attempts \cup {None}
    /\ saving \in SUBSET Token
    /\ caller \in [Callers -> [status: Statuses, on: Attempts \cup {None}]]
    /\ rotation \in [Logins -> 0..MaxRotation]
    /\ stray \in SUBSET [login: Logins, gen: 0..MaxRotation]
    /\ pasted \in 0..MaxReplace
    /\ restarts \in 0..MaxRestart
    /\ mishap \in SUBSET Mishaps

Init ==
    /\ now = 0
    /\ current = SelectInitial(None)
    /\ disk = None
    /\ attempt = [r \in Attempts |-> Idle]
    /\ inFlight = None
    /\ saving = {}
    /\ caller = [c \in Callers |-> Resting]
    /\ rotation = [l \in Logins |-> 0]
    /\ stray = {}
    /\ pasted = 0
    /\ restarts = 0
    /\ mishap = {}

-----------------------------------------------------------------------------
(* Callers: getAccessToken (force = FALSE) and forceRefresh (force = TRUE). *)

AnswerAtOnce(c) ==
    /\ caller' = [caller EXCEPT ![c] = Served(current)]
    /\ UNCHANGED <<attempt, inFlight, mishap>>

Join(c) ==
    /\ inFlight # None
    /\ caller' = [caller EXCEPT ![c] = WaitingOn(inFlight)]
    /\ UNCHANGED <<attempt, inFlight, mishap>>

\* Mutant: the refresh token comes from the file instead of memory.
Launch_ReadsFile(c) ==
    \E r \in Attempts :
        /\ attempt[r].phase = "idle"
        /\ attempt' = [attempt EXCEPT ![r] = [phase |-> "sent",
                                             token |-> SelectInitial(disk)]]
        /\ inFlight' = r
        /\ caller' = [caller EXCEPT ![c] = WaitingOn(r)]
        /\ Note(IF saving # {} THEN {"overlap"} ELSE {})

\* doRefresh runs to its fetch: it submits the refresh token in memory.
Launch(c) ==
    \E r \in Attempts :
        /\ attempt[r].phase = "idle"
        /\ attempt' = [attempt EXCEPT ![r] = [phase |-> "sent", token |-> current]]
        /\ inFlight' = r
        /\ caller' = [caller EXCEPT ![c] = WaitingOn(r)]
        /\ Note(IF saving # {} THEN {"overlap"} ELSE {})

\* Mutant: no refreshInFlight guard.
StartRefresh_NoSingleFlight(c) == Launch(c)

StartRefresh(c) == inFlight = None /\ Launch(c)

EnsureFresh(c, force) ==
    /\ caller[c].status # "waiting"
    /\ \/ ~force /\ Fresh(current) /\ AnswerAtOnce(c)
       \/ (force \/ ~Fresh(current)) /\ Join(c)
       \/ (force \/ ~Fresh(current)) /\ StartRefresh(c)
    /\ UNCHANGED <<now, current, disk, saving, rotation, stray, pasted, restarts>>

-----------------------------------------------------------------------------
(* The token endpoint (external).                                           *)

\* The latest refresh token of a login buys the next generation.
Grant(r) ==
    LET t == attempt[r].token IN
    /\ attempt[r].phase = "sent"
    /\ t.gen = rotation[t.login]
    /\ t.gen < MaxRotation
    /\ rotation' = [rotation EXCEPT ![t.login] = t.gen + 1]
    /\ attempt' = [attempt EXCEPT ![r] =
                      [phase |-> "answered",
                       token |-> [t EXCEPT !.gen = t.gen + 1, !.access = TRUE]]]
    /\ UNCHANGED <<now, current, disk, inFlight, saving, caller, stray, pasted,
                   restarts, mishap>>

\* A request its sender gave up on is processed after all.
GrantStray(t) ==
    /\ t \in stray
    /\ t.gen = rotation[t.login]
    /\ t.gen < MaxRotation
    /\ rotation' = [rotation EXCEPT ![t.login] = t.gen + 1]
    /\ stray' = stray \ {t}
    /\ UNCHANGED <<now, current, disk, attempt, inFlight, saving, caller, pasted,
                   restarts, mishap>>

-----------------------------------------------------------------------------
(* The rest of doRefresh.                                                   *)

\* The refresh promise settles: finally clears refreshInFlight and every
\* caller that awaits it resumes.
Settle(r, outcome) ==
    /\ attempt' = [attempt EXCEPT ![r] = Idle]
    /\ inFlight' = None
    /\ caller' = [c \in Callers |->
                     IF caller[c].status = "waiting" /\ caller[c].on = r
                     THEN outcome ELSE caller[c]]

\* The endpoint answers with an error, as it may to any request and must to
\* a spent token: onRefreshFail, then throw.
RefreshRejected(r) ==
    /\ attempt[r].phase = "sent"
    /\ Settle(r, Failed)
    /\ UNCHANGED <<now, current, disk, saving, rotation, stray, pasted, restarts,
                   mishap>>

\* Mutant: the fetch has no AbortSignal.
RefreshTimeout_NoTimer(r) == FALSE /\ UNCHANGED vars

\* AbortSignal.timeout, a network error or a malformed body.  The request may
\* have been granted, or still be.
RefreshTimeout(r) ==
    /\ attempt[r].phase \in {"sent", "answered"}
    /\ Settle(r, Failed)
    /\ stray' = IF attempt[r].phase = "sent"
                THEN stray \cup {RefreshToken(attempt[r].token)} ELSE stray
    /\ Note({"tokenLost"})
    /\ UNCHANGED <<now, current, disk, saving, rotation, pasted, restarts>>

\* Mutant: the expiry of the granted token is not computed.
RefreshStore_NoExpiry(r) ==
    LET next == [attempt[r].token EXCEPT !.expiresAt = None] IN
    /\ attempt[r].phase = "answered"
    /\ current' = next
    /\ attempt' = [attempt EXCEPT ![r] = [phase |-> "saving", token |-> next]]
    /\ UNCHANGED <<now, disk, inFlight, saving, caller, rotation, stray, pasted,
                   restarts, mishap>>

\* current = next, then writeAtomic starts.  A replace made since the request
\* was sent is overwritten.
RefreshStore(r) ==
    LET next == [attempt[r].token EXCEPT !.expiresAt = now + Life] IN
    /\ attempt[r].phase = "answered"
    /\ current' = next
    /\ attempt' = [attempt EXCEPT ![r] = [phase |-> "saving", token |-> next]]
    /\ UNCHANGED <<now, disk, inFlight, saving, caller, rotation, stray, pasted,
                   restarts, mishap>>

\* Mutant: the rotated token is never written.
RefreshSaved_SkipsWrite(r) ==
    /\ attempt[r].phase = "saving"
    /\ Settle(r, Served(attempt[r].token))
    /\ UNCHANGED <<now, current, disk, saving, rotation, stray, pasted, restarts,
                   mishap>>

\* The rename lands and the promise resolves with the new token.
RefreshSaved(r) ==
    /\ attempt[r].phase = "saving"
    /\ disk' = attempt[r].token
    /\ Settle(r, Served(attempt[r].token))
    /\ UNCHANGED <<now, current, saving, rotation, stray, pasted, restarts, mishap>>

\* writeAtomic throws: the callers fail although memory has the new token.
RefreshSaveFails(r) ==
    /\ attempt[r].phase = "saving"
    /\ Settle(r, Failed)
    /\ Note({"saveFailed"})
    /\ UNCHANGED <<now, current, disk, saving, rotation, stray, pasted, restarts>>

-----------------------------------------------------------------------------
(* replace, called by POST /admin/oauth/replace with a new login.  The form *)
(* may leave out the access token, and expiresAt defaults to 0.             *)

Replace(access, expiresAt) ==
    LET next == [login |-> pasted + 1, gen |-> 0, access |-> access,
                 expiresAt |-> expiresAt] IN
    /\ pasted < MaxReplace
    /\ pasted' = pasted + 1
    /\ current' = next
    /\ saving' = saving \cup {next}
    /\ Note(IF inFlight # None \/ saving # {} THEN {"overlap"} ELSE {})
    /\ UNCHANGED <<now, disk, attempt, inFlight, caller, rotation, stray, restarts>>

\* Mutant: replace keeps the pasted token in memory only.
ReplaceSaved_Dropped(t) ==
    /\ t \in saving
    /\ saving' = saving \ {t}
    /\ UNCHANGED <<now, current, disk, attempt, inFlight, caller, rotation, stray,
                   pasted, restarts, mishap>>

ReplaceSaved(t) ==
    /\ t \in saving
    /\ disk' = t
    /\ saving' = saving \ {t}
    /\ UNCHANGED <<now, current, attempt, inFlight, caller, rotation, stray,
                   pasted, restarts, mishap>>

ReplaceSaveFails(t) ==
    /\ t \in saving
    /\ saving' = saving \ {t}
    /\ Note({"saveFailed"})
    /\ UNCHANGED <<now, current, disk, attempt, inFlight, caller, rotation, stray,
                   pasted, restarts>>

-----------------------------------------------------------------------------
(* The process and the clock.                                               *)

\* The process dies and createOAuthManager runs again: memory comes from the
\* environment and the file, tasks and callers are gone, requests already
\* sent may still reach the endpoint.
Restart ==
    /\ restarts < MaxRestart
    /\ restarts' = restarts + 1
    /\ current' = SelectInitial(disk)
    /\ attempt' = [r \in Attempts |-> Idle]
    /\ inFlight' = None
    /\ saving' = {}
    /\ caller' = [c \in Callers |-> Resting]
    /\ stray' = stray \cup {RefreshToken(attempt[r].token) :
                             r \in {s \in Attempts : attempt[s].phase = "sent"}}
    /\ Note(IF \/ Active # {}
               \/ saving # {}
               \/ disk # None /\ SelectInitial(disk) # disk
            THEN {"tokenLost"} ELSE {})
    /\ UNCHANGED <<now, disk, rotation, pasted>>

Tick ==
    /\ now < MaxTime
    /\ now' = now + 1
    /\ UNCHANGED <<current, disk, attempt, inFlight, saving, caller, rotation,
                   stray, pasted, restarts, mishap>>

-----------------------------------------------------------------------------
Next ==
    \/ \E c \in Callers, force \in BOOLEAN : EnsureFresh(c, force)
    \/ \E r \in Attempts :
          \/ Grant(r)
          \/ RefreshRejected(r)
          \/ RefreshTimeout(r)
          \/ RefreshStore(r)
          \/ RefreshSaved(r)
          \/ RefreshSaveFails(r)
    \/ \E t \in stray : GrantStray(t)
    \/ \E access \in BOOLEAN, expiresAt \in {0, now + Life} :
          Replace(access, expiresAt)
    \/ \E t \in saving : ReplaceSaved(t) \/ ReplaceSaveFails(t)
    \/ Restart
    \/ Tick

Spec == Init /\ [][Next]_vars

\* The 15 s timer settles every fetch, and a file write ends one way or the
\* other.  Nothing is assumed of the endpoint, the operator or the callers.
RefreshEnds(r) ==
    \/ RefreshTimeout(r) \/ RefreshStore(r) \/ RefreshSaved(r)
    \/ RefreshSaveFails(r)

FairSpec == Spec /\ \A r \in Attempts : WF_vars(RefreshEnds(r))

-----------------------------------------------------------------------------
(* Properties.                                                              *)

\* However many callers find the token stale or force a refresh, at most one
\* doRefresh runs, and it is the one refreshInFlight names (oauth.ts 135-139).
SingleFlight ==
    \A r \in Attempts : attempt[r].phase # "idle" <=> inFlight = r

\* Callers see the token source of TokenSource: the refresh they wait for is the
\* only one, exists until it settles, and stores the successor of the token it
\* was begun with (getAccessToken, forceRefresh and replace, oauth.ts 86-156).
\* A granted token that is still to be stored belongs to the refresh's future.
FlightSeen ==
    IF inFlight = None THEN [phase |-> "none", token |-> RefreshToken(EnvToken)]
    ELSE LET a == attempt[inFlight] IN
         [phase |-> IF a.phase = "saving" THEN "saving" ELSE "asked",
          token |-> [login |-> a.token.login,
                     gen |-> IF a.phase = "answered" THEN a.token.gen - 1 ELSE a.token.gen]]
WaitingCallers == {c \in Callers : caller[c].status = "waiting"}
Source == INSTANCE TokenSource WITH
    Users <- Callers,
    held <- RefreshToken(current),
    fresh <- Fresh(current),
    flight <- FlightSeen,
    waiting <- WaitingCallers,
    issued <- pasted
KeepsSource == Source!Spec

\* The manager never submits a refresh token it has already spent (which
\* revokes the whole login, pitfall 11), unless an answer or a rename was lost,
\* a replace and a refresh overlapped, or boot chose the environment over the
\* file (oauth.ts 60-68, 86-128).
NeverSubmitsSpentToken ==
    mishap = {} =>
        \A r \in Attempts :
            attempt[r].phase = "sent" =>
                attempt[r].token.gen = rotation[attempt[r].token.login]

\* Once every write has landed, a restart would resume the very token in
\* memory, unless a write failed or two writes overlapped or boot would prefer
\* the environment's expiry (oauth.ts 60-68, 125-127, 154-155).
RestartResumesMemory ==
    /\ Active = {} /\ saving = {}
    /\ mishap \subseteq {"tokenLost"}
    /\ current.expiresAt > EnvExpiry
    => SelectInitial(disk) = current

\* A replace that overlapped no refresh and no other replace stays the login
\* in use until the process restarts (oauth.ts 125, 145-156).
QuietReplaceHolds ==
    pasted > 0 /\ restarts = 0 /\ "overlap" \notin mishap => current.login = pasted

\* No caller is ever handed an empty access token, even right after a replace
\* that carried a future expiry and no access token (oauth.ts 131, 142).
NoEmptyAccessToken ==
    \A c \in Callers : caller[c].status # "empty"

\* Every caller that joined or started a refresh gets an answer, though the
\* endpoint may never reply and the disk may fail (oauth.ts 99, 136-142).
WaitersAnswered ==
    \A c \in Callers : caller[c].status = "waiting" ~> caller[c].status # "waiting"

-----------------------------------------------------------------------------
(* A claim of the documentation, which the code does not meet.              *)

\* docs/oauth-reissue-runbook.md:88: a replaced token applies from the next
\* request on.  A refresh in flight overwrites it (oauth.ts 125).
ReplaceTakesEffect ==
    pasted > 0 /\ restarts = 0 => current.login = pasted
=============================================================================
