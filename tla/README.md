# claude-for-you: specifications, model checking and proofs

claude-for-you is one Bun process that stands between a few trusted clients and
the Anthropic API. It authenticates a client by an API key, admits or sheds the
request, picks one of its Claude.ai logins, sends the request as Claude Code would
and relays the answer. An operator changes keys, logins and alert settings while
it runs; a second program archives its message log.

JavaScript runs one step at a time, so two requests never meet inside a
statement: they interleave at every `await`, and the process can die between
any two steps. That is the grain of all models here: **one action is what the
code does between two awaits**, and data are kept only as far as a property
tells them apart.

Paths below are relative to the repository.

## 1. Inventory

| component | state | operations | what must hold |
|---|---|---|---|
| OAuth token manager (`src/auth/oauth.ts`) | token in memory, token file, refresh in flight | `getAccessToken`, `forceRefresh`, `replace`, boot | one refresh at a time; a spent refresh token is never submitted; memory and file agree; waiters are answered |
| API key store (`src/auth/api-key-store.ts`, `src/admin/keys.ts`) | key file in memory and on disk, promise chain, queue depth | `add`, `update`, `revoke`, boot | operations are atomic and survive a death once answered; a revoked key stays dead; names identify keys; the queue neither leaks nor jams |
| Account pool, pacing, upstream caller (`src/auth/account-pool.ts`, `src/pacing.ts`, `src/proxy/upstream.ts`, `src/proxy/models.ts`) | session assignments, headroom per account, last send per session, two attempts per request | pick, observe, replace, pace, fetch, retry after 401 | sessions stick; nothing is submitted twice; a retry has a new token; sends are spaced; every request is answered |
| Admission (`src/proxy/concurrency.ts`, `src/proxy/rate-limit.ts`) | slots in use, per key and in all; a token bucket per IP | enter, leave, refill, sweep | slots neither leak nor go below zero; caps hold |
| Messages handler and response path (`src/proxy/messages.ts`, `response-tap.ts`, `src/usage/sniff.ts`, `src/proxy/observe-outcome.ts`) | the request's `logged` flag, the tee'd stream, a shedding bucket | guards, model gate, canary, relay, charge, log | a request is logged exactly once and charged if its answer was read |
| Usage, billing, canary (`src/usage/*.ts`, `src/canary.ts`, `src/account-learner.ts`) | tokens per user and day, headroom seen last, alarm time, tripped flag | check, record, observe, trip | quota overrun is bounded by what is in flight; a tripped canary stays tripped |
| Archiver (`src/usage/messages-log-archive.ts`, `archive-cli.ts`, `messages-log-postgres.ts`) | rows, marks, objects in the bucket | select, upload, mark | no row is marked that is not in an object; runs may overlap and die |
| Alerts, monitors, run marker, snapshots (`src/alerts*.ts`, `memory-alerts.ts`, `tls-expiry.ts`, `run-marker.ts`, `src/admin/snapshot.ts`) | settings in memory and file, hysteresis flags, the marker file, candidate and stable snapshot | set, tick, boot, stop, promote, roll back | alerts fire once and re-arm; an unclean death is noticed at the next boot |
| Gates (`src/auth/api-key.ts`, `model-allow.ts`, `require-admin.ts`, `src/admin/csrf.ts`) | none of their own; they read the key store | decide | the order of the checks, deny by default; no admin change from a foreign page, none of ours turned away |
| Rewriting and templates (`src/proxy/messages.ts`, `tool-name-mapping.ts`, `classifier-triggers.ts`, `src/template/extracted.ts`) | a map of aliases per request, the line a stream holds back | rewrite, order, enrich, reverse | what leaves is acceptable to Anthropic if the caller's request was; the caller reads its own tools' names |
| Test runners (`src/admin/test-runners.ts`) | the last result of each kind | probe, classify, record | a result is true of the world it was taken in |
| Rendering, libraries, deployment | none, or outside the process | | not modelled, see section 7 |

How they interact: the gates read the key store's memory on every request. Admission
wraps the messages handler, which calls the upstream caller, which calls the
pool, which calls one OAuth manager per account. The handler reports what it learned
back to the pool (headroom), the usage trackers, the billing monitor and,
through it, the alert sinks. The admin handlers call the stores and the pool directly, so
they interleave with requests at every await.

Hard behaviours: joined promises (many callers, one refresh), state read
before an await and used after it, writes whose renames nothing orders, a death
between a rename and the assignment that goes with it, retries of a call that is not
idempotent, streams that outlive their handler. The full list, at its lines, is
under `hazards` in `PROJECT.json`.

## 2. Modules

| modules | subject | proofs |
|---|---|---|
| `TokenSource` (abstract), `OAuthManager` (detailed) | one account's tokens | `OAuthManagerProofs`, with the refinement |
| `Keystore` (data), `KeystoreContract` (abstract), `ApiKeyStore` (detailed) | the key file and its queue | `ApiKeyStoreProofs`, with the refinement |
| `Upstream` | pool, pacing, both attempts, model discovery | `UpstreamProofs`, with the refinement of `TokenSource` by each member |
| `Pipeline` | one request from the limiters to its row and its charge | `PipelineProofs` |
| `Archive` | the log's rows, the archiver's runs, reading back | `OperationsProofs` |
| `Lifecycle` | boot, run marker, shutdown, alert settings, snapshots | `LifecycleProofs` |
| `Exchange` | what a request and its answer say on their way | `ExchangeProofs`, with `InductionLemmas` |
| `Monitors` | token bucket, memory and certificate watches | `OperationsProofs` |
| `Probes` | the operator's self-tests | `OperationsProofs` |

`Upstream` composes one manager per account with the pool, and keeps of each
what callers see (a token in memory, one refresh in flight that is stored before
it is saved). That this is what `OAuthManager` does is not left to the reader: `TokenSource` says what a manager
promises, `OAuthManager` implements it (`KeepsSource`), and so does every member of `Upstream` (`MembersAreSources`). `Pipeline` in turn takes a call of `Upstream` for one await that ends in
an answer or a throw, and looks at what is shared around it: slots, quota, headroom, canary,
alarm, the log. `Exchange` is about what is said and `Pipeline` about when;
they share no state. `MCDecisions` runs `Exchange`, `Monitors` and `Probes`
one at a time in one instance.

## 3. What is modelled

### TokenSource, OAuthManager

`TokenSource` is the promise: whoever asks for a refresh begins one with the token then in use, or shares the
end of the one under way; it puts the next token of its login into use before it ends, or fails; nobody
waits for one that is not under way; beside it only the operator and a restart change the token in use. Of the detailed
model below, `flight` is the task that callers join (`FlightSeen`, from its phase), `waiting` the callers that await it, `held` the memory.

One process, one account. `current` is the token in memory, `disk` the token file.
A refresh is a task with phases sent, answered, saving; `inFlight` names the one
callers join (`refreshInFlight`). `EnsureFresh` is `ensureFresh`: answer at once,
join, or launch. `RefreshStore` is `current = next`, `RefreshSaved` the rename that
follows it; `Replace` and `ReplaceSaved` are the same two steps of the operator's
`replace`. `Restart` runs `createOAuthManager` again, with `SelectInitial` choosing
between file and environment by expiry. The token endpoint is external: it honours
only the latest refresh token of a login, and a request whose caller gave up
may still be granted (`stray`). `mishap` is an auxiliary record of
what went wrong (a lost answer, a failed write, an overlap of a replace and a refresh), so that
properties can say what they hold in spite of.

### Keystore, KeystoreContract, ApiKeyStore

`Keystore` is the data: rows, revocations, who authenticates (`LiveEnv`, `LiveRows`,
from `compose`), and for each operation when it is allowed and what file results,
with the checks in the code's order. `KeystoreContract` is what the handlers promise: each
operation takes effect at one instant between its call and its answer, is answered
`ok` only if it took effect, and a death loses calls and never effects.
`ApiKeyStore` is the mechanism: a call is turned away when the queue is full, queued
on the promise chain, decides on memory at its turn, writes a temporary file and
renames it, publishes the file in memory, and settles. Writes fail and the process dies
at every point. `KeepsContract` maps the detailed call onto the abstract one: it
has taken effect from its rename on.

### Upstream

A request starts by a pick (`Candidates`: the session's member, or one with the best headroom),
gets a token or awaits a refresh, is built, paced, sent, and answered; a first 401
forces or joins a refresh and sends once more. Time is kept as the age of a session's last
send and the rest of a wait, which makes it unbounded in a finite model. `held`, `fresh` and
`flight` are the managers, `replace` how many of the operator's
writes of new logins are under way, for replaces of one account may overlap, `issued` how many there were; each resets the headroom after its awaited write. `estimate` is the headroom last read from an answer,
or none yet, and ranks members for new sessions. `acted` counts how often Anthropic
acted on a request: a lost answer may or may not have been preceded by an effect.
A model-discovery request (`kind = "models"`) takes the same way without session
or headroom. The tie-break by name is left open: any of the best members may be picked.

### Pipeline

Each request is a record with its phase (where it awaits), its answer's status, its
`logged` flag and what it left behind: rows written, who they blame, what was charged and why.
`Enter` is what happens up to the first await: both limiters and the headroom guard; `QuotaChecked`,
`BodyParsed`, `UpstreamAnswers`, `BodyRead` are the steps between the handler's awaits, and each has
the disjunct in which it throws. `LeaveSlot` is the common way out: both `finally`
blocks, `onError`, and the observer that writes or sheds a row if nobody claimed it.
A streamed answer leaves the limiters at once and goes on as a `stream`: a source that may end, break or
be cut by the hard cap, a client branch with the sniffer (`Sniff`, `Flush`) that a
disconnect cancels, and a log branch (`Keep`, `WriteRow`) that reads on. An answer's usage is
cumulative, so its first n events report n tokens.

### Archive

A row is the place of its body: absent, young, old, archived, with the key of the object. Runs are
processes: `Select` reads the clock and takes the oldest eligible rows, `Put` uploads the batch's next
day, `Mark` updates the rows nobody marked before. A run may fail or be killed (`Abort`) between any two of them, and
two runs may read the same millisecond. The admin page gets a row's key and, later, the object
(`GetRow`, `ReadObject`).

### Lifecycle

The process over its runs, each under a deployment that may differ from the one before. Boot loads the alert
settings, composes (or throws) and serves; beside it, not awaited, the marker check reads, removes and creates
`.run-marker` and reports. A signal clears the marker after the check has settled; a kill ends the
run anywhere. Admins set webhooks and judge the candidate snapshot while the operator puts another in its place (`CandidateArrives`, external: `README.md:65`
and `docs/operational-pitfalls.md:129` ask for it, and nothing in the repository writes that file). A check whose creation of the marker fails may
leave an empty one, which a later boot reads as a marker (`CheckFails`). A stored webhook is a promise of the channel that was set
(`StoreWebhook`), not of the other, which is written as it stands. `owed`, `promised` and
`verdicts` record what operators may count on, so that properties can compare it with later runs.

### Exchange

A request of an input family with the answer Anthropic will give. `Authenticate`, `CsrfPasses` and `RequireAdmin`
decide in the code's order. What a browser adds to a page's request is external: a modern one says the site, and nearly every one an
origin, which may be opaque or absent (`OriginOf`). `Send` builds the outbound body and headers from `EnsureSystem`, `Sanitize`,
`RewriteTools`, `Enrich`, `Reorder` and `BuildHeaders`; `ReplyWhole`, or `Chunk` after `Chunk`, hands the answer back. A text is a sequence of words,
which may be as small as characters, and `ReplaceTrigger` is the code's `split` and `join` on it: the leftmost occurrence at each place,
replacements not read again within a pass (`Advance`). What a replacement and the text after it form together therefore stays, as it does in the code (`Rejoins`); the
property says that no other trigger leaves. Of a name on the wire there are two halves that a chunk may part. An answer says a
name within one piece: a name the model spreads over two deltas, and so over two lines of the stream, is reversed
neither by the code nor here (`Meant`).

### Monitors

The token bucket refills when it is touched and is swept when idle; beside it stands `credit`, a bucket that
refills at every tick. The watches keep their two or three variables; beside them stands what
has been seen and told of each trouble.

### Probes

Each operator has one probe under way; at every wait other probes run, keys come and go (`ChangeKeys`), and `world` may
`Shift`: whether the identity text is wanted, which accounts are out of quota, whose tokens Anthropic honours. A forced refresh of an account ends
either way, whatever token the account may still have in use, and for a name the pool has no member for it throws
(`ProbeOAuth`, `Refreshed`, `NotRefreshed`); a probe past the gateway that asks the pool for a token may get one or not (`Given`, `NoToken`), independently of any refresh. The two
calls of a pair may be answered in different worlds and in either order. `saw` is the set of worlds there were while a probe's requests were
out, and a result is judged by it (`Claim`): what it says has to be true of one of them, and of the one account it asked for.
The gateway a loopback probe calls is the repository's own; it is kept to what a probe can be told: the
key's fate when it arrives, its own limits, and upstream's answer to a request with the identity text.

## 4. What the runs show

| run | bounds | shows |
|---|---|---|
| `oauth` | 2 callers, 2 tasks, 1 replace, 2 rotations, 1 restart, 2 instants | refinement of the token source (single flight, joined waiters); no spent token is submitted, and memory, file and a quiet replace agree, each with the mishaps it excuses; waiters are answered |
| `oauth_replace_lost` | same | **violated**: a replace takes effect from the next request on |
| `keystore` | 3 clients and calls, 2 places in the queue, 3 names (1 of the environment), 2 new keys, 1 death, a fresh and a legacy file | refinement of the contract; revoked keys stay dead; names identify rows; the depth is the queue; no write stores a row whose `allowedModels` exceed their cap, unless it was there before; calls are answered |
| `keystore_reissue` | same | **violated**: the row a successful `add` stored is the one its name authenticates |
| `upstream` | 2 accounts, 2 requests of one session or none, gap 2, 1 rotation per account, 2 replaces of one account, which may overlap | sessions stick; no double submission; each member is a token source for the requests that await it; retries have a new token; pacing for whoever is not overtaken |
| `upstream_answered` | 1 account with 1 replace, otherwise the same | with fair timers every request is answered |
| `upstream_pacing` | 3 requests, 1 account | **violated**: sends of one session are spaced by the gap |
| `pipeline` | 2 messages requests and a discovery, 2 keys, 1 slot per key, 2 in all, 1 event a stream, 1 write of the observer's | limiters lose no slot; one true row each; a charge agrees with its row, and a key's total with its charges; signals are those of good answers; a trip is final |
| `streams` | 2 requests of one key | with a fair runtime every stream is logged, and charged if client and stream lasted |
| `archive` | 2 rows, 2 days, cron and an operator, 2 batches of 2, 1 failure or death | no body is lost, no key moves, the backlog drains |
| `lifecycle` | 3 runs, 5 deployments, 2 admins, 3 snapshots of which 2 load, 1 fault, 3 changes | the restart report is exact; settings and verdicts an admin was told of hold |
| `decisions` | some 12000 requests in five families beside a plain one; 2 IPs, a bucket of 2 requests; 2 operators, 2 keys, 2 accounts and an unknown one, 4 worlds, up to the first result of a probe | what leaves is acceptable, callers read their names, troubles are told once, buckets are exact, a probe's result is true of a world it saw |

Why these bounds are enough for the questions asked: two callers are what it
takes to join, to race and to be left behind; one replace against one refresh gives
every order of their four steps, and a restart after each; a second rotation is needed to
spend a token. Three calls over two queue places give a running, a waiting and a
refused mutator. Two requests with two attempts each give the three sends that
pacing needs, and two accounts the choice that stickiness must resist. In `pipeline` one slot per key and two in all make
both caps bite, and one observer write makes shedding happen; an event or none tells a reported usage
from an unreported one. In `archive` two rows of two days are one batch of two uploads,
or two batches, and two runs are what it takes to mark a row twice. Three runs of the process are a
death, the boot that reports it and the boot that must not report it again. In `decisions` each family
varies what the others keep: credentials and pages, bodies and breakpoints, texts of triggers and of parts of them, headers and
templates, answers and the places where a stream is cut. What
holds of a type or of a safety invariant for larger numbers is what the proofs are for.

`upstream` uses symmetry of requests and accounts, `pipeline` of the two messages requests and of
keys, `lifecycle` of admins: no definition tells them apart. The liveness runs use none.
`upstream` constrains the replaces to one account (`ReplacesOfOne`), for a replace reaches no other manager. The probes of
`decisions` end with the first result: nothing reads a result, and up to it the two operators' probes, the keys and the world move as they like.

Every property has a mutant, an altered definition named for its mistake that stands just
above the one it alters (`..._NoLock`, `..._KeepsRow`, ...), under which the same run violates the property.

### Fairness

Only timers, continuations and file operations are fair. In `OAuthManager` each task
ends, because its fetch carries a 15 s `AbortSignal.timeout` and a file write resolves or
rejects. In `ApiKeyStore` the head of the chain proceeds to
success or failure. In `Upstream` `Tick` and `PacingDone` are timers, `FetchFails` is the
TTFB timer of `fetchWithTtfbGuard` (for model discovery its wall-clock timeout), and a
refresh is saved or fails. In `Pipeline` `Break` is the timer of the streaming hard cap, and `Keep`,
`Sniff`, `Flush` and `WriteRow` are the runtime pumping a tee whose data are there. In `Archive` cron starts its run
again and again, a started run goes on (it may still fail, as often as the bound says), and rows grow
old. Nothing is assumed of Anthropic, of the token endpoint, of clients or of the operator.

## 5. Disagreements between code and documentation

1. A replace made during a refresh is undone when the refresh answers (`src/auth/oauth.ts:125`), against
   `docs/oauth-reissue-runbook.md:88`.
2. `add` under the name of a revoked environment key revives that key and hides the new
   one (`src/auth/api-key-store.ts:405`).
3. Requests of one session that wait for the same last send go out together
   (`src/pacing.ts:26`), against `src/pacing.ts:4-5`.

For 1 and 3 the passing runs state what does hold: `QuietReplaceHolds` (a replace
that overlaps nothing stays) and `SpacedUnlessOvertaken`.

Met while modelling, without a run of their own; where a property would otherwise fail it names the
excuse, and where the model follows the code it does so silently:

* A replaced token with the form's default expiry 0 loses to the environment's at the next boot
  (`src/auth/oauth.ts:67`, `src/admin/oauth.ts:64`), against `docs/oauth-reissue-runbook.md:88`.
* An answer to the previous login that arrives after a replace restores its headroom
  (`src/auth/account-pool.ts:149`), against the comment at `:134-136`. It ranks new sessions only.
* `src/usage/sniff.ts:74-79` says usage is accounted when a client leaves; a cancelled branch, or a
  source that breaks, never flushes, and nothing is charged. `StreamsAreAccounted` excuses both.
* The caps count handlers: a streamed answer has left them while it is still relayed (`src/proxy/concurrency.ts:44-70`).
* The headroom guard, once low, lets no request through whose answer could raise it, until a restart (`src/usage/global.ts:41`).
* Two archiver runs that read the same millisecond and selected different rows write one key, and the later object
  replaces the earlier (`src/usage/messages-log-archive.ts:165`); `src/usage/archive-cli.ts:9-10` asks that the archiver be
  safe to run manually at any time. `BodiesSurvive` excuses it.
* The cursor of the message list is `ts < before`, which skips rows of an equal `ts` (`src/usage/messages-log-postgres.ts`, `list`).
* Two settings saved at once may be renamed in the reverse order, and the file keeps the earlier
  (`src/alerts-store.ts:75-81`). `SettingsSurvive` is about changes that do not overlap.
* `promote` takes whichever candidate is there at its rename, and one the next boot cannot load
  (`src/admin/snapshot.ts:45-56`, `src/template/extracted.ts:72-97`).
* A boot that throws after it created the marker is reported as an unclean end of a run (`src/app.ts:191`).
* Names of tools in `tool_choice` and in earlier turns are not rewritten on the way out
  (`src/proxy/tool-name-mapping.ts:106-127`).
* `ACCOUNT_UUID_OVERRIDE` (`README.md:141`) is overwritten by the first account seen in an answer
  (`src/account-learner.ts:57-62`).
* A `PER_IP_RATE_LIMIT_PER_SECOND` below 0.5 makes a bucket that never holds a whole token (`src/proxy/rate-limit.ts:51`).
  `MonitorsAssumption` has `Burst >= Cost`.
* `src/proxy/classifier-triggers.ts:116-118` says that applying the triggers is idempotent because no replacement contains its pattern. `## Skills (mandatory) (mandatory)`
  becomes `## Skills (mandatory)`, and a second pass changes it again (`:101-106`, `:189-192`). `TriggersHidden` excuses texts that rejoin so.
* A browser that sends neither `Sec-Fetch-Site` nor `Origin` passes `csrfGuard` from any page (`src/admin/csrf.ts:80-88`, which says nearly
  all send one). `ChangesAreMeant` excuses it (`TellsNothing`).
* The entitlement probe says of `ok` that the identity text does its job (`src/admin/test-runners.ts:508`). If the account's quota ends
  between the two answers `ok` is said where the text is not wanted; `Claim` asks for each half in a world of its own.
* The alert channel that nobody set is written as `null` with the other (`src/alerts-store.ts:77-80`), so that a value the environment has for
  it at a later boot is not used. `AnswersHold` is about the channel that was set.
* A replace and a refresh that overlap may rename the token file in the order opposite to memory's (`src/auth/oauth.ts:155`); `RestartResumesMemory` excuses overlaps.
* Of two probes of one kind the page shows the one that finished last (`src/admin/test-runners.ts:57-59`).

## 6. What is proved

TLAPS checks these for every value of the constants, under the named assumptions of
each module (`ConstantsAssumption` and `NoneAssumption` of the manager, `NamesAssumption`, `StoreAssumption`, `UpstreamAssumption`,
`PipelineAssumption`, `ArchiveAssumption`, `LifecycleAssumption`, `MonitorsAssumption`, `ProbesAssumption`, and `DictionaryAssumption`,
`NoneAssumption` and `ExchangeAssumption` of the exchange): the bounds are naturals, sentinels are not values, a granted token
outlives the environment's, the file at boot is one this program writes, the exchange's words are disjoint where
the code's are, no trigger occurs in the identity text or in a replacement, nor goes on where a replacement begins (all true of the code's dictionary
with characters for words), and a caller and the model write no alias that was given out (`AliasesUnwritten`): a reversal could not tell it from its own.

**`OAuthManagerProofs`.** `TypeCorrect` and `RefreshIsSingleFlight` are inductive together. `AccessTokensAreReal` needs that every
token a task carries has an access token. `QuietReplaceIsKept` needs that, without an overlap, a
task in flight carries the login in use and memory is the latest login. `RestartKeepsMemory` needs what
the disk is while writes are pending: it can only be behind by the one task or the one
replace that is still to rename. `SpentTokensAreNotSubmitted` needs the place of
the newest refresh token of a login: in memory, or on the way to it. `ManagerKeepsSource` is the refinement of `TokenSource`:
each step is one of the source's or a stutter. It needs `SourceInv`: a caller that waits waits for the flight there is, what a
grant brought has been rotated at least once, and no login is later than the operator's last. The endpoint's grants, those
that come after the fetch was given up among them, and the write of a replace stutter, for nobody who asks can see them; a refresh whose write
fails ends for all who wait, with its token in use.

**`ApiKeyStoreProofs`.** One inductive invariant, `IInv`: types; the queue holds each open call once,
only its head writes, and what it writes is the result of its operation on
memory; disk is memory, or the head's next file between rename and publication; rows have distinct names and keys,
none revoked, in memory, on disk and in the head's next file; keys whose revocation was acknowledged are in
none of the three, nor are they still to be minted. From it follow the five safety theorems, and `StoreKeepsContract`: initial
states map to initial states, and each step to one of the contract or to a stutter.
The invariant is needed there to know that the head's check, made when its turn came, still holds at the rename. `CapIsKept`, the action property
that a write stores no row whose `allowedModels` exceed their cap unless the file had that row, needs besides that a call in the queue is one a handler lets through (`AskedWell`).

**`UpstreamProofs`.** `TInv` adds to the types what a phase says of the other fields (nothing has been acted upon before the answer;
a request that started has a member); `NoDoubleSubmission` is its consequence.
`SessionsKeepTheirAccount` needs `Sticky`: the assignment of a session is the member of each of its requests.
`WaitersAreServed`: who begins to wait joins or launches, and a refresh ends only by
settling those who wait. `PacingHolds` needs `OnTime`: whoever waits and is not overtaken waits for exactly the rest of the gap.
`RetriesCarryNewTokens` needs an order on tokens: no token a request carries is ahead
of what its manager holds or of its refresh in flight (`TokensBehind`), and the manager holds
that refresh's token or another login (`HeldIsCurrent`); so what a refresh stores is new to
everyone. This is where a stale refresh that brings an old login back had to be ruled out as a cause.
The step lemmas `RequestsMove` and `MembersMove` reduce the actions to
the five things that can happen to a request's tokens and the five that can happen to a manager. `MembersKeepSource` rests on them: for each member,
a step is one of its `TokenSource` or leaves it alone (`NextSources`); `NothingLeft` says that a settled refresh leaves no token behind.
With `ManagerKeepsSource` the pool's view of a manager and the manager itself are held to one contract; the contract
says who waits and what is in use, and not which token a waiter then takes.

**`PipelineProofs`.** Every step but the observer's refill is one request's, so `PipelineInv` is a condition of single requests, `RequestOK`,
with what ties the shared variables to all of them. It says what a request in each place has left behind (nothing
before it is answered), that an answered one is `Buffered`, `Relayed` or `Refused`, and how a stream's flush, charge and row relate to its
source: a flush means the source ended and both branches saw it all, which is why a charge and a
row written by readers of different pace agree. `RequestStep` is what a step may do to one request and to the counters; each action is shown to be one
(`EnterStep`, `AnswersStep`, ...), and `RequestStepKeeps` that it keeps the invariant, the cardinalities of `SlotsAreHeld` included. The
theorems: types, `CapsHold`, `RowsAreOneAndTrue`, `ChargesHold`, `SignalsAreGood`, `TripIsFinal`. `ChargesHold` joins `ChargesAreLogged`, that each charge is what
the row says, and `LedgerExact`, that a key's total is the sum of the charges that landed on it. The sum is the size of a set that has a pair
for every token of every such request (`Landed`); a charge adds a disjoint `{r} \X (1..n)` to it and every other step leaves it
as it is (`LeavesLedger`), so that no sum over requests has to be unfolded.

**`ExchangeProofs`.** `CallersReadTheirNames`: however an answer is cut into chunks, and wherever the caller leaves, it
has read a prefix of the answer with its own tools' names in place of the wire's, and all of it if it stayed. The invariant is `Relayed`: what the caller has seen, followed
by the reversal of what is held back and still to come, is what was meant. It needs that reversal distributes over a
cut that parts no name, that a line held back until its end is such a cut, and that the aliases of a request are distinct and not themselves
names to be reversed; all of these are lemmas about sequences of any length. `WhatLeavesIsAcceptable`, with the invariant `Decided`: what was sent is what the request makes of it (`Leaving`), and
that is acceptable for every request (the identity is there, and first where it was added; the breakpoints are at most four or those the caller sent; no trigger
is left but where a text rejoins; each key and header is kept); and only an admin changes anything, from a page of ours, by a program or in a browser
that tells nothing, and is not turned away from our own page. That no trigger is left rests on the lemmas of `split` and `join`: a trigger in the result of a pass
lies across the end of a replacement, the part behind it stood in the text right after the pattern, and a
pass over another trigger makes none that was not there.

**`InductionLemmas`.** The provers have no induction, and the library's theorems of it take an operator as parameter. These lemmas take a set in the
place of the predicate: a set of naturals that has 0 and successors is all of them, because otherwise the intervals below those it misses
have no least element, against the well-foundedness of finite subsets under inclusion (`FS_StrictSubsetOrderingWellFounded`). From it follow induction over the sequences of a
set, the largest of a finite set, and that a fold is a chain of intermediate results (`FoldChain`), from which the facts on `FlattenSeq` are read off.

**`OperationsProofs`, on `Archive`.** `ArchiveInv` holds that what a run is about to mark is in the object it uploaded, as long as no object was
replaced by one of other rows; that rows of its batch are old or already archived; and that a
key once given stays. `NextDay` shows that a batch has an earliest day, whose rows have one key. `NoBodyIsLost` and `KeysStay` follow.
On `Monitors`: `WatchInv` relates each watch to what has been seen; `BucketInv` needs that min and
refill commute (`Refills`) and that what is swept was full, which is where `IdleEvict * Rate >= Burst` is used.
On `Probes`: `ProbesInv` adds to the property that each answer a pair already has is one that some world seen since the calls went out
gives to the account picked; a world more takes none of them back (`MoreSeen`).

**`LifecycleProofs`.** Three invariants over the same steps: `MarkerInv` (what the marker, the stage of the check and the debt of earlier runs say of each
other), `SettingsInv` (a write alone has memory's settings, and its file is what memory holds), `VerdictInv` (a snapshot has
one place, and its verdicts go with it).

Every safety invariant and every action property of the passing runs is stated by a theorem. Only model-checked are liveness (`WaitersAnswered`,
`CallsAreAnswered`, `RequestsAnswered`, `StreamsAreAccounted`, `BacklogDrains`), which needs fairness and `ENABLED` and is beyond the prover, and the violated
properties. No recursive operator is used.

### What could be proved next

* Which token a waiter is given: `TokenSource` would hand out the token that ended its flight, and `RetryHasNewToken` follow from the contract alone.
* The contract of a call of `Upstream` that `Pipeline` takes for one await: one answer or one throw, and at most one effect.
* A contract of the headroom estimate that is reset by a replace and excuses late answers.

## 7. What is not modelled, and why

* Rendering of the admin pages and their read-only queries, error texts, logging, redaction, request dumps: wording and pure I/O.
* Parsing of the environment and of `accounts.json` beyond the outcomes a deployment may have; capture and synthesis
  scripts, deployment: I/O on systems outside the process. `scripts/synthesize-snapshot.mjs:260` writes the stable snapshot in place, in
  a working copy; a running gateway reads that file at boot alone.
* The turn of the day in the usage tracker: a day's totals only start again from nothing. The quota is checked before and charged after
  a request, so a key overshoots by what is in flight; nothing in the repository bounds that, and no property does.
* The end of the billing alarm's cooldown, and the drift analyzer's ring of fingerprints, which only words the alarm.
* `canary.reset` and `getAccessTokenExcluding`: nothing in the repository calls them.
* `bun --hot`, which keeps the process and its globals over a reload.
* The static template, which its comment calls unused.
* Strings of tokens and keys: a token is its login, rotation and expiry, a key is the number of its minting.
* Clocks that run backwards: `Date.now()` is taken to be monotonic in every module, and in `Archive`
  alone two processes may read it alike.

## 8. Running it

    tlc -config MCOAuthManager.cfg MCOAuthManager.tla      (likewise every MC*.cfg with its MC module)
    tlapm OAuthManagerProofs.tla                           (likewise the other proof modules)

`PROJECT.json` lists every run with its properties, the mutants, the source lines
of each definition, the findings, the hazards and the theorems.
