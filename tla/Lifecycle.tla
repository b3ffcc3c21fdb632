----------------------------- MODULE Lifecycle ------------------------------
(***************************************************************************)
(* The gateway as a process, over runs: what src/app.ts composes at boot,    *)
(* what src/server.ts does with a signal, the unclean-restart report of      *)
(* src/run-marker.ts, and the settings an operator changes at runtime and a  *)
(* later run must find: the webhooks of src/alerts-store.ts, the snapshots   *)
(* that src/admin/snapshot.ts promotes or rolls back.                        *)
(*                                                                          *)
(* One process at a time, which may be killed between any two steps; what it *)
(* leaves are three kinds of file.  The reloads of `bun --hot`, which keep   *)
(* the process and its globals, are left out.                                *)
(***************************************************************************)
EXTENDS Naturals, FiniteSets

CONSTANTS
    Admins,       \* admin requests that may be open at once
    Urls,         \* webhook URLs
    None,         \* no URL, no snapshot, nothing loaded
    Blank,        \* a URL of white space only
    Anything,     \* nothing is promised
    Versions,     \* snapshots an operator may install
    Loadable,     \* those of them a boot can load
    Deployments,  \* configurations the process may be started with
    MaxRuns, MaxFaults, MaxChanges

Channels == {"discord", "slack"}

Configs == [Channels -> Urls \cup {None}]

\* The parts of loadConfig and of accounts.json the boot depends on.
ASSUME LifecycleAssumption ==
    /\ None \notin Urls \cup Versions /\ Blank \notin Urls \cup {None}
    /\ Anything \notin Urls \cup {None} /\ Loadable \subseteq Versions
    /\ MaxRuns \in Nat /\ MaxFaults \in Nat /\ MaxChanges \in Nat
    /\ Deployments \subseteq [env : [Channels -> Urls \cup {None, Blank}],
                              keys : {"some", "empty", "unset"},
                              accounts : {"absent", "good", "bad"}, token : BOOLEAN]

VARIABLES
    marker,      \* .run-marker is there
    alertsFile,  \* alerts.json: the channels it names and their URLs; none without a file
    stable,      \* cc-snapshot.json
    candidate,   \* cc-snapshot.candidate.json
    phase,       \* of the process: "off", "loading", "composing", "serving"
    deployment,  \* what it was started with
    check,       \* the run marker check
    found,       \* it found a marker
    told,        \* the URL its report was posted to
    stop,        \* shutdown and dispose
    current,     \* AlertStore's configuration
    loaded,      \* what was composed: pool, template, canary's candidate
    req,         \* admin requests
    owed,        \* the next run must report this or an earlier run's end
    promised,    \* the webhooks an operator may count on after a restart
    verdicts,    \* snapshots admins were told of: version -> answers
    counts       \* runs, faults, changes so far

files == <<marker, alertsFile, stable, candidate>>
process == <<phase, deployment, check, found, told, stop, current, loaded>>
ghosts == <<owed, promised, verdicts>>
vars == <<files, process, req, ghosts, counts>>

Nobody == [pool |-> "none", template |-> None, canary |-> None]
NoRequest == [op |-> "none", next |-> [c \in Channels |-> None], alone |-> FALSE]

\* A snapshot no admin has judged; the installed one counts as promoted.
Fresh(v) == v # candidate /\ verdicts[v] = {}

Init ==
    /\ marker = FALSE
    /\ alertsFile \in {[c \in {} |-> None], [c \in {"discord"} |-> None]}
    /\ stable \in Loadable /\ candidate = None
    /\ phase = "off" /\ deployment \in Deployments
    /\ check = "idle" /\ found = FALSE /\ told = None /\ stop = "no"
    /\ current = [c \in Channels |-> None] /\ loaded = Nobody
    /\ req = [a \in Admins |-> NoRequest]
    /\ owed = FALSE
    /\ promised = [c \in Channels |-> Anything]
    /\ verdicts = [v \in Versions |-> IF v = stable THEN {"promoted"} ELSE {}]
    /\ counts = [runs |-> 0, faults |-> 0, changes |-> 0]

Faulty == /\ counts.faults < MaxFaults
          /\ counts' = [counts EXCEPT !.faults = @ + 1]

Changing == /\ counts.changes < MaxChanges
            /\ counts' = [counts EXCEPT !.changes = @ + 1]

-----------------------------------------------------------------------------
(* Boot.                                                                    *)

\* loadConfig: without keys and without a file of keys there is no boot.
Configured(d) == d.keys # "unset"

\* The process starts, possibly redeployed with another environment.
Launch ==
    /\ phase = "off" /\ counts.runs < MaxRuns
    /\ deployment' \in {d \in Deployments : Configured(d)}
    /\ phase' = "loading"
    /\ counts' = [counts EXCEPT !.runs = @ + 1]
    /\ UNCHANGED <<files, check, found, told, stop, current, loaded, req, ghosts>>

\* Mutant: a URL is stored as it was typed.
Normalize_Identity(url) == url

\* normalize, and the handlers' trim: blank is no URL.
Normalize(url) == IF url = Blank THEN None ELSE url

\* createAlertStore, choose: the file overrides the environment, a cleared
\* channel included; only a channel it does not name falls back.
Choose(file, env) ==
    [c \in Channels |-> Normalize(IF c \in DOMAIN file THEN file[c] ELSE env[c])]

\* createAlertStore, then checkUncleanRestart is called and not awaited.
LoadAlerts ==
    /\ phase = "loading"
    /\ current' = Choose(alertsFile, deployment.env)
    /\ phase' = "composing" /\ check' = "reading"
    /\ UNCHANGED <<files, deployment, found, told, stop, loaded, req, ghosts, counts>>

\* loadFile swallows a file it cannot read: the environment stands alone.
LoadAlertsFails ==
    /\ phase = "loading" /\ Faulty
    /\ current' = Choose([c \in {} |-> None], deployment.env)
    /\ phase' = "composing" /\ check' = "reading"
    /\ promised' = [c \in Channels |-> Anything]
    /\ UNCHANGED <<files, deployment, found, told, stop, loaded, req, owed, verdicts>>

\* tryLoadAccountPool: a file that is there but lacks a name, a token or an
\* account, or names one twice, is an error.
PoolOfFile(d) == IF d.accounts = "good" THEN "multi" ELSE "none"

\* buildPool: accounts.json when there is one, else the token of the environment.
PoolOf(d) ==
    IF d.accounts # "absent" THEN PoolOfFile(d) ELSE IF d.token THEN "single" ELSE "none"

\* loadSnapshot: there, well-formed, of the supported schema.
Loads(v) == v \in Loadable

\* tryCreateCandidateTemplate: a candidate that does not load is no candidate.
CanaryOf(v) == IF Loads(v) THEN v ELSE None

\* What composeApp throws without: an auth source, a key, a stable snapshot.
Composable(d) == PoolOf(d) # "none" /\ d.keys = "some" /\ Loads(stable)

\* composeApp, the rest.
Compose ==
    /\ phase = "composing" /\ Composable(deployment)
    /\ loaded' = [pool |-> PoolOf(deployment), template |-> stable, canary |-> CanaryOf(candidate)]
    /\ phase' = "serving"
    /\ UNCHANGED <<files, deployment, check, found, told, stop, current, req, ghosts, counts>>

-----------------------------------------------------------------------------
(* The run marker check, beside the boot.                                   *)

Checked(stage) ==
    /\ check' = stage
    /\ UNCHANGED <<alertsFile, stable, candidate, phase, deployment, stop, current, loaded,
                   req, ghosts>>

\* readFile: a corrupt marker still counts.
ReadMarker ==
    /\ check = "reading" /\ Checked("removing")
    /\ found' = marker
    /\ UNCHANGED <<marker, told, counts>>

RemoveMarker ==
    /\ check = "removing" /\ Checked("creating")
    /\ marker' = FALSE
    /\ UNCHANGED <<found, told, counts>>

\* writeFile with 'wx'; without a previous run to report the check is over.
CreateMarker ==
    /\ check = "creating" /\ Checked(IF found THEN "reporting" ELSE "armed")
    /\ marker' = TRUE
    /\ UNCHANGED <<found, told, counts>>

\* createDynamicSink reads the store as it sends, and Discord wins.
Target == IF current["discord"] # None THEN current["discord"] ELSE current["slack"]

\* The report is posted; a webhook that fails is not heard of.
ReportRestart ==
    /\ check = "reporting" /\ Checked("armed")
    /\ told' = Target
    /\ UNCHANGED <<marker, found, counts>>

\* The check gives up, and no report is posted: on reading or removing, the old
\* marker stays; on creating, there is none, or an empty one, if the file was
\* opened and not written, which is as good as any.
CheckFails ==
    /\ check \in {"reading", "removing", "creating"} /\ Faulty
    /\ IF check = "creating"
       THEN marker' \in BOOLEAN /\ Checked(IF marker' THEN "armed" ELSE "gone")
       ELSE Checked("kept") /\ UNCHANGED marker
    /\ UNCHANGED <<found, told>>

\* Mutant: the promise of the check is not awaited.
CheckSettled_Unawaited == check # "idle"

\* dispose, await runMarkerChecked.
CheckSettled == check \in {"armed", "kept", "gone"}

-----------------------------------------------------------------------------
(* The end of a run.                                                        *)

\* Whether the next run has an end to report: of a run that had left its
\* marker and did not clear it.  A run that died before it touched the marker
\* leaves what it found; one that died between removing and creating, nothing.
OwedAtEnd ==
    IF stop = "cleared" THEN FALSE
    ELSE IF check \in {"reporting", "armed"} THEN TRUE
    ELSE IF check \in {"creating", "gone"} THEN FALSE
    ELSE owed

\* Requests that are open end with the process.
End ==
    /\ phase' = "off" /\ check' = "idle" /\ found' = FALSE /\ told' = None /\ stop' = "no"
    /\ current' = [c \in Channels |-> None] /\ loaded' = Nobody
    /\ req' = [a \in Admins |-> NoRequest]
    /\ owed' = OwedAtEnd
    /\ UNCHANGED <<files, deployment, promised, verdicts>>

\* SIGKILL, the OOM killer, an uncaught error: at any point.
Die == phase # "off" /\ End /\ UNCHANGED counts

\* composeApp throws: what it lacks, or a database that does not answer.
ComposeFails ==
    /\ phase = "composing" /\ End
    /\ \/ ~Composable(deployment) /\ UNCHANGED counts
       \/ Composable(deployment) /\ Faulty

\* shutdown: a second signal finds shuttingDown.
Signal ==
    /\ phase # "off" /\ stop = "no"
    /\ stop' = "asked"
    /\ UNCHANGED <<files, phase, deployment, check, found, told, current, loaded, req, ghosts, counts>>

\* shutdown awaits the composition, dispose the check; then the marker goes.
ClearRunMarker ==
    /\ stop = "asked" /\ phase = "serving" /\ CheckSettled
    /\ marker' = FALSE /\ stop' = "cleared"
    /\ UNCHANGED <<alertsFile, stable, candidate, phase, deployment, check, found, told,
                   current, loaded, req, ghosts, counts>>

\* clearRunMarker swallows a failure: a clean stop will be reported.
ClearFails ==
    /\ stop = "asked" /\ phase = "serving" /\ CheckSettled /\ Faulty
    /\ stop' = "uncleared"
    /\ UNCHANGED <<files, phase, deployment, check, found, told, current, loaded, req, ghosts>>

\* The watches stop, tracker and message log close (or log that they did not),
\* and the process exits, requests or not.
Exit == stop \in {"cleared", "uncleared"} /\ End /\ UNCHANGED counts

-----------------------------------------------------------------------------
(* The operator's changes.                                                  *)

Handling(a) == phase = "serving" /\ req[a].op = "none"

Writers == {a \in Admins : req[a].op \in Channels}

\* createAlertsHandlers and setDiscord / setSlack: a valid URL, or none, is
\* current at once; the write of both channels' settings is begun.
SetWebhook(a, ch, url) ==
    /\ Handling(a) /\ Changing
    /\ current' = [current EXCEPT ![ch] = Normalize(url)]
    /\ req' = [b \in Admins |->
                 IF b = a THEN [op |-> ch, next |-> current', alone |-> Writers = {}]
                 ELSE [req[b] EXCEPT !.alone = FALSE]]
    /\ promised' = [promised EXCEPT ![ch] = Anything]
    /\ UNCHANGED <<files, phase, deployment, check, found, told, stop, loaded, owed, verdicts>>

Answered(a) == req' = [req EXCEPT ![a] = NoRequest]

\* Mutant: only the channel that was set is written.
Persisted_One(ch, next) == [c \in {ch} |-> next[c]]

\* persist: both settings, whichever was changed.
Persisted(ch, next) == next

\* writeAtomic, the rename, and the answer.  A write no other overlapped makes
\* a promise, of the channel that was set; of writes that overlap, the renames
\* come in any order.
StoreWebhook(a) ==
    /\ req[a].op \in Channels
    /\ alertsFile' = Persisted(req[a].op, req[a].next)
    /\ promised' = IF req[a].alone THEN [promised EXCEPT ![req[a].op] = req[a].next[req[a].op]] ELSE promised
    /\ Answered(a)
    /\ UNCHANGED <<marker, stable, candidate, process, owed, verdicts, counts>>

\* The write fails: the admin is told, and memory keeps the new value.
StoreFails(a) ==
    /\ req[a].op \in Channels /\ Faulty
    /\ Answered(a)
    /\ UNCHANGED <<files, process, ghosts>>

\* External: the operator puts a candidate there, over an old one.
CandidateArrives(v) ==
    /\ Fresh(v) /\ candidate' = v
    /\ UNCHANGED <<marker, alertsFile, stable, process, req, ghosts, counts>>

\* promote and rollback: 409 without a candidate.
JudgeSnapshot(a, op) ==
    /\ Handling(a) /\ Changing
    /\ candidate # None
    /\ req' = [req EXCEPT ![a] = [NoRequest EXCEPT !.op = op]]
    /\ UNCHANGED <<files, process, ghosts>>

\* Mutant: the candidate is copied, not moved.
Moved_Copied == candidate

\* rename and unlink leave no candidate.
Moved == None

Told(v, answer) == verdicts' = [verdicts EXCEPT ![v] = @ \cup {answer}]

\* rename: whatever candidate is there now becomes the stable snapshot.
Promote(a) ==
    /\ req[a].op = "promote" /\ candidate # None
    /\ stable' = candidate /\ candidate' = Moved
    /\ Told(candidate, "promoted") /\ Answered(a)
    /\ UNCHANGED <<marker, alertsFile, process, owed, promised, counts>>

\* unlink.
Rollback(a) ==
    /\ req[a].op = "rollback" /\ candidate # None
    /\ candidate' = Moved
    /\ Told(candidate, "rolledBack") /\ Answered(a)
    /\ UNCHANGED <<marker, alertsFile, stable, process, owed, promised, counts>>

\* ENOENT: another request was first; an error is the answer.
JudgeTooLate(a) ==
    /\ req[a].op \in {"promote", "rollback"} /\ candidate = None
    /\ Answered(a)
    /\ UNCHANGED <<files, process, ghosts, counts>>

-----------------------------------------------------------------------------

Boot == Launch \/ LoadAlerts \/ LoadAlertsFails \/ Compose \/ ComposeFails

Check == ReadMarker \/ RemoveMarker \/ CreateMarker \/ ReportRestart \/ CheckFails

Stop == Signal \/ ClearRunMarker \/ ClearFails \/ Exit \/ Die

Operate(a) ==
    \/ \E ch \in Channels, url \in Urls \cup {Blank} : SetWebhook(a, ch, url)
    \/ StoreWebhook(a) \/ StoreFails(a)
    \/ \E op \in {"promote", "rollback"} : JudgeSnapshot(a, op)
    \/ Promote(a) \/ Rollback(a) \/ JudgeTooLate(a)

Next ==
    \/ Boot \/ Check \/ Stop
    \/ \E a \in Admins : Operate(a)
    \/ \E v \in Versions : CandidateArrives(v)

Spec == Init /\ [][Next]_vars

-----------------------------------------------------------------------------

\* The types of the state: no setting in memory or on disk is blank, a stable
\* snapshot is always there, and a check or a shutdown belongs to a running process.
TypeOK ==
    /\ marker \in BOOLEAN /\ owed \in BOOLEAN /\ found \in BOOLEAN
    /\ DOMAIN alertsFile \subseteq Channels
    /\ \A c \in DOMAIN alertsFile : alertsFile[c] \in Urls \cup {None}
    /\ stable \in Versions /\ candidate \in Versions \cup {None}
    /\ phase \in {"off", "loading", "composing", "serving"} /\ deployment \in Deployments
    /\ check \in {"idle", "reading", "removing", "creating", "reporting", "armed", "kept", "gone"}
    /\ stop \in {"no", "asked", "cleared", "uncleared"}
    /\ current \in Configs /\ told \in Urls \cup {None}
    /\ loaded \in [pool : {"none", "single", "multi"}, template : Versions \cup {None},
                   canary : Versions \cup {None}]
    /\ req \in [Admins -> [op : {"none", "promote", "rollback"} \cup Channels,
                           next : Configs, alone : BOOLEAN]]
    /\ promised \in [Channels -> Urls \cup {None, Anything}]
    /\ verdicts \in [Versions -> SUBSET {"promoted", "rolledBack"}]
    /\ (phase = "off" => check = "idle" /\ stop = "no")
    /\ (phase = "serving" <=> loaded.pool # "none")

\* A run that could read the marker reports a restart exactly when some run
\* before it left its marker and ended without clearing it: neither a stop in
\* the middle of the boot nor a kill while draining is reported, and no death
\* of a marked run is missed (src/run-marker.ts:41-83, src/app.ts:516-520).
MarkerTells ==
    check \in {"removing", "creating", "reporting", "armed"} => (found <=> owed)

\* The webhooks an operator was told are stored are those of every later run,
\* whatever the environment of that run says (src/alerts-store.ts:55-92).
SettingsSurvive ==
    phase \in {"composing", "serving"} =>
        \A c \in Channels : promised[c] # Anything => current[c] = promised[c]

\* Of the admins who promote or roll a candidate back at the same time, one is
\* told it was done, and no run starts on a snapshot that was rolled back
\* (src/admin/snapshot.ts:48-69).
OneVerdict ==
    /\ \A v \in Versions : Cardinality(verdicts[v]) <= 1
    /\ phase = "serving" => "rolledBack" \notin verdicts[loaded.template]

\* What an admin was told of a change holds in later runs.
AnswersHold == SettingsSurvive /\ OneVerdict

=============================================================================
