--------------------------- MODULE LifecycleProofs --------------------------
(***************************************************************************)
(* What the process keeps over its runs, for every number of admins, URLs,   *)
(* snapshots, deployments, runs and faults: the types, the run marker, the   *)
(* webhooks an operator was told are stored, and the verdicts on snapshots.   *)
(***************************************************************************)
EXTENDS Lifecycle, FiniteSetTheorems, TLAPS

-----------------------------------------------------------------------------
(* What the boot computes.                                                  *)

\* Blank becomes no URL, every other URL stays (src/alerts-store.ts:28-31).
LEMMA NormalizeType ==
    ASSUME NEW url \in Urls \cup {None, Blank}
    PROVE  Normalize(url) \in Urls \cup {None}
  BY LifecycleAssumption DEF Normalize

\* A file of good settings, or none, gives a configuration with any environment
\* (src/alerts-store.ts:55-64).
LEMMA ChooseType ==
    ASSUME NEW file, NEW d \in Deployments,
           \A c \in DOMAIN file : file[c] \in Urls \cup {None}
    PROVE  Choose(file, d.env) \in Configs
<1>1. d.env \in [Channels -> Urls \cup {None, Blank}]
  BY LifecycleAssumption
<1>2. \A c \in Channels : (IF c \in DOMAIN file THEN file[c] ELSE d.env[c]) \in Urls \cup {None, Blank}
  BY <1>1
<1>3. \A c \in Channels : Normalize(IF c \in DOMAIN file THEN file[c] ELSE d.env[c]) \in Urls \cup {None}
  BY <1>2, NormalizeType
<1> QED
  BY <1>3 DEF Choose, Configs

\* A channel the file names has the file's setting (src/alerts-store.ts:55-64).
LEMMA ChooseKeepsFile ==
    ASSUME NEW file, NEW env, NEW c \in Channels,
           c \in DOMAIN file, file[c] \in Urls \cup {None}
    PROVE  Choose(file, env)[c] = file[c]
  BY LifecycleAssumption DEF Choose, Normalize

-----------------------------------------------------------------------------
(* Types.                                                                   *)

\* Pool, template and canary of a boot that went well have their types
\* (src/app.ts, buildPool and tryCreateCandidateTemplate).
LEMMA ComposedType ==
    ASSUME NEW d, NEW v \in Versions, NEW w \in Versions \cup {None}
    PROVE  [pool |-> PoolOf(d), template |-> v, canary |-> CanaryOf(w)]
              \in [pool : {"none", "single", "multi"}, template : Versions \cup {None},
                   canary : Versions \cup {None}]
  BY LifecycleAssumption DEF PoolOf, PoolOfFile, CanaryOf, Loads

\* With every admin request gone, and with one begun or ended, the requests
\* have their types.
Requests == [Admins -> [op : {"none", "promote", "rollback"} \cup Channels,
                        next : Configs, alone : BOOLEAN]]

LEMMA NoConfig == [c \in Channels |-> None] \in Configs
  BY DEF Configs

LEMMA RequestTypes ==
    /\ [a \in Admins |-> NoRequest] \in Requests
    /\ req \in Requests => \A a \in Admins : Answered(a) => req' \in Requests
<1>1. NoRequest \in [op : {"none", "promote", "rollback"} \cup Channels, next : Configs, alone : BOOLEAN]
  BY NoConfig DEF NoRequest
<1> QED
  BY <1>1 DEF Requests, Answered

LEMMA EndType == TypeOK /\ End => TypeOK'
<1> SUFFICES ASSUME TypeOK, End PROVE TypeOK'
  OBVIOUS
<1>1. req' \in Requests
  BY RequestTypes DEF End
<1>2. owed' \in BOOLEAN
  BY DEF End, OwedAtEnd, TypeOK
<1> QED
  BY <1>1, <1>2, NoConfig DEF TypeOK, End, Requests, Nobody, files

LEMMA InitTypes == Init => TypeOK
<1> SUFFICES ASSUME Init PROVE TypeOK
  OBVIOUS
<1>1. req \in Requests
  BY RequestTypes DEF Init
<1> QED
  BY <1>1, NoConfig, LifecycleAssumption DEF Init, TypeOK, Requests, Nobody, Channels

LEMMA BootTypes == TypeOK /\ Boot => TypeOK'
<1> SUFFICES ASSUME TypeOK, Boot PROVE TypeOK'
  OBVIOUS
<1>1. CASE Launch
  BY <1>1 DEF TypeOK, Launch, files, ghosts
<1>2. CASE LoadAlerts
  <2>1. current' \in Configs
    BY <1>2, ChooseType DEF LoadAlerts, TypeOK
  <2> QED
    BY <1>2, <2>1 DEF TypeOK, LoadAlerts, files, ghosts
<1>3. CASE LoadAlertsFails
  <2>1. current' \in Configs
    BY <1>3, ChooseType DEF LoadAlertsFails, TypeOK
  <2> QED
    BY <1>3, <2>1 DEF TypeOK, LoadAlertsFails, files
<1>4. CASE Compose
  <2>1. loaded' \in [pool : {"none", "single", "multi"}, template : Versions \cup {None},
                     canary : Versions \cup {None}]
    BY <1>4, ComposedType DEF TypeOK, Compose
  <2>2. loaded'.pool # "none"
    BY <1>4 DEF Compose, Composable
  <2> QED
    BY <1>4, <2>1, <2>2 DEF TypeOK, Compose, files, ghosts
<1>5. CASE ComposeFails
  BY <1>5, EndType DEF ComposeFails
<1> QED
  BY <1>1, <1>2, <1>3, <1>4, <1>5 DEF Boot

LEMMA CheckTypes == TypeOK /\ Check => TypeOK'
<1> SUFFICES ASSUME TypeOK, Check PROVE TypeOK'
  OBVIOUS
<1>1. Target \in Urls \cup {None}
  BY DEF TypeOK, Target, Configs, Channels
<1>2. check # "idle" /\ phase # "off" /\ \E stage \in {"removing", "creating", "reporting", "armed", "kept", "gone"} : Checked(stage)
  BY DEF TypeOK, Check, ReadMarker, RemoveMarker, CreateMarker, ReportRestart, CheckFails
<1>3. marker' \in BOOLEAN /\ found' \in BOOLEAN /\ told' \in Urls \cup {None}
  BY <1>1 DEF TypeOK, Check, ReadMarker, RemoveMarker, CreateMarker, ReportRestart, CheckFails
<1> QED
  BY <1>2, <1>3 DEF TypeOK, Checked, ghosts

LEMMA StopTypes == TypeOK /\ Stop => TypeOK'
<1> SUFFICES ASSUME TypeOK, Stop PROVE TypeOK'
  OBVIOUS
<1>1. CASE Exit \/ Die
  BY <1>1, EndType DEF Exit, Die
<1>2. CASE Signal
  BY <1>2 DEF TypeOK, Signal, files, ghosts
<1>3. CASE ClearRunMarker
  BY <1>3 DEF TypeOK, ClearRunMarker, ghosts
<1>4. CASE ClearFails
  BY <1>4 DEF TypeOK, ClearFails, files, ghosts
<1> QED
  BY <1>1, <1>2, <1>3, <1>4 DEF Stop

LEMMA OperateTypes ==
    ASSUME TypeOK, NEW a \in Admins, Operate(a)
    PROVE  TypeOK'
<1>0. req \in Requests
  BY DEF TypeOK, Requests
<1>1. ASSUME NEW ch \in Channels, NEW url \in Urls \cup {Blank}, SetWebhook(a, ch, url)
      PROVE  TypeOK'
  <2>1. current' \in Configs
    BY <1>1, NormalizeType DEF SetWebhook, TypeOK, Configs
  <2>2. req' \in Requests
    BY <1>0, <1>1, <2>1 DEF SetWebhook, Requests
  <2>3. promised' \in [Channels -> Urls \cup {None, Anything}]
    BY <1>1 DEF SetWebhook, TypeOK
  <2>4. UNCHANGED <<files, phase, deployment, check, found, told, stop, loaded, owed, verdicts>>
    BY <1>1 DEF SetWebhook
  <2> QED
    BY <2>1, <2>2, <2>3, <2>4 DEF TypeOK, Requests, files
<1>2. CASE StoreWebhook(a)
  <2>1. req[a].next \in Configs /\ req' \in Requests
    BY <1>0, <1>2, RequestTypes DEF StoreWebhook, Requests
  <2>2. /\ alertsFile' = req[a].next /\ req[a].op \in Channels
        /\ promised' = promised \/ promised' = [promised EXCEPT ![req[a].op] = req[a].next[req[a].op]]
    BY <1>2 DEF StoreWebhook, Persisted
  <2>3. DOMAIN alertsFile' \subseteq Channels /\ \A c \in DOMAIN alertsFile' : alertsFile'[c] \in Urls \cup {None}
    BY <2>1, <2>2 DEF Configs
  <2>4. promised' \in [Channels -> Urls \cup {None, Anything}]
    BY <2>1, <2>2 DEF Configs, TypeOK
  <2> QED
    BY <1>2, <2>1, <2>3, <2>4 DEF TypeOK, StoreWebhook, Requests, process
<1>3. CASE StoreFails(a)
  <2>1. req' \in Requests
    BY <1>0, <1>3, RequestTypes DEF StoreFails
  <2> QED
    BY <1>3, <2>1 DEF TypeOK, StoreFails, Requests, files, process, ghosts
<1>4. ASSUME NEW op \in {"promote", "rollback"}, JudgeSnapshot(a, op)
      PROVE  TypeOK'
  <2>1. req' \in Requests
    BY <1>0, <1>4, NoConfig DEF JudgeSnapshot, Requests, NoRequest
  <2> QED
    BY <1>4, <2>1 DEF TypeOK, JudgeSnapshot, Requests, files, process, ghosts
<1>5. CASE Promote(a) \/ Rollback(a)
  <2>1. req' \in Requests
    BY <1>0, <1>5, RequestTypes DEF Promote, Rollback
  <2>2. verdicts' \in [Versions -> SUBSET {"promoted", "rolledBack"}]
    BY <1>5 DEF TypeOK, Promote, Rollback, Told
  <2> QED
    BY <1>5, <2>1, <2>2 DEF TypeOK, Promote, Rollback, Moved, Requests, process
<1>6. CASE JudgeTooLate(a)
  <2>1. req' \in Requests
    BY <1>0, <1>6, RequestTypes DEF JudgeTooLate
  <2> QED
    BY <1>6, <2>1 DEF TypeOK, JudgeTooLate, Requests, files, process, ghosts
<1> QED
  BY <1>1, <1>2, <1>3, <1>4, <1>5, <1>6 DEF Operate

LEMMA StepTypes == TypeOK /\ [Next]_vars => TypeOK'
<1> SUFFICES ASSUME TypeOK, [Next]_vars PROVE TypeOK'
  OBVIOUS
<1>1. ASSUME NEW v \in Versions, CandidateArrives(v) PROVE TypeOK'
  BY <1>1 DEF TypeOK, CandidateArrives, process, ghosts
<1>2. CASE UNCHANGED vars
  BY <1>2 DEF TypeOK, vars, files, process, ghosts
<1> QED
  BY <1>1, <1>2, BootTypes, CheckTypes, StopTypes, OperateTypes DEF Next

\* The types of the process, its files and its admins' requests: settings are
\* never blank, a stable snapshot is always there (src/alerts-store.ts:28-64,
\* src/admin/snapshot.ts:48-69).
THEOREM TypeCorrect == Spec => []TypeOK
  BY InitTypes, StepTypes, PTL DEF Spec

-----------------------------------------------------------------------------
(* The run marker.                                                          *)

\* How far a run is, by what it has begun and what it has ended.
StagesOK ==
    /\ check = "idle" <=> phase \in {"off", "loading"}
    /\ stop \in {"cleared", "uncleared"} => phase = "serving" /\ CheckSettled

\* The marker is there when an end is to be reported; once the check has read
\* and replaced it, it stands for the run itself until dispose removes it.
MarkerOK ==
    /\ check \in {"idle", "reading", "removing"} => marker = owed
    /\ check \in {"creating", "gone"} => ~marker
    /\ check \in {"reporting", "armed"} => (marker <=> stop # "cleared")
    /\ check = "kept" => (marker <=> owed /\ stop # "cleared")

MarkerInv == TypeOK /\ StagesOK /\ MarkerOK /\ MarkerTells

\* What the run leaves is what it owes.
LEMMA EndMarker == MarkerInv /\ End => StagesOK' /\ MarkerOK' /\ MarkerTells'
  BY DEF MarkerInv, TypeOK, StagesOK, MarkerOK, MarkerTells, CheckSettled, End, OwedAtEnd, files

LEMMA BootMarker == MarkerInv /\ Boot => StagesOK' /\ MarkerOK' /\ MarkerTells'
<1> SUFFICES ASSUME MarkerInv, Boot PROVE StagesOK' /\ MarkerOK' /\ MarkerTells'
  OBVIOUS
<1> USE DEF MarkerInv, StagesOK, MarkerOK, MarkerTells, CheckSettled, files, ghosts
<1>1. CASE Launch
  BY <1>1 DEF Launch
<1>2. CASE LoadAlerts \/ LoadAlertsFails
  BY <1>2 DEF LoadAlerts, LoadAlertsFails
<1>3. CASE Compose
  BY <1>3 DEF Compose
<1>4. CASE ComposeFails
  BY <1>4, EndMarker DEF ComposeFails
<1> QED
  BY <1>1, <1>2, <1>3, <1>4 DEF Boot

LEMMA CheckMarker == MarkerInv /\ Check => StagesOK' /\ MarkerOK' /\ MarkerTells'
<1> SUFFICES ASSUME MarkerInv, Check PROVE StagesOK' /\ MarkerOK' /\ MarkerTells'
  OBVIOUS
<1> USE DEF MarkerInv, TypeOK, StagesOK, MarkerOK, MarkerTells, CheckSettled, Checked, ghosts
<1>1. CASE ReadMarker
  BY <1>1 DEF ReadMarker
<1>2. CASE RemoveMarker
  BY <1>2 DEF RemoveMarker
<1>3. CASE CreateMarker
  BY <1>3 DEF CreateMarker
<1>4. CASE ReportRestart
  BY <1>4 DEF ReportRestart
<1>5. CASE CheckFails
  BY <1>5 DEF CheckFails
<1> QED
  BY <1>1, <1>2, <1>3, <1>4, <1>5 DEF Check

LEMMA StopMarker == MarkerInv /\ Stop => StagesOK' /\ MarkerOK' /\ MarkerTells'
<1> SUFFICES ASSUME MarkerInv, Stop PROVE StagesOK' /\ MarkerOK' /\ MarkerTells'
  OBVIOUS
<1> USE DEF MarkerInv, TypeOK, StagesOK, MarkerOK, MarkerTells, CheckSettled, files, ghosts
<1>1. CASE Signal
  BY <1>1 DEF Signal
<1>2. CASE ClearRunMarker
  BY <1>2 DEF ClearRunMarker
<1>3. CASE ClearFails
  BY <1>3 DEF ClearFails
<1>4. CASE Exit \/ Die
  BY <1>4, EndMarker DEF Exit, Die
<1> QED
  BY <1>1, <1>2, <1>3, <1>4 DEF Stop

\* The rest reads and writes nothing of it.
LEMMA OthersLeaveMarker ==
    ASSUME MarkerInv, UNCHANGED <<marker, phase, check, found, stop, owed>>
    PROVE  StagesOK' /\ MarkerOK' /\ MarkerTells'
  BY DEF MarkerInv, StagesOK, MarkerOK, MarkerTells, CheckSettled

LEMMA OperateLeavesMarker ==
    ASSUME NEW a \in Admins, Operate(a)
    PROVE  UNCHANGED <<marker, phase, check, found, stop, owed>>
  BY DEF Operate, SetWebhook, StoreWebhook, StoreFails, JudgeSnapshot, Promote, Rollback,
         JudgeTooLate, files, process, ghosts

\* A run that could read the marker reports exactly the ends that were not
\* clean (src/run-marker.ts:41-83, src/app.ts:516-520), for any number of runs
\* and faults.
THEOREM MarkerIsTrue == Spec => []MarkerTells
<1>1. Init => MarkerInv
  BY InitTypes DEF Init, MarkerInv, StagesOK, MarkerOK, MarkerTells
<1>2. MarkerInv /\ [Next]_vars => MarkerInv'
  <2> SUFFICES ASSUME MarkerInv, [Next]_vars PROVE StagesOK' /\ MarkerOK' /\ MarkerTells'
    BY StepTypes DEF MarkerInv
  <2>1. CASE \E a \in Admins : Operate(a)
    BY <2>1, OperateLeavesMarker, OthersLeaveMarker
  <2>2. CASE \E v \in Versions : CandidateArrives(v)
    BY <2>2, OthersLeaveMarker DEF CandidateArrives, process, ghosts
  <2>3. CASE UNCHANGED vars
    BY <2>3, OthersLeaveMarker DEF vars, files, process, ghosts
  <2> QED
    BY <2>1, <2>2, <2>3, BootMarker, CheckMarker, StopMarker DEF Next
<1> QED
  BY <1>1, <1>2, PTL DEF Spec, MarkerInv

-----------------------------------------------------------------------------
(* The webhooks.                                                            *)

\* A setting that is promised is on file, in memory while the process has one,
\* and in every write that is under way.
SettingsKept ==
    \A c \in Channels : promised[c] # Anything =>
        /\ c \in DOMAIN alertsFile /\ alertsFile[c] = promised[c]
        /\ phase \in {"composing", "serving"} => current[c] = promised[c]
        /\ \A a \in Writers : req[a].next[c] = promised[c]

\* A write that is alone writes what is in memory, and no other does.
AloneOK ==
    /\ Writers # {} => phase = "serving"
    /\ \A a \in Writers : req[a].alone => req[a].next = current /\ Writers = {a}

SettingsInv == TypeOK /\ AloneOK /\ SettingsKept

LEMMA EndSettings == SettingsInv /\ End => AloneOK' /\ SettingsKept'
<1> SUFFICES ASSUME SettingsInv, End PROVE AloneOK' /\ SettingsKept'
  OBVIOUS
<1>1. Writers' = {} /\ phase' = "off" /\ UNCHANGED <<alertsFile, promised>>
  BY DEF End, Writers, NoRequest, Channels, files
<1> QED
  BY <1>1 DEF SettingsInv, AloneOK, SettingsKept

\* Steps that leave memory, file, promises and writers alone.
LEMMA QuietSettings ==
    ASSUME SettingsInv, UNCHANGED <<alertsFile, current, req, promised>>,
           phase' = phase \/ (phase = "composing" /\ phase' = "serving")
                          \/ (phase = "off" /\ phase' = "loading")
    PROVE  AloneOK' /\ SettingsKept'
  BY DEF SettingsInv, AloneOK, SettingsKept, Writers

LEMMA BootSettings == SettingsInv /\ Boot => AloneOK' /\ SettingsKept'
<1> SUFFICES ASSUME SettingsInv, Boot PROVE AloneOK' /\ SettingsKept'
  OBVIOUS
<1>1. CASE Launch \/ Compose
  BY <1>1, QuietSettings DEF Launch, Compose, files, ghosts
<1>2. CASE LoadAlerts
  <2>1. Writers' = {} /\ UNCHANGED <<alertsFile, promised>>
    BY <1>2 DEF LoadAlerts, SettingsInv, AloneOK, Writers, files, ghosts
  <2>2. \A c \in Channels : promised[c] # Anything => current'[c] = promised[c]
    BY <1>2, ChooseKeepsFile DEF LoadAlerts, SettingsInv, SettingsKept, TypeOK
  <2> QED
    BY <2>1, <2>2 DEF SettingsInv, AloneOK, SettingsKept
<1>3. CASE LoadAlertsFails
  <2>1. Writers' = {} /\ \A c \in Channels : promised'[c] = Anything
    BY <1>3 DEF LoadAlertsFails, SettingsInv, AloneOK, Writers, files
  <2> QED
    BY <2>1 DEF AloneOK, SettingsKept
<1>4. CASE ComposeFails
  BY <1>4, EndSettings DEF ComposeFails
<1> QED
  BY <1>1, <1>2, <1>3, <1>4 DEF Boot

LEMMA StopSettings == SettingsInv /\ Stop => AloneOK' /\ SettingsKept'
<1> SUFFICES ASSUME SettingsInv, Stop PROVE AloneOK' /\ SettingsKept'
  OBVIOUS
<1>1. CASE Signal \/ ClearRunMarker \/ ClearFails
  BY <1>1, QuietSettings DEF Signal, ClearRunMarker, ClearFails, files, ghosts
<1>2. CASE Exit \/ Die
  BY <1>2, EndSettings DEF Exit, Die
<1> QED
  BY <1>1, <1>2 DEF Stop

LEMMA CheckSettings == SettingsInv /\ Check => AloneOK' /\ SettingsKept'
<1> SUFFICES ASSUME SettingsInv, Check PROVE AloneOK' /\ SettingsKept'
  OBVIOUS
<1>1. \E stage \in {"removing", "creating", "reporting", "armed", "kept", "gone"} : Checked(stage)
  BY DEF SettingsInv, TypeOK, Check, ReadMarker, RemoveMarker, CreateMarker, ReportRestart, CheckFails
<1> QED
  BY <1>1, QuietSettings DEF Checked, ghosts

\* A change of one channel unsettles that channel alone, and every write that
\* is under way stops being alone.
LEMMA SetSettings ==
    ASSUME SettingsInv, NEW a \in Admins, NEW ch \in Channels, NEW url \in Urls \cup {Blank},
           SetWebhook(a, ch, url)
    PROVE  AloneOK' /\ SettingsKept'
<1>1. /\ current' = [current EXCEPT ![ch] = Normalize(url)] /\ promised' = [promised EXCEPT ![ch] = Anything]
      /\ UNCHANGED <<alertsFile, phase>> /\ phase = "serving"
  BY DEF SetWebhook, files, Handling
<1>2. \A b \in Admins :
        /\ b # a => req'[b].op = req[b].op /\ req'[b].next = req[b].next /\ ~req'[b].alone
        /\ b = a => req'[b].op = ch /\ req'[b].next = current' /\ req'[b].alone = (Writers = {})
  BY DEF SetWebhook, SettingsInv, TypeOK
<1>3. Writers' = Writers \cup {a}
  BY <1>2 DEF Writers
<1>4. AloneOK'
  BY <1>1, <1>2, <1>3 DEF AloneOK, Writers
<1>5. ASSUME NEW c \in Channels, promised'[c] # Anything
      PROVE  c # ch /\ promised'[c] = promised[c] /\ current'[c] = current[c] /\ promised[c] # Anything
  BY <1>1, <1>5 DEF SettingsInv, TypeOK, Configs
<1>6. ASSUME NEW c \in Channels, promised'[c] # Anything, NEW b \in Writers'
      PROVE  req'[b].next[c] = promised'[c]
  <2>1. CASE b = a
    <3>1. req'[b].next = current' /\ current'[c] = current[c] /\ promised'[c] = promised[c]
      BY <2>1, <1>2, <1>5, <1>6
    <3>2. current[c] = promised[c]
      BY <1>1, <1>5, <1>6 DEF SettingsInv, SettingsKept
    <3> QED
      BY <3>1, <3>2
  <2>2. CASE b # a
    BY <2>2, <1>2, <1>3, <1>5, <1>6 DEF SettingsInv, SettingsKept, Writers
  <2> QED
    BY <2>1, <2>2
<1>7. SettingsKept'
  BY <1>1, <1>5, <1>6 DEF SettingsInv, SettingsKept
<1> QED
  BY <1>4, <1>7

\* One request less.
LEMMA AnsweredWriters ==
    ASSUME TypeOK, NEW a \in Admins, Answered(a)
    PROVE  /\ Writers' = Writers \ {a}
           /\ \A b \in Writers' : req'[b] = req[b]
  BY DEF TypeOK, Answered, Writers, NoRequest, Channels

LEMMA StoreSettings ==
    ASSUME SettingsInv, NEW a \in Admins, StoreWebhook(a)
    PROVE  AloneOK' /\ SettingsKept'
<1>1. /\ a \in Writers /\ alertsFile' = req[a].next /\ UNCHANGED <<phase, current>>
      /\ promised' = IF req[a].alone THEN [promised EXCEPT ![req[a].op] = req[a].next[req[a].op]] ELSE promised
  BY DEF StoreWebhook, Persisted, Writers, process
<1>2. Writers' = Writers \ {a} /\ \A b \in Writers' : req'[b] = req[b]
  BY AnsweredWriters DEF StoreWebhook, SettingsInv
<1>3. AloneOK'
  BY <1>1, <1>2 DEF SettingsInv, AloneOK
<1>4. DOMAIN req[a].next = Channels
  BY <1>1 DEF SettingsInv, TypeOK, Configs, Writers
<1>5. CASE req[a].alone
  <2>1. req[a].next = current /\ Writers' = {} /\ phase = "serving"
    BY <1>1, <1>2, <1>5 DEF SettingsInv, AloneOK
  <2>2. ASSUME NEW c \in Channels, promised'[c] # Anything
        PROVE  current[c] = promised'[c]
    <3>1. CASE c = req[a].op
      BY <1>1, <1>5, <2>1, <3>1 DEF SettingsInv, TypeOK
    <3>2. CASE c # req[a].op
      BY <1>1, <1>5, <2>1, <2>2, <3>2 DEF SettingsInv, SettingsKept, TypeOK
    <3> QED
      BY <3>1, <3>2
  <2> QED
    BY <1>1, <1>3, <1>4, <2>1, <2>2 DEF SettingsKept
<1>6. CASE ~req[a].alone
  BY <1>1, <1>2, <1>3, <1>4, <1>6 DEF SettingsInv, SettingsKept
<1> QED
  BY <1>5, <1>6

LEMMA OperateSettings ==
    ASSUME SettingsInv, NEW a \in Admins, Operate(a)
    PROVE  AloneOK' /\ SettingsKept'
<1>1. ASSUME UNCHANGED <<alertsFile, current, phase, promised>>, Answered(a)
      PROVE  AloneOK' /\ SettingsKept'
  BY <1>1, AnsweredWriters DEF SettingsInv, AloneOK, SettingsKept
<1>2. CASE StoreFails(a) \/ Promote(a) \/ Rollback(a) \/ JudgeTooLate(a)
  BY <1>1, <1>2 DEF StoreFails, Promote, Rollback, JudgeTooLate, files, process, ghosts
<1>3. ASSUME NEW op \in {"promote", "rollback"}, JudgeSnapshot(a, op)
      PROVE  AloneOK' /\ SettingsKept'
  <2>1. UNCHANGED <<alertsFile, current, phase, promised>>
    BY <1>3 DEF JudgeSnapshot, files, process, ghosts
  <2>2. Writers' = Writers /\ \A b \in Writers : req'[b] = req[b]
    BY <1>3 DEF JudgeSnapshot, Handling, Writers, Channels, SettingsInv, TypeOK, NoRequest
  <2> QED
    BY <2>1, <2>2 DEF SettingsInv, AloneOK, SettingsKept
<1> QED
  BY <1>2, <1>3, SetSettings, StoreSettings DEF Operate

\* What an operator was told is stored is what every later run posts to, for
\* any number of admins, overlapping writes, runs and faults
\* (src/alerts-store.ts:55-92).
THEOREM WebhooksSurvive == Spec => []SettingsSurvive
<1>1. Init => SettingsInv
  BY InitTypes DEF Init, SettingsInv, AloneOK, SettingsKept, Writers, NoRequest, Channels
<1>2. SettingsInv /\ [Next]_vars => SettingsInv'
  <2> SUFFICES ASSUME SettingsInv, [Next]_vars PROVE AloneOK' /\ SettingsKept'
    BY StepTypes DEF SettingsInv
  <2>1. CASE \E v \in Versions : CandidateArrives(v)
    BY <2>1, QuietSettings DEF CandidateArrives, process, ghosts
  <2>2. CASE UNCHANGED vars
    BY <2>2, QuietSettings DEF vars, files, process, ghosts
  <2> QED
    BY <2>1, <2>2, BootSettings, CheckSettings, StopSettings, OperateSettings DEF Next
<1>3. SettingsInv => SettingsSurvive
  BY DEF SettingsInv, SettingsKept, SettingsSurvive
<1> QED
  BY <1>1, <1>2, <1>3, PTL DEF Spec

-----------------------------------------------------------------------------
(* The snapshots.                                                           *)

\* A candidate waits for its verdict, the snapshot that is installed was
\* promoted, and so was the one a run has loaded.
VerdictsOK ==
    /\ candidate # None => verdicts[candidate] = {} /\ candidate # stable
    /\ verdicts[stable] = {"promoted"}
    /\ phase = "serving" => loaded.template \in Versions /\ verdicts[loaded.template] = {"promoted"}
    /\ \A v \in Versions : verdicts[v] \in {{}, {"promoted"}, {"rolledBack"}}

VerdictInv == TypeOK /\ VerdictsOK

\* What the boot, the check and the end of a run do to snapshots.
LEMMA RunsLeaveVerdicts ==
    ASSUME VerdictInv, UNCHANGED <<stable, candidate, verdicts>>,
           \/ phase' # "serving"
           \/ phase' = "serving" /\ loaded'.template = stable
           \/ UNCHANGED <<phase, loaded>>
    PROVE  VerdictsOK'
  BY DEF VerdictInv, VerdictsOK, TypeOK

LEMMA ProcessVerdicts == VerdictInv /\ (Boot \/ Check \/ Stop) => VerdictsOK'
<1> SUFFICES ASSUME VerdictInv, Boot \/ Check \/ Stop PROVE VerdictsOK'
  OBVIOUS
<1>1. CASE Launch \/ LoadAlerts \/ LoadAlertsFails
  BY <1>1, RunsLeaveVerdicts DEF Launch, LoadAlerts, LoadAlertsFails, files, ghosts
<1>2. CASE Compose
  BY <1>2, RunsLeaveVerdicts DEF Compose, files, ghosts
<1>3. CASE ComposeFails \/ Exit \/ Die
  BY <1>3, RunsLeaveVerdicts DEF ComposeFails, Exit, Die, End, files
<1>4. CASE Check
  BY <1>4, RunsLeaveVerdicts DEF Check, ReadMarker, RemoveMarker, CreateMarker, ReportRestart,
         CheckFails, Checked, ghosts
<1>5. CASE Signal \/ ClearRunMarker \/ ClearFails
  BY <1>5, RunsLeaveVerdicts DEF Signal, ClearRunMarker, ClearFails, files, ghosts
<1> QED
  BY <1>1, <1>2, <1>3, <1>4, <1>5 DEF Boot, Stop

\* The candidate gets its one verdict as it is moved.
LEMMA JudgedVerdicts ==
    ASSUME VerdictInv, NEW a \in Admins, Promote(a) \/ Rollback(a)
    PROVE  VerdictsOK'
<1>1. /\ candidate \in Versions /\ verdicts[candidate] = {} /\ candidate' = None
      /\ UNCHANGED <<phase, loaded>>
  BY DEF Promote, Rollback, VerdictInv, VerdictsOK, TypeOK, Moved, process
<1>2. /\ Promote(a) => stable' = candidate /\ verdicts' = [verdicts EXCEPT ![candidate] = {"promoted"}]
      /\ Rollback(a) => stable' = stable /\ verdicts' = [verdicts EXCEPT ![candidate] = {"rolledBack"}]
  BY <1>1 DEF Promote, Rollback, Told, VerdictInv, TypeOK
<1>3. candidate # stable
  BY <1>1, LifecycleAssumption DEF VerdictInv, VerdictsOK
<1>4. phase = "serving" => loaded.template # candidate
  BY <1>1 DEF VerdictInv, VerdictsOK
<1> QED
  BY <1>1, <1>2, <1>3, <1>4 DEF VerdictInv, VerdictsOK, TypeOK

\* Of the admins that judge a candidate one is told it was done, and no run
\* serves with a snapshot that was rolled back (src/admin/snapshot.ts:48-69).
THEOREM OneVerdictEach == Spec => []OneVerdict
<1>1. Init => VerdictInv
  BY InitTypes, LifecycleAssumption DEF Init, VerdictInv, VerdictsOK
<1>2. VerdictInv /\ [Next]_vars => VerdictInv'
  <2> SUFFICES ASSUME VerdictInv, [Next]_vars PROVE VerdictsOK'
    BY StepTypes DEF VerdictInv
  <2>1. ASSUME NEW v \in Versions, CandidateArrives(v) PROVE VerdictsOK'
    BY <2>1 DEF CandidateArrives, Fresh, VerdictInv, VerdictsOK, TypeOK, process, ghosts
  <2>2. CASE UNCHANGED vars
    BY <2>2, RunsLeaveVerdicts DEF vars, files, process, ghosts
  <2>3. ASSUME NEW a \in Admins, Operate(a) PROVE VerdictsOK'
    <3>1. CASE Promote(a) \/ Rollback(a)
      BY <3>1, JudgedVerdicts
    <3>2. CASE ~(Promote(a) \/ Rollback(a))
      <4>1. UNCHANGED <<stable, candidate, verdicts, phase, loaded>>
        BY <2>3, <3>2 DEF Operate, SetWebhook, StoreWebhook, StoreFails, JudgeSnapshot,
               JudgeTooLate, files, process, ghosts
      <4> QED
        BY <4>1, RunsLeaveVerdicts
    <3> QED
      BY <3>1, <3>2
  <2> QED
    BY <2>1, <2>2, <2>3, ProcessVerdicts DEF Next
<1>3. VerdictInv => OneVerdict
  <2> SUFFICES ASSUME VerdictInv PROVE OneVerdict
    OBVIOUS
  <2>1. \A v \in Versions : Cardinality(verdicts[v]) <= 1
    <3>1. Cardinality({}) = 0 /\ Cardinality({"promoted"}) = 1 /\ Cardinality({"rolledBack"}) = 1
      BY FS_EmptySet, FS_Singleton
    <3> QED
      BY <3>1 DEF VerdictInv, VerdictsOK
  <2> QED
    BY <2>1 DEF VerdictInv, VerdictsOK, OneVerdict
<1> QED
  BY <1>1, <1>2, <1>3, PTL DEF Spec

\* Together: what an admin was told of a change holds in later runs.
THEOREM AnswersAreKept == Spec => []AnswersHold
  BY WebhooksSurvive, OneVerdictEach, PTL DEF AnswersHold

=============================================================================
