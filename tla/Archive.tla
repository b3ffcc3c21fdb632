------------------------------ MODULE Archive -------------------------------
(***************************************************************************)
(* Cold storage of the message log: the rows of src/usage/                   *)
(* messages-log-postgres.ts, the archiver of src/usage/messages-log-archive  *)
(* .ts as src/usage/archive-cli.ts runs it, and the admin page that reads an *)
(* archived row back (src/admin/messages.ts).                                *)
(*                                                                          *)
(* Runs are processes of their own: cron's and an operator's may overlap,    *)
(* fail or be killed at any point.  A row is its body's place; the rest of   *)
(* it stays in the table whatever happens.  Of the clock only two facts      *)
(* matter: the day a row is of, and whether two batches read the same        *)
(* millisecond, for both are part of an object's key.                        *)
(***************************************************************************)
EXTENDS Naturals, FiniteSets

CONSTANTS
    Rows,         \* ids of logged requests
    Crons,        \* runs cron starts
    Manuals,      \* runs an operator starts
    None,         \* no key, no row
    Days,         \* days a row's ts may fall on
    BatchSize,    \* MESSAGES_LOG_ARCHIVE_BATCH
    MaxBatches,   \* MESSAGES_LOG_ARCHIVE_MAX_BATCHES
    MaxMishaps    \* bound on failures and deaths

ASSUME ArchiveAssumption ==
    /\ IsFiniteSet(Rows) /\ Days \subseteq Nat /\ Crons \cap Manuals = {}
    /\ BatchSize \in Nat \ {0} /\ MaxBatches \in Nat \ {0} /\ MaxMishaps \in Nat
    /\ None \notin Rows /\ None \notin Nat \X Nat \X Nat

Runs == Crons \cup Manuals

\* buildArchiveKey: day, millisecond, sequence number.
ArchiveKeys == Days \X Nat \X Nat

VARIABLES
    log,          \* the table: where the bodies of each row are
    objects,      \* the bucket: the rows each object holds
    run,          \* the runs
    stamp,        \* the latest millisecond a batch has read
    overwritten,  \* whether an object was replaced by one of other rows
    reader,       \* an admin who opens archived bodies
    mishaps       \* failures and deaths so far

vars == <<log, objects, run, stamp, overwritten, reader, mishaps>>

IdleRun == [phase |-> "idle", mode |-> "real", batches |-> 0, now |-> 0, batch |-> {}, seq |-> 0]
NoReader == [phase |-> "idle", row |-> None, key |-> None]

Init ==
    /\ log = [r \in Rows |-> [body |-> "absent", day |-> 0, key |-> None]]
    /\ objects = [k \in {} |-> {}]
    /\ run = [p \in Runs |-> IdleRun]
    /\ stamp = 0
    /\ overwritten = "no"
    /\ reader = NoReader
    /\ mishaps = 0

-----------------------------------------------------------------------------
(* The log.                                                                 *)

\* record: the handler or the observer inserts a row, bodies included.
Record(r, d) ==
    /\ log[r].body = "absent"
    /\ log' = [log EXCEPT ![r] = [body |-> "young", day |-> d, key |-> None]]
    /\ UNCHANGED <<objects, run, stamp, overwritten, reader, mishaps>>

\* The cutoff passes the row.
Age(r) ==
    /\ log[r].body = "young"
    /\ log' = [log EXCEPT ![r].body = "old"]
    /\ UNCHANGED <<objects, run, stamp, overwritten, reader, mishaps>>

-----------------------------------------------------------------------------
(* The archiver.                                                            *)

\* main, up to the loop: the environment is complete and the credentials work.
Start(p, mode) ==
    /\ run[p].phase = "idle"
    /\ run' = [run EXCEPT ![p] = [IdleRun EXCEPT !.phase = "select", !.mode = mode]]
    /\ UNCHANGED <<log, objects, stamp, overwritten, reader, mishaps>>

\* Mutant: the cutoff is compared the wrong way round.
Eligible_Young == {r \in Rows : log[r].body = "young"}

\* selectBatch, WHERE archived_at IS NULL AND ts < cutoff.
Eligible == {r \in Rows : log[r].body = "old"}

\* selectBatch, ORDER BY ts LIMIT n: the oldest of them.
IsBatch(b) ==
    /\ b \subseteq Eligible
    /\ \/ Cardinality(b) = BatchSize
       \/ b = Eligible /\ Cardinality(b) < BatchSize
    /\ \A r \in b, s \in Eligible \ b : log[r].day <= log[s].day

\* archiveBatch reads the clock and selects.  Two runs may read the same
\* millisecond; the batches of one run do not, there is an upload between.
\* Nothing eligible ends the run.
Select(p) ==
    /\ run[p].phase = "select"
    /\ \/ /\ Eligible = {}
          /\ run' = [run EXCEPT ![p] = IdleRun]
          /\ UNCHANGED stamp
       \/ /\ run[p].mode = "dry" /\ Eligible # {}
          /\ \E b \in SUBSET Eligible : /\ IsBatch(b)
                                     /\ run' = [run EXCEPT ![p] = [@ EXCEPT !.phase = "put", !.batch = b]]
          /\ UNCHANGED stamp
       \/ /\ run[p].mode = "real" /\ Eligible # {}
          /\ stamp' \in {stamp + 1} \cup ({stamp} \ {0, run[p].now})
          /\ \E b \in SUBSET Eligible : /\ IsBatch(b)
                                     /\ run' = [run EXCEPT ![p] = [@ EXCEPT !.phase = "put", !.batch = b,
                                              !.seq = 0, !.now = stamp']]
    /\ UNCHANGED <<log, objects, overwritten, reader, mishaps>>

\* The rows of the batch's next day: byDay keeps the order of the rows.
Part(p) == {r \in run[p].batch : \A s \in run[p].batch : log[r].day <= log[s].day}

Key(p) == <<log[CHOOSE r \in Part(p) : TRUE].day, run[p].now, run[p].seq>>

\* Mutant: an upload that failed is taken for done.
Put_Swallowed(p) ==
    /\ run[p].phase = "put"
    /\ run' = [run EXCEPT ![p].phase = "mark"]
    /\ objects' \in {objects, [k \in DOMAIN objects \cup {Key(p)} |->
                        IF k = Key(p) THEN Part(p) ELSE objects[k]]}
    /\ UNCHANGED <<log, stamp, overwritten, reader, mishaps>>

\* putObject, awaited before anything is marked; a rehearsal only tells.
Put(p) ==
    /\ run[p].phase = "put"
    /\ run' = [run EXCEPT ![p].phase = "mark"]
    /\ IF run[p].mode = "dry" THEN UNCHANGED <<objects, overwritten>>
       ELSE /\ objects' = [k \in DOMAIN objects \cup {Key(p)} |->
                              IF k = Key(p) THEN Part(p) ELSE objects[k]]
            /\ overwritten' = IF Key(p) \in DOMAIN objects /\ objects[Key(p)] # Part(p)
                              THEN "yes" ELSE overwritten
    /\ UNCHANGED <<log, stamp, reader, mishaps>>

\* Mutant: the update forgets archived_at IS NULL.
Marked_Again(p) == [r \in Rows |->
    IF r \in Part(p) THEN [log[r] EXCEPT !.body = "archived", !.key = Key(p)] ELSE log[r]]

\* The table after markArchived: rows some run has marked already keep theirs.
Marked(p) == [r \in Rows |->
    IF r \in Part(p) /\ log[r].body # "archived"
    THEN [log[r] EXCEPT !.body = "archived", !.key = Key(p)] ELSE log[r]]

\* Mutant: the loop runs once more.
Exhausted_Late(n) == n > MaxBatches

\* The loop over attempts, with a run that has done n batches.
Exhausted(n) == n = MaxBatches

\* markArchived, and on to the next day of the batch, the next batch or the end.
Mark(p) ==
    /\ run[p].phase = "mark"
    /\ log' = IF run[p].mode = "dry" THEN log ELSE Marked(p)
    /\ LET rest == run[p].batch \ Part(p)
           done == run[p].batches + 1 IN
       run' = [run EXCEPT ![p] =
          IF rest # {} THEN [@ EXCEPT !.phase = "put", !.batch = rest, !.seq = run[p].seq + 1]
          ELSE IF run[p].mode = "dry" \/ Exhausted(done) THEN IdleRun
          ELSE [@ EXCEPT !.phase = "select", !.batch = {}, !.batches = done]]
    /\ UNCHANGED <<objects, stamp, overwritten, reader, mishaps>>

\* A query or upload fails, which ends the run, or the run is killed.
Abort(p) ==
    /\ run[p].phase # "idle" /\ mishaps < MaxMishaps
    /\ run' = [run EXCEPT ![p] = IdleRun]
    /\ mishaps' = mishaps + 1
    /\ UNCHANGED <<log, objects, stamp, overwritten, reader>>

-----------------------------------------------------------------------------
(* The admin page.                                                          *)

\* createArchivedMessageHandler gets a row and goes on only if it has a key.
GetRow(r) ==
    /\ reader.phase = "idle" /\ log[r].key # None
    /\ reader' = [phase |-> "reading", row |-> r, key |-> log[r].key]
    /\ UNCHANGED <<log, objects, run, stamp, overwritten, mishaps>>

\* readArchive and parseArchivedRow: the row is shown, or the bucket does not
\* answer; or the object does not contain the row, a 502.
ReadObject ==
    LET Holds == reader.key \in DOMAIN objects /\ reader.row \in objects[reader.key] IN
    /\ reader.phase = "reading"
    /\ \/ reader' = NoReader
       \/ ~Holds /\ reader' = [reader EXCEPT !.phase = "missed"]
    /\ UNCHANGED <<log, objects, run, stamp, overwritten, mishaps>>

Step(p) == Select(p) \/ Put(p) \/ Mark(p)

Next ==
    \/ \E r \in Rows, d \in Days : Record(r, d)
    \/ \E r \in Rows : Age(r) \/ GetRow(r)
    \/ \E p \in Crons : Start(p, "real")
    \/ \E p \in Manuals, mode \in {"real", "dry"} : Start(p, mode)
    \/ \E p \in Runs : Step(p) \/ Abort(p)
    \/ ReadObject

Spec == Init /\ [][Next]_vars

\* Cron starts its run again and again, a run goes on, rows grow old.
FairSpec ==
    /\ Spec
    /\ \A p \in Crons : WF_vars(Start(p, "real")) /\ WF_vars(Step(p))
    /\ \A r \in Rows : WF_vars(Age(r))

-----------------------------------------------------------------------------
(* What should hold.                                                        *)

\* Every variable has the values the code gives it.
TypeOK ==
    /\ log \in [Rows -> [body : {"absent", "young", "old", "archived"},
                         day : Days \cup {0}, key : ArchiveKeys \cup {None}]]
    /\ DOMAIN objects \subseteq ArchiveKeys
    /\ \A k \in DOMAIN objects : objects[k] \in SUBSET Rows
    /\ run \in [Runs -> [phase : {"idle", "select", "put", "mark"}, mode : {"real", "dry"},
                         batches : 0..(MaxBatches - 1), now : Nat, batch : SUBSET Rows,
                         seq : Nat]]
    /\ stamp \in Nat /\ overwritten \in {"no", "yes"} /\ mishaps \in 0..MaxMishaps
    /\ reader \in [phase : {"idle", "reading", "missed"},
                   row : Rows \cup {None}, key : ArchiveKeys \cup {None}]

\* A body that has left the table is in the object its row points to, on its
\* own day, through overlapping runs and runs that died between upload and
\* mark; and whoever reads it back finds it.  Unless two runs that read the
\* same millisecond had different rows.
BodiesSurvive ==
    overwritten = "no" =>
        /\ \A r \in Rows : log[r].body = "archived" =>
              /\ log[r].key \in DOMAIN objects /\ r \in objects[log[r].key]
              /\ log[r].key[1] = log[r].day
        /\ reader.phase # "missed"

\* A row's key never moves: later runs leave the rows of earlier ones alone.
KeysNeverMove ==
    [][\A r \in Rows : log[r].body = "archived" =>
          log'[r].body = "archived" /\ log'[r].key = log[r].key]_vars

\* The backlog drains, however it falls into days, batches and runs.
BacklogDrains == \A r \in Rows : log[r].body = "old" ~> log[r].body = "archived"

=============================================================================
