-------------------------- MODULE OperationsProofs --------------------------
(***************************************************************************)
(* Proofs about what runs beside the requests: the archiver (Archive), the   *)
(* watches and the per-IP buckets (Monitors) and the operators' probes       *)
(* (Probes).  No body is lost on its way from the table to the bucket and a  *)
(* row's key never moves; the watches tell once of every trouble; the lazy   *)
(* buckets grant exactly what buckets that refill by themselves would; a     *)
(* probe reports of the worlds it ran in.  For every number of               *)
(* rows, days, runs and mishaps, every rate, burst and threshold, and every  *)
(* set of operators, keys and worlds.                                        *)
(***************************************************************************)
EXTENDS Archive, Monitors, Probes, FiniteSetTheorems, WellFoundedInduction, TLAPS

(***************************************************************************)
(* The archiver, module Archive.                                           *)
(***************************************************************************)

-----------------------------------------------------------------------------
(* What holds of rows, runs and the reader.                                 *)

RowsOK ==
    \A r \in Rows :
        /\ log[r].body # "absent" => log[r].day \in Days
        /\ log[r].key # None <=> log[r].body = "archived"

\* A batch that is under way has rows; once put, its object holds them.
RunOK(p) ==
    run[p].phase \in {"put", "mark"} =>
        /\ run[p].batch # {}
        /\ \A r \in run[p].batch : log[r].body \in {"old", "archived"}
        /\ run[p].phase = "mark" /\ run[p].mode = "real" /\ overwritten = "no" =>
              Key(p) \in DOMAIN objects /\ objects[Key(p)] = Part(p)

Kept(r) ==
    overwritten = "no" /\ log[r].body = "archived" =>
        log[r].key \in DOMAIN objects /\ r \in objects[log[r].key] /\ log[r].key[1] = log[r].day

ReaderOK ==
    /\ reader.phase # "idle" =>
        reader.row \in Rows /\ log[reader.row].body = "archived" /\ reader.key = log[reader.row].key
    /\ overwritten = "no" => reader.phase # "missed"

ArchiveInv ==
    /\ TypeOK /\ RowsOK /\ ReaderOK
    /\ \A p \in Runs : RunOK(p)
    /\ \A r \in Rows : Kept(r)

-----------------------------------------------------------------------------
(* The day a run puts next.                                                 *)

\* Of days there is an earliest.
LEMMA EarliestDay ==
    ASSUME NEW D, D \subseteq Nat, D # {}
    PROVE  \E d \in D : \A e \in D : d <= e
<1> DEFINE R == OpToRel(<, Nat)
<1>1. \A x \in Nat, y \in Nat : <<x, y>> \in R <=> x < y
  BY DEF OpToRel
<1>2. PICK x \in D : \A y \in D : <<y, x>> \notin R
  BY NatLessThanWellFounded, WFMin
<1>3. ASSUME NEW y \in D PROVE ~(y < x)
  <2>1. x \in Nat /\ y \in Nat /\ <<y, x>> \notin R
    BY <1>2
  <2> HIDE DEF R
  <2> QED
    BY <1>1, <2>1, Zenon
<1> QED
  BY <1>3

\* A batch has a next day, and its key is of that day.
LEMMA NextDay ==
    ASSUME TypeOK, RowsOK, NEW p \in Runs, run[p].batch # {},
           \A r \in run[p].batch : log[r].body \in {"old", "archived"}
    PROVE  /\ Part(p) # {} /\ Part(p) \subseteq run[p].batch /\ run[p].batch \subseteq Rows
           /\ Key(p) \in ArchiveKeys
           /\ \A r \in Part(p) : Key(p)[1] = log[r].day
<1>1. run[p] \in [phase : {"idle", "select", "put", "mark"}, mode : {"real", "dry"},
                  batches : 0..(MaxBatches - 1), now : Nat, batch : SUBSET Rows, seq : Nat]
  BY DEF TypeOK
<1>2. \A r \in run[p].batch : log[r].day \in Days /\ log[r].day \in Nat
  BY <1>1, ArchiveAssumption DEF RowsOK
<1> DEFINE D == {log[r].day : r \in run[p].batch}
<1>3. PICK d \in D : \A e \in D : d <= e
  <2>1. D \subseteq Nat /\ D # {}
    BY <1>2
  <2> QED
    BY <2>1, EarliestDay
<1>4. PICK r \in run[p].batch : log[r].day = d
  BY <1>3
<1>5. r \in Part(p)
  BY <1>3, <1>4 DEF Part
<1>6. \A s \in Part(p), t \in Part(p) : log[s].day = log[t].day
  BY <1>2 DEF Part
<1> DEFINE c == CHOOSE s \in Part(p) : TRUE
<1>7. c \in Part(p)
  BY <1>5
<1>8. Part(p) \subseteq run[p].batch
  BY DEF Part
<1>9. Key(p) = <<log[c].day, run[p].now, run[p].seq>>
  BY DEF Key
<1> HIDE DEF c
<1> QED
  BY <1>1, <1>2, <1>5, <1>6, <1>7, <1>8, <1>9 DEF ArchiveKeys

\* What a run puts next depends on its batch and its rows' days.
LEMMA SamePart ==
    ASSUME NEW p \in Runs, run'[p] = run[p], \A r \in run[p].batch : log'[r].day = log[r].day
    PROVE  Part(p)' = Part(p) /\ (Part(p) # {} => Key(p)' = Key(p))
<1>1. Part(p)' = Part(p)
  BY DEF Part
<1>2. ASSUME Part(p) # {} PROVE Key(p)' = Key(p)
  <2> DEFINE c == CHOOSE r \in Part(p) : TRUE
  <2>1. c \in run[p].batch
    <3>1. c \in Part(p)
      BY <1>2
    <3> QED
      BY <3>1 DEF Part
  <2>2. Key(p) = <<log[c].day, run[p].now, run[p].seq>> /\ Key(p)' = <<log'[c].day, run'[p].now, run'[p].seq>>
    BY <1>1 DEF Key
  <2> HIDE DEF c
  <2> QED
    BY <2>1, <2>2
<1> QED
  BY <1>1, <1>2

-----------------------------------------------------------------------------
(* What every step keeps.                                                   *)

\* A logged row keeps its day, an archived one everything.
LogKept ==
    \A r \in Rows :
        /\ log[r].body \in {"old", "archived"} =>
              log'[r].body \in {"old", "archived"} /\ log'[r].day = log[r].day
        /\ log[r].body = "archived" => log'[r] = log[r]

\* Objects stay as they are, unless one is overwritten by other rows.
ObjectsKept ==
    overwritten' = "no" =>
        overwritten = "no" /\ \A k \in DOMAIN objects : k \in DOMAIN objects' /\ objects'[k] = objects[k]

LEMMA StepKeepsLog == TypeOK /\ [Next]_vars => LogKept
<1> SUFFICES ASSUME TypeOK, [Next]_vars PROVE LogKept
  OBVIOUS
<1>0. log \in [Rows -> [body : {"absent", "young", "old", "archived"},
                        day : Days \cup {0}, key : ArchiveKeys \cup {None}]]
  BY DEF TypeOK
<1>1. CASE log' = log
  BY <1>1 DEF LogKept
<1>2. ASSUME NEW r \in Rows, NEW d \in Days, Record(r, d) PROVE LogKept
  BY <1>0, <1>2 DEF LogKept, Record
<1>3. ASSUME NEW r \in Rows, Age(r) PROVE LogKept
  BY <1>0, <1>3 DEF LogKept, Age
<1>4. ASSUME NEW p \in Runs, Mark(p) PROVE LogKept
  BY <1>0, <1>1, <1>4 DEF LogKept, Mark, Marked
<1> QED
  BY <1>1, <1>2, <1>3, <1>4 DEF Next, GetRow, Start, Step, Select, Put, Abort, ReadObject, vars

LEMMA StepKeepsObjects == TypeOK /\ [Next]_vars => ObjectsKept
<1> SUFFICES ASSUME TypeOK, [Next]_vars PROVE ObjectsKept
  OBVIOUS
<1>1. CASE UNCHANGED <<objects, overwritten>>
  BY <1>1 DEF ObjectsKept
<1>2. ASSUME NEW p \in Runs, Put(p) PROVE ObjectsKept
  <2>1. CASE run[p].mode = "dry"
    BY <1>1, <1>2, <2>1 DEF Put
  <2>2. CASE run[p].mode # "dry"
    <3>1. /\ objects' = [k \in DOMAIN objects \cup {Key(p)} |-> IF k = Key(p) THEN Part(p) ELSE objects[k]]
          /\ overwritten' = IF Key(p) \in DOMAIN objects /\ objects[Key(p)] # Part(p)
                            THEN "yes" ELSE overwritten
      BY <1>2, <2>2 DEF Put
    <3> QED
      BY <3>1 DEF ObjectsKept
  <2> QED
    BY <2>1, <2>2
<1> QED
  BY <1>1, <1>2 DEF Next, Record, Age, GetRow, Start, Step, Select, Mark, Abort, ReadObject, vars

\* Whatever step is taken: runs that it leaves alone, rows that were archived
\* before it, and a reader it leaves alone.
LEMMA RunStays ==
    ASSUME ArchiveInv, LogKept, ObjectsKept, NEW p \in Runs, run'[p] = run[p]
    PROVE  RunOK(p)'
<1> SUFFICES ASSUME run[p].phase \in {"put", "mark"} PROVE RunOK(p)'
  BY DEF RunOK
<1>1. run[p].batch # {} /\ run[p].batch \subseteq Rows /\ \A r \in run[p].batch : log[r].body \in {"old", "archived"}
  BY DEF ArchiveInv, RunOK, TypeOK
<1>2. \A r \in run[p].batch : log'[r].body \in {"old", "archived"} /\ log'[r].day = log[r].day
  BY <1>1 DEF LogKept
<1>3. Part(p) # {}
  BY <1>1, NextDay DEF ArchiveInv
<1>4. Part(p)' = Part(p) /\ Key(p)' = Key(p)
  BY <1>2, <1>3, SamePart
<1> QED
  BY <1>1, <1>2, <1>4 DEF ArchiveInv, RunOK, ObjectsKept

LEMMA ArchivedStays ==
    ASSUME ArchiveInv, LogKept, ObjectsKept, NEW r \in Rows, log[r].body = "archived"
    PROVE  Kept(r)'
  BY DEF ArchiveInv, LogKept, ObjectsKept, Kept

LEMMA ReaderStays ==
    ASSUME ArchiveInv, LogKept, ObjectsKept, reader' = reader
    PROVE  ReaderOK'
<1>1. reader.phase # "idle" => log'[reader.row] = log[reader.row]
  BY DEF ArchiveInv, ReaderOK, LogKept
<1>2. overwritten' = "no" => overwritten = "no"
  BY DEF ObjectsKept
<1> QED
  BY <1>1, <1>2 DEF ArchiveInv, ReaderOK

-----------------------------------------------------------------------------
(* The steps.                                                               *)

RunType == [phase : {"idle", "select", "put", "mark"}, mode : {"real", "dry"},
            batches : 0..(MaxBatches - 1), now : Nat, batch : SUBSET Rows, seq : Nat]

LEMMA IdleType == IdleRun \in RunType
  BY ArchiveAssumption DEF IdleRun, RunType

LEMMA LogStep ==
    ASSUME ArchiveInv, LogKept, ObjectsKept,
           \/ \E r \in Rows, d \in Days : Record(r, d)
           \/ \E r \in Rows : Age(r)
    PROVE  ArchiveInv'
<1>1. UNCHANGED <<objects, run, stamp, overwritten, reader, mishaps>>
  BY DEF Record, Age
<1>2. TypeOK' /\ RowsOK'
  <2>0. log \in [Rows -> [body : {"absent", "young", "old", "archived"},
                          day : Days \cup {0}, key : ArchiveKeys \cup {None}]]
    BY DEF ArchiveInv, TypeOK
  <2>1. ASSUME NEW r \in Rows, NEW d \in Days, Record(r, d)
        PROVE  /\ log' \in [Rows -> [body : {"absent", "young", "old", "archived"},
                                     day : Days \cup {0}, key : ArchiveKeys \cup {None}]]
               /\ RowsOK'
    BY <2>0, <2>1 DEF Record, ArchiveInv, RowsOK
  <2>2. ASSUME NEW r \in Rows, Age(r)
        PROVE  /\ log' \in [Rows -> [body : {"absent", "young", "old", "archived"},
                                     day : Days \cup {0}, key : ArchiveKeys \cup {None}]]
               /\ RowsOK'
    BY <2>0, <2>2 DEF Age, ArchiveInv, RowsOK
  <2> QED
    BY <1>1, <2>1, <2>2 DEF ArchiveInv, TypeOK
<1>3. \A r \in Rows : log[r].body # "archived" => log'[r].body # "archived"
  BY DEF Record, Age, ArchiveInv, TypeOK
<1>4. \A r \in Rows : Kept(r)'
  <2>1. \A r \in Rows : log'[r].body # "archived" => Kept(r)'
    BY DEF Kept
  <2> QED
    BY <1>3, <2>1, ArchivedStays
<1> QED
  BY <1>1, <1>2, <1>4, RunStays, ReaderStays DEF ArchiveInv

\* A run's step that leaves the table and the reader alone.
LEMMA RunStep ==
    ASSUME ArchiveInv, LogKept, ObjectsKept, NEW p \in Runs, NEW new \in RunType,
           run' = [run EXCEPT ![p] = new], UNCHANGED <<log, reader>>, stamp' \in Nat,
           DOMAIN objects' \subseteq ArchiveKeys, \A k \in DOMAIN objects' : objects'[k] \in SUBSET Rows,
           overwritten' \in {"no", "yes"}, mishaps' \in 0..MaxMishaps,
           RunOK(p)'
    PROVE  ArchiveInv'
<1>1. run' \in [Runs -> RunType]
  BY DEF ArchiveInv, TypeOK, RunType
<1>2. TypeOK' /\ RowsOK'
  BY <1>1 DEF ArchiveInv, TypeOK, RowsOK, RunType
<1>3. \A q \in Runs : RunOK(q)'
  <2>1. \A q \in Runs \ {p} : run'[q] = run[q]
    BY DEF ArchiveInv, TypeOK
  <2> QED
    BY <2>1, RunStays
<1>4. \A r \in Rows : Kept(r)'
  <2>1. \A r \in Rows : log'[r].body # "archived" => Kept(r)'
    BY DEF Kept
  <2> QED
    BY <2>1, ArchivedStays
<1> QED
  BY <1>2, <1>3, <1>4, ReaderStays DEF ArchiveInv

\* Starting, ending and failing: a run that has no batch.
LEMMA StartOrEnd ==
    ASSUME ArchiveInv, LogKept, ObjectsKept, NEW p \in Runs, NEW new \in RunType,
           new.phase \in {"idle", "select"}, run' = [run EXCEPT ![p] = new],
           UNCHANGED <<log, objects, stamp, overwritten, reader>>, mishaps' \in 0..MaxMishaps
    PROVE  ArchiveInv'
<1>1. RunOK(p)'
  BY DEF RunOK, ArchiveInv, TypeOK
<1> QED
  BY <1>1, RunStep DEF ArchiveInv, TypeOK

LEMMA SelectKeeps ==
    ASSUME ArchiveInv, LogKept, ObjectsKept, NEW p \in Runs, Select(p)
    PROVE  ArchiveInv'
<1>0. run[p] \in RunType /\ UNCHANGED <<log, objects, overwritten, reader, mishaps>>
  BY DEF ArchiveInv, TypeOK, RunType, Select
<1>1. CASE Eligible = {} /\ run' = [run EXCEPT ![p] = IdleRun] /\ UNCHANGED stamp
  BY <1>0, <1>1, IdleType, StartOrEnd DEF IdleRun, ArchiveInv, TypeOK
<1>2. CASE Eligible # {} /\ \E b \in SUBSET Eligible : IsBatch(b)
             /\ \/ run' = [run EXCEPT ![p] = [@ EXCEPT !.phase = "put", !.batch = b]] /\ stamp' = stamp
                \/ /\ stamp' \in {stamp + 1} \cup ({stamp} \ {0, run[p].now})
                   /\ run' = [run EXCEPT ![p] = [@ EXCEPT !.phase = "put", !.batch = b, !.seq = 0, !.now = stamp']]
  <2>1. PICK b \in SUBSET Eligible : IsBatch(b)
             /\ \/ run' = [run EXCEPT ![p] = [@ EXCEPT !.phase = "put", !.batch = b]] /\ stamp' = stamp
                \/ /\ stamp' \in {stamp + 1} \cup ({stamp} \ {0, run[p].now})
                   /\ run' = [run EXCEPT ![p] = [@ EXCEPT !.phase = "put", !.batch = b, !.seq = 0, !.now = stamp']]
    BY <1>2
  <2>2. b # {}
    BY <1>2, <2>1, FS_EmptySet, ArchiveAssumption DEF IsBatch
  <2>3. b \in SUBSET Rows /\ \A r \in b : log[r].body = "old"
    BY DEF Eligible
  <2>4. stamp' \in Nat
    BY <2>1 DEF ArchiveInv, TypeOK
  <2>5. PICK new \in RunType : run' = [run EXCEPT ![p] = new] /\ new.phase = "put" /\ new.batch = b
    <3>1. [run[p] EXCEPT !.phase = "put", !.batch = b] \in RunType
      BY <1>0, <2>3 DEF RunType
    <3>2. [run[p] EXCEPT !.phase = "put", !.batch = b, !.seq = 0, !.now = stamp'] \in RunType
      BY <1>0, <2>3, <2>4 DEF RunType
    <3>3. \A new \in RunType : run' = [run EXCEPT ![p] = new] => run'[p] = new
      BY DEF ArchiveInv, TypeOK
    <3> QED
      BY <1>0, <2>1, <3>1, <3>2 DEF RunType
  <2>6. run'[p].phase = "put" /\ run'[p].batch = b
    BY <2>5 DEF ArchiveInv, TypeOK
  <2>7. RunOK(p)'
    BY <1>0, <2>2, <2>3, <2>6 DEF RunOK
  <2> QED
    BY <1>0, <2>4, <2>5, <2>7, RunStep DEF ArchiveInv, TypeOK
<1> QED
  BY <1>1, <1>2 DEF Select

LEMMA PutKeeps ==
    ASSUME ArchiveInv, LogKept, ObjectsKept, NEW p \in Runs, Put(p)
    PROVE  ArchiveInv'
<1>0. run[p] \in RunType /\ run[p].phase = "put" /\ UNCHANGED <<log, stamp, reader, mishaps>>
  BY DEF ArchiveInv, TypeOK, RunType, Put
<1> DEFINE new == [run[p] EXCEPT !.phase = "mark"]
<1>1. new \in RunType /\ run' = [run EXCEPT ![p] = new] /\ new.mode = run[p].mode /\ new.batch = run[p].batch
  BY <1>0 DEF RunType, Put
<1>2. /\ run'[p].phase = "mark" /\ run'[p].mode = run[p].mode /\ run'[p].batch = run[p].batch
      /\ run'[p].now = run[p].now /\ run'[p].seq = run[p].seq
  BY <1>0, <1>1 DEF ArchiveInv, TypeOK, RunType
<1>3. run[p].batch # {} /\ \A r \in run[p].batch : log[r].body \in {"old", "archived"}
  BY <1>0 DEF ArchiveInv, RunOK
<1>4. Part(p) # {} /\ Part(p) \subseteq Rows /\ Key(p) \in ArchiveKeys
  BY <1>3, NextDay DEF ArchiveInv
<1>5. Part(p)' = Part(p) /\ Key(p)' = Key(p)
  BY <1>0, <1>2 DEF Part, Key
<1>6. CASE run[p].mode = "dry"
  <2>1. UNCHANGED <<objects, overwritten>>
    BY <1>6 DEF Put
  <2>2. RunOK(p)'
    BY <1>0, <1>2, <1>3, <1>6 DEF RunOK
  <2> QED
    BY <1>0, <1>1, <2>1, <2>2, RunStep DEF ArchiveInv, TypeOK
<1>7. CASE run[p].mode # "dry"
  <2>1. /\ objects' = [k \in DOMAIN objects \cup {Key(p)} |-> IF k = Key(p) THEN Part(p) ELSE objects[k]]
        /\ overwritten' = IF Key(p) \in DOMAIN objects /\ objects[Key(p)] # Part(p)
                          THEN "yes" ELSE overwritten
    BY <1>7 DEF Put
  <2>2. RunOK(p)'
    BY <1>0, <1>2, <1>3, <1>5, <2>1 DEF RunOK
  <2>3. /\ DOMAIN objects' \subseteq ArchiveKeys
        /\ \A k \in DOMAIN objects' : objects'[k] \in SUBSET Rows
        /\ overwritten' \in {"no", "yes"}
    BY <1>4, <2>1 DEF ArchiveInv, TypeOK
  <2> HIDE DEF new
  <2> QED
    BY <1>0, <1>1, <2>2, <2>3, RunStep DEF ArchiveInv, TypeOK
<1> QED
  BY <1>6, <1>7

LEMMA MarkKeeps ==
    ASSUME ArchiveInv, LogKept, ObjectsKept, NEW p \in Runs, Mark(p)
    PROVE  ArchiveInv'
<1>0. run[p] \in RunType /\ run[p].phase = "mark" /\ UNCHANGED <<objects, stamp, overwritten, reader, mishaps>>
  BY DEF ArchiveInv, TypeOK, RunType, Mark
<1>1. run[p].batch # {} /\ \A r \in run[p].batch : log[r].body \in {"old", "archived"}
  BY <1>0 DEF ArchiveInv, RunOK
<1>2. /\ Part(p) \subseteq run[p].batch /\ run[p].batch \subseteq Rows /\ Key(p) \in ArchiveKeys
      /\ \A r \in Part(p) : Key(p)[1] = log[r].day
  BY <1>1, NextDay DEF ArchiveInv
<1>3. log \in [Rows -> [body : {"absent", "young", "old", "archived"},
                        day : Days \cup {0}, key : ArchiveKeys \cup {None}]]
  BY DEF ArchiveInv, TypeOK
<1>4. \A r \in Rows :
        IF run[p].mode = "real" /\ r \in Part(p) /\ log[r].body # "archived"
        THEN log'[r].body = "archived" /\ log'[r].key = Key(p) /\ log'[r].day = log[r].day
        ELSE log'[r] = log[r]
  BY <1>0, <1>3 DEF Mark, Marked, RunType
<1>5. log' \in [Rows -> [body : {"absent", "young", "old", "archived"},
                         day : Days \cup {0}, key : ArchiveKeys \cup {None}]]
  BY <1>2, <1>3 DEF Mark, Marked
<1>6. RowsOK'
  <2>1. \A r \in Part(p) : log[r].body # "absent"
    BY <1>1, <1>2
  <2>2. Key(p) # None
    BY <1>2, ArchiveAssumption DEF ArchiveKeys
  <2> QED
    BY <1>4, <2>1, <2>2 DEF ArchiveInv, RowsOK
<1>7. \A r \in Rows : Kept(r)'
  <2> SUFFICES ASSUME NEW r \in Rows, log'[r].body = "archived", overwritten' = "no" PROVE Kept(r)'
    BY DEF Kept
  <2>1. CASE log[r].body = "archived"
    BY <2>1, ArchivedStays
  <2>2. CASE log[r].body # "archived"
    <3>1. run[p].mode = "real" /\ r \in Part(p) /\ log'[r].key = Key(p) /\ log'[r].day = log[r].day
      BY <1>4, <2>2
    <3>2. Key(p) \in DOMAIN objects /\ objects[Key(p)] = Part(p)
      BY <1>0, <3>1 DEF ArchiveInv, RunOK
    <3> QED
      BY <1>0, <1>2, <3>1, <3>2 DEF Kept
  <2> QED
    BY <2>1, <2>2
<1> DEFINE rest == run[p].batch \ Part(p)
           done == run[p].batches + 1
           new == IF rest # {} THEN [run[p] EXCEPT !.phase = "put", !.batch = rest,
                                                   !.seq = run[p].seq + 1]
                  ELSE IF run[p].mode = "dry" \/ Exhausted(done) THEN IdleRun
                  ELSE [run[p] EXCEPT !.phase = "select", !.batch = {}, !.batches = done]
<1>8. new \in RunType /\ run' = [run EXCEPT ![p] = new]
  <2>1. [run[p] EXCEPT !.phase = "put", !.batch = rest, !.seq = run[p].seq + 1] \in RunType
    <3>1. rest \in SUBSET Rows /\ run[p].seq + 1 \in Nat
      BY <1>0, <1>2 DEF RunType
    <3> HIDE DEF rest
    <3> QED
      BY <1>0, <3>1 DEF RunType
  <2>2. ~Exhausted(done) => [run[p] EXCEPT !.phase = "select", !.batch = {}, !.batches = done] \in RunType
    <3>1. ~Exhausted(done) => done \in 0..(MaxBatches - 1)
      BY <1>0, ArchiveAssumption DEF RunType, Exhausted
    <3>2. {} \in SUBSET Rows
      OBVIOUS
    <3> HIDE DEF done
    <3> QED
      BY <1>0, <3>1, <3>2 DEF RunType
  <2>3. run' = [run EXCEPT ![p] = new]
    BY DEF Mark
  <2> QED
    BY <2>1, <2>2, <2>3, IdleType
<1>9. new.phase = "put" => new.batch = rest /\ rest # {}
  BY <1>0 DEF RunType, IdleRun
<1>10. new.phase # "mark"
  BY <1>0 DEF RunType, IdleRun
<1> HIDE DEF new
<1>11. run' \in [Runs -> RunType] /\ run'[p] = new
  BY <1>8 DEF ArchiveInv, TypeOK, RunType
<1>12. RunOK(p)'
  <2>1. \A r \in run[p].batch : log'[r].body \in {"old", "archived"}
    BY <1>1, <1>2 DEF LogKept
  <2> QED
    BY <1>9, <1>10, <1>11, <2>1 DEF RunOK
<1>13. \A q \in Runs : RunOK(q)'
  <2>1. \A q \in Runs \ {p} : run'[q] = run[q]
    BY <1>8 DEF ArchiveInv, TypeOK
  <2> QED
    BY <1>12, <2>1, RunStays
<1>14. TypeOK'
  BY <1>0, <1>5, <1>11 DEF ArchiveInv, TypeOK, RunType
<1> QED
  BY <1>0, <1>6, <1>7, <1>13, <1>14, ReaderStays DEF ArchiveInv

LEMMA ReadKeeps ==
    ASSUME ArchiveInv, LogKept, ObjectsKept, ReadObject \/ \E r \in Rows : GetRow(r)
    PROVE  ArchiveInv'
<1>1. UNCHANGED <<log, objects, run, stamp, overwritten, mishaps>>
  BY DEF ReadObject, GetRow
<1>2. /\ reader' \in [phase : {"idle", "reading", "missed"}, row : Rows \cup {None}, key : ArchiveKeys \cup {None}]
      /\ ReaderOK'
  <2>1. CASE ReadObject
    <3>1. reader.row \in Rows /\ log[reader.row].body = "archived" /\ reader.key = log[reader.row].key
      BY <2>1 DEF ReadObject, ArchiveInv, ReaderOK
    <3>2. overwritten = "no" => reader.key \in DOMAIN objects /\ reader.row \in objects[reader.key]
      BY <3>1 DEF ArchiveInv, Kept
    <3> QED
      BY <1>1, <2>1, <3>1, <3>2 DEF ReadObject, ArchiveInv, TypeOK, ReaderOK, NoReader
  <2>2. ASSUME NEW r \in Rows, GetRow(r)
        PROVE  /\ reader' \in [phase : {"idle", "reading", "missed"}, row : Rows \cup {None},
                               key : ArchiveKeys \cup {None}]
               /\ ReaderOK'
    BY <1>1, <2>2 DEF GetRow, ArchiveInv, TypeOK, ReaderOK, RowsOK
  <2> QED
    BY <2>1, <2>2
<1>3. TypeOK' /\ RowsOK'
  BY <1>1, <1>2 DEF ArchiveInv, TypeOK, RowsOK
<1>4. \A r \in Rows : Kept(r)'
  BY <1>1 DEF ArchiveInv, Kept
<1> QED
  BY <1>1, <1>2, <1>3, <1>4, RunStays DEF ArchiveInv

LEMMA InitHolds == Init => ArchiveInv
<1> SUFFICES ASSUME Init PROVE ArchiveInv
  OBVIOUS
<1>1. TypeOK
  BY IdleType, ArchiveAssumption DEF Init, TypeOK, RunType, NoReader
<1> QED
  BY <1>1 DEF Init, ArchiveInv, RowsOK, RunOK, Kept, ReaderOK, NoReader, IdleRun

LEMMA StepHolds == ArchiveInv /\ [Next]_vars => ArchiveInv'
<1> SUFFICES ASSUME ArchiveInv, [Next]_vars PROVE ArchiveInv'
  OBVIOUS
<1>0. LogKept /\ ObjectsKept
  BY StepKeepsLog, StepKeepsObjects DEF ArchiveInv
<1>1. ASSUME NEW p \in Runs, NEW mode \in {"real", "dry"}, Start(p, mode) PROVE ArchiveInv'
  <2>1. [IdleRun EXCEPT !.phase = "select", !.mode = mode] \in RunType
    BY IdleType DEF RunType
  <2>2. [IdleRun EXCEPT !.phase = "select", !.mode = mode].phase = "select"
    BY DEF IdleRun
  <2> QED
    BY <1>0, <1>1, <2>1, <2>2, StartOrEnd DEF Start, ArchiveInv, TypeOK
<1>2. ASSUME NEW p \in Runs, Abort(p) PROVE ArchiveInv'
  <2>1. mishaps' \in 0..MaxMishaps
    BY <1>2, ArchiveAssumption DEF Abort, ArchiveInv, TypeOK
  <2>2. IdleRun.phase = "idle"
    BY DEF IdleRun
  <2> QED
    BY <1>0, <1>2, <2>1, <2>2, IdleType, StartOrEnd DEF Abort
<1>3. CASE UNCHANGED vars
  BY <1>3, <1>0, RunStays, ReaderStays DEF vars, ArchiveInv, TypeOK, RowsOK, Kept
<1> QED
  BY <1>0, <1>1, <1>2, <1>3, LogStep, SelectKeeps, PutKeeps, MarkKeeps, ReadKeeps
     DEF Next, Step, Runs

\* Rows, objects, runs and the reader keep their types; a run stops at its
\* last batch (src/usage/archive-cli.ts, the loop).
THEOREM TypeCorrect == Spec => []TypeOK
<1>1. ArchiveInv => TypeOK
  BY DEF ArchiveInv
<1> QED
  BY <1>1, InitHolds, StepHolds, PTL DEF Spec

\* A body that has left the table is where its row points to, and whoever
\* reads it back finds it, unless two runs read the same millisecond and had
\* different rows (src/usage/messages-log-archive.ts:150-175).
THEOREM NoBodyIsLost == Spec => []BodiesSurvive
<1>1. ArchiveInv => BodiesSurvive
  BY DEF ArchiveInv, BodiesSurvive, Kept, ReaderOK
<1> QED
  BY <1>1, InitHolds, StepHolds, PTL DEF Spec

\* Whatever runs overlap, a row is archived once (src/usage/messages-log-postgres.ts,
\* markArchived).
THEOREM KeysStay == Spec => KeysNeverMove
<1>1. TypeOK /\ [Next]_vars => [\A r \in Rows : log[r].body = "archived" =>
                                 log'[r].body = "archived" /\ log'[r].key = log[r].key]_vars
  BY StepKeepsLog DEF LogKept
<1> QED
  BY <1>1, TypeCorrect, PTL DEF Spec, KeysNeverMove

(***************************************************************************)
(* The watches and the buckets, module Monitors.                           *)
(***************************************************************************)

-----------------------------------------------------------------------------
(* The watches.                                                             *)

\* What a watch remembers is what happened, as far as it is counted.
WatchesAgree ==
    /\ memory.armed \in BOOLEAN /\ pressure.high \in BOOLEAN
    /\ memory.armed <=> ~pressure.high
    /\ tls.failures \in 0..MaxSeen /\ outage.seen = tls.failures
    /\ tls.failureAlerted <=> outage.seen >= FailuresBeforeAlert
    /\ tls.failureAlerted \in BOOLEAN /\ tls.expiryAlerted \in BOOLEAN
    /\ late.seen \in BOOLEAN
    /\ tls.expiryAlerted <=> late.seen
    /\ memory = [armed |-> memory.armed]
    /\ tls = [failures |-> tls.failures, failureAlerted |-> tls.failureAlerted,
              expiryAlerted |-> tls.expiryAlerted]

WatchInv == WatchesAgree /\ MonitorsTellOnce

\* The smaller of two numbers.
LEMMA LeastIs ==
    ASSUME NEW a \in Nat, NEW b \in Nat
    PROVE  Least(a, b) = IF a <= b THEN a ELSE b
<1> DEFINE m == IF a <= b THEN a ELSE b
           IsMin(x) == x \in {a, b} /\ \A y \in {a, b} : x <= y
<1>1. IsMin(m)
  OBVIOUS
<1>2. \A x : IsMin(x) => x = m
  OBVIOUS
<1>3. Least(a, b) = CHOOSE x \in {a, b} : \A y \in {a, b} : x <= y
  BY DEF Least, Min
<1> QED
  BY <1>1, <1>2, <1>3

\* What is told at most once is counted as it is.
LEMMA CountsOnce == \A n \in {0, 1} : Least(n, 2) = n
  BY LeastIs

LEMMA SampleKeeps ==
    ASSUME WatchInv, NEW level \in {"low", "mid", "high"}, Sample(level)
    PROVE  WatchInv'
<1> DEFINE result == EvaluatePressure(memory.armed, level)
<1>1. /\ result.armed = (IF level = "high" THEN FALSE ELSE IF level = "low" THEN TRUE ELSE memory.armed)
      /\ result.alert = (memory.armed /\ level = "high")
  BY DEF EvaluatePressure, WatchInv, WatchesAgree
<1>2. /\ memory' = [armed |-> result.armed]
      /\ pressure' = IF level = "low" THEN [high |-> FALSE, told |-> 0]
                     ELSE [high |-> pressure.high \/ level = "high",
                           told |-> Least(pressure.told + (IF result.alert THEN 1 ELSE 0), 2)]
      /\ UNCHANGED <<tls, outage, late>>
  BY DEF Sample
<1> HIDE DEF result
<1>3. CASE level = "low"
  BY <1>1, <1>2, <1>3 DEF WatchInv, WatchesAgree, MonitorsTellOnce
<1>4. CASE level # "low"
  <2>1. pressure.told = (IF pressure.high THEN 1 ELSE 0) /\ (memory.armed <=> ~pressure.high)
    BY DEF WatchInv, WatchesAgree, MonitorsTellOnce
  <2>2. pressure'.told = IF pressure.high \/ level = "high" THEN 1 ELSE 0
    <3> DEFINE n == pressure.told + (IF result.alert THEN 1 ELSE 0)
    <3>1. n = (IF pressure.high \/ level = "high" THEN 1 ELSE 0) /\ n \in {0, 1}
      BY <1>1, <2>1 DEF WatchInv, WatchesAgree
    <3>2. pressure'.told = Least(n, 2)
      BY <1>2, <1>4
    <3> HIDE DEF n
    <3> QED
      BY <3>1, <3>2, CountsOnce
  <2> QED
    BY <1>1, <1>2, <1>4, <2>1, <2>2 DEF WatchInv, WatchesAgree, MonitorsTellOnce
<1> QED
  BY <1>3, <1>4

LEMMA CheckFailedKeeps == WatchInv /\ CheckFailed => WatchInv'
<1> SUFFICES ASSUME WatchInv, CheckFailed PROVE WatchInv'
  OBVIOUS
<1> DEFINE failures == Least(tls.failures + 1, MaxSeen)
           tell     == failures >= FailuresBeforeAlert /\ ~tls.failureAlerted
<1>1. /\ tls' = [tls EXCEPT !.failures = failures, !.failureAlerted = @ \/ tell]
      /\ outage' = [seen |-> Least(outage.seen + 1, MaxSeen),
                    told |-> Least(outage.told + (IF tell THEN 1 ELSE 0), 2)]
      /\ UNCHANGED <<memory, pressure, late>>
  BY DEF CheckFailed
<1>2. /\ tls.failures \in 0..MaxSeen /\ outage.seen = tls.failures /\ MaxSeen \in Nat
      /\ FailuresBeforeAlert \in Nat /\ MaxSeen > FailuresBeforeAlert
      /\ tls.failureAlerted \in BOOLEAN
      /\ tls.failureAlerted <=> tls.failures >= FailuresBeforeAlert
      /\ outage.told = IF tls.failures >= FailuresBeforeAlert THEN 1 ELSE 0
  BY MonitorsAssumption DEF WatchInv, WatchesAgree, MonitorsTellOnce
<1>3. failures = IF tls.failures + 1 <= MaxSeen THEN tls.failures + 1 ELSE MaxSeen
  BY <1>2, LeastIs
<1>4. failures \in 0..MaxSeen /\ (tls.failureAlerted \/ tell <=> failures >= FailuresBeforeAlert)
  BY <1>2, <1>3
<1>5. outage'.told = (IF failures >= FailuresBeforeAlert THEN 1 ELSE 0) /\ outage'.seen = failures
  <2> DEFINE n == outage.told + (IF tell THEN 1 ELSE 0)
  <2>1. n = (IF failures >= FailuresBeforeAlert THEN 1 ELSE 0) /\ n \in {0, 1}
    BY <1>2, <1>3, <1>4
  <2>2. outage'.told = Least(n, 2) /\ outage'.seen = failures
    BY <1>1, <1>2
  <2> HIDE DEF n
  <2> QED
    BY <2>1, <2>2, CountsOnce
<1>6. /\ tls'.failures = failures /\ tls'.failureAlerted = (tls.failureAlerted \/ tell)
      /\ tls'.expiryAlerted = tls.expiryAlerted
      /\ tls' = [failures |-> tls'.failures, failureAlerted |-> tls'.failureAlerted,
                 expiryAlerted |-> tls'.expiryAlerted]
  BY <1>1 DEF WatchInv, WatchesAgree
<1> HIDE DEF failures, tell
<1>7. tls'.failureAlerted \in BOOLEAN /\ (tls'.failureAlerted <=> failures >= FailuresBeforeAlert)
  BY <1>2, <1>4, <1>6
<1> QED
  BY <1>1, <1>4, <1>5, <1>6, <1>7 DEF WatchInv, WatchesAgree, MonitorsTellOnce

LEMMA CheckedKeeps == WatchInv /\ (CheckTimely \/ CheckLate) => WatchInv'
<1> SUFFICES ASSUME WatchInv, CheckTimely \/ CheckLate PROVE WatchInv'
  OBVIOUS
<1>0. 0 \in 0..MaxSeen /\ ~(0 >= FailuresBeforeAlert)
  BY MonitorsAssumption
<1>1. CASE CheckTimely
  BY <1>0, <1>1 DEF CheckTimely, WatchInv, WatchesAgree, MonitorsTellOnce
<1>2. CASE CheckLate
  <2>1. late'.told = 1
    <3> DEFINE n == late.told + (IF tls.expiryAlerted THEN 0 ELSE 1)
    <3>1. n = 1
      BY DEF WatchInv, WatchesAgree, MonitorsTellOnce
    <3>2. late'.told = Least(n, 2)
      BY <1>2 DEF CheckLate
    <3> HIDE DEF n
    <3> QED
      BY <3>1, <3>2, CountsOnce
  <2> QED
    BY <1>0, <1>2, <2>1 DEF CheckLate, WatchInv, WatchesAgree, MonitorsTellOnce
<1> QED
  BY <1>1, <1>2

\* Of every trouble one is told once while it lasts, and again when it comes
\* again, for every threshold (src/tls-expiry.ts:118-147, src/memory-alerts.ts:21-37).
THEOREM TroublesAreToldOnce == MonitorsSpec => []MonitorsTellOnce
<1>1. MonitorsInit => WatchInv
  BY MonitorsAssumption DEF MonitorsInit, WatchInv, WatchesAgree, MonitorsTellOnce
<1>2. WatchInv /\ [MonitorsNext]_monitorVars => WatchInv'
  <2> SUFFICES ASSUME WatchInv, [MonitorsNext]_monitorVars PROVE WatchInv'
    OBVIOUS
  <2>1. CASE UNCHANGED <<memory, pressure, tls, outage, late>>
    BY <2>1 DEF WatchInv, WatchesAgree, MonitorsTellOnce
  <2>2. CASE Tick \/ \E ip \in Ips : Request(ip)
    BY <2>1, <2>2 DEF Tick, Request
  <2> QED
    BY <2>1, <2>2, SampleKeeps, CheckFailedKeeps, CheckedKeeps DEF MonitorsNext, monitorVars
<1> QED
  BY <1>1, <1>2, PTL DEF MonitorsSpec, WatchInv

-----------------------------------------------------------------------------
(* The buckets.                                                             *)

Bucket == [tokens : 0..Burst, age : 0..(IdleEvict + 1)]

\* Every bucket there is, and every one that is not, is as full as it should be.
BucketInv ==
    /\ DOMAIN buckets \subseteq Ips
    /\ \A ip \in DOMAIN buckets : buckets[ip] \in Bucket
    /\ credit \in [Ips -> 0..Burst]
    /\ BucketsAreExact

\* What a bucket of n tokens has after some ticks; the swept ones are full.
LEMMA Refills ==
    ASSUME NEW n \in 0..Burst, NEW age \in 0..(IdleEvict + 1)
    PROVE  /\ n + age * Rate \in Nat /\ Least(Burst, n + age * Rate) \in 0..Burst
           /\ Least(Burst, n + 0 * Rate) = n
           /\ Least(Burst, n + Least(age + 1, IdleEvict + 1) * Rate)
                = Least(Burst, Least(Burst, n + age * Rate) + Rate)
           /\ age > IdleEvict => Least(Burst, n + age * Rate) = Burst
<1>0. Rate \in Nat \ {0} /\ Burst \in Nat \ {0} /\ IdleEvict \in Nat \ {0} /\ IdleEvict * Rate >= Burst
  BY MonitorsAssumption
<1> DEFINE full == age * Rate
<1>1. full \in Nat /\ (age + 1) * Rate = full + Rate /\ 0 * Rate = 0 /\ IdleEvict * Rate \in Nat
  BY <1>0
<1>2. age > IdleEvict => age = IdleEvict + 1 /\ full = IdleEvict * Rate + Rate
  BY <1>0
<1> HIDE DEF full
<1>3. n + full \in Nat /\ n + full + Rate \in Nat
  BY <1>0, <1>1
<1>4. Least(Burst, n + full) = IF Burst <= n + full THEN Burst ELSE n + full
  BY <1>0, <1>3, LeastIs
<1>5. Least(Burst, n + 0) = n
  BY <1>0, LeastIs
<1>6. age > IdleEvict => Burst <= n + full
  BY <1>0, <1>1, <1>2
<1>7. Least(Burst, Least(Burst, n + full) + Rate)
        = IF Burst <= n + full + Rate THEN Burst ELSE n + full + Rate
  <2>1. Least(Burst, n + full) + Rate \in Nat
    BY <1>0, <1>3, <1>4
  <2> QED
    BY <1>0, <1>3, <1>4, <2>1, LeastIs
<1>8. Least(Burst, n + Least(age + 1, IdleEvict + 1) * Rate)
        = IF Burst <= n + full + Rate THEN Burst ELSE n + full + Rate
  <2>1. Least(age + 1, IdleEvict + 1) = IF age <= IdleEvict THEN age + 1 ELSE age
    BY <1>0, LeastIs
  <2>2. CASE age <= IdleEvict
    BY <1>0, <1>1, <1>3, <2>1, <2>2, LeastIs
  <2>3. CASE age > IdleEvict
    <3>1. Least(Burst, n + age * Rate) = Burst
      BY <1>0, <1>4, <1>6, <2>3 DEF full
    <3> QED
      BY <1>0, <1>3, <1>6, <2>1, <2>3, <3>1
  <2> QED
    BY <1>0, <2>2, <2>3
<1> QED
  BY <1>0, <1>1, <1>3, <1>4, <1>5, <1>6, <1>7, <1>8 DEF full

\* Time passes alike for the bucket and for what it stands for.
LEMMA TickKeeps == BucketInv /\ Tick => BucketInv'
<1> SUFFICES ASSUME BucketInv, Tick PROVE BucketInv'
  OBVIOUS
<1>0. Rate \in Nat \ {0} /\ Burst \in Nat \ {0} /\ IdleEvict \in Nat \ {0}
  BY MonitorsAssumption
<1>1. DOMAIN buckets' = DOMAIN buckets
  BY DEF Tick
<1>2. ASSUME NEW ip \in DOMAIN buckets
      PROVE  /\ buckets'[ip] \in Bucket /\ buckets'[ip].tokens = buckets[ip].tokens
             /\ buckets'[ip].age = Least(buckets[ip].age + 1, IdleEvict + 1)
  <2>1. buckets[ip] \in Bucket
    BY DEF BucketInv
  <2>2. buckets'[ip] = [buckets[ip] EXCEPT !.age = Least(@ + 1, IdleEvict + 1)]
    BY DEF Tick
  <2>3. Least(buckets[ip].age + 1, IdleEvict + 1) \in 0..(IdleEvict + 1)
    BY <1>0, <2>1, LeastIs DEF Bucket
  <2> QED
    BY <2>1, <2>2, <2>3 DEF Bucket
<1>3. ASSUME NEW ip \in Ips
      PROVE  credit'[ip] \in 0..Burst /\ Refilled(buckets', ip) = credit'[ip]
  <2>1. credit'[ip] = Least(Burst, credit[ip] + Rate) /\ credit[ip] \in 0..Burst
    BY DEF Tick, BucketInv
  <2>2. credit'[ip] \in 0..Burst
    <3>1. credit[ip] + Rate \in Nat
      BY <1>0, <2>1
    <3> QED
      BY <1>0, <2>1, <3>1, LeastIs
  <2>3. CASE ip \in DOMAIN buckets
    <3>1. buckets[ip].tokens \in 0..Burst /\ buckets[ip].age \in 0..(IdleEvict + 1)
      BY <2>3 DEF BucketInv, Bucket
    <3>2. credit[ip] = Least(Burst, buckets[ip].tokens + buckets[ip].age * Rate)
      BY <2>3 DEF BucketInv, BucketsAreExact, Refilled
    <3>3. Refilled(buckets', ip)
            = Least(Burst, buckets[ip].tokens + Least(buckets[ip].age + 1, IdleEvict + 1) * Rate)
      BY <1>1, <1>2, <2>3 DEF Refilled
    <3> QED
      BY <2>1, <2>2, <3>1, <3>2, <3>3, Refills
  <2>4. CASE ip \notin DOMAIN buckets
    <3>1. credit[ip] = Burst /\ Refilled(buckets', ip) = Burst
      BY <1>1, <2>4 DEF BucketInv, BucketsAreExact, Refilled
    <3>2. Least(Burst, Burst + Rate) = Burst
      <4>1. Burst + Rate \in Nat /\ Burst <= Burst + Rate
        BY <1>0
      <4> QED
        BY <1>0, <4>1, LeastIs
    <3> QED
      BY <2>1, <2>2, <3>1, <3>2
  <2> QED
    BY <2>3, <2>4
<1>4. credit' \in [Ips -> 0..Burst]
  BY <1>3 DEF Tick
<1> QED
  BY <1>1, <1>2, <1>3, <1>4 DEF BucketInv, BucketsAreExact

\* A sweep takes full buckets only.
LEMMA SweepIsFair ==
    ASSUME BucketInv
    PROVE  /\ DOMAIN Swept \subseteq DOMAIN buckets
           /\ \A ip \in DOMAIN Swept : Swept[ip] = buckets[ip]
           /\ \A ip \in Ips : Refilled(Swept, ip) = credit[ip]
<1>1. DOMAIN Swept \subseteq DOMAIN buckets /\ \A ip \in DOMAIN Swept : Swept[ip] = buckets[ip]
  BY DEF Swept
<1>2. ASSUME NEW ip \in DOMAIN buckets, ip \notin DOMAIN Swept
      PROVE  credit[ip] = Burst
  <2>1. Idle(ip)
    BY <1>2 DEF Swept
  <2>2. buckets[ip].tokens \in 0..Burst /\ buckets[ip].age \in 0..(IdleEvict + 1)
    BY DEF BucketInv, Bucket
  <2>3. credit[ip] = Least(Burst, buckets[ip].tokens + buckets[ip].age * Rate)
    BY DEF BucketInv, BucketsAreExact, Refilled
  <2> QED
    BY <2>1, <2>2, <2>3, Refills DEF Idle
<1>3. ASSUME NEW ip \in Ips PROVE Refilled(Swept, ip) = credit[ip]
  <2>1. CASE ip \in DOMAIN Swept
    BY <1>1, <2>1 DEF Refilled, BucketInv, BucketsAreExact
  <2>2. CASE ip \notin DOMAIN Swept
    BY <1>2, <2>2 DEF Refilled, BucketInv, BucketsAreExact
  <2> QED
    BY <2>1, <2>2
<1> QED
  BY <1>1, <1>3

LEMMA RequestKeeps ==
    ASSUME BucketInv, NEW ip \in Ips, Request(ip)
    PROVE  BucketInv'
<1>0. Burst \in Nat \ {0} /\ Cost \in Nat \ {0} /\ credit[ip] \in 0..Burst
  BY MonitorsAssumption DEF BucketInv
<1>1. Refilled(Swept, ip) = credit[ip]
  BY SweepIsFair
<1>2. PICK n \in 0..Burst : Touched(ip, n) /\ credit' = [credit EXCEPT ![ip] = n]
  <2>1. CASE credit[ip] >= Cost
    BY <1>0, <1>1, <2>1 DEF Request
  <2>2. CASE credit[ip] < Cost
    <3>1. Touched(ip, credit[ip]) /\ credit' = credit
      BY <1>0, <1>1, <2>2 DEF Request
    <3>2. credit = [credit EXCEPT ![ip] = credit[ip]]
      BY DEF BucketInv
    <3> QED
      BY <1>0, <3>1, <3>2
  <2> QED
    BY <1>0, <2>1, <2>2
<1>3. /\ DOMAIN buckets' = DOMAIN Swept \cup {ip}
      /\ buckets'[ip] = [tokens |-> n, age |-> 0]
      /\ \A i \in DOMAIN Swept \ {ip} : buckets'[i] = Swept[i]
  BY <1>2 DEF Touched
<1>4. 0 \in 0..(IdleEvict + 1) /\ [tokens |-> n, age |-> 0] \in Bucket
  BY MonitorsAssumption DEF Bucket
<1>5. DOMAIN buckets' \subseteq Ips /\ \A i \in DOMAIN buckets' : buckets'[i] \in Bucket
  BY <1>3, <1>4, SweepIsFair DEF BucketInv
<1>6. ASSUME NEW i \in Ips PROVE Refilled(buckets', i) = credit'[i]
  <2>1. CASE i = ip
    <3>1. Refilled(buckets', i) = Least(Burst, n + 0 * Rate)
      BY <1>3, <2>1 DEF Refilled
    <3>2. Least(Burst, n + 0 * Rate) = n
      BY <1>4, Refills
    <3> QED
      BY <1>2, <2>1, <3>1, <3>2 DEF BucketInv
  <2>2. CASE i # ip
    <3>1. Refilled(buckets', i) = Refilled(Swept, i)
      BY <1>3, <2>2 DEF Refilled
    <3> QED
      BY <1>2, <2>2, <3>1, SweepIsFair DEF BucketInv
  <2> QED
    BY <2>1, <2>2
<1>7. credit' \in [Ips -> 0..Burst]
  BY <1>2 DEF BucketInv
<1> QED
  BY <1>5, <1>6, <1>7 DEF BucketInv, BucketsAreExact

\* The limiter's lazy, swept buckets grant what buckets that refill at every
\* tick would, if an idle bucket is swept no sooner than it would be full
\* (src/proxy/rate-limit.ts:55-86).
THEOREM BucketsGrantExactly == MonitorsSpec => []BucketsAreExact
<1>1. MonitorsInit => BucketInv
  BY MonitorsAssumption DEF MonitorsInit, BucketInv, BucketsAreExact, Refilled
<1>2. BucketInv /\ [MonitorsNext]_monitorVars => BucketInv'
  <2> SUFFICES ASSUME BucketInv, [MonitorsNext]_monitorVars PROVE BucketInv'
    OBVIOUS
  <2>1. CASE UNCHANGED <<buckets, credit>>
    BY <2>1 DEF BucketInv, BucketsAreExact, Refilled
  <2>2. CASE (\E level \in {"low", "mid", "high"} : Sample(level)) \/ CheckFailed \/ CheckTimely \/ CheckLate
    BY <2>1, <2>2 DEF Sample, CheckFailed, CheckTimely, CheckLate
  <2> QED
    BY <2>1, <2>2, TickKeeps, RequestKeeps DEF MonitorsNext, monitorVars
<1> QED
  BY <1>1, <1>2, PTL DEF MonitorsSpec, BucketInv

(***************************************************************************)
(* The probes, module Probes.                                              *)
(***************************************************************************)

-----------------------------------------------------------------------------
\* A probe of a known kind if it is under way, and of a member where the pool
\* picked it; the key is whatever was picked.  What it has been answered, a world
\* since it went out may have answered.
ProbeOf(key) ==
    [kind : Kinds \cup {Nil}, phase : {"idle", "refreshing", "token", "calling"}, key : {key}, live : BOOLEAN,
     account : Accounts \cup {Unknown, Nil}, a : Statuses, b : Statuses, saw : SUBSET Worlds]

AnswersOK(p) ==
    /\ p.a # "none" => p.a \in MayAnswer(p, "a")
    /\ p.b # "none" => p.b \in MayAnswer(p, "b")

IsProbe(p) ==
    /\ \E key : p \in ProbeOf(key)
    /\ p.phase # "idle" => p.kind \in Kinds
    /\ p.phase = "token" => p.kind \notin Pings \cup {"oauth-probe"}
    /\ p.phase = "refreshing" => p.kind = "oauth-probe"
    /\ p.phase = "calling" => p.kind # "oauth-probe"
    /\ p.phase # "calling" => p.a = "none" /\ p.b = "none"
    /\ AnswersOK(p)

ProbesInv ==
    /\ world \in Worlds /\ DOMAIN latest = Kinds
    /\ probe = [o \in Operators |-> probe[o]]
    /\ \A o \in Operators : IsProbe(probe[o])
    /\ \A k \in Kinds : latest[k] # Nil => Claim(k, latest[k])

LEMMA NoProbeOK == IsProbe(NoProbe)
<1>1. NoProbe \in ProbeOf(Nil)
  BY DEF NoProbe, ProbeOf, Statuses
<1> QED
  BY <1>1 DEF NoProbe, IsProbe, AnswersOK

\* A probe changes, and nothing else: the invariant holds if it is a good one.
LEMMA ChangeOne ==
    ASSUME ProbesInv, NEW o \in Operators, NEW p, IsProbe(p), Begin(o, p)
    PROVE  ProbesInv'
<1>1. \A q \in Operators : IsProbe(probe'[q])
  BY DEF ProbesInv, Begin
<1> QED
  BY <1>1 DEF ProbesInv, Begin

\* A report that claims what the probe was answered.
LEMMA ReportsTruth ==
    ASSUME ProbesInv, NEW o \in Operators, NEW p, NEW ok, NEW says, Report(o, p, ok, says), p.kind \in Kinds,
           Claim(p.kind, [ok |-> ok, says |-> says, account |-> p.account, live |-> p.live, saw |-> p.saw])
    PROVE  ProbesInv'
<1> DEFINE result == [ok |-> ok, says |-> says, account |-> p.account, live |-> p.live, saw |-> p.saw]
<1>1. latest' = [latest EXCEPT ![p.kind] = result] /\ world' = world /\ probe' = [probe EXCEPT ![o] = NoProbe]
  BY DEF Report
<1>2. Claim(p.kind, result)
  OBVIOUS
<1> HIDE DEF result
<1>3. \A k \in Kinds : latest'[k] # Nil => Claim(k, latest'[k])
  BY <1>1, <1>2 DEF ProbesInv
<1>4. \A q \in Operators : IsProbe(probe'[q])
  BY <1>1, NoProbeOK DEF ProbesInv
<1> QED
  BY <1>1, <1>3, <1>4 DEF ProbesInv

\* A probe that has been answered nothing claims nothing of the worlds.
LEMMA RefusalKeeps ==
    ASSUME ProbesInv, NEW o \in Operators, NEW p, p.kind \in Kinds,
           NEW says \in {"no keys", "not found", "rejected", "token-fetch", "failed"}, Report(o, p, FALSE, says)
    PROVE  ProbesInv'
<1> DEFINE result == [ok |-> FALSE, says |-> says, account |-> p.account, live |-> p.live, saw |-> p.saw]
<1>1. ~result.ok /\ result.says = says
  OBVIOUS
<1>2. Claim(p.kind, result) => ProbesInv'
  BY ReportsTruth
<1> HIDE DEF result
<1>3. Claim(p.kind, result)
  BY <1>1 DEF Claim
<1> QED
  BY <1>2, <1>3

\* The longer it lasts the more it may be answered: a world more, and it still
\* was answered by one of them.
LEMMA MoreSeen ==
    ASSUME NEW p, NEW w \in Worlds, IsProbe(p)
    PROVE  IsProbe([p EXCEPT !.saw = @ \cup {w}])
<1> DEFINE q == [p EXCEPT !.saw = @ \cup {w}]
<1>1. PICK key : p \in ProbeOf(key)
  BY DEF IsProbe
<1>2. /\ q \in ProbeOf(key) /\ q.kind = p.kind /\ q.phase = p.phase /\ q.account = p.account
      /\ q.a = p.a /\ q.b = p.b /\ q.saw = p.saw \cup {w}
  BY <1>1 DEF ProbeOf
<1> HIDE DEF q
<1>3. \A side \in {"a", "b"} : MayAnswer(p, side) \subseteq MayAnswer(q, side)
  BY <1>2 DEF MayAnswer, TokenOf
<1>4. AnswersOK(q)
  BY <1>2, <1>3 DEF IsProbe, AnswersOK
<1>5. IsProbe(q)
  BY <1>2, <1>4 DEF IsProbe
<1> QED
  BY <1>5 DEF q

LEMMA ShiftKeeps == ProbesInv /\ Shift => ProbesInv'
<1> SUFFICES ASSUME ProbesInv, Shift PROVE ProbesInv'
  OBVIOUS
<1>1. world' \in Worlds /\ latest' = latest
  BY DEF Shift
<1>2. \A o \in Operators :
        probe'[o] = IF Out(probe[o]) THEN [probe[o] EXCEPT !.saw = @ \cup {world'}] ELSE probe[o]
  BY DEF Shift
<1>3. \A o \in Operators : IsProbe(probe'[o])
  BY <1>1, <1>2, MoreSeen DEF ProbesInv
<1> QED
  BY <1>1, <1>3 DEF Shift, ProbesInv

LEMMA KeysKeep ==
    ASSUME ProbesInv, NEW n \in Range(KeyNames), ChangeKeys(n)
    PROVE  ProbesInv'
<1>1. ASSUME NEW p, IsProbe(p)
      PROVE  IsProbe([p EXCEPT !.live = FALSE])
  <2> DEFINE q == [p EXCEPT !.live = FALSE]
  <2>1. PICK key : p \in ProbeOf(key)
    BY <1>1 DEF IsProbe
  <2>2. /\ q \in ProbeOf(key) /\ q.kind = p.kind /\ q.phase = p.phase /\ q.account = p.account
        /\ q.a = p.a /\ q.b = p.b /\ q.saw = p.saw
    BY <2>1 DEF ProbeOf
  <2> HIDE DEF q
  <2>3. IsProbe(q)
    BY <1>1, <2>2 DEF IsProbe, AnswersOK, MayAnswer, TokenOf
  <2> QED
    BY <2>3 DEF q
<1>2. \A o \in Operators : probe'[o] = probe[o] \/ probe'[o] = [probe[o] EXCEPT !.live = FALSE]
  BY DEF ChangeKeys
<1>3. \A o \in Operators : IsProbe(probe'[o])
  BY <1>1, <1>2 DEF ProbesInv
<1> QED
  BY <1>3 DEF ChangeKeys, ProbesInv

-----------------------------------------------------------------------------
(* The handlers, each as far as its next wait.                              *)

\* A probe that asks Anthropic or the gateway, of what it is known by now.
LEMMA CallKeeps ==
    ASSUME ProbesInv, NEW o \in Operators, NEW p, NEW key, p \in ProbeOf(key),
           p.kind \in Kinds \ {"oauth-probe"}, p.a = "none", p.b = "none", Begin(o, Calling(p))
    PROVE  ProbesInv'
<1> DEFINE q == Calling(p)
<1>1. q \in ProbeOf(key) /\ q.kind = p.kind /\ q.phase = "calling" /\ q.a = "none" /\ q.b = "none"
  BY DEF Calling, ProbeOf, ProbesInv
<1> HIDE DEF q
<1>2. IsProbe(q)
  BY <1>1 DEF IsProbe, AnswersOK
<1> QED
  BY <1>2, ChangeOne DEF q

LEMMA SelfPingKeeps ==
    ASSUME ProbesInv, NEW o \in Operators, SelfPing(o)
    PROVE  ProbesInv'
<1> DEFINE p == [NoProbe EXCEPT !.kind = "self-ping"]
           q == [p EXCEPT !.key = FirstKey]
<1>1. p.kind = "self-ping" /\ q \in ProbeOf(FirstKey) /\ q.kind = "self-ping" /\ q.a = "none" /\ q.b = "none"
  BY DEF NoProbe, ProbeOf, Statuses, Kinds
<1>2. Report(o, p, FALSE, "no keys") \/ Begin(o, Calling(q))
  BY DEF SelfPing
<1> HIDE DEF p, q
<1>3. CASE Report(o, p, FALSE, "no keys")
  <2>1. p.kind \in Kinds
    BY <1>1 DEF Kinds
  <2> QED
    BY <1>3, <2>1, RefusalKeeps
<1>4. CASE Begin(o, Calling(q))
  BY <1>1, <1>4, CallKeeps DEF Kinds
<1> QED
  BY <1>2, <1>3, <1>4

LEMMA KeyInvokeKeeps ==
    ASSUME ProbesInv, NEW o \in Operators, NEW n \in Range(KeyNames), KeyInvoke(o, n)
    PROVE  ProbesInv'
<1> DEFINE p == [NoProbe EXCEPT !.kind = "key-invoke", !.key = n]
<1>1. p \in ProbeOf(n) /\ p.kind = "key-invoke" /\ p.a = "none" /\ p.b = "none"
  BY DEF NoProbe, ProbeOf, Statuses, Kinds
<1>2. Report(o, p, FALSE, "not found") \/ Begin(o, Calling(p))
  BY DEF KeyInvoke
<1> HIDE DEF p
<1>3. CASE Report(o, p, FALSE, "not found")
  <2>1. p.kind \in Kinds
    BY <1>1 DEF Kinds
  <2> QED
    BY <1>3, <2>1, RefusalKeeps
<1>4. CASE Begin(o, Calling(p))
  BY <1>1, <1>4, CallKeeps DEF Kinds
<1> QED
  BY <1>2, <1>3, <1>4

LEMMA RefuseModelKeeps ==
    ASSUME ProbesInv, NEW o \in Operators, RefuseModel(o)
    PROVE  ProbesInv'
<1> DEFINE p == [NoProbe EXCEPT !.kind = "verify-entitlement"]
<1>1. p.kind \in Kinds /\ Report(o, p, FALSE, "rejected")
  BY DEF RefuseModel, NoProbe, Kinds
<1> HIDE DEF p
<1> QED
  BY <1>1, RefusalKeeps

LEMMA ProbeOAuthKeeps ==
    ASSUME ProbesInv, NEW o \in Operators, NEW name \in Accounts \cup {Unknown}, ProbeOAuth(o, name)
    PROVE  ProbesInv'
<1> DEFINE p == [NoProbe EXCEPT !.kind = "oauth-probe", !.phase = "refreshing", !.account = name]
<1>1. p \in ProbeOf(Nil) /\ p.kind = "oauth-probe" /\ p.phase = "refreshing" /\ p.a = "none" /\ p.b = "none"
  BY DEF NoProbe, ProbeOf, Statuses, Kinds
<1>2. Begin(o, p)
  BY DEF ProbeOAuth
<1> HIDE DEF p
<1>3. IsProbe(p)
  BY <1>1 DEF IsProbe, AnswersOK, Kinds
<1> QED
  BY <1>2, <1>3, ChangeOne

LEMMA AskPoolKeeps ==
    ASSUME ProbesInv, NEW o \in Operators, NEW kind \in {"upstream-direct", "verify-entitlement"},
           NEW account \in Accounts, AskPool(o, kind, account)
    PROVE  ProbesInv'
<1> DEFINE p == [NoProbe EXCEPT !.kind = kind, !.phase = "token", !.account = account]
<1>1. p \in ProbeOf(Nil) /\ p.kind = kind /\ p.phase = "token" /\ p.a = "none" /\ p.b = "none"
  BY DEF NoProbe, ProbeOf, Statuses, Kinds
<1>2. Begin(o, p)
  BY DEF AskPool
<1> HIDE DEF p
<1>3. IsProbe(p)
  BY <1>1 DEF IsProbe, AnswersOK, Kinds, Pings
<1> QED
  BY <1>2, <1>3, ChangeOne

\* The account's token came, or did not: what a forced refresh reports, and how
\* the other two go on.
LEMMA TokenKeeps ==
    ASSUME ProbesInv, NEW o \in Operators, Refreshed(o) \/ NotRefreshed(o) \/ NoToken(o) \/ Given(o)
    PROVE  ProbesInv'
<1> DEFINE p == probe[o]
           result(ok, says) == [ok |-> ok, says |-> says, account |-> p.account, live |-> p.live, saw |-> p.saw]
<1>1. IsProbe(p)
  BY DEF ProbesInv
<1>2. CASE Refreshed(o)
  <2>1. p.kind = "oauth-probe" /\ p.account \in Accounts /\ Report(o, p, TRUE, "refreshed")
    BY <1>1, <1>2 DEF Refreshed, IsProbe
  <2>2. Claim("oauth-probe", result(TRUE, "refreshed"))
    BY <2>1 DEF Claim, Pings
  <2> QED
    BY <2>1, <2>2, ReportsTruth DEF Kinds
<1>3. CASE NotRefreshed(o) \/ NoToken(o)
  <2>1. p.kind \in Kinds /\ (Report(o, p, FALSE, "failed") \/ Report(o, p, FALSE, "token-fetch"))
    BY <1>1, <1>3 DEF NotRefreshed, NoToken, IsProbe
  <2> HIDE DEF p
  <2> QED
    BY <2>1, RefusalKeeps
<1>4. CASE Given(o)
  <2>1. PICK key : p \in ProbeOf(key)
    BY <1>1 DEF IsProbe
  <2>2. p.kind \in Kinds \ {"oauth-probe"} /\ Begin(o, Calling(p))
    BY <1>1, <1>4 DEF Given, IsProbe
  <2>3. p.a = "none" /\ p.b = "none"
    BY <1>1, <1>4 DEF Given, IsProbe
  <2> QED
    BY <2>1, <2>2, <2>3, CallKeeps
<1> QED
  BY <1>2, <1>3, <1>4

\* What an answer tells of the world that gave it.
LEMMA AnswerTells ==
    ASSUME NEW w, NEW account, NEW marker \in BOOLEAN, NEW status \in Anthropic(w, account, marker)
    PROVE  /\ status \in {"200", "401", "429", "failed"}
           /\ status = "200" => Serves(w, account) /\ (marker \/ ~w.gate)
           /\ status = "429" => account \in w.limited \/ (w.gate /\ ~marker)
           /\ status = "401" => account \notin w.honoured
BY DEF Anthropic, Serves

LEMMA PingKeeps ==
    ASSUME ProbesInv, NEW o \in Operators, PingAnswered(o)
    PROVE  ProbesInv'
<1> DEFINE p == probe[o]
<1>1. PICK status \in IF p.kind \in Pings THEN Gateway(p) ELSE MayAnswer(p, "a") :
        Report(o, p, status = "200", status)
  BY DEF PingAnswered
<1>2. p.kind \in Kinds \ {"verify-entitlement", "oauth-probe"}
  BY DEF PingAnswered, ProbesInv, IsProbe, Out
<1> DEFINE result == [ok |-> (status = "200"), says |-> status, account |-> p.account, live |-> p.live, saw |-> p.saw]
<1>3. /\ result.ok <=> status = "200"
      /\ result.says = status /\ result.account = p.account /\ result.live = p.live /\ result.saw = p.saw
  OBVIOUS
<1>4. Report(o, p, status = "200", status) /\ (Claim(p.kind, result) => ProbesInv')
  BY <1>1, <1>2, ReportsTruth
<1> HIDE DEF result, p
<1>5. CASE p.kind \in Pings
  <2>1. \/ status \in {"429", "failed"}
        \/ ~p.live /\ status = "401"
        \/ \E w \in p.saw, account \in Accounts : status \in Anthropic(w, account, TRUE)
    <3>1. status \in Gateway(p)
      BY <1>1, <1>5
    <3>2. ASSUME status \in UNION {UNION {Anthropic(w, account, TRUE) : account \in Accounts} : w \in p.saw}
          PROVE  \E w \in p.saw, account \in Accounts : status \in Anthropic(w, account, TRUE)
      <4>1. PICK w \in p.saw : status \in UNION {Anthropic(w, account, TRUE) : account \in Accounts}
        BY <3>2
      <4>2. PICK account \in Accounts : status \in Anthropic(w, account, TRUE)
        BY <4>1
      <4> QED
        BY <4>1, <4>2
    <3>3. \/ status \in {"429", "failed"}
          \/ ~p.live /\ status = "401"
          \/ status \in UNION {UNION {Anthropic(w, account, TRUE) : account \in Accounts} : w \in p.saw}
      BY <3>1 DEF Gateway
    <3> QED
      BY <3>2, <3>3
  <2>2. status = "200" => \E w \in p.saw : \E account \in Accounts : Serves(w, account)
    BY <2>1, AnswerTells
  <2>3. status = "401" => ~p.live \/ \E w \in p.saw : Accounts \ w.honoured # {}
    BY <2>1, AnswerTells
  <2>4. Claim(p.kind, result)
    BY <1>3, <1>5, <2>2, <2>3 DEF Claim, Pings
  <2> QED
    BY <1>4, <2>4
<1>6. CASE p.kind = "upstream-direct"
  <2>1. PICK w \in p.saw : status \in Anthropic(w, p.account, TRUE)
    BY <1>1, <1>6 DEF MayAnswer, TokenOf, Pings
  <2>2. Claim(p.kind, result)
    BY <1>3, <1>6, <2>1, AnswerTells DEF Claim, Pings
  <2> QED
    BY <1>4, <2>2
<1> QED
  BY <1>2, <1>5, <1>6 DEF Kinds, Pings

\* What two answers tell of the worlds that gave them, of one account's token.
LEMMA PairTells ==
    ASSUME NEW v, NEW w, NEW account, NEW a \in Anthropic(v, account, TRUE), NEW b \in Anthropic(w, account, FALSE)
    PROVE  LET verdict == ClassifyEntitlement(a, b) IN
           /\ verdict \in Verdicts
           /\ verdict = "ok" => Serves(v, account) /\ (w.gate \/ account \in w.limited)
           /\ verdict = "marker-drift" => ~w.gate /\ Serves(w, account)
           /\ verdict = "account-issue" => account \in v.limited
           /\ verdict = "reversed" => v # w
<1>1. /\ a = "200" => Serves(v, account)
      /\ a = "429" => account \in v.limited
      /\ b = "200" => Serves(w, account) /\ ~w.gate
      /\ b = "429" => account \in w.limited \/ w.gate
  BY AnswerTells
<1>2. a = "429" /\ b = "200" => v # w
  BY <1>1 DEF Serves
<1> QED
  BY <1>1, <1>2 DEF ClassifyEntitlement, Verdicts

LEMMA PairKeeps ==
    ASSUME ProbesInv, NEW o \in Operators, NEW side \in {"a", "b"}, PairAnswered(o, side)
    PROVE  ProbesInv'
<1>1. PICK status \in MayAnswer(probe[o], side) :
        LET p       == [probe[o] EXCEPT ![side] = status]
            verdict == ClassifyEntitlement(p.a, p.b)
        IN IF "none" \in {p.a, p.b} THEN Begin(o, p) ELSE Report(o, p, verdict = "ok", verdict)
  BY DEF PairAnswered
<1> DEFINE p == [probe[o] EXCEPT ![side] = status]
           verdict == ClassifyEntitlement(p.a, p.b)
<1>2. PICK key : probe[o] \in ProbeOf(key)
  BY DEF ProbesInv, IsProbe
<1>3. status \in Statuses \ {"none"}
  BY <1>1 DEF MayAnswer, Anthropic, Statuses
<1>4. /\ p \in ProbeOf(key) /\ p.kind = probe[o].kind /\ p.phase = probe[o].phase
      /\ p.account = probe[o].account /\ p.saw = probe[o].saw
      /\ p.a = (IF side = "a" THEN status ELSE probe[o].a)
      /\ p.b = (IF side = "b" THEN status ELSE probe[o].b)
  BY <1>2, <1>3 DEF ProbeOf
<1>5. p.kind = "verify-entitlement" /\ p.phase = "calling"
  BY <1>4 DEF PairAnswered, Out
<1>6. \A s \in {"a", "b"} : MayAnswer(p, s) = MayAnswer(probe[o], s)
  BY <1>4 DEF MayAnswer, TokenOf
<1> DEFINE result == [ok |-> (verdict = "ok"), says |-> verdict, account |-> p.account, live |-> p.live, saw |-> p.saw]
<1>7. /\ result.ok <=> verdict = "ok"
      /\ result.says = verdict /\ result.account = p.account /\ result.saw = p.saw
  OBVIOUS
<1>8. IF "none" \in {p.a, p.b} THEN Begin(o, p) ELSE Report(o, p, verdict = "ok", verdict)
  BY <1>1
<1>9. ASSUME Report(o, p, verdict = "ok", verdict), Claim(p.kind, result)
      PROVE  ProbesInv'
  BY <1>5, <1>9, ReportsTruth DEF Kinds
<1> HIDE DEF p, result
<1>10. AnswersOK(p)
  BY <1>1, <1>4, <1>6 DEF ProbesInv, IsProbe, AnswersOK
<1>11. CASE "none" \in {p.a, p.b}
  <2>1. IsProbe(p)
    BY <1>4, <1>5, <1>10 DEF IsProbe, Kinds, Pings
  <2> QED
    BY <1>8, <1>11, <2>1, ChangeOne
<1>12. CASE "none" \notin {p.a, p.b}
  <2>1. PICK v \in p.saw : p.a \in Anthropic(v, p.account, TRUE)
    BY <1>10, <1>12 DEF AnswersOK, MayAnswer, TokenOf
  <2>2. PICK w \in p.saw : p.b \in Anthropic(w, p.account, FALSE)
    BY <1>10, <1>12 DEF AnswersOK, MayAnswer, TokenOf
  <2>3. /\ verdict \in Verdicts
        /\ verdict = "ok" => Serves(v, p.account) /\ (w.gate \/ p.account \in w.limited)
        /\ verdict = "marker-drift" => ~w.gate /\ Serves(w, p.account)
        /\ verdict = "account-issue" => p.account \in v.limited
        /\ verdict = "reversed" => v # w
    BY <2>1, <2>2, PairTells
  <2> HIDE DEF verdict
  <2>4. Claim("verify-entitlement", result)
    BY <1>7, <2>1, <2>2, <2>3 DEF Claim, Pings
  <2> QED
    BY <1>5, <1>8, <1>9, <1>12, <2>4
<1> QED
  BY <1>11, <1>12

\* What the page shows of the last probe of each kind is true of a moment it
\* ran in, whatever changed meanwhile (src/admin/test-runners.ts:265-300,
\* 427-689).
THEOREM ProbesTellTheTruth == ProbesSpec => []ReportsAreTrue
<1>1. ProbesInit => ProbesInv
  BY NoProbeOK DEF ProbesInit, ProbesInv
<1>2. ProbesInv /\ [ProbesNext]_probeVars => ProbesInv'
  <2> SUFFICES ASSUME ProbesInv, [ProbesNext]_probeVars PROVE ProbesInv'
    OBVIOUS
  <2>1. CASE UNCHANGED probeVars
    BY <2>1 DEF ProbesInv, probeVars
  <2> QED
    BY <2>1, ShiftKeeps, KeysKeep, SelfPingKeeps, KeyInvokeKeeps, RefuseModelKeeps, ProbeOAuthKeeps, AskPoolKeeps,
       TokenKeeps, PingKeeps, PairKeeps
       DEF ProbesNext
<1>3. ProbesInv => ReportsAreTrue
  BY DEF ProbesInv, ReportsAreTrue
<1> QED
  BY <1>1, <1>2, <1>3, PTL DEF ProbesSpec

=============================================================================
