---------------------------- MODULE ApiKeyStore ----------------------------
(***************************************************************************)
(* createApiKeyStore in src/auth/api-key-store.ts behind the handlers of    *)
(* src/admin/keys.ts: the file in memory that every authenticated request   *)
(* reads, the file on disk that the next boot reads, and the promise chain  *)
(* (withWriteLock) that runs one mutator at a time.                         *)
(*                                                                          *)
(* A mutator is validated, queued, decides on the file in memory when its   *)
(* turn comes, awaits the temp-file write and the rename, and then          *)
(* publishes the new file in memory.  Between two of these steps any other  *)
(* request may arrive, the write may fail, or the process may die.          *)
(***************************************************************************)
EXTENDS Keystore, Sequences

CONSTANTS
    Clients,     \* admin requests that may be open at once
    Idle,        \* a client with no open request
    Requests,    \* the operations that clients ask for
    StartFiles,  \* key files the program may boot from
    MaxQueue,    \* MAX_WRITE_QUEUE_DEPTH
    MaxCalls,    \* bound on the requests that open a call
    MaxCrashes   \* bound on the deaths of the process

\* An open call: its operation, how far it is, and the file it writes.
CallState == [op : Op, at : {"queued", "writing", "renamed"}, next : File]

\* A file this program wrote has at most one row per name and per key, and
\* no row whose name is revoked or whose key is still to be minted.
ASSUME StoreAssumption ==
    /\ Requests \subseteq Op
    /\ MaxQueue \in Nat \ {0} /\ MaxCalls \in Nat /\ MaxCrashes \in Nat
    /\ Idle \notin CallState \cup [op : Op, at : {"asked", "performed"}]
    /\ StartFiles \subseteq File
    /\ \A f \in StartFiles : \A r \in f.keys :
          /\ r.name \notin f.revoked /\ r.key \in OldKeys
          /\ \A s \in f.keys : s.name = r.name \/ s.key = r.key => s = r

VARIABLES
    file,     \* the store's file in memory
    disk,     \* api-keys.json
    call,     \* per client: its operation, how far it is, the file it writes
    reply,    \* per client: the answer to its last request
    queue,    \* the chain of pending mutators, head first (writeLock)
    depth,    \* queueDepth
    minted,   \* number of keys generated so far
    calls,    \* number of calls opened so far
    crashes,  \* number of deaths so far
    buried    \* auxiliary: keys of rows whose revocation was acknowledged

vars == <<file, disk, call, reply, queue, depth, minted, calls, crashes, buried>>

Waiting(c, at) == call[c] # Idle /\ call[c].at = at

Init ==
    /\ disk \in StartFiles
    /\ file = disk
    /\ call = [c \in Clients |-> Idle]
    /\ reply = [c \in Clients |-> "none"]
    /\ queue = <<>>
    /\ depth = 0
    /\ minted = 0
    /\ calls = 0
    /\ crashes = 0
    /\ buried = {}

-----------------------------------------------------------------------------
\* Mutant: the place in the queue is given back only on success.
Finish_DecrementOnSuccess(c, r) ==
    /\ call' = [call EXCEPT ![c] = Idle]
    /\ reply' = [reply EXCEPT ![c] = r]
    /\ queue' = Tail(queue)
    /\ depth' = IF r = "ok" THEN depth - 1 ELSE depth
    /\ UNCHANGED <<minted, calls, crashes>>

\* Mutant: the rejected promise is stored and later links never run.
Finish_Poisoned(c, r) ==
    /\ call' = [call EXCEPT ![c] = Idle]
    /\ reply' = [reply EXCEPT ![c] = r]
    /\ queue' = IF r = "failed" THEN queue ELSE Tail(queue)
    /\ depth' = depth - 1
    /\ UNCHANGED <<minted, calls, crashes>>

\* The answer reaches the client and the chain moves on: the finally block
\* decrements queueDepth, and the stored .catch() lets the next link run
\* whether this one resolved or rejected.
Finish(c, r) ==
    /\ call' = [call EXCEPT ![c] = Idle]
    /\ reply' = [reply EXCEPT ![c] = r]
    /\ queue' = Tail(queue)
    /\ depth' = depth - 1
    /\ UNCHANGED <<minted, calls, crashes>>

\* Bad input is refused before the queue, a full queue before the chain.
TurnAway(c) ==
    /\ call[c] = Idle
    /\ \E op \in Requests :
          \/ ~WellFormed(op) /\ reply' = [reply EXCEPT ![c] = "refused"]
          \/ WellFormed(op) /\ depth >= MaxQueue /\ reply' = [reply EXCEPT ![c] = "busy"]
    /\ UNCHANGED <<file, disk, call, queue, depth, minted, calls, crashes, buried>>

Submit(c, op) ==
    /\ call[c] = Idle
    /\ calls < MaxCalls
    /\ WellFormed(op)
    /\ depth < MaxQueue
    /\ IF op.kind = "add" THEN op.key = minted + 1 /\ minted' = op.key
                          ELSE UNCHANGED minted
    /\ call' = [call EXCEPT ![c] = [op |-> op, at |-> "queued", next |-> EmptyFile]]
    /\ reply' = [reply EXCEPT ![c] = "none"]
    /\ queue' = Append(queue, c)
    /\ depth' = depth + 1
    /\ calls' = calls + 1
    /\ UNCHANGED <<file, disk, crashes, buried>>

\* Mutant: no write lock.
HasTurn_NoLock(c) == TRUE

\* withWriteLock: a link runs once every earlier link has settled.
HasTurn(c) == queue # <<>> /\ Head(queue) = c

\* The checks inside the lock, all made on the file in memory.
Reject(c) ==
    /\ HasTurn(c) /\ Waiting(c, "queued")
    /\ ~Allowed(file, call[c].op)
    /\ Finish(c, "refused")
    /\ UNCHANGED <<file, disk, buried>>

\* The fast path of update: nothing changed, so nothing is written.
Noop(c) ==
    /\ HasTurn(c) /\ Waiting(c, "queued")
    /\ call[c].op.kind = "update"
    /\ Allowed(file, call[c].op) /\ Result(file, call[c].op) = file
    /\ Finish(c, "ok")
    /\ UNCHANGED <<file, disk, buried>>

\* Mutant: memory is updated before the write.
StartWrite_PublishesFirst(c) ==
    /\ HasTurn(c) /\ Waiting(c, "queued")
    /\ Allowed(file, call[c].op)
    /\ call[c].op.kind = "update" => Result(file, call[c].op) # file
    /\ call' = [call EXCEPT ![c].at = "writing",
                            ![c].next = Result(file, call[c].op)]
    /\ file' = Result(file, call[c].op)
    /\ UNCHANGED <<disk, reply, queue, depth, minted, calls, crashes, buried>>

\* The next file is computed and handed to writeAtomic.
StartWrite(c) ==
    /\ HasTurn(c) /\ Waiting(c, "queued")
    /\ Allowed(file, call[c].op)
    /\ call[c].op.kind = "update" => Result(file, call[c].op) # file
    /\ call' = [call EXCEPT ![c].at = "writing",
                            ![c].next = Result(file, call[c].op)]
    /\ UNCHANGED <<file, disk, reply, queue, depth, minted, calls, crashes, buried>>

Rename(c) ==
    /\ Waiting(c, "writing")
    /\ disk' = call[c].next
    /\ call' = [call EXCEPT ![c].at = "renamed"]
    /\ UNCHANGED <<file, reply, queue, depth, minted, calls, crashes, buried>>

\* mkdir, the temp file or the rename failed: memory is left as it was.
WriteFails(c) ==
    /\ Waiting(c, "writing")
    /\ Finish(c, "failed")
    /\ UNCHANGED <<file, disk, buried>>

\* persist assigns file only after writeAtomic resolved.
Publish(c) ==
    /\ Waiting(c, "renamed")
    /\ file' = call[c].next
    /\ buried' = IF call[c].op.kind = "revoke"
                 THEN buried \cup {r.key : r \in RowsNamed(file, call[c].op.name)}
                 ELSE buried
    /\ Finish(c, "ok")
    /\ UNCHANGED disk

\* The process dies; the next one loads the file that is on disk.
Crash ==
    /\ crashes < MaxCrashes
    /\ crashes' = crashes + 1
    /\ file' = disk
    /\ call' = [c \in Clients |-> Idle]
    /\ reply' = [c \in Clients |-> "none"]
    /\ queue' = <<>>
    /\ depth' = 0
    /\ UNCHANGED <<disk, minted, calls, buried>>

Next ==
    \/ \E c \in Clients, op \in Requests : Submit(c, op)
    \/ \E c \in Clients :
          \/ TurnAway(c) \/ Reject(c) \/ Noop(c) \/ StartWrite(c)
          \/ Rename(c) \/ WriteFails(c) \/ Publish(c)
    \/ Crash

Spec == Init /\ [][Next]_vars

\* A pending link is run by the event loop, and the file system answers.
FairSpec ==
    /\ Spec
    /\ \A c \in Clients : WF_vars(Reject(c) \/ Noop(c) \/ StartWrite(c))
    /\ \A c \in Clients : WF_vars(Rename(c)) /\ WF_vars(Publish(c))

-----------------------------------------------------------------------------
(* Properties.                                                              *)

\* Every variable keeps its type.
TypeOK ==
    /\ file \in File /\ disk \in File
    /\ call \in [Clients -> CallState \cup {Idle}]
    /\ reply \in [Clients -> {"none", "ok", "refused", "busy", "failed"}]
    /\ queue \in Seq(Clients)
    /\ depth \in Int
    /\ minted \in 0..MaxKeys
    /\ calls \in 0..MaxCalls
    /\ crashes \in 0..MaxCrashes
    /\ buried \subseteq Keys

\* The store keeps the promise of KeystoreContract: each operation takes
\* effect at its rename, on the file of that instant, so no concurrent add,
\* update or revoke is lost, none is applied twice or after its refusal, and
\* "ok" means that the effect is on disk (issue #14, withWriteLock).
Contract == INSTANCE KeystoreContract WITH
    store <- disk,
    call <- [c \in Clients |-> IF call[c] = Idle THEN Idle
                               ELSE [op |-> call[c].op, at |-> IF call[c].at = "renamed" THEN "performed" ELSE "asked"]]
KeepsContract == Contract!Spec

\* Authentication reads memory and the next boot reads the disk: they differ
\* only while one mutator is between its rename and its publication, whatever
\* writes failed before (persist's invariant).
MemoryMatchesDisk == file # disk => \E c \in Clients : Waiting(c, "renamed")

\* A file key whose revocation was acknowledged never authenticates again,
\* not through a queued rename, a failed write or a restart.
RevokedKeysStayDead ==
    \A f \in {file, disk} : {r.key : r \in LiveRows(f)} \cap buried = {}

\* A name identifies at most one row and a revoked name none, in memory and
\* on disk: update and revoke look rows up by name, inside the lock.
NamesIdentifyRows ==
    \A f \in {file, disk} : \A r \in f.keys :
        r.name \notin f.revoked /\ \A s \in f.keys : s.name = r.name => s = r

\* Lenient at load, strict at write: no write stores a row beyond the cap
\* that was not on disk, unchanged, before it.
OverCap(f) == {r \in f.keys : r.models = "oversized"}
NoWriteBeyondCap == [][OverCap(disk') \subseteq OverCap(disk)]_vars

\* queueDepth counts exactly the calls that wait or write, each once: every
\* way a call ends gives its place back, so the limit never wedges the store.
DepthIsQueue ==
    /\ depth = Len(queue)
    /\ {queue[i] : i \in DOMAIN queue} = {c \in Clients : call[c] # Idle}
    /\ \A i, j \in DOMAIN queue : queue[i] = queue[j] => i = j

\* Every mutator is answered, also behind one that failed: the chain stores
\* the caught promise.
CallsAreAnswered == \A c \in Clients : call[c] # Idle ~> call[c] = Idle

\* Every row of the file is a key that authenticates: "renaming bob to alice
\* would resurrect a revoked identity" (tests/api-key-store.test.ts:332), and
\* an add hands out a key that works (src/admin/keys.ts:14).
RowsAuthenticate == file.keys \subseteq LiveRows(file)
=============================================================================
