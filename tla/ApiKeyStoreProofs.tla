-------------------------- MODULE ApiKeyStoreProofs --------------------------
(***************************************************************************)
(* Proofs about ApiKeyStore, for any number of clients, names and keys.     *)
(* The inductive invariant says that the call at the head of the chain is   *)
(* the only one that has decided, that its decision still fits the file in  *)
(* memory, and that a minted key is on its way, in a row, or buried.        *)
(***************************************************************************)
EXTENDS ApiKeyStore, TLAPS

KeysOf(f) == {r.key : r \in f.keys}

\* A name and a key each identify one row, and a revoked name none.
GoodFile(f) ==
    \A r \in f.keys :
        /\ r.name \notin f.revoked
        /\ \A s \in f.keys : s.name = r.name \/ s.key = r.key => s = r

Pending == {c \in Clients : call[c] # Idle}
Decided(c) == call[c] # Idle /\ call[c].at # "queued"
Minting(c) == call[c] # Idle /\ call[c].at # "renamed" /\ call[c].op.kind = "add"

QueueInv ==
    /\ depth = Len(queue)
    /\ \A i \in 1..Len(queue) : call[queue[i]] # Idle
    /\ \A c \in Pending : \E i \in 1..Len(queue) : queue[i] = c
    /\ \A i, j \in 1..Len(queue) : queue[i] = queue[j] => i = j

\* The write lock: a decision is made at the head and stays valid.
LockInv ==
    \A c \in Clients : Decided(c) =>
        /\ HasTurn(c)
        /\ Allowed(file, call[c].op)
        /\ call[c].next = Result(file, call[c].op)
        /\ call[c].at = "writing" => disk = file
        /\ call[c].at = "renamed" => disk = call[c].next

FilesInv == GoodFile(file) /\ GoodFile(disk)

\* A key is minted once: until its row is on disk no row has it.
KeyInv ==
    /\ \A k \in KeysOf(file) \cup KeysOf(disk) : k <= minted /\ k \notin buried
    /\ \A k \in buried : k <= minted
    /\ \A c \in Clients : Minting(c) =>
          /\ call[c].op.key <= minted
          /\ call[c].op.key \notin KeysOf(file) \cup KeysOf(disk) \cup buried
          /\ \A d \in Clients : Minting(d) /\ call[d].op.key = call[c].op.key => d = c

IInv ==
    /\ TypeOK
    /\ QueueInv
    /\ LockInv
    /\ MemoryMatchesDisk
    /\ FilesInv
    /\ KeyInv

-----------------------------------------------------------------------------
(* The operations on a file.                                                *)

LEMMA OpCases ==
  ASSUME NEW op \in Op
  PROVE  \/ op \in AddOp /\ op.kind = "add" /\ op.name \in Names /\ op.key \in NewKeys
         \/ op \in UpdateOp /\ op.kind = "update" /\ op.name \in Names /\ op.to \in Names
         \/ op \in RevokeOp /\ op.kind = "revoke" /\ op.name \in Names
  BY DEF Op, AddOp, UpdateOp, RevokeOp

LEMMA FileFields ==
  ASSUME NEW f \in File
  PROVE  /\ f.keys \subseteq Row /\ f.revoked \subseteq Names
         /\ \A r \in f.keys : r.name \in Names /\ r.key \in Keys /\ r.models \in Models
  BY DEF File, Row

LEMMA PatchedRow ==
  ASSUME NEW r \in Row, NEW op \in UpdateOp
  PROVE  /\ Patched(r, op) \in Row
         /\ Patched(r, op).name = op.to
         /\ Patched(r, op).key = r.key
  BY DEF Patched, Row, UpdateOp

LEMMA KindOfResult ==
  ASSUME NEW f, NEW op
  PROVE  /\ op.kind = "add" => Result(f, op) = AddResult(f, op) /\ Allowed(f, op) = AddAllowed(f, op)
         /\ op.kind = "update" => Result(f, op) = UpdateResult(f, op) /\ Allowed(f, op) = UpdateAllowed(f, op)
         /\ op.kind = "revoke" => Result(f, op) = RevokeResult(f, op) /\ Allowed(f, op) = RevokeAllowed(f, op)
  BY DEF Result, Allowed

LEMMA UpdateFields ==
  ASSUME NEW f \in File, NEW op \in UpdateOp
  PROVE  /\ UpdateResult(f, op).revoked = f.revoked
         /\ UpdateResult(f, op).keys
              = {IF r.name = op.name THEN Patched(r, op) ELSE r : r \in f.keys}
         /\ UpdateResult(f, op) \in File
<1>1. \A r \in f.keys : (IF r.name = op.name THEN Patched(r, op) ELSE r) \in Row
  BY FileFields, PatchedRow
<1> QED BY <1>1 DEF UpdateResult, File

\* What an operation writes is a key file.
LEMMA ResultInFile ==
  ASSUME NEW f \in File, NEW op \in Op
  PROVE  Result(f, op) \in File
<1>1. CASE op \in AddOp /\ op.kind = "add"
  <2>1. [name |-> op.name, key |-> op.key, models |-> op.models] \in Row
    BY <1>1 DEF AddOp, Row, Keys
  <2> QED BY <1>1, <2>1, KindOfResult, FileFields DEF AddResult, File
<1>2. CASE op \in UpdateOp /\ op.kind = "update"
  BY <1>2, KindOfResult, UpdateFields
<1>3. CASE op \in RevokeOp /\ op.kind = "revoke"
  BY <1>3, KindOfResult, FileFields DEF RevokeResult, RevokeOp, File
<1> QED BY <1>1, <1>2, <1>3, OpCases

\* The only key an operation brings in is the one add minted, and revoke
\* takes the key of its row out.
LEMMA ResultKeys ==
  ASSUME NEW f \in File, NEW op \in Op, GoodFile(f)
  PROVE  /\ op.kind = "add" => KeysOf(Result(f, op)) = KeysOf(f) \cup {op.key}
         /\ op.kind # "add" => KeysOf(Result(f, op)) \subseteq KeysOf(f)
         /\ op.kind = "revoke" =>
              KeysOf(Result(f, op)) \cap {r.key : r \in RowsNamed(f, op.name)} = {}
<1>1. CASE op \in AddOp /\ op.kind = "add"
  <2> DEFINE new == [name |-> op.name, key |-> op.key, models |-> op.models]
  <2>1. new.key = op.key
    OBVIOUS
  <2>2. Result(f, op).keys = f.keys \cup {new}
    BY <1>1, KindOfResult DEF AddResult
  <2> HIDE DEF new
  <2> QED BY <1>1, <2>1, <2>2 DEF KeysOf
<1>2. CASE op \in UpdateOp /\ op.kind = "update"
  <2>1. \A r \in f.keys : (IF r.name = op.name THEN Patched(r, op) ELSE r).key = r.key
    BY <1>2, FileFields, PatchedRow
  <2> QED BY <1>2, <2>1, KindOfResult, UpdateFields DEF KeysOf
<1>3. CASE op \in RevokeOp /\ op.kind = "revoke"
  BY <1>3, KindOfResult DEF RevokeResult, KeysOf, RowsNamed, GoodFile
<1> QED BY <1>1, <1>2, <1>3, OpCases

\* An allowed operation keeps names and keys unambiguous.
LEMMA ResultGood ==
  ASSUME NEW f \in File, NEW op \in Op, GoodFile(f), Allowed(f, op),
         op.kind = "add" => op.key \notin KeysOf(f)
  PROVE  GoodFile(Result(f, op))
<1>1. CASE op \in AddOp /\ op.kind = "add"
  <2> DEFINE new == [name |-> op.name, key |-> op.key, models |-> op.models]
             g == AddResult(f, op)
  <2>1. \A r \in f.keys : r.name # op.name /\ r.key # op.key
    BY <1>1, KindOfResult DEF AddAllowed, LiveNames, LiveRows, LiveEnv, GoodFile, KeysOf
  <2>2. new.name = op.name /\ new.key = op.key
    OBVIOUS
  <2>3. g.keys = f.keys \cup {new} /\ g.revoked = f.revoked \ {op.name}
    BY DEF AddResult
  <2> HIDE DEF new, g
  <2>4. GoodFile(g)
    BY <2>1, <2>2, <2>3 DEF GoodFile
  <2> QED BY <1>1, <2>4, KindOfResult DEF g
<1>2. CASE op \in UpdateOp /\ op.kind = "update"
  <2> DEFINE P(r) == IF r.name = op.name THEN Patched(r, op) ELSE r
             g == UpdateResult(f, op)
  <2>1. /\ op.to = op.name \/ (op.to \notin f.revoked /\ \A r \in f.keys : r.name # op.to)
        /\ op.name \notin f.revoked
    BY <1>2, KindOfResult DEF UpdateAllowed, NameFree
  <2>2. g.keys = {P(r) : r \in f.keys} /\ g.revoked = f.revoked
    BY <1>2, UpdateFields
  <2>3. \A r \in f.keys : /\ P(r).key = r.key
                          /\ P(r).name = IF r.name = op.name THEN op.to ELSE r.name
    BY <1>2, FileFields, PatchedRow
  <2> HIDE DEF P, g
  <2>4. ASSUME NEW r \in f.keys, NEW s \in f.keys,
               P(s).name = P(r).name \/ P(s).key = P(r).key
        PROVE  s = r
    BY <2>1, <2>3, <2>4 DEF GoodFile
  <2>5. \A r \in f.keys : P(r).name \notin f.revoked
    BY <2>1, <2>3 DEF GoodFile
  <2>6. GoodFile(g)
    BY <2>2, <2>4, <2>5 DEF GoodFile
  <2> QED BY <1>2, <2>6, KindOfResult DEF g
<1>3. CASE op \in RevokeOp /\ op.kind = "revoke"
  BY <1>3, KindOfResult DEF RevokeResult, RowsNamed, GoodFile
<1> QED BY <1>1, <1>2, <1>3, OpCases

-----------------------------------------------------------------------------
(* The inductive invariant.                                                 *)

LEMMA CallFields ==
  ASSUME TypeOK, NEW c \in Clients, call[c] # Idle
  PROVE  /\ call[c] \in CallState /\ call[c].op \in Op /\ call[c].next \in File
         /\ call[c].at \in {"queued", "writing", "renamed"}
  BY DEF TypeOK, CallState

LEMMA InitInv == Init => IInv
<1> SUFFICES ASSUME Init PROVE IInv
  OBVIOUS
<1> USE NamesAssumption, StoreAssumption
<1>1. TypeOK
  BY DEF Init, TypeOK
<1>2. QueueInv
  BY DEF Init, QueueInv, Pending
<1>3. LockInv /\ MemoryMatchesDisk
  BY DEF Init, LockInv, Decided, MemoryMatchesDisk
<1>4. FilesInv
  BY DEF Init, FilesInv, GoodFile
<1>5. KeyInv
  BY DEF Init, KeyInv, KeysOf, Minting
<1> QED BY <1>1, <1>2, <1>3, <1>4, <1>5 DEF IInv

\* Only the head of the chain has decided.
LEMMA OneWriter ==
  ASSUME LockInv, NEW c \in Clients, NEW d \in Clients, HasTurn(c), Decided(d)
  PROVE  d = c
  BY DEF LockInv, HasTurn

\* Finish takes the head off the chain and closes its call.
LEMMA FinishQueue ==
  ASSUME IInv, NEW c \in Clients, NEW r, call[c] # Idle, HasTurn(c), Finish(c, r)
  PROVE  /\ QueueInv'
         /\ call'[c] = Idle
         /\ \A d \in Clients : d # c => call'[d] = call[d]
<1> USE DEF IInv, TypeOK
<1>1. /\ call'[c] = Idle
      /\ \A d \in Clients : d # c => call'[d] = call[d]
  BY DEF Finish
<1>2. /\ Len(queue) \in Nat \ {0} /\ queue[1] = c
      /\ Len(queue') = Len(queue) - 1
      /\ \A i \in 1..Len(queue') : queue'[i] = queue[i + 1]
  BY DEF Finish, HasTurn
<1>3. depth' = Len(queue')
  BY <1>2 DEF Finish, QueueInv
<1>4. \A i, j \in 1..Len(queue') : queue'[i] = queue'[j] => i = j
  <2> SUFFICES ASSUME NEW i \in 1..Len(queue'), NEW j \in 1..Len(queue'),
                      queue'[i] = queue'[j]
               PROVE  i = j
    OBVIOUS
  <2>1. i + 1 \in 1..Len(queue) /\ j + 1 \in 1..Len(queue)
    BY <1>2
  <2> QED BY <1>2, <2>1 DEF QueueInv
<1>5. \A i \in 1..Len(queue') : call'[queue'[i]] # Idle
  <2> SUFFICES ASSUME NEW i \in 1..Len(queue') PROVE call'[queue'[i]] # Idle
    OBVIOUS
  <2>1. i + 1 \in 1..Len(queue) /\ 1 \in 1..Len(queue) /\ queue'[i] = queue[i + 1]
    BY <1>2
  <2>2. queue[i + 1] # c /\ queue[i + 1] \in Clients
    BY <1>2, <2>1 DEF QueueInv
  <2> QED BY <1>1, <2>1, <2>2 DEF QueueInv
<1>6. ASSUME NEW d \in Clients, call'[d] # Idle
      PROVE  \E i \in 1..Len(queue') : queue'[i] = d
  <2>1. d # c /\ call[d] # Idle
    BY <1>1, <1>6
  <2>2. PICK i \in 1..Len(queue) : queue[i] = d
    BY <2>1 DEF QueueInv, Pending
  <2>3. i # 1 /\ i - 1 \in 1..Len(queue')
    BY <1>2, <2>1, <2>2
  <2> QED BY <1>2, <2>2, <2>3
<1> QED BY <1>1, <1>3, <1>4, <1>5, <1>6 DEF QueueInv, Pending

\* A call that ends without having renamed leaves the files alone.
LEMMA QuietFinishInv ==
  ASSUME IInv, NEW c \in Clients, NEW r \in {"ok", "refused", "failed"},
         call[c] # Idle, call[c].at # "renamed", HasTurn(c),
         Finish(c, r), UNCHANGED <<file, disk, buried>>
  PROVE  IInv'
<1> USE DEF IInv
<1>1. TypeOK'
  BY DEF TypeOK, Finish, HasTurn
<1>2. QueueInv' /\ call'[c] = Idle /\ \A d \in Clients : d # c => call'[d] = call[d]
  BY FinishQueue
<1>3. LockInv'
  BY <1>2, OneWriter DEF LockInv, Decided
<1>4. file = disk
  BY OneWriter DEF MemoryMatchesDisk, Decided, Waiting
<1>5. MemoryMatchesDisk' /\ FilesInv'
  BY <1>4 DEF MemoryMatchesDisk, FilesInv, GoodFile
<1>6. KeyInv'
  <2>1. minted' = minted
    BY DEF Finish
  <2>2. \A d \in Clients : Minting(d)' => Minting(d) /\ call'[d] = call[d]
    BY <1>2 DEF Minting
  <2> QED BY <2>1, <2>2 DEF KeyInv, KeysOf
<1> QED BY <1>1, <1>2, <1>3, <1>5, <1>6

LEMMA SubmitInv ==
  ASSUME IInv, NEW c \in Clients, NEW op \in Requests, Submit(c, op)
  PROVE  IInv'
<1> USE DEF IInv
<1> DEFINE new == [op |-> op, at |-> "queued", next |-> EmptyFile]
<1>1. /\ op \in Op /\ new \in CallState /\ new # Idle
      /\ new.op = op /\ new.at = "queued"
  BY StoreAssumption DEF CallState, File, EmptyFile
<1> HIDE DEF new
<1>2. /\ call[c] = Idle /\ call'[c] = new
      /\ \A d \in Clients : d # c => call'[d] = call[d]
      /\ queue' = Append(queue, c) /\ UNCHANGED <<file, disk, buried>>
  BY DEF Submit, TypeOK, new
<1>3. /\ minted' \in 0..MaxKeys /\ minted <= minted'
      /\ op.kind = "add" => op.key = minted' /\ minted' = minted + 1
  BY <1>1, NamesAssumption, OpCases DEF Submit, TypeOK, NewKeys
<1>4. TypeOK'
  <2>1. call' \in [Clients -> CallState \cup {Idle}]
    BY <1>1 DEF TypeOK, Submit, new
  <2>2. queue' \in Seq(Clients)
    BY <1>2 DEF TypeOK
  <2>3. depth' \in Int /\ calls' \in 0..MaxCalls
    BY StoreAssumption DEF TypeOK, Submit
  <2>4. reply' \in [Clients -> {"none", "ok", "refused", "busy", "failed"}]
    BY DEF TypeOK, Submit
  <2> QED BY <1>2, <1>3, <2>1, <2>2, <2>3, <2>4 DEF TypeOK, Submit
<1>5. QueueInv'
  <2>1. /\ Len(queue') = Len(queue) + 1 /\ queue'[Len(queue) + 1] = c /\ Len(queue) \in Nat
        /\ \A i \in 1..Len(queue) : queue'[i] = queue[i] /\ queue[i] \in Clients
    BY <1>2 DEF TypeOK
  <2>2. depth' = Len(queue')
    BY <2>1 DEF Submit, QueueInv
  <2>3. \A i \in 1..Len(queue) : queue[i] # c
    BY <1>2 DEF QueueInv
  <2>4. \A i \in 1..Len(queue') : call'[queue'[i]] # Idle
    BY <1>1, <1>2, <2>1, <2>3 DEF QueueInv
  <2>5. \A i, j \in 1..Len(queue') : queue'[i] = queue'[j] => i = j
    BY <2>1, <2>3 DEF QueueInv
  <2>6. ASSUME NEW d \in Clients, call'[d] # Idle
        PROVE  \E i \in 1..Len(queue') : queue'[i] = d
    <3>1. CASE d = c
      BY <2>1, <3>1
    <3>2. CASE d # c
      BY <1>2, <2>1, <2>6, <3>2 DEF QueueInv, Pending
    <3> QED BY <3>1, <3>2
  <2> QED BY <2>2, <2>4, <2>5, <2>6 DEF QueueInv, Pending
<1>6. LockInv'
  <2> SUFFICES ASSUME NEW d \in Clients, Decided(d)'
               PROVE  /\ HasTurn(d)'
                      /\ Allowed(file, call[d].op)
                      /\ call[d].next = Result(file, call[d].op)
                      /\ call[d].at = "writing" => disk = file
                      /\ call[d].at = "renamed" => disk = call[d].next
                      /\ call'[d] = call[d]
    BY <1>2 DEF LockInv
  <2>1. d # c /\ call'[d] = call[d] /\ Decided(d)
    BY <1>1, <1>2 DEF Decided
  <2>2. HasTurn(d)'
    BY <1>2, <2>1 DEF LockInv, HasTurn, TypeOK
  <2> QED BY <2>1, <2>2 DEF LockInv
<1>7. MemoryMatchesDisk' /\ FilesInv'
  BY <1>2 DEF MemoryMatchesDisk, Waiting, FilesInv, GoodFile
<1>8. KeyInv'
  <2>1. \A k \in KeysOf(file) \cup KeysOf(disk) \cup buried : k \in Int /\ k <= minted
    <3>1. Keys \subseteq Int
      BY NamesAssumption DEF Keys, NewKeys
    <3>2. KeysOf(file) \subseteq Keys /\ KeysOf(disk) \subseteq Keys /\ buried \subseteq Keys
      BY FileFields DEF KeysOf, TypeOK
    <3> QED BY <3>1, <3>2 DEF KeyInv
  <2>2. \A d \in Clients : d # c /\ Minting(d)' => Minting(d) /\ call'[d] = call[d] /\ call[d].op.key \in Int
    BY <1>2, CallFields, OpCases DEF Minting, NewKeys
  <2>3. Minting(c)' => /\ call'[c].op.key = minted + 1 /\ minted' = minted + 1
    BY <1>1, <1>2, <1>3 DEF Minting
  <2>4. minted \in Int /\ minted' \in Int
    BY DEF TypeOK, Submit
  <2>5. \A d \in Clients : d # c /\ Minting(d)' => call'[d].op.key <= minted
    BY <2>2 DEF KeyInv
  <2>6. \A k \in KeysOf(file)' \cup KeysOf(disk)' : k <= minted' /\ k \notin buried'
    BY <1>2, <1>3, <2>1, <2>4 DEF KeyInv, KeysOf
  <2>7. \A k \in buried' : k <= minted'
    BY <1>2, <1>3, <2>1, <2>4
  <2>8. ASSUME NEW d \in Clients, Minting(d)'
        PROVE  /\ call'[d].op.key <= minted'
               /\ call'[d].op.key \notin KeysOf(file) \cup KeysOf(disk) \cup buried
               /\ \A e \in Clients : Minting(e)' /\ call'[e].op.key = call'[d].op.key => e = d
    <3>1. CASE d = c
      BY <2>1, <2>3, <2>4, <2>5, <2>8, <3>1
    <3>2. CASE d # c
      BY <1>3, <2>2, <2>3, <2>4, <2>5, <2>8, <3>2 DEF KeyInv
    <3> QED BY <3>1, <3>2
  <2> QED BY <1>2, <2>6, <2>7, <2>8 DEF KeyInv, KeysOf
<1> QED BY <1>4, <1>5, <1>6, <1>7, <1>8

LEMMA StartWriteInv ==
  ASSUME IInv, NEW c \in Clients, StartWrite(c)
  PROVE  IInv'
<1> USE DEF IInv
<1> DEFINE next == Result(file, call[c].op)
<1>1. /\ call[c] # Idle /\ call[c].at = "queued" /\ HasTurn(c)
      /\ call[c] \in CallState /\ call[c].op \in Op
      /\ Allowed(file, call[c].op)
  BY CallFields DEF StartWrite, Waiting
<1>2. next \in File
  BY <1>1, ResultInFile DEF TypeOK
<1> HIDE DEF next
<1>3. /\ call'[c] \in CallState /\ call'[c] # Idle
      /\ call'[c].at = "writing" /\ call'[c].op = call[c].op /\ call'[c].next = next
      /\ \A d \in Clients : d # c => call'[d] = call[d]
      /\ call' \in [Clients -> CallState \cup {Idle}]
  <2> DEFINE new == [call[c] EXCEPT !.at = "writing", !.next = next]
  <2>1. /\ new \in CallState /\ new # Idle
        /\ new.at = "writing" /\ new.op = call[c].op /\ new.next = next
    BY <1>1, <1>2, StoreAssumption DEF CallState
  <2>2. call' = [call EXCEPT ![c] = new]
    BY DEF StartWrite, TypeOK, next
  <2> HIDE DEF new
  <2> QED BY <2>1, <2>2 DEF TypeOK
<1>4. UNCHANGED <<file, disk, queue, depth, minted, buried>>
  BY DEF StartWrite
<1>5. TypeOK'
  BY <1>3 DEF TypeOK, StartWrite
<1>6. QueueInv'
  BY <1>1, <1>3, <1>4 DEF QueueInv, Pending, TypeOK
<1>7. disk = file
  BY <1>1, OneWriter DEF MemoryMatchesDisk, Decided, Waiting
<1>8. LockInv'
  <2>1. \A d \in Clients : Decided(d)' => d = c
    BY <1>1, <1>3, OneWriter DEF Decided
  <2> QED BY <1>1, <1>3, <1>4, <1>7, <2>1 DEF LockInv, HasTurn, next
<1>9. MemoryMatchesDisk' /\ FilesInv'
  BY <1>4, <1>7 DEF MemoryMatchesDisk, FilesInv, GoodFile
<1>10. KeyInv'
  <2>1. \A d \in Clients : Minting(d)' => Minting(d) /\ call'[d].op = call[d].op
    BY <1>1, <1>3 DEF Minting
  <2> QED BY <1>4, <2>1 DEF KeyInv, KeysOf
<1> QED BY <1>5, <1>6, <1>8, <1>9, <1>10

\* Facts about the file a decided call writes.
LEMMA NextFile ==
  ASSUME IInv, NEW c \in Clients, Decided(c)
  PROVE  /\ call[c].next \in File /\ call[c].op \in Op
         /\ call[c].next = Result(file, call[c].op)
         /\ call[c].at = "writing" => GoodFile(call[c].next)
<1> USE DEF IInv
<1>1. /\ call[c].next \in File /\ call[c].op \in Op /\ file \in File
      /\ call[c].next = Result(file, call[c].op) /\ Allowed(file, call[c].op)
  BY CallFields DEF Decided, LockInv, TypeOK
<1>2. call[c].at = "writing" /\ call[c].op.kind = "add" => call[c].op.key \notin KeysOf(file)
  BY DEF Decided, KeyInv, Minting
<1>3. GoodFile(file)
  BY DEF FilesInv
<1> QED BY <1>1, <1>2, <1>3, ResultGood

LEMMA RenameInv ==
  ASSUME IInv, NEW c \in Clients, Rename(c)
  PROVE  IInv'
<1> USE DEF IInv
<1>1. /\ call[c] # Idle /\ call[c].at = "writing" /\ Decided(c) /\ HasTurn(c)
      /\ call[c] \in CallState
  BY CallFields DEF Rename, Waiting, Decided, LockInv
<1>2. /\ call[c].next \in File /\ GoodFile(call[c].next) /\ call[c].op \in Op
      /\ call[c].next = Result(file, call[c].op)
  BY <1>1, NextFile
<1>3. /\ call'[c] \in CallState /\ call'[c] # Idle
      /\ call'[c].at = "renamed" /\ call'[c].op = call[c].op /\ call'[c].next = call[c].next
      /\ \A d \in Clients : d # c => call'[d] = call[d]
      /\ call' \in [Clients -> CallState \cup {Idle}]
  BY <1>1, StoreAssumption DEF Rename, TypeOK, CallState
<1>4. disk' = call[c].next /\ UNCHANGED <<file, queue, depth, minted, buried>>
  BY DEF Rename
<1>5. TypeOK'
  BY <1>2, <1>3 DEF TypeOK, Rename
<1>6. QueueInv'
  BY <1>1, <1>3, <1>4 DEF QueueInv, Pending, TypeOK
<1>7. LockInv'
  <2>1. \A d \in Clients : Decided(d)' => d = c
    BY <1>1, <1>3, OneWriter DEF Decided
  <2> QED BY <1>1, <1>3, <1>4, <2>1 DEF LockInv, HasTurn
<1>8. MemoryMatchesDisk'
  BY <1>3 DEF MemoryMatchesDisk, Waiting
<1>9. FilesInv'
  BY <1>2, <1>4 DEF FilesInv, GoodFile
<1>10. KeyInv'
  <2>1. /\ KeysOf(call[c].next) \subseteq KeysOf(file) \cup {call[c].op.key}
        /\ call[c].op.kind # "add" => KeysOf(call[c].next) \subseteq KeysOf(file)
    BY <1>2, ResultKeys DEF FilesInv, TypeOK
  <2>2. call[c].op.kind = "add" => Minting(c)
    BY <1>1 DEF Minting
  <2>3. \A d \in Clients : Minting(d)' => d # c /\ Minting(d) /\ call'[d] = call[d]
    BY <1>1, <1>3 DEF Minting
  <2>4. KeysOf(disk)' = KeysOf(call[c].next) /\ KeysOf(file)' = KeysOf(file)
    BY <1>4 DEF KeysOf
  <2>5. \A k \in KeysOf(call[c].next) : k <= minted /\ k \notin buried
    BY <2>1, <2>2 DEF KeyInv
  <2>6. \A d \in Clients : Minting(d)' => call[d].op.key \notin KeysOf(call[c].next)
    BY <2>1, <2>2, <2>3 DEF KeyInv
  <2> QED BY <1>4, <2>3, <2>4, <2>5, <2>6 DEF KeyInv
<1> QED BY <1>5, <1>6, <1>7, <1>8, <1>9, <1>10

LEMMA PublishInv ==
  ASSUME IInv, NEW c \in Clients, Publish(c)
  PROVE  IInv'
<1> USE DEF IInv
<1> DEFINE op == call[c].op
           gone == IF op.kind = "revoke" THEN {r.key : r \in RowsNamed(file, op.name)} ELSE {}
<1>1. /\ call[c] # Idle /\ call[c].at = "renamed" /\ Decided(c) /\ HasTurn(c)
      /\ Finish(c, "ok") /\ file' = call[c].next /\ disk' = disk /\ buried' = buried \cup gone
      /\ minted' = minted
  BY DEF Publish, Waiting, Decided, LockInv, Finish
<1>2. /\ call[c].next \in File /\ op \in Op /\ call[c].next = Result(file, op)
      /\ disk = call[c].next
  BY <1>1, NextFile DEF LockInv
<1>3. QueueInv' /\ call'[c] = Idle /\ \A d \in Clients : d # c => call'[d] = call[d]
  BY <1>1, FinishQueue
<1>4. gone \subseteq KeysOf(file) /\ KeysOf(file) \subseteq Keys
  BY FileFields DEF RowsNamed, KeysOf, TypeOK
<1>5. TypeOK'
  BY <1>1, <1>2, <1>4 DEF TypeOK, Finish, HasTurn
<1>6. LockInv'
  BY <1>1, <1>3, OneWriter DEF LockInv, Decided
<1>7. MemoryMatchesDisk' /\ FilesInv'
  BY <1>1, <1>2 DEF MemoryMatchesDisk, FilesInv, GoodFile
<1>8. KeyInv'
  <2>1. KeysOf(call[c].next) \cap gone = {}
    BY <1>2, ResultKeys DEF FilesInv, TypeOK
  <2>2. KeysOf(file)' = KeysOf(disk) /\ KeysOf(disk)' = KeysOf(disk) /\ KeysOf(disk) = KeysOf(call[c].next)
    BY <1>1, <1>2 DEF KeysOf
  <2>3. \A d \in Clients : Minting(d)' => Minting(d) /\ call'[d] = call[d]
    BY <1>3 DEF Minting
  <2> HIDE DEF gone
  <2> QED BY <1>1, <1>4, <2>1, <2>2, <2>3 DEF KeyInv
<1> QED BY <1>3, <1>5, <1>6, <1>7, <1>8

LEMMA CrashInv ==
  ASSUME IInv, Crash
  PROVE  IInv'
<1> USE DEF IInv
<1>1. \A c \in Clients : call'[c] = Idle
  BY DEF Crash
<1>2. TypeOK'
  BY StoreAssumption DEF TypeOK, Crash
<1>3. QueueInv' /\ LockInv' /\ MemoryMatchesDisk'
  BY <1>1 DEF Crash, QueueInv, Pending, LockInv, Decided, MemoryMatchesDisk
<1>4. FilesInv' /\ KeyInv'
  BY <1>1 DEF Crash, FilesInv, GoodFile, KeyInv, KeysOf, Minting
<1> QED BY <1>2, <1>3, <1>4

LEMMA TurnAwayInv ==
  ASSUME IInv, NEW c \in Clients, TurnAway(c)
  PROVE  IInv'
<1> USE DEF IInv
<1>1. UNCHANGED <<file, disk, call, queue, depth, minted, buried>>
  BY DEF TurnAway
<1>2. TypeOK'
  BY DEF TypeOK, TurnAway
<1>3. QueueInv' /\ LockInv' /\ MemoryMatchesDisk'
  BY <1>1 DEF QueueInv, Pending, LockInv, Decided, HasTurn, MemoryMatchesDisk, Waiting
<1>4. FilesInv' /\ KeyInv'
  BY <1>1 DEF FilesInv, GoodFile, KeyInv, KeysOf, Minting
<1> QED BY <1>2, <1>3, <1>4

LEMMA StutterInv == IInv /\ UNCHANGED vars => IInv'
  BY DEF IInv, vars, TypeOK, QueueInv, Pending, LockInv, Decided, HasTurn,
         MemoryMatchesDisk, Waiting, FilesInv, GoodFile, KeyInv, KeysOf, Minting

LEMMA NextInv == IInv /\ [Next]_vars => IInv'
<1> SUFFICES ASSUME IInv, [Next]_vars PROVE IInv'
  OBVIOUS
<1>1. ASSUME NEW c \in Clients, NEW op \in Requests, Submit(c, op) PROVE IInv'
  BY <1>1, SubmitInv
<1>2. ASSUME NEW c \in Clients, TurnAway(c) PROVE IInv'
  BY <1>2, TurnAwayInv
<1>3. ASSUME NEW c \in Clients, Reject(c) PROVE IInv'
  BY <1>3, QuietFinishInv DEF Reject, Waiting
<1>4. ASSUME NEW c \in Clients, Noop(c) PROVE IInv'
  BY <1>4, QuietFinishInv DEF Noop, Waiting
<1>5. ASSUME NEW c \in Clients, StartWrite(c) PROVE IInv'
  BY <1>5, StartWriteInv
<1>6. ASSUME NEW c \in Clients, Rename(c) PROVE IInv'
  BY <1>6, RenameInv
<1>7. ASSUME NEW c \in Clients, WriteFails(c) PROVE IInv'
  BY <1>7, QuietFinishInv DEF WriteFails, Waiting, IInv, LockInv, Decided
<1>8. ASSUME NEW c \in Clients, Publish(c) PROVE IInv'
  BY <1>8, PublishInv
<1>9. CASE Crash
  BY <1>9, CrashInv
<1>10. CASE UNCHANGED vars
  BY <1>10, StutterInv
<1> QED BY <1>1, <1>2, <1>3, <1>4, <1>5, <1>6, <1>7, <1>8, <1>9, <1>10 DEF Next

THEOREM Invariant == Spec => []IInv
  BY InitInv, NextInv, PTL DEF Spec

-----------------------------------------------------------------------------
(* What follows for the program.                                            *)

\* createApiKeyStore's variables keep the shape the source declares.
THEOREM TypeCorrect == Spec => []TypeOK
<1>1. IInv => TypeOK
  BY DEF IInv
<1> QED BY <1>1, Invariant, PTL

\* persist publishes after the write: authentication and the next boot see
\* the same file except between a rename and its publication.
THEOREM MemoryAgreesWithDisk == Spec => []MemoryMatchesDisk
<1>1. IInv => MemoryMatchesDisk
  BY DEF IInv
<1> QED BY <1>1, Invariant, PTL

\* A key whose revocation was acknowledged authenticates in no later state.
THEOREM RevocationIsFinal == Spec => []RevokedKeysStayDead
<1>1. IInv => RevokedKeysStayDead
  BY DEF IInv, KeyInv, KeysOf, RevokedKeysStayDead, LiveRows
<1> QED BY <1>1, Invariant, PTL

\* Lookups by name inside the lock are unambiguous.
THEOREM NamesAreIdentities == Spec => []NamesIdentifyRows
<1>1. IInv => NamesIdentifyRows
  BY DEF IInv, FilesInv, GoodFile, NamesIdentifyRows
<1> QED BY <1>1, Invariant, PTL

\* The counter behind MAX_WRITE_QUEUE_DEPTH never drifts from the queue.
THEOREM DepthIsExact == Spec => []DepthIsQueue
<1>1. ASSUME IInv PROVE DepthIsQueue
  <2>1. DOMAIN queue = 1..Len(queue) /\ \A i \in 1..Len(queue) : queue[i] \in Clients
    BY <1>1 DEF IInv, TypeOK
  <2> QED BY <1>1, <2>1 DEF IInv, QueueInv, Pending, DepthIsQueue
<1> QED BY <1>1, Invariant, PTL

-----------------------------------------------------------------------------
(* The refinement of KeystoreContract.                                      *)

Open(x) == [op |-> x.op, at |-> IF x.at = "renamed" THEN "performed" ELSE "asked"]
AbsCall == [c \in Clients |-> IF call[c] = Idle THEN Idle ELSE Open(call[c])]

LEMMA AbsOpen ==
  ASSUME TypeOK, NEW c \in Clients, call[c] # Idle
  PROVE  /\ AbsCall[c] # Idle
         /\ AbsCall[c].op = call[c].op
         /\ AbsCall[c].at = IF call[c].at = "renamed" THEN "performed" ELSE "asked"
<1>1. call[c].op \in Op
  BY CallFields
<1>2. Open(call[c]) \in [op : Op, at : {"asked", "performed"}]
  BY <1>1 DEF Open
<1>3. AbsCall[c] = Open(call[c])
  BY DEF AbsCall
<1>4. AbsCall[c] # Idle
  BY <1>2, <1>3, StoreAssumption
<1> QED BY <1>3, <1>4 DEF Open

\* The contract applies the operations of Keystore.
LEMMA SameAllowed ==
  ASSUME NEW f, NEW op
  PROVE  Contract!Allowed(f, op) = Allowed(f, op)
<1>1. Contract!AddAllowed(f, op) = AddAllowed(f, op)
  BY DEF Contract!AddAllowed, AddAllowed, Contract!LiveNames, LiveNames,
         Contract!LiveRows, LiveRows, Contract!LiveEnv, LiveEnv
<1>2. Contract!RevokeAllowed(f, op) = RevokeAllowed(f, op)
  BY DEF Contract!RevokeAllowed, RevokeAllowed, Contract!LiveNames, LiveNames,
         Contract!LiveRows, LiveRows, Contract!LiveEnv, LiveEnv
<1>3. Contract!UpdateAllowed(f, op) = UpdateAllowed(f, op)
  BY DEF Contract!UpdateAllowed, UpdateAllowed, Contract!RowsNamed, RowsNamed,
         Contract!NameFree, NameFree, Contract!WithinCap, WithinCap,
         Contract!Patched, Patched
<1> QED BY <1>1, <1>2, <1>3 DEF Contract!Allowed, Allowed

LEMMA SameResult ==
  ASSUME NEW f, NEW op
  PROVE  Contract!Result(f, op) = Result(f, op)
<1>1. Contract!AddResult(f, op) = AddResult(f, op)
  BY DEF Contract!AddResult, AddResult
<1>2. Contract!RevokeResult(f, op) = RevokeResult(f, op)
  BY DEF Contract!RevokeResult, RevokeResult, Contract!RowsNamed, RowsNamed
<1>3. Contract!UpdateResult(f, op) = UpdateResult(f, op)
  BY DEF Contract!UpdateResult, UpdateResult, Contract!Patched, Patched
<1> QED BY <1>1, <1>2, <1>3 DEF Contract!Result, Result

\* Closing a call closes its abstract call.
LEMMA AbsFinish ==
  ASSUME TypeOK, NEW c \in Clients, NEW r, Finish(c, r), UNCHANGED disk
  PROVE  Contract!Answer(c, r)
<1>1. AbsCall' = [AbsCall EXCEPT ![c] = Idle]
  BY DEF AbsCall, Finish, TypeOK, Open
<1> QED BY <1>1 DEF Contract!Answer, AbsCall, Open, Finish

LEMMA InitContract == Init => Contract!Init
  BY DEF Init, Contract!Init

\* Whoever decides sees the file that is on disk.
LEMMA HeadSeesDisk ==
  ASSUME IInv, NEW c \in Clients, HasTurn(c), call[c].at # "renamed"
  PROVE  file = disk
  BY OneWriter DEF IInv, MemoryMatchesDisk, Decided, Waiting

LEMMA StepContract ==
  ASSUME IInv, [Next]_vars
  PROVE  [Contract!Next]_(Contract!cvars)
<1> USE DEF IInv
<1>1. ASSUME NEW c \in Clients, NEW op \in Requests, Submit(c, op)
      PROVE  Contract!Ask(c)
  <2>1. AbsCall' = [AbsCall EXCEPT ![c] = [op |-> op, at |-> "asked"]]
    <3> DEFINE new == [op |-> op, at |-> "queued", next |-> EmptyFile]
    <3>1. new # Idle /\ Open(new) = [op |-> op, at |-> "asked"]
      <4>1. op \in Op /\ EmptyFile \in File
        BY StoreAssumption DEF File, EmptyFile
      <4>2. new \in CallState
        BY <4>1 DEF CallState
      <4> QED BY <4>2, StoreAssumption DEF Open
    <3>2. call' = [call EXCEPT ![c] = new]
      BY <1>1 DEF Submit
    <3> HIDE DEF new
    <3> QED BY <3>1, <3>2 DEF AbsCall, TypeOK
  <2>2. AbsCall[c] = Idle
    BY <1>1 DEF Submit, AbsCall
  <2> QED BY <1>1, <2>1, <2>2 DEF Submit, Contract!Ask, AbsCall, Open
<1>2. ASSUME NEW c \in Clients, TurnAway(c)
      PROVE  Contract!TurnAway(c)
  <2>1. PICK r \in {"refused", "busy"} : reply' = [reply EXCEPT ![c] = r]
    BY <1>2 DEF TurnAway
  <2>2. AbsCall[c] = Idle /\ AbsCall' = [AbsCall EXCEPT ![c] = Idle] /\ disk' = disk
    BY <1>2 DEF TurnAway, AbsCall, Open, TypeOK
  <2> QED BY <2>1, <2>2 DEF Contract!TurnAway, Contract!Answer, AbsCall, Open
<1>3. ASSUME NEW c \in Clients, Reject(c)
      PROVE  Contract!Refuse(c)
  <2>1. file = disk /\ ~Allowed(disk, call[c].op) /\ call[c] # Idle /\ call[c].at = "queued"
    BY <1>3, HeadSeesDisk DEF Reject, Waiting
  <2>2. Contract!Answer(c, "refused")
    BY <1>3, AbsFinish DEF Reject
  <2> QED BY <2>1, <2>2, AbsOpen, SameAllowed DEF Contract!Refuse, AbsCall, Open
<1>4. ASSUME NEW c \in Clients, Noop(c)
      PROVE  Contract!AcknowledgeNoop(c)
  <2>1. /\ call[c] # Idle /\ call[c].at = "queued"
        /\ Allowed(disk, call[c].op) /\ Result(disk, call[c].op) = disk
    BY <1>4, HeadSeesDisk DEF Noop, Waiting
  <2>2. Contract!Answer(c, "ok")
    BY <1>4, AbsFinish DEF Noop
  <2> QED BY <2>1, <2>2, AbsOpen, SameAllowed, SameResult DEF Contract!AcknowledgeNoop, AbsCall, Open
<1>5. ASSUME NEW c \in Clients, StartWrite(c)
      PROVE  UNCHANGED Contract!cvars
  <2>1. \A d \in Clients : /\ call'[d] = Idle <=> call[d] = Idle
                           /\ call[d] # Idle => Open(call'[d]) = Open(call[d])
    <3>1. CASE call[c] \in CallState /\ call[c].at = "queued" /\ call[c] # Idle
      <4> DEFINE new == [call[c] EXCEPT !.at = "writing", !.next = Result(file, call[c].op)]
      <4>1. new \in CallState /\ new # Idle /\ Open(new) = Open(call[c])
        <5>1. call[c].op \in Op /\ Result(file, call[c].op) \in File
          BY <3>1, CallFields, ResultInFile DEF TypeOK
        <5>2. new \in CallState /\ new.op = call[c].op /\ new.at = "writing"
          BY <3>1, <5>1 DEF CallState
        <5> QED BY <3>1, <5>2, StoreAssumption DEF Open
      <4>2. call' = [call EXCEPT ![c] = new]
        BY <1>5 DEF StartWrite, TypeOK
      <4> HIDE DEF new
      <4> QED BY <3>1, <4>1, <4>2 DEF TypeOK
    <3> QED BY <1>5, <3>1, CallFields DEF StartWrite, Waiting
  <2>2. AbsCall' = AbsCall
    BY <2>1 DEF AbsCall
  <2> QED BY <1>5, <2>2 DEF StartWrite, Contract!cvars, AbsCall, Open
<1>6. ASSUME NEW c \in Clients, Rename(c)
      PROVE  Contract!Perform(c)
  <2>1. /\ call[c] # Idle /\ call[c].at = "writing" /\ call[c] \in CallState
        /\ HasTurn(c) /\ Allowed(file, call[c].op) /\ file = disk
        /\ call[c].next = Result(file, call[c].op)
    BY <1>6, CallFields DEF Rename, Waiting, LockInv, Decided
  <2> DEFINE new == [call[c] EXCEPT !.at = "renamed"]
  <2>2. /\ new # Idle /\ Open(new) = [op |-> call[c].op, at |-> "performed"]
        /\ Open(call[c]) = [op |-> call[c].op, at |-> "asked"]
    BY <2>1, StoreAssumption DEF CallState, Open
  <2>3. call' = [call EXCEPT ![c] = new]
    BY <1>6 DEF Rename, TypeOK
  <2> HIDE DEF new
  <2>4. AbsCall' = [AbsCall EXCEPT ![c] = [op |-> call[c].op, at |-> "performed"]]
    BY <2>1, <2>2, <2>3 DEF AbsCall, TypeOK
  <2>5. AbsCall[c] = [op |-> call[c].op, at |-> "asked"]
    BY <2>1, <2>2 DEF AbsCall
  <2>6. AbsCall' = [AbsCall EXCEPT ![c].at = "performed"]
    <3> DEFINE before == [op |-> call[c].op, at |-> "asked"]
               after == [op |-> call[c].op, at |-> "performed"]
    <3>1. [before EXCEPT !.at = "performed"] = after
      OBVIOUS
    <3> HIDE DEF before, after
    <3>2. [AbsCall[c] EXCEPT !.at = "performed"] = after
      BY <2>5, <3>1 DEF before
    <3>3. AbsCall' = [AbsCall EXCEPT ![c] = after]
      BY <2>4 DEF after
    <3> QED BY <3>2, <3>3
  <2>7. disk' = Result(disk, call[c].op) /\ UNCHANGED reply
    BY <1>6, <2>1 DEF Rename
  <2> QED BY <2>1, <2>6, <2>7, AbsOpen, SameAllowed, SameResult DEF Contract!Perform, AbsCall, Open
<1>7. ASSUME NEW c \in Clients, WriteFails(c)
      PROVE  Contract!Fail(c)
  <2>1. Contract!Answer(c, "failed") /\ call[c] # Idle /\ call[c].at = "writing"
    BY <1>7, AbsFinish DEF WriteFails, Waiting
  <2> QED BY <2>1, AbsOpen DEF Contract!Fail, AbsCall, Open
<1>8. ASSUME NEW c \in Clients, Publish(c)
      PROVE  Contract!Acknowledge(c)
  <2>1. Contract!Answer(c, "ok") /\ call[c] # Idle /\ call[c].at = "renamed"
    BY <1>8, AbsFinish DEF Publish, Waiting
  <2> QED BY <2>1, AbsOpen DEF Contract!Acknowledge, AbsCall, Open
<1>9. ASSUME Crash
      PROVE  Contract!Crash
  BY <1>9 DEF Crash, Contract!Crash
<1>10. ASSUME UNCHANGED vars
       PROVE  UNCHANGED Contract!cvars
  BY <1>10 DEF vars, Contract!cvars
<1> QED BY <1>1, <1>2, <1>3, <1>4, <1>5, <1>6, <1>7, <1>8, <1>9, <1>10
        DEF Next, Contract!Next

\* The store implements the atomic contract: no concurrent add, update or
\* revoke is lost or applied twice, and an acknowledged one is on disk.
THEOREM StoreKeepsContract == Spec => KeepsContract
<1>1. Init => Contract!Init
  BY InitContract
<1>2. IInv /\ [Next]_vars => [Contract!Next]_(Contract!cvars)
  BY StepContract
<1> QED BY <1>1, <1>2, Invariant, PTL DEF Spec, KeepsContract, Contract!Spec
-----------------------------------------------------------------------------
(* Lenient at load, strict at write.                                        *)

\* What was put in the queue passed the checks made before it.
AskedWell == \A c \in Clients : call[c] # Idle => WellFormed(call[c].op)

LEMMA AskedWellInv == IInv /\ AskedWell /\ [Next]_vars => AskedWell'
<1> SUFFICES ASSUME IInv, AskedWell, [Next]_vars
             PROVE  AskedWell'
  OBVIOUS
<1> USE DEF IInv
\* A step that opens no call leaves the operation of every call that stays.
<1>1. ASSUME NEW c \in Clients, \A d \in Clients : d # c => call'[d] = call[d],
             call'[c] = Idle \/ (call[c] # Idle /\ call'[c].op = call[c].op)
      PROVE  AskedWell'
  BY <1>1 DEF AskedWell
<1>2. ASSUME NEW c \in Clients, NEW r, Finish(c, r)
      PROVE  AskedWell'
  BY <1>1, <1>2 DEF Finish, TypeOK
<1>3. ASSUME NEW c \in Clients, NEW op \in Requests, Submit(c, op)
      PROVE  AskedWell'
  BY <1>3 DEF Submit, TypeOK, AskedWell
<1>4. ASSUME NEW c \in Clients, StartWrite(c) \/ Rename(c)
      PROVE  AskedWell'
  <2>1. call[c] # Idle /\ call[c] \in CallState
    BY <1>4, CallFields DEF StartWrite, Rename, Waiting
  <2>2. call'[c].op = call[c].op
    BY <1>4, <2>1 DEF StartWrite, Rename, TypeOK, CallState
  <2>3. \A d \in Clients : d # c => call'[d] = call[d]
    BY <1>4 DEF StartWrite, Rename, TypeOK
  <2> QED BY <1>1, <2>1, <2>2, <2>3
<1>5. ASSUME NEW c \in Clients, TurnAway(c)
      PROVE  AskedWell'
  BY <1>5 DEF TurnAway, AskedWell
<1>6. CASE Crash
  BY <1>6 DEF Crash, AskedWell
<1>7. CASE UNCHANGED vars
  BY <1>7 DEF vars, AskedWell
<1> QED BY <1>2, <1>3, <1>4, <1>5, <1>6, <1>7 DEF Next, Reject, Noop, WriteFails, Publish

\* No operation brings a row beyond the cap into a file.
LEMMA ResultWithinCap ==
  ASSUME NEW f \in File, NEW op \in Op, WellFormed(op), Allowed(f, op)
  PROVE  OverCap(Result(f, op)) \subseteq OverCap(f)
<1>1. CASE op \in AddOp /\ op.kind = "add"
  <2> DEFINE new == [name |-> op.name, key |-> op.key, models |-> op.models]
  <2>1. new.models # "oversized"
    BY <1>1 DEF WellFormed
  <2>2. Result(f, op).keys = f.keys \cup {new}
    BY <1>1, KindOfResult DEF AddResult
  <2> HIDE DEF new
  <2> QED BY <2>1, <2>2 DEF OverCap
<1>2. CASE op \in UpdateOp /\ op.kind = "update"
  <2>1. WithinCap(f, op)
    BY <1>2, KindOfResult DEF UpdateAllowed
  <2>2. ASSUME NEW r \in f.keys, r.name = op.name, Patched(r, op).models = "oversized"
        PROVE  Patched(r, op) \in OverCap(f)
    BY <2>1, <2>2 DEF WithinCap, RowsNamed, OverCap
  <2> QED BY <1>2, <2>2, KindOfResult, UpdateFields DEF OverCap
<1>3. CASE op \in RevokeOp /\ op.kind = "revoke"
  BY <1>3, KindOfResult DEF RevokeResult, OverCap
<1> QED BY <1>1, <1>2, <1>3, OpCases

\* A rename or a patch that omits the models cannot re-persist a row beyond
\* the cap as a new one: what a write leaves over the cap was there before.
THEOREM CapIsKept == Spec => NoWriteBeyondCap
<1>1. Init => AskedWell
  BY DEF Init, AskedWell
<1>2. IInv /\ AskedWell /\ [Next]_vars => OverCap(disk') \subseteq OverCap(disk)
  <2> SUFFICES ASSUME IInv, AskedWell, [Next]_vars, disk' # disk
               PROVE  OverCap(disk') \subseteq OverCap(disk)
    OBVIOUS
  <2>1. PICK c \in Clients : Rename(c)
    BY DEF Next, vars, Submit, TurnAway, Reject, Noop, StartWrite, WriteFails, Publish, Crash
  <2>2. /\ call[c] # Idle /\ call[c].op \in Op /\ Allowed(disk, call[c].op)
        /\ disk' = Result(disk, call[c].op) /\ disk \in File
    BY <2>1, CallFields DEF Rename, Waiting, IInv, LockInv, Decided, TypeOK
  <2> QED BY <2>2, ResultWithinCap DEF AskedWell
<1> QED BY <1>1, <1>2, AskedWellInv, Invariant, PTL DEF Spec, NoWriteBeyondCap
=============================================================================
