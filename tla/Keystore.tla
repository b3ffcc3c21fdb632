------------------------------ MODULE Keystore ------------------------------
(***************************************************************************)
(* The API-key file of src/auth/api-key-store.ts as a value, and what the   *)
(* three operations on it do.  A file holds the rows issued through         *)
(* /admin/keys and the names that are revoked; the keys baked into the      *)
(* environment (API_KEYS) are constant.  Key strings, createdAt stamps and  *)
(* model patterns are abstracted: a key is an identity, and allowedModels   *)
(* is absent ("open"), within the cap ("listed") or beyond it               *)
(* ("oversized", only in rows that predate MAX_ALLOWED_MODELS_PER_KEY).     *)
(***************************************************************************)
EXTENDS Integers

CONSTANTS
    Names,     \* well-formed key names
    EnvNames,  \* the names that API_KEYS bakes in
    OldKeys,   \* keys of rows written before this program's first boot
    MaxKeys    \* bound on the keys generated by add

ASSUME NamesAssumption ==
    /\ EnvNames \subseteq Names /\ MaxKeys \in Nat
    /\ OldKeys \subseteq Int /\ \A k \in OldKeys : k <= 0

\* Add mints 1, 2, ...
NewKeys == 1..MaxKeys
Keys == OldKeys \cup NewKeys
Models == {"open", "listed", "oversized"}
Row == [name : Names, key : Keys, models : Models]
File == [keys : SUBSET Row, revoked : SUBSET Names]

EmptyFile == [keys |-> {}, revoked |-> {}]

\* Who authenticates: environment keys first, file rows that no live
\* environment key shadows after them, and revocation over both.
LiveEnv(f) == EnvNames \ f.revoked
LiveRows(f) == {r \in f.keys : r.name \notin f.revoked \cup LiveEnv(f)}
LiveNames(f) == LiveEnv(f) \cup {r.name : r \in LiveRows(f)}

RowsNamed(f, n) == {r \in f.keys : r.name = n}

(* A request names an operation and carries what the handler parsed.  "to"  *)
(* is the new name of an update and "models" the list it supplies, or       *)
(* "keep" when the patch omits the field; add brings the key it minted.     *)

AddOp == [kind : {"add"}, name : Names, key : NewKeys, models : Models]
UpdateOp == [kind : {"update"}, name : Names, to : Names, models : Models \cup {"keep"}]
RevokeOp == [kind : {"revoke"}, name : Names]
Op == AddOp \cup UpdateOp \cup RevokeOp

\* What is checked before the write lock: the inputs alone.
WellFormed(op) == op.kind # "revoke" => op.models # "oversized"

AddAllowed(f, op) == op.name \notin LiveNames(f)
AddResult(f, op) ==
    [keys |-> f.keys \cup {[name |-> op.name, key |-> op.key, models |-> op.models]},
     revoked |-> f.revoked \ {op.name}]

\* Mutant: an omitted field is taken as a value.
Patched_StoresOmitted(r, op) == [r EXCEPT !.name = op.to, !.models = op.models]

Patched(r, op) ==
    [r EXCEPT !.name = op.to,
              !.models = IF op.models = "keep" THEN @ ELSE op.models]

\* Mutant: the new name is compared with the environment and the revoked only.
NameFree_IgnoresRows(f, op) == op.to = op.name \/ op.to \notin f.revoked \cup EnvNames

NameFree(f, op) ==
    op.to = op.name \/ op.to \notin f.revoked \cup EnvNames \cup {r.name : r \in f.keys}

\* Mutant: the cap is checked on the payload alone, before the lock.
WithinCap_PayloadOnly(f, op) == TRUE

\* Strict at write: a row that changes must satisfy the cap, one that is
\* only asked to stay as it is need not.
WithinCap(f, op) ==
    \A r \in RowsNamed(f, op.name) : Patched(r, op) = r \/ Patched(r, op).models # "oversized"

UpdateAllowed(f, op) ==
    /\ op.name \notin f.revoked
    /\ op.name \notin EnvNames
    /\ RowsNamed(f, op.name) # {}
    /\ NameFree(f, op)
    /\ WithinCap(f, op)
UpdateResult(f, op) ==
    [f EXCEPT !.keys = {IF r.name = op.name THEN Patched(r, op) ELSE r : r \in @}]

RevokeAllowed(f, op) == op.name \in LiveNames(f)
\* Mutant: the name is marked and the row stays.
RevokeResult_KeepsRow(f, op) == [f EXCEPT !.revoked = @ \cup {op.name}]

RevokeResult(f, op) ==
    [keys |-> f.keys \ RowsNamed(f, op.name), revoked |-> f.revoked \cup {op.name}]

Allowed(f, op) ==
    CASE op.kind = "add" -> AddAllowed(f, op)
      [] op.kind = "update" -> UpdateAllowed(f, op)
      [] op.kind = "revoke" -> RevokeAllowed(f, op)

Result(f, op) ==
    CASE op.kind = "add" -> AddResult(f, op)
      [] op.kind = "update" -> UpdateResult(f, op)
      [] op.kind = "revoke" -> RevokeResult(f, op)
=============================================================================
