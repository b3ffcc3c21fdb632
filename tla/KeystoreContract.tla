-------------------------- MODULE KeystoreContract --------------------------
(***************************************************************************)
(* What the API-key store promises its callers (the ApiKeyStore interface,  *)
(* src/auth/api-key-store.ts): every add, update and revoke takes effect at *)
(* one instant between its request and its answer, on the store as it is at *)
(* that instant; "ok" is answered exactly when it did, and an operation     *)
(* that is turned away changes nothing.  A crash may lose the answer, never *)
(* an effect.                                                               *)
(***************************************************************************)
EXTENDS Keystore

CONSTANTS
    Clients,    \* the admin requests that may be open at once
    Idle,       \* a client with no open request
    Requests,   \* the operations that clients ask for
    StartFiles  \* the files the program may boot from

VARIABLES
    store,  \* the key file
    call,   \* per client: its open request and whether it has taken effect
    reply   \* per client: the answer to its last request

cvars == <<store, call, reply>>

Replies == {"none", "ok", "refused", "busy", "failed"}

Init ==
    /\ store \in StartFiles
    /\ call = [c \in Clients |-> Idle]
    /\ reply = [c \in Clients |-> "none"]

Ask(c) ==
    /\ call[c] = Idle
    /\ \E op \in Requests : call' = [call EXCEPT ![c] = [op |-> op, at |-> "asked"]]
    /\ reply' = [reply EXCEPT ![c] = "none"]
    /\ UNCHANGED store

Perform(c) ==
    /\ call[c] # Idle /\ call[c].at = "asked"
    /\ Allowed(store, call[c].op)
    /\ store' = Result(store, call[c].op)
    /\ call' = [call EXCEPT ![c].at = "performed"]
    /\ UNCHANGED reply

Answer(c, r) ==
    /\ call' = [call EXCEPT ![c] = Idle]
    /\ reply' = [reply EXCEPT ![c] = r]
    /\ UNCHANGED store

Acknowledge(c) == call[c] # Idle /\ call[c].at = "performed" /\ Answer(c, "ok")

\* An update that asks for what the row already says is answered at once.
AcknowledgeNoop(c) ==
    /\ call[c] # Idle /\ call[c].at = "asked"
    /\ Allowed(store, call[c].op) /\ Result(store, call[c].op) = store
    /\ Answer(c, "ok")

\* A refusal is justified by the store of that instant.
Refuse(c) ==
    /\ call[c] # Idle /\ call[c].at = "asked"
    /\ ~Allowed(store, call[c].op)
    /\ Answer(c, "refused")

\* Malformed input and a full queue are answered without opening a call.
TurnAway(c) ==
    /\ call[c] = Idle
    /\ \E r \in {"refused", "busy"} : Answer(c, r)

Fail(c) ==
    /\ call[c] # Idle /\ call[c].at = "asked"
    /\ Answer(c, "failed")

Crash ==
    /\ call' = [c \in Clients |-> Idle]
    /\ reply' = [c \in Clients |-> "none"]
    /\ UNCHANGED store

Next ==
    \/ \E c \in Clients :
          \/ Ask(c) \/ Perform(c) \/ Acknowledge(c) \/ AcknowledgeNoop(c)
          \/ Refuse(c) \/ TurnAway(c) \/ Fail(c)
    \/ Crash

Spec == Init /\ [][Next]_cvars
=============================================================================
