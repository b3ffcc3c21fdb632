----------------------------- MODULE TokenSource ----------------------------
(***************************************************************************)
(* What the token manager of an account promises to those who ask it for a  *)
(* token (the OAuthManager interface, src/auth/oauth.ts): one refresh at a  *)
(* time, begun with the token then in use; whoever asks while it is under   *)
(* way shares its end, and nobody waits for one that is not; it brings the  *)
(* next token of its login into use before it ends, or it fails; nothing    *)
(* else changes the token in use but the operator and a restart.            *)
(***************************************************************************)
EXTENDS Naturals

CONSTANT Users  \* those who ask

VARIABLES
    held,     \* the token in use
    fresh,    \* whether it is handed out without a refresh
    flight,   \* the refresh under way and its token
    waiting,  \* the users who wait for its end
    issued    \* how many logins the operator has pasted

svars == <<held, fresh, flight, waiting, issued>>

Tokens == [login : Nat, gen : Nat]
First == [login |-> 0, gen |-> 0]
NoFlight == [phase |-> "none", token |-> First]

Init ==
    /\ held = First
    /\ fresh \in BOOLEAN
    /\ flight = NoFlight
    /\ waiting = {}
    /\ issued = 0

\* A user finds the token stale, or has it refused.
Wait(u) ==
    /\ u \notin waiting
    /\ waiting' = waiting \cup {u}
    /\ flight' = IF flight = NoFlight THEN [phase |-> "asked", token |-> held] ELSE flight
    /\ UNCHANGED <<held, fresh, issued>>

\* The next token of the login that was asked about, whatever is held by now.
Store ==
    LET next == [flight.token EXCEPT !.gen = @ + 1] IN
    /\ flight.phase = "asked"
    /\ held' = next
    /\ flight' = [phase |-> "saving", token |-> next]
    /\ fresh' \in BOOLEAN
    /\ UNCHANGED <<waiting, issued>>

\* The refresh ends, well or not, for all who wait.
Settle ==
    /\ flight # NoFlight
    /\ flight' = NoFlight
    /\ waiting' = {}
    /\ UNCHANGED <<held, fresh, issued>>

Expire ==
    /\ fresh /\ fresh' = FALSE
    /\ UNCHANGED <<held, flight, waiting, issued>>

Replace ==
    /\ issued' = issued + 1
    /\ held' = [login |-> issued + 1, gen |-> 0]
    /\ fresh' \in BOOLEAN
    /\ UNCHANGED <<flight, waiting>>

\* A restart answers nobody and begins with some token there has been.
Restart ==
    /\ held' \in Tokens /\ held'.login <= issued
    /\ fresh' \in BOOLEAN
    /\ flight' = NoFlight
    /\ waiting' = {}
    /\ UNCHANGED issued

Next == (\E u \in Users : Wait(u)) \/ Store \/ Settle \/ Expire \/ Replace \/ Restart

Spec == Init /\ [][Next]_svars
=============================================================================
