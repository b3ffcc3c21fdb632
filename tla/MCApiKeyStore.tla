--------------------------- MODULE MCApiKeyStore ---------------------------
(* Three admin clients on a store with one environment key and, on one of the *)
(* two start files, a row that predates the cap on allowedModels.           *)
EXTENDS ApiKeyStore

CONSTANTS c1, c2, c3, alice, bob, carol

MCNames == {alice, bob, carol}
MCEnvNames == {alice}
MCClients == {c1, c2, c3}
LegacyFile == [keys |-> {[name |-> bob, key |-> 0, models |-> "oversized"]}, revoked |-> {}]
MCOldKeys == {0}
MCRequests ==
    [kind : {"add"}, name : {bob}, key : {1}, models : {"listed", "oversized"}]
    \cup [kind : {"add"}, name : {alice, carol}, key : 1..MaxKeys, models : {"open"}]
    \cup [kind : {"update"}, name : {bob}, to : {bob, carol}, models : {"keep", "open"}]
    \cup [kind : {"revoke"}, name : {alice, bob, carol}]
MCStartFiles == {EmptyFile, LegacyFile}
=============================================================================
