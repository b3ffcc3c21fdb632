--------------------------- MODULE MCOAuthManager ---------------------------
(* OAuthManager on a small instance.                                        *)
EXTENDS OAuthManager, TLC

CONSTANTS c1, c2, r1, r2

MCCallers == {c1, c2}
MCAttempts == {r1, r2}
=============================================================================
