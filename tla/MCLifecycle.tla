---------------------------- MODULE MCLifecycle -----------------------------
(* Three deployments that boot, by one account or several, and three that   *)
(* do not.                                                                  *)
EXTENDS Lifecycle, TLC

CONSTANTS u1, v1, v2, v3, a1, a2

Env(discord, slack) == [c \in Channels |-> IF c = "discord" THEN discord ELSE slack]

Deployed(env, keys, accounts, token) ==
    [env |-> env, keys |-> keys, accounts |-> accounts, token |-> token]

MCDeployments ==
    { Deployed(Env(u1, Blank), "some", "absent", TRUE),
      Deployed(Env(None, None), "some", "good", FALSE),
      Deployed(Env(None, None), "some", "bad", TRUE),
      Deployed(Env(None, None), "empty", "absent", TRUE),
      Deployed(Env(None, None), "unset", "absent", TRUE) }

MCSymmetry == Permutations({a1, a2})
=============================================================================
