------------------------------ MODULE MCAgentEnv ------------------------------
EXTENDS AgentEnv, TLC

CONSTANTS r1, r2, m1, m2

(* A service of the environment that registers also, and another one.      *)
MCModuleOf == (Main :> m1) @@ (r1 :> m1) @@ (r2 :> m2)
=============================================================================
