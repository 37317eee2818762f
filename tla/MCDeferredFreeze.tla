-------------------------- MODULE MCDeferredFreeze --------------------------
(* The server, which may be killed and restarted, and a command line.      *)
EXTENDS DeferredFreeze, TLC

CONSTANTS b1, b2, t1, t2, o1, o2, o3, server, cli

MCProcOf == (o1 :> server) @@ (o3 :> cli)
MCProcOfServer == (o1 :> server) @@ (o2 :> server)
MCProcOfAll == MCProcOfServer @@ MCProcOf

Budget(o, f, c) == [ops |-> o, faults |-> f, crashes |-> c]
MCBudgets == {Budget(4, 1, 0), Budget(4, 0, 1)}
CrashBudgets == {Budget(3, 1, 1)}
CleanBudgets == {Budget(3, 0, 0)}

MCSymmetry == Permutations(Backup)
MCSymmetryServer == Permutations(Backup) \cup Permutations({o1, o2})
=============================================================================
