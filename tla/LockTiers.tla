----------------------------- MODULE LockTiers ------------------------------
(***************************************************************************)
(* What src/lock.rs promises to the commands: each task holds at most one  *)
(* scope, a scope is granted in one step, and never beside a conflicting   *)
(* one.  Nothing is said about files, gates or processes.                  *)
(***************************************************************************)
CONSTANTS Task, Name, GlobalStem, NoScope

VARIABLE holds   \* the scope each task holds, or NoScope

Backup(n) == [tier |-> "backup", stem |-> n]
Global    == [tier |-> "global", stem |-> GlobalStem]
Scopes    == {Backup(n) : n \in Name} \cup {Global}

Conflict(a, b) == a = Global \/ b = Global \/ a = b

Init == holds = [t \in Task |-> NoScope]

Acquire(t, s) ==
    /\ holds[t] = NoScope
    /\ \A u \in Task : holds[u] # NoScope => ~Conflict(s, holds[u])
    /\ holds' = [holds EXCEPT ![t] = s]

(* The scopes of the tasks in T are given up: T is one task when a command *)
(* ends, and all the tasks of a process when the process is killed.        *)
Release(T) == holds' = [t \in Task |-> IF t \in T THEN NoScope ELSE holds[t]]

Next ==
    \/ \E t \in Task, s \in Scopes : Acquire(t, s)
    \/ \E T \in SUBSET Task : Release(T)

Spec == Init /\ [][Next]_holds
=============================================================================
