---------------------------- MODULE MCWatchLoop -----------------------------
(* Instances of WatchLoop for TLC: the server's loop and up to two start   *)
(* and two stop requests, as model values.                                 *)
EXTENDS WatchLoop

CONSTANTS s1, s2, k1, k2

(* No limit on the errors, or two for a loop that is the main process. *)
AllConfigs == {[max |-> 0, main |-> FALSE], [max |-> 2, main |-> TRUE]}
=============================================================================
