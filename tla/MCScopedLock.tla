---------------------------- MODULE MCScopedLock ----------------------------
(* Instances of ScopedLock for TLC: who shares a process. *)
EXTENDS ScopedLock, TLC

CONSTANTS t1, t2, t3, p1, p2, p3, a

(* Two commands of one server process and one of the command line. *)
ServerAndCli == t1 :> p1 @@ t2 :> p1 @@ t3 :> p2

(* Three command lines. *)
ThreeClis == t1 :> p1 @@ t2 :> p2 @@ t3 :> p3

(* Two command lines. *)
TwoClis == t1 :> p1 @@ t2 :> p2
=============================================================================
