---------------------------- MODULE MCOpManager -----------------------------
(* Instances of OpManager for TLC: up to three requests, as model values.  *)
EXTENDS OpManager, TLC

CONSTANTS r1, r2, r3, a

(* All for one backup; the direct request for none. *)
Conflicts ==
    LET all == r1 :> a @@ r2 :> a @@ r3 :> a
    IN  {all, [all EXCEPT ![r1] = NoName]}

(* Any mixture of requests with and without a name. *)
AnyNames == [Req -> Name \cup {NoName}]
=============================================================================
