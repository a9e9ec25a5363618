----------------------------- MODULE MCDotlock -----------------------------
(* Instances of Dotlock for TLC.                                           *)
EXTENDS Dotlock, TLC

CONSTANTS p1, p2, p3

\* p1 and p2 on one node; p3 on another one, where it has the pid of p1.
TwoNodes == p1 :> "n1" @@ p2 :> "n1" @@ p3 :> "n2"
SharedPid == p1 :> 1 @@ p2 :> 2 @@ p3 :> 1

OneNode == [p \in Proc |-> "n1"]
OwnPid == p1 :> 1 @@ p2 :> 2 @@ p3 :> 3
=============================================================================
