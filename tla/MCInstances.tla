---------------------------- MODULE MCInstances ----------------------------
(* Three invocations: one for the first repository or from outside any, one
   for either of two, one for the first; MaxActs windows closed, refused or
   switched and processes killed. *)
EXTENDS Instances, TLC

CONSTANTS p1, p2, p3, r1, r2

MCGiven == (p1 :> {r1, NoRoot}) @@ (p2 :> {r1, r2}) @@ (p3 :> {r1})
=============================================================================
