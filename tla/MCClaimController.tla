------------------------- MODULE MCClaimController -------------------------
(* Claims with a Pod name each, or sharing one. *)
EXTENDS ClaimController

CONSTANTS c1, c2, p1, p2

OwnPod == [c \in Claims |-> IF c = c1 THEN p1 ELSE p2]
SharedPod == [c \in Claims |-> p1]
============================================================================
