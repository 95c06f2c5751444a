-------------------------- MODULE MCSandboxPlane --------------------------
(* One claim with its Pod. *)
EXTENDS SandboxPlane

CONSTANTS c1, p1

OwnPod == [c \in Claims |-> p1]
============================================================================
