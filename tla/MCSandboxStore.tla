--------------------------- MODULE MCSandboxStore ---------------------------
(* Small instances of SandboxStore. *)
EXTENDS SandboxStore, TLC

CONSTANTS k1, k2, k3

(* Requests that differ only in defaults that Create fills in. *)
Plain == [template |-> "python", ttl |-> 0, runtimeClass |-> ""]
Spelled == [template |-> "python", ttl |-> 1800, runtimeClass |-> "gvisor"]

MCRequests == {Plain, Spelled}
MCLimits == 0..2

(* Replicas over a database interleave, and a few ids collide soon enough. *)
(* A process of its own is given more keys, ids and slots.                 *)
MCLoad ==
  [b \in Backends |->
     IF b = "sql" THEN [keys |-> {k1}, limits |-> {0, 1}, ids |-> 2]
     ELSE [keys |-> {k1, k2, k3}, limits |-> {1, 2}, ids |-> 4]]

(* Replicas, owners and the keys a load does not tell apart are            *)
(* interchangeable.                                                        *)
Symmetry == Permutations(Replicas) \cup Permutations(Owners) \cup Permutations({k2, k3})
=============================================================================
