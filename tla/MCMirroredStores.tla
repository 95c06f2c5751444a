-------------------------- MODULE MCMirroredStores --------------------------
(* Two accounts, three allocation ids, limits 0 to 2. *)
EXTENDS MirroredStores

MCLimits == 0..2
=============================================================================
