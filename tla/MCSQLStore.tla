---------------------------- MODULE MCSQLStore ----------------------------
(* A small instance of SQLStore. *)
EXTENDS SQLStore

MCLimits == 0..2
===========================================================================
