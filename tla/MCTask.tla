------------------------------- MODULE MCTask -------------------------------
(* No symmetry: the one run of this module checks liveness too. *)
EXTENDS Task
=============================================================================
