------------------------------- MODULE MCEcho -------------------------------
(* Two constants only: the instance is given in the configuration. *)
EXTENDS Echo
=============================================================================
