----------------------------- MODULE MCAppActor -----------------------------
(* Instances of AppActor for TLC: the values of the constants are in the   *)
(* configurations MCAppActor_*.cfg.                                        *)
EXTENDS AppActor
==============================================================================
