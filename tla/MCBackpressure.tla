--------------------------- MODULE MCBackpressure ---------------------------
(* The instance of Backpressure in MCBackpressure.cfg.                     *)
EXTENDS Backpressure
==============================================================================
