------------------------------- MODULE MCFraming -------------------------------
(* Messages below, just below, at and above a limit of three bytes. *)
EXTENDS Framing

MCMsg  == 1..5
MCSize == <<1, 2, 2, 3, 4>>
==============================================================================
