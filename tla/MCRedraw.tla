------------------------------ MODULE MCRedraw -------------------------------
(* Redraw for TLC.                                                         *)
EXTENDS Redraw
=============================================================================
