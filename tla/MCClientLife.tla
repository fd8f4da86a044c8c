---------------------------- MODULE MCClientLife -----------------------------
(* ClientLife for TLC.                                                     *)
EXTENDS ClientLife
=============================================================================
