------------------------------ MODULE MCOutbox -------------------------------
(* Outbox for TLC.                                                         *)
EXTENDS Outbox
=============================================================================
