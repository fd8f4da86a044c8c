-------------------------- MODULE MCAdmissionHistory -------------------------
(* AdmissionHistory for TLC.                                               *)
EXTENDS AdmissionHistory
=============================================================================
