------------------------------ MODULE MCWhisper ------------------------------
(* Whisper for TLC.                                                        *)
EXTENDS Whisper
=============================================================================
