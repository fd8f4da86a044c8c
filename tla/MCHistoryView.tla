--------------------------- MODULE MCHistoryView ---------------------------
(* HistoryView for TLC.                                                    *)
EXTENDS HistoryView
=============================================================================
