--------------------------- MODULE MCModuleRuntime ---------------------------
(* ModuleRuntime for TLC.                                                  *)
EXTENDS ModuleRuntime
=============================================================================
