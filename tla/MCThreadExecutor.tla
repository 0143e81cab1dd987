--------------------------- MODULE MCThreadExecutor ---------------------------
(***************************************************************************)
(* An instance of ThreadExecutor for TLC: parseWatcher and three tasks.    *)
(***************************************************************************)
EXTENDS ThreadExecutor

=============================================================================
