---------------------------- MODULE MCBackSyncer ----------------------------
(***************************************************************************)
(* Small instances of BackSyncer: one or two controllers, two values per   *)
(* synced field where updates matter, and the outside events of each run.  *)
(***************************************************************************)
EXTENDS BackSyncer

CONSTANTS a, b   \* controller IDs
==============================================================================
