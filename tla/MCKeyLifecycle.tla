--------------------------- MODULE MCKeyLifecycle ---------------------------
(***************************************************************************)
(* A small instance of KeyLifecycle: one circuit's keys, one restart.      *)
(***************************************************************************)
EXTENDS KeyLifecycle

CONSTANTS keys
=============================================================================
