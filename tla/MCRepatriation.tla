--------------------------- MODULE MCRepatriation ---------------------------
(***************************************************************************)
(* Instances of Repatriation for TLC.                                      *)
(***************************************************************************)
EXTENDS Repatriation

CONSTANTS optimism, arbitrum

=============================================================================
