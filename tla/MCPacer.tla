------------------------------ MODULE MCPacer ------------------------------
(***************************************************************************)
(* An instance of Pacer for TLC: see MCPacer.cfg.                          *)
(***************************************************************************)
EXTENDS Pacer

=============================================================================
