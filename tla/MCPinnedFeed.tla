---------------------------- MODULE MCPinnedFeed ----------------------------
(***************************************************************************)
(* An instance of PinnedFeed for TLC: see MCPinnedFeed.cfg.                *)
(***************************************************************************)
EXTENDS PinnedFeed

=============================================================================
