----------------------------- MODULE MCBackfill -----------------------------
(***************************************************************************)
(* Instances of Backfill for TLC: see the MCBackfill*.cfg files.           *)
(***************************************************************************)
EXTENDS Backfill

=============================================================================
