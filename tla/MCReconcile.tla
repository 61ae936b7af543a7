---------------------------- MODULE MCReconcile ----------------------------
(***************************************************************************)
(* An instance of Reconcile for TLC: see MCReconcile.cfg.                  *)
(***************************************************************************)
EXTENDS Reconcile

=============================================================================
