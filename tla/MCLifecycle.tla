---------------------------- MODULE MCLifecycle ----------------------------
(***************************************************************************)
(* Instances of Lifecycle for TLC: see the MCLifecycle*.cfg files.         *)
(***************************************************************************)
EXTENDS Lifecycle

\* A bound: values of a wrong type come with a change, so that no behaviour starts with them.
MCInit == Init /\ ~spoiled
MCSpec == MCInit /\ [][Next]_vars /\ Fairness

=============================================================================
