----------------------------- MODULE MCSnapshot -----------------------------
(***************************************************************************)
(* Instances of Snapshot for TLC: requests beside commits that add and     *)
(* remove calls and change their types.                                    *)
(***************************************************************************)
EXTENDS Snapshot

Call(id, received, type, located, present) ==
  [id |-> id, received |-> received, type |-> type, located |-> located, present |-> present]

\* Three calls, one of them edited and one removed between the states.
MCTables ==
  {{Call(1, 1, 1, TRUE, TRUE)},
   {Call(1, 1, 1, TRUE, TRUE), Call(2, 1, 0, TRUE, TRUE), Call(3, 2, 2, FALSE, TRUE)},
   {Call(1, 1, 1, TRUE, FALSE), Call(2, 1, 2, TRUE, TRUE), Call(3, 2, 2, FALSE, TRUE)}}

=============================================================================
