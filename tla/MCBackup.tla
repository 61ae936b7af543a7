------------------------------ MODULE MCBackup ------------------------------
(***************************************************************************)
(* An instance of Backup for TLC.                                          *)
(***************************************************************************)
EXTENDS Backup, TLC

TakerSymmetry == Permutations(Takers)

=============================================================================
