--------------------------- MODULE MCLiveUpdates ---------------------------
(***************************************************************************)
(* Instances of LiveUpdates for TLC: see the MCLiveUpdates*.cfg files.     *)
(***************************************************************************)
EXTENDS LiveUpdates

=============================================================================
