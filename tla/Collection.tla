----------------------------- MODULE Collection -----------------------------
(***************************************************************************)
(* What collecting one generation of the source promises, whatever tasks,  *)
(* pages, failures and restarts it takes: history is captured up to one    *)
(* boundary; it is declared complete only when every record the source has *)
(* published in order up to that boundary is stored; from then on a live   *)
(* frontier moves up and never passes a record that was not stored.        *)
(***************************************************************************)
EXTENDS Source

VARIABLES stored,   \* OBJECTIDs with a row in the database
          boundary, \* the captured backfill boundary, or Unset
          complete, \* whether history is declared complete
          live      \* the live frontier, or Unset

Unset == -1

collectionVars == <<published, late, top, stored, boundary, complete, live>>

\* Every record published in order, up to c, is in the set S.
CollectedUpTo(c, S) == \A id \in published \ late : id <= c => id \in S

Init ==
  /\ SourceInit
  /\ stored = {}
  /\ boundary = Unset
  /\ complete = FALSE
  /\ live = Unset

SourceMoves ==
  /\ SourceStep
  /\ UNCHANGED <<stored, boundary, complete, live>>

CaptureBoundary ==
  /\ boundary = Unset
  /\ boundary' \in 0 .. top
  /\ UNCHANGED <<published, late, top, stored, complete, live>>

Collect ==
  /\ stored \subseteq stored'
  /\ stored' \subseteq 1 .. top
  /\ UNCHANGED <<published, late, top, boundary, complete, live>>

FinishHistory ==
  /\ ~complete
  /\ boundary # Unset
  /\ CollectedUpTo(boundary, stored)
  /\ complete' = TRUE
  /\ live' = boundary
  /\ UNCHANGED <<published, late, top, stored, boundary>>

Follow ==
  /\ complete
  /\ stored \subseteq stored'
  /\ stored' \subseteq 1 .. top
  /\ live' \in live .. top
  /\ CollectedUpTo(live', stored')
  /\ UNCHANGED <<published, late, top, boundary, complete>>

Next == SourceMoves \/ CaptureBoundary \/ Collect \/ FinishHistory \/ Follow

Spec == Init /\ [][Next]_collectionVars

=============================================================================
