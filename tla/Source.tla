------------------------------- MODULE Source -------------------------------
(***************************************************************************)
(* The upstream ArcGIS layer as the worker meets it through the ArcGIS     *)
(* client: a set of published OBJECTIDs that grows at the top, may lose    *)
(* records, and may publish a record below its highest identifier (a       *)
(* record withdrawn and published again, or committed out of order by the  *)
(* city).  What is published is external; what a request may answer is     *)
(* what the client accepts.                                                *)
(***************************************************************************)
EXTENDS Integers, FiniteSets

CONSTANTS MaxId,     \* bound: the highest OBJECTID the source ever uses
          PageSize   \* records a page may hold

ASSUME SourceAssumption == MaxId \in Nat /\ PageSize \in Nat \ {0}

VARIABLES published, \* OBJECTIDs the source publishes now
          late,      \* the published ones that appeared below an earlier maximum
          top        \* the highest OBJECTID ever published

Ids == 1 .. MaxId

SourceTypeOK ==
  /\ published \subseteq Ids
  /\ late \subseteq published
  /\ top \in 0 .. MaxId
  /\ \A id \in published : id <= top

SourceInit ==
  /\ published \in SUBSET Ids
  /\ late = {}
  /\ top \in 0 .. MaxId
  /\ \A id \in published : id <= top

Publish(id) ==
  /\ id \notin published
  /\ published' = published \cup {id}
  /\ late' = IF id <= top THEN late \cup {id} ELSE late
  /\ top' = IF id <= top THEN top ELSE id

Withdraw(id) ==
  /\ id \in published
  /\ published' = published \ {id}
  /\ late' = late \ {id}
  /\ UNCHANGED top

SourceStep == \E id \in Ids : Publish(id) \/ Withdraw(id)

\* The answer to maximum(): the highest published OBJECTID, 0 when there is none.
IsMaximum(b) == b \in published \cup {0} /\ \A id \in published : id <= b

Matching(cursor, upper) == {id \in published : cursor < id /\ id <= upper}

\* The answers to page(cursor, upper) that the client accepts: the lowest matching
\* records in order, with exceededTransferLimit whenever more remain.  A page may
\* be shorter than PageSize, but one that claims more records is never empty.
\* `last` is the cursor to continue from (page.last or cursor).
Pages(cursor, upper) ==
  LET found == Matching(cursor, upper)
      upTo(last) == {id \in found : id <= last}
  IN  {p \in {[rows |-> upTo(last), last |-> last, exceeded |-> more] :
                last \in found \cup {cursor}, more \in BOOLEAN} :
         /\ Cardinality(p.rows) <= PageSize
         /\ p.rows # found => p.exceeded
         /\ p.exceeded => p.rows # {}}

=============================================================================
