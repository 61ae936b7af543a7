------------------------------ MODULE Records ------------------------------
(***************************************************************************)
(* The `calls` table and the data version, as the worker's transactions    *)
(* leave them: a page of source records is upserted, or records found      *)
(* missing are marked removed.  Every transaction that changes a record    *)
(* stamps it with the next data version, which it also makes current.      *)
(*                                                                         *)
(* A record's content is its Call_Received and the rest of what the source *)
(* publishes of it; the stored fingerprint stands for both.  An identifier *)
(* is the pair of a generation and an OBJECTID, in their order.            *)
(***************************************************************************)
EXTENDS Integers, FiniteSets

CONSTANTS MaxId,      \* bound: identifiers
          MaxTime,    \* bound: the latest Call_Received
          Bodies,     \* the values of a record's other attributes
          MaxVersion  \* bound: the data version

ASSUME RecordsAssumption == MaxId \in Nat /\ MaxTime \in Nat /\ MaxVersion \in Nat

Ids      == 1 .. MaxId
Contents == [time : 0 .. MaxTime, body : Bodies]

VARIABLES rows,   \* the stored records: identifier -> row
          version \* state.data_version

Rows == [content : Contents, first : Nat, changed : Nat, present : BOOLEAN]

RecordsInit ==
  /\ rows = [id \in {} |-> 0]
  /\ version = 0

Stored == DOMAIN rows

\* The rows a page writes: new, changed, or present again; the others are only seen.
Writes(page) ==
  {id \in DOMAIN page :
     id \in Stored => rows[id].content # page[id] \/ ~rows[id].present}

\* A record already stored keeps the version it was first seen at.
Written(id, content) ==
  [content |-> content, present |-> TRUE, changed |-> version + 1,
   first |-> IF id \in Stored THEN rows[id].first ELSE version + 1]

\* One page of source records in one transaction.
CommitPage(page) ==
  /\ version < MaxVersion
  /\ rows' = [id \in Stored \cup Writes(page) |->
                IF id \in Writes(page) THEN Written(id, page[id]) ELSE rows[id]]
  /\ version' = IF Writes(page) # {} THEN version + 1 ELSE version

\* Mutant: removals keep the version they were last changed at.
MarkRemovedUnversioned(ids) ==
  LET gone == {id \in ids \cap Stored : rows[id].present}
  IN  /\ version < MaxVersion
      /\ rows' = [id \in Stored |->
                    IF id \in gone THEN [rows[id] EXCEPT !.present = FALSE] ELSE rows[id]]
      /\ version' = IF gone # {} THEN version + 1 ELSE version

\* The records found missing, in one transaction.
MarkRemoved(ids) ==
  LET gone == {id \in ids \cap Stored : rows[id].present}
  IN  /\ version < MaxVersion
      /\ rows' = [id \in Stored |->
                    IF id \in gone
                      THEN [rows[id] EXCEPT !.present = FALSE, !.changed = version + 1]
                      ELSE rows[id]]
      /\ version' = IF gone # {} THEN version + 1 ELSE version

Commits == \E ids \in SUBSET Ids : \E page \in [ids -> Contents] : CommitPage(page)
Removals == \E ids \in SUBSET Ids : MarkRemoved(ids)

=============================================================================
