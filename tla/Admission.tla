----------------------------- MODULE Admission -----------------------------
(***************************************************************************)
(* A request at the API, from the window the dashboard's form gives it to  *)
(* its answer: the document is validated against its limits, then its      *)
(* fields are resolved, each checking its size and its date range, and     *)
(* what they return is the answer.  Other clients send other documents.    *)
(***************************************************************************)
EXTENDS RangeForm, Execution

CONSTANT Documents \* bound: the documents clients send

ASSUME DocumentsAssumption == \A doc \in Documents : IsDocument(doc)

VARIABLES document, \* the document under way, or Nothing
          stage     \* how far it has come

requestVars == <<formVars, document, stage>>

-----------------------------------------------------------------------------
(* The request.                                                            *)

RequestInit ==
  /\ FormInit
  /\ document = Nothing
  /\ stage = "idle"

ReaderStep ==
  /\ Tick \/ Choose
  /\ UNCHANGED <<document, stage>>

Submit ==
  /\ stage = "idle"
  /\ Ask
  /\ document' \in Documents
  /\ stage' = "sent"

\* Every rule looks at the document; one error is enough to refuse it.
Validate ==
  /\ stage = "sent"
  /\ stage' = IF StandardRules(document) /\ WithinLimits(document) THEN "valid" ELSE "rejected"
  /\ UNCHANGED <<formVars, document>>

\* A field that raises an InputError is not null, so there is no data without it.
Resolve ==
  /\ stage = "valid"
  /\ stage' = IF /\ SizesInRange(document)
                 /\ DateRange(asked.window)
                THEN "answered" ELSE "refused"
  /\ UNCHANGED <<formVars, document>>

Finish ==
  /\ stage \in {"rejected", "refused", "answered"}
  /\ Settle
  /\ document' = Nothing
  /\ stage' = "idle"

RequestNext == ReaderStep \/ Submit \/ Validate \/ Resolve \/ Finish

RequestSpec == RequestInit /\ [][RequestNext]_requestVars

-----------------------------------------------------------------------------
(* Properties.                                                             *)

\* What an answered document returns of the schema's own fields is no more than its cost
\* said before it ran, so no more than the limits, however they are spread over fragments,
\* aliased, repeated or sized by variables, lists without a size being of the estimated
\* length (_Walk).  It is no bound on introspection: __typename, __schema and __type are
\* answered, at any number and depth, and charged for nothing (limits.py:104-105;
\* "limits ... ignore introspection", test_api_graphql.py:497).
AcceptedIsBounded ==
  stage = "answered" =>
    /\ AnswerTo(document).fields <= WalkOf(document).cost
    /\ AnswerTo(document).fields <= MaxCost
    /\ \A level \in AnswerTo(document).levels : level <= MaxDepth

=============================================================================
