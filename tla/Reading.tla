------------------------------ MODULE Reading ------------------------------
(***************************************************************************)
(* What a request is promised: all its answers are of one committed state  *)
(* of the database, one that was current while the request was made, and   *)
(* nothing is added to them once they are sent.                            *)
(***************************************************************************)

CONSTANTS Requests,     \* the requests
          Tables,       \* the states the database may be in
          QueryNames,   \* what can be asked
          Result(_, _), \* what is answered of a state
          None          \* no state looked at, no answer

VARIABLES db,      \* the committed table
          view,    \* the state each request reads, or None
          answers, \* what each has been answered, by query
          sent     \* whether its answers are sent

readingVars == <<db, view, answers, sent>>

Init ==
  /\ db \in Tables
  /\ view = [r \in Requests |-> None]
  /\ answers = [r \in Requests |-> [q \in QueryNames |-> None]]
  /\ sent = [r \in Requests |-> FALSE]

Commit ==
  /\ db' \in Tables
  /\ UNCHANGED <<view, answers, sent>>

\* The first look settles the state, of which this and all later answers are.
Look(r) ==
  /\ ~sent[r]
  /\ \E q \in QueryNames :
       LET seen == IF view[r] = None THEN db ELSE view[r]
       IN  /\ view' = [view EXCEPT ![r] = seen]
           /\ answers' = [answers EXCEPT ![r] = [@ EXCEPT ![q] = Result(q, seen)]]
  /\ UNCHANGED <<db, sent>>

Send(r) ==
  /\ ~sent[r]
  /\ sent' = [sent EXCEPT ![r] = TRUE]
  /\ view' = [view EXCEPT ![r] = None]
  /\ UNCHANGED <<db, answers>>

Next == Commit \/ \E r \in Requests : Look(r) \/ Send(r)

Spec == Init /\ [][Next]_readingVars

=============================================================================
