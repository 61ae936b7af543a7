------------------------------ MODULE Queries ------------------------------
(***************************************************************************)
(* The read queries behind the map and the summary, as functions of a      *)
(* table of calls.  A call is a record with its key, when it was received, *)
(* its type (0 when none is published), whether it has usable coordinates  *)
(* and whether the source still publishes it.                              *)
(***************************************************************************)
EXTENDS Integers, FiniteSets

CONSTANTS Since, Until,   \* the filter's window, in hours
          Selected,       \* the types chosen, {} for all
          IncludeRemoved, \* whether removed calls are asked for too
          TypeLimit,      \* types(limit)
          MapLimit        \* mapCalls(limit)

\* A state of the table: no two of its calls have the same key.
IsTable(calls) ==
  /\ IsFiniteSet(calls)
  /\ \A c \in calls : c.id \in Int /\ c.received \in Int
  /\ \A c, d \in calls : c.id = d.id => c = d

\* The sum of a function's numbers, as the size of what they count side by side.
SumOf(counts) == Cardinality(UNION {{x} \X (1 .. counts[x]) : x \in DOMAIN counts})

Conditions(calls) ==
  {c \in calls : /\ Since <= c.received /\ c.received < Until
                 /\ Selected # {} => c.type \in Selected
                 /\ IncludeRemoved \/ c.present}

\* Matching calls, and how many of them have usable coordinates.
Counts(calls) ==
  [total   |-> Cardinality(Conditions(calls)),
   located |-> Cardinality({c \in Conditions(calls) : c.located})]

Types(calls) == {c.type : c \in Conditions(calls)}

OfType(calls, type) == Cardinality({c \in Conditions(calls) : c.type = type})

\* Types are listed by falling count, and by name among equals.
Before(calls, a, b) ==
  \/ OfType(calls, a) > OfType(calls, b)
  \/ OfType(calls, a) = OfType(calls, b) /\ a < b

Listed(calls) ==
  {t \in Types(calls) : Cardinality({u \in Types(calls) : Before(calls, u, t)}) < TypeLimit}

\* Mutant: the first type after the list is left out of the rest.
TypeCountsOffByOne(calls) ==
  LET counted == {t \in Types(calls) :
                    Cardinality({u \in Types(calls) : Before(calls, u, t)}) # TypeLimit}
  IN  [entries |-> [t \in Listed(calls) |-> OfType(calls, t)],
       other   |-> SumOf([t \in counted \ Listed(calls) |-> OfType(calls, t)])]

\* The most frequent call types, and how many calls fall outside them.
TypeCounts(calls) ==
  [entries |-> [t \in Listed(calls) |-> OfType(calls, t)],
   other   |-> SumOf([t \in Types(calls) \ Listed(calls) |-> OfType(calls, t)])]

Hourly(calls) ==
  [h \in {c.received : c \in Conditions(calls)} |->
     Cardinality({c \in Conditions(calls) : c.received = h})]

Newer(a, b) == a.received > b.received \/ (a.received = b.received /\ a.id > b.id)

\* The newest calls that can be put on the map.
MapCalls(calls) ==
  LET placed == {c \in Conditions(calls) : c.located}
  IN  {c \in placed : Cardinality({d \in placed : Newer(d, c)}) < MapLimit}

\* The queries of a request, each by the name of what it answers.
QueryNames == {"summary", "types", "hourly", "matching", "shown"}

Result(query, calls) ==
  CASE query \in {"summary", "matching"} -> Counts(calls)
    [] query = "types"  -> TypeCounts(calls)
    [] query = "hourly" -> Hourly(calls)
    [] query = "shown"  -> MapCalls(calls)

=============================================================================
