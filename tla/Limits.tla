------------------------------- MODULE Limits -------------------------------
(***************************************************************************)
(* The static depth and cost of a GraphQL document.  A document is a table *)
(* of selections, numbered in the order of its text: fields, with a        *)
(* response key, inline fragments and spreads of named ones.  Each names   *)
(* the first selection of its own set (sub) and the one after it (next),   *)
(* 0 where there is none.  Of the schema's scalars a few of each type are  *)
(* kept; its sizes and limits are parameters.                              *)
(***************************************************************************)
EXTENDS Integers, Sequences, FiniteSets

CONSTANTS PageDefault, MaxPage,   \* Query.calls(first)
          MapDefault, MaxMap,     \* Query.mapCalls(limit)
          TypesDefault, MaxTypes, \* Summary.types(limit)
          UnsizedList,            \* UNSIZED_LIST
          MaxDepth, MaxCost       \* settings.max_depth, settings.max_cost

ASSUME LimitsAssumption ==
  {PageDefault, MaxPage, MapDefault, MaxMap, TypesDefault, MaxTypes, UnsizedList, MaxDepth, MaxCost}
    \subseteq Nat

-----------------------------------------------------------------------------
(* The schema.                                                             *)

Leaf == "leaf"

Unsized == [default |-> 0, worst |-> 0]

\* A field: the object type it returns or Leaf, whether in a list, and whether that list's
\* length is its parent's argument (Limits.sized_children).
Returns(type)  == [type |-> type, list |-> FALSE, size |-> Unsized, sizedChild |-> FALSE]
ListOf(type)   == [Returns(type) EXCEPT !.list = TRUE]
SizedListOf(type) == [ListOf(type) EXCEPT !.sizedChild = TRUE]

\* A field whose argument sizes the list inside what it returns (Limits.sizes).
Sized(type, default, worst) ==
  [Returns(type) EXCEPT !.size = [default |-> default, worst |-> worst]]

Scalar == Returns(Leaf)

Schema ==
  [Query |-> [calls        |-> Sized("CallPage", PageDefault, MaxPage),
              call         |-> Returns("Call"),
              mapCalls     |-> Sized("MapCalls", MapDefault, MaxMap),
              summary      |-> Returns("Summary"),
              filterValues |-> Returns("FilterValues"),
              sourceStatus |-> ListOf("SourceStatus"),
              dataVersion  |-> Scalar],
   CallPage |-> [nodes |-> SizedListOf("Call"), pageInfo |-> Returns("PageInfo"),
                 asOfVersion |-> Scalar],
   MapCalls |-> [calls |-> SizedListOf("Call"), matching |-> Scalar],
   Call |-> [id |-> Scalar, receivedAt |-> Scalar, record |-> Returns("MnpdCallRecord")],
   MnpdCallRecord |-> [OBJECTID |-> Scalar],
   PageInfo |-> [endCursor |-> Scalar, hasNextPage |-> Scalar],
   Summary |-> [total |-> Scalar, types |-> Sized("TypeBreakdown", TypesDefault, MaxTypes),
                hourly |-> ListOf("HourCount")],
   TypeBreakdown |-> [entries |-> SizedListOf("TypeCount"), otherCount |-> Scalar],
   TypeCount |-> [count |-> Scalar],
   HourCount |-> [count |-> Scalar],
   FilterValues |-> [Sector |-> Scalar],
   SourceStatus |-> [state |-> Scalar, generation |-> Returns("SourceGeneration"),
                     backfill |-> Returns("BackfillProgress")],
   SourceGeneration |-> [url |-> Scalar],
   BackfillProgress |-> [fraction |-> Scalar]]

ObjectTypes == DOMAIN Schema

IsField(parent, name) == name \in DOMAIN Schema[parent]

\* The fields of introspection, on no type of the schema: __typename asks any object for
\* its type, the others ask the query for the schema.
IsMeta(name) == name \in {"__typename", "__schema", "__type"}

-----------------------------------------------------------------------------
(* Documents.                                                              *)

Field(key, name, arg, sub, next) ==
  [kind |-> "field", key |-> key, name |-> name, arg |-> arg, sub |-> sub, next |-> next]
Inline(type, sub, next)          == [kind |-> "inline", type |-> type, sub |-> sub, next |-> next]
Spread(fragment, next)           == [kind |-> "spread", fragment |-> fragment, sub |-> 0, next |-> next]

\* An inline fragment without a type condition.
NoType == "none"

\* A size argument: not given, an integer, or a variable, with the value sent for it,
\* the default declared for it or neither.  Not every value that counts as an Int is a
\* Python int: 2.0 is not.
NoArgument     == [kind |-> "none"]
Literal(n)     == [kind |-> "int", n |-> n]
Sent(n)        == [kind |-> "sent", n |-> n]
SentFloat(n)   == [kind |-> "float", n |-> n]
Unsent(n)      == [kind |-> "unsent", n |-> n]
Absent         == [kind |-> "absent"]

IsArgument(arg) ==
  \/ arg.kind \in {"none", "absent"}
  \/ arg.kind \in {"int", "sent", "float", "unsent"} /\ arg.n \in Int

Ids(doc) == 0 .. Len(doc.nodes)

\* What parsing gives: selections in the order of the text, and fragments by name.
IsDocument(doc) ==
  /\ doc.nodes \in Seq({doc.nodes[i] : i \in DOMAIN doc.nodes})
  /\ \A i \in 1 .. Len(doc.nodes) :
       LET node == doc.nodes[i]
       IN  /\ node.kind \in {"field", "inline", "spread"}
           /\ node.kind = "field" => IsArgument(node.arg)
           /\ {node.sub, node.next} \subseteq {0} \cup (i + 1 .. Len(doc.nodes))
  /\ doc.start \in Ids(doc)
  /\ IsFiniteSet(DOMAIN doc.fragments)
  /\ \A f \in DOMAIN doc.fragments : doc.fragments[f].start \in Ids(doc)

-----------------------------------------------------------------------------
(* The walk.                                                               *)

\* Where the walk comes by: the selection it is at (0 at the end of a set), the type the
\* set is of, its level, and the fragments spread on the way.
Visits(doc) ==
  [at : Ids(doc), parent : ObjectTypes, level : Nat, spread : SUBSET DOMAIN doc.fragments]

Visit(id, parent, level) == [at |-> id, parent |-> parent, level |-> level, spread |-> {}]

NodeAt(doc, v) == doc.nodes[v.at]

Target(doc, v) ==
  LET node == NodeAt(doc, v)
  IN  CASE node.kind = "field"  -> Schema[v.parent][node.name].type
        [] node.kind = "inline" -> IF node.type = NoType THEN v.parent ELSE node.type
        [] OTHER                -> doc.fragments[node.fragment].type

\* The selection has a set of an object type, and that set is walked.  A fragment is
\* walked once on the way, unknown names not at all.
Opens(doc, v) ==
  LET node == NodeAt(doc, v)
  IN  /\ node.kind = "field"  => IsField(v.parent, node.name) /\ node.sub # 0
      /\ node.kind = "spread" => node.fragment \in DOMAIN doc.fragments \ v.spread
      /\ Target(doc, v) \in ObjectTypes

Inside(doc, v) ==
  LET node == NodeAt(doc, v)
  IN  [at     |-> IF node.kind = "spread" THEN doc.fragments[node.fragment].start ELSE node.sub,
       parent |-> Target(doc, v),
       level  |-> IF node.kind = "field" THEN v.level + 1 ELSE v.level,
       spread |-> v.spread \cup (IF node.kind = "spread" THEN {node.fragment} ELSE {})]

\* What follows in the same set knows of its own spreads, not of those within them.
After(doc, v) ==
  LET node == NodeAt(doc, v)
  IN  [at     |-> node.next,
       parent |-> v.parent,
       level  |-> v.level,
       spread |-> v.spread \cup (IF node.kind = "spread"
                                   THEN {node.fragment} \cap DOMAIN doc.fragments ELSE {})]

AtLeastZero(n) == IF n < 0 THEN 0 ELSE n

\* Mutant: a variable that was not sent is taken to have the field's default size.
SizeDefault(arg, worst) == IF arg.kind \in {"int", "sent"} THEN AtLeastZero(arg.n) ELSE PageDefault

Size(arg, worst) == IF arg.kind \in {"int", "sent"} THEN AtLeastZero(arg.n) ELSE worst

Multiplier(field, arg) ==
  IF field.size # Unsized
    THEN IF arg.kind = "none" THEN field.size.default ELSE Size(arg, field.size.worst)
    ELSE IF field.list /\ ~field.sizedChild THEN UnsizedList ELSE 1

Nil == [cost |-> 0, deepest |-> 0]

Deeper(m, n) == IF m < n THEN n ELSE m

\* What one field costs, and the deepest level at or below it.  Introspection is free, and
\* what is selected in it is not walked.
FieldWalk(walk, doc, v) ==
  LET node  == NodeAt(doc, v)
      below == walk[Inside(doc, v)]
  IN  IF IsMeta(node.name) \/ ~IsField(v.parent, node.name) THEN Nil
      ELSE IF ~Opens(doc, v) THEN [cost |-> 1, deepest |-> v.level]
      ELSE [cost    |-> 1 + Multiplier(Schema[v.parent][node.name], node.arg) * below.cost,
            deepest |-> Deeper(v.level, below.deepest)]

SelectionWalk(walk, doc, v) ==
  IF NodeAt(doc, v).kind = "field" THEN FieldWalk(walk, doc, v)
  ELSE IF Opens(doc, v) THEN walk[Inside(doc, v)] ELSE Nil

\* The cost of the selections from here to the end of their set, and their deepest level.
WalkFrom(walk, doc, v) ==
  IF v.at = 0 THEN Nil
  ELSE LET first == SelectionWalk(walk, doc, v)
           rest  == walk[After(doc, v)]
       IN  [cost    |-> first.cost + rest.cost,
            deepest |-> Deeper(first.deepest, rest.deepest)]

Walk(doc) == LET walk[v \in Visits(doc)] == WalkFrom(walk, doc, v) IN walk

WalkOf(doc) == Walk(doc)[Visit(doc.start, "Query", 0)]

\* LimitsRule reports no error.
WithinLimits(doc) == WalkOf(doc).deepest <= MaxDepth /\ WalkOf(doc).cost <= MaxCost

=============================================================================
