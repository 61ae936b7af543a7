----------------------------- MODULE Execution -----------------------------
(***************************************************************************)
(* What graphql-core makes of a document: its own rules, the fields it     *)
(* collects for an object, merged by response key, and the size of the     *)
(* answer it returns.  The sizes are checked by the application's fields.  *)
(***************************************************************************)
EXTENDS Limits

-----------------------------------------------------------------------------
(* Collecting.                                                             *)

\* The selections met from here on, fragments expanded, each once (CollectFields).
MeetFrom(met, doc, v) ==
  IF v.at = 0 THEN {}
  ELSE {v.at} \cup met[After(doc, v)]
         \cup (IF NodeAt(doc, v).kind # "field" /\ Opens(doc, v) THEN met[Inside(doc, v)] ELSE {})

Met(doc) == LET met[v \in Visits(doc)] == MeetFrom(met, doc, v) IN met

\* An object of the answer, for what is selected of it: the sets whose fields are merged
\* there, by their first selections.
Objects(doc) == [starts : SUBSET Ids(doc), type : ObjectTypes]

Root(doc) == [starts |-> {doc.start}, type |-> "Query"]

MetFor(doc, o) == UNION {Met(doc)[Visit(s, o.type, 0)] : s \in o.starts}

Fields(doc, o) == {i \in MetFor(doc, o) : doc.nodes[i].kind = "field"}

SameKey(doc, o, i) == {j \in Fields(doc, o) : doc.nodes[j].key = doc.nodes[i].key}

\* One of the fields of each response key.
Keys(doc, o) == {i \in Fields(doc, o) : \A j \in SameKey(doc, o, i) : i <= j}

Composite(doc, o, i) ==
  IsField(o.type, doc.nodes[i].name) /\ Schema[o.type][doc.nodes[i].name].type # Leaf

Child(doc, o, i) ==
  [starts |-> {doc.nodes[j].sub : j \in SameKey(doc, o, i)},
   type   |-> Schema[o.type][doc.nodes[i].name].type]

\* The object and all below it.
ReachFrom(reached, doc, o) ==
  {o} \cup UNION {reached[Child(doc, o, i)] : i \in {j \in Fields(doc, o) : Composite(doc, o, j)}}

Reached(doc) == LET reached[o \in Objects(doc)] == ReachFrom(reached, doc, o) IN reached[Root(doc)]

-----------------------------------------------------------------------------
(* The specified rules.                                                    *)

\* The fragments spread in a fragment, and by way of others.
Spreads(doc, f) ==
  LET within[i \in Ids(doc)] ==
        IF i = 0 THEN {} ELSE {i} \cup within[doc.nodes[i].sub] \cup within[doc.nodes[i].next]
  IN  {doc.nodes[i].fragment :
         i \in {j \in within[doc.fragments[f].start] : doc.nodes[j].kind = "spread"}}

NoFragmentCycles(doc) ==
  LET names == DOMAIN doc.fragments
      ahead[n \in 0 .. Cardinality(names)] ==
        [f \in names |-> IF n = 0 THEN Spreads(doc, f)
                         ELSE ahead[n - 1][f] \cup
                                UNION {ahead[n - 1][g] : g \in ahead[n - 1][f] \cap names}]
  IN  \A f \in names : f \notin ahead[Cardinality(names)][f]

\* Fragments are known, and spread where their type is (all types being of objects).
PossibleFragmentSpreads(doc, o) ==
  \A i \in MetFor(doc, o) :
    LET node == doc.nodes[i]
    IN  /\ node.kind = "inline" => node.type \in {NoType, o.type}
        /\ node.kind = "spread" => /\ node.fragment \in DOMAIN doc.fragments
                                   /\ doc.fragments[node.fragment].type = o.type

\* Fields exist, and those of object types, and no others, have a selection set.  What is
\* selected of the schema's description (below __schema and __type) is taken to be valid.
FieldsOnCorrectType(doc, o) ==
  \A i \in Fields(doc, o) :
    LET node == doc.nodes[i]
    IN  \/ IsField(o.type, node.name) /\ (Composite(doc, o, i) <=> node.sub # 0)
        \/ node.name = "__typename" /\ node.sub = 0
        \/ IsMeta(node.name) /\ node.name # "__typename" /\ o.type = "Query" /\ node.sub # 0

\* Fields of one response key are one field with one argument.
OverlappingFieldsCanBeMerged(doc, o) ==
  \A i, j \in Fields(doc, o) :
    doc.nodes[i].key = doc.nodes[j].key =>
      doc.nodes[i].name = doc.nodes[j].name /\ doc.nodes[i].arg = doc.nodes[j].arg

ObjectRules(doc, o) ==
  /\ PossibleFragmentSpreads(doc, o)
  /\ FieldsOnCorrectType(doc, o)
  /\ OverlappingFieldsCanBeMerged(doc, o)

StandardRules(doc) == NoFragmentCycles(doc) /\ \A o \in Reached(doc) : ObjectRules(doc, o)

-----------------------------------------------------------------------------
(* Resolving.                                                              *)

\* The value a resolver gets for its size argument, 1 for one that has none.
Coerced(field, arg) ==
  IF field.size = Unsized THEN 1
  ELSE IF arg.kind \in {"none", "absent"} THEN field.size.default ELSE arg.n

\* How many objects the field returns at most, for the size given to its parent.
Length(field, size) ==
  IF field.sizedChild THEN size ELSE IF field.list THEN UnsizedList ELSE 1

CheckRange(field, arg) == field.size # Unsized => Coerced(field, arg) \in 1 .. field.size.worst

SizesInRange(doc) ==
  \A o \in Reached(doc) : \A i \in Fields(doc, o) :
    \/ IsMeta(doc.nodes[i].name)
    \/ CheckRange(Schema[o.type][doc.nodes[i].name], doc.nodes[i].arg)

\* The sum of the numbers of a set of selections.
SumOver(ids, numbers, n) ==
  LET sum[i \in Nat] == IF i = 0 THEN 0 ELSE sum[i - 1] + (IF i \in ids THEN numbers[i] ELSE 0)
  IN  sum[n]

\* An object to answer: how deep it lies and the size its parent's argument gave.
Answers(doc) == [object : Objects(doc), level : Nat, size : Int]

Below(doc, a, i) ==
  LET node == doc.nodes[i]
  IN  [object |-> Child(doc, a.object, i), level |-> a.level + 1,
       size   |-> Coerced(Schema[a.object.type][node.name], node.arg)]

\* The fields of the schema the answer holds at most for one response key, and their
\* levels: none for introspection, which does not touch the data.
AnswerField(answer, doc, a, i) ==
  IF IsMeta(doc.nodes[i].name) THEN [fields |-> 0, levels |-> {}]
  ELSE IF ~Composite(doc, a.object, i) THEN [fields |-> 1, levels |-> {a.level}]
  ELSE LET below == answer[Below(doc, a, i)]
           field == Schema[a.object.type][doc.nodes[i].name]
       IN  [fields |-> 1 + Length(field, a.size) * below.fields,
            levels |-> {a.level} \cup below.levels]

AnswerObject(answer, doc, a) ==
  LET keys == Keys(doc, a.object)
      One  == [i \in keys |-> AnswerField(answer, doc, a, i)]
  IN  [fields |-> SumOver(keys, [i \in keys |-> One[i].fields], Len(doc.nodes)),
       levels |-> UNION {One[i].levels : i \in keys}]

AnswerTo(doc) ==
  LET answer[a \in Answers(doc)] == AnswerObject(answer, doc, a)
  IN  answer[[object |-> Root(doc), level |-> 0, size |-> 1]]

=============================================================================
