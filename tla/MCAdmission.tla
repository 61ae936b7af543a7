---------------------------- MODULE MCAdmission ----------------------------
(***************************************************************************)
(* Instances of Admission for TLC: a week with a clock change of each      *)
(* kind, and documents of every kind the walk tells apart.                 *)
(***************************************************************************)
EXTENDS Admission, SequencesExt

MCInstants == {6 * k : k \in 0 .. 47 + 48 * 7} \cup {72 * k - 1 : k \in 0 .. 32}

MCSummers == {<<1, 4>>}

MCClock == {5 * Day + 3, 6 * Day + 67}

\* Sizes of Query.calls, valid and not, in every way they can be given.
Args == {NoArgument, Absent} \cup {Literal(n) : n \in {0, 1, MaxPage, MaxPage + 1}}
        \cup {Sent(n) : n \in {-1, MaxPage}} \cup {SentFloat(MaxPage), Unsent(MaxPage)}

\* Selections as they are written, one inside the other.
F(key, name, arg, inner) == [kind |-> "field", key |-> key, name |-> name, arg |-> arg, inner |-> inner]
Plain(name, inner)       == F(name, name, NoArgument, inner)
In(type, inner)          == [kind |-> "inline", type |-> type, inner |-> inner]
Of(fragment)             == [kind |-> "spread", fragment |-> fragment, inner |-> << >>]

\* The same, numbered in the order of the text from an identifier on.
RECURSIVE Laid(_, _)
Laid(selections, at) ==
  IF selections = << >> THEN << >>
  ELSE LET node  == Head(selections)
           inner == Laid(node.inner, at + 1)
           sub   == IF inner = << >> THEN 0 ELSE at + 1
           rest  == at + 1 + Len(inner)
           next  == IF Tail(selections) = << >> THEN 0 ELSE rest
           first == CASE node.kind = "field"  -> Field(node.key, node.name, node.arg, sub, next)
                      [] node.kind = "inline" -> Inline(node.type, sub, next)
                      [] OTHER                -> Spread(node.fragment, next)
       IN  <<first>> \o inner \o Laid(Tail(selections), rest)

\* A document of an operation and the fragments named, which follow it in that order.
Document(selections, names, fragments) ==
  LET laid[n \in 0 .. Len(names)] ==
        IF n = 0 THEN Laid(selections, 1)
        ELSE laid[n - 1] \o Laid(fragments[names[n]].inner, Len(laid[n - 1]) + 1)
      place(name) == CHOOSE n \in DOMAIN names : names[n] = name
  IN  [nodes     |-> laid[Len(names)],
       start     |-> 1,
       fragments |-> [name \in ToSet(names) |->
                        [type |-> fragments[name].type, start |-> Len(laid[place(name) - 1]) + 1]]]

Nodes == Plain("nodes", <<Plain("id", << >>), Plain("receivedAt", << >>)>>)
Info  == Plain("pageInfo", <<Plain("endCursor", << >>)>>)
Kind  == Plain("__typename", << >>)

MCFragments ==
  [F |-> [type |-> "CallPage", inner |-> <<Nodes, Of("G")>>],
   G |-> [type |-> "CallPage", inner |-> <<Info>>],
   H |-> [type |-> "Query", inner |-> <<F("a", "calls", NoArgument, <<Of("F"), Nodes>>)>>],
   L |-> [type |-> "Query", inner |-> <<Plain("summary", <<Plain("total", << >>)>>), Of("L")>>]]

PageSelections ==
  {<<Nodes>>, <<Plain("asOfVersion", << >>), In("CallPage", <<Nodes, Info>>)>>, <<Of("F"), Of("G")>>,
   <<Of("G"), Of("F"), Of("F")>>, <<Kind, Plain("nodes", <<Kind, Plain("id", << >>)>>)>>}

Calls(key) == {F(key, "calls", arg, inner) : arg \in Args, inner \in PageSelections}

Summaries ==
  {Plain("summary", <<F("types", "types", arg, <<inner>>), Plain("hourly", <<Plain("count", << >>)>>)>>) :
     arg \in {NoArgument, Absent, Literal(MaxTypes), Sent(MaxTypes + 1)},
     inner \in {Plain("otherCount", << >>), Plain("entries", <<Plain("count", << >>)>>)}}

Statuses == Plain("sourceStatus", <<Plain("state", << >>)>>)

Operations ==
  {<<c>> : c \in Calls("a")}
    \cup {<<c, F("b", "calls", NoArgument, <<Nodes>>), Statuses>> : c \in Calls("a")}
    \cup {<<s, Of("H"), F("a", "calls", arg, <<Info>>)>> :
            s \in Summaries, arg \in {NoArgument, Literal(1)}}
    \cup {<<F("m", "mapCalls", arg, <<Plain("calls", <<Plain("id", << >>), inner>>)>>)>> :
            arg \in {NoArgument, Literal(MaxMap)},
            inner \in {Plain("receivedAt", << >>), Plain("record", <<Plain("OBJECTID", << >>)>>)}}

\* The schema's description, deeper and wider than the limits; and introspection where it
\* is not valid.
Description ==
  Plain("__schema",
    <<Plain("types", <<Plain("name", << >>),
                       Plain("fields", <<Plain("name", << >>), Plain("type", <<Plain("name", << >>)>>)>>)>>)>>)

Introspections ==
  {<<Description>>, <<Description, Kind, F("a", "calls", NoArgument, <<Nodes>>)>>,
   <<Plain("__typename", <<Plain("name", << >>)>>)>>, <<Plain("__schema", << >>)>>,
   <<F("a", "calls", NoArgument, <<Nodes, Description>>)>>}

MCDocuments ==
  {Document(s, <<"F", "G", "H">>, MCFragments) : s \in Operations \cup Introspections}
    \cup {Document(<<Of("L")>>, <<"F", "G", "H", "L">>, MCFragments)}

=============================================================================
