----------------------------- MODULE Partition -----------------------------
(***************************************************************************)
(* How the worker cuts the history it must collect into ranges.  A range   *)
(* is the pair <<lower, upper>> and stands for the OBJECTIDs lower + 1     *)
(* through upper; its two bounds are also its name in the database         *)
(* ("backfill:lower-upper"), so the pair is its key.                       *)
(***************************************************************************)
EXTENDS Integers

CeilDiv(a, b) == (a + b - 1) \div b

Larger(a, b) == IF a < b THEN b ELSE a

Smaller(a, b) == IF a < b THEN a ELSE b

\* The width of every range but the last.
Width(lower, upper, parts) == Larger(1, CeilDiv(upper - lower, parts))

\* Python's range(lower, upper, width).
Starts(lower, upper, width) ==
  {s \in lower .. (upper - 1) : \E k \in 0 .. (upper - lower) : s = lower + k * width}

\* Mutant: each range skips its first OBJECTID.
RangesOffByOne(lower, upper, parts) ==
  LET width == Width(lower, upper, parts)
  IN  {<<Smaller(s + 1, upper), Smaller(s + width, upper)>> : s \in Starts(lower, upper, width)}

Ranges(lower, upper, parts) ==
  LET width == Width(lower, upper, parts)
  IN  {<<s, Smaller(s + width, upper)>> : s \in Starts(lower, upper, width)}

\* How many ranges the worker asks for: enough that each spans `pages` full pages.
Parts(boundary, pageSize, pages) == Larger(1, CeilDiv(boundary, pageSize * pages))

=============================================================================
