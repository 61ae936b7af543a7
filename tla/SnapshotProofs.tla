--------------------------- MODULE SnapshotProofs ---------------------------
(***************************************************************************)
(* Theorems of Snapshot, for every set of requests, every set of tables,   *)
(* every filter and every size of the pool.                                *)
(***************************************************************************)
EXTENDS Snapshot, SequenceTheorems, FiniteSetTheorems, FunctionTheorems, TLAPS

-----------------------------------------------------------------------------
(* What the queries answer of one state.                                   *)

\* Counting a set by a key's values and adding up counts every element once.
LEMMA SumOfClasses ==
  ASSUME NEW D, IsFiniteSet(D), NEW K, NEW key \in [D -> K], NEW counts,
         counts = [k \in K |-> Cardinality({c \in D : key[c] = k})]
  PROVE  SumOf(counts) = Cardinality(D) /\ Cardinality(D) \in Nat
<1> DEFINE class == [k \in K |-> {c \in D : key[c] = k}]
           P == UNION {{x} \X (1 .. counts[x]) : x \in DOMAIN counts}
<1>1. ASSUME NEW k \in K
      PROVE  counts[k] \in Nat /\ ExistsBijection(1 .. counts[k], class[k])
  <2>1. class[k] \in SUBSET D /\ counts[k] = Cardinality(class[k])
    OBVIOUS
  <2> QED
    BY <2>1, FS_Subset, FS_CardinalityType
<1> DEFINE G == [k \in K |-> CHOOSE f : f \in Bijection(1 .. counts[k], class[k])]
<1>2. \A k \in K : G[k] \in Bijection(1 .. counts[k], class[k])
  BY <1>1 DEF ExistsBijection
<1>3. ASSUME NEW k \in K
      PROVE  /\ \A i \in 1 .. counts[k] : G[k][i] \in D /\ key[G[k][i]] = k
             /\ \A i, j \in 1 .. counts[k] : G[k][i] = G[k][j] => i = j
             /\ \A c \in D : key[c] = k => \E i \in 1 .. counts[k] : G[k][i] = c
  <2>1. class[k] = {c \in D : key[c] = k}
    OBVIOUS
  <2>2. G[k] \in Bijection(1 .. counts[k], class[k])
    BY <1>2
  <2> HIDE DEF G, class
  <2>3. /\ G[k] \in [1 .. counts[k] -> class[k]]
        /\ \A i, j \in 1 .. counts[k] : G[k][i] = G[k][j] => i = j
        /\ \A c \in class[k] : \E i \in 1 .. counts[k] : G[k][i] = c
    <3> DEFINE f == G[k]
               S == 1 .. counts[k]
               T == class[k]
    <3>1. f \in Bijection(S, T)
      BY <2>2
    <3> HIDE DEF f, S, T
    <3>2. /\ f \in [S -> T]
          /\ \A i, j \in S : f[i] = f[j] => i = j
          /\ \A c \in T : \E i \in S : f[i] = c
      BY <3>1, Fun_BijectionProperties
    <3> QED
      BY <3>2 DEF f, S, T
  <2>4. /\ \A i \in 1 .. counts[k] : G[k][i] \in class[k]
        /\ \A c \in class[k] : c \in D /\ key[c] = k
        /\ \A c \in D : key[c] = k => c \in class[k]
    BY <2>1, <2>3
  <2> QED
    BY <2>3, <2>4
<1> HIDE DEF G
<1>4. /\ \A p \in P : p[1] \in K /\ p[2] \in 1 .. counts[p[1]] /\ p = <<p[1], p[2]>>
      /\ \A k \in K : \A i \in 1 .. counts[k] : <<k, i>> \in P
  <2>1. P = UNION {{x} \X (1 .. counts[x]) : x \in K}
    OBVIOUS
  <2>2. ASSUME NEW p \in P
        PROVE  p[1] \in K /\ p[2] \in 1 .. counts[p[1]] /\ p = <<p[1], p[2]>>
    <3>1. PICK x \in K : p \in {x} \X (1 .. counts[x])
      BY <2>1
    <3> QED
      BY <3>1
  <2>3. ASSUME NEW k \in K, NEW i \in 1 .. counts[k]
        PROVE  <<k, i>> \in P
    <3>1. <<k, i>> \in {k} \X (1 .. counts[k])
      OBVIOUS
    <3> QED
      BY <2>1, <3>1
  <2> QED
    BY <2>2, <2>3
<1> HIDE DEF P, class
<1> DEFINE h == [p \in P |-> G[p[1]][p[2]]]
<1>5. ASSUME NEW p \in P
      PROVE  h[p] = G[p[1]][p[2]] /\ h[p] \in D /\ key[h[p]] = p[1]
  <2>1. p[1] \in K /\ p[2] \in 1 .. counts[p[1]]
    BY <1>4
  <2>2. G[p[1]][p[2]] \in D /\ key[G[p[1]][p[2]]] = p[1]
    BY <1>3, <2>1
  <2> QED
    BY <2>2
<1>6. ASSUME NEW p \in P, NEW q \in P, h[p] = h[q] PROVE p = q
  <2>1. p[1] = q[1]
    BY <1>5, <1>6
  <2>2. /\ p[1] \in K /\ p[2] \in 1 .. counts[p[1]] /\ q[2] \in 1 .. counts[p[1]]
        /\ G[p[1]][p[2]] = G[p[1]][q[2]]
    BY <1>4, <1>5, <1>6, <2>1
  <2>3. p[2] = q[2]
    BY <1>3, <2>2
  <2>4. p = <<p[1], p[2]>> /\ q = <<q[1], q[2]>>
    BY <1>4
  <2> QED
    BY <2>1, <2>3, <2>4
<1>7. ASSUME NEW c \in D PROVE \E p \in P : h[p] = c
  <2> DEFINE k == key[c]
  <2>0. k \in K
    OBVIOUS
  <2>1. PICK i \in 1 .. counts[k] : G[k][i] = c
    BY <1>3, <2>0
  <2>2. <<key[c], i>> \in P
    BY <1>4
  <2> QED
    BY <2>1, <2>2
<1>8. ExistsBijection(P, D)
  <2>0. h \in [P -> D]
    BY <1>5
  <2> HIDE DEF h
  <2>1. h \in Bijection(P, D)
    BY <2>0, <1>6, <1>7, Fun_IsBij
  <2> QED
    BY <2>1 DEF ExistsBijection
<1>9. ExistsBijection(D, P)
  BY <1>8, Fun_ExistsBijSymmetric
<1> QED
  BY <1>9, FS_Bijection, FS_CardinalityType DEF P, SumOf

\* The listed types and the rest add up to the total.
LEMMA TypesAddUp ==
  ASSUME NEW calls, IsTable(calls)
  PROVE  SumOf(TypeCounts(calls).entries) + TypeCounts(calls).other = Counts(calls).total
<1> DEFINE C == Conditions(calls)
           L == Listed(calls)
           R == Types(calls) \ Listed(calls)
           inL == {c \in C : c.type \in L}
           inR == {c \in C : c.type \in R}
<1>1. IsFiniteSet(C)
  BY FS_Subset DEF Conditions, IsTable
<1>2. C = inL \cup inR /\ inL \cap inR = {}
  BY DEF Types
<1>3. IsFiniteSet(inL) /\ IsFiniteSet(inR)
  BY <1>1, FS_Subset
<1>4. SumOf([t \in L |-> OfType(calls, t)]) = Cardinality(inL) /\ Cardinality(inL) \in Nat
  <2> DEFINE key == [c \in inL |-> c.type]
  <2>1. key \in [inL -> L]
    OBVIOUS
  <2>2. \A t \in L : OfType(calls, t) = Cardinality({c \in inL : key[c] = t})
    <3> SUFFICES ASSUME NEW t \in L
                 PROVE  {c \in C : c.type = t} = {c \in inL : key[c] = t}
      BY DEF OfType
    <3> QED
      OBVIOUS
  <2>3. [t \in L |-> OfType(calls, t)] = [t \in L |-> Cardinality({c \in inL : key[c] = t})]
    BY <2>2
  <2> HIDE DEF key, inL, L
  <2> QED
    BY <1>3, <2>1, <2>3, SumOfClasses
<1>5. SumOf([t \in R |-> OfType(calls, t)]) = Cardinality(inR) /\ Cardinality(inR) \in Nat
  <2> DEFINE key == [c \in inR |-> c.type]
  <2>1. key \in [inR -> R]
    OBVIOUS
  <2>2. \A t \in R : OfType(calls, t) = Cardinality({c \in inR : key[c] = t})
    <3> SUFFICES ASSUME NEW t \in R
                 PROVE  {c \in C : c.type = t} = {c \in inR : key[c] = t}
      BY DEF OfType
    <3> QED
      OBVIOUS
  <2>3. [t \in R |-> OfType(calls, t)] = [t \in R |-> Cardinality({c \in inR : key[c] = t})]
    BY <2>2
  <2> HIDE DEF key, inR, R
  <2> QED
    BY <1>3, <2>1, <2>3, SumOfClasses
<1>6. Cardinality(C) = Cardinality(inL) + Cardinality(inR)
  <2>1. Cardinality(inL \cap inR) = 0
    BY <1>2, FS_EmptySet
  <2>2. Cardinality(inL \cup inR) = Cardinality(inL) + Cardinality(inR) - Cardinality(inL \cap inR)
    BY <1>3, FS_Union
  <2> HIDE DEF inL, inR, C
  <2> QED
    BY <1>2, <1>4, <1>5, <2>1, <2>2
<1> QED
  BY <1>4, <1>5, <1>6 DEF TypeCounts, Counts

\* So do the hours.
LEMMA HoursAddUp ==
  ASSUME NEW calls, IsTable(calls)
  PROVE  SumOf(Hourly(calls)) = Counts(calls).total
<1> DEFINE C == Conditions(calls)
           H == {c.received : c \in C}
           key == [c \in C |-> c.received]
<1>1. IsFiniteSet(C)
  BY FS_Subset DEF Conditions, IsTable
<1>2. key \in [C -> H]
  OBVIOUS
<1>3. Hourly(calls) = [h \in H |-> Cardinality({c \in C : key[c] = h})]
  <2>1. \A h \in H : {c \in C : c.received = h} = {c \in C : key[c] = h}
    OBVIOUS
  <2> QED
    BY <2>1 DEF Hourly
<1>4. Counts(calls).total = Cardinality(C)
  BY DEF Counts
<1> HIDE DEF C, H, key
<1> QED
  BY <1>1, <1>2, <1>3, <1>4, SumOfClasses

\* As many calls are on the map as have coordinates, up to the limit: Newer puts them in a
\* row, in which each call has its place.
LEMMA MapIsFull ==
  ASSUME NEW calls, IsTable(calls), MapLimit \in Nat
  PROVE  Cardinality(MapCalls(calls))
           = IF Counts(calls).located > MapLimit THEN MapLimit ELSE Counts(calls).located
<1> DEFINE placed == {c \in Conditions(calls) : c.located}
           n == Cardinality(placed)
           newer == [c \in placed |-> {d \in placed : Newer(d, c)}]
           rank == [c \in placed |-> Cardinality(newer[c])]
           m == IF n > MapLimit THEN MapLimit ELSE n
           shown == {c \in placed : rank[c] < MapLimit}
<1>1. IsFiniteSet(placed) /\ n \in Nat
  <2>1. placed \in SUBSET calls
    BY DEF Conditions
  <2> QED
    BY <2>1, FS_Subset, FS_CardinalityType DEF IsTable
<1>2. /\ \A c \in placed : ~Newer(c, c)
      /\ \A c, d \in placed : c # d => Newer(c, d) \/ Newer(d, c)
      /\ \A b, c, d \in placed : Newer(b, c) /\ Newer(c, d) => Newer(b, d)
  <2>1. \A c \in placed : c.id \in Int /\ c.received \in Int
    BY DEF Conditions, IsTable
  <2>2. \A c, d \in placed : c.id = d.id => c = d
    BY DEF Conditions, IsTable
  <2> HIDE DEF placed
  <2> QED
    BY <2>1, <2>2 DEF Newer
<1>3. /\ MapCalls(calls) = shown
      /\ Counts(calls).located = n
  BY DEF MapCalls, Counts
<1> HIDE DEF placed
<1>4. ASSUME NEW c \in placed
      PROVE  rank[c] \in 0 .. n - 1 /\ IsFiniteSet(newer[c])
  <2>1. newer[c] \in SUBSET placed /\ c \notin newer[c]
    BY <1>2
  <2>2. IsFiniteSet(newer[c]) /\ rank[c] <= n /\ (rank[c] = n => newer[c] = placed)
    BY <1>1, <2>1, FS_Subset
  <2>3. rank[c] \in Nat
    BY <2>2, FS_CardinalityType
  <2> QED
    BY <1>1, <2>1, <2>2, <2>3
<1>5. ASSUME NEW c \in placed, NEW d \in placed, Newer(c, d)
      PROVE  rank[c] # rank[d]
  <2>1. newer[c] \in SUBSET newer[d] /\ c \in newer[d] /\ c \notin newer[c]
    BY <1>2, <1>5
  <2>2. rank[d] = rank[c] => newer[d] = newer[c]
    BY <1>4, <2>1, FS_Subset
  <2> QED
    BY <2>1, <2>2
<1>6. /\ rank \in Injection(placed, 0 .. n - 1)
      /\ rank \in Surjection(placed, 0 .. n - 1)
  <2>1. rank \in [placed -> 0 .. n - 1] /\ \A c, d \in placed : rank[c] = rank[d] => c = d
    BY <1>2, <1>4, <1>5
  <2> HIDE DEF rank
  <2>2. rank \in Injection(placed, 0 .. n - 1)
    BY <2>1, Fun_IsInj
  <2>3. IsFiniteSet(0 .. n - 1) /\ Cardinality(0 .. n - 1) = n
    BY <1>1, FS_Interval
  <2> QED
    BY <2>2, <2>3, FS_Injection
<1> DEFINE r == [c \in shown |-> rank[c]]
<1>7. r \in Bijection(shown, 0 .. m - 1)
  <2>1. /\ \A c \in placed : rank[c] \in 0 .. n - 1
        /\ \A c, d \in placed : rank[c] = rank[d] => c = d
        /\ \A i \in 0 .. n - 1 : \E c \in placed : rank[c] = i
    <3> DEFINE T == 0 .. n - 1
    <3>1. rank \in Injection(placed, T) /\ rank \in Surjection(placed, T)
      BY <1>6
    <3> HIDE DEF rank, T
    <3>2. rank \in [placed -> T] /\ \A c, d \in placed : rank[c] = rank[d] => c = d
      BY <3>1, Fun_InjectionProperties
    <3>3. \A i \in T : \E c \in placed : rank[c] = i
      BY <3>1, Fun_SurjectionProperties
    <3> QED
      BY <3>2, <3>3 DEF T
  <2> HIDE DEF rank
  <2>2. r \in [shown -> 0 .. m - 1]
    BY <1>1, <2>1
  <2>3. \A c, d \in shown : r[c] = r[d] => c = d
    BY <2>1
  <2>4. \A i \in 0 .. m - 1 : \E c \in shown : r[c] = i
    BY <1>1, <2>1
  <2> HIDE DEF r, shown, m
  <2> QED
    BY <2>2, <2>3, <2>4, Fun_IsBij
<1> HIDE DEF r, rank
<1>8. Cardinality(shown) = m
  <2>1. shown \in SUBSET placed
    OBVIOUS
  <2>2. IsFiniteSet(shown)
    BY <1>1, <2>1, FS_Subset
  <2>3. ExistsBijection(shown, 0 .. m - 1)
    BY <1>7 DEF ExistsBijection
  <2>4. m \in Nat /\ Cardinality(0 .. m - 1) = m
    <3>1. m \in Nat
      BY <1>1
    <3> HIDE DEF m
    <3> QED
      BY <3>1, FS_Interval
  <2> QED
    BY <2>2, <2>3, <2>4, FS_Bijection
<1> QED
  BY <1>3, <1>8

-----------------------------------------------------------------------------
(* The invariant.                                                          *)

Phases == {"idle", "resolving", "closing", "closed", "draining", "ended"}

Typed ==
  /\ db \in Tables
  /\ phase \in [Requests -> Phases]
  /\ queue \in [Requests -> Seq(Calls \cup {"close"})]
  /\ running \in [Requests -> Seq(QueryNames)]
  /\ conn \in [Requests -> {"none", "waiting", "open"}]
  /\ view \in [Requests -> Tables \cup {None}]
  /\ back \in [Requests -> Seq(Calls)]
  /\ answers = [r \in Requests |-> [q \in QueryNames |-> answers[r][q]]]
  /\ failed \in [Requests -> BOOLEAN]
  /\ commits \in Nat /\ upsets \in Nat

\* The answers of a request are of one state, the one its transaction sees while they are
\* collected.
OfOneState(r) ==
  \/ \A q \in QueryNames : answers[r][q] = None
  \/ \E t \in Tables :
       /\ phase[r] \in {"idle", "resolving"} => view[r] = t
       /\ \A q \in QueryNames : answers[r][q] \in {None, Result(q, t)}

\* Nothing is read before a request starts; _close is queued once, by the response.
Course(r) ==
  /\ phase[r] = "idle" => queue[r] = << >> /\ running[r] = << >> /\ back[r] = << >> /\ view[r] = None
  /\ \A i \in 1 .. Len(queue[r]) : queue[r][i] = "close" => phase[r] = "closing"
  /\ \A i, j \in 1 .. Len(queue[r]) : queue[r][i] = "close" /\ queue[r][j] = "close" => i = j
  /\ phase[r] = "ended" => queue[r] = << >> /\ running[r] = << >>

\* A request without a failure is closed when all its calls are done and handled.
WellEnded(r) ==
  ~failed[r] =>
    /\ phase[r] = "closing" => queue[r] = <<"close">> /\ running[r] = << >> /\ back[r] = << >>
    /\ phase[r] \in {"closed", "draining", "ended"} =>
         queue[r] = << >> /\ running[r] = << >> /\ back[r] = << >> /\ conn[r] = "none"

IInv == Typed /\ \A r \in Requests : OfOneState(r) /\ Course(r) /\ WellEnded(r)

-----------------------------------------------------------------------------
(* The calls of the executor's queue.                                      *)

LEMMA CallsTyped ==
  /\ "close" \notin Calls
  /\ \A c \in Calls : QueriesOf(c) \in Seq(QueryNames) /\ FollowUp(c) \in Seq(Calls \cup {"close"})
  /\ \A c \in Calls : \A i \in 1 .. Len(FollowUp(c)) : FollowUp(c)[i] # "close"
BY DEF Calls, QueriesOf, FollowUp, QueryNames

\* What is behind the first of a queue, and what is put at its end.
LEMMA TailOf ==
  ASSUME NEW S, NEW s \in Seq(S), s # << >>
  PROVE  /\ Head(s) \in S /\ Head(s) = s[1] /\ Tail(s) \in Seq(S)
         /\ Len(Tail(s)) = Len(s) - 1 /\ Len(s) \in Nat \ {0}
         /\ \A i \in 1 .. Len(Tail(s)) : Tail(s)[i] = s[i + 1]
OBVIOUS

\* "close" is where it was in a queue to which other calls are put.
LEMMA ConcatOf ==
  ASSUME NEW S, NEW s \in Seq(S), NEW t \in Seq(S), \A i \in 1 .. Len(t) : t[i] # "close"
  PROVE  \A i \in 1 .. Len(s \o t) : (s \o t)[i] = "close" => i \in 1 .. Len(s) /\ s[i] = "close"
<1>1. /\ Len(s \o t) = Len(s) + Len(t)
      /\ Len(s) \in Nat /\ Len(t) \in Nat
      /\ \A i \in 1 .. Len(s) + Len(t) : (s \o t)[i] = IF i <= Len(s) THEN s[i] ELSE t[i - Len(s)]
  BY ConcatProperties, LenProperties
<1> QED BY <1>1

\* It is in one place of a queue it is put to.
LEMMA AppendOf ==
  ASSUME NEW S, NEW s \in Seq(S), "close" \in S, \A i \in 1 .. Len(s) : s[i] # "close"
  PROVE  \A i \in 1 .. Len(Append(s, "close")) : Append(s, "close")[i] = "close" => i = Len(s) + 1
<1>1. /\ Len(Append(s, "close")) = Len(s) + 1
      /\ Len(s) \in Nat
      /\ \A i \in 1 .. Len(s) : Append(s, "close")[i] = s[i]
  BY AppendProperties, LenProperties
<1> QED BY <1>1

LEMMA LoopTypes ==
  ASSUME Typed, NEW r \in Requests, LoopStep(r)
  PROVE  Typed'
<1>1. CASE Start(r)
  <2>1. PICK calls \in {<<"summary">>, <<"map">>, <<"summary", "map">>}, refused \in BOOLEAN :
          /\ queue' = [queue EXCEPT ![r] = calls]
          /\ failed' = [failed EXCEPT ![r] = refused]
          /\ upsets' = IF refused THEN upsets + 1 ELSE upsets
    BY <1>1 DEF Start
  <2>2. calls \in Seq(Calls \cup {"close"})
    <3>1. /\ <<"summary">> \in Seq(Calls \cup {"close"})
          /\ <<"map">> \in Seq(Calls \cup {"close"})
          /\ <<"summary", "map">> \in Seq(Calls \cup {"close"})
      BY DEF Calls
    <3> QED BY <3>1
  <2>3. queue' \in [Requests -> Seq(Calls \cup {"close"})] /\ upsets' \in Nat
    BY <2>1, <2>2 DEF Typed
  <2> QED BY <1>1, <2>1, <2>3 DEF Typed, Start, Phases
<1>2. CASE Resume(r)
  <2>1. Head(back[r]) \in Calls /\ Tail(back[r]) \in Seq(Calls)
    BY <1>2, TailOf DEF Resume, Typed
  <2>2. FollowUp(Head(back[r])) \in Seq(Calls \cup {"close"})
    BY <2>1, CallsTyped
  <2>3. queue[r] \o FollowUp(Head(back[r])) \in Seq(Calls \cup {"close"})
    BY <2>2 DEF Typed
  <2> QED BY <1>2, <2>1, <2>3 DEF Typed, Resume
<1>3. CASE Respond(r)
  <2>1. Append(queue[r], "close") \in Seq(Calls \cup {"close"})
    BY DEF Typed
  <2> QED BY <1>3, <2>1 DEF Typed, Respond, Phases
<1>4. CASE Shutdown(r)
  BY <1>4 DEF Typed, Shutdown, Phases
<1>5. CASE Drained(r)
  BY <1>5 DEF Typed, Drained, Phases
<1> QED BY <1>1, <1>2, <1>3, <1>4, <1>5 DEF LoopStep

LEMMA ThreadTypes ==
  ASSUME Typed, NEW r \in Requests, ThreadStep(r)
  PROVE  Typed'
<1>1. CASE TakeCall(r)
  <2>1. Head(queue[r]) \in Calls /\ Tail(queue[r]) \in Seq(Calls \cup {"close"})
    BY <1>1, TailOf DEF TakeCall, Typed
  <2>2. QueriesOf(Head(queue[r])) \in Seq(QueryNames)
    BY <2>1, CallsTyped
  <2> QED BY <1>1, <2>1, <2>2 DEF Typed, TakeCall
<1>2. CASE Connect(r)
  BY <1>2 DEF Typed, Connect
<1>3. CASE PoolTimeout(r)
  BY <1>3 DEF Typed, PoolTimeout
<1>4. CASE RunQuery(r)
  <2>1. Head(running[r]) \in QueryNames /\ Tail(running[r]) \in Seq(QueryNames)
    BY <1>4, TailOf DEF RunQuery, Typed, ThreadIdle
  <2>2. (IF view[r] = None THEN db ELSE view[r]) \in Tables
    BY DEF Typed
  <2>3. Len(running[r]) = 1 /\ Head(running[r]) = "summary" => Append(back[r], Head(running[r])) \in Seq(Calls)
    BY DEF Typed, Calls
  <2>4. back' \in [Requests -> Seq(Calls)]
    BY <1>4, <2>3 DEF Typed, RunQuery
  <2>5. answers' = [x \in Requests |-> [q \in QueryNames |-> answers'[x][q]]]
    BY <1>4 DEF Typed, RunQuery
  <2>6. view' \in [Requests -> Tables \cup {None}] /\ running' \in [Requests -> Seq(QueryNames)]
    BY <1>4, <2>1, <2>2 DEF Typed, RunQuery
  <2> QED BY <1>4, <2>4, <2>5, <2>6 DEF Typed, RunQuery
<1>5. CASE QueryFails(r)
  BY <1>5 DEF Typed, QueryFails
<1>6. CASE Close(r)
  <2>1. Tail(queue[r]) \in Seq(Calls \cup {"close"})
    BY <1>6, TailOf DEF Close, Typed
  <2> QED BY <1>6, <2>1 DEF Typed, Close, Phases
<1>7. CASE Reclaim(r)
  BY <1>7 DEF Typed, Reclaim
<1> QED BY <1>1, <1>2, <1>3, <1>4, <1>5, <1>6, <1>7 DEF ThreadStep

-----------------------------------------------------------------------------
(* The course of a request.                                                *)

\* A step of one request leaves the others where they are.
LEMMA OthersStay ==
  ASSUME Typed, NEW r \in Requests, NEW x \in Requests, x # r, LoopStep(r) \/ ThreadStep(r)
  PROVE  /\ phase'[x] = phase[x] /\ queue'[x] = queue[x] /\ running'[x] = running[x]
         /\ conn'[x] = conn[x] /\ view'[x] = view[x] /\ back'[x] = back[x]
         /\ failed'[x] = failed[x] /\ answers'[x] = answers[x]
<1>1. CASE LoopStep(r)
  BY <1>1 DEF LoopStep, Start, Resume, Respond, Shutdown, Drained, Typed
<1>2. CASE ThreadStep(r)
  BY <1>2 DEF ThreadStep, TakeCall, Connect, PoolTimeout, RunQuery, QueryFails, Close, Reclaim, Typed
<1> QED BY <1>1, <1>2

\* Only the response queues a call to _close, and _close is the last of a request that
\* did not fail.
LEMMA LoopCourse ==
  ASSUME Typed, NEW r \in Requests, Course(r), WellEnded(r), LoopStep(r)
  PROVE  Course(r)' /\ WellEnded(r)'
<1>1. CASE Start(r)
  <2>1. PICK calls \in {<<"summary">>, <<"map">>, <<"summary", "map">>} :
          queue' = [queue EXCEPT ![r] = calls]
    BY <1>1 DEF Start
  <2>2. queue'[r] = calls /\ phase'[r] = "resolving"
    BY <1>1, <2>1 DEF Start, Typed
  <2>3. \A i \in 1 .. Len(calls) : calls[i] # "close"
    OBVIOUS
  <2> QED BY <2>2, <2>3 DEF Course, WellEnded
<1>2. CASE Resume(r)
  <2>1. Head(back[r]) \in Calls
    BY <1>2, TailOf DEF Resume, Typed
  <2> DEFINE more == FollowUp(Head(back[r]))
  <2>2. /\ phase' = phase /\ running' = running /\ conn' = conn /\ view' = view /\ failed' = failed
        /\ queue'[r] = IF phase[r] = "ended" THEN queue[r] ELSE queue[r] \o more
        /\ back'[r] = Tail(back[r])
    BY <1>2 DEF Resume, Typed
  <2>3. phase[r] # "idle"
    BY <1>2 DEF Course, Resume
  <2>4. more \in Seq(Calls \cup {"close"}) /\ queue[r] \in Seq(Calls \cup {"close"})
    BY <2>1, CallsTyped DEF Typed
  <2>5. \A i \in 1 .. Len(more) : more[i] # "close"
    BY <2>1, CallsTyped
  <2> HIDE DEF more
  <2>6. \A i \in 1 .. Len(queue[r] \o more) :
          (queue[r] \o more)[i] = "close" => i \in 1 .. Len(queue[r]) /\ queue[r][i] = "close"
    <3> DEFINE before == queue[r]
               S == Calls \cup {"close"}
    <3>1. before \in Seq(S) /\ more \in Seq(S)
      BY <2>4
    <3> HIDE DEF before, S
    <3>2. \A i \in 1 .. Len(before \o more) :
            (before \o more)[i] = "close" => i \in 1 .. Len(before) /\ before[i] = "close"
      BY <2>5, <3>1, ConcatOf
    <3> QED BY <3>2 DEF before
  <2>7. Course(r)'
    BY <2>2, <2>3, <2>6 DEF Course
  <2>8. WellEnded(r)'
    BY <1>2, <2>2 DEF WellEnded, Resume
  <2> QED BY <2>7, <2>8
<1>3. CASE Respond(r)
  <2>1. /\ phase'[r] = "closing" /\ queue'[r] = Append(queue[r], "close")
        /\ running' = running /\ back' = back /\ failed' = failed
    BY <1>3 DEF Respond, Typed
  <2>2. failed[r] \/ (queue[r] = << >> /\ running[r] = << >> /\ back[r] = << >>)
    BY <1>3 DEF Respond, ThreadIdle
  <2>3. queue[r] = << >> => Append(queue[r], "close") = <<"close">>
    OBVIOUS
  <2>4. WellEnded(r)'
    BY <2>1, <2>2, <2>3 DEF WellEnded
  <2>5. queue[r] \in Seq(Calls \cup {"close"}) /\ \A i \in 1 .. Len(queue[r]) : queue[r][i] # "close"
    BY <1>3 DEF Respond, Course, Typed
  <2>6. \A i \in 1 .. Len(queue'[r]) : queue'[r][i] = "close" => i = Len(queue[r]) + 1
    BY <2>1, <2>5, AppendOf
  <2> QED BY <2>1, <2>4, <2>6 DEF Course
<1>4. CASE Shutdown(r)
  BY <1>4 DEF Shutdown, Typed, Course, WellEnded
<1>5. CASE Drained(r)
  BY <1>5 DEF Drained, Typed, Course, WellEnded, ThreadIdle
<1> QED BY <1>1, <1>2, <1>3, <1>4, <1>5 DEF LoopStep

LEMMA ThreadCourse ==
  ASSUME Typed, NEW r \in Requests, Course(r), WellEnded(r), ThreadStep(r)
  PROVE  Course(r)' /\ WellEnded(r)'
<1>1. CASE TakeCall(r)
  <2>1. /\ phase' = phase /\ queue'[r] = Tail(queue[r]) /\ failed' = failed
        /\ queue[r] # << >> /\ queue[r] \in Seq(Calls \cup {"close"}) /\ Head(queue[r]) # "close"
    BY <1>1 DEF TakeCall, Typed
  <2>2. \A i \in 1 .. Len(Tail(queue[r])) : i + 1 \in 1 .. Len(queue[r]) /\ Tail(queue[r])[i] = queue[r][i + 1]
    BY <2>1, TailOf
  <2>3. phase[r] \notin {"idle", "ended"}
    BY <2>1 DEF Course
  <2>4. Course(r)'
    BY <2>1, <2>2, <2>3 DEF Course
  <2>5. failed[r] \/ phase[r] \notin {"closing", "closed", "draining", "ended"}
    BY <2>1 DEF WellEnded
  <2> QED BY <2>1, <2>4, <2>5 DEF WellEnded
<1>2. CASE Connect(r)
  BY <1>2 DEF Connect, Typed, Course, WellEnded
<1>3. CASE PoolTimeout(r)
  BY <1>3 DEF PoolTimeout, Typed, Course, WellEnded
<1>4. CASE RunQuery(r)
  <2>1. /\ phase' = phase /\ queue' = queue /\ conn' = conn /\ failed' = failed
        /\ running[r] # << >>
    BY <1>4 DEF RunQuery, ThreadIdle
  <2> QED BY <2>1 DEF Course, WellEnded
<1>5. CASE QueryFails(r)
  BY <1>5 DEF QueryFails, Typed, Course, WellEnded
<1>6. CASE Close(r)
  <2>1. /\ phase'[r] = "closed" /\ queue'[r] = Tail(queue[r]) /\ failed' = failed
        /\ conn'[r] = "none" /\ running' = running /\ back' = back
        /\ queue[r] # << >> /\ queue[r] \in Seq(Calls \cup {"close"}) /\ Head(queue[r]) = "close"
    BY <1>6 DEF Close, Typed
  <2>2. phase[r] = "closing"
    BY <2>1, TailOf DEF Course
  <2>3. \A i \in 1 .. Len(Tail(queue[r])) : i + 1 \in 1 .. Len(queue[r]) /\ Tail(queue[r])[i] = queue[r][i + 1]
    BY <2>1, TailOf
  <2>4. \A i \in 1 .. Len(Tail(queue[r])) : Tail(queue[r])[i] # "close"
    <3>1. 1 \in 1 .. Len(queue[r]) /\ queue[r][1] = "close"
      BY <2>1, TailOf
    <3> QED BY <2>3, <3>1 DEF Course
  <2>5. ~failed[r] => Tail(queue[r]) = << >> /\ running[r] = << >> /\ back[r] = << >>
    <3>1. Tail(<<"close">>) = << >>
      OBVIOUS
    <3> QED BY <2>2, <3>1 DEF WellEnded
  <2> QED BY <2>1, <2>2, <2>4, <2>5 DEF Course, WellEnded
<1>7. CASE Reclaim(r)
  BY <1>7 DEF Reclaim, Typed, Course, WellEnded
<1> QED BY <1>1, <1>2, <1>3, <1>4, <1>5, <1>6, <1>7 DEF ThreadStep

\* Every answer is of the state that the first one was of.
LEMMA OneStateStays ==
  ASSUME Typed, NEW r \in Requests, Course(r), OfOneState(r), LoopStep(r) \/ ThreadStep(r)
  PROVE  OfOneState(r)'
<1>1. CASE RunQuery(r) /\ phase[r] = "resolving"
  <2> DEFINE seen == IF view[r] = None THEN db ELSE view[r]
             query == Head(running[r])
  <2>1. seen \in Tables
    BY DEF Typed
  <2>2. /\ phase'[r] = phase[r] /\ view'[r] = seen
        /\ \A q \in QueryNames :
             answers'[r][q] = answers[r][q] \/ answers'[r][q] = Result(q, seen)
    BY <1>1 DEF RunQuery, Typed
  <2>3. \A q \in QueryNames : answers[r][q] \in {None, Result(q, seen)}
    BY <1>1, SnapshotAssumption DEF OfOneState
  <2> HIDE DEF seen
  <2>4. \A q \in QueryNames : answers'[r][q] \in {None, Result(q, seen)}
    BY <2>2, <2>3
  <2> QED
    BY <2>1, <2>2, <2>4 DEF OfOneState
<1>2. CASE ~(RunQuery(r) /\ phase[r] = "resolving")
  <2>1. answers'[r] = answers[r]
    BY <1>2
       DEF LoopStep, ThreadStep, Start, Resume, Respond, Shutdown, Drained, TakeCall, Connect,
           PoolTimeout, RunQuery, QueryFails, Close, Reclaim, Typed
  <2>2. phase'[r] \in {"idle", "resolving"} =>
          phase[r] \in {"idle", "resolving"} /\ view'[r] = view[r]
    BY <1>2
       DEF LoopStep, ThreadStep, Start, Resume, Respond, Shutdown, Drained, TakeCall, Connect,
           PoolTimeout, RunQuery, QueryFails, Close, Reclaim, Typed, Course, ThreadIdle
  <2> QED
    BY <2>1, <2>2 DEF OfOneState
<1> QED BY <1>1, <1>2

THEOREM InductiveInvariant == SafeSpec => []IInv
<1>1. Init => IInv
  BY DEF Init, IInv, Typed, OfOneState, Course, WellEnded, Phases
<1>2. IInv /\ [Next]_vars => IInv'
  <2> SUFFICES ASSUME IInv, [Next]_vars PROVE IInv'
    OBVIOUS
  <2>1. CASE Commit \/ UNCHANGED vars
    <3>1. UNCHANGED requestVars
      BY <2>1 DEF Commit, vars, requestVars
    <3>2. Typed'
      BY <2>1, <3>1 DEF IInv, Typed, Commit, vars, requestVars
    <3>3. ASSUME NEW r \in Requests PROVE OfOneState(r)' /\ Course(r)' /\ WellEnded(r)'
      <4>1. OfOneState(r)'
        BY <3>1 DEF IInv, OfOneState, requestVars
      <4>2. Course(r)' /\ WellEnded(r)'
        BY <3>1 DEF IInv, Course, WellEnded, requestVars
      <4> QED
        BY <4>1, <4>2
    <3> QED
      BY <3>2, <3>3 DEF IInv
  <2>2. ASSUME NEW r \in Requests, LoopStep(r) \/ ThreadStep(r)
        PROVE  IInv'
    <3>1. Typed'
      BY <2>2, LoopTypes, ThreadTypes DEF IInv
    <3>2. OfOneState(r)' /\ Course(r)' /\ WellEnded(r)'
      BY <2>2, LoopCourse, ThreadCourse, OneStateStays DEF IInv
    <3>3. ASSUME NEW x \in Requests, x # r PROVE OfOneState(x)' /\ Course(x)' /\ WellEnded(x)'
      BY <2>2, <3>3, OthersStay DEF IInv, OfOneState, Course, WellEnded
    <3> QED BY <3>1, <3>2, <3>3 DEF IInv
  <2> QED BY <2>1, <2>2 DEF Next
<1> QED BY <1>1, <1>2, PTL DEF SafeSpec

-----------------------------------------------------------------------------
(* Theorems.                                                               *)

\* The types of a request's course, queue, connection and answers.
THEOREM TypeInvariant == SafeSpec => []TypeOK
<1>1. IInv => TypeOK
  BY DEF IInv, Typed, OfOneState, TypeOK, Phases
<1> QED BY <1>1, InductiveInvariant, PTL

\* The numbers a page shows together agree: the types with the rest and the hours add up to
\* the total, and no located call is missing from an untruncated map, whatever is committed
\* between the queries they come from (type_counts, hourly, counts, map_calls).
THEOREM AnswersAgreeHolds == SafeSpec => []AnswersAgree
<1>1. IInv => AnswersAgree
  <2> SUFFICES ASSUME IInv, NEW r \in Requests
               PROVE  /\ Answered(r, "summary") /\ Answered(r, "types") =>
                           SumOf(answers[r]["types"].entries) + answers[r]["types"].other
                             = answers[r]["summary"].total
                      /\ Answered(r, "summary") /\ Answered(r, "hourly") =>
                           SumOf(answers[r]["hourly"]) = answers[r]["summary"].total
                      /\ Answered(r, "summary") /\ Answered(r, "matching") =>
                           answers[r]["summary"] = answers[r]["matching"]
                      /\ Answered(r, "matching") /\ Answered(r, "shown") =>
                           Cardinality(answers[r]["shown"])
                             = IF answers[r]["matching"].located > MapLimit
                                 THEN MapLimit ELSE answers[r]["matching"].located
    BY DEF AnswersAgree
  <2>1. CASE \A q \in QueryNames : answers[r][q] = None
    BY <2>1 DEF Answered, QueryNames
  <2>2. CASE \E t \in Tables : \A q \in QueryNames : answers[r][q] \in {None, Result(q, t)}
    <3>1. PICK t \in Tables : \A q \in QueryNames : answers[r][q] \in {None, Result(q, t)}
      BY <2>2
    <3>2. /\ Answered(r, "summary") => answers[r]["summary"] = Counts(t)
          /\ Answered(r, "matching") => answers[r]["matching"] = Counts(t)
          /\ Answered(r, "types") => answers[r]["types"] = TypeCounts(t)
          /\ Answered(r, "hourly") => answers[r]["hourly"] = Hourly(t)
          /\ Answered(r, "shown") => answers[r]["shown"] = MapCalls(t)
      BY <3>1 DEF Answered, QueryNames, Result
    <3>3. IsTable(t) /\ MapLimit \in Nat
      BY SnapshotAssumption
    <3> QED
      BY <3>2, <3>3, TypesAddUp, HoursAddUp, MapIsFull
  <2> QED
    BY <2>1, <2>2 DEF IInv, OfOneState
<1> QED BY <1>1, InductiveInvariant, PTL

\* A request that ended well has given its connection back (Snapshot.close).
THEOREM NothingHeldHolds == SafeSpec => []NothingHeld
<1>1. IInv => NothingHeld
  BY DEF IInv, Course, WellEnded, NothingHeld, ThreadIdle
<1> QED BY <1>1, InductiveInvariant, PTL

\* The state that a request's answers are of, as Reading has it.
Seen == [r \in Requests |-> IF phase[r] = "resolving" THEN view[r] ELSE None]

Sent == [r \in Requests |-> phase[r] \notin {"idle", "resolving"}]

LEMMA SameView ==
  ASSUME Typed, NEW r \in Requests, LoopStep(r) \/ ThreadStep(r),
         Seen'[r] = Seen[r], Sent'[r] = Sent[r]
  PROVE  Seen' = Seen /\ Sent' = Sent
<1>1. ASSUME NEW x \in Requests PROVE Seen'[x] = Seen[x] /\ Sent'[x] = Sent[x]
  BY OthersStay DEF Seen, Sent
<1> QED BY <1>1 DEF Seen, Sent

\* A step of the event loop is a response or none of Reading's concern.
LEMMA LoopReads ==
  ASSUME IInv, NEW r \in Requests, LoopStep(r)
  PROVE  Promise!Send(r) \/ UNCHANGED Promise!readingVars
<1> USE DEF IInv
<1>1. CASE Start(r) \/ Resume(r) \/ Shutdown(r) \/ Drained(r)
  <2>1. db' = db /\ answers' = answers
    BY <1>1 DEF Start, Resume, Shutdown, Drained
  <2>2. Seen'[r] = Seen[r] /\ Sent'[r] = Sent[r]
    BY <1>1 DEF Start, Resume, Shutdown, Drained, Seen, Sent, Typed, Course
  <2>3. Seen' = Seen /\ Sent' = Sent
    BY <2>2, SameView
  <2> QED BY <2>1, <2>3 DEF Promise!readingVars, Seen, Sent
<1>2. CASE Respond(r)
  <2>1. db' = db /\ answers' = answers /\ view' = view /\ phase[r] = "resolving"
    BY <1>2 DEF Respond
  <2>2. phase' = [phase EXCEPT ![r] = "closing"]
    BY <1>2 DEF Respond
  <2>3. Seen' = [Seen EXCEPT ![r] = None] /\ Sent' = [Sent EXCEPT ![r] = TRUE] /\ ~Sent[r]
    BY <2>1, <2>2 DEF Seen, Sent, Typed
  <2> QED BY <2>1, <2>3 DEF Promise!Send, Seen, Sent
<1> QED BY <1>1, <1>2 DEF LoopStep

\* A step of the thread is a look or none of Reading's concern.
LEMMA ThreadReads ==
  ASSUME IInv, NEW r \in Requests, ThreadStep(r)
  PROVE  Promise!Look(r) \/ UNCHANGED Promise!readingVars
<1> USE DEF IInv
<1>1. CASE RunQuery(r) /\ phase[r] = "resolving"
  <2> DEFINE seen == IF view[r] = None THEN db ELSE view[r]
             query == Head(running[r])
  <2>1. query \in QueryNames
    BY <1>1, TailOf DEF RunQuery, Typed, ThreadIdle
  <2>2. /\ db' = db /\ phase' = phase /\ view' = [view EXCEPT ![r] = seen]
        /\ answers' = [answers EXCEPT ![r] = [@ EXCEPT ![query] = Result(query, seen)]]
    BY <1>1 DEF RunQuery
  <2>3. Seen[r] = view[r] /\ ~Sent[r] /\ Sent' = Sent
    BY <1>1, <2>2 DEF Seen, Sent
  <2>4. Seen' = [Seen EXCEPT ![r] = seen]
    BY <1>1, <2>2 DEF Seen, Typed
  <2>5. /\ ~Sent[r]
        /\ \E q \in QueryNames :
             LET it == IF Seen[r] = None THEN db ELSE Seen[r]
             IN  /\ Seen' = [Seen EXCEPT ![r] = it]
                 /\ answers' = [answers EXCEPT ![r] = [@ EXCEPT ![q] = Result(q, it)]]
        /\ UNCHANGED <<db, Sent>>
    BY <2>1, <2>2, <2>3, <2>4
  <2> QED BY <2>5 DEF Promise!Look, Seen, Sent
<1>2. CASE ~(RunQuery(r) /\ phase[r] = "resolving")
  <2>1. db' = db /\ answers' = answers
    BY <1>2 DEF ThreadStep, TakeCall, Connect, PoolTimeout, RunQuery, QueryFails, Close, Reclaim, Typed
  <2>2. Close(r) => phase[r] = "closing"
    <3> SUFFICES ASSUME Close(r) PROVE phase[r] = "closing"
      OBVIOUS
    <3>1. queue[r] \in Seq(Calls \cup {"close"}) /\ queue[r] # << >> /\ Head(queue[r]) = "close"
      BY DEF Close, Typed
    <3>2. 1 \in 1 .. Len(queue[r]) /\ queue[r][1] = "close"
      BY <3>1, TailOf
    <3> QED BY <3>2 DEF Course
  <2>3. Seen'[r] = Seen[r] /\ Sent'[r] = Sent[r]
    BY <1>2, <2>2 DEF ThreadStep, TakeCall, Connect, PoolTimeout, RunQuery, QueryFails, Close, Reclaim,
                      Seen, Sent, Typed
  <2>4. Seen' = Seen /\ Sent' = Sent
    BY <2>3, SameView
  <2> QED BY <2>1, <2>4 DEF Promise!readingVars, Seen, Sent
<1> QED BY <1>1, <1>2

\* Whatever the worker commits between a request's queries, its answers are of one state
\* that was current while it was made: Snapshot implements Reading.
THEOREM Refinement == SafeSpec => ReadsOneState
<1>1. Init => Promise!Init
  <2> SUFFICES ASSUME Init PROVE Promise!Init
    OBVIOUS
  <2>1. phase = [r \in Requests |-> "idle"]
    BY DEF Init
  <2>2. Seen = [r \in Requests |-> None]
    BY <2>1 DEF Seen
  <2>3. Sent = [r \in Requests |-> FALSE]
    BY <2>1 DEF Sent
  <2>4. db \in Tables /\ answers = [r \in Requests |-> [q \in QueryNames |-> None]]
    BY DEF Init
  <2> QED BY <2>2, <2>3, <2>4 DEF Promise!Init, Seen, Sent
<1>2. IInv /\ [Next]_vars => [Promise!Next]_Promise!readingVars
  <2> SUFFICES ASSUME IInv, [Next]_vars PROVE [Promise!Next]_Promise!readingVars
    OBVIOUS
  <2>1. CASE Commit
    BY <2>1 DEF Commit, requestVars, Promise!Next, Promise!Commit
  <2>2. ASSUME NEW r \in Requests, LoopStep(r) \/ ThreadStep(r)
        PROVE  [Promise!Next]_Promise!readingVars
    BY <2>2, LoopReads, ThreadReads DEF Promise!Next
  <2>3. CASE UNCHANGED vars
    BY <2>3 DEF vars, Promise!readingVars
  <2> QED BY <2>1, <2>2, <2>3 DEF Next
<1> QED BY <1>1, <1>2, InductiveInvariant, PTL DEF SafeSpec, ReadsOneState, Promise!Spec

=============================================================================
