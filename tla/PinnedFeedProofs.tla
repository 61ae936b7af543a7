-------------------------- MODULE PinnedFeedProofs --------------------------
(***************************************************************************)
(* Proofs about the store's versions and a reader's walk of the feed, for  *)
(* any number of records, contents, filters and page sizes.                *)
(***************************************************************************)
EXTENDS PinnedFeed, TLAPS, WellFoundedInduction

-----------------------------------------------------------------------------
(* The order of the feed.                                                  *)

\* A non-empty set of natural numbers has a least element.
LEMMA Least ==
  ASSUME NEW T \in SUBSET Nat, T # {}
  PROVE  \E x \in T : \A y \in T : x <= y
<1>1. PICK x \in T : \A y \in T : ~ (<<y, x>> \in OpToRel(<, Nat))
  BY WFMin, NatLessThanWellFounded
<1>2. \A y \in T : ~ (y < x)
  BY <1>1, Zenon DEF OpToRel
<1>3. \A y \in T : x <= y
  BY <1>2
<1> QED BY <1>3

\* Keys are a time and an identifier, and no two records have the same key.
LEMMA Keys ==
  ASSUME TypeOK
  PROVE  /\ \A id \in Stored : /\ Key(id)[1] \in 0 .. MaxTime
                               /\ Key(id)[2] = id
                               /\ id \in 1 .. MaxId
         /\ after[1] \in 0 .. MaxTime + 1 /\ after[2] \in 0 .. MaxId
BY DEF TypeOK, Key, Rows, Contents, Ids, Stored

\* A page that is not empty ends at one of its calls, below all the others.
LEMMA LastOfPage ==
  ASSUME TypeOK, RecordsAssumption, NEW page \in SUBSET Stored, page # {}, NEW k
  PROVE  \E last \in page : /\ LastKey(page, k) = Key(last)
                            /\ \A other \in page \ {last} : Above(Key(other), Key(last))
<1>k. \A id \in page : Key(id)[1] \in Nat /\ Key(id)[2] = id /\ id \in Nat
  BY Keys, RecordsAssumption
<1> DEFINE times == {Key(id)[1] : id \in page}
<1>1. PICK t \in times : \A u \in times : t <= u
  <2>1. times \in SUBSET Nat /\ times # {}
    BY <1>k
  <2> HIDE DEF times
  <2> QED BY <2>1, Least
<1> DEFINE earliest == {id \in page : Key(id)[1] = t}
<1>2. PICK last \in earliest : \A id \in earliest : last <= id
  <2>1. earliest \in SUBSET Nat /\ earliest # {}
    BY <1>1, <1>k
  <2> HIDE DEF earliest
  <2> QED BY <2>1, Least
<1>3. \A other \in page \ {last} : Above(Key(other), Key(last))
  <2> SUFFICES ASSUME NEW other \in page, other # last
               PROVE  Above(Key(other), Key(last))
    OBVIOUS
  <2>1. last \in page /\ Key(last)[1] = t /\ Key(other)[1] >= t /\ t \in Nat
    BY <1>1, <1>2, <1>k
  <2>2. CASE Key(other)[1] = t
    <3>1. other \in earliest
      BY <2>2
    <3>2. other > last
      BY <3>1, <1>2, <1>k, <2>1
    <3> QED BY <3>2, <2>1, <2>2, <1>k DEF Above
  <2>3. CASE Key(other)[1] # t
    BY <2>1, <2>3, <1>k DEF Above
  <2> QED BY <2>2, <2>3
<1> DEFINE Final(id) == \A other \in page \ {id} : Above(Key(other), Key(id))
<1>4. last \in page /\ Final(last)
  BY <1>2, <1>3
<1>5. \E id \in page : Final(id)
  BY <1>4
<1> DEFINE chosen == CHOOSE id \in page : Final(id)
<1>6. chosen \in page /\ Final(chosen)
  BY <1>5
<1>7. LastKey(page, k) = Key(chosen)
  BY DEF LastKey
<1> HIDE DEF chosen
<1> QED BY <1>6, <1>7

-----------------------------------------------------------------------------
(* What the worker's transactions do to the records.                       *)

LEMMA WriteEffect ==
  ASSUME TypeOK, RecordsAssumption, Commits \/ Removals
  PROVE  /\ Stored \subseteq Stored' /\ Stored' \subseteq Ids
         /\ rows' \in [Stored' -> Rows]
         /\ version' \in 0 .. MaxVersion /\ version <= version'
         /\ \A id \in Stored :
              \/ rows'[id] = rows[id]
              \/ /\ version' = version + 1
                 /\ rows'[id].changed = version'
                 /\ rows'[id].first = rows[id].first
         /\ \A id \in Stored' \ Stored :
              /\ version' = version + 1
              /\ rows'[id].changed = version'
              /\ rows'[id].first = version'
<1>t. Stored \subseteq Ids /\ rows \in [Stored -> Rows] /\ version \in 0 .. MaxVersion
      /\ MaxVersion \in Nat
  BY RecordsAssumption DEF TypeOK
<1>1. CASE Commits
  <2>0. PICK ids \in SUBSET Ids : \E page \in [ids -> Contents] : CommitPage(page)
    BY <1>1 DEF Commits
  <2>1. PICK page \in [ids -> Contents] : CommitPage(page)
    BY <2>0
  <2>2. Writes(page) \subseteq Ids /\ \A id \in Writes(page) : page[id] \in Contents
    BY <2>1 DEF Writes
  <2>3. \A id \in Writes(page) :
          /\ Written(id, page[id]) \in Rows
          /\ Written(id, page[id]).changed = version + 1
          /\ Written(id, page[id]).first = IF id \in Stored THEN rows[id].first ELSE version + 1
    BY <2>2, <1>t DEF Written, Rows
  <2>4. /\ Stored' = Stored \cup Writes(page)
        /\ rows' = [id \in Stored \cup Writes(page) |->
                      IF id \in Writes(page) THEN Written(id, page[id]) ELSE rows[id]]
        /\ version < MaxVersion
        /\ version' = IF Writes(page) # {} THEN version + 1 ELSE version
    BY <2>1 DEF CommitPage, Stored
  <2>5. rows' \in [Stored' -> Rows]
    BY <2>3, <2>4, <1>t
  <2>6. version' \in 0 .. MaxVersion /\ version <= version'
    BY <2>4, <1>t
  <2>7. \A id \in Writes(page) : /\ version' = version + 1
                                 /\ rows'[id].changed = version'
                                 /\ rows'[id].first = IF id \in Stored THEN rows[id].first
                                                      ELSE version'
    BY <2>3, <2>4
  <2>8. \A id \in Stored \ Writes(page) : rows'[id] = rows[id]
    BY <2>4
  <2> QED BY <2>2, <2>4, <2>5, <2>6, <2>7, <2>8, <1>t
<1>2. CASE Removals
  <2>1. PICK ids \in SUBSET Ids : MarkRemoved(ids)
    BY <1>2 DEF Removals
  <2> DEFINE gone == {id \in ids \cap Stored : rows[id].present}
  <2>2. /\ version < MaxVersion
        /\ rows' = [id \in Stored |->
                      IF id \in gone
                        THEN [rows[id] EXCEPT !.present = FALSE, !.changed = version + 1]
                        ELSE rows[id]]
        /\ version' = IF gone # {} THEN version + 1 ELSE version
    BY <2>1 DEF MarkRemoved
  <2> HIDE DEF gone
  <2>3. Stored' = Stored
    BY <2>2 DEF Stored
  <2>4. \A id \in Stored : rows[id] \in Rows
    BY <1>t
  <2>5. \A id \in Stored : IF id \in gone
                             THEN /\ rows'[id] \in Rows
                                  /\ rows'[id].changed = version + 1
                                  /\ rows'[id].first = rows[id].first
                             ELSE rows'[id] = rows[id]
    <3> SUFFICES ASSUME NEW id \in Stored
                 PROVE  IF id \in gone
                          THEN /\ rows'[id] \in Rows
                               /\ rows'[id].changed = version + 1
                               /\ rows'[id].first = rows[id].first
                          ELSE rows'[id] = rows[id]
      OBVIOUS
    <3>1. rows[id] \in Rows /\ version + 1 \in Nat
      BY <2>4, <1>t
    <3>2. rows'[id] = IF id \in gone
                        THEN [rows[id] EXCEPT !.present = FALSE, !.changed = version + 1]
                        ELSE rows[id]
      BY <2>2
    <3> QED BY <3>1, <3>2 DEF Rows
  <2>6. rows' \in [Stored' -> Rows]
    BY <2>2, <2>3, <2>4, <2>5
  <2>7. \A id \in gone : version' = version + 1
    BY <2>2
  <2>8. version' \in 0 .. MaxVersion /\ version <= version'
    <3>1. version < MaxVersion /\ (version' = version + 1 \/ version' = version)
      BY <2>2
    <3> QED BY <3>1, <1>t
  <2>9. \A id \in Stored : \/ rows'[id] = rows[id]
                            \/ /\ version' = version + 1
                               /\ rows'[id].changed = version'
                               /\ rows'[id].first = rows[id].first
    BY <2>5, <2>7
  <2> QED BY <2>3, <2>6, <2>8, <2>9, <1>t
<1> QED BY <1>1, <1>2

-----------------------------------------------------------------------------
(* The invariant of a walk.                                                *)

\* Every member the walk began with that has not been edited is still a member of the
\* pinned version, and has been shown or is still below the last call read.
StillToCome ==
  reading =>
    \A id \in opened \ edited :
      id \in Pinned(asOf) /\ (id \in shown \/ Above(after, Key(id)))

\* What has been shown was first seen by the pinned version, and lies at or above the last
\* call read unless it has been edited.
BehindTheCursor ==
  reading =>
    \A id \in shown :
      /\ id \in Stored
      /\ rows[id].first <= asOf
      /\ id \notin edited => ~Above(after, Key(id))

IInv ==
  /\ TypeOK
  /\ VersionsConsistent
  /\ StillToCome
  /\ BehindTheCursor
  /\ NoneSkipped
  /\ NoneRepeated

\* A member of a pinned version stays one over every write while the filter matches it.
LEMMA MembersStay ==
  ASSUME TypeOK, RecordsAssumption, Commits \/ Removals,
         NEW v \in 0 .. version, NEW id \in Pinned(v), Wanted(rows'[id].content)
  PROVE  id \in Pinned(v)'
<1>1. id \in Stored /\ id \in Stored' /\ rows[id] \in Rows /\ rows'[id] \in Rows
  BY WriteEffect DEF TypeOK, Pinned
<1>2. CASE rows'[id] = rows[id]
  BY <1>1, <1>2 DEF Pinned
<1>3. CASE /\ version' = version + 1
           /\ rows'[id].changed = version'
           /\ rows'[id].first = rows[id].first
  <2>1. rows'[id].first <= v /\ rows'[id].changed > v
    BY <1>3, RecordsAssumption DEF TypeOK, Pinned
  <2> QED BY <1>1, <2>1 DEF Pinned
<1> QED BY <1>1, <1>2, <1>3, WriteEffect

LEMMA Initially ==
  ASSUME RecordsAssumption, Init
  PROVE  IInv
<1>1. Stored = {} /\ rows \in [Stored -> Rows]
  BY DEF Init, RecordsInit, Stored
<1>2. after \in (0 .. MaxTime + 1) \X (0 .. MaxId)
  BY RecordsAssumption DEF Init, Start, RecordsAssumption
<1>3. version = 0 /\ asOf = 0 /\ version \in 0 .. MaxVersion /\ asOf \in 0 .. version
  BY RecordsAssumption DEF Init, RecordsInit, RecordsAssumption
<1>4. TypeOK
  BY <1>1, <1>2, <1>3 DEF Init, TypeOK
<1> QED BY <1>1, <1>4 DEF IInv, Init, VersionsConsistent, StillToCome, BehindTheCursor,
                          NoneSkipped, NoneRepeated

\* The worker's writes keep the invariant.
LEMMA WritesKeep ==
  ASSUME RecordsAssumption, IInv, Write
  PROVE  IInv'
<1> USE RecordsAssumption DEF RecordsAssumption
<1>t. TypeOK /\ VersionsConsistent /\ (Commits \/ Removals)
  BY DEF IInv, Write
<1>u. /\ reading' = reading /\ asOf' = asOf /\ after' = after /\ shown' = shown
      /\ done' = done /\ opened' = opened /\ repeated' = repeated
      /\ edited' = IF reading
                     THEN edited \cup {id \in Stored : rows'[id].content # rows[id].content}
                     ELSE edited
  BY DEF Write
<1>w. /\ Stored \subseteq Stored' /\ Stored' \subseteq Ids
      /\ rows' \in [Stored' -> Rows]
      /\ version' \in 0 .. MaxVersion /\ version <= version'
      /\ \A id \in Stored :
           \/ rows'[id] = rows[id]
           \/ /\ version' = version + 1
              /\ rows'[id].changed = version'
              /\ rows'[id].first = rows[id].first
      /\ \A id \in Stored' \ Stored :
           /\ version' = version + 1
           /\ rows'[id].changed = version'
           /\ rows'[id].first = version'
  BY <1>t, WriteEffect
<1>e. /\ edited \subseteq edited' /\ edited' \subseteq Stored'
      /\ reading => \A id \in Stored \ edited' : rows'[id].content = rows[id].content
  BY <1>t, <1>u, <1>w DEF TypeOK
<1>1. TypeOK'
  <2>1. asOf' \in 0 .. version'
    BY <1>t, <1>u, <1>w DEF TypeOK
  <2> QED BY <1>t, <1>u, <1>w, <1>e, <2>1 DEF TypeOK
<1>2. VersionsConsistent'
  <2> SUFFICES ASSUME NEW id \in Stored'
               PROVE  /\ 1 <= rows'[id].first /\ rows'[id].first <= rows'[id].changed
                      /\ rows'[id].changed <= version'
    BY DEF VersionsConsistent
  <2>1. CASE id \in Stored
    <3>1. /\ 1 <= rows[id].first /\ rows[id].first <= rows[id].changed
          /\ rows[id].changed <= version /\ rows[id] \in Rows
      BY <1>t, <2>1 DEF VersionsConsistent, TypeOK
    <3> QED BY <3>1, <2>1, <1>w, <1>t DEF TypeOK, Rows
  <2>2. CASE id \notin Stored
    BY <2>2, <1>w, <1>t DEF TypeOK
  <2> QED BY <2>1, <2>2
<1>3. StillToCome'
  <2> SUFFICES ASSUME reading, NEW id \in opened \ edited'
               PROVE  id \in Pinned(asOf)' /\ (id \in shown \/ Above(after, Key(id)'))
    BY <1>u DEF StillToCome, Above
  <2>1. id \in Pinned(asOf) /\ (id \in shown \/ Above(after, Key(id)))
    BY <1>e DEF IInv, StillToCome
  <2>2. id \in Stored /\ rows'[id].content = rows[id].content /\ Wanted(rows[id].content)
    BY <2>1, <1>e DEF Pinned
  <2>3. Key(id)' = Key(id)
    BY <2>2 DEF Key
  <2>4. asOf \in 0 .. version
    BY <1>t DEF TypeOK
  <2>5. id \in Pinned(asOf)'
    <3>1. Wanted(rows'[id].content)
      BY <2>2
    <3>2. \A v \in 0 .. version : id \in Pinned(v) => id \in Pinned(v)'
      BY <3>1, <1>t, MembersStay
    <3> QED BY <3>2, <2>1, <2>4, <1>u DEF Pinned
  <2> QED BY <2>1, <2>3, <2>5
<1>4. BehindTheCursor'
  <2> SUFFICES ASSUME reading, NEW id \in shown
               PROVE  /\ id \in Stored' /\ rows'[id].first <= asOf
                      /\ id \notin edited' => ~Above(after, Key(id)')
    BY <1>u DEF BehindTheCursor, Above
  <2>1. /\ id \in Stored /\ rows[id].first <= asOf
        /\ id \notin edited => ~Above(after, Key(id))
    BY DEF IInv, BehindTheCursor
  <2>2. rows'[id].first = rows[id].first
    BY <2>1, <1>w
  <2>3. id \notin edited' => Key(id)' = Key(id) /\ id \notin edited
    BY <2>1, <1>e DEF Key
  <2> QED BY <2>1, <2>2, <2>3, <1>w
<1>5. NoneSkipped' /\ NoneRepeated'
  BY <1>u, <1>e DEF IInv, NoneSkipped, NoneRepeated
<1> QED BY <1>1, <1>2, <1>3, <1>4, <1>5 DEF IInv

\* A request for a page below k, by a walk that has shown `already` from k upwards.
LEMMA PageEffect ==
  ASSUME TypeOK, RecordsAssumption,
         NEW v \in 0 .. version, NEW already \in SUBSET Ids,
         NEW k \in (0 .. MaxTime + 1) \X (0 .. MaxId), ReadPage(v, k, already)
  PROVE  /\ shown' \subseteq Ids /\ already \subseteq shown'
         /\ after' \in (0 .. MaxTime + 1) \X (0 .. MaxId)
         /\ done' \in BOOLEAN
         /\ \A id \in shown' \ already : id \in Stored /\ rows[id].first <= v
         /\ \A id \in Pinned(v) :
              Above(k, Key(id)) => id \in shown' \/ (~done' /\ Above(after', Key(id)))
         /\ \A id \in Stored :
              id \in shown' /\ (id \in already => ~Above(k, Key(id))) => ~Above(after', Key(id))
         /\ already = {} => repeated' = {}
         /\ \A id \in repeated' :
              id \in repeated \/ (id \in already /\ id \in Stored /\ Above(k, Key(id)))
<1> USE RecordsAssumption DEF RecordsAssumption
<1> DEFINE all == Remaining(v, k)
<1>1. PICK page \in SUBSET all :
        /\ IsPage(all, page)
        /\ shown' = already \cup page
        /\ repeated' = IF already = {} THEN {} ELSE repeated \cup (already \cap page)
        /\ after' = LastKey(page, k)
        /\ done' = (page = all)
  BY DEF ReadPage
<1>2. all = {id \in Pinned(v) : Above(k, Key(id))} /\ all \subseteq Stored /\ Stored \subseteq Ids
      /\ \A id \in Pinned(v) : id \in Stored /\ rows[id].first <= v
  BY DEF Remaining, Pinned, TypeOK
<1>3. \A id \in page, other \in all : Above(Key(other), Key(id)) => other \in page
  BY <1>1 DEF IsPage
<1> HIDE DEF all
<1>4. \A id \in Stored : /\ Key(id)[1] \in 0 .. MaxTime /\ Key(id)[2] = id /\ id \in 1 .. MaxId
                         /\ Key(id) = <<Key(id)[1], id>>
  BY Keys DEF Key
<1>5. k[1] \in Int /\ k[2] \in Int
  OBVIOUS
<1>6. CASE page = {}
  <2>1. after' = k
    BY <1>1, <1>6 DEF LastKey
  <2>2. shown' = already /\ done' = (all = {})
    BY <1>1, <1>6
  <2> QED BY <2>1, <2>2, <1>1, <1>2, <1>6
<1>7. CASE page # {}
  <2>1. PICK last \in page : /\ LastKey(page, k) = Key(last)
                             /\ \A other \in page \ {last} : Above(Key(other), Key(last))
    <3>1. page \in SUBSET Stored
      BY <1>1, <1>2
    <3> QED BY <3>1, <1>7, LastOfPage
  <2>2. after' = Key(last) /\ last \in Stored /\ Above(k, Key(last))
    BY <2>1, <1>1, <1>2
  <2>3. \A id \in Pinned(v) :
          Above(k, Key(id)) => id \in shown' \/ (~done' /\ Above(after', Key(id)))
    <3> SUFFICES ASSUME NEW id \in Pinned(v), Above(k, Key(id)), id \notin shown'
                 PROVE  ~done' /\ Above(after', Key(id))
      OBVIOUS
    <3>1. id \in all /\ id \notin page /\ id \in Stored
      BY <1>1, <1>2
    <3>2. ~Above(Key(id), Key(last))
      BY <3>1, <1>3
    <3>3. id # last
      BY <3>1
    <3>4. Above(Key(last), Key(id))
      BY <3>1, <3>2, <3>3, <2>2, <1>4 DEF Above
    <3> QED BY <3>1, <3>4, <2>2, <1>1
  <2>4. \A id \in Stored :
          id \in shown' /\ (id \in already => ~Above(k, Key(id))) => ~Above(after', Key(id))
    <3> SUFFICES ASSUME NEW id \in Stored, id \in shown', id \in already => ~Above(k, Key(id))
                 PROVE  ~Above(Key(last), Key(id))
      BY <2>2
    <3>1. CASE id \in already
      <4>1. ~Above(k, Key(id))
        BY <3>1
      <4> QED BY <4>1, <2>2, <1>4, <1>5 DEF Above
    <3>2. CASE id \in page
      <4>1. id = last \/ Above(Key(id), Key(last))
        BY <2>1, <3>2
      <4> QED BY <4>1, <2>2, <1>4 DEF Above
    <3> QED BY <3>1, <3>2, <1>1
  <2>5. after' \in (0 .. MaxTime + 1) \X (0 .. MaxId)
    BY <2>2, <1>4
  <2> QED BY <2>3, <2>4, <2>5, <1>1, <1>2
<1> QED BY <1>6, <1>7

\* Every key is below the key a walk starts from.
LEMMA StartIsAbove ==
  ASSUME TypeOK, RecordsAssumption
  PROVE  /\ Start \in (0 .. MaxTime + 1) \X (0 .. MaxId)
         /\ \A id \in Stored : Above(Start, Key(id))
BY Keys DEF RecordsAssumption, Start, Above

\* Beginning a walk establishes its invariant.
LEMMA OpenKeeps ==
  ASSUME RecordsAssumption, IInv, Open
  PROVE  IInv'
<1> USE DEF IInv
<1>1. /\ reading' = TRUE /\ asOf' = version /\ opened' = Pinned(version) /\ edited' = {}
      /\ rows' = rows /\ version' = version /\ ReadPage(version, Start, {})
  BY DEF Open
<1>2. version \in 0 .. version /\ version \in 0 .. MaxVersion
  BY RecordsAssumption DEF TypeOK, RecordsAssumption
<1>3. /\ shown' \subseteq Ids
      /\ after' \in (0 .. MaxTime + 1) \X (0 .. MaxId)
      /\ done' \in BOOLEAN
      /\ \A id \in shown' : id \in Stored /\ rows[id].first <= version
      /\ \A id \in Pinned(version) :
           Above(Start, Key(id)) => id \in shown' \/ (~done' /\ Above(after', Key(id)))
      /\ \A id \in Stored : id \in shown' => ~Above(after', Key(id))
      /\ repeated' = {}
  <2>1. {} \in SUBSET Ids
    OBVIOUS
  <2> QED BY <1>1, <1>2, <2>1, PageEffect, StartIsAbove
<1>4. Pinned(version) \subseteq Stored
  BY DEF Pinned
<1>5. /\ Stored' = Stored /\ Pinned(asOf)' = Pinned(version)
      /\ \A id : Key(id)' = Key(id)
  BY <1>1 DEF Stored, Pinned, Key
<1>6. TypeOK'
  BY <1>1, <1>2, <1>3, <1>4, <1>5 DEF TypeOK
<1>7. VersionsConsistent'
  BY <1>1, <1>5 DEF VersionsConsistent
<1>8. StillToCome'
  BY <1>1, <1>3, <1>4, <1>5, StartIsAbove DEF StillToCome, Above
<1>9. BehindTheCursor'
  BY <1>1, <1>3, <1>5 DEF BehindTheCursor, Above
<1>10. NoneSkipped' /\ NoneRepeated'
  BY <1>1, <1>3, <1>4, StartIsAbove DEF NoneSkipped, NoneRepeated
<1> QED BY <1>6, <1>7, <1>8, <1>9, <1>10

\* So does reading the next page.
LEMMA MoreKeeps ==
  ASSUME RecordsAssumption, IInv, More
  PROVE  IInv'
<1> USE DEF IInv
<1>1. /\ reading /\ reading' = reading /\ asOf' = asOf /\ opened' = opened
      /\ edited' = edited /\ rows' = rows /\ version' = version
      /\ ReadPage(asOf, after, shown)
  BY DEF More
<1>a. /\ asOf \in 0 .. version /\ shown \in SUBSET Ids
      /\ after \in (0 .. MaxTime + 1) \X (0 .. MaxId)
  BY DEF TypeOK
<1>b. /\ shown' \subseteq Ids /\ shown \subseteq shown'
      /\ after' \in (0 .. MaxTime + 1) \X (0 .. MaxId)
      /\ done' \in BOOLEAN
      /\ \A id \in shown' \ shown : id \in Stored /\ rows[id].first <= asOf
      /\ \A id \in Pinned(asOf) :
           Above(after, Key(id)) => id \in shown' \/ (~done' /\ Above(after', Key(id)))
      /\ \A id \in Stored :
           id \in shown' /\ (id \in shown => ~Above(after, Key(id))) => ~Above(after', Key(id))
  BY <1>1, <1>a, PageEffect
<1>2. \A id \in repeated' :
        id \in repeated \/ (id \in shown /\ id \in Stored /\ Above(after, Key(id)))
  BY <1>1, <1>a, PageEffect
<1>3. /\ Stored' = Stored /\ Pinned(asOf)' = Pinned(asOf)
      /\ \A id : Key(id)' = Key(id)
  BY <1>1 DEF Stored, Pinned, Key
<1>4. \A id \in shown : Above(after, Key(id)) => id \in edited
  BY <1>1 DEF BehindTheCursor
<1>5. repeated' \subseteq shown' /\ repeated' \subseteq edited
  BY <1>1, <1>b, <1>2, <1>4 DEF TypeOK, NoneRepeated
<1>6. TypeOK'
  BY <1>1, <1>a, <1>b, <1>3, <1>5 DEF TypeOK
<1>7. VersionsConsistent'
  BY <1>1, <1>3 DEF VersionsConsistent
<1>8. StillToCome' /\ NoneSkipped'
  BY <1>1, <1>b, <1>3 DEF StillToCome, NoneSkipped, Above
<1>9. BehindTheCursor'
  BY <1>1, <1>b, <1>3 DEF BehindTheCursor, Above
<1>10. NoneRepeated'
  BY <1>1, <1>5 DEF NoneRepeated
<1> QED BY <1>6, <1>7, <1>8, <1>9, <1>10

-----------------------------------------------------------------------------
(* The theorems.                                                           *)

\* The invariant holds in every reachable state.
THEOREM InductiveInvariant == Spec => []IInv
<1>1. Init => IInv
  BY Initially, RecordsAssumption
<1>2. IInv /\ [Next]_vars => IInv'
  <2>1. CASE Write
    BY <2>1, WritesKeep, RecordsAssumption
  <2>2. CASE Open
    BY <2>2, OpenKeeps, RecordsAssumption
  <2>3. CASE More
    BY <2>3, MoreKeeps, RecordsAssumption
  <2>4. CASE UNCHANGED vars
    BY <2>4 DEF IInv, TypeOK, VersionsConsistent, StillToCome, BehindTheCursor, NoneSkipped,
                NoneRepeated, Pinned, Key, Above, Stored, vars, reader
  <2> QED BY <2>1, <2>2, <2>3, <2>4 DEF Next
<1> QED BY <1>1, <1>2, PTL DEF Spec

\* The variables keep their types.
THEOREM TypeInvariant == Spec => []TypeOK
<1>1. IInv => TypeOK
  BY DEF IInv
<1> QED BY <1>1, InductiveInvariant, PTL

\* No row is stamped with a version that readers cannot have (commit_page, mark_removed).
THEOREM VersionsConsistentHolds == Spec => []VersionsConsistent
<1>1. IInv => VersionsConsistent
  BY DEF IInv
<1> QED BY <1>1, InductiveInvariant, PTL

\* A finished walk has shown every member it began with that was not edited meanwhile.
THEOREM NoneSkippedHolds == Spec => []NoneSkipped
<1>1. IInv => NoneSkipped
  BY DEF IInv
<1> QED BY <1>1, InductiveInvariant, PTL

\* Two pages of a walk never show the same call unless it was edited in between.
THEOREM NoneRepeatedHolds == Spec => []NoneRepeated
<1>1. IInv => NoneRepeated
  BY DEF IInv
<1> QED BY <1>1, InductiveInvariant, PTL

\* A call that was shown is never announced as new.
THEOREM ShownIsNotNewHolds == Spec => []ShownIsNotNew
<1>1. IInv => ShownIsNotNew
  <2> SUFFICES ASSUME IInv, reading, NEW id \in NewCalls(asOf), id \in shown
               PROVE  FALSE
    BY DEF ShownIsNotNew
  <2>1. id \in Stored /\ rows[id].first > asOf /\ rows[id].first <= asOf
    BY DEF IInv, BehindTheCursor, NewCalls, Current
  <2>2. rows[id].first \in Nat /\ asOf \in Int
    BY <2>1, RecordsAssumption DEF IInv, TypeOK, Rows, RecordsAssumption
  <2> QED BY <2>1, <2>2
<1> QED BY <1>1, InductiveInvariant, PTL

\* A transaction that changes a row makes a new version current, and stamps the row with it.
THEOREM ChangesAreVersionedHolds == Spec => ChangesAreVersioned
<1> DEFINE Versioned ==
      /\ version' >= version
      /\ \A id \in Stored' :
           (id \in Stored => rows'[id] # rows[id]) =>
             version' = version + 1 /\ rows'[id].changed = version'
<1>1. IInv /\ [Next]_vars => [Versioned]_vars
  <2>1. ASSUME IInv, Write PROVE Versioned
    <3>1. TypeOK /\ (Commits \/ Removals)
      BY <2>1 DEF IInv, Write
    <3> QED BY <3>1, WriteEffect, RecordsAssumption DEF TypeOK
  <2>2. ASSUME IInv, Open \/ More PROVE Versioned
    <3>1. rows' = rows /\ version' = version /\ version \in Int
      BY <2>2, RecordsAssumption DEF Open, More, IInv, TypeOK, RecordsAssumption
    <3> QED BY <3>1 DEF Stored
  <2> QED BY <2>1, <2>2 DEF Next
<1> QED BY <1>1, InductiveInvariant, PTL DEF Spec, ChangesAreVersioned

\* A pinned list keeps its members: see PinnedNeverLoses.
THEOREM PinnedNeverLosesHolds == Spec => PinnedNeverLoses
<1> DEFINE Keeps ==
      \A v \in 0 .. version : \A id \in Pinned(v) :
        Wanted(rows'[id].content) => id \in Pinned(v)'
<1>1. IInv /\ [Next]_vars => [Keeps]_vars
  <2>1. ASSUME IInv, Write PROVE Keeps
    <3>1. TypeOK /\ (Commits \/ Removals)
      BY <2>1 DEF IInv, Write
    <3> QED BY <3>1, MembersStay, RecordsAssumption
  <2>2. ASSUME IInv, Open \/ More PROVE Keeps
    <3>1. rows' = rows
      BY <2>2 DEF Open, More
    <3> QED BY <3>1 DEF Stored, Pinned
  <2> QED BY <2>1, <2>2 DEF Next
<1> QED BY <1>1, InductiveInvariant, PTL DEF Spec, PinnedNeverLoses

=============================================================================
