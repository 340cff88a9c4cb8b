------------------------ MODULE WorldEntities_proofs ------------------------
(***************************************************************************)
(* Proofs about WorldEntities, for a world of any size with any entities,  *)
(* prefabs and starting places: the lists of the cells, the owners and the *)
(* entities of the world agree after any number of frames.                 *)
(***************************************************************************)
EXTENDS WorldEntities, SequenceTheorems, FiniteSetTheorems, TLAPS

-----------------------------------------------------------------------------
(* Lists *)

\* Erasing an element of a vector moves those behind it one place down.
LEMMA Erased ==
  ASSUME NEW S, NEW s \in Seq(S), NEW i \in 1..Len(s)
  PROVE  /\ RemoveAt(s, i) \in Seq(S) /\ Len(RemoveAt(s, i)) = Len(s) - 1
         /\ \A k \in 1..(Len(s) - 1) : RemoveAt(s, i)[k] = s[IF k < i THEN k ELSE k + 1]
  <1> DEFINE front == SubSeq(s, 1, i - 1)
             back == SubSeq(s, i + 1, Len(s))
  <1>1. Len(s) \in Nat /\ \A k \in 1..Len(s) : s[k] \in S
    BY LenProperties, ElementOfSeq
  <1>2. front \in Seq(S) /\ Len(front) = i - 1 /\ \A k \in 1..(i - 1) : front[k] = s[k]
    <2>1. \A k \in 1..(i - 1) : s[k] \in S
      BY <1>1
    <2>2. /\ SubSeq(s, 1, i - 1) \in Seq(S)
          /\ Len(SubSeq(s, 1, i - 1)) = IF 1 <= i - 1 THEN (i - 1) - 1 + 1 ELSE 0
          /\ \A k \in 1..((i - 1) - 1 + 1) : SubSeq(s, 1, i - 1)[k] = s[1 + k - 1]
      BY <1>1, <2>1, SubSeqProperties
    <2> QED
      BY <1>1, <2>2
  <1>3. back \in Seq(S) /\ Len(back) = Len(s) - i /\ \A k \in 1..(Len(s) - i) : back[k] = s[i + k]
    <2>1. \A k \in (i + 1)..Len(s) : s[k] \in S
      BY <1>1
    <2>2. /\ SubSeq(s, i + 1, Len(s)) \in Seq(S)
          /\ Len(SubSeq(s, i + 1, Len(s))) = IF i + 1 <= Len(s) THEN Len(s) - (i + 1) + 1 ELSE 0
          /\ \A k \in 1..(Len(s) - (i + 1) + 1) : SubSeq(s, i + 1, Len(s))[k] = s[(i + 1) + k - 1]
      BY <1>1, <2>1, SubSeqProperties
    <2> QED
      BY <1>1, <2>2
  <1> HIDE DEF front, back
  <1>4. /\ front \o back \in Seq(S) /\ Len(front \o back) = Len(front) + Len(back)
        /\ \A k \in 1..(Len(front) + Len(back)) :
              (front \o back)[k] = IF k <= Len(front) THEN front[k] ELSE back[k - Len(front)]
    BY <1>2, <1>3, ConcatProperties
  <1>5. RemoveAt(s, i) = front \o back
    BY DEF RemoveAt, front, back
  <1>6. ASSUME NEW k \in 1..(Len(s) - 1)
        PROVE  (front \o back)[k] = s[IF k < i THEN k ELSE k + 1]
    <2>1. CASE k < i
      BY <1>1, <1>2, <1>3, <1>4, <2>1
    <2>2. CASE ~(k < i)
      <3>1. k - (i - 1) \in 1..(Len(s) - i) /\ k \in 1..(Len(front) + Len(back)) /\ ~(k <= Len(front))
        BY <1>1, <1>2, <1>3, <2>2
      <3>2. (front \o back)[k] = back[k - (i - 1)]
        BY <1>2, <1>4, <3>1
      <3>3. back[k - (i - 1)] = s[i + (k - (i - 1))]
        BY <1>3, <3>1
      <3> QED
        BY <1>1, <2>2, <3>2, <3>3
    <2> QED
      BY <2>1, <2>2
  <1>7. Len(front \o back) = Len(s) - 1
    BY <1>1, <1>2, <1>3, <1>4
  <1>8. \A k \in 1..(Len(s) - 1) : (front \o back)[k] = s[IF k < i THEN k ELSE k + 1]
    BY <1>6
  <1> QED
    BY <1>4, <1>5, <1>7, <1>8

\* RemoveEntityPtr: e leaves the list of its owner, and the others stay in place.
LEMMA Leaves ==
  ASSUME cells \in [Grid -> Seq(Ids)], Agree(cells, owner, live), NEW e \in live
  PROVE  RemoveEntityPtr(e) \in [Grid -> Seq(Ids)] /\ Agree(RemoveEntityPtr(e), owner, live \ {e})
  <1> DEFINE o == owner[e]
             s == cells[o]
             i == IndexOf(s, e)
             list == RemoveEntityPtr(e)
  <1>1. o \in Grid /\ s \in Seq(Ids) /\ Len(s) \in Nat
    BY LenProperties DEF Agree
  <1>2. i \in 1..Len(s) /\ s[i] = e
    <2>1. \E j \in 1..Len(s) : s[j] = e
      BY DEF Agree
    <2> QED
      BY <2>1 DEF IndexOf
  <1> HIDE DEF i
  <1>3. /\ RemoveAt(s, i) \in Seq(Ids) /\ Len(RemoveAt(s, i)) = Len(s) - 1
        /\ \A k \in 1..(Len(s) - 1) : RemoveAt(s, i)[k] = s[IF k < i THEN k ELSE k + 1]
    BY <1>1, <1>2, Erased
  <1>4. list = [cells EXCEPT ![o] = RemoveAt(s, i)]
    BY DEF RemoveEntityPtr, i
  <1>5. list \in [Grid -> Seq(Ids)] /\ list[o] = RemoveAt(s, i) /\ \A c \in Grid \ {o} : list[c] = cells[c]
    BY <1>1, <1>3, <1>4
  <1> HIDE DEF list
  <1>6. ASSUME NEW c \in Grid, NEW k \in 1..Len(list[c])
        PROVE  list[c][k] \in live \ {e} /\ owner[list[c][k]] = c
    <2>1. CASE c = o
      <3> DEFINE j == IF k < i THEN k ELSE k + 1
      <3>1. j \in 1..Len(s) /\ j # i /\ list[c][k] = s[j]
        BY <1>1, <1>2, <1>3, <1>5, <2>1
      <3>2. s[j] \in live /\ owner[s[j]] = o /\ s[j] # s[i]
        BY <1>1, <1>2, <3>1 DEF Agree
      <3> QED
        BY <1>2, <2>1, <3>1, <3>2
    <2>2. CASE c # o
      BY <1>5, <2>2 DEF Agree
    <2> QED
      BY <2>1, <2>2
  <1>7. ASSUME NEW c \in Grid, NEW k \in 1..Len(list[c]), NEW n \in 1..Len(list[c]), list[c][k] = list[c][n]
        PROVE  k = n
    <2>1. CASE c = o
      <3> DEFINE j == IF k < i THEN k ELSE k + 1
                 m == IF n < i THEN n ELSE n + 1
      <3>1. k \in 1..(Len(s) - 1) /\ n \in 1..(Len(s) - 1)
        BY <1>3, <1>5, <2>1
      <3>2. list[c][k] = s[j] /\ list[c][n] = s[m]
        BY <1>3, <1>5, <2>1, <3>1
      <3>3. j \in 1..Len(s) /\ m \in 1..Len(s) /\ (j = m => k = n)
        BY <1>1, <1>2, <3>1
      <3> HIDE DEF j, m
      <3>4. s[j] = s[m]
        BY <1>7, <3>2
      <3>5. j = m
        BY <1>1, <3>3, <3>4 DEF Agree
      <3> QED
        BY <3>3, <3>5
    <2>2. CASE c # o
      BY <1>5, <1>7, <2>2 DEF Agree
    <2> QED
      BY <2>1, <2>2
  <1>8. ASSUME NEW f \in live \ {e}
        PROVE  owner[f] \in Grid /\ \E k \in 1..Len(list[owner[f]]) : list[owner[f]][k] = f
    <2>1. owner[f] \in Grid /\ \E k \in 1..Len(cells[owner[f]]) : cells[owner[f]][k] = f
      BY DEF Agree
    <2>2. CASE owner[f] = o
      <3>1. PICK k \in 1..Len(s) : s[k] = f
        BY <2>1, <2>2
      <3>2. k # i
        BY <1>2, <3>1
      <3> DEFINE n == IF k < i THEN k ELSE k - 1
      <3>3. n \in 1..(Len(s) - 1) /\ (IF n < i THEN n ELSE n + 1) = k
        BY <1>1, <1>2, <3>2
      <3>4. RemoveAt(s, i)[n] = f
        BY <1>3, <3>1, <3>3
      <3> QED
        BY <1>3, <1>5, <2>1, <2>2, <3>3, <3>4
    <2>3. CASE owner[f] # o
      BY <1>5, <2>1, <2>3
    <2> QED
      BY <2>2, <2>3
  <1> QED
    BY <1>5, <1>6, <1>7, <1>8 DEF Agree, list

\* AddEntityPtr and SetOwner: an entity in no list joins the list of c.
LEMMA Joins ==
  ASSUME NEW list \in [Grid -> Seq(Ids)], NEW own \in [Ids -> Grid \cup {NoCell}], NEW l \in SUBSET Ids,
         Agree(list, own, l), NEW e \in Ids, e \notin l, NEW c \in Grid
  PROVE  /\ AddEntityPtr(list, c, e) \in [Grid -> Seq(Ids)]
         /\ Agree(AddEntityPtr(list, c, e), [own EXCEPT ![e] = c], l \cup {e})
  <1> DEFINE new == AddEntityPtr(list, c, e)
             now == [own EXCEPT ![e] = c]
             s == list[c]
  <1>1. s \in Seq(Ids) /\ Len(s) \in Nat
    BY LenProperties
  <1>2. /\ Append(s, e) \in Seq(Ids) /\ Len(Append(s, e)) = Len(s) + 1
        /\ \A k \in 1..Len(s) : Append(s, e)[k] = s[k]
        /\ Append(s, e)[Len(s) + 1] = e
    BY <1>1, AppendProperties
  <1>3. new \in [Grid -> Seq(Ids)] /\ new[c] = Append(s, e) /\ \A d \in Grid \ {c} : new[d] = list[d]
    BY <1>2 DEF AddEntityPtr
  <1>4. now[e] = c /\ \A f \in l : now[f] = own[f] /\ f # e
    OBVIOUS
  <1> HIDE DEF new, now
  <1>5. ASSUME NEW d \in Grid, NEW k \in 1..Len(new[d])
        PROVE  new[d][k] \in l \cup {e} /\ now[new[d][k]] = d
    <2>1. CASE d = c /\ k = Len(s) + 1
      BY <1>2, <1>3, <1>4, <2>1
    <2>2. CASE d = c /\ k # Len(s) + 1
      <3>1. k \in 1..Len(s) /\ new[d][k] = s[k]
        BY <1>1, <1>2, <1>3, <2>2
      <3>2. s[k] \in l /\ own[s[k]] = c
        BY <3>1 DEF Agree
      <3> QED
        BY <1>4, <2>2, <3>1, <3>2
    <2>3. CASE d # c
      <3>1. list[d][k] \in l /\ own[list[d][k]] = d
        BY <1>3, <2>3 DEF Agree
      <3> QED
        BY <1>3, <1>4, <2>3, <3>1
    <2> QED
      BY <2>1, <2>2, <2>3
  <1>6. ASSUME NEW d \in Grid, NEW k \in 1..Len(new[d]), NEW n \in 1..Len(new[d]), new[d][k] = new[d][n]
        PROVE  k = n
    <2>1. CASE d = c
      <3>1. \A j \in 1..Len(s) : s[j] \in l /\ s[j] # e
        BY DEF Agree
      <3>2. k \in 1..(Len(s) + 1) /\ n \in 1..(Len(s) + 1)
        BY <1>2, <1>3, <2>1
      <3>3. CASE k \in 1..Len(s) /\ n \in 1..Len(s)
        <4>1. s[k] = s[n]
          BY <1>2, <1>3, <1>6, <2>1, <3>3
        <4> QED
          BY <3>3, <4>1 DEF Agree
      <3>4. CASE k = Len(s) + 1 /\ n \in 1..Len(s)
        BY <1>2, <1>3, <1>6, <2>1, <3>1, <3>4
      <3>5. CASE k \in 1..Len(s) /\ n = Len(s) + 1
        BY <1>2, <1>3, <1>6, <2>1, <3>1, <3>5
      <3>6. CASE k = Len(s) + 1 /\ n = Len(s) + 1
        BY <3>6
      <3>7. \A j \in 1..(Len(s) + 1) : j \in 1..Len(s) \/ j = Len(s) + 1
        BY <1>1
      <3> QED
        BY <3>2, <3>3, <3>4, <3>5, <3>6, <3>7
    <2>2. CASE d # c
      BY <1>3, <1>6, <2>2 DEF Agree
    <2> QED
      BY <2>1, <2>2
  <1>7. ASSUME NEW f \in l \cup {e}
        PROVE  now[f] \in Grid /\ \E k \in 1..Len(new[now[f]]) : new[now[f]][k] = f
    <2>1. CASE f = e
      <3>1. Len(s) + 1 \in 1..Len(new[c]) /\ new[c][Len(s) + 1] = e
        BY <1>1, <1>2, <1>3
      <3> QED
        BY <1>4, <2>1, <3>1
    <2>2. CASE f \in l
      <3>1. own[f] \in Grid
        BY <2>2 DEF Agree
      <3>2. PICK k \in 1..Len(list[own[f]]) : list[own[f]][k] = f
        BY <2>2 DEF Agree
      <3>3. k \in 1..Len(new[own[f]]) /\ new[own[f]][k] = f
        <4>1. CASE own[f] = c
          BY <1>1, <1>2, <1>3, <3>2, <4>1
        <4>2. CASE own[f] # c
          BY <1>3, <3>1, <3>2, <4>2
        <4> QED
          BY <4>1, <4>2
      <3> QED
        BY <1>4, <2>2, <3>1, <3>3
    <2> QED
      BY <2>1, <2>2
  <1> QED
    BY <1>3, <1>5, <1>6, <1>7 DEF Agree, new, now

-----------------------------------------------------------------------------
(* The helpers of the actions *)

\* What World::Update walks over lies in the grid.
LEMMA NearInGrid ==
  ASSUME NEW size \in Nat \ {0}, NEW mid \in Int, NEW r \in Nat
  PROVE  Near(mid, r, size) \subseteq 0..(size - 1) /\ Clamped(mid, size) \in 0..(size - 1)
  BY DEF Near, Clamped

\* The interactables of an entity, and where they leave it, whatever they are.
LEMMA MovedType ==
  ASSUME NEW p \in Int \X Int, NEW types \in Seq(InteractTypes)
  PROVE  Moved(p, types) \in Int \X Int
  <1> DEFINE moves == {i \in DOMAIN types : types[i] = "MOVE"}
             shifts == {i \in DOMAIN types : types[i] = "MOVE_RELATIVE" /\ \A j \in moves : j < i}
             from == IF moves = {} THEN p ELSE MovedTo
  <1>1. Cardinality(shifts) \in Nat
    <2>1. DOMAIN types = 1..Len(types) /\ Len(types) \in Nat
      BY LenProperties
    <2>2. IsFiniteSet(1..Len(types))
      BY <2>1, FS_Interval
    <2>3. shifts \subseteq 1..Len(types)
      BY <2>1
    <2> QED
      BY <2>2, <2>3, FS_Subset, FS_CardinalityType
  <1>2. from \in Int \X Int
    BY WorldAssumption
  <1> DEFINE n == Cardinality(shifts)
  <1>3. Moved(p, types) = <<from[1] + n * MovedBy[1], from[2] + n * MovedBy[2]>>
    BY DEF Moved
  <1> HIDE DEF n, from
  <1>4. n \in Nat /\ MovedBy[1] \in Int /\ MovedBy[2] \in Int /\ from[1] \in Int /\ from[2] \in Int
    BY <1>1, <1>2, WorldAssumption DEF n
  <1>5. \A a, b \in Int : a * b \in Int /\ a + b \in Int
    OBVIOUS
  <1>6. n \in Int
    BY <1>4
  <1>7. n * MovedBy[1] \in Int /\ n * MovedBy[2] \in Int
    BY <1>4, <1>5, <1>6
  <1>8. from[1] + n * MovedBy[1] \in Int /\ from[2] + n * MovedBy[2] \in Int
    BY <1>4, <1>5, <1>7
  <1> QED
    BY <1>3, <1>8

\* The interactables of an entity are those of its prefab, or none.
LEMMA InteractablesType ==
  ASSUME prefab \in [Ids -> Prefabs], NEW e \in Ids
  PROVE  InteractablesOf(e) \in Seq(InteractTypes)
  <1>1. <<>> \in Seq(InteractTypes)
    BY EmptySeq
  <1>2. Interactions[prefab[e]] \in Seq(InteractTypes)
    BY WorldAssumption
  <1> QED
    BY <1>1, <1>2 DEF InteractablesOf

\* The walk over the visible cells meets entities of the world only.
LEMMA WalkMeetsLive ==
  ASSUME Agree(cells, owner, live), view \subseteq Grid, NEW s \in Remaining
  PROVE  EntityAt(s) \in live
  <1>1. PICK c \in view : \E i \in 1..Len(cells[c]) : s = <<c[1], c[2], i>>
    BY DEF Remaining, Slots
  <1>0. PICK i \in 1..Len(cells[c]) : s = <<c[1], c[2], i>>
    BY <1>1
  <1>2. c \in Grid /\ <<c[1], c[2]>> = c
    BY DEF Grid
  <1>3. EntityAt(s) = cells[c][i]
    BY <1>0, <1>2 DEF EntityAt
  <1> QED
    BY <1>0, <1>2, <1>3 DEF Agree

\* TransferToCellImmediately of an entity of the world, to a cell of the grid.
LEMMA Transferred ==
  ASSUME TypeOK, EntityInItsCell, NEW e \in live, NEW c \in Grid, Transfer(e, c)
  PROVE  /\ cells' \in [Grid -> Seq(Ids)] /\ owner' \in [Ids -> Grid \cup {NoCell}]
         /\ next' \in [Ids -> Grid \cup {NoCell}] /\ Agree(cells', owner', live)
  <1> USE DEF TypeOK, EntityInItsCell
  <1>1. RemoveEntityPtr(e) \in [Grid -> Seq(Ids)] /\ Agree(RemoveEntityPtr(e), owner, live \ {e})
    BY Leaves
  <1>2. e \in Ids /\ live \ {e} \in SUBSET Ids /\ e \notin live \ {e}
    OBVIOUS
  <1>3. /\ AddEntityPtr(RemoveEntityPtr(e), c, e) \in [Grid -> Seq(Ids)]
        /\ Agree(AddEntityPtr(RemoveEntityPtr(e), c, e), [owner EXCEPT ![e] = c], (live \ {e}) \cup {e})
    BY <1>1, <1>2, Joins
  <1>4. (live \ {e}) \cup {e} = live
    OBVIOUS
  <1>5. owner' \in [Ids -> Grid \cup {NoCell}] /\ next' \in [Ids -> Grid \cup {NoCell}]
    BY <1>2 DEF Transfer
  <1> QED
    BY <1>3, <1>4, <1>5 DEF Transfer

\* RemoveEntity: the entity is gone from its list, from the world and, if it
\* was the player, from m_curPlayer.
LEMMA Removed ==
  ASSUME TypeOK, EntityInItsCell, player <=> PlayerId \in live, NEW e \in live, RemoveEntity(e)
  PROVE  /\ cells' \in [Grid -> Seq(Ids)] /\ owner' \in [Ids -> Grid \cup {NoCell}]
         /\ at' \in [Ids -> Int \X Int] /\ grid' \in [Ids -> Int \X Int]
         /\ live' \subseteq Ids /\ Agree(cells', owner', live')
         /\ player' \in BOOLEAN /\ (player' <=> PlayerId \in live')
         /\ next' = next /\ prefab' = prefab
  <1> USE DEF TypeOK, EntityInItsCell
  <1>1. RemoveEntityPtr(e) \in [Grid -> Seq(Ids)] /\ Agree(RemoveEntityPtr(e), owner, live \ {e})
    BY Leaves
  <1>2. cells' = RemoveEntityPtr(e) /\ live' = live \ {e} /\ owner' = [owner EXCEPT ![e] = NoCell]
    BY DEF RemoveEntity
  <1>3. e \in Ids /\ live' \subseteq Ids /\ \A f \in live' : owner'[f] = owner[f]
    BY <1>2
  <1>4. Agree(cells', owner', live')
    <2> DEFINE list == RemoveEntityPtr(e)
    <2>0. Agree(list, owner, live')
      BY <1>1, <1>2
    <2> HIDE DEF list
    <2>1. ASSUME NEW c \in Grid, NEW i \in 1..Len(list[c])
          PROVE  list[c][i] \in live' /\ owner'[list[c][i]] = c
      <3>1. list[c][i] \in live' /\ owner[list[c][i]] = c
        BY <2>0, Zenon DEF Agree
      <3> QED
        BY <1>3, <3>1, Zenon
    <2>2. \A c \in Grid : \A i, j \in 1..Len(list[c]) : list[c][i] = list[c][j] => i = j
      BY <2>0, Zenon DEF Agree
    <2>3. ASSUME NEW f \in live'
          PROVE  owner'[f] \in Grid /\ \E i \in 1..Len(list[owner'[f]]) : list[owner'[f]][i] = f
      <3>1. owner'[f] = owner[f]
        BY <1>3
      <3>2. owner[f] \in Grid /\ \E i \in 1..Len(list[owner[f]]) : list[owner[f]][i] = f
        BY <2>0, Zenon DEF Agree
      <3> QED
        BY <3>1, <3>2, Zenon
    <2>4. cells' = list
      BY <1>2 DEF list
    <2> QED
      BY <2>1, <2>2, <2>3, <2>4 DEF Agree
  <1>5. at' \in [Ids -> Int \X Int] /\ grid' \in [Ids -> Int \X Int]
    BY DEF RemoveEntity
  <1>6. player' \in BOOLEAN
    BY Zenon DEF RemoveEntity
  <1>7. player' <=> PlayerId \in live'
    BY <1>2 DEF RemoveEntity
  <1>8. owner' \in [Ids -> Grid \cup {NoCell}]
    BY <1>2
  <1> QED
    BY <1>1, <1>2, <1>3, <1>4, <1>5, <1>6, <1>7, <1>8 DEF RemoveEntity

\* AddEntity: a new entity, which is never the player, joins the list of c.
LEMMA Added ==
  ASSUME TypeOK, EntityInItsCell, player <=> PlayerId \in live,
         NEW e \in Ids \ (live \cup {PlayerId}), NEW name \in Prefabs, NEW c \in Grid, AddEntity(e, name, c)
  PROVE  /\ cells' \in [Grid -> Seq(Ids)] /\ owner' \in [Ids -> Grid \cup {NoCell}]
         /\ at' \in [Ids -> Int \X Int] /\ grid' \in [Ids -> Int \X Int]
         /\ live' \subseteq Ids /\ Agree(cells', owner', live')
         /\ prefab' \in [Ids -> Prefabs]
         /\ player' = player /\ (player <=> PlayerId \in live')
         /\ next' = next
  <1> USE DEF TypeOK, EntityInItsCell
  <1>1. /\ AddEntityPtr(cells, c, e) \in [Grid -> Seq(Ids)]
        /\ Agree(AddEntityPtr(cells, c, e), [owner EXCEPT ![e] = c], live \cup {e})
    BY Joins
  <1>2. c \in Int \X Int
    BY DEF Grid
  <1>3. at' \in [Ids -> Int \X Int] /\ grid' \in [Ids -> Int \X Int]
    BY <1>2 DEF AddEntity
  <1>4. owner' \in [Ids -> Grid \cup {NoCell}] /\ prefab' \in [Ids -> Prefabs]
    BY DEF AddEntity
  <1>5. live' \subseteq Ids /\ (PlayerId \in live' <=> PlayerId \in live)
    BY DEF AddEntity
  <1> QED
    BY <1>1, <1>3, <1>4, <1>5 DEF AddEntity

\* BeginUpdate: the visible cells are cells of the grid, and no transfer is
\* pending.
LEMMA Begun ==
  ASSUME TypeOK, BeginUpdate
  PROVE  /\ view' \subseteq Grid /\ pending' = <<>> /\ moved' = 0 /\ mode' = mode /\ free' = free
         /\ phase' = "update"
  <1>1. PICK mid \in Middles, r \in Radii :
           view' = Near(mid[1], r, WORLD_WIDTH) \X Near(mid[2], r, WORLD_HEIGHT)
    BY DEF BeginUpdate
  <1>2. PlayerId \in Ids /\ at[PlayerId][1] \in Int /\ at[PlayerId][2] \in Int
    BY WorldAssumption DEF TypeOK
  <1>3. /\ Clamped(at[PlayerId][1], WORLD_WIDTH) \in Int
        /\ Clamped(at[PlayerId][2], WORLD_HEIGHT) \in Int
    <2>1. WORLD_WIDTH \in Int /\ WORLD_HEIGHT \in Int
      BY WorldAssumption
    <2>2. \A n, size \in Int : Clamped(n, size) \in Int
      BY DEF Clamped
    <2> QED
      BY <1>2, <2>1, <2>2
  <1>4. mid[1] \in Int /\ mid[2] \in Int
    BY <1>3 DEF Middles, Grid
  <1>5. r \in Nat /\ WORLD_WIDTH \in Nat \ {0} /\ WORLD_HEIGHT \in Nat \ {0}
    BY WorldAssumption
  <1>6. /\ Near(mid[1], r, WORLD_WIDTH) \subseteq 0..(WORLD_WIDTH - 1)
        /\ Near(mid[2], r, WORLD_HEIGHT) \subseteq 0..(WORLD_HEIGHT - 1)
    BY <1>4, <1>5, NearInGrid
  <1>7. view' \subseteq Grid
    BY <1>1, <1>6 DEF Grid
  <1> QED
    BY <1>7 DEF BeginUpdate

-----------------------------------------------------------------------------
(* The inductive invariant *)

\* The types, and the two invariants, which need each other: a pending
\* transfer leaves the list of its owner only because its entity still lives.
IInv == TypeOK /\ EntityInItsCell /\ PointersLive

\* A world as InitializeWorld leaves it satisfies the invariant.
LEMMA InitIInv == Init => IInv
  <1> SUFFICES ASSUME Init PROVE IInv
    OBVIOUS
  <1> DEFINE S == DOMAIN Start
  <1>1. /\ S \subseteq Ids /\ PlayerId \in S /\ Start \in [S -> Grid] /\ NoCell \notin Grid
        /\ Placed \in [Grid -> Seq(S)]
    BY WorldAssumption
  <1>2. cells \in [Grid -> Seq(Ids)]
    <2>1. \A s \in Seq(S) : s \in Seq(Ids)
      BY <1>1, SeqDef
    <2> QED
      BY <1>1, <2>1 DEF Init
  <1>3. \A c \in Grid : c \in Int \X Int
    BY DEF Grid
  <1>4. TypeOK
    <2>1. at \in [Ids -> Int \X Int] /\ grid \in [Ids -> Int \X Int]
      BY <1>1, <1>3 DEF Init
    <2>2. owner \in [Ids -> Grid \cup {NoCell}] /\ next \in [Ids -> Grid \cup {NoCell}]
      BY <1>1 DEF Init
    <2>3. player \in BOOLEAN /\ free \in BOOLEAN
      BY Zenon DEF Init
    <2>4. prefab \in [Ids -> Prefabs] /\ live \subseteq Ids /\ view \subseteq Grid
      BY <1>1 DEF Init, Prefabs
    <2>5. pending \in Seq(Ids) /\ moved \in Nat
      BY EmptySeq DEF Init
    <2>6. mode \in {"PLAY_MODE", "EDIT_MODE"}
      BY DEF Init
    <2>7. phase \in {"input", "select", "update", "transfer", "console", "crashed"}
      BY DEF Init
    <2> QED
      BY <1>2, <2>1, <2>2, <2>3, <2>4, <2>5, <2>6, <2>7 DEF TypeOK
  <1>5. EntityInItsCell
    <2>1. \A e \in S : owner[e] = Start[e] /\ owner[e] \in Grid
      BY <1>1 DEF Init
    <2>2. \A c \in Grid : \A i \in 1..Len(Placed[c]) : Placed[c][i] \in S /\ owner[Placed[c][i]] = c
      <3> SUFFICES ASSUME NEW c \in Grid, NEW i \in 1..Len(Placed[c])
                   PROVE  Placed[c][i] \in S /\ owner[Placed[c][i]] = c
        OBVIOUS
      <3>1. Placed[c] \in Seq(S)
        BY <1>1
      <3>2. Placed[c][i] \in S
        BY <3>1, ElementOfSeq
      <3> QED
        BY <2>1, <3>2, WorldAssumption
    <2>3. \A c \in Grid : \A i, j \in 1..Len(Placed[c]) : Placed[c][i] = Placed[c][j] => i = j
      BY WorldAssumption
    <2>4. ASSUME NEW e \in S
          PROVE  \E i \in 1..Len(Placed[owner[e]]) : Placed[owner[e]][i] = e
      <3>1. \E i \in 1..Len(Placed[Start[e]]) : Placed[Start[e]][i] = e
        BY WorldAssumption, Zenon
      <3> QED
        BY <2>1, <3>1, Zenon
    <2>5. cells = Placed /\ live = S
      BY DEF Init
    <2>6. Agree(Placed, owner, S)
      <3> HIDE DEF S
      <3> QED
        BY <2>1, <2>2, <2>3, <2>4, Zenon DEF Agree
    <2> QED
      BY <2>5, <2>6, Zenon DEF EntityInItsCell
  <1>6. PointersLive
    BY <1>1 DEF Init, PointersLive
  <1> QED
    BY <1>4, <1>5, <1>6 DEF IInv

\* A frame whose entities, lists and owners stay keeps the invariant, if the
\* pending transfers do or are empty.
LEMMA Kept ==
  ASSUME IInv, UNCHANGED <<entities, placement>>,
         at' \in [Ids -> Int \X Int], grid' \in [Ids -> Int \X Int],
         pending' \in Seq(Ids), moved' \in Nat, mode' \in {"PLAY_MODE", "EDIT_MODE"}, free' \in BOOLEAN,
         view' \subseteq Grid, phase' \in {"input", "select", "update", "transfer", "console", "crashed"},
         phase' \in {"update", "transfer"} => ToSet(pending') \subseteq live
  PROVE  IInv'
  <1> USE DEF IInv, entities, placement
  <1>1. TypeOK'
    BY DEF TypeOK
  <1>2. EntityInItsCell'
    BY DEF EntityInItsCell, Agree
  <1>3. PointersLive'
    BY DEF PointersLive
  <1> QED
    BY <1>1, <1>2, <1>3

\* A crash changes the phase only.
LEMMA Crashed ==
  ASSUME IInv, Crash
  PROVE  IInv'
  <1>1. UNCHANGED <<entities, placement, at, grid, pending, moved, mode, free, view>> /\ phase' = "crashed"
    BY DEF Crash, loop
  <1> QED
    BY <1>1, Kept DEF IInv, TypeOK

\* The beginning of an update without a click that adds or removes an entity.
LEMMA Unclicked ==
  ASSUME IInv, UNCHANGED <<entities, placement>>,
         at' \in [Ids -> Int \X Int], grid' \in [Ids -> Int \X Int],
         view' \subseteq Grid, pending' = <<>>, moved' = 0, mode' = mode, free' = free, phase' = "update"
  PROVE  IInv'
  <1>1. pending' \in Seq(Ids) /\ ToSet(pending') \subseteq live
    BY EmptySeq DEF ToSet
  <1>2. mode' \in {"PLAY_MODE", "EDIT_MODE"} /\ free' \in BOOLEAN
    BY DEF IInv, TypeOK
  <1>3. moved' \in Nat /\ phase' \in {"input", "select", "update", "transfer", "console", "crashed"}
    OBVIOUS
  <1> QED
    BY <1>1, <1>2, <1>3, Kept

\* A click that adds or removes an entity keeps the invariant.
LEMMA Joined ==
  ASSUME IInv, cells' \in [Grid -> Seq(Ids)], owner' \in [Ids -> Grid \cup {NoCell}], next' = next,
         at' \in [Ids -> Int \X Int], grid' \in [Ids -> Int \X Int],
         live' \subseteq Ids, prefab' \in [Ids -> Prefabs], player' \in BOOLEAN,
         Agree(cells', owner', live'), player' <=> PlayerId \in live',
         view' \subseteq Grid, pending' = <<>>, moved' = 0, mode' = mode, free' = free, phase' = "update"
  PROVE  IInv'
  <1> USE DEF IInv
  <1>1. TypeOK'
    BY EmptySeq DEF TypeOK
  <1>2. EntityInItsCell'
    BY DEF EntityInItsCell, Agree
  <1>3. PointersLive'
    <2>1. ToSet(pending') \subseteq live'
      BY DEF ToSet
    <2> QED
      BY <2>1 DEF PointersLive
  <1> QED
    BY <1>1, <1>2, <1>3

\* The update of an entity, which queues its transfer at most.
LEMMA Moves ==
  ASSUME IInv, UNCHANGED <<entities, cells, owner, moved, mode, free, view, phase>>, phase = "update",
         at' \in [Ids -> Int \X Int], grid' \in [Ids -> Int \X Int],
         next' \in [Ids -> Grid \cup {NoCell}], pending' \in Seq(Ids), ToSet(pending') \subseteq live
  PROVE  IInv'
  <1> USE DEF IInv, entities
  <1>1. TypeOK'
    BY DEF TypeOK
  <1>2. EntityInItsCell'
    BY DEF EntityInItsCell, Agree
  <1>3. PointersLive'
    BY DEF PointersLive
  <1> QED
    BY <1>1, <1>2, <1>3

\* A step that moves an entity between lists and keeps the pending transfers.
LEMMA Placement ==
  ASSUME IInv, UNCHANGED <<entities, pending>>,
         cells' \in [Grid -> Seq(Ids)], owner' \in [Ids -> Grid \cup {NoCell}],
         next' \in [Ids -> Grid \cup {NoCell}], Agree(cells', owner', live),
         at' \in [Ids -> Int \X Int], grid' \in [Ids -> Int \X Int], moved' \in Nat,
         mode' \in {"PLAY_MODE", "EDIT_MODE"}, free' \in BOOLEAN, view' \subseteq Grid,
         phase' = phase \/ phase' = "input"
  PROVE  IInv'
  <1> USE DEF IInv, entities
  <1>1. TypeOK'
    BY DEF TypeOK
  <1>2. EntityInItsCell'
    BY DEF EntityInItsCell, Agree
  <1>3. PointersLive'
    BY DEF PointersLive
  <1> QED
    BY <1>1, <1>2, <1>3

\* No step of the frame breaks the invariant.
LEMMA NextIInv == IInv /\ [Next]_vars => IInv'
  <1> SUFFICES ASSUME IInv, [Next]_vars PROVE IInv'
    OBVIOUS
  <1> USE DEF IInv
  <1>0. /\ NoCell \notin Grid /\ PlayerId \in Ids /\ (\A c \in Grid : c \in Int \X Int)
    BY WorldAssumption DEF Grid
  <1>1. CASE BeginFrame
    <2>1. UNCHANGED <<entities, placement, at, grid, pending, moved, view>> /\ phase' = "select"
      BY <1>1 DEF BeginFrame, loop
    <2>2. mode' \in {"PLAY_MODE", "EDIT_MODE"}
      BY <1>1 DEF BeginFrame, HandleInput
    <2>3. free' \in BOOLEAN
      <3>1. free' \in IF player THEN BOOLEAN ELSE {TRUE}
        BY <1>1 DEF BeginFrame, CameraUpdate
      <3> QED
        BY <3>1, Zenon
    <2> QED
      BY <2>1, <2>2, <2>3, Kept DEF TypeOK
  <1>2. CASE NoClick
    <2>1. UNCHANGED <<entities, placement, at, grid>> /\ BeginUpdate
      BY <1>2 DEF NoClick
    <2>2. /\ view' \subseteq Grid /\ pending' = <<>> /\ moved' = 0 /\ mode' = mode /\ free' = free
          /\ phase' = "update"
      BY <2>1, Begun
    <2>3. at' \in [Ids -> Int \X Int] /\ grid' \in [Ids -> Int \X Int]
      BY <2>1 DEF TypeOK
    <2> QED
      BY <2>1, <2>2, <2>3, Unclicked
  <1>3. ASSUME NEW c \in Grid, EditRemove(c) PROVE IInv'
    <2> DEFINE e == Head(cells[c])
    <2>1. BeginUpdate /\ cells[c] # <<>> /\ RemoveEntity(e)
      BY <1>3 DEF EditRemove
    <2>2. e \in live
      <3>1. cells[c] \in Seq(Ids)
        BY DEF TypeOK
      <3>2. e = cells[c][1] /\ 1 \in 1..Len(cells[c])
        BY <2>1, <3>1, EmptySeq, LenProperties
      <3> QED
        BY <3>2 DEF EntityInItsCell, Agree
    <2> HIDE DEF e
    <2>3. player <=> PlayerId \in live
      BY DEF PointersLive
    <2>4. /\ cells' \in [Grid -> Seq(Ids)] /\ owner' \in [Ids -> Grid \cup {NoCell}]
          /\ at' \in [Ids -> Int \X Int] /\ grid' \in [Ids -> Int \X Int]
          /\ live' \subseteq Ids /\ Agree(cells', owner', live')
          /\ player' \in BOOLEAN /\ (player' <=> PlayerId \in live')
          /\ next' = next /\ prefab' = prefab
      BY <2>1, <2>2, <2>3, Removed
    <2>5. /\ view' \subseteq Grid /\ pending' = <<>> /\ moved' = 0 /\ mode' = mode /\ free' = free
          /\ phase' = "update"
      BY <2>1, Begun
    <2>6. prefab' \in [Ids -> Prefabs]
      BY <2>4 DEF TypeOK
    <2> QED
      BY <2>4, <2>5, <2>6, Joined
  <1>4. ASSUME NEW c \in Grid, EditAdd(c) PROVE IInv'
    <2>1. /\ BeginUpdate
          /\ \E e \in Ids \ (live \cup {PlayerId, AiId}), name \in Prefabs :
                InstanceCell[name][c] \in Grid /\ AddEntity(e, name, InstanceCell[name][c])
      BY <1>4 DEF EditAdd
    <2>2. PICK e \in Ids \ (live \cup {PlayerId}), name \in Prefabs, p \in Grid : AddEntity(e, name, p)
      BY <2>1
    <2>3. player <=> PlayerId \in live
      BY DEF PointersLive
    <2>4. /\ cells' \in [Grid -> Seq(Ids)] /\ owner' \in [Ids -> Grid \cup {NoCell}]
          /\ at' \in [Ids -> Int \X Int] /\ grid' \in [Ids -> Int \X Int]
          /\ live' \subseteq Ids /\ Agree(cells', owner', live')
          /\ prefab' \in [Ids -> Prefabs]
          /\ player' = player /\ (player <=> PlayerId \in live')
          /\ next' = next
      BY <2>2, <2>3, Added
    <2> QED
      BY <2>1, <2>4, Begun, Joined DEF TypeOK
  <1>5. ASSUME NEW c \in Grid, PlayInteract(c) PROVE IInv'
    <2>1. BeginUpdate /\ CanInteract(c) /\ UNCHANGED <<entities, placement, grid>>
      BY <1>5 DEF PlayInteract
    <2> DEFINE e == Head(cells[c])
    <2>2. at' = [at EXCEPT ![e] = Moved(at[e], InteractablesOf(e))]
      BY <1>5 DEF PlayInteract
    <2>3. e \in Ids
      <3>1. cells[c] \in Seq(Ids) /\ cells[c] # <<>>
        BY <2>1 DEF TypeOK, CanInteract
      <3> QED
        BY <3>1, HeadTailProperties
    <2> HIDE DEF e
    <2>4. Moved(at[e], InteractablesOf(e)) \in Int \X Int
      <3>1. at[e] \in Int \X Int /\ InteractablesOf(e) \in Seq(InteractTypes)
        BY <2>3, InteractablesType DEF TypeOK
      <3> QED
        BY <3>1, MovedType
    <2>5. at' \in [Ids -> Int \X Int] /\ grid' \in [Ids -> Int \X Int]
      BY <2>1, <2>2, <2>4 DEF TypeOK
    <2>6. /\ view' \subseteq Grid /\ pending' = <<>> /\ moved' = 0 /\ mode' = mode /\ free' = free
          /\ phase' = "update"
      BY <2>1, Begun
    <2> QED
      BY <2>1, <2>5, <2>6, Unclicked
  <1>6. ASSUME NEW c \in Grid, PlayDestroy(c) PROVE IInv'
    BY <1>6, Crashed DEF PlayDestroy
  <1>7. CASE UpdateEntity
    <2>1. PICK s \in Remaining : \E d \in Steps(EntityAt(s)) :
            LET e == EntityAt(s)
                p == <<at[e][1] + d[1], at[e][2] + d[2]>>
            IN  /\ at' = [at EXCEPT ![e] = p] /\ grid' = [grid EXCEPT ![e] = p] /\ Queue(e, p)
      BY <1>7 DEF UpdateEntity
    <2> DEFINE e == EntityAt(s)
    <2>2. PICK d \in Steps(e) :
            /\ at' = [at EXCEPT ![e] = <<at[e][1] + d[1], at[e][2] + d[2]>>]
            /\ grid' = [grid EXCEPT ![e] = <<at[e][1] + d[1], at[e][2] + d[2]>>]
            /\ Queue(e, <<at[e][1] + d[1], at[e][2] + d[2]>>)
      BY <2>1
    <2> DEFINE p == <<at[e][1] + d[1], at[e][2] + d[2]>>
    <2>3. e \in live /\ e \in Ids
      BY WalkMeetsLive DEF TypeOK, EntityInItsCell
    <2> HIDE DEF e
    <2>4. d \in Int \X Int
      <3>1. Walks \subseteq Int \X Int
        BY WorldAssumption
      <3>2. {0, 1} \X {0, 1} \subseteq Int \X Int /\ <<0, 0>> \in Int \X Int
        OBVIOUS
      <3> QED
        BY <3>1, <3>2 DEF Steps, AISteps
    <2>5. p \in Int \X Int
      BY <2>3, <2>4 DEF TypeOK
    <2>6. at' = [at EXCEPT ![e] = p] /\ grid' = [grid EXCEPT ![e] = p] /\ Queue(e, p)
      BY <2>2
    <2> HIDE DEF p
    <2>7. at' \in [Ids -> Int \X Int] /\ grid' \in [Ids -> Int \X Int]
      BY <2>5, <2>6 DEF TypeOK
    <2>8. /\ next' \in [Ids -> Grid \cup {NoCell}] /\ pending' \in Seq(Ids)
          /\ ToSet(pending') \subseteq live
      <3>0. pending \in Seq(Ids) /\ next \in [Ids -> Grid \cup {NoCell}] /\ ToSet(pending) \subseteq live
        BY <1>7 DEF TypeOK, PointersLive, UpdateEntity
      <3>1. CASE UNCHANGED <<next, pending>>
        BY <3>0, <3>1
      <3>2. CASE next' = [next EXCEPT ![e] = CellAt(p)] /\ pending' = Append(pending, e)
        <4>1. next' \in [Ids -> Grid \cup {NoCell}]
          BY <3>0, <3>2 DEF CellAt
        <4>2. /\ pending' \in Seq(Ids) /\ Len(pending') = Len(pending) + 1
              /\ \A k \in 1..Len(pending) : pending'[k] = pending[k]
              /\ pending'[Len(pending) + 1] = e
          BY <2>3, <3>0, <3>2, AppendProperties
        <4>3. Len(pending) \in Nat /\ DOMAIN pending = 1..Len(pending) /\ DOMAIN pending' = 1..(Len(pending) + 1)
          BY <3>0, <4>2, LenProperties
        <4>4. \A k \in 1..(Len(pending) + 1) : pending'[k] \in live
          BY <2>3, <3>0, <4>2, <4>3 DEF ToSet
        <4> QED
          BY <4>1, <4>2, <4>3, <4>4 DEF ToSet
      <3> QED
        BY <2>6, <3>1, <3>2 DEF Queue
    <2>9. UNCHANGED <<entities, cells, owner, moved, mode, free, view, phase>> /\ phase = "update"
      BY <1>7 DEF UpdateEntity
    <2> QED
      BY <2>7, <2>8, <2>9, Moves
  <1>8. CASE EndUpdate
    <2>1. UNCHANGED <<entities, placement, at, grid, pending, moved, mode, free>> /\ view' = {}
      BY <1>8 DEF EndUpdate
    <2>2. phase' = "transfer" /\ ToSet(pending) \subseteq live
      BY <1>8 DEF EndUpdate, PointersLive
    <2> QED
      BY <2>1, <2>2, Kept DEF TypeOK
  <1>9. CASE TransferPending
    <2> DEFINE e == pending[moved + 1]
    <2>1. phase = "transfer" /\ moved < Len(pending)
      BY <1>9 DEF TransferPending
    <2>2. e \in live
      <3>1. pending \in Seq(Ids) /\ moved \in Nat /\ ToSet(pending) \subseteq live
        BY <2>1 DEF TypeOK, PointersLive
      <3>2. DOMAIN pending = 1..Len(pending) /\ Len(pending) \in Nat
        BY <3>1, LenProperties
      <3>3. moved + 1 \in DOMAIN pending
        BY <2>1, <3>1, <3>2
      <3> QED
        BY <3>1, <3>3 DEF ToSet
    <2>3. CASE next[e] = NoCell
      BY <1>9, <2>3, Crashed DEF TransferPending
    <2>4. CASE next[e] # NoCell
      <3>1. /\ Transfer(e, next[e]) /\ moved' = moved + 1
            /\ UNCHANGED <<entities, at, grid, pending, mode, free, phase, loop>>
        BY <1>9, <2>4 DEF TransferPending
      <3>2. next[e] \in Grid
        BY <2>2, <2>4 DEF TypeOK
      <3> HIDE DEF e
      <3>3. /\ cells' \in [Grid -> Seq(Ids)] /\ owner' \in [Ids -> Grid \cup {NoCell}]
            /\ next' \in [Ids -> Grid \cup {NoCell}] /\ Agree(cells', owner', live)
        BY <2>2, <3>1, <3>2, Transferred
      <3>4. /\ at' \in [Ids -> Int \X Int] /\ grid' \in [Ids -> Int \X Int] /\ pending' \in Seq(Ids)
            /\ moved' \in Nat /\ mode' \in {"PLAY_MODE", "EDIT_MODE"} /\ free' \in BOOLEAN /\ view' \subseteq Grid
        BY <3>1 DEF TypeOK, loop
      <3>5. UNCHANGED <<entities, pending, phase>>
        BY <3>1
      <3> QED
        BY <3>3, <3>4, <3>5, Placement
    <2> QED
      BY <2>3, <2>4
  <1>10. CASE EndTransfer
    <2>1. UNCHANGED <<entities, placement, at, grid, pending, moved, mode, free, view>> /\ phase' = "console"
      BY <1>10 DEF EndTransfer, loop
    <2> QED
      BY <2>1, Kept DEF TypeOK
  <1>11. CASE NoCommand
    <2>1. UNCHANGED <<entities, placement, at, grid, pending, moved, mode, free, view>> /\ phase' = "input"
      BY <1>11 DEF NoCommand, loop
    <2> QED
      BY <2>1, Kept DEF TypeOK
  <1>12. ASSUME NEW c \in Grid, Teleport(c) PROVE IInv'
    <2>1. CASE ~player
      BY <1>12, <2>1, Crashed DEF Teleport
    <2>2. CASE player
      <3>1. /\ at' = [at EXCEPT ![PlayerId] = c] /\ Transfer(PlayerId, c) /\ phase' = "input"
            /\ UNCHANGED <<entities, grid, pending, moved, mode, free, loop>>
        BY <1>12, <2>2 DEF Teleport
      <3>2. PlayerId \in live
        BY <2>2 DEF PointersLive
      <3>3. /\ cells' \in [Grid -> Seq(Ids)] /\ owner' \in [Ids -> Grid \cup {NoCell}]
            /\ next' \in [Ids -> Grid \cup {NoCell}] /\ Agree(cells', owner', live)
        BY <3>1, <3>2, Transferred
      <3>4. /\ at' \in [Ids -> Int \X Int] /\ grid' \in [Ids -> Int \X Int] /\ pending' \in Seq(Ids)
            /\ moved' \in Nat /\ mode' \in {"PLAY_MODE", "EDIT_MODE"} /\ free' \in BOOLEAN /\ view' \subseteq Grid
        BY <1>0, <3>1 DEF TypeOK, loop
      <3> QED
        BY <3>1, <3>3, <3>4, Placement
    <2> QED
      BY <2>1, <2>2
  <1>13. CASE UNCHANGED vars
    BY <1>13, Kept DEF vars, entities, placement, TypeOK, PointersLive
  <1> QED
    BY <1>1, <1>2, <1>3, <1>4, <1>5, <1>6, <1>7, <1>8, <1>9, <1>10, <1>11, <1>12, <1>13 DEF Next

-----------------------------------------------------------------------------
(* The walk over the visible cells *)

\* The cells that can be visible: the last row and column never are.
Inner == (0 .. WORLD_WIDTH - 2) \X (0 .. WORLD_HEIGHT - 2)

\* While the world is updated, what has been updated lies behind the walk,
\* and only that waits for a transfer.
Walked ==
    /\ slot \in Int \X Int \X Int
    /\ phase # "update" => updated = {}
    /\ phase = "update" =>
         /\ \A e \in updated : \E t \in Slots : EntityAt(t) = e /\ ~Before(slot, t)
         /\ \A i \in 1..Len(pending) : pending[i] \in updated
         /\ moved = 0 /\ view \subseteq Inner

\* A transfer of e is still to be made.
Waits(e) == phase \in {"update", "transfer"} /\ \E i \in (moved + 1)..Len(pending) : pending[i] = e

\* An entity is in the cell of its grid position, or waits to be moved there.
Stands(e) == owner[e] = grid[e] \/ (e = PlayerId /\ teleported)
Standing ==
    phase # "crashed" =>
      \A e \in live :
         IF Waits(e) THEN next[e] \in {NoCell, CellAt(grid[e])} ELSE Stands(e)

\* The AI stands where its grid position says, inside the world.
AIStands == AiId \in live /\ phase # "crashed" => at[AiId] = grid[AiId] /\ at[AiId] \in Grid

FrameInv == Walked /\ Standing /\ AIStands

\* The order of the walk.
LEMMA BeforeOrder ==
  ASSUME NEW r \in Int \X Int \X Int, NEW s \in Int \X Int \X Int, NEW t \in Int \X Int \X Int
  PROVE  (Before(r, s) /\ Before(s, t) => Before(r, t)) /\ ~Before(s, s)
  <1>1. /\ r[1] \in Int /\ r[2] \in Int /\ r[3] \in Int
        /\ s[1] \in Int /\ s[2] \in Int /\ s[3] \in Int
        /\ t[1] \in Int /\ t[2] \in Int /\ t[3] \in Int
    OBVIOUS
  <1> QED
    BY <1>1 DEF Before

\* A place of the walk is an index of the list of a visible cell.
LEMMA Places ==
  ASSUME IInv, NEW t \in Slots
  PROVE  /\ t \in Int \X Int \X Int /\ t = <<t[1], t[2], t[3]>>
         /\ <<t[1], t[2]>> \in view /\ <<t[1], t[2]>> \in Grid
         /\ t[3] \in 1..Len(cells[<<t[1], t[2]>>])
         /\ EntityAt(t) \in live /\ owner[EntityAt(t)] = <<t[1], t[2]>>
  <1>1. PICK c \in view : \E i \in 1..Len(cells[c]) : t = <<c[1], c[2], i>>
    BY DEF Slots
  <1>2. PICK i \in 1..Len(cells[c]) : t = <<c[1], c[2], i>>
    BY <1>1
  <1>3. c \in Grid /\ <<c[1], c[2]>> = c /\ c[1] \in Int /\ c[2] \in Int
    <2>1. view \subseteq Grid
      BY DEF IInv, TypeOK
    <2>2. c \in Grid
      BY <2>1
    <2> QED
      BY <2>2 DEF Grid
  <1>4. t[1] = c[1] /\ t[2] = c[2] /\ t[3] = i
    BY <1>2
  <1>5. EntityAt(t) = cells[c][i]
    BY <1>3, <1>4 DEF EntityAt
  <1>6. cells[c][i] \in live /\ owner[cells[c][i]] = c
    BY <1>3 DEF IInv, EntityInItsCell, Agree
  <1> QED
    BY <1>2, <1>3, <1>4, <1>5, <1>6

\* No entity has two places.
LEMMA OnePlace ==
  ASSUME IInv, NEW s \in Slots, NEW t \in Slots, EntityAt(s) = EntityAt(t)
  PROVE  s = t
  <1> DEFINE c == <<s[1], s[2]>>
  <1>1. /\ s = <<s[1], s[2], s[3]>> /\ c \in Grid /\ s[3] \in 1..Len(cells[c]) /\ owner[EntityAt(s)] = c
    BY Places
  <1>2. /\ t = <<t[1], t[2], t[3]>> /\ t[3] \in 1..Len(cells[<<t[1], t[2]>>])
        /\ owner[EntityAt(t)] = <<t[1], t[2]>>
    BY Places
  <1>3. <<t[1], t[2]>> = c
    BY <1>1, <1>2
  <1>4. t[3] \in 1..Len(cells[c]) /\ cells[c][s[3]] = cells[c][t[3]]
    BY <1>2, <1>3 DEF EntityAt
  <1>5. s[3] = t[3]
    BY <1>1, <1>4 DEF IInv, EntityInItsCell, Agree
  <1>6. s[1] = t[1] /\ s[2] = t[2]
    BY <1>3
  <1> QED
    BY <1>1, <1>2, <1>5, <1>6

\* What the walk meets next has not been updated in this frame.
LEMMA NotYetUpdated ==
  ASSUME IInv, Walked, phase = "update", NEW s \in Remaining
  PROVE  EntityAt(s) \notin updated
  <1> SUFFICES ASSUME EntityAt(s) \in updated PROVE FALSE
    OBVIOUS
  <1>1. s \in Slots /\ Before(slot, s)
    BY DEF Remaining
  <1>2. PICK t \in Slots : EntityAt(t) = EntityAt(s) /\ ~Before(slot, t)
    BY DEF Walked
  <1>3. t = s
    BY <1>1, <1>2, OnePlace
  <1> QED
    BY <1>1, <1>2, <1>3

-----------------------------------------------------------------------------
(* The steps of a frame *)

\* A frame begins with all entities where they stand.
LEMMA InitFrame == Init => FrameInv
  <1> SUFFICES ASSUME Init PROVE FrameInv
    OBVIOUS
  <1>1. Walked
    BY DEF Init, Walked
  <1>2. live \subseteq Ids /\ live = DOMAIN Start /\ AiId \in live /\ Start \in [DOMAIN Start -> Grid]
    BY WorldAssumption DEF Init
  <1>3. \A e \in live : owner[e] = Start[e] /\ at[e] = Start[e] /\ grid[e] = at[e]
    BY <1>2 DEF Init
  <1>4. phase = "input"
    BY DEF Init
  <1>5. Standing
    BY <1>3, <1>4 DEF Standing, Waits, Stands
  <1>6. AIStands
    BY <1>2, <1>3 DEF AIStands
  <1> QED
    BY <1>1, <1>5, <1>6 DEF FrameInv

\* The visible cells leave out the last row and the last column.
LEMMA InnerVisible ==
  ASSUME TypeOK, BeginUpdate
  PROVE  view' \subseteq Inner
  <1>1. PICK mid \in Middles, r \in Radii :
           view' = Near(mid[1], r, WORLD_WIDTH) \X Near(mid[2], r, WORLD_HEIGHT)
    BY DEF BeginUpdate
  <1>2. PlayerId \in Ids /\ at[PlayerId][1] \in Int /\ at[PlayerId][2] \in Int
    BY WorldAssumption DEF TypeOK
  <1>3. WORLD_WIDTH \in Nat \ {0} /\ WORLD_HEIGHT \in Nat \ {0} /\ r \in Nat
    BY WorldAssumption
  <1>4. \A n, size \in Int : Clamped(n, size) \in Int
    BY DEF Clamped
  <1>5. mid[1] \in Int /\ mid[2] \in Int
    <2>0. WORLD_WIDTH \in Int /\ WORLD_HEIGHT \in Int
      BY <1>3
    <2>1. Clamped(at[PlayerId][1], WORLD_WIDTH) \in Int /\ Clamped(at[PlayerId][2], WORLD_HEIGHT) \in Int
      BY <1>2, <1>4, <2>0
    <2> QED
      BY <2>1 DEF Middles, Grid
  <1>6. ASSUME NEW size \in Nat \ {0}, NEW n \in Int
        PROVE  Near(n, r, size) \subseteq 0..(size - 2)
    BY <1>3, <1>6 DEF Near, Clamped
  <1>7. /\ Near(mid[1], r, WORLD_WIDTH) \subseteq 0..(WORLD_WIDTH - 2)
        /\ Near(mid[2], r, WORLD_HEIGHT) \subseteq 0..(WORLD_HEIGHT - 2)
    BY <1>3, <1>5, <1>6
  <1> QED
    BY <1>1, <1>7 DEF Inner

\* After the click, every entity stands in the cell of its grid position, and
\* the walk begins.
LEMMA WalkBegins ==
  ASSUME IInv, FrameInv, BeginUpdate,
         \A e \in live' : Stands(e)',
         AiId \in live' => at'[AiId] = grid'[AiId] /\ at'[AiId] \in Grid
  PROVE  FrameInv'
  <1>1. /\ phase = "select" /\ phase' = "update" /\ pending' = <<>> /\ moved' = 0
        /\ slot' = slot /\ updated' = updated
    BY DEF BeginUpdate
  <1>2. view' \subseteq Inner
    BY InnerVisible DEF IInv
  <1>3. Len(pending') = 0
    BY <1>1
  <1>4. Walked'
    BY <1>1, <1>2, <1>3 DEF FrameInv, Walked
  <1>5. Standing'
    BY <1>1, <1>3 DEF Standing, Waits
  <1>6. AIStands'
    BY DEF AIStands
  <1> QED
    BY <1>4, <1>5, <1>6 DEF FrameInv

\* While the player chooses, every entity stands in its cell.
LEMMA StandsAtSelect ==
  ASSUME FrameInv, phase \in {"input", "select", "console"}
  PROVE  /\ \A e \in live : Stands(e)
         /\ AiId \in live => at[AiId] = grid[AiId] /\ at[AiId] \in Grid
         /\ updated = {} /\ slot \in Int \X Int \X Int
  BY DEF FrameInv, Walked, Standing, Waits, AIStands

\* A crash ends it all.
LEMMA CrashedFrame ==
  ASSUME FrameInv, phase \in {"select", "transfer", "console"}, Crash
  PROVE  FrameInv'
  <1>1. phase' = "crashed" /\ slot' = slot /\ updated' = updated
    BY DEF Crash, loop
  <1> QED
    BY <1>1 DEF FrameInv, Walked, Standing, AIStands

\* The update of an entity: it is the first in this frame, and it stands
\* where it did before or waits for its transfer.
LEMMA UpdateFrame ==
  ASSUME IInv, FrameInv, UpdateEntity
  PROVE  FrameInv'
  <1>1. PICK s \in Remaining : \E d \in Steps(EntityAt(s)) :
          LET e == EntityAt(s)
              p == <<at[e][1] + d[1], at[e][2] + d[2]>>
          IN  /\ slot' = s /\ updated' = updated \cup {e}
              /\ at' = [at EXCEPT ![e] = p] /\ grid' = [grid EXCEPT ![e] = p] /\ Queue(e, p)
    BY DEF UpdateEntity
  <1>0. PICK e : e = EntityAt(s)
    OBVIOUS
  <1>2. PICK d \in Steps(e) :
          /\ slot' = s /\ updated' = updated \cup {e}
          /\ at' = [at EXCEPT ![e] = <<at[e][1] + d[1], at[e][2] + d[2]>>]
          /\ grid' = [grid EXCEPT ![e] = <<at[e][1] + d[1], at[e][2] + d[2]>>]
          /\ Queue(e, <<at[e][1] + d[1], at[e][2] + d[2]>>)
    BY <1>0, <1>1
  <1> DEFINE p == <<at[e][1] + d[1], at[e][2] + d[2]>>
             c == <<s[1], s[2]>>
  <1>3. /\ phase = "update" /\ phase' = "update"
        /\ UNCHANGED <<live, prefab, player, cells, owner, moved, view, teleported>>
    BY DEF UpdateEntity, entities
  <1>4. s \in Slots /\ Before(slot, s) /\ e \notin updated
    BY <1>0, <1>3, NotYetUpdated DEF Remaining, FrameInv
  <1>5. /\ s \in Int \X Int \X Int /\ c \in view /\ c \in Grid
        /\ e \in live /\ owner[e] = c /\ e \in Ids
    BY <1>0, <1>4, Places DEF IInv, TypeOK
  <1>6. /\ (\A f \in updated : \E t \in Slots : EntityAt(t) = f /\ ~Before(slot, t))
        /\ (\A i \in 1..Len(pending) : pending[i] \in updated)
        /\ moved = 0 /\ view \subseteq Inner /\ slot \in Int \X Int \X Int
    BY <1>3 DEF FrameInv, Walked
  <1>7. pending \in Seq(Ids) /\ Len(pending) \in Nat /\ at \in [Ids -> Int \X Int] /\ grid \in [Ids -> Int \X Int]
    BY LenProperties DEF IInv, TypeOK
  <1>8. Slots' = Slots /\ \A t : EntityAt(t)' = EntityAt(t)
    BY <1>3 DEF Slots, EntityAt
  \* What is queued, and for whom.
  <1>9. /\ slot' = s /\ updated' = updated \cup {e}
        /\ at' = [at EXCEPT ![e] = p] /\ grid' = [grid EXCEPT ![e] = p] /\ Queue(e, p)
    BY <1>2
  <1> HIDE DEF p
  <1>10. \/ p = grid[e] /\ next' = next /\ pending' = pending
         \/ next' = [next EXCEPT ![e] = CellAt(p)] /\ pending' = Append(pending, e)
    BY <1>9 DEF Queue
  <1>11. /\ \A i \in 1..Len(pending') : pending'[i] \in updated'
         /\ \A f \in Ids \ {e} : Waits(f)' = Waits(f) /\ next'[f] = next[f] /\ grid'[f] = grid[f]
    <2>0. \A f \in Ids \ {e} : next'[f] = next[f] /\ grid'[f] = grid[f]
      BY <1>7, <1>9, <1>10 DEF IInv, TypeOK
    <2>1. CASE pending' = pending
      BY <1>3, <1>6, <1>9, <2>0, <2>1 DEF Waits
    <2>2. CASE pending' = Append(pending, e)
      <3>1. /\ Len(pending') = Len(pending) + 1 /\ pending'[Len(pending) + 1] = e
            /\ \A i \in 1..Len(pending) : pending'[i] = pending[i]
        BY <1>5, <1>7, <2>2, AppendProperties
      <3>2. \A i \in 1..Len(pending') : pending'[i] \in updated'
        <4> SUFFICES ASSUME NEW i \in 1..Len(pending') PROVE pending'[i] \in updated'
          OBVIOUS
        <4>1. i \in 1..Len(pending) \/ i = Len(pending) + 1
          BY <1>7, <3>1
        <4> QED
          BY <1>6, <1>9, <3>1, <4>1
      <3>3. ASSUME NEW f \in Ids \ {e}
            PROVE  (\E i \in 1..Len(pending') : pending'[i] = f) <=> (\E i \in 1..Len(pending) : pending[i] = f)
        <4>0. Len(pending) \in Nat /\ Len(pending') = Len(pending) + 1
          BY <1>7, <3>1
        <4>1. \A i \in 1..Len(pending') : i \in 1..Len(pending) \/ i = Len(pending) + 1
          BY <4>0
        <4>2. \A i \in 1..Len(pending) : i \in 1..Len(pending')
          BY <4>0
        <4> QED
          BY <3>1, <4>1, <4>2
      <3>4. moved + 1 = 1 /\ moved' + 1 = 1
        BY <1>3, <1>6
      <3> QED
        BY <1>3, <2>0, <3>2, <3>3, <3>4 DEF Waits
    <2> QED
      BY <1>10, <2>1, <2>2
  <1>12. ~Waits(e) /\ Stands(e)
    <2>1. ~Waits(e)
      <3>1. (moved + 1)..Len(pending) = 1..Len(pending)
        BY <1>6
      <3> QED
        BY <1>4, <1>6, <3>1 DEF Waits
    <2> QED
      BY <1>3, <1>5, <2>1 DEF FrameInv, Standing
  <1>13. Walked'
    <2>1. ASSUME NEW f \in updated'
          PROVE  \E t \in Slots : EntityAt(t) = f /\ ~Before(s, t)
      <3>1. CASE f = e
        BY <1>0, <1>4, <1>5, <3>1, BeforeOrder
      <3>2. CASE f \in updated
        <4>1. PICK t \in Slots : EntityAt(t) = f /\ ~Before(slot, t)
          BY <1>6, <3>2
        <4>2. t \in Int \X Int \X Int
          BY <4>1, Places
        <4>3. ~Before(s, t)
          BY <1>4, <1>5, <1>6, <4>1, <4>2, BeforeOrder
        <4> QED
          BY <4>1, <4>3
      <3> QED
        BY <1>9, <3>1, <3>2
    <2>2. \A f \in updated' : \E t \in Slots' : EntityAt(t)' = f /\ ~Before(slot', t)
      BY <1>8, <1>9, <2>1
    <2> QED
      BY <1>3, <1>5, <1>6, <1>9, <1>11, <2>2 DEF Walked
  <1>14. Standing'
    <2> SUFFICES ASSUME NEW f \in live
                 PROVE  IF Waits(f)' THEN next'[f] \in {NoCell, CellAt(grid'[f])} ELSE Stands(f)'
      BY <1>3 DEF Standing
    <2>0. grid'[f] = grid[f] /\ Stands(f) => Stands(f)'
      BY <1>3 DEF Stands
    <2>1. f \in Ids
      BY DEF IInv, TypeOK
    <2>2. IF Waits(f) THEN next[f] \in {NoCell, CellAt(grid[f])} ELSE Stands(f)
      BY <1>3 DEF FrameInv, Standing
    <2>3. CASE f # e
      BY <1>11, <2>0, <2>1, <2>2, <2>3
    <2>4. CASE f = e /\ p = grid[e] /\ next' = next /\ pending' = pending
      <3>1. Waits(e)' = Waits(e)
        BY <1>3, <2>4 DEF Waits
      <3>2. grid'[e] = grid[e]
        BY <1>5, <1>7, <1>9, <2>4
      <3> QED
        BY <1>12, <2>0, <2>4, <3>1, <3>2
    <2>5. CASE f = e /\ next' = [next EXCEPT ![e] = CellAt(p)] /\ pending' = Append(pending, e)
      <3>1. Len(pending') = Len(pending) + 1 /\ pending'[Len(pending) + 1] = e
        BY <1>5, <1>7, <2>5, AppendProperties
      <3>2. Waits(e)'
        <4>1. moved' + 1 = 1 /\ Len(pending) + 1 \in 1..Len(pending')
          BY <1>3, <1>6, <1>7, <3>1
        <4> QED
          BY <1>3, <3>1, <4>1 DEF Waits
      <3>3. next'[e] = CellAt(p) /\ grid'[e] = p
        BY <1>5, <1>7, <1>9, <2>5 DEF IInv, TypeOK
      <3> QED
        BY <2>5, <3>2, <3>3
    <2> QED
      BY <1>10, <2>3, <2>4, <2>5
  <1>15. AIStands'
    <2> SUFFICES ASSUME AiId \in live
                 PROVE  at'[AiId] = grid'[AiId] /\ at'[AiId] \in Grid
      BY <1>3 DEF AIStands
    <2>1. at[AiId] = grid[AiId] /\ at[AiId] \in Grid /\ AiId \in Ids
      BY <1>3, WorldAssumption DEF FrameInv, AIStands
    <2>2. CASE e # AiId
      BY <1>7, <1>9, <2>1, <2>2
    <2>3. CASE e = AiId
      <3>1. e # PlayerId
        BY <2>3, WorldAssumption
      <3>2. at[e] = c
        BY <1>5, <1>12, <2>1, <2>3, <3>1 DEF Stands
      <3>3. c[1] \in 0..(WORLD_WIDTH - 2) /\ c[2] \in 0..(WORLD_HEIGHT - 2)
        BY <1>5, <1>6 DEF Inner
      <3>4. d[1] \in {0, 1} /\ d[2] \in {0, 1}
        BY <2>3, <3>1 DEF Steps, AISteps
      <3>5. WORLD_WIDTH \in Nat \ {0} /\ WORLD_HEIGHT \in Nat \ {0}
        BY WorldAssumption
      <3> HIDE DEF c
      <3>6. c[1] + d[1] \in 0..(WORLD_WIDTH - 1) /\ c[2] + d[2] \in 0..(WORLD_HEIGHT - 1)
        BY <3>3, <3>4, <3>5
      <3>7. p \in Grid
        BY <3>2, <3>6 DEF p, Grid
      <3>8. at'[e] = p /\ grid'[e] = p
        BY <1>5, <1>7, <1>9
      <3> QED
        BY <2>3, <3>7, <3>8
    <2> QED
      BY <2>2, <2>3
  <1> QED
    BY <1>13, <1>14, <1>15 DEF FrameInv

\* A transfer brings an entity to the cell of its grid position.
LEMMA TransferFrame ==
  ASSUME IInv, FrameInv, TransferPending
  PROVE  FrameInv'
  <1>0. PICK e : e = pending[moved + 1]
    OBVIOUS
  <1>1. phase = "transfer" /\ moved < Len(pending)
    BY DEF TransferPending
  <1>2. CASE next[e] = NoCell
    BY <1>0, <1>1, <1>2, CrashedFrame DEF TransferPending
  <1>3. CASE next[e] # NoCell
    <2>1. /\ owner' = [owner EXCEPT ![e] = next[e]] /\ next' = [next EXCEPT ![e] = NoCell] /\ moved' = moved + 1
          /\ teleported' = (teleported /\ e # PlayerId)
          /\ UNCHANGED <<live, prefab, player, at, grid, pending, phase, view, slot, updated>>
      BY <1>0, <1>3 DEF TransferPending, Transfer, entities, loop
    <2>2. moved \in Nat /\ Len(pending) \in Nat /\ moved + 1 \in (moved + 1)..Len(pending)
      BY <1>1, LenProperties DEF IInv, TypeOK
    <2>3. Waits(e)
      BY <1>0, <1>1, <2>2 DEF Waits
    <2>4. ASSUME NEW f, f # e
          PROVE  Waits(f)' = Waits(f)
      <3>1. \A i \in (moved + 1)..Len(pending) : i = moved + 1 \/ i \in (moved' + 1)..Len(pending)
        BY <2>1, <2>2
      <3>2. \A i \in (moved' + 1)..Len(pending) : i \in (moved + 1)..Len(pending)
        BY <2>1, <2>2
      <3> QED
        BY <1>0, <1>1, <2>1, <2>4, <3>1, <3>2 DEF Waits
    <2>5. Standing'
      <3> SUFFICES ASSUME NEW f \in live
                   PROVE  IF Waits(f)' THEN next'[f] \in {NoCell, CellAt(grid[f])} ELSE Stands(f)'
        BY <2>1 DEF Standing
      <3>1. /\ f \in Ids /\ next \in [Ids -> Grid \cup {NoCell}] /\ owner \in [Ids -> Grid \cup {NoCell}]
        BY DEF IInv, TypeOK
      <3>2. IF Waits(f) THEN next[f] \in {NoCell, CellAt(grid[f])} ELSE Stands(f)
        BY <1>1 DEF FrameInv, Standing
      <3>3. CASE f # e
        <4>1. next'[f] = next[f] /\ owner'[f] = owner[f]
          BY <2>1, <3>1, <3>3
        <4>2. f = PlayerId /\ teleported => teleported'
          BY <2>1, <3>3
        <4>3. Stands(f) => Stands(f)'
          BY <2>1, <4>1, <4>2 DEF Stands
        <4> QED
          BY <2>4, <3>2, <3>3, <4>1, <4>3
      <3>4. CASE f = e
        <4>1. next'[f] = NoCell /\ owner'[f] = next[f]
          BY <2>1, <3>1, <3>4
        <4>2. next[f] = grid[f]
          BY <1>3, <2>3, <3>2, <3>4 DEF CellAt
        <4>3. Stands(f)'
          BY <2>1, <4>1, <4>2 DEF Stands
        <4> QED
          BY <4>1, <4>3
      <3> QED
        BY <3>3, <3>4
    <2>6. Walked' /\ AIStands'
      BY <1>1, <2>1 DEF FrameInv, Walked, AIStands
    <2> QED
      BY <2>5, <2>6 DEF FrameInv
  <1> QED
    BY <1>2, <1>3

\* Every step of a frame keeps the invariant of the walk.
LEMMA NextFrame == IInv /\ FrameInv /\ [Next]_vars => FrameInv'
  <1> SUFFICES ASSUME IInv, FrameInv, [Next]_vars PROVE FrameInv'
    OBVIOUS
  <1>1. CASE BeginFrame \/ EndTransfer \/ NoCommand \/ EndUpdate
    <2>1. UNCHANGED <<live, owner, next, at, grid, pending, moved, teleported>>
      BY <1>1 DEF BeginFrame, EndTransfer, NoCommand, EndUpdate, entities, placement
    <2>2. /\ phase' \in {"select", "console", "input", "transfer"}
          /\ slot' = slot \/ slot' = <<0, 0, 0>>
          /\ updated' = {}
          /\ phase' = "transfer" => phase = "update"
          /\ phase' # "transfer" => phase \in {"input", "console"} \/ (phase = "transfer" /\ moved = Len(pending))
      BY <1>1 DEF BeginFrame, EndTransfer, NoCommand, EndUpdate, loop, FrameInv, Walked
    <2>3. Walked'
      BY <2>2 DEF FrameInv, Walked
    <2>4. Standing'
      <3>1. CASE phase' = "transfer"
        BY <2>1, <2>2, <3>1 DEF FrameInv, Standing, Waits, Stands
      <3>2. CASE phase' # "transfer"
        <4>1. \A f : ~Waits(f)
          <5>1. Len(pending) \in Nat
            BY LenProperties DEF IInv, TypeOK
          <5>2. moved = Len(pending) => (moved + 1)..Len(pending) = {}
            BY <5>1
          <5> QED
            BY <2>2, <3>2, <5>2 DEF Waits
        <4>2. \A f : ~Waits(f)'
          BY <2>2, <3>2 DEF Waits
        <4>3. phase # "crashed"
          BY <2>2
        <4> QED
          BY <2>1, <4>1, <4>2, <4>3 DEF FrameInv, Standing, Stands
      <3> QED
        BY <3>1, <3>2
    <2>5. AIStands'
      BY <2>1, <2>2 DEF FrameInv, AIStands
    <2> QED
      BY <2>3, <2>4, <2>5 DEF FrameInv
  <1>2. CASE NoClick
    <2>1. BeginUpdate /\ UNCHANGED <<live, owner, at, grid, teleported>> /\ phase = "select"
      BY <1>2 DEF NoClick, BeginUpdate, entities, placement
    <2>2. \A f \in live' : Stands(f)'
      BY <2>1, StandsAtSelect DEF Stands
    <2> QED
      BY <2>1, <2>2, StandsAtSelect, WalkBegins
  <1>3. ASSUME NEW c \in Grid, EditRemove(c) PROVE FrameInv'
    <2>0. PICK e : e = Head(cells[c])
      OBVIOUS
    <2>1. /\ BeginUpdate /\ phase = "select" /\ live' = live \ {e} /\ owner' = [owner EXCEPT ![e] = NoCell]
          /\ at' = [at EXCEPT ![e] = <<0, 0>>] /\ grid' = [grid EXCEPT ![e] = <<0, 0>>] /\ teleported' = teleported
      BY <1>3, <2>0 DEF EditRemove, RemoveEntity, BeginUpdate
    <2>2. \A f \in live' : f \in live /\ owner'[f] = owner[f] /\ at'[f] = at[f] /\ grid'[f] = grid[f]
      BY <2>1 DEF IInv, TypeOK
    <2>3. \A f \in live' : Stands(f)'
      BY <2>1, <2>2, StandsAtSelect DEF Stands
    <2> QED
      BY <2>1, <2>2, <2>3, StandsAtSelect, WalkBegins
  <1>4. ASSUME NEW c \in Grid, EditAdd(c) PROVE FrameInv'
    <2>1. PICK e \in Ids \ (live \cup {PlayerId, AiId}), name \in Prefabs, p \in Grid : AddEntity(e, name, p)
      BY <1>4 DEF EditAdd
    <2>2. /\ BeginUpdate /\ phase = "select" /\ live' = live \cup {e} /\ owner' = [owner EXCEPT ![e] = p]
          /\ at' = [at EXCEPT ![e] = p] /\ grid' = [grid EXCEPT ![e] = p] /\ teleported' = teleported
      BY <1>4, <2>1 DEF EditAdd, AddEntity, BeginUpdate
    <2>3. \A f \in live : f # e /\ owner'[f] = owner[f] /\ at'[f] = at[f] /\ grid'[f] = grid[f]
      BY <2>1, <2>2 DEF IInv, TypeOK
    <2>4. owner'[e] = p /\ grid'[e] = p /\ e # AiId
      BY <2>1, <2>2 DEF IInv, TypeOK
    <2>5. \A f \in live' : Stands(f)'
      BY <2>2, <2>3, <2>4, StandsAtSelect DEF Stands
    <2> QED
      BY <2>2, <2>3, <2>4, <2>5, StandsAtSelect, WalkBegins
  <1>5. ASSUME NEW c \in Grid, PlayInteract(c) PROVE FrameInv'
    <2>0. PICK e : e = Head(cells[c])
      OBVIOUS
    <2>1. /\ BeginUpdate /\ phase = "select" /\ UNCHANGED <<live, owner, grid, teleported>> /\ CanInteract(c)
          /\ at' = [at EXCEPT ![e] = Moved(at[e], InteractablesOf(e))]
      BY <1>5, <2>0 DEF PlayInteract, BeginUpdate, entities, placement
    <2>2. e # AiId
      BY <2>0, <2>1 DEF CanInteract, InteractablesOf
    <2>3. at'[AiId] = at[AiId]
      BY <2>1, <2>2, WorldAssumption DEF IInv, TypeOK
    <2>4. \A f \in live' : Stands(f)'
      BY <2>1, StandsAtSelect DEF Stands
    <2> QED
      BY <2>1, <2>3, <2>4, StandsAtSelect, WalkBegins
  <1>6. ASSUME NEW c \in Grid, PlayDestroy(c) PROVE FrameInv'
    BY <1>6, CrashedFrame DEF PlayDestroy
  <1>7. CASE UpdateEntity
    BY <1>7, UpdateFrame
  <1>8. CASE TransferPending
    BY <1>8, TransferFrame
  <1>9. ASSUME NEW c \in Grid, Teleport(c) PROVE FrameInv'
    <2>1. phase = "console"
      BY <1>9 DEF Teleport
    <2>2. CASE ~player
      BY <1>9, <2>1, <2>2, CrashedFrame DEF Teleport
    <2>3. CASE player
      <3>1. /\ at' = [at EXCEPT ![PlayerId] = c] /\ owner' = [owner EXCEPT ![PlayerId] = c] /\ phase' = "input"
            /\ teleported' = TRUE /\ UNCHANGED <<live, grid, slot, updated>>
        BY <1>9, <2>3 DEF Teleport, Transfer, entities, loop
      <3>2. \A f \in live \ {PlayerId} : owner'[f] = owner[f] /\ at'[f] = at[f]
        BY <3>1 DEF IInv, TypeOK
      <3>3. AiId # PlayerId
        BY WorldAssumption
      <3>4. \A f \in live : Stands(f)'
        <4>1. \A f \in live : Stands(f)
          BY <2>1, StandsAtSelect
        <4>2. ASSUME NEW f \in live PROVE Stands(f)'
          <5>1. CASE f = PlayerId
            BY <3>1, <5>1 DEF Stands
          <5>2. CASE f # PlayerId
            BY <3>1, <3>2, <4>1, <5>2 DEF Stands
          <5> QED
            BY <5>1, <5>2
        <4> QED
          BY <4>2
      <3>5. Walked' /\ Standing' /\ AIStands'
        BY <2>1, <3>1, <3>2, <3>3, <3>4, StandsAtSelect DEF Walked, Standing, Waits, AIStands
      <3> QED
        BY <3>5 DEF FrameInv
    <2> QED
      BY <2>2, <2>3
  <1>10. CASE UNCHANGED vars
    BY <1>10 DEF vars, entities, placement, loop, FrameInv, Walked, Slots, EntityAt, Standing, Stands, Waits, AIStands
  <1> QED
    BY <1>1, <1>2, <1>3, <1>4, <1>5, <1>6, <1>7, <1>8, <1>9, <1>10 DEF Next

-----------------------------------------------------------------------------
(* Theorems *)

\* The variables have their types in every world and after any frames: a
\* pointer in a cell's list is to an entity, an owner is a cell of the grid or
\* null (Cell.h, Entity.h).
THEOREM TypeCorrect == Spec => []TypeOK
  <1>1. IInv => TypeOK
    BY DEF IInv
  <1> QED
    BY <1>1, InitIInv, NextIInv, PTL DEF Spec

\* Lists, owners and the entities of the world agree after any clicks,
\* updates, transfers and teleports (Cell::AddEntityPtr, RemoveEntityPtr,
\* Entity::TransferToCellImmediately, World::RemoveEntity).
THEOREM EntitiesAgree == Spec => []EntityInItsCell
  <1>1. IInv => EntityInItsCell
    BY DEF IInv
  <1> QED
    BY <1>1, InitIInv, NextIInv, PTL DEF Spec

\* Pending transfers and the current player point to entities of the world
\* whenever they are used (World::TransferPendingEntities, Game::GetCurPlayer).
THEOREM PointersStayLive == Spec => []PointersLive
  <1>1. IInv => PointersLive
    BY DEF IInv
  <1> QED
    BY <1>1, InitIInv, NextIInv, PTL DEF Spec

\* The invariant of the walk holds in every behaviour.
LEMMA FrameInvariance == Spec => [](IInv /\ FrameInv)
  BY InitIInv, NextIInv, InitFrame, NextFrame, PTL DEF Spec

\* Between two frames an entity is in the list of the cell of its grid
\* position, the player too unless a 'tel' has moved its pointer since its last
\* transfer: the transfers that Entity::Update queued have all been made by
\* World::TransferPendingEntities, to the cell the entity was last seen in,
\* however far it walked.
THEOREM EntitiesStand == Spec => []StandsInItsCell
  <1>1. IInv /\ FrameInv => StandsInItsCell
    BY StandsAtSelect DEF StandsInItsCell, Stands
  <1> QED
    BY <1>1, FrameInvariance, PTL

\* The AI of AI.cpp never leaves the world, although nothing stops its walk
\* at the border: where it would cross it, it is no longer updated.
THEOREM AIStays == Spec => []AIStaysInWorld
  <1>1. IInv /\ FrameInv => AIStaysInWorld
    BY DEF FrameInv, AIStands, AIStaysInWorld
  <1> QED
    BY <1>1, FrameInvariance, PTL

\* No entity is updated twice in a frame, what the comment at Entity.cpp:76
\* gives as the reason for queueing transfers: the lists that World::Update
\* walks over do not change under it.
THEOREM UpdatedOnce == Spec => UpdatedOncePerFrame
  <1> DEFINE A == slot' # slot /\ phase' = "update" => EntityAt(slot') \notin updated
  <1>1. IInv /\ FrameInv /\ [Next]_vars => [A]_vars
    <2> SUFFICES ASSUME IInv, FrameInv, [Next]_vars, slot' # slot, phase' = "update"
                 PROVE  EntityAt(slot') \notin updated
      OBVIOUS
    <2>1. CASE UpdateEntity
      <3>1. slot' \in Remaining /\ phase = "update"
        BY <2>1 DEF UpdateEntity
      <3> QED
        BY <3>1, NotYetUpdated DEF FrameInv
    <2>2. CASE ~UpdateEntity
      <3>1. slot' = slot \/ phase' # "update"
        BY <2>2 DEF Next, BeginFrame, NoClick, EditRemove, EditAdd, PlayInteract, PlayDestroy, BeginUpdate,
                    EndUpdate, TransferPending, EndTransfer, NoCommand, Teleport, Crash, loop, vars
      <3> QED
        BY <3>1
    <2> QED
      BY <2>1, <2>2
  <1> QED
    BY <1>1, FrameInvariance, PTL DEF Spec, UpdatedOncePerFrame
=============================================================================
