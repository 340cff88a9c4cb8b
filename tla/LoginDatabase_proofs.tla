------------------------ MODULE LoginDatabase_proofs ------------------------
(***************************************************************************)
(* Proofs about LoginDatabase for every set of users, every number of      *)
(* sessions and every bound: with a worker that completes its requests, an *)
(* account never has two active sessions, and its last login wins.         *)
(***************************************************************************)
EXTENDS LoginDatabase, SequenceTheorems, TLAPS

\* Appending to a sequence of requests: length, members and what stays.
LEMMA AppendRequest ==
  ASSUME NEW q \in Seq(Requests), NEW r \in Requests
  PROVE  /\ Append(q, r) \in Seq(Requests)
         /\ Len(Append(q, r)) = Len(q) + 1
         /\ Append(q, r)[Len(q) + 1] = r
         /\ \A i \in 1..Len(q) : Append(q, r)[i] = q[i]
         /\ Append(q, r) # <<>>
  OBVIOUS

\* Removing the oldest request shifts the others by one.
LEMMA TailRequest ==
  ASSUME NEW q \in Seq(Requests), q # <<>>
  PROVE  /\ Tail(q) \in Seq(Requests)
         /\ Head(q) \in Requests /\ Head(q) = q[1]
         /\ Len(q) \in Nat \ {0}
         /\ Len(Tail(q)) = Len(q) - 1
         /\ \A i \in 1..Len(Tail(q)) : Tail(q)[i] = q[i + 1]
  BY HeadTailProperties, EmptySeq

\* The four kinds of request are told apart by op.
LEMMA RequestKinds ==
  ASSUME NEW r \in Requests
  PROVE  /\ r.op = "insert" <=> r \in Inserts
         /\ r.op = "delete" <=> r \in Deletes
         /\ r.op = "select" <=> r \in Selects
  BY DEF Requests, Selects, Logs, Deletes, Inserts

\* The constructors make requests of their kind.
LEMMA Constructors ==
  /\ \A s \in Sessions, u \in Users : Select(s, u) \in Selects
  /\ \A u \in Users : Log(u) \in Logs
  /\ \A a \in Registered : Delete(a) \in Deletes
  /\ \A a \in Registered, k \in Nat : Insert(a, k) \in Inserts
  BY DEF Select, Log, Delete, Insert, Selects, Logs, Deletes, Inserts

\* An insert that is being prepared is a record, and about an account.
LEMMA InsertShape ==
  ASSUME NEW r \in Inserts
  PROVE  r.op = "insert" /\ r.account \in Registered /\ r.key \in Nat /\ r \in Requests
  BY DEF Inserts, Requests

-----------------------------------------------------------------------------

\* The strengthened invariant holds at the start.
LEMMA DbInitial == DbInit => DbIInv
  <1> SUFFICES ASSUME DbInit PROVE DbIInv
    OBVIOUS
  <1>1. DbTypeOK
    BY EmptySeq DEF DbInit, DbTypeOK, Nothing
  <1>2. OneSessionPerAccount /\ DeleteBeforeInsert /\ DeleteBeforeInserting
    BY DEF DbInit, OneSessionPerAccount, DeleteBeforeInsert, DeleteBeforeInserting, Nothing
  <1> QED
    BY <1>1, <1>2 DEF DbIInv

\* Appending a request that is not an insert while no insert is being
\* prepared keeps the invariant.
LEMMA EnqueueOther ==
  ASSUME DbIInv, NEW r \in Requests, r.op # "insert", inserting = Nothing,
         dbQueue' = Append(dbQueue, r),
         UNCHANGED <<responses, rows, lastKey>>,
         inserting' \in Inserts \cup {Nothing}, issued' \in Nat,
         inserting' # Nothing => r = Delete(inserting'.account)
  PROVE  DbIInv'
  <1> USE DEF DbIInv
  <1>1. dbQueue \in Seq(Requests)
    BY DEF DbTypeOK
  <1>2. DbTypeOK'
    BY <1>1, AppendRequest DEF DbTypeOK
  <1>3. OneSessionPerAccount'
    BY DEF OneSessionPerAccount
  <1>4. DeleteBeforeInsert'
    <2> SUFFICES ASSUME NEW i \in 1..Len(dbQueue'), dbQueue'[i].op = "insert"
                 PROVE  IF i = 1 THEN \A row \in rows' : row.account # dbQueue'[i].account
                        ELSE dbQueue'[i - 1] = Delete(dbQueue'[i].account)
      BY DEF DeleteBeforeInsert, Delete, Absent
    <2>1. i \in 1..Len(dbQueue) /\ dbQueue'[i] = dbQueue[i]
      BY <1>1, AppendRequest, LenProperties
    <2>2. CASE i = 1
      BY <2>1, <2>2 DEF DeleteBeforeInsert, Absent
    <2>3. CASE i # 1
      <3>1. i - 1 \in 1..Len(dbQueue)
        BY <2>1, <2>3
      <3>2. dbQueue'[i - 1] = dbQueue[i - 1]
        BY <1>1, <3>1, AppendRequest
      <3> QED
        BY <2>1, <2>3, <3>2 DEF DeleteBeforeInsert
    <2> QED
      BY <2>2, <2>3
  <1>5. DeleteBeforeInserting'
    BY <1>1, AppendRequest DEF DeleteBeforeInserting, Nothing, Delete
  <1> QED
    BY <1>2, <1>3, <1>4, <1>5

\* The insert takes its place behind the delete, executed or not.
LEMMA EnqueueInsertStep == DbIInv /\ EnqueueInsert => DbIInv'
  <1> SUFFICES ASSUME DbIInv, EnqueueInsert PROVE DbIInv'
    OBVIOUS
  <1> USE DEF DbIInv, EnqueueInsert
  <1>1. dbQueue \in Seq(Requests) /\ inserting \in Inserts /\ inserting' = Nothing
    BY DEF DbTypeOK
  <1>2. inserting \in Requests /\ inserting.account \in Registered /\ inserting.key \in Nat
    BY <1>1, InsertShape
  <1>3. DbTypeOK'
    <2>1. dbQueue' \in Seq(Requests)
      BY <1>1, <1>2, AppendRequest
    <2>2. lastKey' \in [Registered -> Nat]
      BY <1>2 DEF DbTypeOK
    <2> QED
      BY <1>1, <2>1, <2>2 DEF DbTypeOK
  <1>4. OneSessionPerAccount'
    BY DEF OneSessionPerAccount
  <1>5. DeleteBeforeInsert'
    <2> SUFFICES ASSUME NEW i \in 1..Len(dbQueue'), dbQueue'[i].op = "insert"
                 PROVE  IF i = 1 THEN \A row \in rows' : row.account # dbQueue'[i].account
                        ELSE dbQueue'[i - 1] = Delete(dbQueue'[i].account)
      BY DEF DeleteBeforeInsert, Delete, Absent
    <2>1. Len(dbQueue) \in Nat /\ Len(dbQueue') = Len(dbQueue) + 1
      BY <1>1, <1>2, AppendRequest, LenProperties
    <2>2. ASSUME i <= Len(dbQueue)
          PROVE  IF i = 1 THEN \A row \in rows' : row.account # dbQueue'[i].account
                 ELSE dbQueue'[i - 1] = Delete(dbQueue'[i].account)
      <3>1. i \in 1..Len(dbQueue) /\ dbQueue'[i] = dbQueue[i]
        BY <1>1, <1>2, <2>1, <2>2, AppendRequest
      <3>2. i # 1 => dbQueue'[i - 1] = dbQueue[i - 1]
        <4> SUFFICES ASSUME i # 1 PROVE dbQueue'[i - 1] = dbQueue[i - 1]
          OBVIOUS
        <4>1. i - 1 \in 1..Len(dbQueue)
          BY <2>1, <3>1
        <4> QED
          BY <1>1, <1>2, <4>1, AppendRequest
      <3> QED
        BY <3>1, <3>2 DEF DeleteBeforeInsert, Absent
    <2>3. ASSUME i = Len(dbQueue) + 1
          PROVE  IF i = 1 THEN \A row \in rows' : row.account # dbQueue'[i].account
                 ELSE dbQueue'[i - 1] = Delete(dbQueue'[i].account)
      <3>1. dbQueue'[i] = inserting
        BY <1>1, <1>2, <2>3, AppendRequest
      <3>2. CASE i = 1
        <4>1. dbQueue = <<>>
          BY <1>1, <2>1, <2>3, <3>2, EmptySeq
        <4> QED
          BY <3>1, <3>2, <4>1 DEF DeleteBeforeInserting, Absent
      <3>3. CASE i # 1
        <4>1. dbQueue # <<>> /\ i - 1 = Len(dbQueue) /\ i - 1 \in 1..Len(dbQueue)
          BY <1>1, <2>1, <2>3, <3>3, EmptySeq
        <4>2. dbQueue'[i - 1] = dbQueue[Len(dbQueue)]
          BY <1>1, <1>2, <4>1, AppendRequest
        <4> QED
          BY <3>1, <3>3, <4>1, <4>2 DEF DeleteBeforeInserting
      <3> QED
        BY <3>2, <3>3
    <2> QED
      BY <2>1, <2>2, <2>3
  <1>6. DeleteBeforeInserting'
    BY <1>1 DEF DeleteBeforeInserting
  <1> QED
    BY <1>3, <1>4, <1>5, <1>6

\* Executing a request keeps rows of the right type.
LEMMA EffectType ==
  ASSUME NEW t \in SUBSET Rows, NEW r \in Requests
  PROVE  Effect(t, r) \subseteq Rows
  <1>1. CASE r.op = "delete"
    BY <1>1 DEF Effect
  <1>2. CASE r.op = "insert"
    <2>1. r.account \in Registered /\ r.key \in Nat
      BY <1>2, RequestKinds, InsertShape
    <2> QED
      BY <1>2, <2>1 DEF Effect, Rows
  <1>3. CASE r.op # "delete" /\ r.op # "insert"
    BY <1>3 DEF Effect
  <1> QED
    BY <1>1, <1>2, <1>3

\* What executing the oldest request does to the accounts in the table.
LEMMA EffectAbsent ==
  ASSUME NEW t \in SUBSET Rows, NEW r \in Requests
  PROVE  /\ \A a : r = Delete(a) => \A row \in Effect(t, r) : row.account # a
         /\ r.op # "insert" => Effect(t, r) \subseteq t
         /\ r.op = "insert" =>
              \A row \in Effect(t, r) :
                 row \in t \/ row = [account |-> r.account, key |-> r.key]
  BY DEF Effect, Delete

\* The worker completes its oldest request.
LEMMA FinishStep == DbIInv /\ Finish("done") => DbIInv'
  <1> SUFFICES ASSUME DbIInv, Finish("done") PROVE DbIInv'
    OBVIOUS
  <1> USE DEF DbIInv
  <1> DEFINE r == Head(dbQueue)
  <1>1. /\ dbQueue \in Seq(Requests) /\ dbQueue # <<>> /\ rows \in SUBSET Rows
        /\ dbQueue' = Tail(dbQueue) /\ rows' = Effect(rows, r)
        /\ responses' = IF r.op = "select" THEN Append(responses, r) ELSE responses
        /\ UNCHANGED <<inserting, lastKey, issued>>
    BY DEF Finish, DbTypeOK
  <1>2. /\ r \in Requests /\ r = dbQueue[1]
        /\ Len(dbQueue) \in Nat \ {0}
        /\ dbQueue' \in Seq(Requests)
        /\ Len(dbQueue') = Len(dbQueue) - 1
        /\ \A i \in 1..Len(dbQueue') : dbQueue'[i] = dbQueue[i + 1]
    BY <1>1, TailRequest
  <1> HIDE DEF r
  <1>3. DbTypeOK'
    <2>1. rows' \subseteq Rows
      BY <1>1, <1>2, EffectType
    <2>2. responses' \in Seq(Selects)
      BY <1>1, <1>2, RequestKinds, AppendProperties DEF DbTypeOK
    <2> QED
      BY <1>1, <1>2, <2>1, <2>2 DEF DbTypeOK
  <1>4. OneSessionPerAccount'
    <2>1. CASE r.op = "insert"
      <3>1. Absent(r.account)
        BY <1>2, <2>1 DEF DeleteBeforeInsert
      <3>2. \A row \in rows' : row \in rows \/ row = [account |-> r.account, key |-> r.key]
        BY <1>1, <1>2, <2>1, EffectAbsent
      <3> QED
        BY <3>1, <3>2 DEF OneSessionPerAccount, Absent
    <2>2. CASE r.op # "insert"
      BY <1>1, <1>2, <2>2, EffectAbsent DEF OneSessionPerAccount
    <2> QED
      BY <2>1, <2>2
  <1>5. ASSUME NEW a, r = Delete(a)
        PROVE  \A row \in rows' : row.account # a
    BY <1>1, <1>2, <1>5, EffectAbsent DEF Absent
  <1>6. DeleteBeforeInsert'
    <2> SUFFICES ASSUME NEW i \in 1..Len(dbQueue'), dbQueue'[i].op = "insert"
                 PROVE  IF i = 1 THEN \A row \in rows' : row.account # dbQueue'[i].account
                        ELSE dbQueue'[i - 1] = Delete(dbQueue'[i].account)
      BY DEF DeleteBeforeInsert, Delete, Absent
    <2>1. /\ i + 1 \in 1..Len(dbQueue) /\ i + 1 # 1 /\ (i + 1) - 1 = i
          /\ dbQueue'[i] = dbQueue[i + 1]
      BY <1>2
    <2>2. dbQueue[i] = Delete(dbQueue[i + 1].account)
      BY <2>1 DEF DeleteBeforeInsert
    <2>3. CASE i = 1
      BY <1>2, <1>5, <2>1, <2>2, <2>3 DEF Absent
    <2>4. CASE i # 1
      <3>1. i - 1 \in 1..Len(dbQueue') /\ (i - 1) + 1 = i
        BY <1>2, <2>4
      <3>2. dbQueue'[i - 1] = dbQueue[i]
        BY <1>2, <3>1
      <3> QED
        BY <2>1, <2>2, <2>4, <3>2
    <2> QED
      BY <2>3, <2>4
  <1>7. DeleteBeforeInserting'
    <2> SUFFICES ASSUME inserting # Nothing
                 PROVE  IF dbQueue' = <<>> THEN Absent(inserting.account)'
                        ELSE dbQueue'[Len(dbQueue')] = Delete(inserting.account)
      BY <1>1 DEF DeleteBeforeInserting, Delete, Absent
    <2>1. dbQueue[Len(dbQueue)] = Delete(inserting.account)
      BY <1>1 DEF DeleteBeforeInserting
    <2>2. CASE dbQueue' = <<>>
      <3>1. Len(dbQueue) = 1
        BY <1>2, <2>2
      <3> QED
        BY <1>1, <1>2, <1>5, <2>1, <2>2, <3>1 DEF Absent
    <2>3. CASE dbQueue' # <<>>
      <3>1. Len(dbQueue') \in 1..Len(dbQueue') /\ Len(dbQueue') + 1 = Len(dbQueue)
        BY <1>2, <2>3, EmptySeq, LenProperties
      <3>2. dbQueue'[Len(dbQueue')] = dbQueue[Len(dbQueue)]
        BY <1>2, <3>1
      <3> QED
        BY <2>1, <2>3, <3>2
    <2> QED
      BY <2>2, <2>3
  <1> QED
    BY <1>3, <1>4, <1>6, <1>7

\* Every step, of a worker that may also drop requests, keeps the types.
LEMMA DbTypeStep == DbTypeOK /\ [DbNext]_dbVars => DbTypeOK'
  <1> SUFFICES ASSUME DbTypeOK, [DbNext]_dbVars PROVE DbTypeOK'
    OBVIOUS
  <1>0. dbQueue \in Seq(Requests) /\ responses \in Seq(Selects) /\ rows \in SUBSET Rows
    BY DEF DbTypeOK
  <1>1. ASSUME NEW s \in Sessions, NEW u \in Users, EnqueueSelect(s, u)
        PROVE  DbTypeOK'
    <2>1. Select(s, u) \in Requests
      BY Constructors DEF Requests
    <2> QED
      BY <1>0, <1>1, <2>1, AppendRequest DEF EnqueueSelect, DbTypeOK
  <1>2. ASSUME NEW u \in Users, EnqueueLog(u)
        PROVE  DbTypeOK'
    <2>1. Log(u) \in Requests
      BY Constructors DEF Requests
    <2> QED
      BY <1>0, <1>2, <2>1, AppendRequest DEF EnqueueLog, DbTypeOK
  <1>3. ASSUME NEW a \in Registered, EnqueueDelete(a)
        PROVE  DbTypeOK'
    <2>1. Delete(a) \in Requests
      BY Constructors DEF Requests
    <2>2. issued' \in Nat /\ inserting' = Insert(a, issued')
      BY <1>3 DEF EnqueueDelete, DbTypeOK
    <2>3. inserting' \in Inserts
      BY <2>2, Constructors
    <2> QED
      BY <1>0, <1>3, <2>1, <2>2, <2>3, AppendRequest DEF EnqueueDelete, DbTypeOK
  <1>4. CASE EnqueueInsert
    <2>1. inserting \in Inserts
      BY <1>4 DEF EnqueueInsert, DbTypeOK
    <2>2. inserting \in Requests /\ inserting.account \in Registered /\ inserting.key \in Nat
      BY <2>1, InsertShape
    <2>3. lastKey' \in [Registered -> Nat]
      BY <1>4, <2>2 DEF EnqueueInsert, DbTypeOK
    <2> QED
      BY <1>0, <1>4, <2>2, <2>3, AppendRequest DEF EnqueueInsert, DbTypeOK
  <1>5. ASSUME NEW outcome \in Outcomes, Finish(outcome)
        PROVE  DbTypeOK'
    <2> DEFINE r == Head(dbQueue)
    <2>1. dbQueue' \in Seq(Requests) /\ r \in Requests
      BY <1>0, <1>5, TailRequest DEF Finish
    <2>2. /\ rows' = IF outcome = "done" THEN Effect(rows, r) ELSE rows
          /\ responses' = IF outcome = "done" /\ r.op = "select" THEN Append(responses, r) ELSE responses
          /\ UNCHANGED <<inserting, lastKey, issued>>
      BY <1>5 DEF Finish
    <2> HIDE DEF r
    <2>3. rows' \subseteq Rows
      BY <1>0, <2>1, <2>2, EffectType
    <2>4. responses' \in Seq(Selects)
      BY <1>0, <2>1, <2>2, RequestKinds, AppendProperties
    <2> QED
      BY <2>1, <2>2, <2>3, <2>4 DEF DbTypeOK
  <1>6. CASE Collect
    BY <1>6, EmptySeq DEF Collect, DbTypeOK
  <1>7. CASE UNCHANGED dbVars
    BY <1>7 DEF dbVars, DbTypeOK
  <1> QED
    BY <1>1, <1>2, <1>3, <1>4, <1>5, <1>6, <1>7 DEF DbNext

\* Every step of a database whose requests all complete keeps the invariant.
LEMMA DbStep == Outcomes = {"done"} /\ DbIInv /\ [DbNext]_dbVars => DbIInv'
  <1> SUFFICES ASSUME Outcomes = {"done"}, DbIInv, [DbNext]_dbVars PROVE DbIInv'
    OBVIOUS
  <1>0. DbTypeOK
    BY DEF DbIInv
  <1>1. ASSUME NEW s \in Sessions, NEW u \in Users, EnqueueSelect(s, u)
        PROVE  DbIInv'
    <2>1. Select(s, u) \in Requests /\ Select(s, u).op # "insert"
      BY Constructors DEF Requests, Select
    <2>2. /\ inserting = Nothing /\ dbQueue' = Append(dbQueue, Select(s, u))
          /\ UNCHANGED <<responses, rows, lastKey>> /\ inserting' = Nothing /\ issued' \in Nat
      BY <1>0, <1>1 DEF EnqueueSelect, DbTypeOK
    <2> QED
      BY <2>1, <2>2, EnqueueOther
  <1>2. ASSUME NEW u \in Users, EnqueueLog(u)
        PROVE  DbIInv'
    <2>1. Log(u) \in Requests /\ Log(u).op # "insert"
      BY Constructors DEF Requests, Log
    <2>2. /\ inserting = Nothing /\ dbQueue' = Append(dbQueue, Log(u))
          /\ UNCHANGED <<responses, rows, lastKey>> /\ inserting' = Nothing /\ issued' \in Nat
      BY <1>0, <1>2 DEF EnqueueLog, DbTypeOK
    <2> QED
      BY <2>1, <2>2, EnqueueOther
  <1>3. ASSUME NEW a \in Registered, EnqueueDelete(a)
        PROVE  DbIInv'
    <2>1. Delete(a) \in Requests /\ Delete(a).op # "insert"
      BY Constructors DEF Requests, Delete
    <2>2. /\ inserting = Nothing /\ dbQueue' = Append(dbQueue, Delete(a))
          /\ UNCHANGED <<responses, rows, lastKey>>
          /\ issued' \in Nat /\ inserting' = Insert(a, issued')
      BY <1>0, <1>3 DEF EnqueueDelete, DbTypeOK
    <2>3. inserting' \in Inserts /\ inserting'.account = a
      BY <2>2, Constructors DEF Insert
    <2> QED
      BY <2>1, <2>2, <2>3, EnqueueOther
  <1>4. CASE EnqueueInsert
    BY <1>4, EnqueueInsertStep
  <1>5. ASSUME NEW outcome \in Outcomes, Finish(outcome)
        PROVE  DbIInv'
    BY <1>5, FinishStep
  <1>6. CASE Collect
    <2>1. DbTypeOK'
      BY <1>0, <1>6, EmptySeq DEF Collect, DbTypeOK
    <2> QED
      BY <1>6, <2>1 DEF Collect, DbIInv, OneSessionPerAccount, DeleteBeforeInsert,
                        DeleteBeforeInserting, Absent
  <1>7. CASE UNCHANGED dbVars
    BY <1>7 DEF dbVars, DbIInv, DbTypeOK, OneSessionPerAccount, DeleteBeforeInsert,
                DeleteBeforeInserting, Absent
  <1> QED
    BY <1>1, <1>2, <1>3, <1>4, <1>5, <1>6, <1>7 DEF DbNext

-----------------------------------------------------------------------------
(* What the table ends with *)

\* The row of account a and key k is in the table once the queue is executed.
Row(a, k) == [account |-> a, key |-> k]
Ends(a, k) ==
  \/ Row(a, k) \in rows /\ Survives(a, 0)
  \/ \E i \in 1..Len(dbQueue) : dbQueue[i] = Insert(a, k) /\ Survives(a, i)

\* Each account ends with the key of its last login, unless its next key is
\* about to be enqueued: its delete is queued by then, and nothing behind it.
LoginsAhead ==
  /\ inserting # Nothing => inserting.key # 0
  /\ \A a \in Registered, k \in Nat :
        Ends(a, k) <=> k = lastKey[a] /\ k # 0 /\ (inserting # Nothing => a # inserting.account)

\* The constructors of requests are told apart.
LEMMA Distinct ==
  /\ \A a, b : Delete(a) = Delete(b) <=> a = b
  /\ \A a, b, k, n : Insert(a, k) = Insert(b, n) <=> a = b /\ k = n
  /\ \A a, b, k : Delete(a) # Insert(b, k)
  /\ \A s, u, a, k : Select(s, u) # Delete(a) /\ Select(s, u) # Insert(a, k)
  /\ \A u, a, k : Log(u) # Delete(a) /\ Log(u) # Insert(a, k)
  /\ \A a, k : Insert(a, k).account = a /\ Insert(a, k).key = k
  <1>1. /\ \A a : Delete(a).op = "delete" /\ Delete(a).account = a
        /\ \A a, k : Insert(a, k).op = "insert" /\ Insert(a, k).account = a /\ Insert(a, k).key = k
        /\ \A s, u : Select(s, u).op = "select"
        /\ \A u : Log(u).op = "log"
    BY DEF Delete, Insert, Select, Log
  <1> QED
    BY <1>1

LEMMA InsertIsSomething == \A a, k : Insert(a, k) # Nothing
  <1>1. \A a, k : "op" \in DOMAIN Insert(a, k)
    BY DEF Insert
  <1>2. DOMAIN Nothing = {}
    BY DEF Nothing
  <1> QED
    BY <1>1, <1>2

\* A request that is enqueued takes the row away or adds it.
LEMMA AppendEnds ==
  ASSUME DbTypeOK, NEW r \in Requests, dbQueue' = Append(dbQueue, r), rows' = rows, NEW a, NEW k
  PROVE  Ends(a, k)' <=> (Ends(a, k) /\ r # Delete(a)) \/ r = Insert(a, k)
  <1>1. PICK n \in Nat : n = Len(dbQueue)
    BY LenProperties DEF DbTypeOK
  <1>2. /\ Len(dbQueue') = n + 1 /\ dbQueue'[n + 1] = r
        /\ \A i \in 1..n : dbQueue'[i] = dbQueue[i]
    BY <1>1, AppendRequest DEF DbTypeOK
  <1>3. ASSUME NEW i \in 0..n PROVE Survives(a, i)' <=> Survives(a, i) /\ r # Delete(a)
    <2>1. \A j \in 1..(n + 1) : j \in 1..n \/ j = n + 1
      OBVIOUS
    <2>2. n + 1 \in 1..(n + 1) /\ n + 1 > i /\ \A j \in 1..n : j \in 1..(n + 1)
      OBVIOUS
    <2>3. Survives(a, i)' => Survives(a, i) /\ r # Delete(a)
      BY <1>1, <1>2, <2>2 DEF Survives, Delete
    <2>4. Survives(a, i) /\ r # Delete(a) => Survives(a, i)'
      BY <1>1, <1>2, <2>1 DEF Survives, Delete
    <2> QED
      BY <2>3, <2>4
  <1>4. PICK m : m = n + 1
    OBVIOUS
  <1>5. Survives(a, m)'
    BY <1>2, <1>4 DEF Survives
  <1>6. Insert(a, k)' = Insert(a, k) /\ Row(a, k)' = Row(a, k) /\ Insert(a, k) # Delete(a)
    BY Distinct DEF Insert, Row
  <1>7. ASSUME Ends(a, k)' PROVE (Ends(a, k) /\ r # Delete(a)) \/ r = Insert(a, k)
    <2>1. CASE Row(a, k) \in rows' /\ Survives(a, 0)'
      BY <1>3, <1>6, <2>1 DEF Ends
    <2>2. ASSUME NEW i \in 1..(n + 1), dbQueue'[i] = Insert(a, k), Survives(a, i)'
          PROVE  (Ends(a, k) /\ r # Delete(a)) \/ r = Insert(a, k)
      <3>1. CASE i = n + 1
        BY <1>2, <2>2, <3>1
      <3>2. CASE i # n + 1
        <4>1. i \in 1..n /\ i \in 0..n
          BY <3>2
        <4> QED
          BY <1>1, <1>2, <1>3, <2>2, <4>1 DEF Ends
      <3> QED
        BY <3>1, <3>2
    <2> QED
      BY <1>2, <1>6, <1>7, <2>1, <2>2 DEF Ends
  <1>8. ASSUME Ends(a, k), r # Delete(a) PROVE Ends(a, k)'
    <2>1. CASE Row(a, k) \in rows /\ Survives(a, 0)
      BY <1>3, <1>6, <1>8, <2>1 DEF Ends
    <2>2. ASSUME NEW i \in 1..n, dbQueue[i] = Insert(a, k), Survives(a, i)
          PROVE  Ends(a, k)'
      <3>1. i \in 0..n /\ i \in 1..(n + 1)
        OBVIOUS
      <3> QED
        BY <1>2, <1>3, <1>6, <1>8, <2>2, <3>1 DEF Ends
    <2> QED
      BY <1>1, <1>8, <2>1, <2>2 DEF Ends
  <1>9. ASSUME r = Insert(a, k) PROVE Ends(a, k)'
    <2>1. m \in 1..(n + 1) /\ dbQueue'[m] = Insert(a, k)'
      BY <1>2, <1>4, <1>6, <1>9
    <2> QED
      BY <1>2, <1>5, <2>1 DEF Ends
  <1> QED
    BY <1>7, <1>8, <1>9

\* Executing a request takes a row away or adds it.
LEMMA EffectRow ==
  ASSUME NEW t \in SUBSET Rows, NEW r \in Requests, NEW a \in Registered, NEW k \in Nat
  PROVE  Row(a, k) \in Effect(t, r) <=> (Row(a, k) \in t /\ r # Delete(a)) \/ r = Insert(a, k)
  <1>1. Row(a, k).account = a /\ Row(a, k).key = k
    BY DEF Row
  <1>2. CASE r.op = "delete"
    <2>1. r = Delete(r.account)
      BY <1>2, RequestKinds DEF Deletes, Delete
    <2>2. r # Insert(a, k) /\ (r = Delete(a) <=> r.account = a)
      BY <2>1, Distinct
    <2> QED
      BY <1>1, <1>2, <2>2 DEF Effect
  <1>3. CASE r.op = "insert"
    <2>1. r = Insert(r.account, r.key)
      BY <1>3, RequestKinds DEF Inserts, Insert
    <2>2. r # Delete(a) /\ (r = Insert(a, k) <=> r.account = a /\ r.key = k)
      BY <2>1, Distinct
    <2>3. Row(a, k) = [account |-> r.account, key |-> r.key] <=> r.account = a /\ r.key = k
      BY DEF Row
    <2> QED
      BY <1>3, <2>2, <2>3 DEF Effect
  <1>4. CASE r.op # "delete" /\ r.op # "insert"
    <2>1. r # Delete(a) /\ r # Insert(a, k)
      BY <1>4 DEF Delete, Insert
    <2> QED
      BY <1>4, <2>1 DEF Effect
  <1> QED
    BY <1>2, <1>3, <1>4

\* Completing a request changes nothing in what the table ends with.
LEMMA FinishEnds ==
  ASSUME DbTypeOK, Finish("done"), NEW a \in Registered, NEW k \in Nat
  PROVE  Ends(a, k)' <=> Ends(a, k)
  <1>1. PICK n \in Nat \ {0} : n = Len(dbQueue)
    BY TailRequest DEF DbTypeOK, Finish
  <1>2. PICK r \in Requests : r = dbQueue[1] /\ r = Head(dbQueue)
    BY TailRequest DEF DbTypeOK, Finish
  <1>3. Len(dbQueue') = n - 1 /\ \A i \in 1..(n - 1) : dbQueue'[i] = dbQueue[i + 1]
    BY <1>1, TailRequest DEF DbTypeOK, Finish
  <1>4. rows' = Effect(rows, r) /\ rows \in SUBSET Rows
    BY <1>2 DEF DbTypeOK, Finish
  <1>5. Row(a, k) \in rows' <=> (Row(a, k) \in rows /\ r # Delete(a)) \/ r = Insert(a, k)
    BY <1>4, EffectRow
  <1>6. ASSUME NEW i \in 0..(n - 1) PROVE Survives(a, i)' <=> Survives(a, i + 1)
    <2>1. ASSUME Survives(a, i + 1), NEW j \in 1..(n - 1), j > i PROVE dbQueue'[j] # Delete(a)
      <3>1. j + 1 \in 1..n /\ j + 1 > i + 1
        BY <2>1
      <3> QED
        BY <1>1, <1>3, <2>1, <3>1 DEF Survives
    <2>2. ASSUME Survives(a, i)', NEW j \in 1..n, j > i + 1 PROVE dbQueue[j] # Delete(a)
      <3>1. j - 1 \in 1..(n - 1) /\ j - 1 > i /\ (j - 1) + 1 = j
        BY <2>2
      <3>2. dbQueue'[j - 1] # Delete(a)
        BY <1>3, <2>2, <3>1 DEF Survives, Delete
      <3> QED
        BY <1>3, <3>1, <3>2
    <2>3. Survives(a, i + 1) => Survives(a, i)'
      BY <1>3, <2>1 DEF Survives, Delete
    <2>4. Survives(a, i)' => Survives(a, i + 1)
      BY <1>1, <2>2 DEF Survives
    <2> QED
      BY <2>3, <2>4
  <1>7. Survives(a, 0)' <=> Survives(a, 1)
    <2>1. 0 \in 0..(n - 1) /\ 0 + 1 = 1
      OBVIOUS
    <2> QED
      BY <1>6, <2>1
  <1>8. Survives(a, 0) <=> r # Delete(a) /\ Survives(a, 1)
    <2>1. 1 \in 1..n /\ \A j \in 1..n : j > 0 <=> j = 1 \/ j > 1
      OBVIOUS
    <2> QED
      BY <1>1, <1>2, <2>1 DEF Survives
  <1>9. Insert(a, k)' = Insert(a, k) /\ Row(a, k)' = Row(a, k)
    BY DEF Insert, Row
  <1>10. ASSUME Ends(a, k)' PROVE Ends(a, k)
    <2>1. CASE Row(a, k) \in rows' /\ Survives(a, 0)'
      BY <1>1, <1>2, <1>5, <1>7, <1>8, <2>1 DEF Ends
    <2>2. ASSUME NEW i \in 1..(n - 1), dbQueue'[i] = Insert(a, k), Survives(a, i)'
          PROVE  Ends(a, k)
      <3>1. i + 1 \in 1..n /\ i \in 0..(n - 1)
        OBVIOUS
      <3> QED
        BY <1>1, <1>3, <1>6, <2>2, <3>1 DEF Ends
    <2> QED
      BY <1>3, <1>9, <1>10, <2>1, <2>2 DEF Ends
  <1>11. ASSUME Ends(a, k) PROVE Ends(a, k)'
    <2>1. CASE Row(a, k) \in rows /\ Survives(a, 0)
      BY <1>5, <1>7, <1>8, <1>9, <2>1 DEF Ends
    <2>2. ASSUME NEW i \in 1..n, dbQueue[i] = Insert(a, k), Survives(a, i)
          PROVE  Ends(a, k)'
      <3>1. CASE i = 1
        BY <1>2, <1>5, <1>7, <1>9, <2>2, <3>1 DEF Ends
      <3>2. CASE i # 1
        <4>1. PICK m : m = i - 1
          OBVIOUS
        <4>2. m \in 1..(n - 1) /\ m \in 0..(n - 1) /\ m + 1 = i
          BY <3>2, <4>1
        <4>3. dbQueue'[m] = Insert(a, k) /\ Survives(a, m)'
          BY <1>3, <1>6, <2>2, <4>2
        <4> QED
          BY <1>3, <1>9, <4>2, <4>3 DEF Ends
      <3> QED
        BY <3>1, <3>2
    <2> QED
      BY <1>1, <1>11, <2>1, <2>2 DEF Ends
  <1> QED
    BY <1>10, <1>11

\* Every step of a database whose requests all complete keeps LoginsAhead.
LEMMA LoginsStep ==
  ASSUME Outcomes = {"done"}, DbTypeOK, LoginsAhead, [DbNext]_dbVars
  PROVE  LoginsAhead'
  <1>1. ASSUME NEW r \in Requests, \A a, k : r # Delete(a) /\ r # Insert(a, k), inserting = Nothing,
               dbQueue' = Append(dbQueue, r), UNCHANGED <<rows, inserting, lastKey>>
        PROVE  LoginsAhead'
    <2>1. \A a, k : Ends(a, k)' <=> Ends(a, k)
      BY <1>1, AppendEnds
    <2> QED
      BY <1>1, <2>1 DEF LoginsAhead
  <1>2. ASSUME NEW s \in Sessions, NEW u \in Users, EnqueueSelect(s, u)
        PROVE  LoginsAhead'
    <2>1. Select(s, u) \in Requests
      BY Constructors DEF Requests
    <2> QED
      BY <1>1, <1>2, <2>1, Distinct DEF EnqueueSelect
  <1>3. ASSUME NEW u \in Users, EnqueueLog(u)
        PROVE  LoginsAhead'
    <2>1. Log(u) \in Requests
      BY Constructors DEF Requests
    <2> QED
      BY <1>1, <1>3, <2>1, Distinct DEF EnqueueLog
  <1>4. ASSUME NEW b \in Registered, EnqueueDelete(b)
        PROVE  LoginsAhead'
    <2>1. Delete(b) \in Requests
      BY Constructors DEF Requests
    <2>2. /\ inserting = Nothing /\ dbQueue' = Append(dbQueue, Delete(b)) /\ rows' = rows /\ lastKey' = lastKey
          /\ issued' \in Nat \ {0} /\ inserting' = Insert(b, issued')
      BY <1>4 DEF EnqueueDelete, DbTypeOK
    <2>3. inserting' # Nothing /\ inserting'.account = b /\ inserting'.key # 0
      BY <2>2, InsertIsSomething, Distinct
    <2>4. ASSUME NEW a \in Registered, NEW k \in Nat
          PROVE  Ends(a, k)' <=> Ends(a, k) /\ a # b
      BY <2>1, <2>2, AppendEnds, Distinct
    <2>5. ASSUME NEW a \in Registered, NEW k \in Nat
          PROVE  Ends(a, k)' <=> k = lastKey'[a] /\ k # 0 /\ (inserting' # Nothing => a # inserting'.account)
      BY <2>2, <2>3, <2>4 DEF LoginsAhead
    <2> QED
      BY <2>3, <2>5 DEF LoginsAhead, Nothing
  <1>5. CASE EnqueueInsert
    <2>1. PICK b \in Registered, n \in Nat : inserting = Insert(b, n)
      <3>1. inserting \in Inserts
        BY <1>5 DEF EnqueueInsert, DbTypeOK
      <3>2. inserting = Insert(inserting.account, inserting.key)
        BY <3>1 DEF Inserts, Insert
      <3> QED
        BY <3>1, <3>2, InsertShape
    <2>2. inserting # Nothing /\ inserting.account = b /\ inserting.key = n /\ n # 0 /\ inserting \in Requests
      BY <2>1, InsertIsSomething, Distinct, Constructors DEF LoginsAhead, Requests
    <2>3. /\ dbQueue' = Append(dbQueue, inserting) /\ rows' = rows /\ inserting' = Nothing
          /\ lastKey' = [lastKey EXCEPT ![b] = n] /\ lastKey \in [Registered -> Nat]
      BY <1>5, <2>2 DEF EnqueueInsert, DbTypeOK
    <2>4. ASSUME NEW a \in Registered, NEW k \in Nat
          PROVE  Ends(a, k)' <=> Ends(a, k) \/ (a = b /\ k = n)
      BY <2>1, <2>2, <2>3, AppendEnds, Distinct
    <2>5. ASSUME NEW a \in Registered, NEW k \in Nat
          PROVE  Ends(a, k)' <=> k = lastKey'[a] /\ k # 0
      BY <2>2, <2>3, <2>4 DEF LoginsAhead
    <2> QED
      BY <2>3, <2>5 DEF LoginsAhead, Nothing
  <1>6. CASE Finish("done")
    <2>1. \A a \in Registered, k \in Nat : Ends(a, k)' <=> Ends(a, k)
      BY <1>6, FinishEnds
    <2>2. UNCHANGED <<inserting, lastKey>>
      BY <1>6 DEF Finish
    <2> QED
      BY <2>1, <2>2 DEF LoginsAhead
  <1>7. CASE Collect \/ UNCHANGED dbVars
    <2>1. UNCHANGED <<dbQueue, rows, inserting, lastKey>>
      BY <1>7 DEF Collect, dbVars
    <2> QED
      BY <2>1 DEF LoginsAhead, Ends, Survives
  <1> QED
    BY <1>2, <1>3, <1>4, <1>5, <1>6, <1>7 DEF DbNext

\* The rows that the queue leaves, one by one.
LEMMA ProjectedRows ==
  ASSUME DbTypeOK
  PROVE  /\ Projected \subseteq Rows
         /\ \A a \in Registered, k \in Nat : Row(a, k) \in Projected <=> Ends(a, k)
  <1>1. /\ \A i \in 1..Len(dbQueue) : dbQueue[i] \in Requests
        /\ rows \subseteq Rows
    BY ElementOfSeq DEF DbTypeOK
  <1>2. ASSUME NEW i \in LastingInserts
        PROVE  /\ i \in 1..Len(dbQueue) /\ dbQueue[i] = Insert(dbQueue[i].account, dbQueue[i].key)
               /\ dbQueue[i].account \in Registered /\ dbQueue[i].key \in Nat
               /\ Survives(dbQueue[i].account, i)
    <2>1. i \in 1..Len(dbQueue) /\ dbQueue[i] \in Inserts /\ Survives(dbQueue[i].account, i)
      BY <1>1, RequestKinds DEF LastingInserts
    <2> QED
      BY <2>1, InsertShape DEF Inserts, Insert
  <1>3. \A i \in LastingInserts : Row(dbQueue[i].account, dbQueue[i].key) \in Rows
    BY <1>2 DEF Row, Rows
  <1>4. Projected = {row \in rows : Survives(row.account, 0)}
                    \cup {Row(dbQueue[i].account, dbQueue[i].key) : i \in LastingInserts}
    BY DEF Projected, Row
  <1>5. Projected \subseteq Rows
    BY <1>1, <1>3, <1>4
  <1>6. ASSUME NEW a \in Registered, NEW k \in Nat
        PROVE  Row(a, k) \in Projected <=> Ends(a, k)
    <2>1. Row(a, k).account = a
      BY DEF Row
    <2>2. \A b, n : Row(a, k) = Row(b, n) <=> a = b /\ k = n
      BY DEF Row
    <2>3. ASSUME NEW i \in LastingInserts, Row(a, k) = Row(dbQueue[i].account, dbQueue[i].key)
          PROVE  Ends(a, k)
      <3>1. a = dbQueue[i].account /\ k = dbQueue[i].key
        BY <2>2, <2>3
      <3> QED
        BY <1>2, <3>1 DEF Ends
    <2>4. ASSUME NEW i \in 1..Len(dbQueue), dbQueue[i] = Insert(a, k), Survives(a, i)
          PROVE  i \in LastingInserts /\ Row(a, k) = Row(dbQueue[i].account, dbQueue[i].key)
      <3>1. dbQueue[i].op = "insert" /\ dbQueue[i].account = a /\ dbQueue[i].key = k
        BY <2>4 DEF Insert
      <3> QED
        BY <2>4, <3>1 DEF LastingInserts
    <2> QED
      BY <1>4, <2>1, <2>3, <2>4 DEF Ends
  <1> QED
    BY <1>5, <1>6

\* With no login half enqueued the table ends with the last keys.
LEMMA AheadIsProjected == ASSUME DbTypeOK, LoginsAhead PROVE LastLoginWins
  <1> SUFFICES ASSUME inserting = Nothing
      PROVE Projected = {Row(a, lastKey[a]) : a \in {b \in Registered : lastKey[b] # 0}}
    BY DEF LastLoginWins, Row
  <1>1. ASSUME NEW row \in Projected
        PROVE  row \in {Row(a, lastKey[a]) : a \in {b \in Registered : lastKey[b] # 0}}
    <2>1. row \in Rows
      BY ProjectedRows
    <2>2. PICK a \in Registered, k \in Nat : row = Row(a, k)
      BY <2>1 DEF Rows, Row
    <2>3. k = lastKey[a] /\ k # 0
      BY <1>1, <2>2, ProjectedRows DEF LoginsAhead
    <2> QED
      BY <2>2, <2>3
  <1>2. ASSUME NEW a \in Registered, lastKey[a] # 0
        PROVE  Row(a, lastKey[a]) \in Projected
    <2>1. lastKey[a] \in Nat
      BY DEF DbTypeOK
    <2> QED
      BY <1>2, <2>1, ProjectedRows DEF LoginsAhead
  <1> QED
    BY <1>1, <1>2

LEMMA LoginsInitial == DbInit => LoginsAhead
  <1> SUFFICES ASSUME DbInit PROVE LoginsAhead
    OBVIOUS
  <1>1. 1..Len(dbQueue) = {} /\ rows = {} /\ inserting = Nothing /\ \A a \in Registered : lastKey[a] = 0
    BY EmptySeq DEF DbInit
  <1> QED
    BY <1>1 DEF LoginsAhead, Ends

-----------------------------------------------------------------------------

\* The inductive invariant holds in every behaviour of a worker that drops nothing.
THEOREM DbInvariance == ASSUME Outcomes = {"done"} PROVE DbSpec => []DbIInv
  <1>1. DbInit => DbIInv
    BY DbInitial
  <1>2. DbIInv /\ [DbNext]_dbVars => DbIInv'
    BY DbStep
  <1> QED
    BY <1>1, <1>2, PTL DEF DbSpec, DbSafeSpec

\* At no time has an account two rows in active_sessions: DEL_PREV_SESSIONS
\* and INS_NEW_SESSION of AuthSession.cpp, however many sessions log in and
\* however the worker interleaves.
THEOREM OneSession == ASSUME Outcomes = {"done"} PROVE DbSpec => []OneSessionPerAccount
  <1>1. DbIInv => OneSessionPerAccount
    BY DEF DbIInv
  <1> QED
    BY <1>1, DbInvariance, PTL
\* Whatever logins are queued, the table ends with the key of each account's
\* last login alone: no delete of a later login takes it away, no earlier key
\* stays (AuthSession::HandleAuthLoginProofPacket, ThreadRoutine).
THEOREM LastLoginStays == ASSUME Outcomes = {"done"} PROVE DbSpec => []LastLoginWins
  <1>1. DbInit => DbIInv /\ LoginsAhead
    BY DbInitial, LoginsInitial
  <1>2. DbIInv /\ LoginsAhead /\ [DbNext]_dbVars => DbIInv' /\ LoginsAhead'
    BY DbStep, LoginsStep DEF DbIInv
  <1>3. DbIInv /\ LoginsAhead => LastLoginWins
    BY AheadIsProjected DEF DbIInv
  <1> QED
    BY <1>1, <1>2, <1>3, PTL DEF DbSpec, DbSafeSpec
===============================================================================
