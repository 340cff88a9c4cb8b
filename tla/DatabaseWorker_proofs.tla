------------------------ MODULE DatabaseWorker_proofs ------------------------
(***************************************************************************)
(* Safety of the database worker for every set of requests and any number  *)
(* of starts: type correctness, the FIFO order of execution, the absence   *)
(* of a lost wake-up, draining on Stop, and the refinement of FifoService  *)
(* (its safety part; liveness is checked with TLC only).                   *)
(***************************************************************************)
EXTENDS DatabaseWorker, SequenceTheorems, FiniteSetTheorems, TLAPS

(***************************************************************************)
(* Sequences.                                                              *)
(***************************************************************************)

\* A nonempty sequence is its head followed by its tail (the pop of m_execQueue).
LEMMA HeadConsTail ==
  ASSUME NEW S, NEW s \in Seq(S), s # <<>>
  PROVE  s = <<Head(s)>> \o Tail(s)
<1>1. Head(s) \in S /\ Tail(s) \in Seq(S) /\ Len(s) \in Nat /\ Len(s) > 0
  BY EmptySeq, LenProperties, HeadTailProperties
<1>2. <<Head(s)>> \in Seq(S) /\ Len(<<Head(s)>>) = 1
  BY <1>1
<1>3. <<Head(s)>> \o Tail(s) \in Seq(S)
  BY <1>1, <1>2, ConcatProperties
<1>4. Len(<<Head(s)>> \o Tail(s)) = Len(s)
  BY <1>1, <1>2, ConcatProperties, HeadTailProperties
<1>5. ASSUME NEW i \in 1..Len(s) PROVE s[i] = (<<Head(s)>> \o Tail(s))[i]
  BY <1>1, <1>2, ConcatProperties, HeadTailProperties
<1>. QED
  BY <1>3, <1>4, <1>5, SeqEqual

\* Appending to the right part of a concatenation appends to the whole (the
\* push on m_execQueue).
LEMMA ConcatAppend ==
  ASSUME NEW S, NEW s \in Seq(S), NEW t \in Seq(S), NEW e \in S
  PROVE  s \o Append(t, e) = Append(s \o t, e)
<1>1. Append(t, e) = t \o <<e>> /\ <<e>> \in Seq(S)
  BY AppendIsConcat
<1>2. s \o t \in Seq(S)
  BY ConcatProperties
<1>3. Append(s \o t, e) = (s \o t) \o <<e>>
  BY <1>2, AppendIsConcat
<1>. QED
  BY <1>1, <1>3, ConcatAssociative

(***************************************************************************)
(* The inductive invariant.                                                *)
(***************************************************************************)

\* The history of finished requests, seen as a sequence of requests.
LEMMA ServedRequestsType ==
  ASSUME TypeOK
  PROVE  /\ ServedRequests \in Seq(Requests)
         /\ Len(ServedRequests) = Len(served)
<1>1. Len(served) \in Nat /\ \A i \in 1..Len(served) : served[i] \in [req : Requests, outcome : Outcomes]
  BY ElementOfSeq, LenProperties DEF TypeOK
<1>2. \A i \in 1..Len(served) : served[i].req \in Requests
  BY <1>1
<1>. QED
  BY <1>1, <1>2 DEF ServedRequests

\* Finishing a request appends it to the finished ones.
LEMMA FinishAppends ==
  ASSUME TypeOK, NEW r \in Requests, NEW o \in Outcomes,
         served' = Append(served, [req |-> r, outcome |-> o])
  PROVE  ServedRequests' = Append(ServedRequests, r)
<1>1. [req |-> r, outcome |-> o] \in [req : Requests, outcome : Outcomes]
  OBVIOUS
<1>2. /\ Len(served) \in Nat
      /\ Len(served') = Len(served) + 1
      /\ \A i \in 1..Len(served) : served'[i] = served[i]
      /\ served'[Len(served) + 1] = [req |-> r, outcome |-> o]
  BY <1>1, AppendProperties, LenProperties DEF TypeOK
<1>3. ServedRequests' = [i \in 1..Len(served) + 1 |-> served'[i].req]
  BY <1>2 DEF ServedRequests
<1>4. ASSUME NEW i \in 1..Len(served) + 1
      PROVE  /\ ServedRequests'[i] = Append(ServedRequests, r)[i]
             /\ ServedRequests'[i] \in Requests
  <2>1. CASE i = Len(served) + 1
    BY <1>2, <1>3, <2>1, ServedRequestsType, AppendProperties
  <2>2. CASE i \in 1..Len(served)
    <3>1. ServedRequests[i] = served[i].req /\ ServedRequests[i] \in Requests
      BY <2>2, ServedRequestsType, ElementOfSeq DEF ServedRequests
    <3>2. Append(ServedRequests, r)[i] = ServedRequests[i]
      BY <2>2, ServedRequestsType, AppendProperties
    <3>. QED
      BY <1>2, <1>3, <2>2, <3>1, <3>2
  <2>3. Len(served) \in Nat
    BY <1>2
  <2>4. i = Len(served) + 1 \/ i \in 1..Len(served)
    BY <2>3
  <2>. QED
    BY <2>1, <2>2, <2>4, Zenon
<1>5. ServedRequests' \in Seq(Requests) /\ Len(ServedRequests') = Len(served) + 1
  BY <1>2, <1>3, <1>4
<1>6. Append(ServedRequests, r) \in Seq(Requests)
      /\ Len(Append(ServedRequests, r)) = Len(served) + 1
  BY ServedRequestsType, AppendProperties
<1>. QED
  BY <1>4, <1>5, <1>6, SeqEqual

\* The worker finishing the request in hand keeps the FIFO order.
LEMMA FinishKeepsOrder ==
  ASSUME TypeOK, PcsAgree, InOrder, NEW o \in Outcomes,
         workerPc \in {"execute", "respond"}, workerPc' = "lock",
         served' = Append(served, [req |-> req, outcome |-> o]),
         UNCHANGED <<submitted, execQueue>>
  PROVE  InOrder'
<1>1. req \in Requests
  BY DEF PcsAgree
<1>2. ServedRequests' = ServedRequests \o <<req>>
  BY <1>1, FinishAppends, ServedRequestsType, AppendIsConcat
<1>3. InHand = <<req>> /\ InHand' = <<>>
  BY DEF InHand
<1>4. ServedRequests' \o InHand' = ServedRequests \o InHand
  BY <1>1, <1>2, <1>3, ServedRequestsType, ConcatEmptySeq, ConcatProperties
<1>. QED
  BY <1>4 DEF InOrder

\* A step that leaves the queue, the request in hand and the histories alone
\* keeps the FIFO order.
LEMMA OrderUntouched ==
  ASSUME InOrder, UNCHANGED <<submitted, served, execQueue>>, InHand' = InHand
  PROVE  InOrder'
  BY DEF InOrder, ServedRequests

\* The initial state satisfies the invariant.
LEMMA InitInv == Init => IInv
<1>. SUFFICES ASSUME Init PROVE IInv
  OBVIOUS
<1>1. running \in BOOLEAN
  BY Zenon DEF Init
<1>2. TypeOK
  BY <1>1, EmptySeq, MaxStartsAssumption
     DEF Init, TypeOK, WorkerPcs, MainPcs, Callers
<1>3. InOrder
  <2>1. ServedRequests = <<>>
    BY <1>2, ServedRequestsType, EmptySeq DEF Init
  <2>2. InHand = <<>>
    BY DEF Init, InHand
  <2>. QED
    BY <2>1, <2>2, EmptySeq, ConcatEmptySeq DEF Init, InOrder
<1>4. execQueueSize = Len(execQueue) /\ MutexHeld /\ PcsAgree /\ NoLostWakeup
  BY EmptySeq DEF Init, MutexHeld, PcsAgree, NoLostWakeup
<1>. QED
  BY <1>2, <1>3, <1>4 DEF IInv

\* The steps of ThreadRoutine that only move its program counter and the mutex.
LEMMA WorkerControlInv ==
  ASSUME IInv,
         WorkerLock \/ WorkerExit \/ WorkerIdle \/ WorkerMustWait
         \/ WorkerNextIteration \/ WorkerWait \/ WorkerReacquire \/ SpuriousWakeup
  PROVE  IInv'
<1>. USE DEF WorkerLock, WorkerExit, WorkerIdle, WorkerMustWait, WorkerNextIteration,
             WorkerWait, WorkerReacquire, SpuriousWakeup, queueVars, mainVars, historyVars
<1>1. TypeOK'
  BY DEF IInv, TypeOK, WorkerPcs
<1>2. UNCHANGED <<submitted, served, execQueue, execQueueSize>> /\ InHand' = InHand
  BY DEF InHand
<1>3. InOrder'
  BY <1>2, OrderUntouched DEF IInv
<1>4. MutexHeld'
  BY DEF IInv, TypeOK, WorkerPcs, MutexHeld
<1>5. NoLostWakeup'
  BY DEF IInv, TypeOK, PcsAgree, NoLostWakeup
<1>6. execQueueSize <= 0 => execQueue = <<>>
  BY EmptySeq DEF IInv, TypeOK
<1>7. PcsAgree'
  BY <1>6 DEF IInv, TypeOK, WorkerPcs, MainPcs, PcsAgree
<1>. QED
  BY <1>1, <1>2, <1>3, <1>4, <1>5, <1>7 DEF IInv

\* Popping the oldest request moves it from the queue into the worker's hand.
LEMMA WorkerPopInv == ASSUME IInv, WorkerPop PROVE IInv'
<1>. USE DEF WorkerPop, mainVars, historyVars
<1>1. execQueue # <<>> /\ execQueue \in Seq(Requests)
  BY EmptySeq DEF IInv, TypeOK
<1>2. Head(execQueue) \in Requests /\ Tail(execQueue) \in Seq(Requests)
      /\ Len(Tail(execQueue)) = Len(execQueue) - 1
  BY <1>1, HeadTailProperties
<1>3. TypeOK'
  BY <1>2 DEF IInv, TypeOK, WorkerPcs
<1>4. InOrder'
  <2>1. InHand = <<>> /\ InHand' = <<Head(execQueue)>>
    BY DEF InHand
  <2>2. ServedRequests \o InHand = ServedRequests
    BY <2>1, ServedRequestsType, ConcatEmptySeq DEF IInv
  <2>3. <<Head(execQueue)>> \in Seq(Requests)
    BY <1>2
  <2>4. (ServedRequests \o InHand') \o Tail(execQueue)
          = ServedRequests \o (InHand' \o Tail(execQueue))
    BY <1>2, <2>1, <2>3, ServedRequestsType, ConcatAssociative DEF IInv
  <2>5. InHand' \o Tail(execQueue) = execQueue
    BY <1>1, <2>1, HeadConsTail
  <2>. QED
    BY <2>2, <2>4, <2>5 DEF IInv, InOrder, ServedRequests
<1>5. execQueueSize' = Len(execQueue') /\ MutexHeld' /\ PcsAgree' /\ NoLostWakeup'
  BY <1>2 DEF IInv, TypeOK, MainPcs, MutexHeld, PcsAgree, NoLostWakeup
<1>. QED
  BY <1>3, <1>4, <1>5 DEF IInv

\* Executing, dropping and answering finish the request in hand or keep it.
LEMMA WorkerFinishInv ==
  ASSUME IInv, WorkerExecute \/ WorkerDrop \/ WorkerRespond PROVE IInv'
<1>. USE DEF queueVars, mainVars
<1>1. req \in Requests
  BY DEF IInv, PcsAgree, WorkerExecute, WorkerDrop, WorkerRespond
<1>2. TypeOK'
  <2>1. /\ [req |-> req, outcome |-> "done"] \in [req : Requests, outcome : Outcomes]
        /\ [req |-> req, outcome |-> "dropped"] \in [req : Requests, outcome : Outcomes]
    BY <1>1 DEF Outcomes
  <2>2. /\ Append(served, [req |-> req, outcome |-> "done"])
             \in Seq([req : Requests, outcome : Outcomes])
        /\ Append(served, [req |-> req, outcome |-> "dropped"])
             \in Seq([req : Requests, outcome : Outcomes])
        /\ Append(respQueue, req) \in Seq(Requests)
    BY <1>1, <2>1, AppendProperties DEF IInv, TypeOK
  <2>3. served' \in Seq([req : Requests, outcome : Outcomes]) /\ respQueue' \in Seq(Requests)
    BY <2>2, Zenon DEF IInv, TypeOK, WorkerExecute, WorkerDrop, WorkerRespond
  <2>. QED
    BY <2>2, <2>3 DEF IInv, TypeOK, WorkerPcs, WorkerExecute, WorkerDrop, WorkerRespond
<1>3. InOrder'
  <2>1. CASE workerPc' = "lock"
    <3>1. PICK o \in Outcomes : served' = Append(served, [req |-> req, outcome |-> o])
      <4>1. "done" \in Outcomes /\ "dropped" \in Outcomes
        BY DEF Outcomes
      <4>2. \/ served' = Append(served, [req |-> req, outcome |-> "done"])
            \/ served' = Append(served, [req |-> req, outcome |-> "dropped"])
        BY <2>1 DEF WorkerExecute, WorkerDrop, WorkerRespond
      <4>. QED
        BY <4>1, <4>2, Zenon
    <3>2. workerPc \in {"execute", "respond"} /\ UNCHANGED <<submitted, execQueue>>
      BY DEF WorkerExecute, WorkerDrop, WorkerRespond
    <3>. QED
      BY <2>1, <3>1, <3>2, FinishKeepsOrder DEF IInv
  <2>2. CASE workerPc' = "respond"
    <3>1. UNCHANGED <<submitted, served, execQueue>> /\ InHand' = InHand
      BY <2>2 DEF WorkerExecute, WorkerDrop, WorkerRespond, InHand
    <3>. QED
      BY <3>1, OrderUntouched DEF IInv
  <2>. QED
    BY <2>1, <2>2 DEF WorkerExecute, WorkerDrop, WorkerRespond
<1>4. execQueueSize' = Len(execQueue') /\ MutexHeld' /\ PcsAgree' /\ NoLostWakeup'
  BY <1>1 DEF IInv, TypeOK, MainPcs, MutexHeld, PcsAgree, NoLostWakeup,
              WorkerExecute, WorkerDrop, WorkerRespond
<1>. QED
  BY <1>2, <1>3, <1>4 DEF IInv

\* Start, Stop and Join touch neither the queue nor the request in hand.
LEMMA LifecycleInv ==
  ASSUME IInv, Start \/ (\E caller \in Callers : StopStore(caller)) \/ StopNotify \/ Join
  PROVE  IInv'
<1>. USE DEF Start, StopStore, StopNotify, Join, CreateThread, NotifyAll,
             queueVars, mainVars, historyVars
<1>1. running' \in BOOLEAN
  <2>1. running' = TRUE \/ running' = FALSE \/ running' = running
    BY Zenon
  <2>. QED
    BY <2>1, Zenon DEF IInv, TypeOK
<1>2. TypeOK'
  BY <1>1, MaxStartsAssumption DEF IInv, TypeOK, WorkerPcs, MainPcs, Callers
<1>3. UNCHANGED <<submitted, served, execQueue, execQueueSize, execMutex>> /\ InHand' = InHand
  BY DEF InHand
<1>4. InOrder'
  BY <1>3, OrderUntouched DEF IInv
<1>5. MutexHeld'
  BY DEF IInv, TypeOK, WorkerPcs, MutexHeld, PcsAgree
<1>7. NoLostWakeup'
  <2>1. CASE Start \/ Join
    BY <2>1 DEF IInv, TypeOK, WorkerPcs, PcsAgree, NoLostWakeup
  <2>2. CASE StopNotify
    BY <2>2 DEF IInv, TypeOK, WorkerPcs, MutexHeld, PcsAgree, NoLostWakeup
  <2>3. ASSUME NEW caller \in Callers, StopStore(caller) PROVE NoLostWakeup'
    BY <2>3 DEF IInv, TypeOK, WorkerPcs, MutexHeld, NoLostWakeup
  <2>. QED
    BY <2>1, <2>2, <2>3
<1>6. PcsAgree'
  BY DEF IInv, TypeOK, WorkerPcs, MainPcs, PcsAgree
<1>. QED
  BY <1>2, <1>3, <1>4, <1>5, <1>6, <1>7 DEF IInv

\* Enqueue appends to the queue and to the history alike.
LEMMA EnqueueInv == ASSUME IInv, NEW r \in Requests, Enqueue(r) PROVE IInv'
<1>. USE DEF Enqueue, NotifyAll, mainVars
<1>1. /\ Append(execQueue, r) \in Seq(Requests)
      /\ Len(Append(execQueue, r)) = Len(execQueue) + 1
      /\ Append(submitted, r) \in Seq(Requests)
  BY AppendProperties DEF IInv, TypeOK
<1>2. TypeOK'
  BY <1>1 DEF IInv, TypeOK, WorkerPcs
<1>3. InOrder'
  <2>1. InHand \in Seq(Requests)
    BY DEF IInv, PcsAgree, InHand
  <2>2. ServedRequests \o InHand \in Seq(Requests)
    BY <2>1, ServedRequestsType, ConcatProperties DEF IInv
  <2>3. ServedRequests \o InHand \o Append(execQueue, r)
          = Append(ServedRequests \o InHand \o execQueue, r)
    <3>1. execQueue \in Seq(Requests)
      BY DEF IInv, TypeOK
    <3> QED
      BY <2>2, <3>1, ConcatAppend
  <2>4. InHand' = InHand /\ ServedRequests' = ServedRequests
    BY DEF InHand, ServedRequests
  <2>5. submitted = ServedRequests \o InHand \o execQueue
    BY DEF IInv, InOrder
  <2>6. submitted' = Append(submitted, r) /\ execQueue' = Append(execQueue, r)
    OBVIOUS
  <2>. QED
    BY <2>3, <2>4, <2>5, <2>6 DEF InOrder
<1>4. execQueueSize' = Len(execQueue') /\ MutexHeld' /\ NoLostWakeup'
  BY <1>1 DEF IInv, TypeOK, WorkerPcs, MutexHeld, NoLostWakeup
<1>5. PcsAgree'
  BY DEF IInv, TypeOK, PcsAgree
<1>. QED
  BY <1>2, <1>3, <1>4, <1>5 DEF IInv

\* Collecting the responses moves them to the handled ones.
LEMMA GetResponseQueueInv == ASSUME IInv, GetResponseQueue PROVE IInv'
<1>. USE DEF GetResponseQueue, queueVars, mainVars
<1>1. TypeOK'
  BY ConcatProperties, EmptySeq DEF IInv, TypeOK
<1>2. InOrder'
  BY OrderUntouched DEF IInv, InHand
<1>3. execQueueSize' = Len(execQueue') /\ MutexHeld' /\ PcsAgree' /\ NoLostWakeup'
  BY DEF IInv, MutexHeld, PcsAgree, NoLostWakeup
<1>. QED
  BY <1>1, <1>2, <1>3 DEF IInv

\* Every step of the two threads keeps the invariant.
LEMMA NextInv == IInv /\ [Next]_vars => IInv'
<1>. SUFFICES ASSUME IInv, [Next]_vars PROVE IInv'
  OBVIOUS
<1>1. CASE WorkerStep \/ SpuriousWakeup
  BY <1>1, WorkerControlInv, WorkerPopInv, WorkerFinishInv DEF WorkerStep
<1>2. CASE MainStep
  BY <1>2, LifecycleInv, EnqueueInv, GetResponseQueueInv DEF MainStep
<1>3. CASE UNCHANGED vars
  <2>1. UNCHANGED <<submitted, served, execQueue, execQueueSize, execMutex>> /\ InHand' = InHand
    BY <1>3 DEF vars, queueVars, historyVars, InHand
  <2>2. InOrder'
    BY <2>1, OrderUntouched DEF IInv
  <2>. QED
    BY <1>3, <2>2 DEF vars, queueVars, mainVars, historyVars, IInv, TypeOK, MutexHeld,
                      PcsAgree, NoLostWakeup
<1>. QED
  BY <1>1, <1>2, <1>3 DEF Next

\* The inductive invariant holds in every reachable state of the worker.
THEOREM Invariance == Spec => []IInv
  BY InitInv, NextInv, PTL DEF Spec

\* The variables of DatabaseWorker and of the two threads keep their types.
THEOREM TypeCorrect == Spec => []TypeOK
<1>1. IInv => TypeOK
  BY DEF IInv
<1>. QED
  BY <1>1, Invariance, PTL

\* m_execQueue is served first in, first out: nothing enqueued is lost,
\* repeated or overtaken, with any number of requests and restarts.
THEOREM FifoExecution == Spec => []InOrder
<1>1. IInv => InOrder
  BY DEF IInv
<1>. QED
  BY <1>1, Invariance, PTL

\* The wait on m_execWakeupCond never sleeps through an Enqueue or a Stop.
THEOREM WakeupsArrive == Spec => []NoLostWakeup
<1>1. IInv => NoLostWakeup
  BY DEF IInv
<1>. QED
  BY <1>1, Invariance, PTL

\* ThreadRoutine ends only when everything enqueued has been finished.
THEOREM QueueDrained == Spec => []StopDrains
<1>1. ASSUME IInv PROVE StopDrains
  <2>1. SUFFICES ASSUME workerPc = "exited" PROVE Len(served) = Len(submitted)
    BY DEF StopDrains
  <2>2. InHand = <<>> /\ execQueue = <<>>
    BY <1>1, <2>1 DEF IInv, PcsAgree, InHand
  <2>3. submitted = ServedRequests
    BY <1>1, <2>2, ServedRequestsType, ConcatEmptySeq DEF IInv, InOrder
  <2>. QED
    BY <1>1, <2>3, ServedRequestsType DEF IInv
<1>. QED
  BY <1>1, Invariance, PTL

(***************************************************************************)
(* The order of the responses.                                             *)
(***************************************************************************)

\* The answered requests are finitely many, and counting them up to the last
\* one counts them all.
LEMMA AnsweredFinite ==
  ASSUME TypeOK
  PROVE  /\ IsFiniteSet(Answered) /\ Cardinality(Answered) \in Nat
         /\ \A i \in Answered : i \in 1..Len(served)
         /\ \A i \in Answered : AnsweredUpTo(i) \in 1..Cardinality(Answered)
<1>1. Len(served) \in Nat
  BY LenProperties DEF TypeOK
<1>2. IsFiniteSet(1..Len(served)) /\ Answered \in SUBSET (1..Len(served))
  BY <1>1, FS_Interval DEF Answered
<1>3. IsFiniteSet(Answered) /\ Cardinality(Answered) \in Nat
  BY <1>2, FS_Subset, FS_CardinalityType
<1>4. ASSUME NEW i \in Answered PROVE AnsweredUpTo(i) \in 1..Cardinality(Answered)
  <2>. DEFINE Before == {j \in Answered : j <= i}
  <2>1. Before \in SUBSET Answered /\ i \in Before /\ i \in Nat
    BY <1>1, <1>2
  <2>. HIDE DEF Before
  <2>2. IsFiniteSet(Before) /\ Cardinality(Before) <= Cardinality(Answered) /\ Cardinality(Before) \in Nat
    BY <1>3, <2>1, FS_Subset, FS_CardinalityType
  <2>3. Cardinality(Before) # 0
    BY <2>1, <2>2, FS_EmptySet
  <2>. QED
    BY <1>3, <2>2, <2>3 DEF AnsweredUpTo, Before
<1>. QED
  BY <1>2, <1>3, <1>4

\* A request that is finished without an answer changes no earlier position.
LEMMA NotAnswered ==
  ASSUME TypeOK, NEW x \in [req : Requests, outcome : Outcomes],
         x.outcome # "done" \/ x.req \in FireAndForget,
         served' = Append(served, x)
  PROVE  /\ Answered' = Answered
         /\ \A i \in Answered : AnsweredUpTo(i)' = AnsweredUpTo(i) /\ served'[i].req = served[i].req
<1>1. /\ Len(served) \in Nat /\ Len(served') = Len(served) + 1 /\ served'[Len(served) + 1] = x
      /\ \A i \in 1..Len(served) : served'[i] = served[i]
  BY AppendProperties, LenProperties DEF TypeOK
<1>2. Answered' = Answered
  BY <1>1 DEF Answered
<1>. QED
  BY <1>1, <1>2 DEF AnsweredUpTo, Answered

\* A request that is answered takes the next position.
LEMMA NextAnswered ==
  ASSUME TypeOK, NEW n, n = Len(served) + 1, NEW x \in [req : Requests, outcome : Outcomes],
         x.outcome = "done" /\ x.req \notin FireAndForget,
         served' = Append(served, x)
  PROVE  /\ Answered' = Answered \cup {n}
         /\ Cardinality(Answered') = Cardinality(Answered) + 1
         /\ AnsweredUpTo(n)' = Cardinality(Answered) + 1
         /\ served'[n].req = x.req
         /\ \A i \in Answered : AnsweredUpTo(i)' = AnsweredUpTo(i) /\ served'[i].req = served[i].req
<1>1. /\ Len(served) \in Nat /\ Len(served') = n /\ served'[n] = x
      /\ \A i \in 1..Len(served) : served'[i] = served[i]
  BY AppendProperties, LenProperties DEF TypeOK
<1>2. /\ IsFiniteSet(Answered) /\ Cardinality(Answered) \in Nat
      /\ \A i \in Answered : i \in 1..Len(served)
  BY AnsweredFinite
<1>3. Answered' = Answered \cup {n}
  BY <1>1 DEF Answered
<1>4. n \notin Answered
  BY <1>1, <1>2
<1>5. Cardinality(Answered') = Cardinality(Answered) + 1
  BY <1>2, <1>3, <1>4, FS_AddElement
<1>6. {j \in Answered' : j <= n} = Answered'
  BY <1>1, <1>2, <1>3
<1>7. AnsweredUpTo(n)' = Cardinality(Answered) + 1
  BY <1>1, <1>5, <1>6 DEF AnsweredUpTo
<1>8. ASSUME NEW i \in Answered PROVE AnsweredUpTo(i)' = AnsweredUpTo(i) /\ served'[i].req = served[i].req
  <2>1. {j \in Answered' : j <= i} = {j \in Answered : j <= i}
    BY <1>1, <1>2, <1>3
  <2>. QED
    BY <1>1, <1>2, <2>1 DEF AnsweredUpTo
<1>. QED
  BY <1>1, <1>3, <1>5, <1>7, <1>8

\* Finishing a request without a response.
LEMMA UnansweredKeepsResponses ==
  ASSUME TypeOK, ResponsesInOrder, UNCHANGED <<respQueue, handled>>,
         NEW x \in [req : Requests, outcome : Outcomes],
         x.outcome # "done" \/ x.req \in FireAndForget,
         served' = Append(served, x)
  PROVE  ResponsesInOrder'
<1>1. /\ Answered' = Answered
      /\ \A i \in Answered : AnsweredUpTo(i)' = AnsweredUpTo(i) /\ served'[i].req = served[i].req
  BY NotAnswered
<1>. QED
  BY <1>1 DEF ResponsesInOrder

\* Finishing a request with its response.
LEMMA RespondKeepsResponses == ASSUME IInv, ResponsesInOrder, WorkerRespond PROVE ResponsesInOrder'
<1>1. req \in Requests /\ req \notin FireAndForget
  BY DEF IInv, PcsAgree, WorkerRespond
<1>2. PICK x \in [req : Requests, outcome : Outcomes] : x = [req |-> req, outcome |-> "done"]
  BY <1>1 DEF Outcomes
<1>0. PICK n : n = Len(served) + 1
  OBVIOUS
<1>3. /\ Answered' = Answered \cup {n}
      /\ Cardinality(Answered') = Cardinality(Answered) + 1
      /\ AnsweredUpTo(n)' = Cardinality(Answered) + 1
      /\ served'[n].req = req
      /\ \A i \in Answered : AnsweredUpTo(i)' = AnsweredUpTo(i) /\ served'[i].req = served[i].req
  BY <1>1, <1>2, <1>0, NextAnswered DEF IInv, WorkerRespond
<1>4. PICK got : got = handled \o respQueue
  OBVIOUS
<1>5. handled \in Seq(Requests) /\ respQueue \in Seq(Requests)
  BY DEF IInv, TypeOK
<1>6. got \in Seq(Requests)
  BY <1>4, <1>5, ConcatProperties
<1>7. (handled \o respQueue)' = Append(got, req)
  BY <1>1, <1>4, <1>5, ConcatAppend DEF WorkerRespond
<1>8. /\ Len(got) = Cardinality(Answered)
      /\ \A i \in Answered : got[AnsweredUpTo(i)] = served[i].req
  BY <1>4 DEF ResponsesInOrder
<1>9. /\ Len(Append(got, req)) = Len(got) + 1 /\ Append(got, req)[Len(got) + 1] = req
      /\ \A k \in 1..Len(got) : Append(got, req)[k] = got[k]
  BY <1>1, <1>6, AppendProperties
<1>10. ASSUME NEW i \in Answered'
       PROVE  Append(got, req)[AnsweredUpTo(i)'] = served'[i].req
  <2>1. CASE i \in Answered
    <3>1. AnsweredUpTo(i) \in 1..Len(got)
      BY <1>8, <2>1, AnsweredFinite DEF IInv
    <3>. QED
      BY <1>3, <1>8, <1>9, <2>1, <3>1
  <2>2. CASE i = n
    BY <1>3, <1>8, <1>9, <2>2
  <2>. QED
    BY <1>3, <1>10, <2>1, <2>2
<1>11. Len((handled \o respQueue)') = Cardinality(Answered')
  BY <1>3, <1>7, <1>8, <1>9
<1>12. \A i \in Answered' : (handled \o respQueue)'[AnsweredUpTo(i)'] = served'[i].req
  BY <1>7, <1>10
<1>. QED
  BY <1>11, <1>12 DEF ResponsesInOrder

\* Collecting the responses only moves them, and the other steps leave alone
\* what has been finished and answered.
LEMMA CollectKeepsResponses == ASSUME IInv, ResponsesInOrder, GetResponseQueue PROVE ResponsesInOrder'
<1>1. handled \in Seq(Requests) /\ respQueue \in Seq(Requests)
  BY DEF IInv, TypeOK
<1>2. handled \o respQueue \in Seq(Requests)
  BY <1>1, ConcatProperties
<1>3. (handled \o respQueue)' = handled \o respQueue
  BY <1>2, ConcatEmptySeq DEF GetResponseQueue
<1>4. served' = served
  BY DEF GetResponseQueue
<1>. QED
  BY <1>3, <1>4 DEF ResponsesInOrder, Answered, AnsweredUpTo

LEMMA ResponsesUntouched ==
  ASSUME ResponsesInOrder, UNCHANGED <<served, respQueue, handled>> PROVE ResponsesInOrder'
  BY DEF ResponsesInOrder, Answered, AnsweredUpTo

\* No step of the two threads breaks the order of the responses.
LEMMA NextResponses == ASSUME IInv, ResponsesInOrder, [Next]_vars PROVE ResponsesInOrder'
<1>1. CASE WorkerExecute \/ WorkerDrop
  <2>1. req \in Requests
    BY <1>1 DEF IInv, PcsAgree, WorkerExecute, WorkerDrop
  <2>2. CASE served' = served
    BY <1>1, <2>2, ResponsesUntouched DEF WorkerExecute, WorkerDrop
  <2>3. CASE served' # served
    <3>1. \/ req \in FireAndForget /\ served' = Append(served, [req |-> req, outcome |-> "done"])
          \/ served' = Append(served, [req |-> req, outcome |-> "dropped"])
      BY <1>1, <2>3 DEF WorkerExecute, WorkerDrop
    <3>2. PICK x \in [req : Requests, outcome : Outcomes] :
              served' = Append(served, x) /\ (x.outcome # "done" \/ x.req \in FireAndForget)
      <4>1. /\ [req |-> req, outcome |-> "done"] \in [req : Requests, outcome : Outcomes]
            /\ [req |-> req, outcome |-> "dropped"] \in [req : Requests, outcome : Outcomes]
        BY <2>1 DEF Outcomes
      <4>. QED
        BY <3>1, <4>1
    <3>3. UNCHANGED <<respQueue, handled>>
      BY <1>1 DEF WorkerExecute, WorkerDrop
    <3>. QED
      BY <3>2, <3>3, UnansweredKeepsResponses DEF IInv
  <2>. QED
    BY <2>2, <2>3
<1>2. CASE WorkerRespond
  BY <1>2, RespondKeepsResponses
<1>3. CASE GetResponseQueue
  BY <1>3, CollectKeepsResponses
<1>4. CASE \/ WorkerLock \/ WorkerExit \/ WorkerIdle \/ WorkerMustWait \/ WorkerNextIteration
           \/ WorkerWait \/ WorkerReacquire \/ WorkerPop \/ SpuriousWakeup \/ UNCHANGED vars
  <2>1. UNCHANGED <<served, respQueue, handled>>
    BY <1>4 DEF WorkerLock, WorkerExit, WorkerIdle, WorkerMustWait, WorkerNextIteration, WorkerWait,
                WorkerReacquire, WorkerPop, SpuriousWakeup, vars, historyVars
  <2>. QED
    BY <2>1, ResponsesUntouched
<1>5. CASE Start \/ (\E caller \in Callers : StopStore(caller)) \/ StopNotify \/ Join
           \/ (\E r \in Requests : Enqueue(r))
  <2>1. UNCHANGED <<served, respQueue, handled>>
    BY <1>5 DEF Start, StopStore, StopNotify, Join, Enqueue, historyVars
  <2>. QED
    BY <2>1, ResponsesUntouched
<1>. QED
  BY <1>1, <1>2, <1>3, <1>4, <1>5 DEF Next, WorkerStep, MainStep

\* GetResponseQueue returns the answers in the order in which the worker
\* finished the requests, each once, whenever the main thread collects them.
THEOREM ResponsesStayInOrder == Spec => []ResponsesInOrder
<1>1. Init => ResponsesInOrder
  <2>1. ASSUME Init PROVE Answered = {} /\ handled \o respQueue = <<>>
    <3>1. served = <<>> /\ Len(<<>>) = 0 /\ 1..0 = {}
      BY <2>1, EmptySeq DEF Init
    <3>2. handled \o respQueue = <<>>
      BY <2>1 DEF Init
    <3>. QED
      BY <3>1, <3>2 DEF Answered
  <2>. QED
    BY <2>1, FS_EmptySet, EmptySeq DEF ResponsesInOrder
<1>2. IInv /\ IInv' /\ ResponsesInOrder /\ [Next]_vars => ResponsesInOrder'
  BY NextResponses
<1>. QED
  BY <1>1, <1>2, Invariance, PTL DEF Spec

(***************************************************************************)
(* Refinement of FifoService.                                              *)
(***************************************************************************)

\* What FifoService calls pending is a sequence of requests.
LEMMA PendingType ==
  ASSUME IInv
  PROVE  InHand \in Seq(Requests) /\ InHand \o execQueue \in Seq(Requests)
<1>1. InHand \in Seq(Requests)
  BY DEF IInv, PcsAgree, InHand
<1>. QED
  BY <1>1, ConcatProperties DEF IInv, TypeOK

\* Steps of the worker that FifoService does not see.
LEMMA PopStutters ==
  ASSUME IInv, WorkerPop
  PROVE  UNCHANGED Service!vars
<1>1. execQueue # <<>> /\ execQueue \in Seq(Requests)
  BY EmptySeq DEF IInv, TypeOK, WorkerPop
<1>2. InHand = <<>> /\ InHand' = <<Head(execQueue)>> /\ execQueue' = Tail(execQueue)
  BY DEF WorkerPop, InHand
<1>3. InHand' \o execQueue' = execQueue
  BY <1>1, <1>2, HeadConsTail
<1>4. InHand \o execQueue = execQueue
  BY <1>1, <1>2, ConcatEmptySeq
<1>. QED
  BY <1>3, <1>4 DEF WorkerPop, mainVars, historyVars, Phase, Service!vars

\* The steps of the worker that only take or release the mutex, wait, or
\* decide, and those that wake it, change nothing the service shows.
LEMMA ControlStutters ==
  ASSUME IInv,
         WorkerLock \/ WorkerExit \/ WorkerIdle \/ WorkerMustWait
         \/ WorkerNextIteration \/ WorkerWait \/ WorkerReacquire \/ SpuriousWakeup
         \/ StopNotify
  PROVE  UNCHANGED Service!vars
<1>1. InHand' = InHand /\ Phase' = Phase
      /\ UNCHANGED <<execQueue, served, respQueue, handled>>
  BY DEF WorkerLock, WorkerExit, WorkerIdle, WorkerMustWait, WorkerNextIteration,
         WorkerWait, WorkerReacquire, SpuriousWakeup, StopNotify, NotifyAll,
         queueVars, mainVars, historyVars, InHand, Phase
<1>. QED
  BY <1>1 DEF Service!vars

\* Finishing the request in hand is the service's Finish of its oldest request.
LEMMA FinishRefines ==
  ASSUME IInv, WorkerExecute \/ WorkerDrop \/ WorkerRespond
  PROVE  [Service!Next]_(Service!vars)
<1>1. CASE workerPc' = "respond"
  <2>1. InHand' = InHand /\ Phase' = Phase
        /\ UNCHANGED <<execQueue, served, respQueue, handled>>
    BY <1>1 DEF WorkerExecute, WorkerDrop, WorkerRespond, queueVars, mainVars, InHand, Phase
  <2>. QED
    BY <2>1 DEF Service!vars
<1>2. CASE workerPc' = "lock"
  <2>1. /\ req \in Requests
        /\ InHand = <<req>> /\ InHand' = <<>>
        /\ execQueue' = execQueue /\ handled' = handled /\ Phase' = Phase
    BY <1>2 DEF IInv, PcsAgree, WorkerExecute, WorkerDrop, WorkerRespond,
                queueVars, mainVars, InHand, Phase
  <2>2. /\ InHand \o execQueue \in Seq(Requests)
        /\ InHand \o execQueue # <<>>
        /\ Head(InHand \o execQueue) = req
        /\ Tail(InHand \o execQueue) = execQueue
    <3>1. execQueue \in Seq(Requests) /\ <<req>> \in Seq(Requests) /\ Len(<<req>>) = 1
      BY <2>1 DEF IInv, TypeOK
    <3>2. /\ <<req>> \o execQueue \in Seq(Requests)
          /\ Len(<<req>> \o execQueue) = 1 + Len(execQueue)
          /\ \A i \in 1..1 + Len(execQueue) :
               (<<req>> \o execQueue)[i] = IF i <= 1 THEN <<req>>[i] ELSE execQueue[i - 1]
      BY <3>1, ConcatProperties
    <3>3. Len(execQueue) \in Nat
      BY <3>1, LenProperties
    <3>4. <<req>> \o execQueue # <<>>
      BY <3>2, <3>3, EmptySeq
    <3>5. Head(<<req>> \o execQueue) = req
      BY <3>2, <3>3, <3>4
    <3>6. /\ Tail(<<req>> \o execQueue) \in Seq(Requests)
          /\ Len(Tail(<<req>> \o execQueue)) = Len(execQueue)
          /\ \A i \in 1..Len(execQueue) : Tail(<<req>> \o execQueue)[i] = execQueue[i]
      BY <3>2, <3>3, <3>4, HeadTailProperties
    <3>7. Tail(<<req>> \o execQueue) = execQueue
      BY <3>1, <3>6, SeqEqual
    <3>. QED
      BY <2>1, <3>2, <3>4, <3>5, <3>7
  <2>3. InHand' \o execQueue' = execQueue
    BY <2>1, ConcatEmptySeq DEF IInv, TypeOK
  <2>4. CASE WorkerDrop
    <3>1. Service!Finish("dropped")
      BY <2>1, <2>2, <2>3, <2>4 DEF WorkerDrop, Service!Finish
    <3>. QED
      BY <3>1 DEF Service!Next, Service!Outcomes
  <2>5. CASE WorkerExecute
    <3>1. req \in FireAndForget
      BY <1>2, <2>5 DEF WorkerExecute
    <3>2. Service!Finish("done")
      BY <2>1, <2>2, <2>3, <2>5, <3>1 DEF WorkerExecute, Service!Finish
    <3>. QED
      BY <3>2 DEF Service!Next, Service!Outcomes
  <2>6. CASE WorkerRespond
    <3>1. req \notin FireAndForget
      BY <2>6 DEF IInv, PcsAgree, WorkerRespond
    <3>2. Service!Finish("done")
      BY <2>1, <2>2, <2>3, <2>6, <3>1 DEF WorkerRespond, Service!Finish
    <3>. QED
      BY <3>2 DEF Service!Next, Service!Outcomes
  <2>. QED
    BY <2>4, <2>5, <2>6
<1>. QED
  BY <1>1, <1>2 DEF WorkerExecute, WorkerDrop, WorkerRespond

\* The calls of the main thread.
LEMMA MainRefines ==
  ASSUME IInv, MainStep
  PROVE  [Service!Next]_(Service!vars)
<1>. USE DEF mainVars, historyVars, queueVars
<1>1. CASE Start
  <2>1. InHand' = InHand /\ Phase = "down" /\ Phase' = "up"
        /\ UNCHANGED <<execQueue, served, respQueue, handled>>
    BY <1>1 DEF Start, CreateThread, InHand, Phase
  <2>2. Service!Open
    BY <2>1 DEF Service!Open
  <2>. QED
    BY <2>2 DEF Service!Next
<1>2. ASSUME NEW caller \in Callers, StopStore(caller) PROVE Service!Next
  <2>1. InHand' = InHand /\ Phase = "up" /\ Phase' = "stopping"
        /\ UNCHANGED <<execQueue, served, respQueue, handled>>
    BY <1>2 DEF StopStore, InHand, Phase
  <2>2. Service!Stop
    BY <2>1 DEF Service!Stop
  <2>. QED
    BY <2>2 DEF Service!Next
<1>3. CASE StopNotify
  BY <1>3, ControlStutters
<1>4. CASE Join
  <2>1. InHand = <<>> /\ InHand' = <<>> /\ execQueue = <<>>
    BY <1>4 DEF Join, CreateThread, IInv, PcsAgree, InHand
  <2>2. Phase = "stopping" /\ Phase' \in {"down", "up"}
        /\ UNCHANGED <<execQueue, served, respQueue, handled>>
    BY <1>4 DEF Join, CreateThread, Phase
  <2>3. InHand \o execQueue = <<>> /\ InHand' \o execQueue' = <<>>
    BY <2>1, <2>2, EmptySeq, ConcatEmptySeq
  <2>4. Service!Down
    BY <2>2, <2>3 DEF Service!Down
  <2>. QED
    BY <2>4 DEF Service!Next
<1>5. ASSUME NEW r \in Requests, Enqueue(r) PROVE Service!Next
  <2>1. Phase = "up" /\ Phase' = "up" /\ InHand' = InHand
        /\ UNCHANGED <<served, respQueue, handled>>
    BY <1>5 DEF IInv, PcsAgree, Enqueue, NotifyAll, InHand, Phase
  <2>2. InHand' \o execQueue' = Append(InHand \o execQueue, r)
    BY <1>5, <2>1, PendingType, ConcatAppend DEF Enqueue, IInv, TypeOK
  <2>3. Service!Submit(r)
    BY <2>1, <2>2 DEF Service!Submit
  <2>. QED
    BY <2>3 DEF Service!Next
<1>6. CASE GetResponseQueue
  <2>1. InHand' = InHand /\ Phase' = Phase
    BY <1>6 DEF GetResponseQueue, InHand, Phase
  <2>2. Service!Collect
    BY <1>6, <2>1 DEF GetResponseQueue, Service!Collect
  <2>. QED
    BY <2>2 DEF Service!Next
<1>. QED
  BY <1>1, <1>2, <1>3, <1>4, <1>5, <1>6 DEF MainStep

\* The two-threaded worker is a FIFO service: every step of its condition
\* variable, mutex and queues is a step of FifoService or invisible to it.
THEOREM Refinement == Spec => Service!SafeSpec
<1>1. Init => Service!Init
  <2>. SUFFICES ASSUME Init PROVE Service!Init
    OBVIOUS
  <2>1. InHand = <<>> /\ execQueue = <<>>
    BY DEF Init, InHand
  <2>2. InHand \o execQueue = <<>>
    BY <2>1, EmptySeq, ConcatEmptySeq
  <2>3. Phase = "down"
    BY DEF Init, Phase
  <2>. QED
    BY <2>2, <2>3 DEF Init, Service!Init
<1>2. IInv /\ [Next]_vars => [Service!Next]_(Service!vars)
  <2>. SUFFICES ASSUME IInv, [Next]_vars PROVE [Service!Next]_(Service!vars)
    OBVIOUS
  <2>1. CASE WorkerStep \/ SpuriousWakeup
    BY <2>1, ControlStutters, PopStutters, FinishRefines DEF WorkerStep
  <2>2. CASE MainStep
    BY <2>2, MainRefines
  <2>3. CASE UNCHANGED vars
    BY <2>3 DEF vars, queueVars, mainVars, historyVars, InHand, Phase, Service!vars
  <2>. QED
    BY <2>1, <2>2, <2>3 DEF Next
<1>. QED
  BY <1>1, <1>2, Invariance, PTL DEF Spec, Service!SafeSpec
==============================================================================
