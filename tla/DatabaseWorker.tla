---------------------------- MODULE DatabaseWorker ----------------------------
(***************************************************************************)
(* database/DB/Threading/DatabaseWorker.h: the thread that executes SQL    *)
(* requests for the main thread.  Every step of ThreadRoutine between two  *)
(* operations on m_executionMutex is an action of its own, so the          *)
(* predicate of the wait loop and the wait are two steps, and Stop's store *)
(* and its notify_all are two steps.  The main thread's critical sections  *)
(* hold one statement group each and are one action.                       *)
(*                                                                         *)
(* Sleep(3000) (simulated load) and logging are left out.  m_noticeFunc is *)
(* TCPSocketManager::WakeUp, whose body is commented out: it changes       *)
(* nothing and is part of WorkerRespond.                                   *)
(***************************************************************************)
EXTENDS Integers, Sequences, FiniteSets

CONSTANTS Requests,       \* identities of the DBRequests, each enqueued at most once
          FireAndForget,  \* those constructed with m_fireAndForget = true
          NoRequest,      \* the worker's local `req` before the first pop
          MaxStarts       \* bound on the calls of Start

ASSUME RequestsAssumption == /\ FireAndForget \subseteq Requests
                             /\ NoRequest \notin Requests
ASSUME MaxStartsAssumption == MaxStarts \in Nat

VARIABLES execMutex,      \* who holds m_executionMutex: "free" or "worker"
          execQueue,      \* m_execQueue
          execQueueSize,  \* m_execQueueSize
          running,        \* m_running
          respQueue,      \* m_respQueue, only touched under m_respMutex
          workerPc,       \* the next statement of ThreadRoutine
          req,            \* the local variable req of ThreadRoutine
          mainPc,         \* the call of the main thread that is in progress
          joinFor,        \* who called Stop and Join: "shutdown" or "start"
          starts,         \* calls of Start that created a thread
          submitted,      \* history: requests enqueued, in order
          served,         \* history: requests finished, in order, with outcome
          handled         \* history: requests returned by GetResponseQueue

queueVars   == <<execMutex, execQueue, execQueueSize>>
mainVars    == <<mainPc, joinFor, starts>>
historyVars == <<submitted, served, handled>>
vars == <<queueVars, running, respQueue, workerPc, req, mainVars, historyVars>>

\* "none": no thread, or joined.  "lock": at the unique_lock of the loop.
\* "locked": deciding, mutex held.  "while": at the predicate of the wait
\* loop, mutex held.  "toWait": predicate true, mutex held.  "waiting": in
\* the wait set.  "woken": notified, not yet holding the mutex.
WorkerPcs == {"none", "lock", "locked", "while", "toWait", "waiting", "woken",
              "execute", "respond", "exited"}
MainPcs   == {"idle", "notify", "join"}
Callers   == {"shutdown", "start"}
Outcomes  == {"done", "dropped"}

WasSubmitted(r) == \E i \in 1..Len(submitted) : submitted[i] = r

Init ==
  /\ execMutex = "free" /\ execQueue = <<>> /\ execQueueSize = 0
  /\ running = FALSE
  /\ respQueue = <<>>
  /\ workerPc = "none" /\ req = NoRequest
  /\ mainPc = "idle" /\ joinFor = "shutdown" /\ starts = 0
  /\ submitted = <<>> /\ served = <<>> /\ handled = <<>>

(***************************************************************************)
(* The worker thread.                                                      *)
(***************************************************************************)

\* notify_all moves a waiting thread out of the wait set.
NotifyAll == workerPc' = IF workerPc = "waiting" THEN "woken" ELSE workerPc

WorkerLock ==
  /\ workerPc = "lock" /\ execMutex = "free"
  /\ execMutex' = "worker" /\ workerPc' = "locked"
  /\ UNCHANGED <<execQueue, execQueueSize, running, respQueue, req, mainVars, historyVars>>

\* Mutant of WorkerExit: the size of the queue is not looked at.
WorkerExitAtOnce ==
  /\ workerPc = "locked" /\ ~running
  /\ execMutex' = "free" /\ workerPc' = "exited"
  /\ UNCHANGED <<execQueue, execQueueSize, running, respQueue, req, mainVars, historyVars>>

\* Stopped and nothing left in the queue: leave the loop.
WorkerExit ==
  /\ workerPc = "locked" /\ ~running /\ execQueueSize <= 0
  /\ execMutex' = "free" /\ workerPc' = "exited"
  /\ UNCHANGED <<execQueue, execQueueSize, running, respQueue, req, mainVars, historyVars>>

WorkerIdle ==
  /\ workerPc = "locked" /\ running /\ execQueueSize <= 0
  /\ workerPc' = "while"
  /\ UNCHANGED <<queueVars, running, respQueue, req, mainVars, historyVars>>

\* The predicate holds: go on to wait, still holding the mutex.
WorkerMustWait ==
  /\ workerPc = "while" /\ execQueueSize <= 0 /\ running
  /\ workerPc' = "toWait"
  /\ UNCHANGED <<queueVars, running, respQueue, req, mainVars, historyVars>>

\* The predicate fails: the iteration ends and unique_lock is destroyed.
WorkerNextIteration ==
  /\ workerPc = "while" /\ ~(execQueueSize <= 0 /\ running)
  /\ execMutex' = "free" /\ workerPc' = "lock"
  /\ UNCHANGED <<execQueue, execQueueSize, running, respQueue, req, mainVars, historyVars>>

\* condition_variable::wait releases the mutex and blocks in one step.
WorkerWait ==
  /\ workerPc = "toWait"
  /\ execMutex' = "free" /\ workerPc' = "waiting"
  /\ UNCHANGED <<execQueue, execQueueSize, running, respQueue, req, mainVars, historyVars>>

\* The wait may return without a notification.
SpuriousWakeup ==
  /\ workerPc = "waiting"
  /\ workerPc' = "woken"
  /\ UNCHANGED <<queueVars, running, respQueue, req, mainVars, historyVars>>

WorkerReacquire ==
  /\ workerPc = "woken" /\ execMutex = "free"
  /\ execMutex' = "worker" /\ workerPc' = "while"
  /\ UNCHANGED <<execQueue, execQueueSize, running, respQueue, req, mainVars, historyVars>>

\* Mutants of WorkerPop: the newest request is taken; the request is popped
\* and not kept.
WorkerPopNewest ==
  /\ workerPc = "locked" /\ execQueueSize > 0
  /\ req' = execQueue[Len(execQueue)]
  /\ execQueue' = SubSeq(execQueue, 1, Len(execQueue) - 1)
  /\ execQueueSize' = execQueueSize - 1
  /\ execMutex' = "free" /\ workerPc' = "execute"
  /\ UNCHANGED <<running, respQueue, mainVars, historyVars>>
WorkerPopUnkept ==
  /\ workerPc = "locked" /\ execQueueSize > 0
  /\ execQueue' = Tail(execQueue)
  /\ execQueueSize' = execQueueSize - 1
  /\ execMutex' = "free" /\ workerPc' = "execute"
  /\ UNCHANGED <<running, respQueue, req, mainVars, historyVars>>

WorkerPop ==
  /\ workerPc = "locked" /\ execQueueSize > 0
  /\ req' = Head(execQueue)
  /\ execQueue' = Tail(execQueue)
  /\ execQueueSize' = execQueueSize - 1
  /\ execMutex' = "free" /\ workerPc' = "execute"
  /\ UNCHANGED <<running, respQueue, mainVars, historyVars>>

\* execute() returned.  A fire-and-forget request is finished; another one
\* goes on to the response queue.
WorkerExecute ==
  /\ workerPc = "execute"
  /\ IF req \in FireAndForget
     THEN /\ served' = Append(served, [req |-> req, outcome |-> "done"])
          /\ workerPc' = "lock"
     ELSE /\ workerPc' = "respond"
          /\ UNCHANGED served
  /\ UNCHANGED <<queueVars, running, respQueue, req, mainVars, submitted, handled>>

\* Mutant of WorkerDrop: a failed request is put back at the end of the queue.
WorkerDropRequeues ==
  /\ workerPc = "execute"
  /\ execQueue' = Append(execQueue, req)
  /\ execQueueSize' = execQueueSize + 1
  /\ workerPc' = "lock"
  /\ UNCHANGED <<execMutex, running, respQueue, req, mainVars, historyVars>>

\* execute() threw: one of the three catch clauses logs, nothing else.
WorkerDrop ==
  /\ workerPc = "execute"
  /\ served' = Append(served, [req |-> req, outcome |-> "dropped"])
  /\ workerPc' = "lock"
  /\ UNCHANGED <<queueVars, running, respQueue, req, mainVars, submitted, handled>>

WorkerRespond ==
  /\ workerPc = "respond"
  /\ respQueue' = Append(respQueue, req)
  /\ served' = Append(served, [req |-> req, outcome |-> "done"])
  /\ workerPc' = "lock"
  /\ UNCHANGED <<queueVars, running, req, mainVars, submitted, handled>>

WorkerStep == \/ WorkerLock \/ WorkerExit \/ WorkerIdle \/ WorkerMustWait
              \/ WorkerNextIteration \/ WorkerWait \/ WorkerReacquire
              \/ WorkerPop \/ WorkerExecute \/ WorkerDrop \/ WorkerRespond

(***************************************************************************)
(* The main thread: the calls NECROServer and its sessions make.           *)
(***************************************************************************)

CreateThread ==
  /\ starts < MaxStarts
  /\ running' = TRUE /\ workerPc' = "lock"
  /\ starts' = starts + 1

\* Start when no thread is joinable.
Start ==
  /\ mainPc = "idle" /\ workerPc = "none"
  /\ CreateThread
  /\ UNCHANGED <<queueVars, respQueue, req, mainPc, joinFor, historyVars>>

\* Mutant of StopStore: the flag is written without the lock.
StopStoreUnlocked(caller) ==
  /\ mainPc = "idle" /\ workerPc # "none"
  /\ caller = "start" => starts < MaxStarts
  /\ running' = FALSE
  /\ mainPc' = "notify" /\ joinFor' = caller
  /\ UNCHANGED <<queueVars, respQueue, workerPc, req, starts, historyVars>>

\* Stop, up to the end of the lock_guard's scope.  The caller is the
\* server's shutdown, or Start because the thread is still joinable.
StopStore(caller) ==
  /\ mainPc = "idle" /\ workerPc # "none"
  /\ caller = "start" => starts < MaxStarts
  /\ execMutex = "free"
  /\ running' = FALSE
  /\ mainPc' = "notify" /\ joinFor' = caller
  /\ UNCHANGED <<queueVars, respQueue, workerPc, req, starts, historyVars>>

\* Mutant of StopNotify: the notification is forgotten.
StopNotifySilent ==
  /\ mainPc = "notify"
  /\ mainPc' = "join"
  /\ UNCHANGED <<queueVars, running, respQueue, workerPc, req, joinFor, starts, historyVars>>

StopNotify ==
  /\ mainPc = "notify"
  /\ NotifyAll
  /\ mainPc' = "join"
  /\ UNCHANGED <<queueVars, running, respQueue, req, joinFor, starts, historyVars>>

\* Join returns once the thread has exited.
Join ==
  /\ mainPc = "join" /\ workerPc = "exited"
  /\ mainPc' = "idle"
  /\ IF joinFor = "start"
     THEN CreateThread
     ELSE workerPc' = "none" /\ UNCHANGED <<running, starts>>
  /\ joinFor' = "shutdown"
  /\ UNCHANGED <<queueVars, respQueue, req, historyVars>>

\* Mutants of Enqueue: the counter is not incremented; the worker is not
\* notified.
EnqueueUncounted(r) ==
  /\ mainPc = "idle" /\ running /\ ~WasSubmitted(r) /\ execMutex = "free"
  /\ execQueue' = Append(execQueue, r)
  /\ NotifyAll
  /\ submitted' = Append(submitted, r)
  /\ UNCHANGED <<execMutex, execQueueSize, running, respQueue, req, mainVars, served, handled>>
EnqueueSilent(r) ==
  /\ mainPc = "idle" /\ running /\ ~WasSubmitted(r) /\ execMutex = "free"
  /\ execQueue' = Append(execQueue, r)
  /\ execQueueSize' = execQueueSize + 1
  /\ submitted' = Append(submitted, r)
  /\ UNCHANGED <<execMutex, running, respQueue, workerPc, req, mainVars, served, handled>>

\* Called by the sessions while the server's Update loop runs, that is
\* between Start and Stop.
Enqueue(r) ==
  /\ mainPc = "idle" /\ running
  /\ ~WasSubmitted(r)
  /\ execMutex = "free"
  /\ execQueue' = Append(execQueue, r)
  /\ execQueueSize' = execQueueSize + 1
  /\ NotifyAll
  /\ submitted' = Append(submitted, r)
  /\ UNCHANGED <<execMutex, running, respQueue, req, mainVars, served, handled>>

\* Mutant of GetResponseQueue: the queue is copied instead of swapped out.
GetResponseQueueCopies ==
  /\ mainPc = "idle" /\ running /\ respQueue # <<>>
  /\ handled' = handled \o respQueue
  /\ UNCHANGED <<queueVars, running, respQueue, workerPc, req, mainVars, submitted, served>>

GetResponseQueue ==
  /\ mainPc = "idle" /\ running
  /\ handled' = handled \o respQueue
  /\ respQueue' = <<>>
  /\ UNCHANGED <<queueVars, running, workerPc, req, mainVars, submitted, served>>

MainStep == \/ Start
            \/ \E caller \in Callers : StopStore(caller)
            \/ StopNotify
            \/ Join
            \/ \E r \in Requests : Enqueue(r)
            \/ GetResponseQueue

Next == WorkerStep \/ SpuriousWakeup \/ MainStep

\* The operating system runs a thread that can run.  Nothing obliges the
\* server to enqueue, to stop or to look at the responses.
Fairness == /\ WF_vars(WorkerStep)
            /\ WF_vars(StopNotify)
            /\ WF_vars(Join)

Spec == Init /\ [][Next]_vars /\ Fairness

(***************************************************************************)
(* Properties.                                                             *)
(***************************************************************************)

TypeOK ==
  /\ execMutex \in {"free", "worker"}
  /\ execQueue \in Seq(Requests)
  /\ execQueueSize \in Int
  /\ running \in BOOLEAN
  /\ respQueue \in Seq(Requests)
  /\ workerPc \in WorkerPcs
  /\ req \in Requests \cup {NoRequest}
  /\ mainPc \in MainPcs
  /\ joinFor \in Callers
  /\ starts \in 0..MaxStarts
  /\ submitted \in Seq(Requests)
  /\ served \in Seq([req : Requests, outcome : Outcomes])
  /\ handled \in Seq(Requests)

InHand == IF workerPc \in {"execute", "respond"} THEN <<req>> ELSE <<>>

ServedRequests == [i \in 1..Len(served) |-> served[i].req]

\* The mutex is held exactly between the worker's lock and unlock.
MutexHeld == execMutex = "worker" <=> workerPc \in {"locked", "while", "toWait"}

\* Where the two threads can be relative to each other.
PcsAgree ==
  /\ mainPc = "idle" => (running <=> workerPc # "none")
  /\ mainPc # "idle" => ~running /\ workerPc # "none"
  /\ workerPc = "exited" => mainPc # "idle"
  /\ workerPc \in {"none", "exited"} => execQueue = <<>>
  /\ workerPc \in {"execute", "respond"} => req \in Requests
  /\ workerPc = "respond" => req \notin FireAndForget

\* Requests are executed one at a time in the order in which the sessions
\* enqueued them and none is lost, repeated or overtaken, whatever the
\* interleaving of Enqueue, Stop and the worker, across restarts: what was
\* enqueued is what was finished, then the request in hand, then the queue.
InOrder == submitted = ServedRequests \o InHand \o execQueue

\* A thread that a notification should wake is never asleep: when the
\* worker is in the wait set there is nothing to execute, and if it is to
\* stop, the notification that follows Stop's store is still to come; when
\* it is about to enter the wait set, what it saw is still so.
NoLostWakeup ==
  /\ workerPc \in {"toWait", "waiting"} => execQueueSize = 0
  /\ workerPc = "waiting" => running \/ mainPc = "notify"
  /\ workerPc = "toWait" => running

\* The inductive invariant.
IInv == /\ TypeOK
        /\ execQueueSize = Len(execQueue)
        /\ MutexHeld
        /\ PcsAgree
        /\ NoLostWakeup
        /\ InOrder

\* Stop lets the queue run empty: the thread never ends while a request is
\* queued or in hand.
StopDrains == workerPc = "exited" => Len(served) = Len(submitted)

\* Each completed request that asked for a callback reaches the main
\* thread exactly once and in order; a dropped or a fire-and-forget one never
\* does: the n-th response is that of the n-th request that was answered.
Answered == {i \in 1..Len(served) : served[i].outcome = "done" /\ served[i].req \notin FireAndForget}
AnsweredUpTo(i) == Cardinality({j \in Answered : j <= i})
ResponsesInOrder ==
  LET responses == handled \o respQueue
  IN  /\ Len(responses) = Cardinality(Answered)
      /\ \A i \in Answered : responses[AnsweredUpTo(i)] = served[i].req

\* Every request that was enqueued is finished, completed or dropped.
EveryRequestFinishes ==
  \A r \in Requests :
    WasSubmitted(r) ~> \E i \in 1..Len(served) : served[i].req = r

\* A call of Stop is followed by the end of the thread, so Join returns.
StopReturns == (mainPc = "notify") ~> (mainPc = "idle")

\* The worker implements the FIFO service the sessions rely on.
Phase == IF mainPc # "idle" THEN "stopping"
         ELSE IF workerPc = "none" THEN "down" ELSE "up"

Service == INSTANCE FifoService WITH
             pending <- InHand \o execQueue, ready <- respQueue, phase <- Phase

ImplementsFifoService == Service!Spec
===============================================================================
