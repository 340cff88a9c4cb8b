---------------------------- MODULE LoginDatabase ----------------------------
(***************************************************************************)
(* What the authentication server keeps in the login database and the      *)
(* requests it enqueues for it (AuthSession.cpp, LoginDatabase.h).  The    *)
(* DatabaseWorker appears as the FIFO service that FifoService specifies:  *)
(* the oldest request finishes, completed or dropped.  Accounts are        *)
(* identified by their user names, session keys by the order in which they *)
(* were generated (GenerateSessionKey draws 16 random bytes: no repeats).  *)
(***************************************************************************)
EXTENDS Integers, Sequences

CONSTANTS Sessions,    \* the AuthSessions that enqueue requests
          Users,       \* the user names a client can send
          Registered,  \* those with a row in necroauth.users
          Outcomes,    \* what can become of a request: {"done"} or {"done", "dropped"}
          MaxQueue,    \* bound on the requests and responses waiting at a time
          MaxKeys      \* bound on the session keys generated

ASSUME UsersAssumption    == Registered \subseteq Users
ASSUME OutcomesAssumption == "done" \in Outcomes /\ Outcomes \subseteq {"done", "dropped"}
ASSUME BoundsAssumption   == MaxQueue \in Nat /\ MaxKeys \in Nat

VARIABLES dbQueue,    \* the worker's m_execQueue
          responses,  \* its m_respQueue: completed SELECTs
          rows,       \* necroauth.active_sessions
          inserting,  \* the insert a session is about to enqueue, or nothing
          lastKey,    \* history: the key of each account's last login, 0 if none
          issued      \* history: how many keys were generated

dbVars == <<dbQueue, responses, rows, inserting, lastKey, issued>>

Select(s, u)  == [op |-> "select", session |-> s, user |-> u]
Log(u)        == [op |-> "log", user |-> u]
Delete(a)     == [op |-> "delete", account |-> a]
Insert(a, k)  == [op |-> "insert", account |-> a, key |-> k]

Selects  == [op : {"select"}, session : Sessions, user : Users]
Logs     == [op : {"log"}, user : Users]
Deletes  == [op : {"delete"}, account : Registered]
Inserts  == [op : {"insert"}, account : Registered, key : Nat]
Requests == Selects \cup Logs \cup Deletes \cup Inserts
Rows     == [account : Registered, key : Nat]

Nothing == <<>>
Room    == Len(dbQueue) + Len(responses) < MaxQueue

DbInit == /\ dbQueue = <<>> /\ responses = <<>> /\ rows = {}
          /\ inserting = Nothing
          /\ lastKey = [a \in Registered |-> 0]
          /\ issued = 0

\* HandleAuthLoginGatherInfoPacket asks for the account of a user name.
EnqueueSelect(s, u) ==
  /\ inserting = Nothing /\ Room
  /\ dbQueue' = Append(dbQueue, Select(s, u))
  /\ UNCHANGED <<responses, rows, inserting, lastKey, issued>>

\* HandleAuthLoginProofPacket, wrong password.
EnqueueLog(u) ==
  /\ inserting = Nothing /\ Room
  /\ dbQueue' = Append(dbQueue, Log(u))
  /\ UNCHANGED <<responses, rows, inserting, lastKey, issued>>

\* Mutant of EnqueueDelete: the delete is left out.
EnqueueDeleteSkipped(a) ==
  /\ inserting = Nothing /\ Room /\ issued < MaxKeys
  /\ issued' = issued + 1
  /\ inserting' = Insert(a, issued')
  /\ UNCHANGED <<dbQueue, responses, rows, lastKey>>

\* HandleAuthLoginProofPacket, right password: a key is generated and the
\* delete of the account's earlier sessions is enqueued ...
EnqueueDelete(a) ==
  /\ inserting = Nothing /\ Room /\ issued < MaxKeys
  /\ issued' = issued + 1
  /\ dbQueue' = Append(dbQueue, Delete(a))
  /\ inserting' = Insert(a, issued')
  /\ UNCHANGED <<responses, rows, lastKey>>

\* Mutants of EnqueueInsert: the insert overtakes the delete; it is not
\* enqueued at all.
EnqueueInsertFirst ==
  /\ inserting # Nothing
  /\ dbQueue' = <<inserting>> \o dbQueue
  /\ lastKey' = [lastKey EXCEPT ![inserting.account] = inserting.key]
  /\ inserting' = Nothing
  /\ UNCHANGED <<responses, rows, issued>>
EnqueueInsertLost ==
  /\ inserting # Nothing
  /\ lastKey' = [lastKey EXCEPT ![inserting.account] = inserting.key]
  /\ inserting' = Nothing
  /\ UNCHANGED <<dbQueue, responses, rows, issued>>

\* ... and then the insert of the new one.  The worker may run in between.
EnqueueInsert ==
  /\ inserting # Nothing
  /\ dbQueue' = Append(dbQueue, inserting)
  /\ lastKey' = [lastKey EXCEPT ![inserting.account] = inserting.key]
  /\ inserting' = Nothing
  /\ UNCHANGED <<responses, rows, issued>>

\* active_sessions after a request was executed on t.
Effect(t, request) ==
  CASE request.op = "delete" -> {row \in t : row.account # request.account}
    [] request.op = "insert" -> t \cup {[account |-> request.account, key |-> request.key]}
    [] OTHER                 -> t

\* The worker finishes its oldest request.  A dropped request (execute
\* threw) changes nothing and has no response.
Finish(outcome) ==
  /\ dbQueue # <<>>
  /\ dbQueue' = Tail(dbQueue)
  /\ rows' = IF outcome = "done" THEN Effect(rows, Head(dbQueue)) ELSE rows
  /\ responses' = IF outcome = "done" /\ Head(dbQueue).op = "select"
                  THEN Append(responses, Head(dbQueue)) ELSE responses
  /\ UNCHANGED <<inserting, lastKey, issued>>

\* Poll takes the completed requests to run their callbacks.
Collect ==
  /\ inserting = Nothing
  /\ responses' = <<>>
  /\ UNCHANGED <<dbQueue, rows, inserting, lastKey, issued>>

DbNext == \/ \E s \in Sessions, u \in Users : EnqueueSelect(s, u)
          \/ \E u \in Users : EnqueueLog(u)
          \/ \E a \in Registered : EnqueueDelete(a)
          \/ EnqueueInsert
          \/ \E outcome \in Outcomes : Finish(outcome)
          \/ Collect

DbSafeSpec == DbInit /\ [][DbNext]_dbVars

\* The worker executes what is queued; a handler that began goes on.
DbSpec == DbSafeSpec /\ WF_dbVars(\E outcome \in Outcomes : Finish(outcome))
                     /\ WF_dbVars(EnqueueInsert)

-----------------------------------------------------------------------------

DbTypeOK == /\ dbQueue \in Seq(Requests)
            /\ responses \in Seq(Selects)
            /\ rows \subseteq Rows
            /\ inserting \in Inserts \cup {Nothing}
            /\ lastKey \in [Registered -> Nat]
            /\ issued \in Nat

\* An account never has two active sessions, at any moment and for any
\* interleaving of logins (of several sessions, to one account) and the
\* worker: the delete of the earlier ones is executed before the insert.
OneSessionPerAccount == \A x, y \in rows : x.account = y.account => x = y

\* Why: an insert follows a delete of the same account immediately.  Where
\* the delete is already executed, the account has no row.
Absent(a) == \A row \in rows : row.account # a
DeleteBeforeInsert ==
  \A i \in 1..Len(dbQueue) :
    dbQueue[i].op = "insert" =>
      IF i = 1 THEN Absent(dbQueue[i].account) ELSE dbQueue[i - 1] = Delete(dbQueue[i].account)
DeleteBeforeInserting ==
  inserting # Nothing =>
    IF dbQueue = <<>> THEN Absent(inserting.account)
    ELSE dbQueue[Len(dbQueue)] = Delete(inserting.account)

\* The inductive invariant.
DbIInv == /\ DbTypeOK
          /\ OneSessionPerAccount
          /\ DeleteBeforeInsert
          /\ DeleteBeforeInserting

\* Once the queue has been executed the table holds, for each account, the
\* key of its last login and nothing else: whatever is still queued, no key
\* is lost to a later delete and no older key stays.  A row survives the
\* queue behind position i if no delete of its account comes after i.
Survives(a, i) == \A j \in 1..Len(dbQueue) : j > i => dbQueue[j] # Delete(a)
LastingInserts ==
  {i \in 1..Len(dbQueue) : dbQueue[i].op = "insert" /\ Survives(dbQueue[i].account, i)}
Projected ==
  {row \in rows : Survives(row.account, 0)}
  \cup {[account |-> dbQueue[i].account, key |-> dbQueue[i].key] : i \in LastingInserts}
LastLoginWins ==
  inserting = Nothing =>
    Projected = {[account |-> a, key |-> lastKey[a]] : a \in {b \in Registered : lastKey[b] # 0}}

\* The key a client is sent is in the table in the end, or a later login to
\* the account has replaced it.
KeyReachesTable ==
  \A a \in Registered : \A k \in 1..MaxKeys :
    lastKey[a] = k ~> (lastKey[a] # k \/ [account |-> a, key |-> k] \in rows)
===============================================================================
