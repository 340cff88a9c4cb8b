-------------------------- MODULE AuthServer_proofs --------------------------
(***************************************************************************)
(* Proofs about the main thread of the authentication server, for any      *)
(* clients and any bounds: callbacks find their session, a session in      *)
(* LOGIN_ATTEMPT has its account, POLLOUT follows the queue, and all that  *)
(* the sessions do to the database is what LoginDatabase describes.        *)
(***************************************************************************)
EXTENDS AuthServer, SequenceTheorems, TLAPS

DbProofs == INSTANCE LoginDatabase_proofs WITH Sessions <- SessionIds

-----------------------------------------------------------------------------
(* Sequences *)

\* The indexes of a sequence, and its elements.
LEMMA Indexes ==
  ASSUME NEW S, NEW s \in Seq(S)
  PROVE  DOMAIN s = 1..Len(s) /\ Len(s) \in Nat /\ \A i \in DOMAIN s : s[i] \in S
  BY LenProperties, ElementOfSeq

\* An element is replaced.
LEMMA Replaced ==
  ASSUME NEW S, NEW s \in Seq(S), NEW i \in DOMAIN s, NEW x \in S
  PROVE  /\ [s EXCEPT ![i] = x] \in Seq(S) /\ Len([s EXCEPT ![i] = x]) = Len(s)
         /\ DOMAIN [s EXCEPT ![i] = x] = DOMAIN s
  OBVIOUS

\* An element is appended.
LEMMA Appended ==
  ASSUME NEW S, NEW s \in Seq(S), NEW x \in S
  PROVE  /\ Append(s, x) \in Seq(S) /\ Len(Append(s, x)) = Len(s) + 1
         /\ \A i \in 1..Len(s) : Append(s, x)[i] = s[i]
         /\ Append(s, x)[Len(s) + 1] = x
         /\ Append(s, x) # <<>>
  OBVIOUS

\* The first element is taken.
LEMMA Taken ==
  ASSUME NEW S, NEW s \in Seq(S), s # <<>>
  PROVE  /\ Tail(s) \in Seq(S) /\ Len(Tail(s)) = Len(s) - 1 /\ Len(s) \in Nat \ {0}
         /\ \A i \in 1..Len(Tail(s)) : Tail(s)[i] = s[i + 1]
         /\ Head(s) \in S /\ Head(s) = s[1]
  BY HeadTailProperties, EmptySeq

\* A part of a sequence.
LEMMA Part ==
  ASSUME NEW S, NEW s \in Seq(S), NEW m \in Nat \ {0}, NEW n \in 0..Len(s)
  PROVE  SubSeq(s, m, n) \in Seq(S)
  <1>1. \A k \in m..n : s[k] \in S
    BY LenProperties, ElementOfSeq
  <1>2. m \in Int /\ n \in Int
    BY LenProperties
  <1> QED
    BY <1>1, <1>2, SubSeqProperties

\* A sequence built from another, index by index.
LEMMA Mapped ==
  ASSUME NEW S, NEW s \in Seq(S), NEW T, NEW t \in [DOMAIN s -> T]
  PROVE  t \in Seq(T) /\ Len(t) = Len(s) /\ DOMAIN t = DOMAIN s
  <1>1. DOMAIN s = 1..Len(s) /\ Len(s) \in Nat
    BY Indexes
  <1>2. t \in [1..Len(s) -> T]
    BY <1>1
  <1>3. t \in Seq(T)
    BY <1>1, <1>2, SeqDef
  <1> QED
    BY <1>1, <1>2, <1>3, LenProperties

\* What the sequence operations do to the set of elements.
LEMMA AppendedRange ==
  ASSUME NEW S, NEW s \in Seq(S), NEW x \in S
  PROVE  Range(Append(s, x)) = Range(s) \cup {x}
  <1> DEFINE t == Append(s, x)
  <1>1. /\ Len(s) \in Nat /\ DOMAIN s = 1..Len(s) /\ DOMAIN t = 1..(Len(s) + 1)
        /\ \A i \in 1..Len(s) : t[i] = s[i]
        /\ t[Len(s) + 1] = x
    BY Appended, LenProperties
  <1> HIDE DEF t
  <1>2. ASSUME NEW y \in Range(t)
        PROVE  y \in Range(s) \cup {x}
    <2>1. PICK i \in 1..(Len(s) + 1) : y = t[i]
      BY <1>1 DEF Range
    <2>2. CASE i \in 1..Len(s)
      BY <1>1, <2>1, <2>2 DEF Range
    <2>3. CASE i = Len(s) + 1
      BY <1>1, <2>1, <2>3
    <2> QED
      BY <1>1, <2>2, <2>3
  <1>3. ASSUME NEW y \in Range(s)
        PROVE  y \in Range(t)
    <2>1. PICK i \in 1..Len(s) : y = s[i]
      BY <1>1 DEF Range
    <2>2. i \in DOMAIN t /\ y = t[i]
      BY <1>1, <2>1
    <2> QED
      BY <2>2 DEF Range
  <1>4. x \in Range(t)
    <2>1. Len(s) + 1 \in DOMAIN t
      BY <1>1
    <2> QED
      BY <1>1, <2>1 DEF Range
  <1> QED
    BY <1>2, <1>3, <1>4 DEF t
\* Taking the first element leaves the others.
LEMMA TakenRange ==
  ASSUME NEW S, NEW s \in Seq(S), s # <<>>
  PROVE  Range(Tail(s)) \subseteq Range(s) /\ Head(s) \in Range(s)
  <1> DEFINE t == Tail(s)
  <1>1. /\ Len(s) \in Nat \ {0} /\ DOMAIN s = 1..Len(s) /\ DOMAIN t = 1..(Len(s) - 1)
        /\ \A i \in 1..(Len(s) - 1) : t[i] = s[i + 1]
        /\ Head(s) = s[1]
    BY Taken, LenProperties
  <1> HIDE DEF t
  <1>2. ASSUME NEW y \in Range(t)
        PROVE  y \in Range(s)
    <2>1. PICK i \in 1..(Len(s) - 1) : y = t[i]
      BY <1>1 DEF Range
    <2>2. i + 1 \in DOMAIN s /\ y = s[i + 1]
      BY <1>1, <2>1
    <2> QED
      BY <2>2 DEF Range
  <1>3. 1 \in DOMAIN s
    BY <1>1
  <1>4. Head(s) \in Range(s)
    BY <1>1, <1>3 DEF Range
  <1> QED
    BY <1>2, <1>4 DEF t
\* There are no elements.
LEMMA EmptyRange == Range(<<>>) = {}
  BY DEF Range

-----------------------------------------------------------------------------
(* The inductive invariant *)

Entry == [fd : Fds \cup {0}, out : BOOLEAN, revents : SUBSET {"in", "out", "err"}]

\* The types of all but the sessions and the poll entries.
RestTypes ==
    /\ pc \in Pcs /\ turn \in 2..(MaxSessions + 2)
    /\ batch \in Seq(Db!Selects)
    /\ list \in Seq(SessionIds)
    /\ capacity \in Nat
    /\ socketOf \in [Fds -> SessionIds \cup {0}]
    /\ inbox \in Seq(Seq(Messages)) /\ gone \subseteq SessionIds /\ sent \in 0..MaxMessages
    /\ Db!DbTypeOK /\ issued <= MaxKeys
Structures == sessions \in Seq(SessionObjects) /\ pollFds \in Seq(Entry)
\* The lists grow together and nothing leaves them: the session created s-th
\* is at index s, its entry behind the listener's.
Aligned ==
    /\ Len(sessions) <= MaxSessions
    /\ Len(list) = Len(sessions) /\ Len(inbox) = Len(sessions) /\ Len(pollFds) = Len(sessions) + 1
    /\ \A s \in DOMAIN sessions : list[s] = s /\ sessions[s].pfd \in {0, s + 1}
\* A session that is read has its place in the list.
AtWork == pc \in {"receive", "reading", "insert"} => turn <= Len(pollFds)
\* The insert of a login is on its way while its handler is between the two
\* requests, and the packet it handles is still in the buffer.
Handling == /\ pc = "insert" <=> inserting # Db!Nothing
            /\ pc = "insert" => me.inBuffer # <<>>
\* A lookup is made by a session that knows the name of its user ...
Asked == \A r \in Lookups : r.session \in DOMAIN sessions /\ sessions[r.session].user \in Users
\* ... so that one past its lookup has a user and an account.
LoggedIn ==
    \A s \in DOMAIN sessions :
       sessions[s].status = "LOGIN_ATTEMPT" => sessions[s].account \in Registered /\ sessions[s].user \in Users
IInv == /\ RestTypes /\ Structures /\ Aligned /\ AtWork /\ Handling /\ Asked /\ LoggedIn
        /\ PollMatchesQueue

-----------------------------------------------------------------------------
(* What the steps have in common *)

\* The proofs of LoginDatabase are about the same database: its types, its
\* steps and its invariant.
LEMMA SameTypes == Db!DbTypeOK <=> DbProofs!DbTypeOK
  BY DEF Db!DbTypeOK, DbProofs!DbTypeOK, Db!Requests, DbProofs!Requests, Db!Selects, DbProofs!Selects,
         Db!Logs, DbProofs!Logs, Db!Deletes, DbProofs!Deletes, Db!Inserts, DbProofs!Inserts,
         Db!Rows, DbProofs!Rows, Db!Nothing, DbProofs!Nothing
\* The steps are the same.
LEMMA SameSteps == [Db!DbNext]_dbVars <=> [DbProofs!DbNext]_(DbProofs!dbVars)
  BY DEF Db!DbNext, DbProofs!DbNext, dbVars, DbProofs!dbVars, Db!Room, DbProofs!Room, Db!Nothing, DbProofs!Nothing,
         Db!EnqueueSelect, DbProofs!EnqueueSelect, Db!Select, DbProofs!Select,
         Db!EnqueueLog, DbProofs!EnqueueLog, Db!Log, DbProofs!Log,
         Db!EnqueueDelete, DbProofs!EnqueueDelete, Db!Delete, DbProofs!Delete, Db!Insert, DbProofs!Insert,
         Db!EnqueueInsert, DbProofs!EnqueueInsert, Db!Collect, DbProofs!Collect,
         Db!Finish, DbProofs!Finish, Db!Effect, DbProofs!Effect

\* A step of the database keeps its types and the number of keys.
LEMMA DbKept ==
  ASSUME Db!DbTypeOK, issued <= MaxKeys, [Db!DbNext]_dbVars
  PROVE  Db!DbTypeOK' /\ issued' <= MaxKeys
  <1>1. DbProofs!DbTypeOK'
    BY SameTypes, SameSteps, DbProofs!DbTypeStep, DatabaseAssumption
  <1>2. Db!DbTypeOK'
    BY <1>1 DEF Db!DbTypeOK, DbProofs!DbTypeOK, Db!Requests, DbProofs!Requests, Db!Selects, DbProofs!Selects,
         Db!Logs, DbProofs!Logs, Db!Deletes, DbProofs!Deletes, Db!Inserts, DbProofs!Inserts,
         Db!Rows, DbProofs!Rows, Db!Nothing, DbProofs!Nothing
  <1>3. issued \in Nat /\ MaxKeys \in Nat
    BY DatabaseAssumption DEF Db!DbTypeOK
  <1>4. issued' <= MaxKeys
    BY <1>3 DEF Db!DbNext, dbVars, Db!EnqueueSelect, Db!EnqueueLog, Db!EnqueueDelete, Db!EnqueueInsert,
                Db!Finish, Db!Collect
  <1> QED
    BY <1>2, <1>4

\* What a step may do to the sessions: they stay where they are with their
\* m_pfd, and one that becomes ready to log in has a user and an account.
SessionsKept ==
    /\ sessions' \in Seq(SessionObjects) /\ Len(sessions') = Len(sessions)
    /\ \A s \in DOMAIN sessions :
          /\ sessions'[s].pfd = sessions[s].pfd
          /\ sessions'[s].user = sessions[s].user \/ sessions'[s].user \in Users
          /\ sessions'[s].status = "LOGIN_ATTEMPT" =>
               sessions'[s].account \in Registered /\ sessions'[s].user \in Users
EntriesKept == pollFds' \in Seq(Entry) /\ Len(pollFds') = Len(pollFds)

\* A step of that kind keeps the invariant.
LEMMA Quiet ==
  ASSUME IInv, SessionsKept, EntriesKept, list' = list, Len(inbox') = Len(inbox), RestTypes', AtWork', Handling',
         \A r \in Lookups' : r \in Lookups \/ (r.session \in DOMAIN sessions /\ sessions'[r.session].user \in Users),
         PollMatchesQueue'
  PROVE  IInv'
  <1>1. DOMAIN sessions = 1..Len(sessions) /\ DOMAIN sessions' = 1..Len(sessions)
    BY Indexes DEF IInv, Structures, SessionsKept
  <1>2. Structures'
    BY DEF SessionsKept, EntriesKept, Structures
  <1>3. Aligned'
    BY <1>1 DEF IInv, Aligned, SessionsKept, EntriesKept
  <1>4. LoggedIn'
    BY <1>1 DEF SessionsKept, LoggedIn
  <1>5. Asked'
    <2> SUFFICES ASSUME NEW r \in Lookups'
                 PROVE  r.session \in DOMAIN sessions' /\ sessions'[r.session].user \in Users
      BY Zenon DEF Asked
    <2>1. CASE r \in Lookups
      <3>1. r.session \in DOMAIN sessions /\ sessions[r.session].user \in Users
        BY <2>1 DEF IInv, Asked
      <3> QED
        BY <1>1, <3>1 DEF SessionsKept
    <2>2. CASE r.session \in DOMAIN sessions /\ sessions'[r.session].user \in Users
      BY <1>1, <2>2
    <2> QED
      BY <2>1, <2>2
  <1> QED
    BY <1>2, <1>3, <1>4, <1>5 DEF IInv

\* Nothing happens to the sessions.
LEMMA SessionsUnchanged ==
  ASSUME IInv, sessions' = sessions
  PROVE  SessionsKept
  BY DEF IInv, Structures, LoggedIn, SessionsKept
\* Nothing happens to the poll entries.
LEMMA EntriesUnchanged ==
  ASSUME IInv, pollFds' = pollFds
  PROVE  EntriesKept
  BY DEF IInv, Structures, EntriesKept

\* The session and the poll entry at the loop's index.
LEMMA Me ==
  ASSUME IInv, turn <= Len(pollFds)
  PROVE  /\ s0 \in DOMAIN sessions /\ s0 = turn - 1 /\ me \in SessionObjects
         /\ turn \in DOMAIN pollFds /\ pollFds[turn] \in Entry
         /\ s0 \in SessionIds /\ s0 \in DOMAIN inbox
  <1>1. /\ sessions \in Seq(SessionObjects) /\ pollFds \in Seq(Entry) /\ list \in Seq(SessionIds)
        /\ inbox \in Seq(Seq(Messages)) /\ turn \in 2..(MaxSessions + 2)
    BY DEF IInv, Structures, RestTypes
  <1>2. /\ DOMAIN sessions = 1..Len(sessions) /\ Len(sessions) \in Nat
        /\ DOMAIN pollFds = 1..(Len(sessions) + 1) /\ DOMAIN inbox = 1..Len(sessions)
        /\ Len(pollFds) = Len(sessions) + 1
        /\ \A s \in DOMAIN sessions : list[s] = s /\ sessions[s] \in SessionObjects
        /\ Len(sessions) <= MaxSessions
        /\ \A i \in DOMAIN pollFds : pollFds[i] \in Entry
    BY <1>1, Indexes DEF IInv, Aligned
  <1>3. turn - 1 \in DOMAIN sessions /\ turn \in DOMAIN pollFds
    BY <1>1, <1>2, LimitsAssumption
  <1>4. s0 = turn - 1
    BY <1>2, <1>3 DEF s0
  <1> QED
    BY <1>2, <1>3, <1>4, LimitsAssumption DEF me, SessionIds

\* Nothing but the types of the rest can be disturbed.
LEMMA Still ==
  ASSUME IInv, UNCHANGED <<sessions, list, pollFds>>, Len(inbox') = Len(inbox), RestTypes', AtWork', Handling',
         Lookups' \subseteq Lookups
  PROVE  IInv'
  <1>1. SessionsKept /\ EntriesKept
    BY SessionsUnchanged, EntriesUnchanged
  <1>2. PollMatchesQueue'
    BY DEF IInv, PollMatchesQueue
  <1> QED
    BY <1>1, <1>2, Quiet

\* The fields of a session.
LEMMA Fields ==
  ASSUME NEW x \in SessionObjects
  PROVE  /\ x.pfd \in 0..(MaxSessions + 1) /\ x.fd \in Fds
         /\ x.user \in Users \cup {""} /\ x.account \in Registered \cup {""}
         /\ x.inBuffer \in Seq(Messages) /\ x.outQueue \in Seq(Replies)
  BY DEF SessionObjects

\* The changes that actions make to a session keep its type.
LEMMA Changes ==
  ASSUME NEW x \in SessionObjects
  PROVE  /\ \A a \in Registered : [x EXCEPT !.status = "LOGIN_ATTEMPT", !.account = a] \in SessionObjects
         /\ \A b \in Seq(Messages) : [x EXCEPT !.inBuffer = b] \in SessionObjects
         /\ \A b \in Seq(Messages), h \in BOOLEAN : [x EXCEPT !.inBuffer = b, !.half = h] \in SessionObjects
         /\ \A b \in Seq(Messages) : [x EXCEPT !.inBuffer = b, !.half = FALSE, !.deaf = TRUE] \in SessionObjects
         /\ \A b \in Seq(Messages), u \in Users, h \in BOOLEAN : [x EXCEPT !.user = u, !.version = h, !.inBuffer = b] \in SessionObjects
         /\ \A b \in Seq(Messages), k \in 0..MaxKeys : [x EXCEPT !.inBuffer = b, !.sessionKey = k] \in SessionObjects
         /\ [x EXCEPT !.pfd = 0] \in SessionObjects
  <1>0. 0 \in 0..(MaxSessions + 1)
    BY LimitsAssumption
  <1>1. \A a \in Registered : [x EXCEPT !.status = "LOGIN_ATTEMPT", !.account = a] \in SessionObjects
    BY DEF SessionObjects
  <1>2. \A b \in Seq(Messages) : [x EXCEPT !.inBuffer = b] \in SessionObjects
    BY DEF SessionObjects
  <1>3. \A b \in Seq(Messages), h \in BOOLEAN : [x EXCEPT !.inBuffer = b, !.half = h] \in SessionObjects
    BY DEF SessionObjects
  <1>4. \A b \in Seq(Messages) : [x EXCEPT !.inBuffer = b, !.half = FALSE, !.deaf = TRUE] \in SessionObjects
    BY DEF SessionObjects
  <1>5. \A b \in Seq(Messages), u \in Users, h \in BOOLEAN : [x EXCEPT !.user = u, !.version = h, !.inBuffer = b] \in SessionObjects
    BY DEF SessionObjects
  <1>6. \A b \in Seq(Messages), k \in 0..MaxKeys : [x EXCEPT !.inBuffer = b, !.sessionKey = k] \in SessionObjects
    BY DEF SessionObjects
  <1>7. [x EXCEPT !.pfd = 0] \in SessionObjects
    BY <1>0 DEF SessionObjects
  <1> QED
    BY <1>1, <1>2, <1>3, <1>4, <1>5, <1>6, <1>7

\* A session whose m_pfd dangles has all else it had.
LEMMA Dangling ==
  ASSUME NEW x \in SessionObjects
  PROVE  LET y == [x EXCEPT !.pfd = 0]
         IN  y.pfd = 0 /\ y.user = x.user /\ y.account = x.account /\ y.status = x.status /\ y.outQueue = x.outQueue
  BY DEF SessionObjects

\* The session s is replaced by one of its name, status and queue, or by one
\* that has them: POLLOUT need not be polled for anew.
LEMMA Edited ==
  ASSUME IInv, NEW s \in DOMAIN sessions, NEW x \in SessionObjects,
         sessions' = [sessions EXCEPT ![s] = x], pollFds' = pollFds,
         x.pfd = sessions[s].pfd, x.outQueue = sessions[s].outQueue, x.account = sessions[s].account,
         x.status = sessions[s].status, x.user = sessions[s].user \/ x.user \in Users
  PROVE  SessionsKept /\ EntriesKept /\ PollMatchesQueue'
  <1>1. sessions \in Seq(SessionObjects)
    BY DEF IInv, Structures
  <1>2. sessions' \in Seq(SessionObjects) /\ Len(sessions') = Len(sessions) /\ DOMAIN sessions' = DOMAIN sessions
    BY <1>1, Replaced
  <1>3. \A t \in DOMAIN sessions : sessions'[t] = IF t = s THEN x ELSE sessions[t]
    BY <1>1
  <1>4. SessionsKept
    BY <1>2, <1>3 DEF IInv, LoggedIn, SessionsKept
  <1>5. PollMatchesQueue'
    <2> SUFFICES ASSUME NEW t \in DOMAIN sessions, sessions'[t].pfd \in DOMAIN pollFds
                 PROVE  pollFds[sessions'[t].pfd].out <=> sessions'[t].outQueue # <<>>
      BY <1>2, Zenon DEF PollMatchesQueue
    <2>1. sessions'[t].pfd = sessions[t].pfd /\ sessions'[t].outQueue = sessions[t].outQueue
      BY <1>3
    <2>2. pollFds[sessions[t].pfd].out <=> sessions[t].outQueue # <<>>
      BY <2>1 DEF IInv, PollMatchesQueue
    <2> QED
      BY <2>1, <2>2
  <1> QED
    BY <1>4, <1>5, EntriesUnchanged

\* A session whose connection is closed keeps all but its SSL object.
LEMMA Closed ==
  ASSUME IInv, NEW s \in DOMAIN sessions, Close(s), pollFds' = pollFds
  PROVE  SessionsKept /\ EntriesKept /\ PollMatchesQueue' /\ socketOf' \in [Fds -> SessionIds \cup {0}]
  <1> DEFINE x == [sessions[s] EXCEPT !.ssl = "freed"]
  <1>1. sessions[s] \in SessionObjects
    BY Indexes DEF IInv, Structures
  <1>2. /\ x \in SessionObjects /\ x.pfd = sessions[s].pfd /\ x.outQueue = sessions[s].outQueue
        /\ x.account = sessions[s].account /\ x.status = sessions[s].status /\ x.user = sessions[s].user
    BY <1>1 DEF SessionObjects
  <1>3. sessions' = [sessions EXCEPT ![s] = x]
    BY DEF Close
  <1> HIDE DEF x
  <1>4. SessionsKept /\ EntriesKept /\ PollMatchesQueue'
    BY <1>2, <1>3, Edited
  <1>5. socketOf' \in [Fds -> SessionIds \cup {0}]
    BY DEF IInv, RestTypes, Close
  <1> QED
    BY <1>4, <1>5

\* Which entry a session has: none, or the one behind its predecessor's.
LEMMA Places ==
  ASSUME IInv, NEW s \in DOMAIN sessions, NEW t \in DOMAIN sessions, sessions[t].pfd \in DOMAIN pollFds
  PROVE  sessions[t].pfd = t + 1 /\ (sessions[s].pfd = sessions[t].pfd => s = t)
  <1>1. /\ DOMAIN sessions = 1..Len(sessions) /\ Len(sessions) \in Nat /\ DOMAIN pollFds = 1..Len(pollFds)
    BY Indexes DEF IInv, Structures
  <1>2. \A u \in DOMAIN sessions : sessions[u].pfd \in {0, u + 1}
    BY DEF IInv, Aligned
  <1> QED
    BY <1>1, <1>2

\* The session s is replaced by one with another queue, and its entry, if it
\* still finds it, polls for POLLOUT if that is not empty.
LEMMA Repolled ==
  ASSUME IInv, NEW s \in DOMAIN sessions, NEW x \in SessionObjects, NEW wanted \in BOOLEAN,
         sessions' = [sessions EXCEPT ![s] = x],
         pollFds' = [i \in DOMAIN pollFds |->
                       IF i = x.pfd THEN [pollFds[i] EXCEPT !.out = wanted] ELSE pollFds[i]],
         wanted <=> x.outQueue # <<>>,
         x.pfd = sessions[s].pfd, x.user = sessions[s].user,
         x.status = "LOGIN_ATTEMPT" => x.account \in Registered /\ x.user \in Users
  PROVE  SessionsKept /\ EntriesKept /\ PollMatchesQueue'
  <1>1. sessions \in Seq(SessionObjects) /\ pollFds \in Seq(Entry) /\ \A i \in DOMAIN pollFds : pollFds[i] \in Entry
    BY Indexes DEF IInv, Structures
  <1>2. sessions' \in Seq(SessionObjects) /\ Len(sessions') = Len(sessions) /\ DOMAIN sessions' = DOMAIN sessions
    BY <1>1, Replaced
  <1>3. \A t \in DOMAIN sessions : sessions'[t] = IF t = s THEN x ELSE sessions[t]
    BY <1>1
  <1>4. SessionsKept
    BY <1>2, <1>3 DEF IInv, LoggedIn, SessionsKept
  <1> DEFINE E(i) == IF i = x.pfd THEN [pollFds[i] EXCEPT !.out = wanted] ELSE pollFds[i]
  <1>5. \A i \in DOMAIN pollFds : E(i) \in Entry
    BY <1>1 DEF Entry
  <1>6. pollFds' = [i \in DOMAIN pollFds |-> E(i)]
    OBVIOUS
  <1>7. \A i \in DOMAIN pollFds : E(i).out = IF i = x.pfd THEN wanted ELSE pollFds[i].out
    BY <1>1 DEF Entry
  <1> HIDE DEF E
  <1>8. pollFds' \in [DOMAIN pollFds -> Entry]
    BY <1>5, <1>6
  <1>9. pollFds' \in Seq(Entry) /\ Len(pollFds') = Len(pollFds) /\ DOMAIN pollFds' = DOMAIN pollFds
    BY <1>1, <1>8, Mapped
  <1>10. PollMatchesQueue'
    <2> SUFFICES ASSUME NEW t \in DOMAIN sessions, sessions'[t].pfd \in DOMAIN pollFds
                 PROVE  pollFds'[sessions'[t].pfd].out <=> sessions'[t].outQueue # <<>>
      BY <1>2, <1>9, Zenon DEF PollMatchesQueue
    <2>1. sessions'[t].pfd = sessions[t].pfd
      BY <1>3
    <2>2. pollFds'[sessions[t].pfd].out = IF sessions[t].pfd = x.pfd THEN wanted ELSE pollFds[sessions[t].pfd].out
      BY <1>6, <1>7, <2>1
    <2>3. CASE t = s
      BY <1>3, <2>1, <2>2, <2>3
    <2>4. CASE t # s
      <3>1. sessions[t].pfd # x.pfd
        BY <2>1, <2>4, Places
      <3>2. sessions'[t] = sessions[t]
        BY <1>3, <2>4
      <3>3. pollFds[sessions[t].pfd].out <=> sessions[t].outQueue # <<>>
        BY <2>1 DEF IInv, PollMatchesQueue
      <3> QED
        BY <2>1, <2>2, <3>1, <3>2, <3>3
    <2> QED
      BY <2>3, <2>4
  <1> QED
    BY <1>4, <1>9, <1>10 DEF EntriesKept

\* QueuePacket, on a session with the name and m_pfd of the one it replaces.
LEMMA Queued ==
  ASSUME IInv, NEW s \in DOMAIN sessions, NEW x \in SessionObjects, NEW reply \in Replies,
         QueuePacket(s, x, reply),
         x.pfd = sessions[s].pfd, x.user = sessions[s].user,
         x.status = "LOGIN_ATTEMPT" => x.account \in Registered /\ x.user \in Users
  PROVE  SessionsKept /\ EntriesKept /\ PollMatchesQueue'
  <1> DEFINE q == Append(x.outQueue, reply)
             y == [x EXCEPT !.outQueue = q]
  <1>1. q \in Seq(Replies) /\ q # <<>>
    <2>1. x.outQueue \in Seq(Replies)
      BY Fields
    <2> QED
      BY <2>1, Appended
  <1>2. sessions' = [sessions EXCEPT ![s] = y]
    BY DEF QueuePacket
  <1>3. pollFds' = [i \in DOMAIN pollFds |-> IF i = x.pfd THEN [pollFds[i] EXCEPT !.out = TRUE] ELSE pollFds[i]]
    BY DEF QueuePacket
  <1> HIDE DEF q
  <1>4. /\ y \in SessionObjects /\ y.pfd = x.pfd /\ y.user = x.user /\ y.outQueue = q
        /\ y.status = x.status /\ y.account = x.account
    BY <1>1 DEF SessionObjects
  <1> HIDE DEF y
  <1>5. pollFds' = [i \in DOMAIN pollFds |-> IF i = y.pfd THEN [pollFds[i] EXCEPT !.out = TRUE] ELSE pollFds[i]]
    BY <1>3, <1>4
  <1>6. TRUE <=> y.outQueue # <<>>
    BY <1>1, <1>4
  <1>7. y.pfd = sessions[s].pfd /\ y.user = sessions[s].user
    BY <1>4
  <1>8. y.status = "LOGIN_ATTEMPT" => y.account \in Registered /\ y.user \in Users
    BY <1>4
  <1> QED
    BY <1>2, <1>4, <1>5, <1>6, <1>7, <1>8, Repolled

\* The kinds of packet that a session can hold.
LEMMA Packets ==
  ASSUME IInv, turn <= Len(pollFds), me.inBuffer # <<>>
  PROVE  /\ packet \in Messages /\ Tail(me.inBuffer) \in Seq(Messages)
         /\ packet.cmd = "gather" => packet.user \in Users /\ packet.version \in BOOLEAN
  <1>1. me.inBuffer \in Seq(Messages)
    BY Me, Fields
  <1>2. packet \in Messages /\ Tail(me.inBuffer) \in Seq(Messages)
    BY <1>1, Taken DEF packet
  <1>3. packet \in Gathers \cup Proofs \cup Unknowns
    BY <1>2, MessagesAssumption DEF Messages
  <1>4. packet.cmd = "gather" => packet \in Gathers
    BY <1>3 DEF Proofs, Unknowns
  <1> QED
    BY <1>2, <1>4 DEF Gathers

\* While a handler is between its two requests, nothing else is enqueued,
\* and outside of it no insert is being prepared.
LEMMA NotHandling ==
  ASSUME IInv, pc # "insert"
  PROVE  inserting = Db!Nothing
  BY DEF IInv, Handling

\* The requests of the handlers are those of LoginDatabase: they name users,
\* accounts and sessions that exist.
LEMMA UsesDatabase == IInv /\ [Next]_vars => [Db!DbNext]_dbVars
  <1> SUFFICES ASSUME IInv, [Next]_vars PROVE [Db!DbNext]_dbVars
    OBVIOUS
  <1>0. CASE UNCHANGED dbVars
    BY <1>0
  <1>1. CASE GetResponses
    BY <1>1 DEF GetResponses, Db!DbNext
  <1>2. CASE HandleAuthLoginGatherInfoPacket
    <2>1. turn <= Len(pollFds) /\ me.inBuffer # <<>> /\ packet.cmd = "gather" /\ Db!EnqueueSelect(s0, packet.user)
      BY <1>2 DEF HandleAuthLoginGatherInfoPacket, Reading, IInv, AtWork
    <2>2. s0 \in SessionIds /\ packet.user \in Users
      BY <2>1, Me, Packets
    <2> QED
      BY <2>1, <2>2 DEF Db!DbNext
  <1>3. CASE WrongPassword \/ RightPassword
    <2>1. turn <= Len(pollFds) /\ me.status = "LOGIN_ATTEMPT"
      BY <1>3 DEF WrongPassword, RightPassword, Reading, IInv, AtWork
    <2>2. me.user \in Users /\ me.account \in Registered
      BY <2>1, Me DEF IInv, LoggedIn, me
    <2>3. Db!EnqueueLog(me.user) \/ Db!EnqueueDelete(me.account)
      BY <1>3 DEF WrongPassword, RightPassword
    <2> QED
      BY <2>2, <2>3 DEF Db!DbNext
  <1>4. CASE NewSession
    BY <1>4 DEF NewSession, Db!DbNext
  <1>5. CASE WorkerFinishes
    BY <1>5 DEF WorkerFinishes, Db!DbNext
  <1>6. CASE Serve
    <2>1. CASE RunCallback \/ CallbacksDone \/ EndOfPoll \/ SkipInvalid \/ SendNothing \/ SendFails
      BY <1>0, <2>1 DEF RunCallback, CallbacksDone, EndOfPoll, SkipInvalid, SendNothing, SendFails
    <2>2. CASE ReceiveNothing \/ ReceiveFails \/ \E n \in 1..MaxMessages, split \in BOOLEAN : Receive(n, split)
      BY <1>0, <2>2 DEF ReceiveNothing, ReceiveFails, Receive
    <2>3. CASE ReadDone \/ UnknownCommand \/ StatusMismatch \/ TooBig
      BY <1>0, <2>3 DEF ReadDone, UnknownCommand, StatusMismatch, TooBig
    <2> QED
      BY <1>1, <1>2, <1>3, <1>4, <1>6, <2>1, <2>2, <2>3 DEF Serve
  <1>7. CASE PollLoop
    <2>1. CASE \/ \E incoming \in BOOLEAN : Poll(incoming)
               \/ NoNewClient \/ \E fd \in Fds : AcceptClient(fd)
               \/ SendPacket
      BY <1>0, <2>1 DEF Poll, NoNewClient, AcceptClient, SendPacket
    <2> QED
      BY <1>6, <1>7, <2>1 DEF PollLoop
  <1>8. CASE Failure \/ Shutdown \/ Environment
    BY <1>0, <1>8 DEF Failure, PollFails, SslCrash, PasswordQueryFails, Shutdown, Environment,
                      ClientSends, ClientGoes
  <1>9. CASE UNCHANGED vars
    BY <1>0, <1>9 DEF vars
  <1> QED
    BY <1>5, <1>7, <1>8, <1>9 DEF Next
\* What a step needs to know of the database's types.
LEMMA DbFine == IInv /\ [Next]_vars => Db!DbTypeOK' /\ issued' <= MaxKeys
  BY UsesDatabase, DbKept DEF IInv, RestTypes

-----------------------------------------------------------------------------
(* The steps *)

\* The steps that only move the main thread on.
LEMMA MovesOn ==
  ASSUME IInv, UNCHANGED <<batch, sessions, pollVars, socketOf, clientVars, dbVars>>,
         pc # "insert", pc' \in Pcs \ {"insert"}, turn' \in 2..(MaxSessions + 2), AtWork'
  PROVE  IInv'
  <1>1. Db!DbTypeOK' /\ issued' <= MaxKeys
    BY DbKept DEF IInv, RestTypes
  <1>2. RestTypes'
    BY <1>1 DEF IInv, RestTypes, pollVars, clientVars
  <1>3. Handling'
    BY DEF IInv, Handling, dbVars
  <1>4. Lookups' \subseteq Lookups
    BY DEF Lookups, dbVars
  <1> QED
    BY <1>2, <1>3, <1>4, Still DEF pollVars, clientVars

\* At a client of the list, the next index is in range.
LEMMA NextInRange ==
  ASSUME IInv, turn <= Len(pollFds)
  PROVE  turn + 1 \in 2..(MaxSessions + 2)
  <1>1. turn \in 2..(MaxSessions + 2) /\ Len(pollFds) = Len(sessions) + 1 /\ Len(sessions) <= MaxSessions
    BY DEF IInv, RestTypes, Aligned
  <1>2. Len(sessions) \in Nat
    BY Indexes DEF IInv, Structures
  <1> QED
    BY <1>1, <1>2, LimitsAssumption

\* The actions of the main thread that change nothing else.
LEMMA ControlKeeps ==
  ASSUME IInv,
         \/ CallbacksDone \/ PollFails \/ NoNewClient \/ EndOfPoll \/ SkipInvalid \/ SendNothing
         \/ SslCrash \/ ReceiveNothing \/ ReadDone \/ PasswordQueryFails \/ Shutdown
  PROVE  IInv'
  <1>1. UNCHANGED <<batch, sessions, pollVars, socketOf, clientVars, dbVars>>
    BY DEF CallbacksDone, PollFails, NoNewClient, EndOfPoll, SkipInvalid, SendNothing, SslCrash,
           ReceiveNothing, ReadDone, PasswordQueryFails, Shutdown
  <1>2. pc # "insert" /\ pc' \in Pcs \ {"insert"}
    BY DEF CallbacksDone, PollFails, NoNewClient, EndOfPoll, SkipInvalid, SendNothing, SslCrash,
           ReceiveNothing, ReadDone, PasswordQueryFails, Shutdown, Reading, NextClient, AtClient, Pcs
  <1>3. turn' = turn \/ turn' = 2 \/ (turn' = turn + 1 /\ turn <= Len(pollFds))
    <2>1. CASE CallbacksDone \/ PollFails \/ NoNewClient \/ EndOfPoll \/ SendNothing \/ SslCrash
               \/ PasswordQueryFails \/ Shutdown
      BY <2>1 DEF CallbacksDone, PollFails, NoNewClient, EndOfPoll, SendNothing, SslCrash,
                  PasswordQueryFails, Shutdown
    <2>2. CASE SkipInvalid \/ ReceiveNothing \/ ReadDone
      BY <2>2 DEF SkipInvalid, ReceiveNothing, ReadDone, NextClient, AtClient, IInv, AtWork
    <2> QED
      BY <2>1, <2>2
  <1>4. turn' \in 2..(MaxSessions + 2)
    <2>1. turn \in 2..(MaxSessions + 2) /\ 2 \in 2..(MaxSessions + 2)
      BY LimitsAssumption DEF IInv, RestTypes
    <2> QED
      BY <1>3, <2>1, NextInRange
  <1>5. AtWork'
    <2>1. CASE SendNothing
      BY <2>1 DEF SendNothing, AtWork, pollVars
    <2>2. CASE CallbacksDone \/ PollFails \/ NoNewClient \/ EndOfPoll \/ SkipInvalid
               \/ SslCrash \/ ReceiveNothing \/ ReadDone \/ PasswordQueryFails \/ Shutdown
      BY <2>2 DEF CallbacksDone, PollFails, NoNewClient, EndOfPoll, SkipInvalid, SslCrash,
                  ReceiveNothing, ReadDone, PasswordQueryFails, Shutdown, NextClient, AtWork
    <2> QED
      BY <2>1, <2>2
  <1> QED
    BY <1>1, <1>2, <1>4, <1>5, MovesOn

\* Poll takes the completed requests.
LEMMA GetResponsesKeeps ==
  ASSUME IInv, GetResponses, Db!DbTypeOK', issued' <= MaxKeys
  PROVE  IInv'
  <1>1. responses \in Seq(Db!Selects)
    BY DEF IInv, RestTypes, Db!DbTypeOK
  <1>2. RestTypes'
    BY <1>1 DEF IInv, RestTypes, GetResponses, pollVars, clientVars, Pcs
  <1>3. AtWork' /\ Handling'
    BY DEF IInv, GetResponses, AtWork, Handling, Db!Collect
  <1>4. Lookups' \subseteq Lookups
    BY EmptyRange DEF Lookups, GetResponses, Db!Collect
  <1> QED
    BY <1>2, <1>3, <1>4, Still DEF GetResponses, pollVars, clientVars

\* The callback finds its session, and a name with a row an account.
LEMMA RunCallbackKeeps ==
  ASSUME IInv, RunCallback, Db!DbTypeOK', issued' <= MaxKeys
  PROVE  IInv'
  <1> DEFINE r == Head(batch)
             s == r.session
             x == LookedUp(sessions[s], r.user)
             reply == GatherReply(sessions[s], r.user)
  <1>1. batch \in Seq(Db!Selects) /\ batch # <<>>
    BY DEF IInv, RestTypes, RunCallback
  <1>2. r \in Db!Selects /\ r \in Range(batch) /\ Tail(batch) \in Seq(Db!Selects) /\ Range(Tail(batch)) \subseteq Range(batch)
    BY <1>1, Taken, TakenRange
  <1>3. s \in DOMAIN sessions /\ sessions[s].user \in Users /\ sessions[s] \in SessionObjects
    <2>1. r.session \in DOMAIN sessions /\ sessions[r.session].user \in Users
      BY <1>2 DEF IInv, Asked, Lookups
    <2> QED
      BY <2>1, Indexes DEF IInv, Structures
  <1>4. QueuePacket(s, x, reply)
    BY DEF RunCallback
  <1>5. reply \in Replies
    BY DatabaseAssumption DEF GatherReply, Reply, Replies, Results
  <1>6. /\ x \in SessionObjects /\ x.pfd = sessions[s].pfd /\ x.user = sessions[s].user
        /\ x.status = "LOGIN_ATTEMPT" => x.account \in Registered /\ x.user \in Users
    <2> DEFINE u == r.user
               old == sessions[s]
    <2>1. old \in SessionObjects /\ old.user \in Users /\ (old.status = "LOGIN_ATTEMPT" => old.account \in Registered)
      BY <1>3 DEF IInv, LoggedIn
    <2>2. x = IF u \in Registered /\ old.version
              THEN [old EXCEPT !.status = "LOGIN_ATTEMPT", !.account = u] ELSE old
      BY DEF LookedUp
    <2> HIDE DEF x, u, old
    <2>3. ASSUME u \in Registered, x = [old EXCEPT !.status = "LOGIN_ATTEMPT", !.account = u]
          PROVE  /\ x \in SessionObjects /\ x.pfd = old.pfd /\ x.user = old.user
                 /\ x.account \in Registered
      <3>1. x \in SessionObjects
        BY <2>1, <2>3, Changes
      <3> QED
        BY <2>1, <2>3, <3>1 DEF SessionObjects
    <2> QED
      BY <2>1, <2>2, <2>3 DEF old
  <1> HIDE DEF x, reply, s, r
  <1>7. SessionsKept /\ EntriesKept /\ PollMatchesQueue'
    BY <1>3, <1>4, <1>5, <1>6, Queued
  <1>8. UNCHANGED <<pc, turn, list, capacity, socketOf, clientVars, dbVars>> /\ batch' = Tail(batch)
    BY DEF RunCallback
  <1>9. RestTypes'
    BY <1>2, <1>8 DEF IInv, RestTypes, clientVars
  <1>10. AtWork' /\ Handling'
    BY <1>8 DEF IInv, RunCallback, AtWork, Handling, dbVars
  <1>11. Lookups' \subseteq Lookups
    BY <1>2, <1>8 DEF Lookups, dbVars
  <1> QED
    BY <1>7, <1>8, <1>9, <1>10, <1>11, Quiet DEF clientVars
\* The poll writes what events there are, and leaves what is polled for.
LEMMA PollKeeps ==
  ASSUME IInv, NEW incoming \in BOOLEAN, Poll(incoming), Db!DbTypeOK', issued' <= MaxKeys
  PROVE  IInv'
  <1>1. PICK hup \in SUBSET gone : pollFds' = Polled(hup, incoming)
    BY DEF Poll
  <1> DEFINE R(i) == IF i = 1 THEN (IF incoming THEN {"in"} ELSE {}) ELSE Events(pollFds[i], hup)
             E(i) == [pollFds[i] EXCEPT !.revents = R(i)]
  <1>2. pollFds \in Seq(Entry) /\ \A i \in DOMAIN pollFds : pollFds[i] \in Entry
    BY Indexes DEF IInv, Structures
  <1>3. \A i \in DOMAIN pollFds : R(i) \in SUBSET {"in", "out", "err"}
    <2>1. \A e : Events(e, hup) \subseteq {"in", "out", "err"}
      BY DEF Events
    <2> QED
      BY <2>1
  <1>4. pollFds' = [i \in DOMAIN pollFds |-> E(i)]
    BY <1>1 DEF Polled
  <1> HIDE DEF R
  <1>5. \A i \in DOMAIN pollFds : E(i) \in Entry /\ E(i).out = pollFds[i].out
    BY <1>2, <1>3 DEF Entry
  <1> HIDE DEF E
  <1>6. pollFds' \in [DOMAIN pollFds -> Entry] /\ \A i \in DOMAIN pollFds : pollFds'[i].out = pollFds[i].out
    BY <1>4, <1>5
  <1>7. EntriesKept /\ DOMAIN pollFds' = DOMAIN pollFds
    BY <1>2, <1>6, Mapped DEF EntriesKept
  <1>8. UNCHANGED <<batch, sessions, list, capacity, socketOf, clientVars, dbVars>> /\ turn' = 2 /\ pc = "poll"
        /\ pc' \in {"start", "accept"}
    BY DEF Poll
  <1>9. PollMatchesQueue'
    BY <1>6, <1>7, <1>8, Zenon DEF IInv, PollMatchesQueue
  <1>10. RestTypes'
    <2>1. turn' \in 2..(MaxSessions + 2)
      BY <1>8, LimitsAssumption
    <2> QED
      BY <1>8, <2>1 DEF IInv, RestTypes, clientVars, Pcs
  <1>11. AtWork' /\ Handling'
    BY <1>8 DEF IInv, AtWork, Handling, dbVars
  <1>12. Lookups' \subseteq Lookups
    BY <1>8 DEF Lookups, dbVars
  <1> QED
    BY <1>7, <1>8, <1>9, <1>10, <1>11, <1>12, SessionsUnchanged, Quiet DEF clientVars

\* A session that is closed stays where it is.
LEMMA CloseKeeps ==
  ASSUME IInv, turn <= Len(pollFds), Close(s0), UNCHANGED <<batch, pollVars, clientVars, dbVars>>,
         pc # "insert", NextClient \/ (pc' = "receive" /\ turn' = turn)
  PROVE  IInv'
  <1>1. s0 \in DOMAIN sessions
    BY Me
  <1>2. SessionsKept /\ EntriesKept /\ PollMatchesQueue' /\ socketOf' \in [Fds -> SessionIds \cup {0}]
    BY <1>1, Closed DEF pollVars
  <1>3. Db!DbTypeOK' /\ issued' <= MaxKeys
    BY DbKept DEF IInv, RestTypes
  <1>4. turn' \in 2..(MaxSessions + 2) /\ pc' \in {"clients", "receive"}
    BY NextInRange DEF NextClient, IInv, RestTypes
  <1>5. RestTypes'
    BY <1>2, <1>3, <1>4 DEF IInv, RestTypes, pollVars, clientVars, Pcs
  <1>6. AtWork'
    BY DEF AtWork, NextClient, pollVars
  <1>7. Handling'
    BY <1>4 DEF IInv, Handling, dbVars
  <1>8. Lookups' \subseteq Lookups
    BY DEF Lookups, dbVars
  <1> QED
    BY <1>2, <1>5, <1>6, <1>7, <1>8, Quiet DEF pollVars, clientVars
\* The actions that close the session they are at.
LEMMA ClosingKeeps ==
  ASSUME IInv, SendFails \/ ReceiveFails \/ StatusMismatch \/ TooBig
  PROVE  IInv'
  <1>1. turn <= Len(pollFds)
    BY DEF SendFails, ReceiveFails, StatusMismatch, TooBig, AtClient, IInv, AtWork
  <1>2. /\ Close(s0) /\ UNCHANGED <<batch, pollVars, clientVars, dbVars>> /\ pc # "insert"
        /\ NextClient \/ (pc' = "receive" /\ turn' = turn)
    BY DEF SendFails, ReceiveFails, StatusMismatch, TooBig, AtClient
  <1> QED
    BY <1>1, <1>2, CloseKeeps

\* A packet leaves the queue: POLLOUT stays polled for if there are more.
LEMMA SendPacketKeeps ==
  ASSUME IInv, SendPacket
  PROVE  IInv'
  <1> DEFINE q == Tail(me.outQueue)
             x == [me EXCEPT !.outQueue = q]
             wanted == Len(me.outQueue) > 1
  <1>1. turn <= Len(pollFds) /\ me.outQueue # <<>>
    BY DEF SendPacket, AtClient
  <1>2. s0 \in DOMAIN sessions /\ me \in SessionObjects
    BY <1>1, Me
  <1>3. q \in Seq(Replies) /\ Len(me.outQueue) \in Nat \ {0} /\ Len(q) = Len(me.outQueue) - 1
    BY <1>1, <1>2, Fields, Taken
  <1>4. wanted \in BOOLEAN
    BY <1>3
  <1>5. wanted <=> q # <<>>
    <2> HIDE DEF q
    <2>1. q = <<>> <=> Len(q) = 0
      BY <1>3, EmptySeq
    <2> QED
      BY <1>3, <2>1
  <1>6. sessions' = [sessions EXCEPT ![s0] = x]
    BY DEF SendPacket, me
  <1>7. pollFds' = [i \in DOMAIN pollFds |-> IF i = me.pfd THEN [pollFds[i] EXCEPT !.out = wanted] ELSE pollFds[i]]
    BY DEF SendPacket
  <1>8. UNCHANGED <<turn, batch, list, capacity, socketOf, clientVars, dbVars>> /\ pc = "clients" /\ pc' = "receive"
    BY DEF SendPacket, AtClient
  <1>9. me.status = "LOGIN_ATTEMPT" => me.account \in Registered /\ me.user \in Users
    BY <1>2 DEF IInv, LoggedIn, me
  <1> HIDE DEF wanted, q
  <1>10. /\ x \in SessionObjects /\ x.pfd = me.pfd /\ x.user = me.user /\ x.outQueue = q
         /\ x.status = me.status /\ x.account = me.account
    BY <1>2, <1>3 DEF SessionObjects
  <1> HIDE DEF x
  <1>11. pollFds' = [i \in DOMAIN pollFds |-> IF i = x.pfd THEN [pollFds[i] EXCEPT !.out = wanted] ELSE pollFds[i]]
    BY <1>7, <1>10
  <1>12. /\ x.pfd = sessions[s0].pfd /\ x.user = sessions[s0].user /\ (wanted <=> x.outQueue # <<>>)
         /\ x.status = "LOGIN_ATTEMPT" => x.account \in Registered /\ x.user \in Users
    BY <1>5, <1>9, <1>10 DEF me
  <1>13. SessionsKept /\ EntriesKept /\ PollMatchesQueue'
    BY <1>2, <1>4, <1>6, <1>10, <1>11, <1>12, Repolled
  <1>14. Db!DbTypeOK' /\ issued' <= MaxKeys
    BY <1>8, DbKept DEF IInv, RestTypes
  <1>15. RestTypes'
    BY <1>8, <1>14 DEF IInv, RestTypes, clientVars, Pcs
  <1>16. AtWork' /\ Handling'
    BY <1>1, <1>8, <1>13 DEF IInv, AtWork, Handling, dbVars, EntriesKept
  <1>17. Lookups' \subseteq Lookups
    BY <1>8 DEF Lookups, dbVars
  <1> QED
    BY <1>8, <1>13, <1>15, <1>16, <1>17, Quiet DEF clientVars
\* What a handler leaves alone while it edits its session: the lists and,
\* unless it looks up an account, the lookups.
LEMMA EditKeeps ==
  ASSUME IInv, turn <= Len(pollFds), NEW x \in SessionObjects,
         sessions' = [sessions EXCEPT ![s0] = x],
         x.pfd = me.pfd, x.outQueue = me.outQueue, x.account = me.account, x.status = me.status,
         x.user = me.user \/ x.user \in Users,
         UNCHANGED <<batch, pollVars, socketOf, gone, sent>>,
         inbox' \in Seq(Seq(Messages)), Len(inbox') = Len(inbox),
         Db!DbTypeOK', issued' <= MaxKeys,
         pc' \in {"clients", "reading"}, turn' \in 2..(MaxSessions + 2), pc' = "reading" => turn' = turn,
         inserting' = Db!Nothing,
         \A r \in Lookups' : r \in Lookups \/ (r.session = s0 /\ x.user \in Users)
  PROVE  IInv'
  <1>1. s0 \in DOMAIN sessions /\ sessions[s0] = me /\ sessions \in Seq(SessionObjects)
    BY Me DEF me, IInv, Structures
  <1>2. SessionsKept /\ EntriesKept /\ PollMatchesQueue'
    BY <1>1, Edited DEF pollVars
  <1>3. RestTypes'
    BY DEF IInv, RestTypes, pollVars, Pcs
  <1>4. AtWork' /\ Handling'
    BY DEF AtWork, Handling, pollVars
  <1>5. sessions'[s0] = x
    BY <1>1
  <1>6. \A r \in Lookups' : r \in Lookups \/ (r.session \in DOMAIN sessions /\ sessions'[r.session].user \in Users)
    BY <1>1, <1>5
  <1> QED
    BY <1>2, <1>3, <1>4, <1>6, Quiet DEF pollVars

\* A record is read into the buffer.
LEMMA ReceiveKeeps ==
  ASSUME IInv, NEW n \in 1..MaxMessages, NEW split \in BOOLEAN, Receive(n, split)
  PROVE  IInv'
  <1> DEFINE from == IF me.half THEN 2 ELSE 1
             read == SubSeq(inbox[s0], from, n)
             rest == SubSeq(inbox[s0], IF split THEN n ELSE n + 1, Len(inbox[s0]))
             b == me.inBuffer \o read
             x == [me EXCEPT !.inBuffer = b, !.half = split]
  <1>1. turn <= Len(pollFds) /\ n <= Len(inbox[s0]) /\ pc = "receive"
    BY DEF Receive, IInv, AtWork
  <1>2. s0 \in DOMAIN sessions /\ me \in SessionObjects /\ s0 \in DOMAIN inbox /\ inbox \in Seq(Seq(Messages))
    BY <1>1, Me DEF IInv, RestTypes
  <1>3. inbox[s0] \in Seq(Messages) /\ Len(inbox[s0]) \in Nat
    BY <1>2, Indexes
  <1>4. n \in 0..Len(inbox[s0]) /\ n \in Nat \ {0} /\ Len(inbox[s0]) \in 0..Len(inbox[s0])
    BY <1>1, <1>3, LimitsAssumption
  <1>5. read \in Seq(Messages) /\ rest \in Seq(Messages)
    <2>1. from \in Nat \ {0} /\ (IF split THEN n ELSE n + 1) \in Nat \ {0}
      BY <1>4
    <2> HIDE DEF from
    <2> QED
      BY <1>3, <1>4, <2>1, Part
  <1>6. sessions' = [sessions EXCEPT ![s0] = x]
    BY DEF Receive, me
  <1>7. inbox' = [inbox EXCEPT ![s0] = rest]
    BY DEF Receive
  <1> HIDE DEF read, rest
  <1>8. b \in Seq(Messages)
    <2>1. me.inBuffer \in Seq(Messages)
      BY <1>2, Fields
    <2> QED
      BY <1>5, <2>1, ConcatProperties
  <1> HIDE DEF b
  <1>9. /\ x \in SessionObjects /\ x.pfd = me.pfd /\ x.outQueue = me.outQueue /\ x.account = me.account
        /\ x.status = me.status /\ x.user = me.user
    <2>1. x \in SessionObjects
      BY <1>2, <1>8, Changes
    <2> QED
      BY <1>2, <2>1 DEF SessionObjects
  <1> HIDE DEF x
  <1>10. inbox' \in Seq(Seq(Messages)) /\ Len(inbox') = Len(inbox)
    BY <1>2, <1>5, <1>7, Replaced
  <1>11. UNCHANGED <<turn, batch, pollVars, socketOf, gone, sent, dbVars>> /\ pc' = "reading"
    BY DEF Receive
  <1>12. Db!DbTypeOK' /\ issued' <= MaxKeys
    BY <1>11, DbKept DEF IInv, RestTypes
  <1>13. inserting' = Db!Nothing /\ turn' \in 2..(MaxSessions + 2) /\ turn' = turn
    BY <1>1, <1>11 DEF IInv, Handling, RestTypes, dbVars
  <1>14. Lookups' = Lookups
    BY <1>11 DEF Lookups, dbVars
  <1>15. UNCHANGED <<batch, pollVars, socketOf, gone, sent>> /\ pc' \in {"clients", "reading"}
    BY <1>11
  <1> QED
    BY <1>1, <1>6, <1>9, <1>10, <1>12, <1>13, <1>14, <1>15, EditKeeps

\* An unknown packet empties the buffer and takes its storage.
LEMMA UnknownCommandKeeps ==
  ASSUME IInv, UnknownCommand
  PROVE  IInv'
  <1> DEFINE x == [me EXCEPT !.inBuffer = <<>>, !.half = FALSE, !.deaf = TRUE]
  <1>1. turn <= Len(pollFds) /\ pc = "reading"
    BY DEF UnknownCommand, IInv, AtWork
  <1>2. s0 \in DOMAIN sessions /\ me \in SessionObjects
    BY <1>1, Me
  <1>3. sessions' = [sessions EXCEPT ![s0] = x]
    BY DEF UnknownCommand, me
  <1>4. /\ x \in SessionObjects /\ x.pfd = me.pfd /\ x.outQueue = me.outQueue /\ x.account = me.account
        /\ x.status = me.status /\ x.user = me.user
    <2>1. <<>> \in Seq(Messages)
      BY EmptySeq
    <2>2. x \in SessionObjects
      BY <1>2, <2>1, Changes
    <2> QED
      BY <1>2, <2>2 DEF SessionObjects
  <1> HIDE DEF x
  <1>5. UNCHANGED <<batch, pollVars, socketOf, clientVars, dbVars>> /\ pc' = "clients" /\ turn' = turn + 1
    BY DEF UnknownCommand, NextClient
  <1>6. Db!DbTypeOK' /\ issued' <= MaxKeys
    BY <1>5, DbKept DEF IInv, RestTypes
  <1>7. inserting' = Db!Nothing /\ turn' \in 2..(MaxSessions + 2)
    BY <1>1, <1>5, NextInRange DEF IInv, Handling, dbVars
  <1>8. inbox' \in Seq(Seq(Messages)) /\ Len(inbox') = Len(inbox)
    BY <1>5 DEF IInv, RestTypes, clientVars
  <1>9. Lookups' = Lookups
    BY <1>5 DEF Lookups, dbVars
  <1>10. UNCHANGED <<batch, pollVars, socketOf, gone, sent>> /\ pc' \in {"clients", "reading"} /\ pc' # "reading"
    BY <1>5 DEF clientVars
  <1> QED
    BY <1>1, <1>3, <1>4, <1>6, <1>7, <1>8, <1>9, <1>10, EditKeeps

\* A lookup is enqueued by a session that keeps the name it is about.
LEMMA GatherKeeps ==
  ASSUME IInv, HandleAuthLoginGatherInfoPacket, Db!DbTypeOK', issued' <= MaxKeys
  PROVE  IInv'
  <1> DEFINE b == Tail(me.inBuffer)
             u == packet.user
             v == packet.version
             x == [me EXCEPT !.user = u, !.version = v, !.inBuffer = b]
  <1>1. turn <= Len(pollFds) /\ pc = "reading" /\ me.inBuffer # <<>> /\ packet.cmd = "gather"
    BY DEF HandleAuthLoginGatherInfoPacket, Reading, IInv, AtWork
  <1>2. s0 \in DOMAIN sessions /\ me \in SessionObjects /\ s0 \in SessionIds
    BY <1>1, Me
  <1>3. u \in Users /\ v \in BOOLEAN /\ b \in Seq(Messages)
    BY <1>1, Packets
  <1>4. sessions' = [sessions EXCEPT ![s0] = x]
    BY DEF HandleAuthLoginGatherInfoPacket, me
  <1>5. /\ UNCHANGED <<pc, turn, batch, pollVars, socketOf, clientVars>> /\ responses' = responses
        /\ dbQueue' = Append(dbQueue, Db!Select(s0, u)) /\ inserting' = Db!Nothing
    BY DEF HandleAuthLoginGatherInfoPacket, Db!EnqueueSelect
  <1> HIDE DEF b, u, v
  <1>6. /\ x \in SessionObjects /\ x.pfd = me.pfd /\ x.outQueue = me.outQueue /\ x.account = me.account
        /\ x.status = me.status /\ x.user \in Users
    <2>1. x \in SessionObjects
      BY <1>2, <1>3, Changes
    <2> QED
      BY <1>2, <1>3, <2>1 DEF SessionObjects
  <1> HIDE DEF x
  <1>7. Db!Select(s0, u) \in Db!Requests /\ Db!Select(s0, u).session = s0
    BY <1>2, <1>3 DEF Db!Select, Db!Requests, Db!Selects
  <1>8. Range(dbQueue') = Range(dbQueue) \cup {Db!Select(s0, u)}
    <2>1. dbQueue \in Seq(Db!Requests)
      BY DEF IInv, RestTypes, Db!DbTypeOK
    <2> QED
      BY <1>5, <1>7, <2>1, AppendedRange
  <1>9. \A r \in Lookups' : r \in Lookups \/ (r.session = s0 /\ x.user \in Users)
    BY <1>5, <1>6, <1>7, <1>8 DEF Lookups
  <1>10. inbox' \in Seq(Seq(Messages)) /\ Len(inbox') = Len(inbox) /\ turn' \in 2..(MaxSessions + 2)
    BY <1>5 DEF IInv, RestTypes, clientVars
  <1>11. UNCHANGED <<batch, pollVars, socketOf, gone, sent>> /\ pc' \in {"clients", "reading"} /\ turn' = turn
    BY <1>1, <1>5 DEF clientVars
  <1> QED
    BY <1>1, <1>4, <1>5, <1>6, <1>9, <1>10, <1>11, EditKeeps
\* A request that is no lookup is appended: the lookups under way stay.
LEMMA NoNewLookup ==
  ASSUME IInv, NEW r \in Db!Requests, r.op # "select", dbQueue' = Append(dbQueue, r),
         UNCHANGED <<responses, batch>>
  PROVE  Lookups' \subseteq Lookups
  <1>1. dbQueue \in Seq(Db!Requests)
    BY DEF IInv, RestTypes, Db!DbTypeOK
  <1>2. Range(dbQueue') = Range(dbQueue) \cup {r}
    BY <1>1, AppendedRange
  <1> QED
    BY <1>2 DEF Lookups

\* The two handlers of a proof that answer it: a reply is queued and a
\* request that is no lookup enqueued.
LEMMA AnswerKeeps ==
  ASSUME IInv, turn <= Len(pollFds), pc' = "reading", inserting' = Db!Nothing,
         NEW x \in SessionObjects, x.pfd = me.pfd, x.user = me.user, x.account = me.account, x.status = me.status,
         NEW reply \in Replies, QueuePacket(s0, x, reply),
         NEW r \in Db!Requests, r.op # "select", dbQueue' = Append(dbQueue, r),
         UNCHANGED <<turn, batch, list, capacity, socketOf, clientVars, responses>>,
         Db!DbTypeOK', issued' <= MaxKeys
  PROVE  IInv'
  <1>1. s0 \in DOMAIN sessions /\ sessions[s0] = me
    BY Me DEF me
  <1>2. x.status = "LOGIN_ATTEMPT" => x.account \in Registered /\ x.user \in Users
    BY <1>1 DEF IInv, LoggedIn
  <1>3. SessionsKept /\ EntriesKept /\ PollMatchesQueue'
    BY <1>1, <1>2, Queued
  <1>4. RestTypes'
    BY DEF IInv, RestTypes, clientVars, Pcs
  <1>5. AtWork' /\ Handling'
    BY <1>3 DEF AtWork, Handling, EntriesKept
  <1>6. Lookups' \subseteq Lookups
    BY NoNewLookup
  <1> QED
    BY <1>3, <1>4, <1>5, <1>6, Quiet DEF clientVars

\* A wrong password is logged.
LEMMA WrongPasswordKeeps ==
  ASSUME IInv, WrongPassword, Db!DbTypeOK', issued' <= MaxKeys
  PROVE  IInv'
  <1> DEFINE x == [me EXCEPT !.inBuffer = Tail(@)]
             reply == Reply("proofFailed")
             r == Db!Log(me.user)
  <1>1. turn <= Len(pollFds) /\ pc = "reading" /\ me.inBuffer # <<>> /\ me.status = "LOGIN_ATTEMPT"
    BY DEF WrongPassword, Reading, IInv, AtWork
  <1>2. s0 \in DOMAIN sessions /\ me \in SessionObjects /\ Tail(me.inBuffer) \in Seq(Messages)
    BY <1>1, Me, Packets
  <1>3. x \in SessionObjects /\ x.pfd = me.pfd /\ x.user = me.user /\ x.account = me.account /\ x.status = me.status
    <2>1. x \in SessionObjects
      BY <1>2, Changes
    <2> QED
      BY <1>2, <2>1 DEF SessionObjects
  <1>4. reply \in Replies
    BY DatabaseAssumption DEF Reply, Replies, Results
  <1>5. r \in Db!Requests /\ r.op # "select"
    <2>1. me.user \in Users
      BY <1>1, <1>2 DEF IInv, LoggedIn, me
    <2> QED
      BY <2>1 DEF Db!Log, Db!Requests, Db!Logs
  <1>6. /\ QueuePacket(s0, x, reply) /\ dbQueue' = Append(dbQueue, r) /\ pc' = "reading" /\ inserting' = Db!Nothing
        /\ UNCHANGED <<turn, batch, list, capacity, socketOf, clientVars, responses>>
    BY <1>1 DEF WrongPassword, Db!EnqueueLog
  <1> HIDE DEF x, reply, r
  <1> QED
    BY <1>1, <1>3, <1>4, <1>5, <1>6, AnswerKeeps

\* The insert follows the delete, and the client is sent its key.
LEMMA NewSessionKeeps ==
  ASSUME IInv, NewSession, Db!DbTypeOK', issued' <= MaxKeys
  PROVE  IInv'
  <1> DEFINE x == [me EXCEPT !.inBuffer = Tail(@), !.sessionKey = issued]
             reply == [result |-> "proofSuccess", key |-> issued]
  <1>1. turn <= Len(pollFds) /\ pc = "insert"
    BY DEF NewSession, IInv, AtWork
  <1>2. s0 \in DOMAIN sessions /\ me \in SessionObjects
    BY <1>1, Me
  <1>3. issued \in 0..MaxKeys
    BY DatabaseAssumption DEF IInv, RestTypes, Db!DbTypeOK
  <1>4. x \in SessionObjects /\ x.pfd = me.pfd /\ x.user = me.user /\ x.account = me.account /\ x.status = me.status
    <2>1. me.inBuffer \in Seq(Messages) /\ me.inBuffer # <<>>
      BY <1>1, <1>2, Fields DEF IInv, Handling
    <2>2. Tail(me.inBuffer) \in Seq(Messages)
      BY <2>1, Taken
    <2>3. x \in SessionObjects
      BY <1>2, <1>3, <2>2, Changes
    <2> QED
      BY <1>2, <2>3 DEF SessionObjects
  <1>5. reply \in Replies
    BY <1>3 DEF Replies, Results
  <1>6. inserting \in Db!Requests /\ inserting.op # "select"
    <2>1. inserting \in Db!Inserts
      BY <1>1 DEF IInv, Handling, RestTypes, Db!DbTypeOK
    <2> QED
      BY <2>1 DEF Db!Requests, Db!Inserts
  <1>7. /\ QueuePacket(s0, x, reply) /\ dbQueue' = Append(dbQueue, inserting) /\ pc' = "reading" /\ inserting' = Db!Nothing
        /\ UNCHANGED <<turn, batch, list, capacity, socketOf, clientVars, responses>>
    BY DEF NewSession, Db!EnqueueInsert
  <1> HIDE DEF x, reply
  <1> QED
    BY <1>1, <1>4, <1>5, <1>6, <1>7, AnswerKeeps
\* The delete of a login is enqueued, and its insert prepared.
LEMMA RightPasswordKeeps ==
  ASSUME IInv, RightPassword, Db!DbTypeOK', issued' <= MaxKeys
  PROVE  IInv'
  <1> DEFINE r == Db!Delete(me.account)
  <1>1. turn <= Len(pollFds) /\ pc = "reading" /\ me.inBuffer # <<>> /\ me.status = "LOGIN_ATTEMPT"
    BY DEF RightPassword, Reading, IInv, AtWork
  <1>2. me.account \in Registered
    BY <1>1, Me DEF IInv, LoggedIn, me
  <1>3. /\ dbQueue' = Append(dbQueue, r) /\ inserting' = Db!Insert(me.account, issued') /\ responses' = responses
        /\ pc' = "insert" /\ UNCHANGED <<turn, batch, sessions, pollVars, socketOf, clientVars>>
    BY DEF RightPassword, Db!EnqueueDelete
  <1>4. r \in Db!Requests /\ r.op # "select"
    BY <1>2 DEF Db!Delete, Db!Requests, Db!Deletes
  <1>5. inserting' # Db!Nothing
    <2>1. Db!Insert(me.account, issued').op = "insert"
      BY DEF Db!Insert
    <2>2. inserting' \in Db!Inserts \cup {Db!Nothing}
      BY DEF Db!DbTypeOK
    <2>3. DOMAIN inserting' = {"op", "account", "key"}
      BY <1>3 DEF Db!Insert
    <2>4. DOMAIN Db!Nothing = {}
      BY DEF Db!Nothing
    <2> QED
      BY <2>3, <2>4
  <1> HIDE DEF r
  <1>6. RestTypes'
    BY <1>3 DEF IInv, RestTypes, pollVars, clientVars, Pcs
  <1>7. AtWork'
    BY <1>1, <1>3 DEF AtWork, pollVars
  <1>8. Handling'
    <2>1. me' = me
      BY <1>3 DEF me, s0, pollVars
    <2> QED
      BY <1>1, <1>3, <1>5, <2>1 DEF Handling
  <1>9. Lookups' \subseteq Lookups
    BY <1>3, <1>4, NoNewLookup
  <1> QED
    BY <1>3, <1>6, <1>7, <1>8, <1>9, Still DEF pollVars, clientVars

\* The worker finishes a request: a lookup is answered or lost.
LEMMA FinishedLookups ==
  ASSUME IInv, WorkerFinishes
  PROVE  Lookups' \subseteq Lookups
  <1> DEFINE r == Head(dbQueue)
  <1>0. PICK outcome \in Outcomes : Db!Finish(outcome)
    BY DEF WorkerFinishes
  <1>1. dbQueue \in Seq(Db!Requests) /\ dbQueue # <<>> /\ responses \in Seq(Db!Selects)
    BY <1>0 DEF IInv, RestTypes, Db!DbTypeOK, Db!Finish
  <1>2. Range(Tail(dbQueue)) \subseteq Range(dbQueue) /\ r \in Range(dbQueue) /\ r \in Db!Requests
    BY <1>1, TakenRange, Taken
  <1>3. /\ dbQueue' = Tail(dbQueue)
        /\ responses' = responses \/ (responses' = Append(responses, r) /\ r.op = "select")
    BY <1>0 DEF Db!Finish
  <1> HIDE DEF r
  <1>4. Range(responses') \subseteq Range(responses) \cup {y \in {r} : r.op = "select"}
    <2>1. CASE responses' = responses
      BY <2>1
    <2>2. CASE responses' = Append(responses, r) /\ r.op = "select"
      <3>1. r \in Db!Selects
        BY <1>2, <2>2 DEF Db!Requests, Db!Logs, Db!Deletes, Db!Inserts
      <3>2. Range(responses') = Range(responses) \cup {r}
        BY <1>1, <2>2, <3>1, AppendedRange
      <3> QED
        BY <2>2, <3>2
    <2> QED
      BY <1>3, <2>1, <2>2
  <1> QED
    BY <1>2, <1>3, <1>4 DEF WorkerFinishes, Lookups
\* So that it keeps the invariant.
LEMMA WorkerKeeps ==
  ASSUME IInv, WorkerFinishes, Db!DbTypeOK', issued' <= MaxKeys
  PROVE  IInv'
  <1>1. PICK outcome \in Outcomes : Db!Finish(outcome)
    BY DEF WorkerFinishes
  <1>2. UNCHANGED <<pc, turn, batch, sessions, pollVars, socketOf, clientVars, inserting>>
    BY <1>1 DEF WorkerFinishes, Db!Finish
  <1>3. RestTypes'
    BY <1>2 DEF IInv, RestTypes, pollVars, clientVars
  <1>4. AtWork' /\ Handling'
    <2>1. me' = me
      BY <1>2 DEF me, s0, pollVars
    <2> QED
      BY <1>2, <2>1 DEF IInv, AtWork, Handling, pollVars
  <1>5. Lookups' \subseteq Lookups
    BY FinishedLookups
  <1> QED
    BY <1>2, <1>3, <1>4, <1>5, Still DEF pollVars, clientVars

\* A client sends a packet, or leaves.
LEMMA EnvironmentKeeps ==
  ASSUME IInv, Environment
  PROVE  IInv'
  <1>1. PICK s \in DOMAIN sessions : ClientGoes(s) \/ \E m \in ClientMessages : ClientSends(s, m)
    BY DEF Environment
  <1>2. UNCHANGED <<pc, turn, batch, sessions, pollVars, socketOf, dbVars>>
    BY <1>1 DEF ClientGoes, ClientSends
  <1>3. s \in SessionIds /\ s \in DOMAIN inbox /\ inbox \in Seq(Seq(Messages))
    <2>1. /\ DOMAIN sessions = 1..Len(sessions) /\ DOMAIN inbox = 1..Len(inbox) /\ Len(sessions) \in Nat
          /\ inbox \in Seq(Seq(Messages))
      BY Indexes DEF IInv, Structures, RestTypes
    <2> QED
      BY <2>1, LimitsAssumption DEF IInv, Aligned, SessionIds
  <1>4. /\ gone' \subseteq SessionIds /\ sent' \in 0..MaxMessages
        /\ inbox' \in Seq(Seq(Messages)) /\ Len(inbox') = Len(inbox)
    <2>0. gone \subseteq SessionIds /\ sent \in 0..MaxMessages
      BY DEF IInv, RestTypes
    <2>1. CASE ClientGoes(s)
      BY <1>3, <2>0, <2>1 DEF ClientGoes
    <2>2. ASSUME NEW m \in ClientMessages, ClientSends(s, m)
          PROVE  /\ gone' \subseteq SessionIds /\ sent' \in 0..MaxMessages
                 /\ inbox' \in Seq(Seq(Messages)) /\ Len(inbox') = Len(inbox)
      <3> DEFINE more == Append(inbox[s], m)
      <3>1. inbox[s] \in Seq(Messages) /\ m \in Messages
        BY <1>3, Indexes DEF Messages
      <3>2. more \in Seq(Messages)
        BY <3>1, Appended
      <3>3. inbox' = [inbox EXCEPT ![s] = more] /\ sent' = sent + 1 /\ sent < MaxMessages /\ gone' = gone
        BY <2>2 DEF ClientSends
      <3> HIDE DEF more
      <3>4. inbox' \in Seq(Seq(Messages)) /\ Len(inbox') = Len(inbox)
        BY <1>3, <3>2, <3>3, Replaced
      <3> QED
        BY <2>0, <3>3, <3>4, LimitsAssumption
    <2> QED
      BY <1>1, <2>1, <2>2
  <1>5. Db!DbTypeOK' /\ issued' <= MaxKeys
    BY <1>2, DbKept DEF IInv, RestTypes
  <1>6. RestTypes'
    BY <1>2, <1>4, <1>5 DEF IInv, RestTypes, pollVars
  <1>7. AtWork' /\ Handling'
    <2>1. me' = me
      BY <1>2 DEF me, s0, pollVars
    <2> QED
      BY <1>2, <2>1 DEF IInv, AtWork, Handling, pollVars, dbVars
  <1>8. Lookups' \subseteq Lookups
    BY <1>2 DEF Lookups, dbVars
  <1> QED
    BY <1>2, <1>4, <1>6, <1>7, <1>8, Still DEF pollVars
\* A new session joins the lists; every earlier one keeps its place, if not
\* its m_pfd.
LEMMA AcceptKeeps ==
  ASSUME IInv, NEW fd \in Fds, AcceptClient(fd), Db!DbTypeOK', issued' <= MaxKeys
  PROVE  IInv'
  <1> DEFINE n == Len(sessions)
             earlier == [i \in DOMAIN sessions |->
                           IF Reallocates THEN [sessions[i] EXCEPT !.pfd = 0] ELSE sessions[i]]
             new == [fd |-> fd, ssl |-> "open", pfd |-> Len(pollFds) + 1, status |-> "GATHER_INFO",
                     user |-> "", version |-> FALSE, account |-> "", sessionKey |-> 0, inBuffer |-> <<>>,
                     half |-> FALSE, deaf |-> FALSE, outQueue |-> <<>>]
             entry == [fd |-> fd, out |-> FALSE, revents |-> {}]
  <1>1. /\ sessions' = Append(earlier, new) /\ list' = Append(list, n + 1)
        /\ socketOf' = [socketOf EXCEPT ![fd] = n + 1] /\ pollFds' = Append(pollFds, entry)
        /\ capacity' = (IF Reallocates THEN Grown ELSE capacity) /\ inbox' = Append(inbox, <<>>)
        /\ pc = "accept" /\ pc' = "clients" /\ UNCHANGED <<turn, batch, gone, sent, dbVars>>
    BY DEF AcceptClient
  <1>0. n < MaxSessions
    BY DEF AcceptClient
  <1>2. /\ sessions \in Seq(SessionObjects) /\ pollFds \in Seq(Entry) /\ list \in Seq(SessionIds)
        /\ inbox \in Seq(Seq(Messages))
    BY DEF IInv, Structures, RestTypes
  <1>3. /\ n \in Nat /\ DOMAIN sessions = 1..n /\ \A i \in 1..n : sessions[i] \in SessionObjects
        /\ Len(list) = n /\ Len(inbox) = n /\ Len(pollFds) = n + 1
    BY <1>2, Indexes DEF IInv, Aligned
  <1>4. n + 1 \in SessionIds
    BY <1>0, <1>3, LimitsAssumption DEF SessionIds
  <1>5. earlier \in [DOMAIN sessions -> SessionObjects]
    BY <1>3, Changes
  <1>6. \A i \in 1..n : earlier[i] = sessions[i] \/ earlier[i] = [sessions[i] EXCEPT !.pfd = 0]
    BY <1>3
  <1>7. new \in SessionObjects /\ new.pfd = n + 2 /\ new.status = "GATHER_INFO" /\ new.outQueue = <<>>
    <2>1. /\ FALSE \in BOOLEAN /\ "" \in Users \cup {""} /\ "" \in Registered \cup {""}
          /\ <<>> \in Seq(Messages) /\ <<>> \in Seq(Replies)
      BY EmptySeq, Zenon
    <2>2. 0 \in 0..MaxKeys /\ Len(pollFds) + 1 \in 0..(MaxSessions + 1) /\ Len(pollFds) + 1 = n + 2
      BY <1>0, <1>3, LimitsAssumption, DatabaseAssumption
    <2> QED
      BY <2>1, <2>2 DEF SessionObjects
  <1>8. entry \in Entry /\ ~entry.out
    <2>1. FALSE \in BOOLEAN
      BY Zenon
    <2> QED
      BY <2>1 DEF Entry
  <1> HIDE DEF earlier, new, entry
  <1>9. earlier \in Seq(SessionObjects) /\ Len(earlier) = n
    BY <1>2, <1>5, Mapped
  <1>10. /\ sessions' \in Seq(SessionObjects) /\ Len(sessions') = n + 1 /\ DOMAIN sessions' = 1..(n + 1)
         /\ \A i \in 1..n : sessions'[i] = earlier[i]
         /\ sessions'[n + 1] = new
    BY <1>1, <1>3, <1>7, <1>9, Appended, LenProperties
  <1>11. /\ pollFds' \in Seq(Entry) /\ Len(pollFds') = n + 2 /\ DOMAIN pollFds' = 1..(n + 2)
         /\ \A i \in 1..(n + 1) : pollFds'[i] = pollFds[i]
         /\ pollFds'[n + 2] = entry
    BY <1>1, <1>2, <1>3, <1>8, Appended, LenProperties
  <1>12. /\ list' \in Seq(SessionIds) /\ Len(list') = n + 1 /\ list'[n + 1] = n + 1
         /\ \A i \in 1..n : list'[i] = list[i]
    BY <1>1, <1>2, <1>3, <1>4, Appended
  <1>13. inbox' \in Seq(Seq(Messages)) /\ Len(inbox') = n + 1
    <2>1. <<>> \in Seq(Messages)
      BY EmptySeq
    <2> QED
      BY <1>1, <1>2, <1>3, <2>1, Appended
  \* What stays of an earlier session.
  <1>14. ASSUME NEW i \in 1..n
         PROVE  /\ sessions'[i].pfd \in {0, sessions[i].pfd} /\ sessions'[i].user = sessions[i].user
                /\ sessions'[i].account = sessions[i].account /\ sessions'[i].status = sessions[i].status
                /\ sessions'[i].outQueue = sessions[i].outQueue
    <2>1. sessions[i] \in SessionObjects /\ sessions'[i] = earlier[i]
      BY <1>3, <1>10
    <2>2. CASE earlier[i] = sessions[i]
      BY <2>1, <2>2
    <2>3. CASE earlier[i] = [sessions[i] EXCEPT !.pfd = 0]
      BY <2>1, <2>3, Dangling
    <2> QED
      BY <1>6, <2>2, <2>3
  <1>15. RestTypes'
    <2>1. capacity' \in Nat
      <3>1. capacity \in Nat
        BY DEF IInv, RestTypes
      <3>2. Grown \in Nat
        BY <3>1 DEF Grown
      <3> QED
        BY <1>1, <3>1, <3>2
    <2>2. socketOf' \in [Fds -> SessionIds \cup {0}]
      BY <1>1, <1>4 DEF IInv, RestTypes
    <2> QED
      BY <1>1, <1>12, <1>13, <2>1, <2>2 DEF IInv, RestTypes, Pcs
  <1>16. Structures'
    BY <1>10, <1>11 DEF Structures
  <1>17. Aligned'
    <2>1. ASSUME NEW s \in 1..(n + 1)
          PROVE  list'[s] = s /\ sessions'[s].pfd \in {0, s + 1}
      <3>1. CASE s \in 1..n
        <4>1. list[s] = s /\ sessions[s].pfd \in {0, s + 1}
          BY <1>3, <3>1 DEF IInv, Aligned
        <4> QED
          BY <1>12, <1>14, <3>1, <4>1
      <3>2. CASE s = n + 1
        BY <1>3, <1>7, <1>10, <1>12, <3>2
      <3> QED
        BY <1>3, <3>1, <3>2
    <2>2. n + 1 <= MaxSessions
      BY <1>0, <1>3, LimitsAssumption
    <2> QED
      BY <1>3, <1>10, <1>11, <1>12, <1>13, <2>1, <2>2 DEF Aligned
  <1>18. AtWork' /\ Handling'
    BY <1>1 DEF IInv, AtWork, Handling, dbVars
  <1>19. Lookups' = Lookups
    BY <1>1 DEF Lookups, dbVars
  <1>20. Asked'
    <2> SUFFICES ASSUME NEW r \in Lookups
                 PROVE  r.session \in DOMAIN sessions' /\ sessions'[r.session].user \in Users
      BY <1>19, Zenon DEF Asked
    <2>1. r.session \in 1..n /\ sessions[r.session].user \in Users
      BY <1>3 DEF IInv, Asked
    <2> QED
      BY <1>3, <1>10, <1>14, <2>1
  <1>21. LoggedIn'
    <2> SUFFICES ASSUME NEW s \in 1..(n + 1), sessions'[s].status = "LOGIN_ATTEMPT"
                 PROVE  sessions'[s].account \in Registered /\ sessions'[s].user \in Users
      BY <1>10, Zenon DEF LoggedIn
    <2>1. s \in 1..n
      BY <1>3, <1>7, <1>10
    <2> QED
      BY <1>3, <1>14, <2>1 DEF IInv, LoggedIn
  <1>22. PollMatchesQueue'
    <2> SUFFICES ASSUME NEW s \in 1..(n + 1), sessions'[s].pfd \in 1..(n + 2)
                 PROVE  pollFds'[sessions'[s].pfd].out <=> sessions'[s].outQueue # <<>>
      BY <1>10, <1>11, Zenon DEF PollMatchesQueue
    <2>1. CASE s = n + 1
      BY <1>7, <1>8, <1>10, <1>11, <2>1
    <2>2. CASE s \in 1..n
      <3>1. sessions[s].pfd \in {0, s + 1} /\ s + 1 \in 1..(n + 1)
        BY <1>3, <2>2 DEF IInv, Aligned
      <3>2. sessions'[s].pfd = sessions[s].pfd /\ sessions[s].pfd \in 1..(n + 1)
        BY <1>14, <2>2, <3>1
      <3>3. pollFds[sessions[s].pfd].out <=> sessions[s].outQueue # <<>>
        <4>1. DOMAIN pollFds = 1..(n + 1)
          BY <1>2, <1>3, LenProperties
        <4> QED
          BY <1>3, <2>2, <3>2, <4>1 DEF IInv, PollMatchesQueue
      <3>4. pollFds'[sessions[s].pfd] = pollFds[sessions[s].pfd]
        BY <1>11, <3>2
      <3>5. sessions'[s].outQueue = sessions[s].outQueue
        BY <1>14, <2>2
      <3> QED
        BY <3>2, <3>3, <3>4, <3>5
    <2> QED
      BY <1>3, <2>1, <2>2
  <1> QED
    BY <1>15, <1>16, <1>17, <1>18, <1>20, <1>21, <1>22 DEF IInv
-----------------------------------------------------------------------------
(* The theorems *)

\* The server starts with nothing but its listener.
LEMMA InitIInv == Init => IInv
  <1> SUFFICES ASSUME Init PROVE IInv
    OBVIOUS
  <1>1. Db!DbTypeOK /\ issued = 0 /\ inserting = Db!Nothing /\ dbQueue = <<>> /\ responses = <<>>
    BY EmptySeq, DatabaseAssumption DEF Init, Db!DbInit, Db!DbTypeOK, Db!Nothing
  <1>2. RestTypes
    <2>1. 2 \in 2..(MaxSessions + 2) /\ 0 <= MaxKeys /\ 0 \in 0..MaxMessages
      BY LimitsAssumption, DatabaseAssumption
    <2> QED
      BY <1>1, <2>1, EmptySeq DEF Init, RestTypes, Pcs
  <1> DEFINE entry == [fd |-> 0, out |-> FALSE, revents |-> {}]
  <1>3. pollFds \in Seq(Entry) /\ Len(pollFds) = 1
    <2>1. FALSE \in BOOLEAN
      BY Zenon
    <2>2. entry \in Entry
      BY <2>1 DEF Entry
    <2>3. pollFds = <<entry>>
      BY DEF Init
    <2> HIDE DEF entry
    <2> QED
      BY <2>2, <2>3
  <1>4. sessions = <<>> /\ list = <<>> /\ inbox = <<>> /\ batch = <<>> /\ pc = "start"
    BY DEF Init
  <1>5. Structures /\ Aligned /\ AtWork /\ LoggedIn /\ PollMatchesQueue
    BY <1>3, <1>4, EmptySeq, LimitsAssumption DEF Structures, Aligned, AtWork, LoggedIn, PollMatchesQueue
  <1>6. Handling /\ Asked
    BY <1>1, <1>4, EmptyRange DEF Handling, Asked, Lookups
  <1> QED
    BY <1>2, <1>5, <1>6 DEF IInv

\* Every step keeps the invariant.
LEMMA NextIInv == IInv /\ [Next]_vars => IInv'
  <1> SUFFICES ASSUME IInv, [Next]_vars PROVE IInv'
    OBVIOUS
  <1>1. Db!DbTypeOK' /\ issued' <= MaxKeys
    BY DbFine
  <1>2. CASE Serve
    BY <1>1, <1>2, GetResponsesKeeps, RunCallbackKeeps, ControlKeeps, ClosingKeeps, ReceiveKeeps,
       UnknownCommandKeeps, GatherKeeps, WrongPasswordKeeps, RightPasswordKeeps, NewSessionKeeps DEF Serve
  <1>3. CASE PollLoop
    BY <1>1, <1>2, <1>3, PollKeeps, ControlKeeps, AcceptKeeps, SendPacketKeeps DEF PollLoop
  <1>4. CASE Failure \/ Shutdown
    BY <1>4, ControlKeeps DEF Failure
  <1>5. CASE WorkerFinishes
    BY <1>1, <1>5, WorkerKeeps
  <1>6. CASE Environment
    BY <1>6, EnvironmentKeeps
  <1>7. CASE UNCHANGED vars
    <2>1. UNCHANGED <<pc, turn, batch, sessions, pollVars, socketOf, clientVars, dbVars>>
      BY <1>7 DEF vars
    <2>2. RestTypes'
      BY <1>1, <2>1 DEF IInv, RestTypes, pollVars, clientVars
    <2>3. AtWork' /\ Handling'
      <3>1. me' = me
        BY <2>1 DEF me, s0, pollVars
      <3> QED
        BY <2>1, <3>1 DEF IInv, AtWork, Handling, pollVars, dbVars
    <2>4. Lookups' \subseteq Lookups
      BY <2>1 DEF Lookups, dbVars
    <2> QED
      BY <2>1, <2>2, <2>3, <2>4, Still DEF pollVars, clientVars
  <1> QED
    BY <1>3, <1>4, <1>5, <1>6, <1>7 DEF Next

\* The inductive invariant holds in every behaviour of the server.
THEOREM ServerInvariance == Spec => []IInv
  BY InitIInv, NextIInv, PTL DEF Spec

\* Type correctness of the main thread's state, the sessions it serves and
\* the packets on their way.
THEOREM TypeCorrect == Spec => []TypeOK
  <1>1. IInv => TypeOK
    BY DEF IInv, RestTypes, Structures, Entry, TypeOK
  <1> QED
    BY <1>1, ServerInvariance, PTL

\* A callback of AuthSession.cpp captures the plain pointer `this': whenever
\* the lookup it belongs to is queued, completed or taken by Poll, the
\* session is still in the m_list that owns it.
THEOREM CallbacksLive == Spec => []CallbackTargetsLive
  <1>1. IInv => CallbackTargetsLive
    <2> SUFFICES ASSUME IInv, NEW r \in Lookups PROVE r.session \in Range(list)
      BY DEF CallbackTargetsLive
    <2>1. r.session \in DOMAIN sessions
      BY DEF IInv, Asked
    <2>2. DOMAIN sessions = 1..Len(sessions) /\ DOMAIN list = 1..Len(list) /\ Len(list) = Len(sessions)
      BY Indexes DEF IInv, Structures, RestTypes, Aligned
    <2>3. r.session \in DOMAIN list /\ list[r.session] = r.session
      BY <2>1, <2>2 DEF IInv, Aligned
    <2> QED
      BY <2>3 DEF Range
  <1> QED
    BY <1>1, ServerInvariance, PTL

\* A session reaches LOGIN_ATTEMPT only through a lookup that found its
\* account, so that the password query of HandleAuthLoginProofPacket always
\* has a row, whatever other lookups failed or are under way.
THEOREM AccountsKnown == Spec => []LoginHasAccount
  <1>1. IInv => LoginHasAccount
    BY DEF IInv, LoggedIn, LoginHasAccount
  <1> QED
    BY <1>1, ServerInvariance, PTL

\* POLLOUT follows the queue: QueuePacket and Send of TCPSocket.cpp, for the
\* sessions that can still find their entry.
THEOREM PollFollowsQueue == Spec => []PollMatchesQueue
  <1>1. IInv => PollMatchesQueue
    BY DEF IInv
  <1> QED
    BY <1>1, ServerInvariance, PTL

\* The refinement: what all sessions together do to the login database is
\* what LoginDatabase describes, for any interleaving with the worker.
THEOREM RefinesLoginDatabase == Spec => ImplementsLoginDatabase
  <1>1. Init => Db!DbInit
    BY DEF Init
  <1>2. IInv /\ [Next]_vars => [Db!DbNext]_(Db!dbVars)
    BY UsesDatabase DEF dbVars, Db!dbVars
  <1> QED
    BY <1>1, <1>2, ServerInvariance, PTL DEF Spec, ImplementsLoginDatabase, Db!DbSafeSpec

\* So that, if the worker completes every request, no account ever has two
\* active sessions: the theorem of LoginDatabase, for the server that uses it.
THEOREM OneSessionOnServer == ASSUME Outcomes = {"done"} PROVE Spec => []Db!OneSessionPerAccount
  <1>1. Init => DbProofs!DbIInv
    <2>1. Db!DbInit => DbProofs!DbInit
      BY DEF Db!DbInit, DbProofs!DbInit, Db!Nothing, DbProofs!Nothing
    <2> QED
      BY <2>1, DbProofs!DbInitial, DatabaseAssumption DEF Init
  <1>2. IInv /\ DbProofs!DbIInv /\ [Next]_vars => DbProofs!DbIInv'
    BY UsesDatabase, SameSteps, DbProofs!DbStep, DatabaseAssumption
  <1>3. DbProofs!DbIInv => Db!OneSessionPerAccount
    BY DEF DbProofs!DbIInv, DbProofs!OneSessionPerAccount, Db!OneSessionPerAccount
  <1> QED
    BY <1>1, <1>2, <1>3, ServerInvariance, PTL DEF Spec

-----------------------------------------------------------------------------
(* A session and the client it is connected to: what AuthLogin_proofs needs of *)
(* the server *)

\* While a login is between its two requests the main thread is at a complete
\* and right proof, and the key about to be inserted is the one just issued.
Granting ==
    pc = "insert" =>
      /\ packet.cmd = "proof" /\ packet.right /\ ~IsHalf /\ me.status = "LOGIN_ATTEMPT"
      /\ inserting.account = me.account /\ inserting.key = issued /\ issued # 0
\* No account has a key that was not issued.
KeysGiven == \A a \in Registered : lastKey[a] <= issued

\* What a session x with the packets in on their way to it makes of a client
\* that has named the user u, whose one proof is right or not, and that has
\* sent it or not: all packets tell of u, the proof is the last of them and
\* is read once, and only after it there is a key, told to the client.
Telling(packets, u, right) ==
    \A i \in DOMAIN packets : /\ packets[i].cmd = "gather" => packets[i].user = u
                              /\ packets[i].cmd = "proof"  => packets[i].right = right
ProofLast(packets) == \A i \in DOMAIN packets : packets[i].cmd = "proof" => i = Len(packets)
HasProof(packets)  == \E i \in DOMAIN packets : packets[i].cmd = "proof"
Hearing(x, in, u, right, said) ==
    /\ Telling(in, u, right) /\ Telling(x.inBuffer, u, right)
    /\ ProofLast(in) /\ ProofLast(x.inBuffer)
    /\ HasProof(in) \/ HasProof(x.inBuffer) => said
    /\ HasProof(x.inBuffer) => in = <<>> \/ (x.half /\ Len(in) = 1)
    /\ x.status = "LOGIN_ATTEMPT" => x.account = u
Tells(replies, key) ==
    \A i \in DOMAIN replies : replies[i].result = "proofSuccess" => key # 0 /\ replies[i].key = key
Answering(x, in, right, said) ==
    /\ x.sessionKey # 0 => said /\ right /\ in = <<>> /\ x.inBuffer = <<>> /\ x.status = "LOGIN_ATTEMPT"
    /\ Tells(x.outQueue, x.sessionKey)
Serves(s, u, right, said) ==
    /\ Hearing(sessions[s], inbox[s], u, right, said) /\ Answering(sessions[s], inbox[s], right, said)
    /\ \A r \in Lookups : r.session = s => r.user = u
    /\ sessions[s].sessionKey # 0 => u \in Registered /\ sessions[s].sessionKey <= lastKey[u]

\* The same records: the steps that change none of what matters here.
Untouched(s) ==
    /\ inbox'[s] = inbox[s]
    /\ sessions'[s].status = sessions[s].status /\ sessions'[s].account = sessions[s].account
    /\ sessions'[s].sessionKey = sessions[s].sessionKey
    /\ sessions'[s].inBuffer = sessions[s].inBuffer /\ sessions'[s].half = sessions[s].half
    /\ sessions'[s].outQueue = sessions[s].outQueue

\* The client of some session is gone.
Left == /\ gone' \subseteq SessionIds
        /\ UNCHANGED <<pc, turn, batch, sessions, pollVars, socketOf, inbox, sent, dbVars>>
\* What the server does by itself, its clients leaving included.
OwnStep == PollLoop \/ Failure \/ WorkerFinishes \/ Shutdown \/ Left

\* A departure changes nothing of the invariant.
LEMMA LeftKeeps ==
  ASSUME IInv, Left
  PROVE  IInv'
  <1>1. Db!DbTypeOK' /\ issued' <= MaxKeys
    BY DbKept DEF Left, IInv, RestTypes
  <1>2. RestTypes'
    BY <1>1 DEF Left, IInv, RestTypes, pollVars
  <1>3. AtWork' /\ Handling'
    <2>1. me' = me
      BY DEF Left, me, s0, pollVars
    <2> QED
      BY <2>1 DEF Left, IInv, AtWork, Handling, pollVars, dbVars
  <1>4. Lookups' \subseteq Lookups
    BY DEF Left, Lookups, dbVars
  <1> QED
    BY <1>2, <1>3, <1>4, Still DEF Left, pollVars

\* The handler of a right proof is the only way to its second request, and
\* what it works with stays until it gets there.
LEMMA BetweenRequests ==
  ASSUME IInv, OwnStep \/ Environment, pc' = "insert"
  PROVE  RightPassword \/ (pc = "insert" /\ UNCHANGED <<sessions, list, turn, inserting, issued>>)
  <1>1. CASE Serve
    <2>1. CASE RightPassword
      BY <2>1
    <2>2. CASE GetResponses \/ CallbacksDone \/ EndOfPoll \/ SkipInvalid \/ SendNothing \/ SendFails
      BY <2>2 DEF GetResponses, CallbacksDone, EndOfPoll, SkipInvalid, SendNothing, SendFails, NextClient
    <2>3. CASE ReceiveNothing \/ ReceiveFails \/ \E n \in 1..MaxMessages, split \in BOOLEAN : Receive(n, split)
      BY <2>3 DEF ReceiveNothing, ReceiveFails, Receive, NextClient
    <2>4. CASE ReadDone \/ UnknownCommand \/ StatusMismatch \/ TooBig \/ NewSession
      BY <2>4 DEF ReadDone, UnknownCommand, StatusMismatch, TooBig, NewSession, NextClient
    <2>5. CASE RunCallback \/ HandleAuthLoginGatherInfoPacket \/ WrongPassword
      BY <2>5 DEF RunCallback, HandleAuthLoginGatherInfoPacket, WrongPassword, Reading
    <2> QED
      BY <1>1, <2>1, <2>2, <2>3, <2>4, <2>5 DEF Serve
  <1>2. CASE PollLoop /\ ~Serve
    BY <1>2 DEF PollLoop, Poll, NoNewClient, AcceptClient, SendPacket
  <1>3. CASE Failure \/ Shutdown
    BY <1>3 DEF Failure, PollFails, SslCrash, PasswordQueryFails, Shutdown
  <1>4. CASE WorkerFinishes
    BY <1>4 DEF WorkerFinishes, Db!Finish, pollVars
  <1>5. CASE Left \/ Environment
    BY <1>5 DEF Left, Environment, ClientSends, ClientGoes, pollVars, dbVars
  <1> QED
    BY <1>1, <1>2, <1>3, <1>4, <1>5 DEF OwnStep

LEMMA GrantingStep ==
  ASSUME IInv, Granting, OwnStep \/ Environment
  PROVE  Granting'
  <1> SUFFICES ASSUME pc' = "insert"
               PROVE  /\ packet'.cmd = "proof" /\ packet'.right /\ ~IsHalf' /\ me'.status = "LOGIN_ATTEMPT"
                      /\ inserting'.account = me'.account /\ inserting'.key = issued' /\ issued' # 0
    BY DEF Granting
  <1>1. CASE RightPassword
    <2>1. sessions' = sessions /\ list' = list /\ turn' = turn
      BY <1>1 DEF RightPassword, pollVars
    <2>2. me' = me /\ packet' = packet /\ (IsHalf' <=> IsHalf)
      BY <2>1 DEF me, s0, packet, IsHalf
    <2>3. /\ packet.cmd = "proof" /\ packet.right /\ ~IsHalf /\ me.status = "LOGIN_ATTEMPT"
          /\ inserting' = Db!Insert(me.account, issued') /\ issued' = issued + 1
      BY <1>1 DEF RightPassword, Reading, Complete, Db!EnqueueDelete
    <2>4. issued \in Nat
      BY DEF IInv, RestTypes, Db!DbTypeOK
    <2>5. inserting'.account = me.account /\ inserting'.key = issued'
      BY <2>3 DEF Db!Insert
    <2> QED
      BY <2>2, <2>3, <2>4, <2>5
  <1>2. CASE pc = "insert" /\ UNCHANGED <<sessions, list, turn, inserting, issued>>
    <2>1. me' = me /\ packet' = packet /\ (IsHalf' <=> IsHalf)
      BY <1>2 DEF me, s0, packet, IsHalf
    <2> QED
      BY <1>2, <2>1 DEF Granting
  <1> QED
    BY <1>1, <1>2, BetweenRequests

\* The steps of the database.
LEMMA OwnUsesDatabase == IInv /\ (OwnStep \/ Environment) => [Db!DbNext]_dbVars
  <1>1. Left => [Db!DbNext]_dbVars
    BY DEF Left
  <1> QED
    BY <1>1, UsesDatabase DEF OwnStep, Next

\* Keys are issued in order, so that an account's last key only grows.
LEMMA KeysGrow ==
  ASSUME IInv, Granting, KeysGiven, OwnStep \/ Environment
  PROVE  KeysGiven' /\ \A a \in Registered : lastKey[a] <= lastKey'[a]
  <1>1. lastKey \in [Registered -> Nat] /\ issued \in Nat
    BY DEF IInv, RestTypes, Db!DbTypeOK
  <1>2. CASE lastKey' = lastKey /\ issued' \in {issued, issued + 1}
    BY <1>1, <1>2 DEF KeysGiven
  <1>3. CASE Db!EnqueueInsert
    <2>1. pc = "insert" /\ inserting.key = issued
      BY <1>3 DEF Db!EnqueueInsert, IInv, Handling, Granting
    <2>2. lastKey' = [lastKey EXCEPT ![inserting.account] = issued] /\ issued' = issued
      BY <1>3, <2>1 DEF Db!EnqueueInsert
    <2> QED
      BY <1>1, <2>2 DEF KeysGiven
  <1>4. CASE [Db!DbNext]_dbVars /\ ~Db!EnqueueInsert
    BY <1>2, <1>4 DEF Db!DbNext, dbVars, Db!EnqueueSelect, Db!EnqueueLog, Db!EnqueueDelete, Db!Finish, Db!Collect
  <1> QED
    BY <1>3, <1>4, OwnUsesDatabase

\* A lookup is new only if its session has just handled a greeting.
LEMMA NewLookups ==
  ASSUME IInv, OwnStep \/ Environment, NEW r \in Lookups', r \notin Lookups
  PROVE  HandleAuthLoginGatherInfoPacket /\ r.session = s0 /\ r.user = packet.user
  <1>1. dbQueue \in Seq(Db!Requests)
    BY DEF IInv, RestTypes, Db!DbTypeOK
  <1>2. CASE UNCHANGED <<dbQueue, responses, batch>>
    BY <1>2 DEF Lookups
  <1>3. CASE GetResponses
    BY <1>3, EmptyRange DEF Lookups, GetResponses, Db!Collect
  <1>4. CASE RunCallback
    <2>1. batch \in Seq(Db!Selects) /\ batch # <<>> /\ batch' = Tail(batch) /\ UNCHANGED <<dbQueue, responses>>
      BY <1>4 DEF IInv, RestTypes, RunCallback, dbVars
    <2>2. Range(Tail(batch)) \subseteq Range(batch)
      BY <2>1, TakenRange
    <2> QED
      BY <2>1, <2>2 DEF Lookups
  <1>5. CASE HandleAuthLoginGatherInfoPacket
    <2> DEFINE x == Db!Select(s0, packet.user)
    <2>1. turn <= Len(pollFds) /\ me.inBuffer # <<>> /\ packet.cmd = "gather"
      BY <1>5 DEF HandleAuthLoginGatherInfoPacket, Reading, IInv, AtWork
    <2>2. s0 \in SessionIds /\ packet.user \in Users
      BY <2>1, Me, Packets
    <2>3. x \in Db!Requests /\ x.session = s0 /\ x.user = packet.user
      BY <2>2 DEF Db!Select, Db!Requests, Db!Selects
    <2>4. dbQueue' = Append(dbQueue, x) /\ UNCHANGED <<responses, batch>>
      BY <1>5 DEF HandleAuthLoginGatherInfoPacket, Db!EnqueueSelect
    <2> HIDE DEF x
    <2>5. Range(dbQueue') = Range(dbQueue) \cup {x}
      BY <1>1, <2>3, <2>4, AppendedRange
    <2> QED
      BY <1>5, <2>3, <2>4, <2>5 DEF Lookups
  <1>6. CASE WrongPassword \/ RightPassword \/ NewSession
    <2>1. PICK x \in Db!Requests : x.op # "select" /\ dbQueue' = Append(dbQueue, x)
      <3>1. CASE WrongPassword \/ RightPassword
        <4>1. turn <= Len(pollFds) /\ me.status = "LOGIN_ATTEMPT"
          BY <3>1 DEF WrongPassword, RightPassword, Reading, IInv, AtWork
        <4>2. me.user \in Users /\ me.account \in Registered
          BY <4>1, Me DEF IInv, LoggedIn, me
        <4>3. \/ dbQueue' = Append(dbQueue, Db!Log(me.user))
              \/ dbQueue' = Append(dbQueue, Db!Delete(me.account))
          BY <3>1 DEF WrongPassword, RightPassword, Db!EnqueueLog, Db!EnqueueDelete
        <4>4. /\ Db!Log(me.user) \in Db!Requests /\ Db!Log(me.user).op # "select"
              /\ Db!Delete(me.account) \in Db!Requests /\ Db!Delete(me.account).op # "select"
          BY <4>2 DEF Db!Log, Db!Delete, Db!Requests, Db!Logs, Db!Deletes
        <4> QED
          BY <4>3, <4>4
      <3>2. CASE NewSession
        <4>1. inserting \in Db!Inserts /\ dbQueue' = Append(dbQueue, inserting)
          BY <3>2 DEF NewSession, Db!EnqueueInsert, IInv, RestTypes, Db!DbTypeOK
        <4>2. inserting \in Db!Requests /\ inserting.op # "select"
          BY <4>1 DEF Db!Requests, Db!Inserts
        <4> QED
          BY <4>1, <4>2
      <3> QED
        BY <1>6, <3>1, <3>2
    <2>2. UNCHANGED <<responses, batch>>
      BY <1>6 DEF WrongPassword, RightPassword, NewSession, Db!EnqueueLog, Db!EnqueueDelete, Db!EnqueueInsert
    <2> QED
      BY <2>1, <2>2, NoNewLookup
  <1>7. CASE WorkerFinishes
    BY <1>7, FinishedLookups
  <1>8. CASE Serve
    <2>1. CASE CallbacksDone \/ EndOfPoll \/ SkipInvalid \/ SendNothing \/ SendFails
      BY <1>2, <2>1 DEF CallbacksDone, EndOfPoll, SkipInvalid, SendNothing, SendFails, dbVars
    <2>2. CASE ReceiveNothing \/ ReceiveFails \/ \E n \in 1..MaxMessages, split \in BOOLEAN : Receive(n, split)
      BY <1>2, <2>2 DEF ReceiveNothing, ReceiveFails, Receive, dbVars
    <2>3. CASE ReadDone \/ UnknownCommand \/ StatusMismatch \/ TooBig
      BY <1>2, <2>3 DEF ReadDone, UnknownCommand, StatusMismatch, TooBig, dbVars
    <2> QED
      BY <1>3, <1>4, <1>5, <1>6, <1>8, <2>1, <2>2, <2>3 DEF Serve
  <1>9. CASE PollLoop /\ ~Serve
    BY <1>2, <1>9 DEF PollLoop, Poll, NoNewClient, AcceptClient, SendPacket, dbVars
  <1>10. CASE Failure \/ Shutdown \/ Left \/ Environment
    BY <1>2, <1>10 DEF Failure, PollFails, SslCrash, PasswordQueryFails, Shutdown, Left, Environment,
                       ClientSends, ClientGoes, dbVars
  <1> QED
    BY <1>7, <1>8, <1>9, <1>10 DEF OwnStep

\* A session that is not the one at the loop's index, of a sequence that
\* changes there alone.
LEMMA Elsewhere ==
  ASSUME NEW s \in DOMAIN sessions, NEW t, s # t, NEW x,
         sessions' = [sessions EXCEPT ![t] = x], inbox'[s] = inbox[s]
  PROVE  Untouched(s)
  BY DEF Untouched

\* Closing a connection leaves everything else of the session.
LEMMA CloseTouchesNothing ==
  ASSUME IInv, NEW t, Close(t), UNCHANGED inbox, NEW s \in DOMAIN sessions
  PROVE  Untouched(s)
  <1> DEFINE x == [sessions[t] EXCEPT !.ssl = "freed"]
  <1>1. sessions[s] \in SessionObjects
    BY Indexes DEF IInv, Structures
  <1>2. sessions' = [sessions EXCEPT ![t] = x]
    BY DEF Close
  <1>3. CASE s # t
    BY <1>2, <1>3, Elsewhere
  <1>4. CASE s = t
    <2>1. sessions'[s] = [sessions[s] EXCEPT !.ssl = "freed"]
      BY <1>2, <1>4
    <2> QED
      BY <1>1, <2>1 DEF Untouched, SessionObjects
  <1> QED
    BY <1>3, <1>4

\* A new session leaves the earlier ones at most without their m_pfd.
LEMMA AcceptTouchesNothing ==
  ASSUME IInv, NEW fd, AcceptClient(fd), NEW s \in DOMAIN sessions
  PROVE  Untouched(s)
  <1> DEFINE earlier == [i \in DOMAIN sessions |->
                           IF Reallocates THEN [sessions[i] EXCEPT !.pfd = 0] ELSE sessions[i]]
  <1>1. PICK x : sessions' = Append(earlier, x)
    BY DEF AcceptClient
  <1>2. /\ sessions \in Seq(SessionObjects) /\ sessions[s] \in SessionObjects /\ DOMAIN sessions = 1..Len(sessions)
        /\ Len(sessions) \in Nat
    BY Indexes DEF IInv, Structures
  <1>3. inbox' = Append(inbox, <<>>) /\ inbox \in Seq(Seq(Messages)) /\ Len(inbox) = Len(sessions)
    BY DEF AcceptClient, IInv, RestTypes, Aligned
  <1>4. earlier[s] = sessions[s] \/ earlier[s] = [sessions[s] EXCEPT !.pfd = 0]
    OBVIOUS
  <1>5. \A i \in DOMAIN sessions : earlier[i] \in SessionObjects
    BY <1>2, Indexes, Changes
  <1>6. earlier \in [DOMAIN sessions -> SessionObjects]
    BY <1>5
  <1> HIDE DEF earlier
  <1>7. earlier \in Seq(SessionObjects) /\ Len(earlier) = Len(sessions)
    BY <1>2, <1>6, Mapped
  <1>8. sessions'[s] = earlier[s]
    BY <1>1, <1>2, <1>7
  <1>9. inbox'[s] = inbox[s]
    <2>1. <<>> \in Seq(Messages)
      BY EmptySeq
    <2> QED
      BY <1>2, <1>3, <2>1, Appended
  <1>10. CASE earlier[s] = sessions[s]
    BY <1>8, <1>9, <1>10 DEF Untouched
  <1>11. CASE earlier[s] = [sessions[s] EXCEPT !.pfd = 0]
    <2>1. sessions'[s] = [sessions[s] EXCEPT !.pfd = 0]
      BY <1>8, <1>11
    <2> QED
      BY <1>2, <1>9, <2>1 DEF Untouched, SessionObjects
  <1> QED
    BY <1>4, <1>10, <1>11

\* What a step of the server can do to a session is what the handlers do to
\* the one they are called on.
TouchedBy(s) ==
    \/ RunCallback /\ Head(batch).session = s
    \/ /\ s0 = s /\ turn <= Len(pollFds)
       /\ \/ SendPacket \/ UnknownCommand \/ HandleAuthLoginGatherInfoPacket \/ WrongPassword \/ NewSession
          \/ \E n \in 1..MaxMessages, split \in BOOLEAN : Receive(n, split)
LEMMA Touches ==
  ASSUME IInv, OwnStep, NEW s \in DOMAIN sessions, ~Untouched(s)
  PROVE  TouchedBy(s)
  <1>1. ~UNCHANGED <<sessions, inbox>>
    BY DEF Untouched
  <1>2. CASE RunCallback
    <2>1. PICK x : sessions' = [sessions EXCEPT ![Head(batch).session] = x] /\ inbox' = inbox
      BY <1>2 DEF RunCallback, QueuePacket, clientVars
    <2> QED
      BY <1>2, <2>1, Elsewhere DEF TouchedBy
  <1>3. ASSUME turn <= Len(pollFds), NEW x, sessions' = [sessions EXCEPT ![s0] = x], inbox'[s] = inbox[s] \/ s0 = s
        PROVE  s0 = s /\ turn <= Len(pollFds)
    BY <1>3, Elsewhere
  <1>4. CASE SendPacket \/ UnknownCommand \/ HandleAuthLoginGatherInfoPacket \/ WrongPassword \/ NewSession
    <2>1. turn <= Len(pollFds)
      BY <1>4 DEF SendPacket, AtClient, UnknownCommand, HandleAuthLoginGatherInfoPacket, WrongPassword, NewSession,
                  Reading, IInv, AtWork
    <2>2. inbox' = inbox
      BY <1>4 DEF SendPacket, UnknownCommand, HandleAuthLoginGatherInfoPacket, WrongPassword, NewSession, clientVars
    <2>3. \E x : sessions' = [sessions EXCEPT ![s0] = x]
      BY <1>4 DEF SendPacket, UnknownCommand, HandleAuthLoginGatherInfoPacket, WrongPassword, NewSession, QueuePacket
    <2> QED
      BY <1>3, <1>4, <2>1, <2>2, <2>3 DEF TouchedBy
  <1>5. CASE \E n \in 1..MaxMessages, split \in BOOLEAN : Receive(n, split)
    <2>1. PICK n \in 1..MaxMessages, split \in BOOLEAN : Receive(n, split)
      BY <1>5
    <2>2. turn <= Len(pollFds)
      BY <2>1 DEF Receive, IInv, AtWork
    <2>3. \E x : sessions' = [sessions EXCEPT ![s0] = x]
      BY <2>1 DEF Receive
    <2>4. inbox'[s] = inbox[s] \/ s0 = s
      <3>1. s \in DOMAIN inbox
        BY Indexes DEF IInv, Structures, RestTypes, Aligned
      <3>2. \E x : inbox' = [inbox EXCEPT ![s0] = x]
        BY <2>1 DEF Receive
      <3> QED
        BY <3>1, <3>2
    <2>5. s0 = s
      BY <1>3, <2>2, <2>3, <2>4
    <2> QED
      BY <1>5, <2>2, <2>5 DEF TouchedBy
  <1>6. CASE SendFails \/ ReceiveFails \/ StatusMismatch \/ TooBig
    BY <1>6, CloseTouchesNothing DEF SendFails, ReceiveFails, StatusMismatch, TooBig, clientVars
  <1>7. CASE Serve
    <2>1. CASE GetResponses \/ CallbacksDone \/ EndOfPoll \/ SkipInvalid \/ SendNothing \/ ReceiveNothing
               \/ ReadDone \/ RightPassword
      BY <1>1, <2>1 DEF GetResponses, CallbacksDone, EndOfPoll, SkipInvalid, SendNothing, ReceiveNothing,
                        ReadDone, RightPassword, clientVars
    <2> QED
      BY <1>2, <1>4, <1>5, <1>6, <1>7, <2>1 DEF Serve
  <1>8. CASE PollLoop /\ ~Serve
    <2>1. CASE NoNewClient \/ \E incoming \in BOOLEAN : Poll(incoming)
      BY <1>1, <2>1 DEF NoNewClient, Poll, clientVars
    <2> QED
      BY <1>4, <1>8, <2>1, AcceptTouchesNothing DEF PollLoop
  <1>9. CASE Failure \/ WorkerFinishes \/ Shutdown \/ Left
    BY <1>1, <1>9 DEF Failure, PollFails, SslCrash, PasswordQueryFails, WorkerFinishes, Shutdown, Left, clientVars
  <1> QED
    BY <1>7, <1>8, <1>9 DEF OwnStep

\* One packet less to handle.
LEMMA PacketTaken ==
  ASSUME NEW b \in Seq(Messages), b # <<>>
  PROVE  /\ \A u, right : Telling(b, u, right) => Telling(Tail(b), u, right)
         /\ ProofLast(b) => ProofLast(Tail(b))
         /\ HasProof(Tail(b)) => HasProof(b)
         /\ Head(b).cmd = "proof" => HasProof(b) /\ (ProofLast(b) => Tail(b) = <<>> /\ Len(b) = 1)
  <1> DEFINE t == Tail(b)
  <1>1. /\ t \in Seq(Messages) /\ Len(t) = Len(b) - 1 /\ Len(b) \in Nat \ {0} /\ \A i \in 1..Len(t) : t[i] = b[i + 1]
        /\ Head(b) = b[1]
    BY Taken
  <1>2. DOMAIN b = 1..Len(b) /\ DOMAIN t = 1..Len(t)
    BY <1>1, LenProperties
  <1>3. t = <<>> <=> Len(t) = 0
    BY <1>1, EmptySeq
  <1> HIDE DEF t
  <1>4. \A i \in DOMAIN t : i + 1 \in DOMAIN b /\ t[i] = b[i + 1]
    BY <1>1, <1>2
  <1>5. \A u, right : Telling(b, u, right) => Telling(t, u, right)
    BY <1>4 DEF Telling
  <1>6. ProofLast(b) => ProofLast(t)
    BY <1>1, <1>2, <1>4 DEF ProofLast
  <1>7. HasProof(t) => HasProof(b)
    BY <1>4 DEF HasProof
  <1>8. Head(b).cmd = "proof" => HasProof(b) /\ (ProofLast(b) => t = <<>> /\ Len(b) = 1)
    BY <1>1, <1>2, <1>3 DEF HasProof, ProofLast
  <1> QED
    BY <1>5, <1>6, <1>7, <1>8 DEF t

\* One packet more on its way, a proof only if none is there yet.
LEMMA PacketAdded ==
  ASSUME NEW q \in Seq(Messages), NEW m \in Messages, ~HasProof(q), NEW u, NEW right, Telling(q, u, right),
         m.cmd = "gather" => m.user = u, m.cmd = "proof" => m.right = right
  PROVE  /\ Telling(Append(q, m), u, right) /\ ProofLast(Append(q, m))
         /\ HasProof(Append(q, m)) => m.cmd = "proof"
  <1> DEFINE t == Append(q, m)
  <1>1. /\ Len(t) = Len(q) + 1 /\ t[Len(q) + 1] = m
        /\ \A i \in 1..Len(q) : t[i] = q[i]
        /\ DOMAIN t = 1..(Len(q) + 1) /\ DOMAIN q = 1..Len(q) /\ Len(q) \in Nat
    BY Appended, LenProperties
  <1> HIDE DEF t
  <1>2. \A i \in DOMAIN t : (i \in DOMAIN q /\ t[i] = q[i]) \/ (i = Len(t) /\ t[i] = m)
    <2> TAKE i \in DOMAIN t
    <2>1. i \in 1..(Len(q) + 1)
      BY <1>1
    <2>2. i \in 1..Len(q) \/ i = Len(q) + 1
      BY <1>1, <2>1
    <2>3. CASE i \in 1..Len(q)
      BY <1>1, <2>3
    <2>4. CASE i = Len(q) + 1
      BY <1>1, <2>4
    <2> QED
      BY <2>2, <2>3, <2>4
  <1>3. Telling(t, u, right)
    BY <1>2 DEF Telling
  <1>4. ProofLast(t) /\ (HasProof(t) => m.cmd = "proof")
    BY <1>2 DEF ProofLast, HasProof
  <1> QED
    BY <1>3, <1>4 DEF t

\* Replies are queued at the end and taken from the head.
LEMMA ReplyAdded ==
  ASSUME NEW R, NEW q \in Seq(R), NEW r \in R, NEW key, Tells(q, key),
         r.result = "proofSuccess" => key # 0 /\ r.key = key
  PROVE  Tells(Append(q, r), key)
  <1> DEFINE t == Append(q, r)
  <1>1. /\ t[Len(q) + 1] = r
        /\ \A i \in 1..Len(q) : t[i] = q[i]
        /\ DOMAIN t = 1..(Len(q) + 1) /\ DOMAIN q = 1..Len(q) /\ Len(q) \in Nat
    BY Appended, LenProperties
  <1> HIDE DEF t
  <1>2. \A i \in DOMAIN t : (i \in DOMAIN q /\ t[i] = q[i]) \/ t[i] = r
    <2> TAKE i \in DOMAIN t
    <2>1. i \in 1..(Len(q) + 1)
      BY <1>1
    <2>2. i \in 1..Len(q) \/ i = Len(q) + 1
      BY <1>1, <2>1
    <2>3. CASE i \in 1..Len(q)
      BY <1>1, <2>3
    <2>4. CASE i = Len(q) + 1
      BY <1>1, <2>4
    <2> QED
      BY <2>2, <2>3, <2>4
  <1>3. Tells(t, key)
    BY <1>2 DEF Tells
  <1> QED
    BY <1>3 DEF t
LEMMA ReplyTaken ==
  ASSUME NEW R, NEW q \in Seq(R), q # <<>>, NEW key, Tells(q, key)
  PROVE  Tells(Tail(q), key) /\ (Head(q).result = "proofSuccess" => key # 0 /\ Head(q).key = key)
  <1> DEFINE t == Tail(q)
  <1>1. /\ t \in Seq(R) /\ Len(t) = Len(q) - 1 /\ Len(q) \in Nat \ {0} /\ \A i \in 1..Len(t) : t[i] = q[i + 1]
        /\ Head(q) = q[1]
    BY Taken
  <1>2. DOMAIN q = 1..Len(q) /\ DOMAIN t = 1..Len(t)
    BY <1>1, LenProperties
  <1> HIDE DEF t
  <1>3. \A i \in DOMAIN t : i + 1 \in DOMAIN q /\ t[i] = q[i + 1]
    BY <1>1, <1>2
  <1>4. Tells(t, key)
    BY <1>3 DEF Tells
  <1>5. 1 \in DOMAIN q
    BY <1>1, <1>2
  <1> QED
    BY <1>1, <1>4, <1>5 DEF t, Tells

\* A record that is read: what of it has been read before, as the part of
\* its first packet, is not read again.
LEMMA PacketsRead ==
  ASSUME NEW b \in Seq(Messages), NEW in \in Seq(Messages), NEW n \in Nat \ {0}, n <= Len(in),
         NEW half \in BOOLEAN, NEW split \in BOOLEAN, ~(half /\ split /\ n = 1),
         NEW u, NEW right, Telling(b, u, right), Telling(in, u, right), ProofLast(b), ProofLast(in),
         HasProof(b) => in = <<>> \/ (half /\ Len(in) = 1)
  PROVE  LET more == b \o SubSeq(in, IF half THEN 2 ELSE 1, n)
             rest == SubSeq(in, IF split THEN n ELSE n + 1, Len(in))
         IN  /\ Telling(more, u, right) /\ Telling(rest, u, right) /\ ProofLast(more) /\ ProofLast(rest)
             /\ HasProof(more) \/ HasProof(rest) => HasProof(b) \/ HasProof(in)
             /\ HasProof(more) => rest = <<>> \/ (split /\ Len(rest) = 1)
  <1> DEFINE f == IF half THEN 2 ELSE 1
             k == IF split THEN n ELSE n + 1
             read == SubSeq(in, f, n)
             more == b \o read
             rest == SubSeq(in, k, Len(in))
  <1>1. /\ Len(in) \in Nat /\ DOMAIN in = 1..Len(in) /\ \A i \in 1..Len(in) : in[i] \in Messages
        /\ Len(b) \in Nat /\ DOMAIN b = 1..Len(b)
    BY LenProperties, ElementOfSeq
  <1>2. f \in {1, 2} /\ (half <=> f = 2) /\ k \in {n, n + 1} /\ (split <=> k = n)
    OBVIOUS
  <1> HIDE DEF f, k
  <1>3. /\ read \in Seq(Messages) /\ Len(read) = n + 1 - f /\ DOMAIN read = 1..(n + 1 - f)
        /\ \A i \in 1..(n + 1 - f) : read[i] = in[f + i - 1]
    <2>1. f \in Int /\ n \in Int /\ n >= f - 1 /\ n - f + 1 = n + 1 - f /\ \A i \in f..n : in[i] \in Messages
      BY <1>1, <1>2
    <2>2. /\ read \in Seq(Messages) /\ Len(read) = (IF f <= n THEN n - f + 1 ELSE 0)
          /\ \A i \in 1..(n - f + 1) : read[i] = in[f + i - 1]
      BY <2>1, SubSeqProperties
    <2>3. Len(read) = n + 1 - f
      BY <2>1, <2>2
    <2> QED
      BY <2>1, <2>2, <2>3, LenProperties
  <1>4. /\ rest \in Seq(Messages) /\ Len(rest) = Len(in) + 1 - k /\ DOMAIN rest = 1..(Len(in) + 1 - k)
        /\ \A i \in 1..(Len(in) + 1 - k) : rest[i] = in[k + i - 1]
    <2> DEFINE l == Len(in)
    <2>1. k \in Int /\ l \in Int /\ l >= k - 1 /\ l - k + 1 = l + 1 - k /\ \A i \in k..l : in[i] \in Messages
      BY <1>1, <1>2
    <2> HIDE DEF l
    <2>2. /\ SubSeq(in, k, l) \in Seq(Messages) /\ Len(SubSeq(in, k, l)) = (IF k <= l THEN l - k + 1 ELSE 0)
          /\ \A i \in 1..(l - k + 1) : SubSeq(in, k, l)[i] = in[k + i - 1]
      BY <2>1, SubSeqProperties
    <2>3. Len(SubSeq(in, k, l)) = l + 1 - k
      BY <2>1, <2>2
    <2>4. DOMAIN SubSeq(in, k, l) = 1..(l + 1 - k)
      BY <2>2, <2>3, LenProperties
    <2> QED
      BY <2>1, <2>2, <2>3, <2>4 DEF l
  <1> HIDE DEF read, rest
  <1>5. /\ more \in Seq(Messages) /\ Len(more) = Len(b) + (n + 1 - f) /\ DOMAIN more = 1..(Len(b) + (n + 1 - f))
        /\ \A i \in 1..Len(more) : more[i] = IF i <= Len(b) THEN b[i] ELSE read[i - Len(b)]
    <2> HIDE DEF more
    <2>1. /\ b \o read \in Seq(Messages) /\ Len(b \o read) = Len(b) + Len(read)
          /\ \A i \in 1..Len(b) + Len(read) : (b \o read)[i] = IF i <= Len(b) THEN b[i] ELSE read[i - Len(b)]
      BY <1>3, ConcatProperties
    <2>2. DOMAIN (b \o read) = 1..Len(b \o read)
      BY <2>1, LenProperties
    <2>3. Len(b \o read) = Len(b) + (n + 1 - f)
      BY <1>3, <2>1
    <2> QED
      BY <1>3, <2>1, <2>2, <2>3 DEF more
  <1> HIDE DEF more
  \* Where what is in the two sequences comes from.
  <1>6. \A i \in DOMAIN more : \/ i \in DOMAIN b /\ more[i] = b[i]
                               \/ /\ i > Len(b) /\ f + (i - Len(b)) - 1 \in 1..n
                                  /\ more[i] = in[f + (i - Len(b)) - 1]
    <2> SUFFICES ASSUME NEW i \in DOMAIN more
                 PROVE  \/ i \in DOMAIN b /\ more[i] = b[i]
                        \/ i > Len(b) /\ f + (i - Len(b)) - 1 \in 1..n /\ more[i] = in[f + (i - Len(b)) - 1]
      OBVIOUS
    <2>1. i \in 1..(Len(b) + (n + 1 - f)) /\ more[i] = IF i <= Len(b) THEN b[i] ELSE read[i - Len(b)]
      BY <1>5
    <2>2. CASE i <= Len(b)
      BY <1>1, <2>1, <2>2
    <2>3. CASE i > Len(b)
      <3>1. i - Len(b) \in 1..(n + 1 - f)
        BY <1>1, <1>2, <2>1, <2>3
      <3>2. more[i] = read[i - Len(b)]
        BY <1>1, <2>1, <2>3
      <3>3. f + (i - Len(b)) - 1 \in 1..n
        BY <1>1, <1>2, <2>1, <2>3
      <3> QED
        BY <1>3, <2>3, <3>1, <3>2, <3>3
    <2> QED
      BY <1>1, <2>1, <2>2, <2>3
  <1>7. \A i \in DOMAIN rest : k + i - 1 \in 1..Len(in) /\ rest[i] = in[k + i - 1]
    <2> SUFFICES ASSUME NEW i \in 1..(Len(in) + 1 - k)
                 PROVE  k + i - 1 \in 1..Len(in)
      BY <1>4
    <2> QED
      BY <1>1, <1>2
  <1>8. \A i \in 1..n : i \in DOMAIN in
    BY <1>1
  <1>9. Telling(more, u, right)
    BY <1>6, <1>8 DEF Telling
  <1>10. Telling(rest, u, right)
    BY <1>1, <1>7 DEF Telling
  <1>11. HasProof(more) \/ HasProof(rest) => HasProof(b) \/ HasProof(in)
    BY <1>1, <1>6, <1>7, <1>8 DEF HasProof
  <1>12. ProofLast(rest)
    BY <1>1, <1>2, <1>4, <1>7 DEF ProofLast
  \* A proof that was read before is not there any more.
  <1>13. HasProof(b) => half /\ Len(in) = 1 /\ n = 1 /\ ~split /\ f = 2 /\ k = 2
    BY <1>1, <1>2, EmptySeq
  <1>14. ASSUME NEW i \in DOMAIN more, more[i].cmd = "proof"
         PROVE  i = Len(more) /\ (rest = <<>> \/ (split /\ Len(rest) = 1))
    <2>1. CASE i \in DOMAIN b /\ more[i] = b[i]
      <3>1. HasProof(b) /\ i = Len(b)
        BY <1>14, <2>1 DEF HasProof, ProofLast
      <3>2. Len(more) = Len(b) /\ Len(rest) = 0
        BY <1>1, <1>4, <1>5, <1>13, <3>1
      <3> QED
        BY <1>4, <3>1, <3>2, EmptySeq
    <2>2. CASE /\ i > Len(b) /\ f + (i - Len(b)) - 1 \in 1..n
               /\ more[i] = in[f + (i - Len(b)) - 1]
      <3>1. f + (i - Len(b)) - 1 = Len(in)
        BY <1>8, <1>14, <2>2 DEF ProofLast
      <3>2. n = Len(in)
        <4>1. Len(in) \in 1..n
          BY <2>2, <3>1
        <4>2. \A l \in Nat : n <= l /\ l \in 1..n => n = l
          OBVIOUS
        <4> QED
          BY <1>1, <4>1, <4>2
      <3>4. i = Len(more)
        <4>1. Len(more) = Len(b) + (n + 1 - f) /\ i \in 1..(Len(b) + (n + 1 - f)) /\ f + (i - Len(b)) - 1 = n
          BY <1>5, <1>14, <3>1, <3>2
        <4> HIDE DEF more
        <4> QED
          BY <1>1, <1>2, <4>1
      <3>3. (split /\ Len(rest) = 1) \/ Len(rest) = 0
        <4>1. Len(rest) = n + 1 - k
          BY <1>4, <3>2
        <4> QED
          BY <1>2, <4>1
      <3> QED
        BY <1>4, <3>3, <3>4, EmptySeq
    <2> QED
      BY <1>6, <2>1, <2>2
  <1>15. ProofLast(more) /\ (HasProof(more) => rest = <<>> \/ (split /\ Len(rest) = 1))
    BY <1>14 DEF ProofLast, HasProof
  <1> QED
    BY <1>9, <1>10, <1>11, <1>12, <1>15 DEF more, rest, read, f, k

-----------------------------------------------------------------------------
(* The steps of the server serve its clients *)

\* The types of what matters of a session.
LEMMA SessionTypes ==
  ASSUME IInv, NEW s \in DOMAIN sessions
  PROVE  /\ sessions[s] \in SessionObjects /\ sessions[s].inBuffer \in Seq(Messages)
         /\ sessions[s].outQueue \in Seq(Replies) /\ sessions[s].sessionKey \in Nat
         /\ s \in DOMAIN inbox /\ inbox[s] \in Seq(Messages)
  <1>1. sessions[s] \in SessionObjects /\ DOMAIN sessions = 1..Len(sessions)
    BY Indexes DEF IInv, Structures
  <1>2. inbox \in Seq(Seq(Messages)) /\ Len(inbox) = Len(sessions)
    BY DEF IInv, RestTypes, Aligned
  <1>3. s \in DOMAIN inbox /\ inbox[s] \in Seq(Messages)
    BY <1>1, <1>2, Indexes
  <1>4. sessions[s].sessionKey \in Nat
    <2>1. sessions[s].sessionKey \in 0..MaxKeys
      BY <1>1 DEF SessionObjects
    <2> QED
      BY <2>1
  <1> QED
    BY <1>1, <1>3, <1>4, Fields

\* Two sessions that agree in what matters.
LEMMA Alike ==
  ASSUME NEW x, NEW y, NEW in, NEW u, NEW right, NEW said,
         Hearing(x, in, u, right, said), Answering(x, in, right, said),
         y.status = x.status, y.account = x.account, y.sessionKey = x.sessionKey,
         y.inBuffer = x.inBuffer, y.half = x.half, y.outQueue = x.outQueue
  PROVE  Hearing(y, in, u, right, said) /\ Answering(y, in, right, said)
  BY DEF Hearing, Answering

\* A packet has been handled: the session holds one less, and knows at most
\* the account that its packets tell of.
LEMMA HeardOne ==
  ASSUME NEW x \in SessionObjects, NEW y, NEW in, NEW u, NEW right, NEW said, Hearing(x, in, u, right, said),
         x.inBuffer # <<>>, y.inBuffer = Tail(x.inBuffer), y.half = x.half,
         y.status = x.status, y.account = x.account
  PROVE  Hearing(y, in, u, right, said)
  <1>1. x.inBuffer \in Seq(Messages)
    BY Fields
  <1>2. PICK b \in Seq(Messages) : b = x.inBuffer
    BY <1>1
  <1>3. /\ Telling(b, u, right) /\ ProofLast(b) /\ b # <<>>
        /\ HasProof(in) \/ HasProof(b) => said
        /\ HasProof(b) => in = <<>> \/ (x.half /\ Len(in) = 1)
    BY <1>2 DEF Hearing
  <1>4. Telling(Tail(b), u, right) /\ ProofLast(Tail(b)) /\ (HasProof(Tail(b)) => HasProof(b))
    BY <1>3, PacketTaken
  <1> QED
    BY <1>2, <1>3, <1>4 DEF Hearing

\* What a step that adds no lookup for a session and leaves its key, or
\* gives it the last one of its account, still has to show.
LEMMA ServesAgain ==
  ASSUME NEW s, NEW u, NEW right, NEW said, Serves(s, u, right, said),
         Hearing(sessions'[s], inbox'[s], u, right, said), Answering(sessions'[s], inbox'[s], right, said),
         \A r \in Lookups' : r.session = s => r \in Lookups \/ r.user = u,
         sessions'[s].sessionKey # 0 => u \in Registered /\ sessions'[s].sessionKey <= lastKey'[u]
  PROVE  Serves(s, u, right, said)'
  BY DEF Serves

\* A key that is left is that of no later login.
LEMMA KeyLeft ==
  ASSUME IInv, Db!DbTypeOK', \A a \in Registered : lastKey[a] <= lastKey'[a],
         NEW s \in DOMAIN sessions, NEW u, NEW right, NEW said, Serves(s, u, right, said),
         sessions'[s].sessionKey = sessions[s].sessionKey, sessions'[s].sessionKey # 0
  PROVE  u \in Registered /\ sessions'[s].sessionKey <= lastKey'[u]
  <1>1. u \in Registered /\ sessions[s].sessionKey <= lastKey[u]
    BY DEF Serves
  <1>2. lastKey[u] \in Nat /\ lastKey'[u] \in Nat /\ sessions[s].sessionKey \in Nat
    BY <1>1, SessionTypes DEF IInv, RestTypes, Db!DbTypeOK
  <1> QED
    BY <1>1, <1>2

\* What the handlers of session s make of it, the rest of the state aside.
ServedWell(s, u, right, said) ==
    /\ Hearing(sessions'[s], inbox'[s], u, right, said) /\ Answering(sessions'[s], inbox'[s], right, said)
    /\ sessions'[s].sessionKey = sessions[s].sessionKey

\* The callback of a lookup.
LEMMA CallbackServes ==
  ASSUME IInv, NEW s \in DOMAIN sessions, NEW u, NEW right, NEW said, Serves(s, u, right, said),
         RunCallback, Head(batch).session = s
  PROVE  ServedWell(s, u, right, said)
  <1> DEFINE old == sessions[s]
             x == LookedUp(old, u)
             reply == GatherReply(old, u)
             y == [x EXCEPT !.outQueue = Append(@, reply)]
  <1>1. Head(batch) \in Lookups
    <2>1. batch \in Seq(Db!Selects) /\ batch # <<>>
      BY DEF IInv, RestTypes, RunCallback
    <2> QED
      BY <2>1, TakenRange DEF Lookups
  <1>2. Head(batch).user = u
    BY <1>1 DEF Serves
  <1>3. sessions' = [sessions EXCEPT ![s] = y] /\ inbox' = inbox
    BY <1>2 DEF RunCallback, QueuePacket, clientVars
  <1>4. old \in SessionObjects /\ old.outQueue \in Seq(Replies)
    BY SessionTypes
  <1>5. reply \in Replies /\ reply.result # "proofSuccess"
    BY DatabaseAssumption DEF GatherReply, Reply, Replies, Results
  <1>6. x = IF u \in Registered /\ old.version
            THEN [old EXCEPT !.status = "LOGIN_ATTEMPT", !.account = u] ELSE old
    BY DEF LookedUp
  <1>7. Hearing(old, inbox[s], u, right, said) /\ Answering(old, inbox[s], right, said)
    BY DEF Serves
  <1> HIDE DEF x, reply, old
  <1>8. /\ x.outQueue = old.outQueue /\ x.inBuffer = old.inBuffer /\ x.half = old.half
        /\ x.sessionKey = old.sessionKey /\ x \in SessionObjects
        /\ x.status = "LOGIN_ATTEMPT" => x.account = u
        /\ old.status = "LOGIN_ATTEMPT" => x.status = "LOGIN_ATTEMPT"
    <2>1. CASE x = old
      BY <1>4, <1>7, <2>1 DEF Hearing
    <2>2. CASE x = [old EXCEPT !.status = "LOGIN_ATTEMPT", !.account = u] /\ u \in Registered
      <3>1. x \in SessionObjects
        BY <1>4, <2>2, Changes
      <3> QED
        BY <1>4, <2>2, <3>1 DEF SessionObjects
    <2> QED
      BY <1>6, <2>1, <2>2
  <1>9. Hearing(x, inbox[s], u, right, said) /\ Answering(x, inbox[s], right, said)
    BY <1>7, <1>8 DEF Hearing, Answering
  <1>10. Tells(Append(old.outQueue, reply), x.sessionKey)
    BY <1>4, <1>5, <1>8, <1>9, ReplyAdded DEF Answering
  <1>11. /\ y.outQueue = Append(old.outQueue, reply) /\ y.inBuffer = x.inBuffer /\ y.half = x.half
         /\ y.sessionKey = x.sessionKey /\ y.status = x.status /\ y.account = x.account
    BY <1>8 DEF SessionObjects
  <1> HIDE DEF y
  <1>12. Hearing(y, inbox[s], u, right, said) /\ Answering(y, inbox[s], right, said)
    BY <1>9, <1>10, <1>11 DEF Hearing, Answering
  <1>13. sessions'[s] = y
    BY <1>3
  <1> QED
    BY <1>3, <1>8, <1>11, <1>12, <1>13 DEF ServedWell, old

\* The session at the loop's index is the one of the lemmas that follow.
LEMMA AtMe ==
  ASSUME IInv, NEW s \in DOMAIN sessions, s0 = s
  PROVE  /\ me = sessions[s] /\ me \in SessionObjects /\ me.inBuffer \in Seq(Messages)
         /\ me.outQueue \in Seq(Replies)
  BY SessionTypes DEF me

\* A reply is sent.
LEMMA SendServes ==
  ASSUME IInv, NEW s \in DOMAIN sessions, s0 = s, NEW u, NEW right, NEW said, Serves(s, u, right, said), SendPacket
  PROVE  ServedWell(s, u, right, said)
  <1> DEFINE y == [me EXCEPT !.outQueue = Tail(@)]
  <1>1. sessions'[s] = y /\ inbox' = inbox /\ me.outQueue # <<>>
    BY AtMe DEF SendPacket, clientVars
  <1>2. Hearing(me, inbox[s], u, right, said) /\ Answering(me, inbox[s], right, said)
    BY AtMe DEF Serves
  <1>3. Tells(Tail(me.outQueue), me.sessionKey)
    BY <1>1, <1>2, AtMe, ReplyTaken DEF Answering
  <1>4. /\ y.outQueue = Tail(me.outQueue) /\ y.inBuffer = me.inBuffer /\ y.half = me.half
        /\ y.sessionKey = me.sessionKey /\ y.status = me.status /\ y.account = me.account
    BY AtMe DEF SessionObjects
  <1> HIDE DEF y
  <1>5. Hearing(y, inbox[s], u, right, said) /\ Answering(y, inbox[s], right, said)
    BY <1>2, <1>3, <1>4 DEF Hearing, Answering
  <1> QED
    BY <1>1, <1>4, <1>5, AtMe DEF ServedWell

\* Packets are read.
LEMMA ReceiveServes ==
  ASSUME IInv, NEW s \in DOMAIN sessions, s0 = s, NEW u, NEW right, NEW said, Serves(s, u, right, said),
         NEW n \in 1..MaxMessages, NEW split \in BOOLEAN, Receive(n, split)
  PROVE  ServedWell(s, u, right, said)
  <1> DEFINE in == inbox[s]
             more == me.inBuffer \o SubSeq(in, IF me.half THEN 2 ELSE 1, n)
             rest == SubSeq(in, IF split THEN n ELSE n + 1, Len(in))
             y == [me EXCEPT !.inBuffer = more, !.half = split]
  <1>1. s \in DOMAIN inbox /\ in \in Seq(Messages)
    BY SessionTypes
  <1>2. sessions'[s] = y /\ inbox'[s] = rest /\ n <= Len(in) /\ ~(me.half /\ split /\ n = 1) /\ n \in Nat \ {0}
    <2>1. n <= Len(in) /\ ~(me.half /\ split /\ n = 1)
      BY DEF Receive
    <2>2. sessions'[s] = y
      BY AtMe DEF Receive
    <2>3. inbox' = [inbox EXCEPT ![s] = rest]
      BY DEF Receive
    <2>4. inbox'[s] = rest
      <3> HIDE DEF rest
      <3> QED
        BY <1>1, <2>3
    <2>5. n \in Nat \ {0}
      BY LimitsAssumption
    <2> QED
      BY <2>1, <2>2, <2>4, <2>5
  <1>3. Hearing(me, in, u, right, said) /\ Answering(me, in, right, said) /\ me.half \in BOOLEAN
    BY AtMe DEF Serves, SessionObjects
  <1>4. /\ Telling(me.inBuffer, u, right) /\ Telling(in, u, right) /\ ProofLast(me.inBuffer) /\ ProofLast(in)
        /\ HasProof(me.inBuffer) => in = <<>> \/ (me.half /\ Len(in) = 1)
        /\ HasProof(in) \/ HasProof(me.inBuffer) => said
    BY <1>3 DEF Hearing
  <1>5. /\ Telling(more, u, right) /\ Telling(rest, u, right) /\ ProofLast(more) /\ ProofLast(rest)
        /\ HasProof(more) \/ HasProof(rest) => HasProof(me.inBuffer) \/ HasProof(in)
        /\ HasProof(more) => rest = <<>> \/ (split /\ Len(rest) = 1)
    BY <1>1, <1>2, <1>3, <1>4, AtMe, PacketsRead
  <1>6. me.sessionKey = 0
    <2>1. Len(in) \in Nat /\ n <= Len(in)
      BY <1>1, <1>2, LenProperties
    <2>2. in # <<>>
      BY <1>2, <2>1
    <2> QED
      BY <1>3, <2>2 DEF Answering
  <1> HIDE DEF in, more, rest
  <1>7. /\ y.outQueue = me.outQueue /\ y.inBuffer = more /\ y.half = split
        /\ y.sessionKey = me.sessionKey /\ y.status = me.status /\ y.account = me.account
    BY AtMe DEF SessionObjects
  <1> HIDE DEF y
  <1>8. Hearing(y, rest, u, right, said)
    BY <1>3, <1>4, <1>5, <1>7 DEF Hearing
  <1>9. Answering(y, rest, right, said)
    BY <1>3, <1>6, <1>7 DEF Answering
  <1> QED
    BY <1>2, <1>7, <1>8, <1>9, AtMe DEF ServedWell

\* All packets are dropped.
LEMMA UnknownServes ==
  ASSUME IInv, NEW s \in DOMAIN sessions, s0 = s, NEW u, NEW right, NEW said, Serves(s, u, right, said), UnknownCommand
  PROVE  ServedWell(s, u, right, said)
  <1> DEFINE y == [me EXCEPT !.inBuffer = <<>>, !.half = FALSE, !.deaf = TRUE]
  <1>1. sessions'[s] = y /\ inbox' = inbox /\ me.inBuffer # <<>>
    BY AtMe DEF UnknownCommand, clientVars
  <1>2. Hearing(me, inbox[s], u, right, said) /\ Answering(me, inbox[s], right, said)
    BY AtMe DEF Serves
  <1>3. /\ y.outQueue = me.outQueue /\ y.inBuffer = <<>>
        /\ y.sessionKey = me.sessionKey /\ y.status = me.status /\ y.account = me.account
    BY AtMe DEF SessionObjects
  <1> HIDE DEF y
  <1>4. Telling(<<>>, u, right) /\ ProofLast(<<>>) /\ ~HasProof(<<>>)
    BY DEF Telling, ProofLast, HasProof
  <1>5. Hearing(y, inbox[s], u, right, said)
    BY <1>2, <1>3, <1>4 DEF Hearing
  <1>6. Answering(y, inbox[s], right, said)
    BY <1>1, <1>2, <1>3 DEF Answering
  <1> QED
    BY <1>1, <1>3, <1>5, <1>6, AtMe DEF ServedWell

\* A lookup is asked for.
LEMMA GatherServes ==
  ASSUME IInv, NEW s \in DOMAIN sessions, s0 = s, NEW u, NEW right, NEW said, Serves(s, u, right, said),
         HandleAuthLoginGatherInfoPacket
  PROVE  ServedWell(s, u, right, said) /\ packet.user = u
  <1> DEFINE y == [me EXCEPT !.user = packet.user, !.version = packet.version, !.inBuffer = Tail(@)]
  <1>1. sessions'[s] = y /\ inbox' = inbox /\ me.inBuffer # <<>> /\ packet.cmd = "gather"
    BY AtMe DEF HandleAuthLoginGatherInfoPacket, Reading, clientVars
  <1>2. Hearing(me, inbox[s], u, right, said) /\ Answering(me, inbox[s], right, said)
    BY AtMe DEF Serves
  <1>3. /\ y.outQueue = me.outQueue /\ y.inBuffer = Tail(me.inBuffer) /\ y.half = me.half
        /\ y.sessionKey = me.sessionKey /\ y.status = me.status /\ y.account = me.account
    BY AtMe DEF SessionObjects
  <1> HIDE DEF y
  <1>4. Hearing(y, inbox[s], u, right, said)
    BY <1>1, <1>2, <1>3, AtMe, HeardOne
  <1>5. Answering(y, inbox[s], right, said)
    BY <1>1, <1>2, <1>3 DEF Answering
  <1>6. packet.user = u
    <2>1. 1 \in DOMAIN me.inBuffer /\ packet = me.inBuffer[1]
      BY <1>1, AtMe, Taken, LenProperties DEF packet
    <2> QED
      BY <1>1, <1>2, <2>1 DEF Hearing, Telling
  <1> QED
    BY <1>1, <1>3, <1>4, <1>5, <1>6, AtMe DEF ServedWell

\* A wrong proof is answered.
LEMMA WrongServes ==
  ASSUME IInv, NEW s \in DOMAIN sessions, s0 = s, NEW u, NEW right, NEW said, Serves(s, u, right, said), WrongPassword
  PROVE  ServedWell(s, u, right, said)
  <1> DEFINE reply == Reply("proofFailed")
             y == [[me EXCEPT !.inBuffer = Tail(@)] EXCEPT !.outQueue = Append(@, reply)]
  <1>1. sessions'[s] = y /\ inbox' = inbox /\ me.inBuffer # <<>>
    BY AtMe DEF WrongPassword, Reading, QueuePacket, clientVars
  <1>2. Hearing(me, inbox[s], u, right, said) /\ Answering(me, inbox[s], right, said)
    BY AtMe DEF Serves
  <1>3. reply \in Replies /\ reply.result # "proofSuccess"
    BY DatabaseAssumption DEF Reply, Replies, Results
  <1> HIDE DEF reply
  <1>4. Tells(Append(me.outQueue, reply), me.sessionKey)
    BY <1>2, <1>3, AtMe, ReplyAdded DEF Answering
  <1>5. /\ y.outQueue = Append(me.outQueue, reply) /\ y.inBuffer = Tail(me.inBuffer) /\ y.half = me.half
        /\ y.sessionKey = me.sessionKey /\ y.status = me.status /\ y.account = me.account
    BY AtMe DEF SessionObjects
  <1> HIDE DEF y
  <1>6. Hearing(y, inbox[s], u, right, said)
    BY <1>1, <1>2, <1>5, AtMe, HeardOne
  <1>7. Answering(y, inbox[s], right, said)
    BY <1>1, <1>2, <1>4, <1>5 DEF Answering
  <1> QED
    BY <1>1, <1>5, <1>6, <1>7, AtMe DEF ServedWell

\* A right proof, the only one, gets the key of the account it is for.
LEMMA KeyServes ==
  ASSUME IInv, Granting, NEW s \in DOMAIN sessions, s0 = s, NEW u, NEW right, NEW said, Serves(s, u, right, said),
         right \in BOOLEAN, NewSession
  PROVE  /\ Hearing(sessions'[s], inbox'[s], u, right, said) /\ Answering(sessions'[s], inbox'[s], right, said)
         /\ sessions[s].sessionKey = 0 /\ sessions'[s].sessionKey = issued
         /\ u \in Registered /\ lastKey'[u] = issued
  <1> DEFINE reply == [result |-> "proofSuccess", key |-> issued]
             y == [[me EXCEPT !.inBuffer = Tail(@), !.sessionKey = issued] EXCEPT !.outQueue = Append(@, reply)]
  <1>1. sessions'[s] = y /\ inbox' = inbox /\ pc = "insert"
    BY AtMe DEF NewSession, QueuePacket, clientVars
  <1>2. Hearing(me, inbox[s], u, right, said) /\ Answering(me, inbox[s], right, said)
    BY AtMe DEF Serves
  <1>3. /\ packet.cmd = "proof" /\ packet.right /\ ~IsHalf /\ me.status = "LOGIN_ATTEMPT" /\ me.inBuffer # <<>>
        /\ inserting.account = me.account /\ inserting.key = issued /\ issued # 0
    BY <1>1 DEF Granting, IInv, Handling
  <1>4. me.account = u /\ u \in Registered
    BY <1>2, <1>3, AtMe DEF Hearing, IInv, LoggedIn
  <1>5. HasProof(me.inBuffer) /\ Tail(me.inBuffer) = <<>> /\ Len(me.inBuffer) = 1
    BY <1>2, <1>3, AtMe, PacketTaken DEF Hearing, packet
  <1>6. inbox[s] = <<>> /\ said
    BY <1>2, <1>3, <1>5 DEF Hearing, IsHalf
  <1>7. right
    <2>1. 1 \in DOMAIN me.inBuffer /\ packet = me.inBuffer[1]
      BY <1>3, AtMe, Taken, LenProperties DEF packet
    <2>2. packet.right = right
      BY <1>2, <1>3, <2>1 DEF Hearing, Telling
    <2> QED
      BY <1>3, <2>2
  <1>8. me.sessionKey = 0
    BY <1>2, <1>3 DEF Answering
  <1>9. Tells(me.outQueue, issued)
    BY <1>2, <1>8 DEF Answering, Tells
  <1>10. reply \in Replies /\ reply.key = issued
    <2>1. issued \in 0..MaxKeys
      BY DatabaseAssumption DEF IInv, RestTypes, Db!DbTypeOK
    <2> QED
      BY <2>1 DEF Replies, Results
  <1> HIDE DEF reply
  <1>11. Tells(Append(me.outQueue, reply), issued)
    BY <1>3, <1>9, <1>10, AtMe, ReplyAdded
  <1>12. /\ y.outQueue = Append(me.outQueue, reply) /\ y.inBuffer = <<>> /\ y.half = me.half
         /\ y.sessionKey = issued /\ y.status = me.status /\ y.account = me.account
    BY <1>5, AtMe DEF SessionObjects
  <1> HIDE DEF y
  <1>13. Telling(<<>>, u, right) /\ ProofLast(<<>>) /\ ~HasProof(<<>>)
    BY DEF Telling, ProofLast, HasProof
  <1>14. Hearing(y, inbox[s], u, right, said)
    BY <1>2, <1>12, <1>13 DEF Hearing
  <1>15. Answering(y, inbox[s], right, said)
    BY <1>3, <1>6, <1>7, <1>11, <1>12 DEF Answering
  <1>16. lastKey'[u] = issued
    BY <1>3, <1>4 DEF NewSession, Db!EnqueueInsert, IInv, RestTypes, Db!DbTypeOK
  <1> QED
    BY <1>1, <1>4, <1>8, <1>12, <1>14, <1>15, <1>16, AtMe

\* Whatever the server does, it goes on to serve a client that it serves:
\* its one proof is read once, and a key once given stays.
LEMMA ServesStep ==
  ASSUME IInv, Granting, KeysGiven, OwnStep, NEW s \in DOMAIN sessions,
         NEW u, NEW right \in BOOLEAN, NEW said, Serves(s, u, right, said)
  PROVE  /\ Serves(s, u, right, said)'
         /\ sessions[s].sessionKey # 0 => sessions'[s].sessionKey = sessions[s].sessionKey
  <1>1. \A a \in Registered : lastKey[a] <= lastKey'[a]
    BY KeysGrow
  <1>2. Db!DbTypeOK'
    BY OwnUsesDatabase, DbKept DEF IInv, RestTypes
  <1>3. \A r \in Lookups' : r.session = s => r \in Lookups \/ r.user = u
    <2> SUFFICES ASSUME NEW r \in Lookups', r.session = s, r \notin Lookups
                 PROVE  r.user = u
      OBVIOUS
    <2>1. HandleAuthLoginGatherInfoPacket /\ s0 = s /\ r.user = packet.user
      BY NewLookups
    <2> QED
      BY <2>1, GatherServes
  <1>4. CASE ServedWell(s, u, right, said)
    <2>1. sessions'[s].sessionKey # 0 => u \in Registered /\ sessions'[s].sessionKey <= lastKey'[u]
      BY <1>1, <1>2, <1>4, KeyLeft DEF ServedWell
    <2> QED
      BY <1>3, <1>4, <2>1, ServesAgain DEF ServedWell
  <1>5. CASE Untouched(s)
    <2>1. Hearing(sessions[s], inbox[s], u, right, said) /\ Answering(sessions[s], inbox[s], right, said)
      BY DEF Serves
    <2>2. ServedWell(s, u, right, said)
      BY <1>5, <2>1, Alike DEF Untouched, ServedWell
    <2> QED
      BY <1>4, <2>2
  <1>6. CASE NewSession /\ s0 = s
    <2>1. /\ Hearing(sessions'[s], inbox'[s], u, right, said) /\ Answering(sessions'[s], inbox'[s], right, said)
          /\ sessions[s].sessionKey = 0 /\ sessions'[s].sessionKey = issued
          /\ u \in Registered /\ lastKey'[u] = issued
      BY <1>6, KeyServes
    <2>2. issued \in Nat
      BY DEF IInv, RestTypes, Db!DbTypeOK
    <2>3. sessions'[s].sessionKey <= lastKey'[u]
      BY <2>1, <2>2
    <2> QED
      BY <1>3, <2>1, <2>3, ServesAgain
  <1>7. CASE TouchedBy(s) /\ ~(NewSession /\ s0 = s)
    <2>1. ServedWell(s, u, right, said)
      BY <1>7, CallbackServes, SendServes, ReceiveServes, UnknownServes, GatherServes, WrongServes DEF TouchedBy
    <2> QED
      BY <1>4, <2>1
  <1> QED
    BY <1>5, <1>6, <1>7, Touches

\* Before anything has happened.
LEMMA InitGranting == Init => Granting /\ KeysGiven
  BY DatabaseAssumption DEF Init, Granting, KeysGiven, Db!DbInit

\* A packet comes from the client: of those there are so far none is the proof.
LEMMA ServesMessage ==
  ASSUME IInv, NEW s \in DOMAIN sessions, NEW u, NEW right \in BOOLEAN, NEW said \in BOOLEAN,
         NEW before, ~before, Serves(s, u, right, before), NEW m \in ClientMessages, ClientSends(s, m),
         m.cmd = "gather" => m.user = u, m.cmd = "proof" => m.right = right /\ said
  PROVE  Serves(s, u, right, said)'
  <1>1. inbox[s] \in Seq(Messages) /\ s \in DOMAIN inbox /\ m \in Messages
    BY SessionTypes DEF Messages
  <1>2. /\ UNCHANGED <<sessions, dbQueue, responses, batch, lastKey>>
        /\ inbox'[s] = Append(inbox[s], m)
    BY <1>1 DEF ClientSends, dbVars
  <1>3. Hearing(sessions[s], inbox[s], u, right, before) /\ Answering(sessions[s], inbox[s], right, before)
    BY DEF Serves
  <1>4. ~HasProof(inbox[s]) /\ ~HasProof(sessions[s].inBuffer) /\ Telling(inbox[s], u, right)
    BY <1>3 DEF Hearing
  <1>5. /\ Telling(inbox'[s], u, right) /\ ProofLast(inbox'[s])
        /\ HasProof(inbox'[s]) => said
    BY <1>1, <1>2, <1>4, PacketAdded
  <1>6. Hearing(sessions[s], inbox'[s], u, right, said)
    BY <1>3, <1>4, <1>5 DEF Hearing
  <1>7. Answering(sessions[s], inbox'[s], right, said)
    BY <1>3 DEF Answering
  <1>8. Lookups' = Lookups
    BY <1>2 DEF Lookups
  <1> QED
    BY <1>2, <1>6, <1>7, <1>8 DEF Serves

\* A new session: nothing is on its way to it and it has said nothing.
LEMMA ServesNew ==
  ASSUME IInv, NEW fd, AcceptClient(fd), NEW u, NEW right, NEW said,
         NEW n, n = Len(sessions')
  PROVE  n \in DOMAIN sessions' /\ Serves(n, u, right, said)'
  <1> DEFINE earlier == [i \in DOMAIN sessions |->
                           IF Reallocates THEN [sessions[i] EXCEPT !.pfd = 0] ELSE sessions[i]]
             x == [fd |-> fd, ssl |-> "open", pfd |-> Len(pollFds) + 1, status |-> "GATHER_INFO",
                   user |-> "", version |-> FALSE, account |-> "", sessionKey |-> 0, inBuffer |-> <<>>,
                   half |-> FALSE, deaf |-> FALSE, outQueue |-> <<>>]
  <1>1. /\ sessions' = Append(earlier, x) /\ inbox' = Append(inbox, <<>>)
        /\ UNCHANGED <<dbQueue, responses, batch>>
    BY DEF AcceptClient, dbVars
  <1>2. /\ x.status = "GATHER_INFO" /\ x.sessionKey = 0 /\ x.inBuffer = <<>> /\ x.outQueue = <<>>
    OBVIOUS
  <1>3. /\ DOMAIN sessions = 1..Len(sessions) /\ Len(sessions) \in Nat
        /\ inbox \in Seq(Seq(Messages)) /\ Len(inbox) = Len(sessions)
    BY Indexes DEF IInv, Structures, RestTypes, Aligned
  <1>4. PICK S : S = {earlier[i] : i \in DOMAIN sessions} \cup {x}
    OBVIOUS
  <1>5. earlier \in [DOMAIN sessions -> S] /\ x \in S
    BY <1>4
  <1> HIDE DEF earlier, x
  <1>6. earlier \in Seq(S) /\ Len(earlier) = Len(sessions)
    <2>1. sessions \in Seq(SessionObjects)
      BY DEF IInv, Structures
    <2> QED
      BY <1>5, <2>1, Mapped
  <1>7. /\ sessions' \in Seq(S) /\ Len(sessions') = Len(sessions) + 1
        /\ sessions'[Len(sessions) + 1] = x
    BY <1>1, <1>5, <1>6, Appended
  <1>8. Len(sessions') \in DOMAIN sessions' /\ sessions'[Len(sessions')] = x
    BY <1>3, <1>7, LenProperties
  <1>9. inbox'[Len(sessions')] = <<>>
    <2>1. <<>> \in Seq(Messages)
      BY EmptySeq
    <2> QED
      BY <1>1, <1>3, <1>7, <2>1, Appended
  <1>10. Lookups' = Lookups
    BY <1>1 DEF Lookups
  <1>11. \A r \in Lookups : r.session # Len(sessions')
    BY <1>3, <1>7 DEF IInv, Asked
  <1>12. Hearing(x, <<>>, u, right, said)
    BY <1>2 DEF Hearing, Telling, ProofLast, HasProof
  <1>13. Answering(x, <<>>, right, said)
    BY <1>2 DEF Answering, Tells
  <1> QED
    BY <1>2, <1>8, <1>9, <1>10, <1>11, <1>12, <1>13 DEF Serves

\* Sessions are never removed.
LEMMA SessionsStay ==
  ASSUME IInv, OwnStep
  PROVE  DOMAIN sessions \subseteq DOMAIN sessions'
  <1>1. ASSUME NEW s, NEW x, sessions' = [sessions EXCEPT ![s] = x]
        PROVE  DOMAIN sessions \subseteq DOMAIN sessions'
    BY <1>1
  <1>2. CASE sessions' = sessions
    BY <1>2
  <1>3. CASE SendPacket \/ UnknownCommand \/ HandleAuthLoginGatherInfoPacket \/ WrongPassword \/ NewSession
             \/ RunCallback \/ \E n \in 1..MaxMessages, split \in BOOLEAN : Receive(n, split)
    <2>1. CASE RunCallback
      BY <1>1, <2>1 DEF RunCallback, QueuePacket
    <2>2. CASE SendPacket \/ UnknownCommand \/ HandleAuthLoginGatherInfoPacket
      BY <1>1, <2>2 DEF SendPacket, UnknownCommand, HandleAuthLoginGatherInfoPacket
    <2>3. CASE WrongPassword \/ NewSession
      BY <1>1, <2>3 DEF WrongPassword, NewSession, QueuePacket
    <2>4. ASSUME NEW n \in 1..MaxMessages, NEW split \in BOOLEAN, Receive(n, split)
          PROVE  DOMAIN sessions \subseteq DOMAIN sessions'
      BY <1>1, <2>4 DEF Receive
    <2> QED
      BY <1>3, <2>1, <2>2, <2>3, <2>4
  <1>4. CASE SendFails \/ ReceiveFails \/ StatusMismatch \/ TooBig
    <2>1. \E s, x : sessions' = [sessions EXCEPT ![s] = x]
      BY <1>4 DEF SendFails, ReceiveFails, StatusMismatch, TooBig, Close
    <2> QED
      BY <1>1, <2>1
  <1>5. ASSUME NEW fd \in Fds, AcceptClient(fd)
        PROVE  DOMAIN sessions \subseteq DOMAIN sessions'
    <2>1. Len(pollFds) = Len(sessions) + 1 /\ Len(sessions) \in Nat /\ DOMAIN sessions = 1..Len(sessions)
      BY Indexes DEF IInv, Aligned, Structures
    <2>2. IInv'
      <3>1. Db!DbTypeOK' /\ issued' <= MaxKeys
        BY <1>5, DbKept DEF AcceptClient, IInv, RestTypes
      <3> QED
        BY <1>5, <3>1, AcceptKeeps
    <2>3. Len(list') = Len(sessions') /\ Len(list) = Len(sessions) /\ DOMAIN sessions' = 1..Len(sessions')
      BY <2>2, Indexes DEF IInv, Aligned, Structures
    <2>4. Len(list') = Len(list) + 1
      <3>1. list \in Seq(SessionIds) /\ list' = Append(list, Len(sessions) + 1) /\ Len(sessions) < MaxSessions
        BY <1>5 DEF AcceptClient, IInv, RestTypes
      <3>2. Len(sessions) + 1 \in SessionIds
        BY <2>1, <3>1, LimitsAssumption DEF SessionIds
      <3> QED
        BY <3>1, <3>2, Appended
    <2> QED
      BY <2>1, <2>3, <2>4
  <1>6. CASE Serve
    <2>1. CASE GetResponses \/ CallbacksDone \/ EndOfPoll \/ SkipInvalid \/ SendNothing \/ ReceiveNothing
               \/ ReadDone \/ RightPassword
      BY <1>2, <2>1 DEF GetResponses, CallbacksDone, EndOfPoll, SkipInvalid, SendNothing, ReceiveNothing,
                        ReadDone, RightPassword
    <2> QED
      BY <1>3, <1>4, <1>6, <2>1 DEF Serve
  <1>7. CASE PollLoop /\ ~Serve
    <2>1. CASE NoNewClient \/ \E incoming \in BOOLEAN : Poll(incoming)
      BY <1>2, <2>1 DEF NoNewClient, Poll
    <2> QED
      BY <1>3, <1>5, <1>7, <2>1 DEF PollLoop
  <1>8. CASE Failure \/ WorkerFinishes \/ Shutdown \/ Left
    BY <1>2, <1>8 DEF Failure, PollFails, SslCrash, PasswordQueryFails, WorkerFinishes, Shutdown, Left
  <1> QED
    BY <1>6, <1>7, <1>8 DEF OwnStep

\* The table ends with the accounts' last keys, here too.
LEMMA LoginsKept ==
  ASSUME Outcomes = {"done"}, IInv, DbProofs!LoginsAhead, OwnStep \/ Environment
  PROVE  DbProofs!LoginsAhead'
  <1>1. DbProofs!DbTypeOK
    BY SameTypes DEF IInv, RestTypes
  <1>2. [DbProofs!DbNext]_(DbProofs!dbVars)
    BY OwnUsesDatabase, SameSteps
  <1> QED
    BY <1>1, <1>2, DbProofs!LoginsStep, DatabaseAssumption
LEMMA InitLogins == Init => DbProofs!LoginsAhead
  <1>1. Db!DbInit => DbProofs!DbInit
    BY DEF Db!DbInit, DbProofs!DbInit, Db!Nothing, DbProofs!Nothing
  <1> QED
    BY <1>1, DbProofs!LoginsInitial, DatabaseAssumption DEF Init

\* So that the key of a session is in the table or gets there, unless a later
\* login to the account has been, or is being, recorded.
LEMMA OnItsWay ==
  ASSUME IInv, DbProofs!LoginsAhead, NEW s \in DOMAIN sessions, NEW u, NEW right, NEW said,
         Serves(s, u, right, said), NEW k, k = sessions[s].sessionKey, k # 0
  PROVE  \/ [account |-> u, key |-> k] \in Db!Projected
         \/ lastKey[u] > k
         \/ inserting # <<>> /\ inserting.account = u
  <1>1. u \in Registered /\ k \in Nat /\ k <= lastKey[u] /\ lastKey[u] \in Nat
    BY SessionTypes DEF Serves, IInv, RestTypes, Db!DbTypeOK
  <1> SUFFICES ASSUME k = lastKey[u], inserting # <<>> => inserting.account # u
               PROVE  [account |-> u, key |-> k] \in Db!Projected
    BY <1>1
  <1>2. DbProofs!Ends(u, k)
    BY <1>1 DEF DbProofs!LoginsAhead, DbProofs!Nothing
  <1>3. DbProofs!DbTypeOK
    BY SameTypes DEF IInv, RestTypes
  <1>4. DbProofs!Row(u, k) \in DbProofs!Projected
    BY <1>1, <1>2, <1>3, DbProofs!ProjectedRows, DatabaseAssumption
  <1>5. DbProofs!Projected = Db!Projected
    BY DEF DbProofs!Projected, Db!Projected, DbProofs!LastingInserts, Db!LastingInserts,
           DbProofs!Survives, Db!Survives, DbProofs!Delete, Db!Delete
  <1> QED
    BY <1>4, <1>5 DEF DbProofs!Row
===============================================================================
