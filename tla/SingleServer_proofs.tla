-------------------------- MODULE SingleServer_proofs --------------------------
(***************************************************************************)
(* Proofs about the earlier server, for any users, handles and clients and *)
(* any number of connections: its parallel lists stay aligned, its map of  *)
(* user names holds no dangling pointer, and active_sessions settles on    *)
(* the last logins, whatever accepts, packets and removals came.           *)
(***************************************************************************)
EXTENDS SingleServer, SequenceTheorems, TLAPS

-----------------------------------------------------------------------------
(* Sequences *)

\* The indexes of a sequence, and its elements.
LEMMA Indexes ==
  ASSUME NEW S, NEW s \in Seq(S)
  PROVE  DOMAIN s = 1..Len(s) /\ Len(s) \in Nat /\ \A i \in DOMAIN s : s[i] \in S
  BY LenProperties, ElementOfSeq

\* An element is replaced.
LEMMA Replaced ==
  ASSUME NEW S, NEW s \in Seq(S), NEW i \in DOMAIN s, NEW x \in S
  PROVE  /\ [s EXCEPT ![i] = x] \in Seq(S) /\ Len([s EXCEPT ![i] = x]) = Len(s)
         /\ DOMAIN [s EXCEPT ![i] = x] = DOMAIN s
  OBVIOUS

\* A sequence built from another, index by index.
LEMMA Mapped ==
  ASSUME NEW S, NEW s \in Seq(S), NEW T, NEW t \in [DOMAIN s -> T]
  PROVE  t \in Seq(T) /\ Len(t) = Len(s) /\ DOMAIN t = DOMAIN s
  <1>1. DOMAIN s = 1..Len(s) /\ Len(s) \in Nat
    BY Indexes
  <1>2. t \in [1..Len(s) -> T]
    BY <1>1
  <1>3. t \in Seq(T)
    BY <1>1, <1>2, SeqDef
  <1> QED
    BY <1>1, <1>2, <1>3, LenProperties

\* Erasing an element moves those behind it one place down.
LEMMA Erased ==
  ASSUME NEW S, NEW s \in Seq(S), NEW i \in DOMAIN s
  PROVE  /\ RemoveAt(s, i) \in Seq(S) /\ Len(RemoveAt(s, i)) = Len(s) - 1
         /\ \A k \in 1..(Len(s) - 1) : RemoveAt(s, i)[k] = s[IF k < i THEN k ELSE k + 1]
  <1> DEFINE front == SubSeq(s, 1, i - 1)
             back == SubSeq(s, i + 1, Len(s))
  <1>1. Len(s) \in Nat /\ \A k \in 1..Len(s) : s[k] \in S
    BY LenProperties, ElementOfSeq
  <1>2. front \in Seq(S) /\ Len(front) = i - 1 /\ \A k \in 1..(i - 1) : front[k] = s[k]
    <2>1. \A k \in 1..(i - 1) : s[k] \in S
      BY <1>1
    <2>2. /\ SubSeq(s, 1, i - 1) \in Seq(S)
          /\ Len(SubSeq(s, 1, i - 1)) = IF 1 <= i - 1 THEN (i - 1) - 1 + 1 ELSE 0
          /\ \A k \in 1..((i - 1) - 1 + 1) : SubSeq(s, 1, i - 1)[k] = s[1 + k - 1]
      BY <1>1, <2>1, SubSeqProperties
    <2> QED
      BY <1>1, <2>2
  <1>3. back \in Seq(S) /\ Len(back) = Len(s) - i /\ \A k \in 1..(Len(s) - i) : back[k] = s[i + k]
    <2>1. \A k \in (i + 1)..Len(s) : s[k] \in S
      BY <1>1
    <2>2. /\ SubSeq(s, i + 1, Len(s)) \in Seq(S)
          /\ Len(SubSeq(s, i + 1, Len(s))) = IF i + 1 <= Len(s) THEN Len(s) - (i + 1) + 1 ELSE 0
          /\ \A k \in 1..(Len(s) - (i + 1) + 1) : SubSeq(s, i + 1, Len(s))[k] = s[(i + 1) + k - 1]
      BY <1>1, <2>1, SubSeqProperties
    <2> QED
      BY <1>1, <2>2
  <1> HIDE DEF front, back
  <1>4. /\ front \o back \in Seq(S) /\ Len(front \o back) = Len(front) + Len(back)
        /\ \A k \in 1..(Len(front) + Len(back)) :
              (front \o back)[k] = IF k <= Len(front) THEN front[k] ELSE back[k - Len(front)]
    BY <1>2, <1>3, ConcatProperties
  <1>5. RemoveAt(s, i) = front \o back
    BY DEF RemoveAt, front, back
  <1>6. ASSUME NEW k \in 1..(Len(s) - 1)
        PROVE  (front \o back)[k] = s[IF k < i THEN k ELSE k + 1]
    <2>1. CASE k < i
      BY <1>1, <1>2, <1>3, <1>4, <2>1
    <2>2. CASE ~(k < i)
      <3>1. k - (i - 1) \in 1..(Len(s) - i) /\ k \in 1..(Len(front) + Len(back)) /\ ~(k <= Len(front))
        BY <1>1, <1>2, <1>3, <2>2
      <3>2. (front \o back)[k] = back[k - (i - 1)]
        BY <1>2, <1>4, <3>1
      <3>3. back[k - (i - 1)] = s[i + (k - (i - 1))]
        BY <1>3, <3>1
      <3> QED
        BY <1>1, <2>2, <3>2, <3>3
    <2> QED
      BY <2>1, <2>2
  <1>7. Len(front \o back) = Len(s) - 1
    BY <1>1, <1>2, <1>3, <1>4
  <1>8. \A k \in 1..(Len(s) - 1) : (front \o back)[k] = s[IF k < i THEN k ELSE k + 1]
    BY <1>6
  <1> QED
    BY <1>4, <1>5, <1>7, <1>8

-----------------------------------------------------------------------------
(* The inductive invariant *)

\* The types of all but the sessions and the structures that refer to them.
OtherTypes ==
    /\ pc \in {"poll", "accept", "clients", "receive", "reading", "insert", "shutdown", "down", "crashed"}
    /\ turn \in Nat \ {0} /\ toRemove \subseteq DOMAIN list /\ capacity \in Nat
    /\ socketOf \in [Fds -> {0} \cup DOMAIN sessions]
    /\ inbox \in [DOMAIN sessions -> Seq(Messages)] /\ sent \in [DOMAIN sessions -> Seq(Messages)]
    /\ gone \subseteq DOMAIN sessions
    /\ queue \in Seq(Request) /\ rows \in [Registered -> Seq(Nat)]
    /\ issued \in Nat /\ lastKey \in [Registered -> Nat] /\ dropped \subseteq Nat
Structures ==
    /\ sessions \in Seq(Session) /\ list \in Seq(DOMAIN sessions) /\ fds \in Seq(Entry)
    /\ usernameMap \in [Users -> {0} \cup DOMAIN sessions]
\* A session that is read has its place in the list, and between the two
\* requests of a login its proof is still to be answered.
AtWork ==
    /\ pc \in {"receive", "reading", "insert"} => turn \in DOMAIN list
    /\ pc = "insert" => me.status = "LOGIN_ATTEMPT" /\ me.in # <<>>
\* A session past its gather packet has an account; only such a one is in the
\* map, so that its name does not change any more.
Accounts ==
    /\ \A s \in DOMAIN sessions : sessions[s].status = "LOGIN_ATTEMPT" => sessions[s].username \in Registered
    /\ \A u \in Users : usernameMap[u] # 0 => sessions[usernameMap[u]].status = "LOGIN_ATTEMPT"
IInv == OtherTypes /\ Structures /\ AtWork /\ Accounts /\ IndexesAligned /\ NoDanglingName

\* What a step may do to the sessions and to poll_fds without disturbing the
\* lists and the map: handles, names and status stay.
SessionsKept ==
    /\ sessions' \in Seq(Session) /\ Len(sessions') = Len(sessions)
    /\ \A s \in DOMAIN sessions : /\ sessions'[s].fd = sessions[s].fd
                                  /\ sessions'[s].username = sessions[s].username
                                  /\ sessions'[s].status = sessions[s].status
EntriesKept ==
    /\ fds' \in Seq(Entry) /\ Len(fds') = Len(fds)
    /\ \A i \in DOMAIN fds : fds'[i].fd = fds[i].fd

\* A step of that kind keeps the invariant.
LEMMA Quiet ==
  ASSUME IInv, SessionsKept, EntriesKept, list' = list, usernameMap' = usernameMap, OtherTypes', AtWork'
  PROVE  IInv'
  <1>1. DOMAIN sessions = 1..Len(sessions) /\ DOMAIN sessions' = 1..Len(sessions)
    BY Indexes DEF IInv, Structures, SessionsKept
  <1>2. DOMAIN fds = 1..Len(fds) /\ DOMAIN list = 1..Len(list) /\ \A i \in DOMAIN list : list[i] \in DOMAIN sessions
    BY Indexes DEF IInv, Structures
  <1>3. Structures'
    BY <1>1 DEF IInv, Structures, SessionsKept, EntriesKept
  <1>4. IndexesAligned'
    BY <1>1, <1>2 DEF IInv, IndexesAligned, SessionsKept, EntriesKept
  <1>5. ASSUME NEW u \in Users, usernameMap[u] # 0
        PROVE  usernameMap[u] \in DOMAIN sessions
    BY <1>5 DEF IInv, Structures
  <1>6. Accounts'
    BY <1>1, <1>5 DEF IInv, Accounts, SessionsKept
  <1>7. NoDanglingName'
    BY <1>1, <1>5 DEF IInv, NoDanglingName, SessionsKept
  <1> QED
    BY <1>3, <1>4, <1>6, <1>7 DEF IInv

\* Nothing happens to the sessions, or to the entries.
LEMMA SessionsUnchanged ==
  ASSUME IInv, sessions' = sessions
  PROVE  SessionsKept
  BY DEF IInv, Structures, SessionsKept
\* Nothing happens to the poll entries.
LEMMA EntriesUnchanged ==
  ASSUME IInv, fds' = fds
  PROVE  EntriesKept
  BY DEF IInv, Structures, EntriesKept

\* The session and the poll entry of the loop's index.
LEMMA Me ==
  ASSUME IInv, turn <= Len(fds) \/ turn \in DOMAIN list
  PROVE  /\ turn \in DOMAIN list /\ turn \in DOMAIN fds /\ id \in DOMAIN sessions
         /\ me \in Session /\ fds[turn] \in Entry
  <1>1. /\ DOMAIN fds = 1..Len(fds) /\ DOMAIN list = 1..Len(list) /\ Len(fds) = Len(list) /\ Len(list) \in Nat
        /\ \A i \in DOMAIN fds : fds[i] \in Entry
        /\ \A i \in DOMAIN list : list[i] \in DOMAIN sessions
        /\ \A s \in DOMAIN sessions : sessions[s] \in Session
    BY Indexes DEF IInv, Structures, IndexesAligned
  <1>2. turn \in DOMAIN list
    BY <1>1 DEF IInv, OtherTypes
  <1> QED
    BY <1>1, <1>2 DEF id, me

\* The session of the loop's index is replaced by one of its name.
LEMMA Edited ==
  ASSUME IInv, turn \in DOMAIN list, NEW x \in Session,
         x.fd = me.fd, x.username = me.username, x.status = me.status,
         sessions' = [sessions EXCEPT ![id] = x]
  PROVE  SessionsKept
  <1>1. id \in DOMAIN sessions /\ sessions \in Seq(Session)
    BY Me DEF IInv, Structures
  <1>2. sessions' \in Seq(Session) /\ Len(sessions') = Len(sessions)
    BY <1>1, Replaced
  <1>3. \A s \in DOMAIN sessions : sessions'[s] = IF s = id THEN x ELSE sessions[s]
    BY <1>1
  <1> QED
    BY <1>2, <1>3 DEF SessionsKept, me

\* The fields of a session, and the changes that actions make to one.
LEMMA Fields ==
  ASSUME NEW x \in Session
  PROVE  /\ x.fd \in Fds /\ x.pfd \in Nat /\ x.status \in {"GATHER_INFO", "LOGIN_ATTEMPT"}
         /\ x.username \in Users \cup {""} /\ x.in \in Seq(Messages) /\ x.out \in Nat
  BY DEF Session
\* The changes that actions make to a session keep its type.
LEMMA Changes ==
  ASSUME NEW x \in Session, NEW n \in Nat, NEW t \in Seq(Messages)
  PROVE  /\ [x EXCEPT !.out = n] \in Session /\ [x EXCEPT !.in = t] \in Session
         /\ [x EXCEPT !.in = t, !.out = n] \in Session
         /\ [x EXCEPT !.pfd = n] \in Session
         /\ [x EXCEPT !.open = FALSE] \in Session
         /\ [x EXCEPT !.in = t, !.deaf = TRUE] \in Session
  <1>1. [x EXCEPT !.out = n] \in Session
    BY DEF Session
  <1>2. [x EXCEPT !.in = t] \in Session
    BY DEF Session
  <1>3. [x EXCEPT !.in = t, !.out = n] \in Session
    BY DEF Session
  <1>4. [x EXCEPT !.pfd = n] \in Session
    BY DEF Session
  <1>5. [x EXCEPT !.open = FALSE] \in Session
    BY DEF Session
  <1>6. [x EXCEPT !.in = t, !.deaf = TRUE] \in Session
    BY DEF Session
  <1> QED
    BY <1>1, <1>2, <1>3, <1>4, <1>5, <1>6

\* SetPollOut writes the events of an entry only.
LEMMA PollOutSet ==
  ASSUME IInv, NEW s, NEW pending \in BOOLEAN, SetPollOut(s, pending)
  PROVE  EntriesKept
  <1> DEFINE E(i) == IF i = sessions[s].pfd THEN [fds[i] EXCEPT !.out = pending] ELSE fds[i]
  <1>1. fds \in Seq(Entry) /\ \A i \in DOMAIN fds : fds[i] \in Entry
    BY Indexes DEF IInv, Structures
  <1>2. \A i \in DOMAIN fds : E(i) \in Entry /\ E(i).fd = fds[i].fd
    BY <1>1 DEF Entry
  <1>3. fds' = [i \in DOMAIN fds |-> E(i)]
    BY DEF SetPollOut
  <1> HIDE DEF E
  <1>4. fds' \in [DOMAIN fds -> Entry]
    BY <1>2, <1>3
  <1> QED
    BY <1>1, <1>2, <1>3, <1>4, Mapped DEF EntriesKept

\* Nothing but the types of the rest can be disturbed.
LEMMA Still ==
  ASSUME IInv, sessions' = sessions, UNCHANGED <<list, fds, usernameMap>>, OtherTypes', AtWork'
  PROVE  IInv'
  BY Quiet, SessionsUnchanged, EntriesUnchanged

-----------------------------------------------------------------------------
(* The steps *)

\* WSAPoll and the listener.
LEMMA PollKeeps == ASSUME IInv, NEW incoming \in BOOLEAN, Poll(incoming) PROVE IInv'
  <1>1. PICK hup \in Hangups :
           fds' = [i \in DOMAIN fds |-> [fds[i] EXCEPT !.revents = Events(fds[i], hup)]]
    BY DEF Poll
  <1>2. \A e : Events(e, hup) \subseteq {"err", "in", "out"}
    BY DEF Events
  <1>3. fds \in Seq(Entry) /\ \A i \in DOMAIN fds : fds[i] \in Entry
    BY Indexes DEF IInv, Structures
  <1> DEFINE E(i) == [fds[i] EXCEPT !.revents = Events(fds[i], hup)]
  <1>4. ASSUME NEW i \in DOMAIN fds
        PROVE  E(i) \in Entry /\ E(i).fd = fds[i].fd
    <2>1. fds[i] \in Entry /\ Events(fds[i], hup) \in SUBSET {"err", "in", "out"}
      BY <1>2, <1>3
    <2> HIDE DEF Events
    <2> DEFINE R == Events(fds[i], hup)
    <2> HIDE DEF R
    <2>2. R \in SUBSET {"err", "in", "out"}
      BY <2>1 DEF R
    <2>3. E(i) = [fds[i] EXCEPT !.revents = R]
      BY DEF R
    <2>4. \A e \in Entry : [e EXCEPT !.revents = R] \in Entry /\ [e EXCEPT !.revents = R].fd = e.fd
      BY <2>2 DEF Entry
    <2> QED
      BY <2>1, <2>3, <2>4
  <1>5. fds' = [i \in DOMAIN fds |-> E(i)]
    BY <1>1
  <1> HIDE DEF E
  <1>6. fds' \in [DOMAIN fds -> Entry]
    BY <1>4, <1>5
  <1>7. EntriesKept
    BY <1>3, <1>4, <1>5, <1>6, Mapped DEF EntriesKept
  <1>8. UNCHANGED <<sessions, list, usernameMap>> /\ OtherTypes' /\ AtWork'
    BY DEF Poll, IInv, OtherTypes, AtWork, clients, database
  <1> QED
    BY <1>7, <1>8, SessionsUnchanged, Quiet
\* A poll that fails ends the loop.
LEMMA PollFailsKeeps == ASSUME IInv, PollFails PROVE IInv'
  <1>1. UNCHANGED <<sessions, list, fds, usernameMap>> /\ OtherTypes' /\ AtWork'
    BY DEF PollFails, IInv, OtherTypes, AtWork, polling, clients, database
  <1> QED
    BY <1>1, Still
\* A connection whose handshake fails leaves its handle unused.
LEMMA HandshakeFailsKeeps == ASSUME IInv, HandshakeFails PROVE IInv'
  <1>1. UNCHANGED <<sessions, list, fds, usernameMap>> /\ OtherTypes' /\ AtWork'
    BY DEF HandshakeFails, IInv, OtherTypes, AtWork, polling, clients, database
  <1> QED
    BY <1>1, Still

\* The loop over the clients: marking, sending, receiving.
LEMMA MarkInvalidKeeps == ASSUME IInv, MarkInvalid PROVE IInv'
  <1>1. turn \in DOMAIN list
    BY Me DEF MarkInvalid, Has
  <1>2. UNCHANGED <<sessions, list, fds, usernameMap>> /\ OtherTypes' /\ AtWork'
    BY <1>1 DEF MarkInvalid, Has, IInv, OtherTypes, AtWork, polling, clients, database
  <1> QED
    BY <1>2, Still
\* Nothing is sent.
LEMMA SendNothingKeeps == ASSUME IInv, SendNothing PROVE IInv'
  <1>1. turn \in DOMAIN list
    BY Me DEF SendNothing
  <1>2. UNCHANGED <<sessions, list, fds, usernameMap>> /\ OtherTypes' /\ AtWork'
    BY <1>1 DEF SendNothing, IInv, OtherTypes, AtWork, polling, clients, database
  <1> QED
    BY <1>2, Still
\* A send without an SSL object is the end of the process.
LEMMA SendCrashesKeeps == ASSUME IInv, SendCrashes PROVE IInv'
  <1>1. UNCHANGED <<sessions, list, fds, usernameMap>> /\ OtherTypes' /\ AtWork'
    BY DEF SendCrashes, IInv, OtherTypes, AtWork, polling, clients, database
  <1> QED
    BY <1>1, Still
\* Nothing is received.
LEMMA ReceiveNothingKeeps == ASSUME IInv, ReceiveNothing PROVE IInv'
  <1>1. UNCHANGED <<sessions, list, fds, usernameMap>> /\ OtherTypes' /\ AtWork'
    BY DEF ReceiveNothing, NextClient, IInv, OtherTypes, AtWork, polling, clients, database
  <1> QED
    BY <1>1, Still
\* When ReadCallback has no packet left the loop goes on.
LEMMA ReadDoneKeeps == ASSUME IInv, ReadDone PROVE IInv'
  <1>1. UNCHANGED <<sessions, list, fds, usernameMap>> /\ OtherTypes' /\ AtWork'
    BY DEF ReadDone, NextClient, IInv, OtherTypes, AtWork, polling, clients, database
  <1> QED
    BY <1>1, Still
\* A packet leaves the queue of its session; the entry loses POLLOUT with the last.
LEMMA SendKeeps == ASSUME IInv, Send PROVE IInv'
  <1>1. turn \in DOMAIN list /\ id \in DOMAIN sessions /\ me \in Session
    BY Me DEF Send, Has
  <1> DEFINE less == me.out - 1
             x == [me EXCEPT !.out = less]
             more == me.out > 1
  <1>2. less \in Nat /\ more \in BOOLEAN
    <2>1. me.out \in Nat /\ me.out > 0
      BY <1>1, Fields DEF Send
    <2>2. less \in Nat
      BY <2>1
    <2>3. more \in BOOLEAN
      <3>1. \A n \in Nat : (n > 1) \in BOOLEAN
        OBVIOUS
      <3> QED
        BY <2>1, <3>1
    <2> QED
      BY <2>2, <2>3
  <1>3. x \in Session /\ x.fd = me.fd /\ x.username = me.username /\ x.status = me.status
    <2> HIDE DEF less
    <2>1. x \in Session
      BY <1>1, <1>2, Changes, EmptySeq
    <2> QED
      BY <1>1, <2>1 DEF Session
  <1>4. sessions' = [sessions EXCEPT ![id] = x]
    BY DEF Send, me
  <1> HIDE DEF x
  <1>5. SessionsKept
    BY <1>1, <1>3, <1>4, Edited
  <1>6. EntriesKept
    <2>1. SetPollOut(id, more)
      BY DEF Send
    <2> HIDE DEF more
    <2> QED
      BY <1>2, <2>1, PollOutSet
  <1>7. DOMAIN sessions' = DOMAIN sessions
    BY <1>4
  <1>8. UNCHANGED <<list, usernameMap>> /\ OtherTypes' /\ AtWork'
    BY <1>1, <1>7 DEF Send, IInv, OtherTypes, AtWork, clients, database
  <1> QED
    BY <1>5, <1>6, <1>8, Quiet

\* Shutdown of a session that cannot send or receive.
LEMMA ShutKeeps ==
  ASSUME IInv, turn \in DOMAIN list, sessions' = [sessions EXCEPT ![id] = Shut]
  PROVE  SessionsKept /\ DOMAIN sessions' = DOMAIN sessions
  <1>1. me \in Session
    BY Me
  <1>2. Shut \in Session /\ Shut.fd = me.fd /\ Shut.username = me.username /\ Shut.status = me.status
    <2>1. [me EXCEPT !.open = FALSE] \in Session
      BY <1>1, Changes, EmptySeq
    <2> QED
      BY <1>1, <2>1 DEF Shut, Session
  <1> QED
    BY <1>2, Edited
\* A failed send closes the session.
LEMMA SendFailsKeeps == ASSUME IInv, SendFails PROVE IInv'
  <1>1. turn \in DOMAIN list
    BY Me DEF SendFails, Has
  <1>2. SessionsKept /\ DOMAIN sessions' = DOMAIN sessions
    BY <1>1, ShutKeeps DEF SendFails
  <1>3. UNCHANGED <<list, fds, usernameMap>> /\ OtherTypes' /\ AtWork'
    BY <1>1, <1>2 DEF SendFails, IInv, OtherTypes, AtWork, polling, clients, database
  <1> QED
    BY <1>2, <1>3, EntriesUnchanged, Quiet
\* A failed read closes the session.
LEMMA ReceiveFailsKeeps == ASSUME IInv, ReceiveFails PROVE IInv'
  <1>1. turn \in DOMAIN list
    BY DEF ReceiveFails, IInv, AtWork
  <1>2. SessionsKept /\ DOMAIN sessions' = DOMAIN sessions
    BY <1>1, ShutKeeps DEF ReceiveFails
  <1>3. UNCHANGED <<list, fds, usernameMap>> /\ OtherTypes' /\ AtWork'
    BY <1>1, <1>2 DEF ReceiveFails, NextClient, IInv, OtherTypes, AtWork, polling, clients, database
  <1> QED
    BY <1>2, <1>3, EntriesUnchanged, Quiet
\* What has arrived moves into the session's buffer.
LEMMA ReceiveKeeps == ASSUME IInv, Receive PROVE IInv'
  <1>1. turn \in DOMAIN list
    BY DEF Receive, IInv, AtWork
  <1>2. id \in DOMAIN sessions /\ me \in Session
    BY <1>1, Me
  <1>3. PICK n \in 1..Len(inbox[id]) :
           /\ sessions' = [sessions EXCEPT ![id].in = @ \o SubSeq(inbox[id], 1, n)]
           /\ inbox' = [inbox EXCEPT ![id] = SubSeq(@, n + 1, Len(@))]
    BY DEF Receive
  <1>4. inbox[id] \in Seq(Messages) /\ Len(inbox[id]) \in Nat
    BY <1>2 DEF IInv, OtherTypes
  <1>5. SubSeq(inbox[id], 1, n) \in Seq(Messages) /\ SubSeq(inbox[id], n + 1, Len(inbox[id])) \in Seq(Messages)
    <2>1. \A k \in 1..Len(inbox[id]) : inbox[id][k] \in Messages
      BY <1>4, ElementOfSeq
    <2>2. SubSeq(inbox[id], 1, n) \in Seq(Messages)
      BY <1>4, <2>1, SubSeqProperties
    <2>3. \A k \in (n + 1)..Len(inbox[id]) : inbox[id][k] \in Messages
      BY <1>4, <2>1
    <2>4. SubSeq(inbox[id], n + 1, Len(inbox[id])) \in Seq(Messages)
      BY <1>4, <2>3, SubSeqProperties
    <2> QED
      BY <2>2, <2>4
  <1> DEFINE t == me.in \o SubSeq(inbox[id], 1, n)
             x == [me EXCEPT !.in = t]
  <1>6. t \in Seq(Messages)
    BY <1>2, <1>5, Fields, ConcatProperties
  <1>7. sessions' = [sessions EXCEPT ![id] = x]
    BY <1>3 DEF me
  <1> HIDE DEF t
  <1>8. x \in Session /\ x.fd = me.fd /\ x.username = me.username /\ x.status = me.status
    <2>1. x \in Session
      BY <1>2, <1>6, Changes
    <2> QED
      BY <1>2, <2>1 DEF Session
  <1> HIDE DEF x
  <1>9. SessionsKept /\ DOMAIN sessions' = DOMAIN sessions
    BY <1>1, <1>7, <1>8, Edited
  <1>10. inbox' \in [DOMAIN sessions -> Seq(Messages)]
    BY <1>2, <1>3, <1>5 DEF IInv, OtherTypes
  <1>11. UNCHANGED <<list, fds, usernameMap>> /\ OtherTypes' /\ AtWork'
    BY <1>1, <1>9, <1>10 DEF Receive, IInv, OtherTypes, AtWork, polling, database
  <1> QED
    BY <1>9, <1>11, EntriesUnchanged, Quiet

\* The packets of a session: what is read, and the replies.
LEMMA UnknownCommandKeeps == ASSUME IInv, UnknownCommand PROVE IInv'
  <1>1. turn \in DOMAIN list
    BY DEF UnknownCommand, Reading, IInv, AtWork
  <1>2. id \in DOMAIN sessions /\ me \in Session
    BY <1>1, Me
  <1> DEFINE x == [me EXCEPT !.in = <<>>, !.deaf = TRUE]
  <1>3. sessions' = [sessions EXCEPT ![id] = x]
    BY DEF UnknownCommand, me
  <1>4. x \in Session /\ x.fd = me.fd /\ x.username = me.username /\ x.status = me.status
    <2>1. x \in Session
      BY <1>2, Changes, EmptySeq
    <2> QED
      BY <1>2, <2>1 DEF Session
  <1> HIDE DEF x
  <1>5. SessionsKept /\ DOMAIN sessions' = DOMAIN sessions
    BY <1>1, <1>3, <1>4, Edited
  <1>6. UNCHANGED <<list, fds, usernameMap>> /\ OtherTypes' /\ AtWork'
    BY <1>1, <1>5 DEF UnknownCommand, NextClient, IInv, OtherTypes, AtWork, polling, clients, database
  <1> QED
    BY <1>5, <1>6, EntriesUnchanged, Quiet
\* A packet that is not allowed closes its session.
LEMMA RefuseKeeps == ASSUME IInv, Refuse PROVE IInv'
  <1>1. turn \in DOMAIN list
    BY DEF Refuse, Reading, IInv, AtWork
  <1>2. id \in DOMAIN sessions /\ me \in Session /\ me.fd \in Fds
    BY <1>1, Me, Fields
  <1> DEFINE x == [Shut EXCEPT !.in = <<>>]
  <1>3. sessions' = [sessions EXCEPT ![id] = x]
    BY DEF Refuse
  <1>4. x \in Session /\ x.fd = me.fd /\ x.username = me.username /\ x.status = me.status
    <2>1. Shut \in Session /\ Shut.fd = me.fd /\ Shut.username = me.username /\ Shut.status = me.status
      <3>1. [me EXCEPT !.open = FALSE] \in Session
        BY <1>2, Changes, EmptySeq
      <3> QED
        BY <1>2, <3>1 DEF Shut, Session
    <2>2. x \in Session
      BY <2>1, Changes, EmptySeq
    <2>3. x.fd = Shut.fd /\ x.username = Shut.username /\ x.status = Shut.status
      BY <2>1, <2>2 DEF Session
    <2> QED
      BY <2>1, <2>2, <2>3
  <1> HIDE DEF x
  <1>5. SessionsKept /\ DOMAIN sessions' = DOMAIN sessions
    BY <1>1, <1>3, <1>4, Edited
  <1>6. socketOf' \in [Fds -> {0} \cup DOMAIN sessions]
    BY <1>2 DEF Refuse, IInv, OtherTypes
  <1>7. UNCHANGED <<list, fds, usernameMap>> /\ OtherTypes' /\ AtWork'
    BY <1>1, <1>5, <1>6 DEF Refuse, NextClient, IInv, OtherTypes, AtWork, polling, clients, database
  <1> QED
    BY <1>5, <1>7, EntriesUnchanged, Quiet

\* A reply: the packet is read, and a packet queued.
LEMMA AnsweredType ==
  ASSUME NEW x \in Session, x.in # <<>>
  PROVE  /\ [x EXCEPT !.in = Tail(@), !.out = @ + 1] \in Session
         /\ [x EXCEPT !.in = Tail(@), !.out = @ + 1].fd = x.fd
         /\ [x EXCEPT !.in = Tail(@), !.out = @ + 1].username = x.username
         /\ [x EXCEPT !.in = Tail(@), !.out = @ + 1].status = x.status
  <1> DEFINE t == Tail(x.in)
             n == x.out + 1
  <1>1. t \in Seq(Messages) /\ n \in Nat
    <2>1. x.in \in Seq(Messages) /\ x.out \in Nat
      BY Fields
    <2> QED
      BY <2>1, HeadTailProperties
  <1>2. [x EXCEPT !.in = Tail(@), !.out = @ + 1] = [x EXCEPT !.in = t, !.out = n]
    OBVIOUS
  <1> HIDE DEF t, n
  <1>3. [x EXCEPT !.in = t, !.out = n] \in Session
    BY <1>1, Changes
  <1>4. \A u, v : LET y == [x EXCEPT !.in = u, !.out = v]
                  IN  y.fd = x.fd /\ y.username = x.username /\ y.status = x.status
    BY DEF Session
  <1> QED
    BY <1>2, <1>3, <1>4

\* A reply to a packet that leaves the name and the status of the session.
LEMMA AnsweredKeeps ==
  ASSUME IInv, turn \in DOMAIN list, me.in # <<>>, Answered(me), pc' = "reading", usernameMap' = usernameMap,
         queue' \in Seq(Request), rows' = rows, issued' \in Nat, lastKey' \in [Registered -> Nat], dropped' = dropped
  PROVE  IInv'
  <1>1. me \in Session
    BY Me
  <1> DEFINE x == [me EXCEPT !.in = Tail(@), !.out = @ + 1]
  <1>2. x \in Session /\ x.fd = me.fd /\ x.username = me.username /\ x.status = me.status
    BY <1>1, AnsweredType
  <1>3. sessions' = [sessions EXCEPT ![id] = x]
    BY DEF Answered
  <1> HIDE DEF x
  <1>4. SessionsKept /\ DOMAIN sessions' = DOMAIN sessions
    BY <1>2, <1>3, Edited
  <1>5. EntriesKept
    BY PollOutSet DEF Answered
  <1>6. list' = list /\ OtherTypes' /\ AtWork'
    BY <1>4 DEF Answered, IInv, OtherTypes, AtWork, clients
  <1> QED
    BY <1>4, <1>5, <1>6, Quiet

\* The packet a session reads is one of the packets clients send.
LEMMA PacketType ==
  ASSUME IInv, NEW cmd, Reading(cmd)
  PROVE  turn \in DOMAIN list /\ me.in # <<>> /\ me \in Session /\ packet \in Messages
  <1>1. turn \in DOMAIN list /\ me.in # <<>>
    BY DEF Reading, IInv, AtWork
  <1>2. me \in Session /\ me.in \in Seq(Messages)
    BY <1>1, Me, Fields
  <1>3. packet \in Messages
    BY <1>1, <1>2, HeadTailProperties DEF packet
  <1> QED
    BY <1>1, <1>2, <1>3

\* A wrong proof is logged and answered.
LEMMA WrongPasswordKeeps == ASSUME IInv, WrongPassword PROVE IInv'
  <1>1. turn \in DOMAIN list /\ me.in # <<>>
    BY PacketType DEF WrongPassword
  <1>2. queue' \in Seq(Request)
    <2>1. queue \in Seq(Request) /\ [op |-> "log"] \in Request
      BY DEF IInv, OtherTypes, Request
    <2>2. queue' = Append(queue, [op |-> "log"])
      BY DEF WrongPassword
    <2> QED
      BY <2>1, <2>2, AppendProperties
  <1>3. UNCHANGED <<usernameMap, rows, issued, lastKey, dropped>> /\ Answered(me) /\ pc' = "reading"
    BY DEF WrongPassword, Reading
  <1>4. issued' \in Nat /\ lastKey' \in [Registered -> Nat]
    BY <1>3 DEF IInv, OtherTypes
  <1> QED
    BY <1>1, <1>2, <1>3, <1>4, AnsweredKeeps
\* A right proof draws a key and enqueues its delete.
LEMMA RightPasswordKeeps == ASSUME IInv, RightPassword PROVE IInv'
  <1>1. turn \in DOMAIN list /\ me.in # <<>> /\ me.status = "LOGIN_ATTEMPT" /\ id \in DOMAIN sessions
    BY PacketType, Me DEF RightPassword
  <1>2. me.username \in Registered /\ issued' \in Nat
    BY <1>1 DEF RightPassword, IInv, Accounts, OtherTypes, me
  <1>3. queue' \in Seq(Request)
    <2> DEFINE d == [op |-> "delete", user |-> me.username, key |-> issued']
    <2>1. queue \in Seq(Request) /\ d \in Request
      BY <1>2 DEF IInv, OtherTypes, Request
    <2>2. queue' = Append(queue, d)
      BY DEF RightPassword
    <2> HIDE DEF d
    <2> QED
      BY <2>1, <2>2, AppendProperties
  <1>4. UNCHANGED <<sessions, list, fds, usernameMap>>
    BY DEF RightPassword, polling
  <1>5. OtherTypes'
    BY <1>2, <1>3 DEF RightPassword, IInv, OtherTypes, polling, clients
  <1>6. AtWork'
    BY <1>1 DEF RightPassword, polling, AtWork, me, id
  <1> QED
    BY <1>4, <1>5, <1>6, Still
\* The insert of the login is enqueued and its proof answered.
LEMMA EnqueueInsertKeeps == ASSUME IInv, EnqueueInsert PROVE IInv'
  <1>1. turn \in DOMAIN list /\ me.in # <<>> /\ me.status = "LOGIN_ATTEMPT"
    BY DEF EnqueueInsert, IInv, AtWork
  <1>2. me.username \in Registered /\ issued \in Nat
    BY <1>1, Me DEF IInv, Accounts, OtherTypes, me
  <1>3. queue' \in Seq(Request)
    <2> DEFINE i == [op |-> "insert", user |-> me.username, key |-> issued]
    <2>1. queue \in Seq(Request) /\ i \in Request
      BY <1>2 DEF IInv, OtherTypes, Request
    <2>2. queue' = Append(queue, i)
      BY DEF EnqueueInsert
    <2> HIDE DEF i
    <2> QED
      BY <2>1, <2>2, AppendProperties
  <1>4. lastKey' \in [Registered -> Nat]
    BY <1>2 DEF EnqueueInsert, IInv, OtherTypes
  <1>5. UNCHANGED <<usernameMap, rows, issued, dropped>> /\ Answered(me) /\ pc' = "reading"
    BY DEF EnqueueInsert
  <1> QED
    BY <1>1, <1>2, <1>3, <1>4, <1>5, AnsweredKeeps

\* The gather packet of an account gives the session its name, and the name
\* its entry in the map; another is answered only.
LEMMA GatherKeeps == ASSUME IInv, HandleAuthLoginGatherInfoPacket PROVE IInv'
  <1>1. turn \in DOMAIN list /\ me.in # <<>> /\ me \in Session /\ packet \in Messages /\ packet.cmd = "gather"
    BY PacketType DEF HandleAuthLoginGatherInfoPacket, Reading
  <1>2. /\ queue' \in Seq(Request) /\ rows' = rows /\ issued' \in Nat /\ lastKey' \in [Registered -> Nat]
        /\ dropped' = dropped /\ pc' = "reading"
    BY DEF HandleAuthLoginGatherInfoPacket, Reading, database, IInv, OtherTypes
  <1>3. CASE ~(packet.user \in Registered /\ packet.version)
    <2>1. Answered(me) /\ usernameMap' = usernameMap
      BY <1>3 DEF HandleAuthLoginGatherInfoPacket
    <2> QED
      BY <1>1, <1>2, <2>1, AnsweredKeeps
  <1>4. CASE packet.user \in Registered /\ packet.version
    <2> DEFINE u == packet.user
               y == [me EXCEPT !.status = "LOGIN_ATTEMPT", !.username = u]
               x == [y EXCEPT !.in = Tail(@), !.out = @ + 1]
    <2>1. u \in Registered /\ u \in Users
      BY <1>4, SingleAssumption
    <2>2. y \in Session /\ y.in = me.in /\ y.fd = me.fd /\ y.username = u /\ y.status = "LOGIN_ATTEMPT"
      <3> HIDE DEF u
      <3> QED
        BY <1>1, <2>1 DEF Session
    <2>3. /\ Answered(y) /\ usernameMap' = [usernameMap EXCEPT ![u] = id] /\ me.status = "GATHER_INFO"
      BY <1>4 DEF HandleAuthLoginGatherInfoPacket
    <2> HIDE DEF y, u
    <2>4. x \in Session /\ x.fd = me.fd /\ x.username = u /\ x.status = "LOGIN_ATTEMPT"
      BY <1>1, <2>2, AnsweredType
    <2>5. sessions' = [sessions EXCEPT ![id] = x]
      BY <2>3 DEF Answered
    <2> HIDE DEF x
    <2>6. /\ sessions \in Seq(Session) /\ id \in DOMAIN sessions /\ DOMAIN sessions = 1..Len(sessions)
          /\ id = list[turn] /\ id # 0
      BY <1>1, Me, Indexes DEF IInv, Structures, id
    <2>7. sessions' \in Seq(Session) /\ Len(sessions') = Len(sessions) /\ DOMAIN sessions' = DOMAIN sessions
      BY <2>4, <2>5, <2>6, Replaced
    <2>8. \A s \in DOMAIN sessions : sessions'[s] = IF s = id THEN x ELSE sessions[s]
      BY <2>5, <2>6
    <2>9. EntriesKept /\ list' = list
      BY <2>3, PollOutSet DEF Answered
    <2>10. \A w \in Users : usernameMap'[w] = IF w = u THEN id ELSE usernameMap[w]
      BY <2>1, <2>3 DEF IInv, Structures
    \* The session was in no entry of the map: its status says so.
    <2>11. \A w \in Users : usernameMap[w] # 0 => usernameMap[w] \in DOMAIN sessions /\ usernameMap[w] # id
      BY <2>3 DEF IInv, Structures, Accounts, me
    <2>12. Structures'
      <3>1. usernameMap' \in [Users -> {0} \cup DOMAIN sessions]
        BY <2>3, <2>6 DEF IInv, Structures
      <3> QED
        BY <2>7, <2>9, <3>1 DEF IInv, Structures, EntriesKept
    <2>13. IndexesAligned'
      <3>1. DOMAIN fds = 1..Len(fds) /\ DOMAIN list = 1..Len(list) /\ \A i \in DOMAIN list : list[i] \in DOMAIN sessions
        BY Indexes DEF IInv, Structures
      <3>2. \A s \in DOMAIN sessions : sessions'[s].fd = sessions[s].fd
        BY <2>4, <2>8 DEF me
      <3> QED
        BY <2>9, <3>1, <3>2 DEF IInv, IndexesAligned, EntriesKept
    <2>14. Accounts'
      <3>1. \A s \in DOMAIN sessions : sessions'[s].status = "LOGIN_ATTEMPT" => sessions'[s].username \in Registered
        BY <2>1, <2>4, <2>8 DEF IInv, Accounts
      <3>2. \A w \in Users : usernameMap'[w] # 0 => sessions'[usernameMap'[w]].status = "LOGIN_ATTEMPT"
        BY <2>4, <2>6, <2>8, <2>10, <2>11 DEF IInv, Accounts
      <3> QED
        BY <2>7, <3>1, <3>2 DEF Accounts
    <2>15. NoDanglingName'
      <3>1. id \in ToSet(list)
        BY <1>1, <2>6 DEF ToSet
      <3>2. ASSUME NEW w \in Users, usernameMap'[w] # 0
            PROVE  usernameMap'[w] \in ToSet(list) /\ sessions'[usernameMap'[w]].username = w
        <4>1. CASE w = u
          BY <2>4, <2>6, <2>8, <2>10, <3>1, <4>1
        <4>2. CASE w # u
          BY <2>8, <2>10, <2>11, <3>2, <4>2 DEF IInv, NoDanglingName
        <4> QED
          BY <4>1, <4>2
      <3> QED
        BY <2>9, <3>2 DEF NoDanglingName
    <2>16. OtherTypes' /\ AtWork'
      BY <1>1, <1>2, <2>3, <2>7, <2>9 DEF Answered, IInv, OtherTypes, AtWork, clients
    <2> QED
      BY <2>12, <2>13, <2>14, <2>15, <2>16 DEF IInv
  <1> QED
    BY <1>3, <1>4

\* A new session gets the last place of the lists, and an entry of its own.
LEMMA AcceptKeeps == ASSUME IInv, NEW fd \in Fds, AcceptClient(fd) PROVE IInv'
  <1> DEFINE K(i) == IF Reallocates THEN [sessions[i] EXCEPT !.pfd = 0] ELSE sessions[i]
             kept == [i \in DOMAIN sessions |-> K(i)]
             n == Len(sessions) + 1
             new == [fd |-> fd, open |-> TRUE, pfd |-> Len(fds) + 1, deaf |-> FALSE,
                     status |-> "GATHER_INFO", username |-> "", in |-> <<>>, out |-> 0]
             entry == [fd |-> fd, out |-> FALSE, revents |-> {}]
  <1>1. /\ sessions \in Seq(Session) /\ DOMAIN sessions = 1..Len(sessions) /\ Len(sessions) \in Nat
        /\ \A s \in DOMAIN sessions : sessions[s] \in Session
    BY Indexes DEF IInv, Structures
  <1>2. /\ list \in Seq(DOMAIN sessions) /\ DOMAIN list = 1..Len(list) /\ Len(list) \in Nat
        /\ \A i \in DOMAIN list : list[i] \in DOMAIN sessions
    BY Indexes DEF IInv, Structures
  <1>3. fds \in Seq(Entry) /\ DOMAIN fds = 1..Len(fds) /\ Len(fds) \in Nat /\ Len(fds) = Len(list)
    BY Indexes DEF IInv, Structures, IndexesAligned
  <1>4. ASSUME NEW s \in DOMAIN sessions
        PROVE  /\ K(s) \in Session /\ K(s).fd = sessions[s].fd /\ K(s).username = sessions[s].username
               /\ K(s).status = sessions[s].status
    <2>1. [sessions[s] EXCEPT !.pfd = 0] \in Session
      BY <1>1, Changes, EmptySeq
    <2>2. \A x \in Session : LET z == [x EXCEPT !.pfd = 0]
                             IN  z.fd = x.fd /\ z.username = x.username /\ z.status = x.status
      BY DEF Session
    <2> QED
      BY <1>1, <2>1, <2>2
  <1> HIDE DEF K
  <1>5. kept \in Seq(Session) /\ Len(kept) = Len(sessions)
    BY <1>1, <1>4, Mapped
  <1>6. new \in Session /\ new.fd = fd /\ new.status = "GATHER_INFO" /\ entry \in Entry /\ entry.fd = fd
    <2>1. Len(fds) + 1 \in Nat /\ 0 \in Nat /\ <<>> \in Seq(Messages)
      BY <1>3, EmptySeq
    <2>2. new \in Session
      BY <2>1 DEF Session
    <2>3. entry \in Entry
      BY DEF Entry
    <2> QED
      BY <2>2, <2>3
  <1>7. sessions' = Append(kept, new) /\ list' = Append(list, n) /\ fds' = Append(fds, entry)
    BY DEF AcceptClient, K
  <1> HIDE DEF kept, new, entry
  <1>8. /\ sessions' \in Seq(Session) /\ Len(sessions') = n /\ sessions'[n] = new /\ DOMAIN sessions' = 1..n
        /\ \A s \in DOMAIN sessions : sessions'[s] = K(s) /\ s \in DOMAIN sessions'
    <2>1. /\ sessions' \in Seq(Session) /\ Len(sessions') = n /\ sessions'[n] = new
          /\ \A s \in 1..Len(sessions) : sessions'[s] = kept[s]
      BY <1>1, <1>5, <1>6, <1>7, AppendProperties
    <2>2. \A s \in DOMAIN sessions : kept[s] = K(s)
      BY DEF kept
    <2>3. DOMAIN sessions' = 1..n
      BY <2>1, Indexes
    <2> QED
      BY <1>1, <2>1, <2>2, <2>3
  <1>9. /\ list' \in Seq(DOMAIN sessions') /\ Len(list') = Len(list) + 1 /\ list'[Len(list) + 1] = n
        /\ \A i \in 1..Len(list) : list'[i] = list[i]
    <2>1. list \in Seq(1..n)
      BY <1>1, <1>2, SeqDef
    <2>2. n \in 1..n
      BY <1>1
    <2> QED
      BY <1>7, <1>8, <2>1, <2>2, AppendProperties
  <1>10. /\ fds' \in Seq(Entry) /\ Len(fds') = Len(fds) + 1 /\ fds'[Len(fds) + 1] = entry
         /\ \A i \in 1..Len(fds) : fds'[i] = fds[i]
    BY <1>3, <1>6, <1>7, AppendProperties
  <1>11. DOMAIN list' = 1..(Len(list) + 1)
    BY <1>9, Indexes
  <1>12. usernameMap' = usernameMap /\ usernameMap \in [Users -> {0} \cup DOMAIN sessions]
    BY DEF AcceptClient, IInv, Structures
  <1>13. Structures'
    BY <1>8, <1>9, <1>10, <1>12 DEF Structures
  <1>14. IndexesAligned'
    <2>1. Len(fds') = Len(list')
      BY <1>3, <1>9, <1>10
    <2>2. ASSUME NEW i \in DOMAIN list'
          PROVE  fds'[i].fd = sessions'[list'[i]].fd
      <3>1. CASE i \in DOMAIN list
        <4>1. fds'[i] = fds[i] /\ list'[i] = list[i] /\ list[i] \in DOMAIN sessions
          BY <1>2, <1>3, <1>9, <1>10, <3>1
        <4>2. sessions'[list[i]].fd = sessions[list[i]].fd
          BY <1>4, <1>8, <4>1
        <4> QED
          BY <3>1, <4>1, <4>2 DEF IInv, IndexesAligned
      <3>2. CASE i = Len(list) + 1
        BY <1>3, <1>6, <1>8, <1>9, <1>10, <3>2
      <3> QED
        BY <1>2, <1>11, <3>1, <3>2
    <2> QED
      BY <2>1, <2>2 DEF IndexesAligned
  <1>15. \A u \in Users : usernameMap[u] # 0 => usernameMap[u] \in DOMAIN sessions
    BY <1>12
  <1>16. Accounts'
    <2>1. ASSUME NEW s \in DOMAIN sessions', sessions'[s].status = "LOGIN_ATTEMPT"
          PROVE  sessions'[s].username \in Registered
      <3>1. s # n
        BY <1>6, <1>8, <2>1
      <3>2. s \in DOMAIN sessions
        BY <1>1, <1>8, <3>1
      <3> QED
        BY <1>4, <1>8, <2>1, <3>2 DEF IInv, Accounts
    <2>2. \A u \in Users : usernameMap'[u] # 0 => sessions'[usernameMap'[u]].status = "LOGIN_ATTEMPT"
      BY <1>4, <1>8, <1>12, <1>15 DEF IInv, Accounts
    <2> QED
      BY <2>1, <2>2 DEF Accounts
  <1>17. NoDanglingName'
    <2>1. ToSet(list) \subseteq ToSet(list')
      BY <1>2, <1>9, <1>11 DEF ToSet
    <2> QED
      BY <1>4, <1>8, <1>12, <1>15, <2>1 DEF IInv, NoDanglingName
  <1>18. OtherTypes'
    <2>1. inbox' \in [DOMAIN sessions' -> Seq(Messages)] /\ sent' \in [DOMAIN sessions' -> Seq(Messages)]
      <3>1. ASSUME NEW f \in [DOMAIN sessions -> Seq(Messages)]
            PROVE  Append(f, <<>>) \in [DOMAIN sessions' -> Seq(Messages)]
        <4>1. f \in Seq(Seq(Messages)) /\ Len(f) = Len(sessions)
          BY <1>1, Mapped
        <4>2. <<>> \in Seq(Messages)
          BY EmptySeq
        <4>3. Append(f, <<>>) \in Seq(Seq(Messages)) /\ Len(Append(f, <<>>)) = n
          BY <4>1, <4>2, AppendProperties
        <4> DEFINE g == Append(f, <<>>)
        <4> HIDE DEF n, g
        <4>4. g \in Seq(Seq(Messages)) /\ Len(g) = n
          BY <4>3 DEF g
        <4>5. g \in [1..n -> Seq(Messages)]
          BY <4>4
        <4> QED
          BY <1>8, <4>5 DEF g
      <3> QED
        BY <3>1 DEF AcceptClient, IInv, OtherTypes
    <2>2. socketOf' \in [Fds -> {0} \cup DOMAIN sessions']
      <3>1. socketOf' = [socketOf EXCEPT ![fd] = n] /\ socketOf \in [Fds -> {0} \cup DOMAIN sessions]
        BY DEF AcceptClient, IInv, OtherTypes
      <3>2. n \in DOMAIN sessions' /\ DOMAIN sessions \subseteq DOMAIN sessions'
        BY <1>1, <1>8
      <3> QED
        BY <3>1, <3>2
    <2>3. capacity' \in Nat
      <3>1. capacity \in Nat /\ \A k \in Nat : k \div 2 \in Nat /\ k + k \div 2 \in Nat /\ k + 1 \in Nat
        BY DEF IInv, OtherTypes
      <3> QED
        BY <3>1 DEF AcceptClient, Grown
    <2>4. gone' \subseteq DOMAIN sessions' /\ toRemove' \subseteq DOMAIN list'
      <3>1. DOMAIN list \subseteq DOMAIN list' /\ DOMAIN sessions \subseteq DOMAIN sessions'
        BY <1>2, <1>8, <1>11
      <3> QED
        BY <3>1 DEF AcceptClient, IInv, OtherTypes
    <2> QED
      BY <2>1, <2>2, <2>3, <2>4 DEF AcceptClient, IInv, OtherTypes, database
  <1>19. AtWork'
    BY DEF AcceptClient, AtWork
  <1> QED
    BY <1>13, <1>14, <1>16, <1>17, <1>18, <1>19 DEF IInv

\* A removal takes the same place out of both lists, and the name of the
\* session out of the map; the indexes still to be removed are smaller.
LEMMA RemoveKeeps == ASSUME IInv, RemoveLast PROVE IInv'
  <1>1. PICK i \in toRemove : (\A j \in toRemove : j <= i) /\ RemoveSession(i)
    BY DEF RemoveLast
  <1>2. /\ sessions \in Seq(Session) /\ DOMAIN sessions = 1..Len(sessions) /\ Len(sessions) \in Nat
        /\ \A s \in DOMAIN sessions : sessions[s] \in Session
    BY Indexes DEF IInv, Structures
  <1>3. /\ list \in Seq(DOMAIN sessions) /\ DOMAIN list = 1..Len(list) /\ Len(list) \in Nat
        /\ \A j \in DOMAIN list : list[j] \in DOMAIN sessions
    BY Indexes DEF IInv, Structures
  <1>4. fds \in Seq(Entry) /\ DOMAIN fds = 1..Len(fds) /\ Len(fds) = Len(list) /\ i \in DOMAIN list
    BY Indexes DEF IInv, OtherTypes, Structures, IndexesAligned
  <1> DEFINE s == list[i]
             x == [sessions[s] EXCEPT !.open = FALSE]
             J(k) == IF k < i THEN k ELSE k + 1
  <1>5. s \in DOMAIN sessions /\ sessions[s] \in Session /\ sessions[s].fd \in Fds
    BY <1>2, <1>3, <1>4, Fields
  <1>6. x \in Session /\ x.fd = sessions[s].fd /\ x.username = sessions[s].username /\ x.status = sessions[s].status
    <2>1. x \in Session
      BY <1>5, Changes, EmptySeq
    <2> QED
      BY <1>5, <2>1 DEF Session
  <1>7. /\ toRemove' = toRemove \ {i} /\ socketOf' = [socketOf EXCEPT ![sessions[s].fd] = 0]
        /\ usernameMap' = [u \in Users |-> IF u = sessions[s].username THEN 0 ELSE usernameMap[u]]
        /\ sessions' = [sessions EXCEPT ![s] = x]
        /\ fds' = RemoveAt(fds, i) /\ list' = RemoveAt(list, i)
    BY <1>1 DEF RemoveSession
  <1> HIDE DEF s, x
  <1>8. /\ list' \in Seq(DOMAIN sessions) /\ Len(list') = Len(list) - 1
        /\ \A k \in 1..(Len(list) - 1) : list'[k] = list[J(k)]
    BY <1>3, <1>4, <1>7, Erased
  <1>9. /\ fds' \in Seq(Entry) /\ Len(fds') = Len(fds) - 1
        /\ \A k \in 1..(Len(fds) - 1) : fds'[k] = fds[J(k)]
    <2>1. fds \in Seq(Entry) /\ i \in DOMAIN fds
      BY <1>3, <1>4
    <2>2. /\ RemoveAt(fds, i) \in Seq(Entry) /\ Len(RemoveAt(fds, i)) = Len(fds) - 1
          /\ \A k \in 1..(Len(fds) - 1) : RemoveAt(fds, i)[k] = fds[IF k < i THEN k ELSE k + 1]
      <3> HIDE DEF J
      <3> QED
        BY <2>1, Erased
    <2> QED
      BY <1>7, <2>2
  <1>10. DOMAIN list' = 1..(Len(list) - 1)
    BY <1>8, Indexes
  <1>11. \A k \in 1..(Len(list) - 1) : J(k) \in 1..Len(list)
    BY <1>3, <1>4
  <1>12. /\ sessions' \in Seq(Session) /\ Len(sessions') = Len(sessions) /\ DOMAIN sessions' = DOMAIN sessions
         /\ \A t \in DOMAIN sessions : /\ sessions'[t].fd = sessions[t].fd
                                       /\ sessions'[t].username = sessions[t].username
                                       /\ sessions'[t].status = sessions[t].status
    <2>1. sessions' \in Seq(Session) /\ Len(sessions') = Len(sessions) /\ DOMAIN sessions' = DOMAIN sessions
      BY <1>2, <1>5, <1>6, <1>7, Replaced
    <2>2. \A t \in DOMAIN sessions : sessions'[t] = IF t = s THEN x ELSE sessions[t]
      BY <1>2, <1>5, <1>7
    <2> QED
      BY <1>6, <2>1, <2>2
  <1>13. Structures'
    <2>1. usernameMap' \in [Users -> {0} \cup DOMAIN sessions]
      BY <1>7 DEF IInv, Structures
    <2> QED
      BY <1>8, <1>9, <1>12, <2>1 DEF Structures
  <1>14. IndexesAligned'
    <2>1. Len(fds') = Len(list')
      BY <1>4, <1>8, <1>9
    <2>2. ASSUME NEW k \in DOMAIN list'
          PROVE  fds'[k].fd = sessions'[list'[k]].fd
      <3>1. J(k) \in DOMAIN list /\ fds'[k] = fds[J(k)] /\ list'[k] = list[J(k)]
        BY <1>3, <1>4, <1>8, <1>9, <1>10, <1>11
      <3> HIDE DEF J
      <3>2. sessions'[list[J(k)]].fd = sessions[list[J(k)]].fd
        BY <1>3, <1>12, <3>1
      <3> QED
        BY <3>1, <3>2 DEF IInv, IndexesAligned
    <2> QED
      BY <2>1, <2>2 DEF IndexesAligned
  <1>15. ASSUME NEW u \in Users, usernameMap'[u] # 0
         PROVE  /\ usernameMap'[u] = usernameMap[u] /\ usernameMap[u] \in DOMAIN sessions
                /\ usernameMap[u] \in ToSet(list) /\ sessions[usernameMap[u]].username = u
                /\ usernameMap[u] # s
    <2>1. u # sessions[s].username /\ usernameMap'[u] = usernameMap[u]
      BY <1>7, <1>15
    <2>2. usernameMap[u] \in ToSet(list) /\ sessions[usernameMap[u]].username = u
      BY <1>15, <2>1 DEF IInv, NoDanglingName
    <2>3. usernameMap[u] \in DOMAIN sessions
      BY <1>15, <2>1 DEF IInv, Structures
    <2> QED
      BY <2>1, <2>2, <2>3
  <1>16. Accounts'
    BY <1>12, <1>15 DEF IInv, Accounts
  <1>17. NoDanglingName'
    <2>1. ASSUME NEW t \in ToSet(list), t # s
          PROVE  t \in ToSet(list')
      <3>1. PICK j \in DOMAIN list : list[j] = t
        BY <2>1 DEF ToSet
      <3>2. j # i
        BY <2>1, <3>1 DEF s
      <3> DEFINE k == IF j < i THEN j ELSE j - 1
      <3>3. k \in 1..(Len(list) - 1) /\ J(k) = j
        BY <1>3, <1>4, <3>1, <3>2
      <3>4. list'[k] = t
        BY <1>8, <3>1, <3>3
      <3> QED
        BY <1>10, <3>3, <3>4 DEF ToSet
    <2> QED
      BY <1>12, <1>15, <2>1 DEF NoDanglingName
  <1>18. OtherTypes'
    <2>1. toRemove' \subseteq DOMAIN list'
      <3>1. ASSUME NEW j \in toRemove, j # i
            PROVE  j \in 1..(Len(list) - 1)
        <4>1. j \in DOMAIN list /\ j <= i
          BY <1>1, <3>1 DEF IInv, OtherTypes
        <4> QED
          BY <1>3, <1>4, <3>1, <4>1
      <3> QED
        BY <1>7, <1>10, <3>1
    <2>2. socketOf' \in [Fds -> {0} \cup DOMAIN sessions]
      BY <1>5, <1>7 DEF IInv, OtherTypes
    <2> QED
      BY <1>12, <2>1, <2>2 DEF RemoveLast, IInv, OtherTypes, clients, database
  <1>19. AtWork'
    BY DEF RemoveLast, AtWork
  <1> QED
    BY <1>13, <1>14, <1>16, <1>17, <1>18, <1>19 DEF IInv
\* The end of the loop over the clients.
LEMMA EndOfPollKeeps == ASSUME IInv, EndOfPoll PROVE IInv'
  <1> DEFINE E(i) == [fds[i] EXCEPT !.revents = {}]
  <1>1. fds \in Seq(Entry) /\ \A i \in DOMAIN fds : fds[i] \in Entry
    BY Indexes DEF IInv, Structures
  <1>2. \A i \in DOMAIN fds : E(i) \in Entry /\ E(i).fd = fds[i].fd
    BY <1>1 DEF Entry
  <1>3. fds' = [i \in DOMAIN fds |-> E(i)]
    BY DEF EndOfPoll
  <1> HIDE DEF E
  <1>4. fds' \in [DOMAIN fds -> Entry]
    BY <1>2, <1>3
  <1>5. EntriesKept
    BY <1>1, <1>2, <1>3, <1>4, Mapped DEF EntriesKept
  <1>6. UNCHANGED <<sessions, list, usernameMap>> /\ OtherTypes' /\ AtWork'
    BY DEF EndOfPoll, IInv, OtherTypes, AtWork, clients, database
  <1> QED
    BY <1>5, <1>6, SessionsUnchanged, Quiet

\* The worker, the end and the clients leave the structures alone.
LEMMA WorkerKeeps == ASSUME IInv, WorkerExecutes PROVE IInv'
  <1>1. queue \in Seq(Request) /\ queue # <<>> /\ rows \in [Registered -> Seq(Nat)]
    BY DEF WorkerExecutes, IInv, OtherTypes
  <1>2. Head(queue) \in Request /\ queue' \in Seq(Request)
    BY <1>1, HeadTailProperties DEF WorkerExecutes
  <1> DEFINE q == Head(queue)
             executed == CASE q.op = "delete" -> [rows EXCEPT ![q.user] = <<>>]
                           [] q.op = "insert" -> [rows EXCEPT ![q.user] = Append(@, q.key)]
                           [] q.op = "log" -> rows
  <1>3. \/ rows' = executed /\ dropped' = dropped
        \/ rows' = rows /\ dropped' = IF q.op = "log" THEN dropped ELSE dropped \cup {q.key}
    BY DEF WorkerExecutes
  <1> HIDE DEF q
  <1>4. q \in Request
    BY <1>2 DEF q
  <1>5. executed \in [Registered -> Seq(Nat)]
    <2>1. CASE q.op = "delete"
      <3>1. executed = [rows EXCEPT ![q.user] = <<>>]
        BY <2>1
      <3>2. <<>> \in Seq(Nat)
        BY EmptySeq
      <3> HIDE DEF executed
      <3> QED
        BY <1>1, <3>1, <3>2
    <2>2. CASE q.op = "insert"
      <3>1. executed = [rows EXCEPT ![q.user] = Append(@, q.key)]
        BY <2>2
      <3>2. q.user \in Registered /\ q.key \in Nat
        BY <1>4, <2>2 DEF Request
      <3> DEFINE longer == Append(rows[q.user], q.key)
      <3>3. longer \in Seq(Nat)
        BY <1>1, <3>2, AppendProperties
      <3>4. executed = [rows EXCEPT ![q.user] = longer]
        BY <3>1
      <3> HIDE DEF longer, executed
      <3> QED
        BY <1>1, <3>2, <3>3, <3>4
    <2>3. CASE q.op = "log"
      BY <1>1, <2>3
    <2>4. q.op \in {"delete", "insert", "log"}
      BY <1>4 DEF Request
    <2> QED
      BY <2>1, <2>2, <2>3, <2>4
  <1> HIDE DEF executed
  <1>6. q.op \in {"delete", "insert", "log"} /\ (q.op # "log" => q.key \in Nat)
    BY <1>4 DEF Request
  <1>7. rows' \in [Registered -> Seq(Nat)] /\ dropped' \subseteq Nat
    BY <1>1, <1>3, <1>5, <1>6 DEF IInv, OtherTypes
  <1>8. UNCHANGED <<sessions, list, fds, usernameMap>> /\ OtherTypes' /\ AtWork'
    BY <1>2, <1>7 DEF WorkerExecutes, IInv, OtherTypes, AtWork, me, id, control, polling, clients
  <1> QED
    BY <1>8, Still
\* A shutdown leaves the sessions as they are.
LEMMA ShutdownKeeps == ASSUME IInv, Shutdown PROVE IInv'
  <1>1. UNCHANGED <<sessions, list, fds, usernameMap>> /\ OtherTypes' /\ AtWork'
    BY DEF Shutdown, IInv, OtherTypes, AtWork, polling, clients, database
  <1> QED
    BY <1>1, Still
\* A client's packet is only in its inbox.
LEMMA ClientSendsKeeps ==
  ASSUME IInv, NEW s \in DOMAIN sessions, NEW m \in Messages, ClientSends(s, m)
  PROVE  IInv'
  <1>1. /\ inbox' = [inbox EXCEPT ![s] = Append(inbox[s], m)] /\ sent' = [sent EXCEPT ![s] = Append(sent[s], m)]
        /\ inbox \in [DOMAIN sessions -> Seq(Messages)] /\ sent \in [DOMAIN sessions -> Seq(Messages)]
    BY DEF ClientSends, IInv, OtherTypes
  <1>2. Append(inbox[s], m) \in Seq(Messages) /\ Append(sent[s], m) \in Seq(Messages)
    BY <1>1, AppendProperties
  <1>3. inbox' \in [DOMAIN sessions -> Seq(Messages)] /\ sent' \in [DOMAIN sessions -> Seq(Messages)]
    BY <1>1, <1>2
  <1>4. UNCHANGED <<sessions, list, fds, usernameMap>> /\ OtherTypes' /\ AtWork'
    BY <1>3 DEF ClientSends, IInv, OtherTypes, AtWork, me, id, control, polling, database
  <1> QED
    BY <1>4, Still
\* A client that leaves is only noted.
LEMMA ClientGoesKeeps == ASSUME IInv, NEW s \in DOMAIN sessions, ClientGoes(s) PROVE IInv'
  <1>1. UNCHANGED <<sessions, list, fds, usernameMap>> /\ OtherTypes' /\ AtWork'
    BY DEF ClientGoes, IInv, OtherTypes, AtWork, me, id, control, polling, database
  <1> QED
    BY <1>1, Still

\* No step breaks the invariant.
LEMMA NextIInv == IInv /\ [Next]_vars => IInv'
  <1> SUFFICES ASSUME IInv, [Next]_vars PROVE IInv'
    OBVIOUS
  <1>1. CASE PollLoop
    BY <1>1, PollKeeps, HandshakeFailsKeeps, AcceptKeeps, MarkInvalidKeeps, SendNothingKeeps, SendKeeps,
       SendFailsKeeps, SendCrashesKeeps, ReceiveNothingKeeps, ReceiveFailsKeeps, ReceiveKeeps, ReadDoneKeeps,
       UnknownCommandKeeps, RefuseKeeps, GatherKeeps, WrongPasswordKeeps, RightPasswordKeeps, EnqueueInsertKeeps,
       RemoveKeeps, EndOfPollKeeps
       DEF PollLoop
  <1>2. CASE Environment
    BY <1>2, ClientSendsKeeps, ClientGoesKeeps DEF Environment
  <1>3. CASE PollFails \/ WorkerExecutes \/ Shutdown
    BY <1>3, PollFailsKeeps, WorkerKeeps, ShutdownKeeps
  <1>4. CASE UNCHANGED vars
    <2>1. UNCHANGED <<sessions, list, fds, usernameMap>> /\ OtherTypes' /\ AtWork'
      BY <1>4 DEF vars, IInv, OtherTypes, AtWork, me, id, control, polling, clients, database
    <2> QED
      BY <2>1, Still
  <1> QED
    BY <1>1, <1>2, <1>3, <1>4 DEF Next

\* The server starts without sessions.
LEMMA InitIInv == Init => IInv
  <1> SUFFICES ASSUME Init PROVE IInv
    OBVIOUS
  <1>1. DOMAIN <<>> = {} /\ Len(<<>>) = 0 /\ \A S : <<>> \in Seq(S)
    BY EmptySeq
  <1>2. OtherTypes
    <2>1. inbox \in [DOMAIN sessions -> Seq(Messages)] /\ sent \in [DOMAIN sessions -> Seq(Messages)]
      BY <1>1 DEF Init
    <2>2. rows \in [Registered -> Seq(Nat)] /\ lastKey \in [Registered -> Nat] /\ queue \in Seq(Request)
      BY <1>1 DEF Init
    <2>3. socketOf \in [Fds -> {0} \cup DOMAIN sessions]
      BY DEF Init
    <2> QED
      BY <2>1, <2>2, <2>3 DEF Init, OtherTypes
  <1>3. Structures
    BY <1>1 DEF Init, Structures
  <1>4. AtWork /\ IndexesAligned
    BY <1>1 DEF Init, AtWork, IndexesAligned
  <1>5. Accounts /\ NoDanglingName
    BY <1>1 DEF Init, Accounts, NoDanglingName
  <1> QED
    BY <1>2, <1>3, <1>4, <1>5 DEF IInv

-----------------------------------------------------------------------------
(* The table *)

\* A statement about the row of an account.
IsFor(r, u) == r.op \in {"delete", "insert"} /\ r.user = u
\* Statement i of the queue is the delete, or the insert, of a login to u.
Is(op, u, key, i) == queue[i].op = op /\ queue[i].user = u /\ queue[i].key = key
\* Between the two requests of a login to u.
Entering(u) == pc = "insert" /\ me.username = u
\* Its delete is the last in the queue, or was executed or dropped.
DeleteQueued(u) ==
    /\ issued # 0
    /\ IF queue = <<>> THEN issued \in dropped \/ rows[u] = <<>> ELSE Is("delete", u, issued, Len(queue))
\* The insert of the last login to u is queued, the last statement about u,
\* with its delete in front of it, unless that was executed or dropped.
LastInsert(u, i) ==
    /\ Is("insert", u, lastKey[u], i)
    /\ \A j \in DOMAIN queue : IsFor(queue[j], u) => j <= i
    /\ IF i = 1 THEN lastKey[u] \in dropped \/ rows[u] = <<>> ELSE Is("delete", u, lastKey[u], i - 1)
Recorded(u) ==
    /\ \A i \in DOMAIN queue : ~IsFor(queue[i], u)
    /\ lastKey[u] \in dropped \/ rows[u] = IF lastKey[u] = 0 THEN <<>> ELSE <<lastKey[u]>>
InsertQueued(u) == lastKey[u] # 0 /\ \E i \in DOMAIN queue : LastInsert(u, i)
LastLoginAhead == \A u \in Registered : IF Entering(u) THEN DeleteQueued(u) ELSE Recorded(u) \/ InsertQueued(u)

\* The queue and the requests in it.
LEMMA QueueType ==
  ASSUME OtherTypes
  PROVE  /\ queue \in Seq(Request) /\ DOMAIN queue = 1..Len(queue) /\ Len(queue) \in Nat
         /\ \A i \in DOMAIN queue : queue[i] \in Request
  BY Indexes DEF OtherTypes

\* A step that leaves the table, the queue and the keys alone, outside a login
\* or without touching its session.
LEMMA TableUntouched ==
  ASSUME LastLoginAhead, UNCHANGED database,
         (pc # "insert" /\ pc' # "insert") \/ UNCHANGED <<control, sessions, list>>
  PROVE  LastLoginAhead'
  <1>1. \A u : /\ DeleteQueued(u)' <=> DeleteQueued(u)
               /\ Recorded(u)' <=> Recorded(u)
               /\ InsertQueued(u)' <=> InsertQueued(u)
    BY DEF database, DeleteQueued, Recorded, InsertQueued, LastInsert, Is
  <1>2. \A u : Entering(u)' <=> Entering(u)
    BY DEF Entering, control, me, id
  <1> QED
    BY <1>1, <1>2 DEF LastLoginAhead

\* What a step that leaves the row and the last key of u alone may add at the
\* end of the queue: requests that are not about u.
LEMMA OthersQueued ==
  ASSUME OtherTypes, OtherTypes', NEW u \in Registered, Recorded(u) \/ InsertQueued(u),
         rows'[u] = rows[u], lastKey'[u] = lastKey[u], dropped' = dropped, Len(queue') >= Len(queue),
         \A i \in DOMAIN queue : queue'[i] = queue[i],
         \A i \in DOMAIN queue' : i > Len(queue) => ~IsFor(queue'[i], u)
  PROVE  (Recorded(u) \/ InsertQueued(u))'
  <1>1. /\ DOMAIN queue = 1..Len(queue) /\ Len(queue) \in Nat
        /\ DOMAIN queue' = 1..Len(queue') /\ Len(queue') \in Nat
    BY QueueType, Indexes DEF OtherTypes
  <1>2. \A i \in DOMAIN queue' : i \in DOMAIN queue \/ i > Len(queue)
    BY <1>1
  <1>3. CASE Recorded(u)
    <2>1. \A i \in DOMAIN queue' : ~IsFor(queue'[i], u)
      BY <1>2, <1>3 DEF Recorded
    <2> QED
      BY <1>3, <2>1 DEF Recorded
  <1>4. CASE InsertQueued(u)
    <2>1. PICK i \in DOMAIN queue : LastInsert(u, i)
      BY <1>4 DEF InsertQueued
    <2>2. i \in DOMAIN queue' /\ queue'[i] = queue[i] /\ (i # 1 => queue'[i - 1] = queue[i - 1])
      BY <1>1
    <2>3. \A j \in DOMAIN queue' : IsFor(queue'[j], u) => j <= i
      BY <1>2, <2>1 DEF LastInsert
    <2>4. LastInsert(u, i)'
      BY <2>1, <2>2, <2>3 DEF LastInsert, Is
    <2> QED
      BY <1>4, <2>2, <2>4 DEF InsertQueued
  <1> QED
    BY <1>3, <1>4

\* A request is appended to the queue.
LEMMA Enqueued ==
  ASSUME OtherTypes, OtherTypes', NEW r \in Request, queue' = Append(queue, r)
  PROVE  /\ Len(queue) \in Nat /\ DOMAIN queue = 1..Len(queue) /\ DOMAIN queue' = 1..(Len(queue) + 1)
         /\ Len(queue') = Len(queue) + 1 /\ queue' # <<>> /\ queue'[Len(queue) + 1] = r
         /\ \A i \in DOMAIN queue : queue'[i] = queue[i]
         /\ \A u : ~IsFor(r, u) => \A i \in DOMAIN queue' : i > Len(queue) => ~IsFor(queue'[i], u)
  <1>1. queue \in Seq(Request) /\ Len(queue) \in Nat /\ DOMAIN queue = 1..Len(queue)
    BY QueueType
  <1>2. /\ Len(queue') = Len(queue) + 1 /\ queue'[Len(queue) + 1] = r
        /\ \A i \in 1..Len(queue) : queue'[i] = queue[i]
    BY <1>1, AppendProperties
  <1>3. DOMAIN queue' = 1..(Len(queue) + 1) /\ queue' # <<>>
    <2>1. queue' \in Seq(Request)
      BY <1>1, AppendProperties
    <2>2. DOMAIN queue' = 1..Len(queue')
      BY <2>1, Indexes
    <2>3. Len(<<>>) = 0 /\ Len(queue') # 0
      BY <1>1, <1>2
    <2> QED
      BY <1>2, <2>2, <2>3
  <1>4. \A i \in DOMAIN queue' : i > Len(queue) => queue'[i] = r
    BY <1>1, <1>2, <1>3
  <1> QED
    BY <1>1, <1>2, <1>3, <1>4

\* A wrong proof queues a request that concerns no row.
LEMMA WrongPasswordTable ==
  ASSUME IInv, IInv', LastLoginAhead, WrongPassword PROVE LastLoginAhead'
  <1> DEFINE r == [op |-> "log"]
  <1>1. r \in Request /\ queue' = Append(queue, r) /\ UNCHANGED <<pc, rows, lastKey, dropped>> /\ pc # "insert"
    BY DEF Request, WrongPassword, Reading
  <1>2. \A u : ~IsFor(r, u)
    BY DEF IsFor
  <1> HIDE DEF r
  <1>3. ASSUME NEW u \in Registered PROVE (Recorded(u) \/ InsertQueued(u))'
    <2>1. /\ Len(queue') >= Len(queue) /\ \A i \in DOMAIN queue : queue'[i] = queue[i]
          /\ \A i \in DOMAIN queue' : i > Len(queue) => ~IsFor(queue'[i], u)
      BY <1>1, <1>2, Enqueued DEF IInv
    <2>2. Recorded(u) \/ InsertQueued(u)
      BY <1>1 DEF LastLoginAhead, Entering
    <2> QED
      BY <1>1, <2>1, <2>2, OthersQueued DEF IInv
  <1> QED
    BY <1>1, <1>3 DEF LastLoginAhead, Entering

\* A right proof queues the delete of its login.
LEMMA RightPasswordTable ==
  ASSUME IInv, IInv', LastLoginAhead, RightPassword PROVE LastLoginAhead'
  <1>1. PICK a : a = me.username
    OBVIOUS
  <1>2. a \in Registered /\ issued' \in Nat /\ issued' # 0
    <2>1. id \in DOMAIN sessions /\ issued \in Nat
      BY PacketType, Me DEF RightPassword, IInv, OtherTypes
    <2> QED
      BY <1>1, <2>1 DEF RightPassword, IInv, Accounts, me
  <1>3. PICK d \in Request : d = [op |-> "delete", user |-> a, key |-> issued']
    BY <1>2 DEF Request
  <1>4. /\ queue' = Append(queue, d) /\ UNCHANGED <<lastKey, rows, dropped>>
        /\ pc = "reading" /\ pc' = "insert" /\ me' = me
    BY <1>1, <1>3 DEF RightPassword, Reading, polling, me, id
  <1>5. DeleteQueued(a)'
    <2>1. queue' # <<>> /\ queue'[Len(queue')] = d
      BY <1>4, Enqueued DEF IInv
    <2> QED
      BY <1>2, <1>3, <2>1 DEF DeleteQueued, Is
  <1>6. ASSUME NEW u \in Registered, u # a
        PROVE  ~Entering(u)' /\ (Recorded(u) \/ InsertQueued(u))'
    <2>1. ~IsFor(d, u)
      BY <1>3, <1>6 DEF IsFor
    <2>2. /\ Len(queue') >= Len(queue) /\ \A i \in DOMAIN queue : queue'[i] = queue[i]
          /\ \A i \in DOMAIN queue' : i > Len(queue) => ~IsFor(queue'[i], u)
      BY <1>4, <2>1, Enqueued DEF IInv
    <2>3. Recorded(u) \/ InsertQueued(u)
      BY <1>4 DEF LastLoginAhead, Entering
    <2>4. ~Entering(u)'
      BY <1>1, <1>4, <1>6 DEF Entering
    <2> QED
      BY <1>4, <2>2, <2>3, <2>4, OthersQueued DEF IInv
  <1>7. Entering(a)'
    BY <1>1, <1>4 DEF Entering
  <1> QED
    BY <1>5, <1>6, <1>7 DEF LastLoginAhead

\* The insert follows its delete, or the worker has taken that already.
LEMMA EnqueueInsertTable ==
  ASSUME IInv, IInv', LastLoginAhead, EnqueueInsert PROVE LastLoginAhead'
  <1>1. PICK a : a = me.username
    OBVIOUS
  <1>2. a \in Registered /\ issued \in Nat
    <2>1. id \in DOMAIN sessions /\ issued \in Nat /\ me.status = "LOGIN_ATTEMPT"
      BY Me DEF EnqueueInsert, IInv, AtWork, OtherTypes
    <2> QED
      BY <1>1, <2>1 DEF IInv, Accounts, me
  <1>3. PICK i \in Request : i = [op |-> "insert", user |-> a, key |-> issued]
    BY <1>2 DEF Request
  <1>4. /\ queue' = Append(queue, i) /\ lastKey' = [lastKey EXCEPT ![a] = issued]
        /\ UNCHANGED <<rows, issued, dropped>> /\ pc = "insert" /\ pc' = "reading"
    BY <1>1, <1>3 DEF EnqueueInsert
  <1>5. PICK n : n = Len(queue)
    OBVIOUS
  <1>6. /\ n \in Nat /\ DOMAIN queue = 1..n /\ DOMAIN queue' = 1..(n + 1) /\ queue'[n + 1] = i
        /\ \A k \in DOMAIN queue : queue'[k] = queue[k]
    BY <1>4, <1>5, Enqueued DEF IInv
  <1>7. lastKey'[a] = issued
    BY <1>2, <1>4 DEF IInv, OtherTypes
  <1>8. DeleteQueued(a)
    BY <1>1, <1>2, <1>4 DEF LastLoginAhead, Entering
  <1>9. InsertQueued(a)'
    <2>1. PICK m : m = n + 1
      OBVIOUS
    <2>2. m \in DOMAIN queue' /\ \A k \in DOMAIN queue' : k <= m
      BY <1>6, <2>1
    <2>3. Is("insert", a, lastKey[a], m)'
      BY <1>3, <1>6, <1>7, <2>1 DEF Is
    <2>4. CASE n = 0
      <3>1. queue = <<>> /\ m = 1
        BY <1>5, <2>1, <2>4, QueueType, EmptySeq DEF IInv
      <3>2. lastKey'[a] \in dropped' \/ rows'[a] = <<>>
        BY <1>4, <1>7, <1>8, <3>1 DEF DeleteQueued
      <3> QED
        BY <2>2, <2>3, <3>1, <3>2, <1>7, <1>8 DEF InsertQueued, LastInsert, DeleteQueued
    <2>5. CASE n # 0
      <3>1. queue # <<>> /\ m # 1 /\ m - 1 = n /\ n \in DOMAIN queue
        BY <1>5, <1>6, <2>1, <2>5, EmptySeq
      <3>2. Is("delete", a, issued, n)
        BY <1>5, <1>8, <3>1 DEF DeleteQueued
      <3>3. Is("delete", a, lastKey[a], m - 1)'
        BY <1>6, <1>7, <3>1, <3>2 DEF Is
      <3> QED
        BY <2>2, <2>3, <3>1, <3>3, <1>7, <1>8 DEF InsertQueued, LastInsert, DeleteQueued
    <2> QED
      BY <2>4, <2>5
  <1>10. ASSUME NEW u \in Registered, u # a
         PROVE  (Recorded(u) \/ InsertQueued(u))'
    <2>1. ~IsFor(i, u)
      BY <1>3, <1>10 DEF IsFor
    <2>2. /\ Len(queue') >= Len(queue) /\ \A k \in DOMAIN queue : queue'[k] = queue[k]
          /\ \A k \in DOMAIN queue' : k > Len(queue) => ~IsFor(queue'[k], u)
      BY <1>4, <2>1, Enqueued DEF IInv
    <2>3. Recorded(u) \/ InsertQueued(u)
      BY <1>1, <1>4, <1>10 DEF LastLoginAhead, Entering
    <2>4. rows'[u] = rows[u] /\ lastKey'[u] = lastKey[u]
      BY <1>4, <1>10 DEF IInv, OtherTypes
    <2> QED
      BY <1>4, <2>2, <2>3, <2>4, OthersQueued DEF IInv
  <1> QED
    BY <1>4, <1>9, <1>10 DEF LastLoginAhead, Entering

\* What the worker's step does: the queue loses its first statement, which was
\* executed or dropped.
LEMMA Executed ==
  ASSUME IInv, WorkerExecutes, NEW q, q = queue[1], NEW n, n = Len(queue)
  PROVE  /\ n \in Nat /\ n > 0 /\ DOMAIN queue = 1..n /\ DOMAIN queue' = 1..(n - 1) /\ Len(queue') = n - 1
         /\ \A k \in DOMAIN queue' : k + 1 \in DOMAIN queue /\ queue'[k] = queue[k + 1]
         /\ UNCHANGED <<lastKey, issued, pc, me>> /\ dropped \subseteq dropped'
         /\ \A u \in Registered : ~IsFor(q, u) => rows'[u] = rows[u]
         /\ \A u \in Registered : q.op = "delete" /\ q.user = u => q.key \in dropped' \/ rows'[u] = <<>>
         /\ \A u \in Registered : q.op = "insert" /\ q.user = u =>
                q.key \in dropped' \/ rows'[u] = Append(rows[u], q.key)
  <1>1. queue \in Seq(Request) /\ queue # <<>> /\ queue' = Tail(queue)
    BY DEF WorkerExecutes, IInv, OtherTypes
  <1>2. /\ n \in Nat /\ n > 0 /\ Len(queue') = n - 1 /\ queue' \in Seq(Request)
        /\ \A k \in 1..(n - 1) : queue'[k] = queue[k + 1]
    BY <1>1, HeadTailProperties, LenProperties, EmptySeq
  <1>3. DOMAIN queue = 1..n /\ DOMAIN queue' = 1..(n - 1)
    BY <1>1, <1>2, Indexes
  <1>4. q \in Request /\ q = Head(queue)
    BY <1>1, <1>2, <1>3, QueueType, HeadTailProperties DEF IInv
  <1> DEFINE executed == CASE q.op = "delete" -> [rows EXCEPT ![q.user] = <<>>]
                           [] q.op = "insert" -> [rows EXCEPT ![q.user] = Append(@, q.key)]
                           [] q.op = "log" -> rows
  <1>5. \/ rows' = executed /\ dropped' = dropped
        \/ rows' = rows /\ dropped' = IF q.op = "log" THEN dropped ELSE dropped \cup {q.key}
    BY <1>4 DEF WorkerExecutes
  <1>6. rows \in [Registered -> Seq(Nat)] /\ q.op \in {"delete", "insert", "log"}
    BY <1>4 DEF IInv, OtherTypes, Request
  <1>7. ASSUME NEW u \in Registered
        PROVE  /\ ~IsFor(q, u) => executed[u] = rows[u]
               /\ q.op = "delete" /\ q.user = u => executed[u] = <<>>
               /\ q.op = "insert" /\ q.user = u => executed[u] = Append(rows[u], q.key)
    <2>1. CASE q.op = "log"
      BY <2>1
    <2>2. CASE q.op = "delete"
      BY <1>6, <2>2 DEF IsFor
    <2>3. CASE q.op = "insert"
      BY <1>6, <2>3 DEF IsFor
    <2> QED
      BY <1>6, <2>1, <2>2, <2>3
  <1> HIDE DEF executed
  <1>8. dropped \subseteq dropped' /\ ((dropped' = dropped /\ rows' = executed) \/ rows' = rows)
    BY <1>5
  <1>9. rows' = executed \/ (q.op # "log" => q.key \in dropped')
    BY <1>5
  <1>10. \A k \in DOMAIN queue' : k + 1 \in DOMAIN queue /\ queue'[k] = queue[k + 1]
    BY <1>2, <1>3
  <1>11. UNCHANGED <<lastKey, issued, pc, me>>
    BY DEF WorkerExecutes, control, polling, me, id
  <1> QED
    BY <1>2, <1>3, <1>7, <1>8, <1>9, <1>10, <1>11

\* The worker takes the first statement: of an account whose insert is queued,
\* an earlier one, its delete, or the insert itself.
LEMMA WorkerTable ==
  ASSUME IInv, IInv', LastLoginAhead, WorkerExecutes PROVE LastLoginAhead'
  <1>1. PICK n : n = Len(queue)
    OBVIOUS
  <1>2. PICK q : q = queue[1]
    OBVIOUS
  <1>3. /\ n \in Nat /\ n > 0 /\ DOMAIN queue = 1..n /\ DOMAIN queue' = 1..(n - 1) /\ Len(queue') = n - 1
        /\ \A k \in DOMAIN queue' : k + 1 \in DOMAIN queue /\ queue'[k] = queue[k + 1]
        /\ UNCHANGED <<lastKey, issued, pc, me>> /\ dropped \subseteq dropped'
    BY <1>1, <1>2, Executed
  <1>4. ASSUME NEW u \in Registered
        PROVE  /\ ~IsFor(q, u) => rows'[u] = rows[u]
               /\ q.op = "delete" /\ q.user = u => q.key \in dropped' \/ rows'[u] = <<>>
               /\ q.op = "insert" /\ q.user = u => q.key \in dropped' \/ rows'[u] = Append(rows[u], q.key)
    BY <1>1, <1>2, Executed
  <1>5. \A u : Entering(u)' <=> Entering(u)
    BY <1>3 DEF Entering
  <1>6. ASSUME NEW u \in Registered, DeleteQueued(u)
        PROVE  DeleteQueued(u)'
    <2>1. queue # <<>> /\ Is("delete", u, issued, n)
      BY <1>1, <1>6 DEF DeleteQueued, WorkerExecutes
    <2>2. CASE n = 1
      <3>1. issued \in dropped' \/ rows'[u] = <<>>
        BY <1>2, <1>4, <2>1, <2>2 DEF Is
      <3>2. queue' = <<>>
        BY <1>3, <2>2, QueueType, EmptySeq DEF IInv, OtherTypes
      <3> QED
        BY <1>3, <1>6, <3>1, <3>2 DEF DeleteQueued
    <2>3. CASE n # 1
      <3>1. n - 1 \in DOMAIN queue' /\ queue'[n - 1] = queue[n] /\ queue' # <<>>
        BY <1>3, <2>3, EmptySeq
      <3> QED
        BY <1>3, <1>6, <2>1, <3>1 DEF DeleteQueued, Is
    <2> QED
      BY <2>2, <2>3
  <1>7. ASSUME NEW u \in Registered, Recorded(u)
        PROVE  Recorded(u)'
    <2>1. ~IsFor(q, u)
      BY <1>2, <1>3, <1>7 DEF Recorded
    <2>2. \A k \in DOMAIN queue' : ~IsFor(queue'[k], u)
      BY <1>3, <1>7 DEF Recorded
    <2> QED
      BY <1>3, <1>4, <1>7, <2>1, <2>2 DEF Recorded
  <1>8. ASSUME NEW u \in Registered, InsertQueued(u)
        PROVE  (Recorded(u) \/ InsertQueued(u))'
    <2>1. PICK i \in DOMAIN queue : LastInsert(u, i)
      BY <1>8 DEF InsertQueued
    <2>2. lastKey[u] # 0 /\ Is("insert", u, lastKey[u], i)
      BY <1>8, <2>1 DEF InsertQueued, LastInsert
    <2>3. ASSUME NEW k \in DOMAIN queue', IsFor(queue'[k], u)
          PROVE  k <= i - 1
      <3>1. k + 1 \in DOMAIN queue /\ queue'[k] = queue[k + 1]
        BY <1>3
      <3>2. k + 1 <= i
        BY <2>1, <2>3, <3>1 DEF LastInsert
      <3> QED
        BY <1>3, <3>1, <3>2
    <2>4. CASE i = 1
      <3>1. \A k \in DOMAIN queue' : ~IsFor(queue'[k], u)
        BY <1>3, <2>3, <2>4
      <3>2. lastKey[u] \in dropped \/ rows[u] = <<>>
        BY <2>1, <2>4 DEF LastInsert
      <3>3. lastKey[u] \in dropped' \/ rows'[u] = Append(rows[u], lastKey[u])
        BY <1>2, <1>4, <2>2, <2>4 DEF Is
      <3>4. lastKey[u] \in dropped' \/ rows'[u] = <<lastKey[u]>>
        BY <1>3, <3>2, <3>3
      <3> QED
        BY <1>3, <2>2, <3>1, <3>4 DEF Recorded
    <2>5. CASE i # 1
      <3>1. PICK m : m = i - 1
        OBVIOUS
      <3>2. m \in DOMAIN queue' /\ queue'[m] = queue[i] /\ Is("delete", u, lastKey[u], m)
        BY <1>3, <2>1, <2>5, <3>1 DEF LastInsert
      <3>3. \A j \in DOMAIN queue' : IsFor(queue'[j], u) => j <= m
        BY <2>3, <3>1
      <3>4. Is("insert", u, lastKey[u], m)'
        BY <1>3, <2>2, <3>2 DEF Is
      <3>5. CASE m = 1
        <4>1. lastKey'[u] \in dropped' \/ rows'[u] = <<>>
          BY <1>2, <1>3, <1>4, <3>2, <3>5 DEF Is
        <4>2. LastInsert(u, m)'
          BY <3>3, <3>4, <3>5, <4>1 DEF LastInsert
        <4> QED
          BY <1>3, <2>2, <3>2, <4>2 DEF InsertQueued
      <3>6. CASE m # 1
        <4>1. m - 1 \in DOMAIN queue' /\ queue'[m - 1] = queue[m]
          BY <1>3, <3>2, <3>6
        <4>2. Is("delete", u, lastKey[u], m - 1)'
          BY <1>3, <3>2, <4>1 DEF Is
        <4>3. LastInsert(u, m)'
          BY <3>3, <3>4, <3>6, <4>2 DEF LastInsert
        <4> QED
          BY <1>3, <2>2, <3>2, <4>3 DEF InsertQueued
      <3> QED
        BY <3>5, <3>6
    <2> QED
      BY <2>4, <2>5
  <1> QED
    BY <1>5, <1>6, <1>7, <1>8 DEF LastLoginAhead

\* Only a proof and the worker touch the queue, the rows or the last keys.
LEMMA NextTable == ASSUME IInv, IInv', LastLoginAhead, [Next]_vars PROVE LastLoginAhead'
  <1>1. CASE WrongPassword
    BY <1>1, WrongPasswordTable
  <1>2. CASE RightPassword \/ EnqueueInsert
    BY <1>2, RightPasswordTable, EnqueueInsertTable
  <1>3. CASE WorkerExecutes
    BY <1>3, WorkerTable
  <1>4. CASE \/ \E incoming \in BOOLEAN : Poll(incoming)
             \/ HandshakeFails \/ \E fd \in Fds : AcceptClient(fd)
             \/ MarkInvalid \/ SendNothing \/ Send \/ SendFails \/ SendCrashes
    BY <1>4, TableUntouched DEF Poll, HandshakeFails, AcceptClient, MarkInvalid, SendNothing, Send, SendFails,
                                SendCrashes, Has
  <1>5. CASE \/ ReceiveNothing \/ ReceiveFails \/ Receive \/ ReadDone \/ UnknownCommand \/ Refuse
             \/ HandleAuthLoginGatherInfoPacket \/ RemoveLast \/ EndOfPoll
    BY <1>5, TableUntouched DEF ReceiveNothing, ReceiveFails, Receive, ReadDone, UnknownCommand, Refuse,
                                HandleAuthLoginGatherInfoPacket, RemoveLast, EndOfPoll, NextClient, Reading
  <1>6. CASE PollFails \/ Shutdown \/ Environment \/ UNCHANGED vars
    BY <1>6, TableUntouched DEF PollFails, Shutdown, Environment, ClientGoes, ClientSends, vars, polling
  <1> QED
    BY <1>1, <1>2, <1>3, <1>4, <1>5, <1>6 DEF Next, PollLoop

-----------------------------------------------------------------------------
(* Theorems *)

\* The variables have their types, whatever number of connections there was.
THEOREM TypeCorrect == Spec => []TypeOK
  <1>1. IInv => TypeOK
    BY DEF IInv, OtherTypes, Structures, TypeOK
  <1> QED
    BY <1>1, InitIInv, NextIInv, PTL DEF Spec

\* Entry i of poll_fds is always the one of the session at i in the list, so
\* that Poll serves and removes the session that had the event
\* (TCPSocketManager::Poll).
THEOREM IndexesStayAligned == Spec => []IndexesAligned
  <1>1. IInv => IndexesAligned
    BY DEF IInv
  <1> QED
    BY <1>1, InitIInv, NextIInv, PTL DEF Spec

\* The map of user names never points to a session that was removed, nor to
\* one of another name (TCPSocketManager::RegisterUsername, Poll).
THEOREM NamesStayLive == Spec => []NoDanglingName
  <1>1. IInv => NoDanglingName
    BY DEF IInv
  <1> QED
    BY <1>1, InitIInv, NextIInv, PTL DEF Spec
\* When the worker has caught up and no login is between its two requests,
\* after any logins, interleavings and dropped statements, active_sessions has
\* exactly the key of the last login to each account whose own two statements
\* were executed (AuthSession::HandleAuthLoginProofPacket, DatabaseWorker).
THEOREM TableIsSettled == Spec => []TableSettles
  <1>1. Init => LastLoginAhead
    <2>1. ASSUME Init PROVE pc # "insert" /\ queue = <<>> /\ DOMAIN <<>> = {} /\ \A u \in Registered : rows[u] = <<>> /\ lastKey[u] = 0
      BY <2>1 DEF Init
    <2> QED
      BY <2>1 DEF Init, LastLoginAhead, Recorded, Entering
  <1>2. IInv /\ IInv' /\ LastLoginAhead /\ [Next]_vars => LastLoginAhead'
    BY NextTable
  <1>3. LastLoginAhead => TableSettles
    <2>1. DOMAIN <<>> = {}
      OBVIOUS
    <2> QED
      BY <2>1 DEF LastLoginAhead, Entering, Recorded, InsertQueued, TableSettles
  <1> QED
    BY <1>1, <1>2, <1>3, InitIInv, NextIInv, PTL DEF Spec
=============================================================================
