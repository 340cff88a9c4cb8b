---------------------------- MODULE SingleServer ----------------------------
(***************************************************************************)
(* The earlier server at the root of the repository.  Its poll loop has no *)
(* timeout, removes broken sessions from its lists, keeps a map of user    *)
(* names, and its handlers query the database on the spot; only deletes,   *)
(* inserts and logs go through the worker.                                 *)
(*                                                                         *)
(* A message is a whole packet: one of which a part is missing waits, like *)
(* one that has not arrived.  Send through TLS sends a packet or nothing.  *)
(* "bye" is what ends a TLS stream, whose connection may stay a while: a   *)
(* close_notify, or a record that TLS rejects.                             *)
(***************************************************************************)
EXTENDS Integers, Sequences, SequencesExt, FiniteSets

CONSTANTS Users, Registered,
          Scenarios,    \* bound: what the clients may send, session by session
          Fds,          \* the handles the system gives to connections
          MaxSessions   \* bound on the connections that complete the handshake

Messages == [cmd : {"gather"}, user : Users, version : BOOLEAN]
            \cup [cmd : {"proof"}, right : BOOLEAN, fits : BOOLEAN] \cup [cmd : {"unknown", "bye"}]
SessionIds == 1 .. MaxSessions

ASSUME SingleAssumption ==
    /\ Registered \subseteq Users /\ "" \notin Users
    /\ Scenarios \subseteq [SessionIds -> Seq(Messages)] /\ Fds \subseteq Nat /\ MaxSessions \in Nat

VARIABLES pc, turn,     \* where Poll is; i of the loop over the clients
          toRemove,     \* the indices it collects
          sessions,     \* the AuthSessions, in the order of their creation
          list,         \* the connections the manager holds
          fds,          \* poll_fds without the listener: entry i is list[i]'s
          capacity,     \* of poll_fds, the listener included
          usernameMap,
          socketOf,     \* the session whose connection a handle is, or 0
          inbox, gone, sent, \* packets under way, clients that have left, what each has sent
          queue, rows,  \* the worker's queue, active_sessions
          \* History: keys drawn, the last one enqueued for each account, and the
          \* logins of which the worker dropped a statement.
          issued, lastKey, dropped
control == <<pc, turn, toRemove>>
polling == <<list, fds, capacity>>
clients == <<inbox, gone, sent>>
database == <<queue, rows, issued, lastKey, dropped>>
vars == <<control, sessions, polling, usernameMap, socketOf, clients, database>>

Init ==
    /\ pc = "poll" /\ turn = 1 /\ toRemove = {}
    /\ sessions = <<>> /\ list = <<>> /\ fds = <<>> /\ capacity = 1
    /\ usernameMap = [u \in Users |-> 0] /\ socketOf = [fd \in Fds |-> 0]
    /\ inbox = <<>> /\ gone = {} /\ sent = <<>>
    /\ queue = <<>> /\ rows = [u \in Registered |-> <<>>] /\ issued = 0 /\ lastKey = [u \in Registered |-> 0]
    /\ dropped = {}

-----------------------------------------------------------------------------
(* WSAPoll and the listener *)

\* A handle without a connection is invalid; a client that has left is seen
\* by reading, or as a hangup - always once this side has shut down, too.
Hangups == {h \in SUBSET gone : \A s \in gone : ~sessions[s].open => s \in h}
Events(entry, hup) ==
    LET s == socketOf[entry.fd]
    IN  IF s = 0 \/ s \in hup THEN {"err"}
        ELSE (IF entry.out THEN {"out"} ELSE {}) \cup (IF inbox[s] # <<>> \/ s \in gone THEN {"in"} ELSE {})

\* Poll waits until the listener or a client has an event.
Poll(incoming) ==
    /\ pc = "poll" /\ (incoming => Len(sessions) < MaxSessions)
    /\ \E hup \in Hangups :
          fds' = [i \in DOMAIN fds |-> [fds[i] EXCEPT !.revents = Events(fds[i], hup)]]
    /\ incoming \/ \E i \in DOMAIN fds : fds'[i].revents # {}
    /\ pc' = IF incoming THEN "accept" ELSE "clients"
    /\ turn' = 1 /\ toRemove' = {}
    /\ UNCHANGED <<sessions, list, capacity, usernameMap, socketOf, clients, database>>

\* An error of WSAPoll or of the listener stops the server.
PollFails ==
    /\ pc = "poll" /\ pc' = "shutdown"
    /\ UNCHANGED <<turn, toRemove, sessions, polling, usernameMap, socketOf, clients, database>>

HandshakeFails ==
    /\ pc = "accept" /\ pc' = "clients"
    /\ UNCHANGED <<turn, toRemove, sessions, polling, usernameMap, socketOf, clients, database>>

\* push_back: a full vector moves, and the pointers into it dangle (pfd = 0).
\* An erase moved no entry's storage but the content of it, so that a pointer
\* may also be to a later session's entry by now.
Reallocates == Len(fds) + 1 = capacity
Grown == IF capacity \div 2 > 1 THEN capacity + capacity \div 2 ELSE capacity + 1
AcceptClient(fd) ==
    /\ pc = "accept" /\ pc' = "clients" /\ socketOf[fd] = 0
    /\ LET kept == [i \in DOMAIN sessions |-> IF Reallocates THEN [sessions[i] EXCEPT !.pfd = 0] ELSE sessions[i]]
       IN  sessions' = Append(kept, [fd |-> fd, open |-> TRUE, pfd |-> Len(fds) + 1, deaf |-> FALSE,
                                     status |-> "GATHER_INFO", username |-> "", in |-> <<>>, out |-> 0])
    /\ list' = Append(list, Len(sessions) + 1)
    /\ fds' = Append(fds, [fd |-> fd, out |-> FALSE, revents |-> {}])
    /\ capacity' = IF Reallocates THEN Grown ELSE capacity
    /\ socketOf' = [socketOf EXCEPT ![fd] = Len(sessions) + 1]
    /\ inbox' = Append(inbox, <<>>) /\ sent' = Append(sent, <<>>)
    /\ UNCHANGED <<turn, toRemove, usernameMap, gone, database>>

-----------------------------------------------------------------------------
(* The loop over the clients *)

id == list[turn]
me == sessions[id]
Has(event) == pc = "clients" /\ turn <= Len(fds) /\ event \in fds[turn].revents
\* The write of the poll entry's events through m_pfd.
SetPollOut(s, pending) ==
    fds' = [i \in DOMAIN fds |-> IF i = sessions[s].pfd THEN [fds[i] EXCEPT !.out = pending] ELSE fds[i]]
Connected == me.open /\ socketOf[me.fd] = id

\* TCPSocket::Shutdown: the SSL object is freed, the handle stays.
Shut == [me EXCEPT !.open = FALSE]

\* Mutant: forgotten.
MarkInvalidNot ==
    /\ Has("err") /\ turn' = turn + 1
    /\ UNCHANGED <<pc, toRemove, sessions, polling, usernameMap, socketOf, clients, database>>
MarkInvalid ==
    /\ Has("err") /\ toRemove' = toRemove \cup {turn} /\ turn' = turn + 1
    /\ UNCHANGED <<pc, sessions, polling, usernameMap, socketOf, clients, database>>

\* Not writable, an empty queue, or the TLS layer waits: on to Receive.
SendNothing ==
    /\ pc = "clients" /\ turn <= Len(fds) /\ ~Has("err")
    /\ Has("out") => me.out = 0 \/ me.open
    /\ pc' = "receive"
    /\ UNCHANGED <<turn, toRemove, sessions, polling, usernameMap, socketOf, clients, database>>
Send ==
    /\ Has("out") /\ me.out > 0 /\ Connected
    /\ sessions' = [sessions EXCEPT ![id].out = @ - 1]
    /\ SetPollOut(id, me.out > 1)
    /\ pc' = "receive"
    /\ UNCHANGED <<turn, toRemove, list, capacity, usernameMap, socketOf, clients, database>>
\* The SSL errors Send and Receive return are positive: neither is taken for
\* a failure, the session is removed when the poll reports it.
SendFails ==
    /\ Has("out") /\ me.out > 0 /\ me.open /\ (~Connected \/ id \in gone)
    /\ sessions' = [sessions EXCEPT ![id] = Shut]
    /\ pc' = "receive"
    /\ UNCHANGED <<turn, toRemove, polling, usernameMap, socketOf, clients, database>>
\* Send does not look at `closed': OpenSSL gets a null SSL object.
SendCrashes ==
    /\ Has("out") /\ me.out > 0 /\ ~me.open
    /\ pc' = "crashed"
    /\ UNCHANGED <<turn, toRemove, sessions, polling, usernameMap, socketOf, clients, database>>

NextClient == pc' = "clients" /\ turn' = turn + 1 /\ UNCHANGED toRemove
ReceiveNothing ==
    /\ pc = "receive" /\ NextClient
    /\ UNCHANGED <<sessions, polling, usernameMap, socketOf, clients, database>>
ReceiveFails ==
    /\ pc = "receive" /\ "in" \in fds[turn].revents /\ me.open
    /\ \/ ~Connected \/ (id \in gone /\ inbox[id] = <<>>)
       \* A buffer without room is an error of SSL_read_ex, too.
       \/ inbox[id] # <<>> /\ (me.deaf \/ Head(inbox[id]).cmd = "bye")
    /\ sessions' = [sessions EXCEPT ![id] = Shut]
    /\ NextClient
    /\ UNCHANGED <<polling, usernameMap, socketOf, clients, database>>
Receive ==
    /\ pc = "receive" /\ "in" \in fds[turn].revents /\ Connected /\ ~me.deaf
    /\ \E n \in 1 .. Len(inbox[id]) :
          /\ \A i \in 1 .. n : inbox[id][i].cmd # "bye"
          /\ sessions' = [sessions EXCEPT ![id].in = @ \o SubSeq(inbox[id], 1, n)]
          /\ inbox' = [inbox EXCEPT ![id] = SubSeq(@, n + 1, Len(@))]
    /\ pc' = "reading"
    /\ UNCHANGED <<turn, toRemove, polling, usernameMap, socketOf, gone, sent, database>>

-----------------------------------------------------------------------------
(* AuthSession::ReadCallback, one packet at a time *)

Expected == [gather |-> "GATHER_INFO", proof |-> "LOGIN_ATTEMPT"]
packet == Head(me.in)
Reading(cmd) == pc = "reading" /\ me.in # <<>> /\ packet.cmd = cmd

ReadDone ==
    /\ pc = "reading" /\ me.in = <<>> /\ NextClient
    /\ UNCHANGED <<sessions, polling, usernameMap, socketOf, clients, database>>
\* Clear leaves the buffer without storage to receive into.
UnknownCommand ==
    /\ Reading("unknown") /\ NextClient
    /\ sessions' = [sessions EXCEPT ![id].in = <<>>, ![id].deaf = TRUE]
    /\ UNCHANGED <<polling, usernameMap, socketOf, clients, database>>
\* The wrong status, or too big: Shutdown and Close.
Refuse ==
    /\ Reading("gather") \/ Reading("proof")
    /\ me.status # Expected[packet.cmd] \/ (packet.cmd = "proof" /\ ~packet.fits)
    /\ sessions' = [sessions EXCEPT ![id] = [Shut EXCEPT !.in = <<>>]]
    /\ socketOf' = [socketOf EXCEPT ![me.fd] = 0]
    /\ NextClient
    /\ UNCHANGED <<polling, usernameMap, clients, database>>

\* QueuePacket of the reply, and ReadCompleted.
Answered(session) ==
    /\ sessions' = [sessions EXCEPT ![id] = [session EXCEPT !.in = Tail(@), !.out = @ + 1]]
    /\ SetPollOut(id, TRUE)
    /\ UNCHANGED <<turn, toRemove, list, capacity, socketOf, clients>>

\* The account is looked up at once; whether the name is active is asked but
\* not used, and the map's earlier entry is overwritten.
HandleAuthLoginGatherInfoPacket ==
    /\ Reading("gather") /\ me.status = "GATHER_INFO"
    /\ IF packet.user \in Registered /\ packet.version
       THEN /\ Answered([me EXCEPT !.status = "LOGIN_ATTEMPT", !.username = packet.user])
            /\ usernameMap' = [usernameMap EXCEPT ![packet.user] = id]
       ELSE Answered(me) /\ UNCHANGED usernameMap
    /\ UNCHANGED <<pc, database>>

\* The status stays LOGIN_ATTEMPT after every proof.
WrongPassword ==
    /\ Reading("proof") /\ me.status = "LOGIN_ATTEMPT" /\ packet.fits /\ ~packet.right
    /\ queue' = Append(queue, [op |-> "log"])
    /\ Answered(me)
    /\ UNCHANGED <<pc, usernameMap, rows, issued, lastKey, dropped>>
\* Mutant: the previous sessions of the account are not deleted.
RightPasswordKeepsRows ==
    /\ Reading("proof") /\ me.status = "LOGIN_ATTEMPT" /\ packet.fits /\ packet.right
    /\ issued' = issued + 1 /\ pc' = "insert"
    /\ UNCHANGED <<turn, toRemove, sessions, polling, usernameMap, socketOf, clients, queue, rows, lastKey, dropped>>
\* A key is drawn and the delete enqueued; the worker may run it before the
\* insert is enqueued. The key in it is history: the login it belongs to.
RightPassword ==
    /\ Reading("proof") /\ me.status = "LOGIN_ATTEMPT" /\ packet.fits /\ packet.right
    /\ issued' = issued + 1 /\ pc' = "insert"
    /\ queue' = Append(queue, [op |-> "delete", user |-> me.username, key |-> issued'])
    /\ UNCHANGED <<turn, toRemove, sessions, polling, usernameMap, socketOf, clients, rows, lastKey, dropped>>
EnqueueInsert ==
    /\ pc = "insert" /\ pc' = "reading"
    /\ queue' = Append(queue, [op |-> "insert", user |-> me.username, key |-> issued])
    /\ lastKey' = [lastKey EXCEPT ![me.username] = issued]
    /\ Answered(me)
    /\ UNCHANGED <<usernameMap, rows, issued, dropped>>

-----------------------------------------------------------------------------
(* The removal of the sockets in toRemove, from the last one *)

\* Mutants: the index of the poll entry is used for the list, the name stays.
RemoveSessionOffByOne(i) ==
    /\ toRemove' = toRemove \ {i}
    /\ socketOf' = [socketOf EXCEPT ![sessions[list[i]].fd] = 0]
    /\ usernameMap' = [u \in Users |-> IF u = sessions[list[i]].username THEN 0 ELSE usernameMap[u]]
    /\ sessions' = [sessions EXCEPT ![list[i]].open = FALSE]
    /\ fds' = RemoveAt(fds, i) /\ list' = RemoveAt(list, IF i < Len(list) THEN i + 1 ELSE i)
RemoveSessionKeepsName(i) ==
    /\ toRemove' = toRemove \ {i}
    /\ socketOf' = [socketOf EXCEPT ![sessions[list[i]].fd] = 0]
    /\ sessions' = [sessions EXCEPT ![list[i]].open = FALSE]
    /\ fds' = RemoveAt(fds, i) /\ list' = RemoveAt(list, i) /\ UNCHANGED usernameMap
RemoveSession(i) ==
    /\ toRemove' = toRemove \ {i}
    \* Close, here and in the destructor, closes the handle's number whoever has it by now.
    /\ socketOf' = [socketOf EXCEPT ![sessions[list[i]].fd] = 0]
    /\ usernameMap' = [u \in Users |-> IF u = sessions[list[i]].username THEN 0 ELSE usernameMap[u]]
    /\ sessions' = [sessions EXCEPT ![list[i]].open = FALSE]
    /\ fds' = RemoveAt(fds, i) /\ list' = RemoveAt(list, i)
RemoveLast ==
    /\ pc = "clients" /\ turn > Len(fds)
    /\ \E i \in toRemove : (\A j \in toRemove : j <= i) /\ RemoveSession(i)
    /\ UNCHANGED <<pc, turn, capacity, clients, database>>
EndOfPoll ==
    /\ pc = "clients" /\ turn > Len(fds) /\ toRemove = {}
    /\ pc' = "poll" /\ turn' = 1
    /\ fds' = [i \in DOMAIN fds |-> [fds[i] EXCEPT !.revents = {}]] \* the next poll sets them
    /\ UNCHANGED <<toRemove, sessions, list, capacity, usernameMap, socketOf, clients, database>>

-----------------------------------------------------------------------------
(* The worker, the end, and the clients *)

\* A statement that throws is logged and dropped.
WorkerExecutes ==
    /\ pc # "crashed" /\ queue # <<>>
    /\ queue' = Tail(queue)
    /\ LET r == Head(queue)
       IN  \/ /\ rows' = CASE r.op = "delete" -> [rows EXCEPT ![r.user] = <<>>]
                            [] r.op = "insert" -> [rows EXCEPT ![r.user] = Append(@, r.key)]
                            [] r.op = "log" -> rows
             /\ UNCHANGED dropped
          \/ /\ dropped' = IF r.op = "log" THEN dropped ELSE dropped \cup {r.key}
             /\ UNCHANGED rows
    /\ UNCHANGED <<control, sessions, polling, usernameMap, socketOf, clients, issued, lastKey>>

\* Stop and Join: the worker ends with an empty queue.
Shutdown ==
    /\ pc = "shutdown" /\ queue = <<>> /\ pc' = "down"
    /\ UNCHANGED <<turn, toRemove, sessions, polling, usernameMap, socketOf, clients, database>>

Attached(s) == pc \notin {"shutdown", "down", "crashed"} /\ s \notin gone /\ socketOf[sessions[s].fd] = s
ClientSends(s, m) ==
    /\ Attached(s)
    /\ inbox' = [inbox EXCEPT ![s] = Append(@, m)] /\ sent' = [sent EXCEPT ![s] = Append(@, m)]
    /\ \E scenario \in Scenarios : \A t \in DOMAIN sent : IsPrefix(sent'[t], scenario[t])
    /\ UNCHANGED <<control, sessions, polling, usernameMap, socketOf, gone, database>>
ClientGoes(s) ==
    /\ Attached(s) /\ gone' = gone \cup {s}
    /\ UNCHANGED <<control, sessions, polling, usernameMap, socketOf, inbox, sent, database>>

PollLoop ==
    \/ \E incoming \in BOOLEAN : Poll(incoming)
    \/ HandshakeFails \/ \E fd \in Fds : AcceptClient(fd)
    \/ MarkInvalid \/ SendNothing \/ Send \/ SendFails \/ SendCrashes
    \/ ReceiveNothing \/ ReceiveFails \/ Receive
    \/ ReadDone \/ UnknownCommand \/ Refuse
    \/ HandleAuthLoginGatherInfoPacket \/ WrongPassword \/ RightPassword \/ EnqueueInsert
    \/ RemoveLast \/ EndOfPoll
Environment == \E s \in DOMAIN sessions : ClientGoes(s) \/ \E m \in Messages : ClientSends(s, m)
Next == PollLoop \/ PollFails \/ WorkerExecutes \/ Shutdown \/ Environment

\* Both threads run, and a handshake that began ends; a client owes nothing.
Spec == Init /\ [][Next]_vars /\ WF_vars(PollLoop) /\ WF_vars(WorkerExecutes) /\ WF_vars(Shutdown)

-----------------------------------------------------------------------------
(* Properties *)

Session == [fd : Fds, open : BOOLEAN, pfd : Nat, deaf : BOOLEAN, status : {"GATHER_INFO", "LOGIN_ATTEMPT"},
            username : Users \cup {""}, in : Seq(Messages), out : Nat]
Entry == [fd : Fds, out : BOOLEAN, revents : SUBSET {"err", "in", "out"}]
Request == [op : {"log"}] \cup [op : {"delete", "insert"}, user : Registered, key : Nat]
\* Type invariant.
TypeOK ==
    /\ pc \in {"poll", "accept", "clients", "receive", "reading", "insert", "shutdown", "down", "crashed"}
    /\ turn \in Nat \ {0} /\ toRemove \subseteq DOMAIN list
    /\ sessions \in Seq(Session) /\ list \in Seq(DOMAIN sessions)
    /\ fds \in Seq(Entry) /\ capacity \in Nat
    /\ usernameMap \in [Users -> {0} \cup DOMAIN sessions] /\ socketOf \in [Fds -> {0} \cup DOMAIN sessions]
    /\ inbox \in [DOMAIN sessions -> Seq(Messages)] /\ sent \in [DOMAIN sessions -> Seq(Messages)]
    /\ gone \subseteq DOMAIN sessions
    /\ queue \in Seq(Request) /\ rows \in [Registered -> Seq(Nat)]
    /\ issued \in Nat /\ lastKey \in [Registered -> Nat] /\ dropped \subseteq Nat

\* TCPSocketManager.cpp:143: "i is the fds index, but in connection list it's
\* i-1" - after any accepts and removals, so that no event reaches another session.
IndexesAligned ==
    Len(fds) = Len(list) /\ \A i \in DOMAIN list : fds[i].fd = sessions[list[i]].fd

\* The map holds raw pointers: each is to a session the list still owns, the
\* one that registered the name, however logins to it and removals interleave.
NoDanglingName ==
    \A u \in Users : usernameMap[u] # 0 =>
        usernameMap[u] \in ToSet(list) /\ sessions[usernameMap[u]].username = u

\* When the worker has caught up and no login is between its delete and its
\* insert - after a shutdown too - the table has, for each account, the key of
\* the last accepted proof alone, unless the worker dropped one of that login's
\* own two statements: whatever failed before it is repaired by its delete, and
\* nothing of an earlier login comes after it, however the worker runs in between.
TableSettles ==
    queue = <<>> /\ pc # "insert" =>
        \A u \in Registered : lastKey[u] \notin dropped =>
            rows[u] = IF lastKey[u] = 0 THEN <<>> ELSE <<lastKey[u]>>

\* A session whose handle is closed leaves the list, unless a new connection
\* gets the handle first; without a timeout nothing but the poll can find it.
ClosedIsRemoved ==
    \A s \in SessionIds :
        (s \in ToSet(list) /\ socketOf[sessions[s].fd] = 0)
            ~> (s \notin ToSet(list) \/ socketOf[sessions[s].fd] # 0 \/ pc \in {"shutdown", "down", "crashed"})
=============================================================================
