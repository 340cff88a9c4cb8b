------------------------------ MODULE AuthServer ------------------------------
(***************************************************************************)
(* The main thread of NECROAuth: the loop of TCPSocketManager::Poll, the   *)
(* AuthSessions it serves and the database requests they make, next to the *)
(* worker thread and the clients.  Each turn of the loop runs the          *)
(* callbacks of the completed requests, polls, accepts at most one         *)
(* connection and walks the client sockets.                                *)
(*                                                                         *)
(* A message stands for a whole packet; which of its bytes have arrived is *)
(* the flag `half'.  The storage of the buffers is in MessageBuffer, a     *)
(* Send through TLS sends a whole packet or nothing.  IVs and greetcodes   *)
(* are left out.                                                           *)
(***************************************************************************)
EXTENDS Integers, Sequences, SequencesExt

CONSTANTS Users, Registered, Outcomes, MaxQueue, MaxKeys,  \* see LoginDatabase
          ClientMessages,  \* the packets a client can send
          Fds,             \* socket handles the system can hand out
          MaxSessions,     \* bound on the connections that complete the handshake
          MaxMessages      \* bound on the packets the clients send

\* Packets, as the handlers tell them apart.  size is the header's packetSize
\* plus the size field of the packet.
Gathers  == [cmd : {"gather"}, user : Users, version : BOOLEAN, size : Nat]
Proofs   == [cmd : {"proof"}, right : BOOLEAN, size : Nat]
Unknowns == [cmd : {"unknown"}]

ASSUME MessagesAssumption == ClientMessages \subseteq Gathers \cup Proofs \cup Unknowns
ASSUME FdsAssumption      == Fds \subseteq Nat \ {0}
ASSUME LimitsAssumption   == MaxSessions \in Nat /\ MaxMessages \in Nat
\* The assumptions of LoginDatabase.
ASSUME DatabaseAssumption == /\ Registered \subseteq Users
                             /\ "done" \in Outcomes /\ Outcomes \subseteq {"done", "dropped"}
                             /\ MaxQueue \in Nat /\ MaxKeys \in Nat

\* AuthCodes.h
S_MAX_ACCEPTED_GATHER_INFO_SIZE      == 24
S_MAX_ACCEPTED_AUTH_LOGIN_PROOF_SIZE == 25

SessionIds == 1..MaxSessions

VARIABLES pc,         \* where the main thread is
          turn,       \* i of the loop over the clients: an index of pollFds
          batch,      \* the local queue `requests' of Poll
          sessions,   \* the AuthSession objects, in the order of their creation
          list,       \* m_list
          pollFds,    \* m_poll_fds; entry 1 is the listener
          capacity,   \* the capacity of the vector m_poll_fds
          socketOf,   \* the session whose connection a handle stands for, or 0
          inbox,      \* packets on their way to each session
          gone,       \* sessions whose client has closed the connection
          sent,       \* packets sent by clients so far
          dbQueue, responses, rows, inserting, lastKey, issued  \* see LoginDatabase

Db == INSTANCE LoginDatabase WITH Sessions <- SessionIds

dbVars     == <<dbQueue, responses, rows, inserting, lastKey, issued>>
clientVars == <<inbox, gone, sent>>
pollVars   == <<list, pollFds, capacity>>
vars == <<pc, turn, batch, sessions, pollVars, socketOf, clientVars, dbVars>>

Pcs == {"start", "callbacks", "poll", "accept", "clients", "receive", "reading",
        "insert", "shutdown", "down", "crashed"}

Init == /\ pc = "start" /\ turn = 2 /\ batch = <<>>
        /\ sessions = <<>> /\ list = <<>>
        /\ pollFds = <<[fd |-> 0, out |-> FALSE, revents |-> {}]>> /\ capacity = 1
        /\ socketOf = [fd \in Fds |-> 0]
        /\ inbox = <<>> /\ gone = {} /\ sent = 0
        /\ Db!DbInit

(***************************************************************************)
(* TCPSocket, as the sessions use it.                                      *)
(***************************************************************************)

\* Only a successful proof's reply carries a key.
Reply(result) == [result |-> result, key |-> 0]

s0 == list[turn - 1]     \* the session at the loop's index
me == sessions[s0]

\* Mutant of QueuePacket: the events are not updated.
QueuePacketUnpolled(s, session, reply) ==
  /\ sessions' = [sessions EXCEPT ![s] = [session EXCEPT !.outQueue = Append(@, reply)]]
  /\ UNCHANGED pollFds
\* Stores the session with the reply queued and polls for POLLOUT, unless
\* m_pfd dangles (pfd = 0): then the write goes to freed memory and is lost.
QueuePacket(s, session, reply) ==
  /\ sessions' = [sessions EXCEPT ![s] = [session EXCEPT !.outQueue = Append(@, reply)]]
  /\ pollFds' = [i \in DOMAIN pollFds |->
                   IF i = session.pfd THEN [pollFds[i] EXCEPT !.out = TRUE] ELSE pollFds[i]]

\* Close frees the SSL object and closes the handle, whoever it belongs to
\* by now.  The session stays where it is.
Close(s) ==
  /\ sessions' = [sessions EXCEPT ![s].ssl = "freed"]
  /\ socketOf' = [socketOf EXCEPT ![sessions[s].fd] = 0]

Connected(s) == sessions[s].ssl = "open" /\ socketOf[sessions[s].fd] = s

NextClient == pc' = "clients" /\ turn' = turn + 1

(***************************************************************************)
(* The callbacks of completed requests, at the start of Poll.              *)
(***************************************************************************)

GetResponses ==
  /\ pc = "start"
  /\ batch' = responses
  /\ Db!Collect
  /\ pc' = "callbacks"
  /\ UNCHANGED <<turn, sessions, pollVars, socketOf, clientVars>>

\* Mutants of LookedUp: the status changes whatever the answer is; a name
\* without a row is taken for an account.
LookedUpAlways(session, user) ==
  [session EXCEPT !.status = "LOGIN_ATTEMPT",
                  !.account = IF user \in Registered /\ session.version THEN user ELSE @]
LookedUpWithoutRow(session, user) ==
  IF session.version THEN [session EXCEPT !.status = "LOGIN_ATTEMPT", !.account = user] ELSE session
\* DBCallback_AuthLoginGatherInfoPacket: the account comes from the row, the
\* version from the session as it is now.
LookedUp(session, user) ==
  IF user \in Registered /\ session.version
  THEN [session EXCEPT !.status = "LOGIN_ATTEMPT", !.account = user]
  ELSE session
GatherReply(session, user) ==
  Reply(IF user \notin Registered THEN "unknownAccount"
        ELSE IF session.version THEN "gatherSuccess" ELSE "wrongVersion")

RunCallback ==
  /\ pc = "callbacks" /\ batch # <<>>
  /\ LET s    == Head(batch).session
         user == Head(batch).user
     IN  QueuePacket(s, LookedUp(sessions[s], user), GatherReply(sessions[s], user))
  /\ batch' = Tail(batch)
  /\ UNCHANGED <<pc, turn, list, capacity, socketOf, clientVars, dbVars>>

CallbacksDone ==
  /\ pc = "callbacks" /\ batch = <<>>
  /\ pc' = "poll"
  /\ UNCHANGED <<turn, batch, sessions, pollVars, socketOf, clientVars, dbVars>>

(***************************************************************************)
(* WSAPoll and the listener.                                               *)
(***************************************************************************)

\* The events of a client's entry.  A closed handle is invalid; a client
\* that has gone is reported as readable or, if in hup, as disconnected.
Events(entry, hup) ==
  LET s == socketOf[entry.fd]
  IN  IF s = 0 \/ s \in hup THEN {"err"}
      ELSE (IF entry.out THEN {"out"} ELSE {})
           \cup (IF inbox[s] # <<>> \/ s \in gone THEN {"in"} ELSE {})

Polled(hup, incoming) ==
  [i \in DOMAIN pollFds |->
     [pollFds[i] EXCEPT !.revents = IF i = 1 THEN (IF incoming THEN {"in"} ELSE {})
                                    ELSE Events(pollFds[i], hup)]]

\* Mutant of Poll: it waits for an event as long as it takes.
PollForever(incoming) ==
  /\ pc = "poll"
  /\ incoming => Len(sessions) < MaxSessions
  /\ \E hup \in SUBSET gone : pollFds' = Polled(hup, incoming)
  /\ \E i \in DOMAIN pollFds : pollFds'[i].revents # {}
  /\ pc' = "accept" /\ turn' = 2
  /\ UNCHANGED <<batch, sessions, list, capacity, socketOf, clientVars, dbVars>>
\* The poll returns with the events there are, or empty-handed after the timeout.
Poll(incoming) ==
  /\ pc = "poll"
  /\ incoming => Len(sessions) < MaxSessions
  /\ \E hup \in SUBSET gone : pollFds' = Polled(hup, incoming)
  /\ pc' = IF \A i \in DOMAIN pollFds : pollFds'[i].revents = {} THEN "start" ELSE "accept"
  /\ turn' = 2
  /\ UNCHANGED <<batch, sessions, list, capacity, socketOf, clientVars, dbVars>>

\* WSAPoll fails, or reports an error of the listener: Poll returns -1 and
\* Update leaves its loop.
PollFails ==
  /\ pc = "poll"
  /\ pc' = "shutdown"
  /\ UNCHANGED <<turn, batch, sessions, pollVars, socketOf, clientVars, dbVars>>

\* No connection to accept, or a handshake that fails: the new socket, if
\* there was one, is destroyed.
NoNewClient ==
  /\ pc = "accept"
  /\ pc' = "clients"
  /\ UNCHANGED <<turn, batch, sessions, pollVars, socketOf, clientVars, dbVars>>

\* push_back on a full vector moves it to storage for half as much again.
Reallocates == Len(pollFds) = capacity
Grown       == IF capacity \div 2 > 1 THEN capacity + capacity \div 2 ELSE capacity + 1

\* The handshake succeeded: the session joins both lists.  A reallocation
\* leaves the m_pfd of every earlier session dangling.
AcceptClient(fd) ==
  /\ pc = "accept" /\ pollFds[1].revents = {"in"} /\ Len(sessions) < MaxSessions
  /\ socketOf[fd] = 0
  /\ LET s == Len(sessions) + 1
         earlier == [i \in DOMAIN sessions |->
                       IF Reallocates THEN [sessions[i] EXCEPT !.pfd = 0] ELSE sessions[i]]
     IN  /\ sessions' = Append(earlier,
              [fd |-> fd, ssl |-> "open", pfd |-> Len(pollFds) + 1, status |-> "GATHER_INFO",
               user |-> "", version |-> FALSE, account |-> "", sessionKey |-> 0, inBuffer |-> <<>>,
               half |-> FALSE, deaf |-> FALSE, outQueue |-> <<>>])
         /\ list' = Append(list, s)
         /\ socketOf' = [socketOf EXCEPT ![fd] = s]
  /\ pollFds' = Append(pollFds, [fd |-> fd, out |-> FALSE, revents |-> {}])
  /\ capacity' = IF Reallocates THEN Grown ELSE capacity
  /\ inbox' = Append(inbox, <<>>)
  /\ pc' = "clients"
  /\ UNCHANGED <<turn, batch, gone, sent, dbVars>>

(***************************************************************************)
(* The loop over the clients.                                              *)
(***************************************************************************)

AtClient(event) == /\ pc = "clients" /\ turn <= Len(pollFds)
                   /\ event \in pollFds[turn].revents

\* Mutant of EndOfPoll: the sockets in toRemove are removed after all,
\* though a request may be on its way with a callback to one of them.
EndOfPollRemoves ==
  /\ pc = "clients" /\ turn > Len(pollFds)
  /\ LET valid(i) == "err" \notin pollFds[i].revents
         kept == SelectSeq([i \in 1..Len(pollFds) |-> i], valid)
     IN  /\ pollFds' = [i \in 1..Len(kept) |-> pollFds[kept[i]]]
         /\ list' = [i \in 1..(Len(kept) - 1) |-> list[kept[i + 1] - 1]]
  /\ pc' = "start" /\ turn' = 2
  /\ UNCHANGED <<batch, sessions, capacity, socketOf, clientVars, dbVars>>
\* toRemove is discarded.
EndOfPoll ==
  /\ pc = "clients" /\ turn > Len(pollFds)
  /\ pc' = "start" /\ turn' = 2
  /\ UNCHANGED <<batch, sessions, pollVars, socketOf, clientVars, dbVars>>

SkipInvalid ==
  /\ AtClient("err")
  /\ NextClient
  /\ UNCHANGED <<batch, sessions, pollVars, socketOf, clientVars, dbVars>>

\* Not writable, nothing in the queue, or the TLS layer wants to wait.
SendNothing ==
  /\ pc = "clients" /\ turn <= Len(pollFds) /\ "err" \notin pollFds[turn].revents
  /\ "out" \in pollFds[turn].revents => me.outQueue = <<>> \/ me.ssl = "open"
  /\ pc' = "receive"
  /\ UNCHANGED <<turn, batch, sessions, pollVars, socketOf, clientVars, dbVars>>

SendPacket ==
  /\ AtClient("out") /\ me.outQueue # <<>> /\ me.ssl = "open" /\ socketOf[me.fd] # 0
  /\ sessions' = [sessions EXCEPT ![s0].outQueue = Tail(@)]
  /\ pollFds' = [i \in DOMAIN pollFds |->
                   IF i = me.pfd THEN [pollFds[i] EXCEPT !.out = Len(me.outQueue) > 1]
                   ELSE pollFds[i]]
  /\ pc' = "receive"
  /\ UNCHANGED <<turn, batch, list, capacity, socketOf, clientVars, dbVars>>

\* The connection is lost, the handle is somebody else's by now, or the SSL
\* object is freed.  The SSL error that Send returns is positive: Receive
\* follows.
SendFails ==
  /\ AtClient("out") /\ me.outQueue # <<>> /\ (~Connected(s0) \/ s0 \in gone)
  /\ Close(s0)
  /\ pc' = "receive"
  /\ UNCHANGED <<turn, batch, pollVars, clientVars, dbVars>>

\* OpenSSL dereferences the null SSL object, or (in the versions that check
\* it) returns the error that SendFails and ReceiveFails stand for.
SslCrash ==
  /\ \/ AtClient("out") /\ me.outQueue # <<>>
     \/ pc = "receive" /\ "in" \in pollFds[turn].revents
  /\ me.ssl = "freed"
  /\ pc' = "crashed"
  /\ UNCHANGED <<turn, batch, sessions, pollVars, socketOf, clientVars, dbVars>>

\* Not readable, the TLS record is not complete, or the buffer has no room.
ReceiveNothing ==
  /\ pc = "receive"
  /\ "in" \in pollFds[turn].revents => me.ssl = "open"
  /\ NextClient
  /\ UNCHANGED <<batch, sessions, pollVars, socketOf, clientVars, dbVars>>

\* The client has closed the connection, or one of the reasons of SendFails.
ReceiveFails ==
  /\ pc = "receive" /\ "in" \in pollFds[turn].revents
  /\ ~Connected(s0) \/ (s0 \in gone /\ inbox[s0] = <<>>)
  /\ Close(s0)
  /\ NextClient
  /\ UNCHANGED <<batch, pollVars, clientVars, dbVars>>

\* A record with n packets is read; of the last one, only a part if split.
\* The rest of a packet that was read in part is still at the head of inbox.
Receive(n, split) ==
  /\ pc = "receive" /\ "in" \in pollFds[turn].revents
  /\ Connected(s0) /\ ~me.deaf /\ n <= Len(inbox[s0])
  /\ ~(me.half /\ split /\ n = 1)
  /\ LET read == SubSeq(inbox[s0], IF me.half THEN 2 ELSE 1, n)
     IN  sessions' = [sessions EXCEPT ![s0].inBuffer = @ \o read, ![s0].half = split]
  /\ inbox' = [inbox EXCEPT ![s0] = SubSeq(@, IF split THEN n ELSE n + 1, Len(@))]
  /\ pc' = "reading"
  /\ UNCHANGED <<turn, batch, pollVars, socketOf, gone, sent, dbVars>>

(***************************************************************************)
(* AuthSession::ReadCallback, one packet of the buffer at a time.          *)
(***************************************************************************)

packet  == Head(me.inBuffer)
IsHalf  == me.half /\ Len(me.inBuffer) = 1
Reading(cmd, status) == /\ pc = "reading" /\ me.inBuffer # <<>>
                        /\ packet.cmd = cmd /\ me.status = status
Expected == [gather |-> "GATHER_INFO", proof |-> "LOGIN_ATTEMPT"]

\* Nothing left, or the packet is not complete: a short receive.
ReadDone ==
  /\ pc = "reading"
  /\ IF me.inBuffer = <<>> THEN TRUE
     ELSE IsHalf /\ packet.cmd # "unknown" /\ Expected[packet.cmd] = me.status
  /\ NextClient
  /\ UNCHANGED <<batch, sessions, pollVars, socketOf, clientVars, dbVars>>

\* Clear leaves the buffer without storage, and EnlargeBufferIfNeeded adds
\* half of nothing: the session never receives again.
UnknownCommand ==
  /\ pc = "reading" /\ me.inBuffer # <<>> /\ packet.cmd = "unknown"
  /\ sessions' = [sessions EXCEPT ![s0].inBuffer = <<>>, ![s0].half = FALSE, ![s0].deaf = TRUE]
  /\ NextClient
  /\ UNCHANGED <<batch, pollVars, socketOf, clientVars, dbVars>>

StatusMismatch ==
  /\ pc = "reading" /\ me.inBuffer # <<>> /\ packet.cmd # "unknown"
  /\ me.status # Expected[packet.cmd]
  /\ Close(s0)
  /\ NextClient
  /\ UNCHANGED <<batch, pollVars, clientVars, dbVars>>

\* Both kinds of packet are compared with the limit of the first.
TooBig ==
  /\ pc = "reading" /\ me.inBuffer # <<>> /\ packet.cmd # "unknown"
  /\ me.status = Expected[packet.cmd]
  /\ packet.size > S_MAX_ACCEPTED_GATHER_INFO_SIZE
  /\ Close(s0)
  /\ NextClient
  /\ UNCHANGED <<batch, pollVars, clientVars, dbVars>>

Complete == ~IsHalf /\ packet.size <= S_MAX_ACCEPTED_GATHER_INFO_SIZE

HandleAuthLoginGatherInfoPacket ==
  /\ Reading("gather", "GATHER_INFO") /\ Complete
  /\ sessions' = [sessions EXCEPT ![s0].user = packet.user, ![s0].version = packet.version,
                                  ![s0].inBuffer = Tail(@)]
  /\ Db!EnqueueSelect(s0, packet.user)
  /\ UNCHANGED <<pc, turn, batch, pollVars, socketOf, clientVars>>

WrongPassword ==
  /\ Reading("proof", "LOGIN_ATTEMPT") /\ Complete /\ ~packet.right
  /\ Db!EnqueueLog(me.user)
  /\ QueuePacket(s0, [me EXCEPT !.inBuffer = Tail(@)], Reply("proofFailed"))
  /\ UNCHANGED <<pc, turn, batch, list, capacity, socketOf, clientVars>>

\* Mutant of RightPassword: the insert is enqueued first.
RightPasswordInsertFirst ==
  /\ Reading("proof", "LOGIN_ATTEMPT") /\ Complete /\ packet.right
  /\ issued' = issued + 1
  /\ dbQueue' = Append(dbQueue, Db!Insert(me.account, issued'))
  /\ inserting' = Db!Delete(me.account)
  /\ pc' = "insert"
  /\ UNCHANGED <<turn, batch, sessions, pollVars, socketOf, clientVars, responses, rows, lastKey>>
RightPassword ==
  /\ Reading("proof", "LOGIN_ATTEMPT") /\ Complete /\ packet.right
  /\ Db!EnqueueDelete(me.account)
  /\ pc' = "insert"
  /\ UNCHANGED <<turn, batch, sessions, pollVars, socketOf, clientVars>>

NewSession ==
  /\ pc = "insert"
  /\ Db!EnqueueInsert
  /\ QueuePacket(s0, [me EXCEPT !.inBuffer = Tail(@), !.sessionKey = issued],
                 [result |-> "proofSuccess", key |-> issued])
  /\ pc' = "reading"
  /\ UNCHANGED <<turn, batch, list, capacity, socketOf, clientVars>>

\* The direct query fails.  LoginDatabase::Execute then ends without a
\* return value; what its caller does with it is undefined, and taken as fatal.
PasswordQueryFails ==
  /\ Reading("proof", "LOGIN_ATTEMPT") /\ Complete /\ "dropped" \in Outcomes
  /\ pc' = "crashed"
  /\ UNCHANGED <<turn, batch, sessions, pollVars, socketOf, clientVars, dbVars>>

(***************************************************************************)
(* The worker, the end of the server, and the clients.                     *)
(***************************************************************************)

WorkerFinishes ==
  /\ pc \notin {"down", "crashed"}
  /\ \E outcome \in Outcomes : Db!Finish(outcome)
  /\ UNCHANGED <<pc, turn, batch, sessions, pollVars, socketOf, clientVars>>

\* Server::Shutdown: Stop and Join of the worker return when its queue is empty.
Shutdown ==
  /\ pc = "shutdown" /\ dbQueue = <<>>
  /\ pc' = "down"
  /\ UNCHANGED <<turn, batch, sessions, pollVars, socketOf, clientVars, dbVars>>

ClientSends(s, message) ==
  /\ pc \notin {"down", "crashed"} /\ sent < MaxMessages
  /\ s \notin gone /\ socketOf[sessions[s].fd] = s
  /\ inbox' = [inbox EXCEPT ![s] = Append(@, message)]
  /\ sent' = sent + 1
  /\ UNCHANGED <<pc, turn, batch, sessions, pollVars, socketOf, gone, dbVars>>

ClientGoes(s) ==
  /\ pc \notin {"down", "crashed"}
  /\ s \notin gone /\ socketOf[sessions[s].fd] = s
  /\ gone' = gone \cup {s}
  /\ UNCHANGED <<pc, turn, batch, sessions, pollVars, socketOf, inbox, sent, dbVars>>

\* What involves no client but those that have joined.
Serve == \/ GetResponses \/ RunCallback \/ CallbacksDone
         \/ EndOfPoll \/ SkipInvalid
         \/ SendNothing \/ SendFails
         \/ ReceiveNothing \/ ReceiveFails
         \/ (\E n \in 1..MaxMessages, split \in BOOLEAN : Receive(n, split))
         \/ ReadDone \/ UnknownCommand \/ StatusMismatch \/ TooBig
         \/ HandleAuthLoginGatherInfoPacket \/ WrongPassword \/ RightPassword \/ NewSession

PollLoop == \/ Serve
            \/ (\E incoming \in BOOLEAN : Poll(incoming))
            \/ NoNewClient \/ (\E fd \in Fds : AcceptClient(fd))
            \/ SendPacket

Failure == PollFails \/ SslCrash \/ PasswordQueryFails

Environment == \E s \in DOMAIN sessions : ClientGoes(s) \/ \E m \in ClientMessages : ClientSends(s, m)

Next == PollLoop \/ Failure \/ WorkerFinishes \/ Shutdown \/ Environment

\* The two threads run.  A handshake that began ends (the code waits for it
\* in a loop), and a socket that stays connected becomes writable time and
\* again.  Nothing obliges a client to send or to leave.
Fairness == /\ WF_vars(PollLoop)
            /\ WF_vars(WorkerFinishes)
            /\ WF_vars(Shutdown)
            /\ SF_vars(SendPacket)

Spec == Init /\ [][Next]_vars /\ Fairness

(***************************************************************************)
(* Properties.                                                             *)
(***************************************************************************)

Messages == ClientMessages
Results  == {"unknownAccount", "gatherSuccess", "wrongVersion", "proofFailed", "proofSuccess"}
Replies  == [result : Results, key : 0..MaxKeys]
SessionObjects ==
  [fd : Fds, ssl : {"open", "freed"}, pfd : 0..(MaxSessions + 1),
   status : {"GATHER_INFO", "LOGIN_ATTEMPT"}, user : Users \cup {""}, version : BOOLEAN,
   account : Registered \cup {""}, sessionKey : 0..MaxKeys, inBuffer : Seq(Messages), half : BOOLEAN, deaf : BOOLEAN,
   outQueue : Seq(Replies)]

TypeOK == /\ pc \in Pcs /\ turn \in 2..(MaxSessions + 2)
          /\ batch \in Seq(Db!Selects)
          /\ sessions \in Seq(SessionObjects)
          /\ list \in Seq(SessionIds)
          /\ pollFds \in Seq([fd : Fds \cup {0}, out : BOOLEAN, revents : SUBSET {"in", "out", "err"}])
          /\ capacity \in Nat
          /\ socketOf \in [Fds -> SessionIds \cup {0}]
          /\ inbox \in Seq(Seq(Messages)) /\ gone \subseteq SessionIds /\ sent \in 0..MaxMessages

\* The requests of all sessions together use the database as LoginDatabase
\* says: a delete and its insert are not separated by another request, and
\* responses are taken and queued in order.
ImplementsLoginDatabase == Db!DbSafeSpec

\* The lookups under way: queued, completed or with their callback due.
Lookups == {r \in Range(dbQueue) : r.op = "select"} \cup Range(responses) \cup Range(batch)

\* A callback captures the plain pointer `this': the session it will be run
\* on is still in m_list, which owns it.
CallbackTargetsLive == \A r \in Lookups : r.session \in Range(list)

\* A session in LOGIN_ATTEMPT has the account of a registered user, so that
\* the password query of a proof finds its row, whatever lookups are still
\* under way or failed.
LoginHasAccount ==
  \A s \in DOMAIN sessions :
    sessions[s].status = "LOGIN_ATTEMPT" => sessions[s].account \in Registered

\* A session whose m_pfd is valid polls for POLLOUT exactly while a reply waits.
PollMatchesQueue ==
  \A s \in DOMAIN sessions :
    sessions[s].pfd \in DOMAIN pollFds => (pollFds[sessions[s].pfd].out <=> sessions[s].outQueue # <<>>)

\* Once its request has been executed, a lookup is answered: the poll loop
\* comes back for the response even if no socket has an event.
LookupsAnswered ==
  \A s \in SessionIds :
    (\E r \in Lookups : r.session = s)
      ~> ((\A r \in Lookups : r.session # s) \/ pc \in {"down", "crashed"})

\* A queued reply is sent, as long as m_pfd is valid and the connection lasts.
RepliesSent ==
  \A s \in SessionIds :
    (s \in DOMAIN sessions /\ sessions[s].outQueue # <<>>)
      ~> (\/ s \notin DOMAIN sessions \/ sessions[s].outQueue = <<>> \/ sessions[s].pfd = 0
          \/ ~Connected(s) \/ s \in gone \/ pc \in {"shutdown", "down", "crashed"})

\* TCPSocket.h: while the queue is not empty, POLLOUT events are polled for.
PendingOutputIsPolled ==
  \A i \in DOMAIN list : sessions[list[i]].outQueue # <<>> => pollFds[i + 1].out

\* AuthCodes.h: a proof of up to S_MAX_ACCEPTED_AUTH_LOGIN_PROOF_SIZE bytes,
\* in the status that expects it, does not cost the client its connection.
LongestProofAccepted ==
  [][/\ Reading("proof", "LOGIN_ATTEMPT")
     /\ packet.size <= S_MAX_ACCEPTED_AUTH_LOGIN_PROOF_SIZE
     => sessions'[s0].ssl = me.ssl]_vars
===============================================================================
