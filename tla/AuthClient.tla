------------------------------ MODULE AuthClient ------------------------------
(***************************************************************************)
(* The client's side of a login: AuthManager and the client's AuthSession. *)
(* Everything runs on the game's main thread, at most one NetworkUpdate    *)
(* and some console commands per frame.  The server is whatever accepts    *)
(* the connection, takes packets and delivers responses; AuthLogin puts    *)
(* AuthServer there.                                                       *)
(*                                                                         *)
(* A response is one TLS record, so each Receive brings one of them and    *)
(* the base of the buffer, which the handlers read, is where it starts.    *)
(***************************************************************************)
EXTENDS Integers, Sequences

CONSTANTS Users, Passwords,  \* the arguments of the connect command
          NameLength, PasswordLength,
          UpToDate,          \* the client has the version the server expects
          Keys,              \* the session keys a server can send
          MaxCommands,       \* bound on the connect commands
          MaxArrived         \* bound on the responses that wait at a time

ASSUME LengthsAssumption  == /\ NameLength \in [Users -> Nat \ {0}]
                             /\ PasswordLength \in [Passwords -> Nat \ {0}]
ASSUME UpToDateAssumption == UpToDate \in BOOLEAN
ASSUME KeysAssumption     == Keys \subseteq Nat
ASSUME ClientBounds       == MaxCommands \in Nat /\ MaxArrived \in Nat

VARIABLES data,                 \* AuthData
          authSocket,           \* the AuthSession
          isConnecting, authSocketConnected,
          poll_fds,
          link,                 \* the connection of authSocket, as the network has it
          arrived,              \* responses that NetworkUpdate has not read
          commands,             \* connect commands so far
          alive                 \* the client has not crashed

socketVars == <<authSocket, isConnecting, authSocketConnected, poll_fds, link, arrived>>
clientVars == <<data, socketVars, commands, alive>>

None == ""
Credentials == [user : Users \cup {None}, password : Passwords \cup {None}]

\* The packets; size is the header's packetSize plus the size field.
Greeting(user)  == [cmd |-> "gather", user |-> user, version |-> UpToDate,
                    size |-> 8 + NameLength[user]]
Proof(password) == [cmd |-> "proof", password |-> password, size |-> 9 + PasswordLength[password]]
Packets == {Greeting(u) : u \in Users} \cup {Proof(p) : p \in Passwords}

GatherResults == {"gatherSuccess", "unknownAccount", "wrongVersion"}
ProofResults  == {"proofSuccess", "proofFailed"}
Responses == [result : GatherResults \cup ProofResults, key : Keys]

\* CreateAuthSocket.  fd stands for the handle and is not used again;
\* greeted is history: the credentials there were when the greeting was queued.
FreshSocket(fd) == [fd |-> fd, open |-> TRUE, status |-> "GATHER_INFO", outQueue |-> <<>>,
                    greeted |-> [user |-> None, password |-> None]]

Init == /\ data = [username |-> None, password |-> None, hasAuthenticated |-> FALSE, sessionKey |-> 0]
        /\ authSocket = FreshSocket(1)
        /\ isConnecting = FALSE /\ authSocketConnected = FALSE
        /\ poll_fds = <<>>
        /\ link = "none" /\ arrived = <<>>
        /\ commands = 0 /\ alive = TRUE

\* Mutant of OnDisconnect: the poll list is not cleared.
OnDisconnectKeepsPolling == /\ authSocket' = FreshSocket(authSocket.fd + 1)
                            /\ isConnecting' = FALSE /\ authSocketConnected' = FALSE
                            /\ link' = "none" /\ arrived' = <<>>
                            /\ UNCHANGED poll_fds
OnDisconnect == /\ authSocket' = FreshSocket(authSocket.fd + 1)
                /\ isConnecting' = FALSE /\ authSocketConnected' = FALSE
                /\ poll_fds' = <<>>
                /\ link' = "none" /\ arrived' = <<>>

-----------------------------------------------------------------------------
(***************************************************************************)
(* The connect command.                                                    *)
(***************************************************************************)

Command(user, password) ==
  /\ alive /\ commands < MaxCommands
  /\ commands' = commands + 1
  /\ data' = [data EXCEPT !.username = user, !.password = password]
  /\ UNCHANGED alive

\* An attempt is under way: it will use the new credentials.
CommandWhileConnecting(user, password) ==
  /\ isConnecting
  /\ Command(user, password)
  /\ UNCHANGED socketVars

\* The non-blocking connect is under way.  m_pfd points at the new entry.
CommandConnects(user, password) ==
  /\ ~isConnecting /\ authSocket.open /\ link = "none"
  /\ Command(user, password)
  /\ isConnecting' = TRUE /\ authSocketConnected' = FALSE
  /\ poll_fds' = Append(poll_fds, [fd |-> authSocket.fd, out |-> TRUE])
  /\ link' = "pending"
  /\ UNCHANGED <<authSocket, arrived>>

\* Mutant of CommandFails: the failed attempt leaves the socket as it is.
CommandFailsQuietly(user, password) ==
  /\ ~isConnecting
  /\ Command(user, password)
  /\ UNCHANGED socketVars
\* connect fails at once; it always does on a connected or a closed socket.
CommandFails(user, password) ==
  /\ ~isConnecting
  /\ Command(user, password)
  /\ OnDisconnect

-----------------------------------------------------------------------------
(***************************************************************************)
(* NetworkUpdate.                                                          *)
(***************************************************************************)

Polled    == alive /\ poll_fds # <<>>
Connected == Polled /\ authSocketConnected

\* WSAPoll fails.
PollFails == /\ Polled
             /\ OnDisconnect
             /\ UNCHANGED <<data, commands, alive>>

\* Mutant of ConnectionFails: only the poll list is reset.
ConnectionFailsPolling ==
  /\ Polled /\ ~authSocketConnected
  /\ poll_fds' = <<>>
  /\ authSocket' = FreshSocket(authSocket.fd + 1)
  /\ link' = "none" /\ arrived' = <<>>
  /\ UNCHANGED <<data, isConnecting, authSocketConnected, commands, alive>>
\* CheckIfAuthConnected: the connection is refused or lost, or the
\* handshake fails.
ConnectionFails ==
  /\ Polled /\ ~authSocketConnected
  /\ OnDisconnect
  /\ UNCHANGED <<data, commands, alive>>

\* Mutant of Handshake: OnConnectedToAuthServer leaves isConnecting set.
HandshakeStaysConnecting ==
  /\ Polled /\ ~authSocketConnected /\ link = "pending"
  /\ authSocketConnected' = TRUE
  /\ link' = "up"
  /\ authSocket' = [authSocket EXCEPT
       !.outQueue = Append(@, Greeting(data.username)),
       !.greeted = [user |-> data.username, password |-> data.password]]
  /\ poll_fds' = [poll_fds EXCEPT ![1].out = TRUE]
  /\ UNCHANGED <<data, isConnecting, arrived, commands, alive>>
\* CheckIfAuthConnected: the connection is there.  The main thread stays in
\* the handshake until it is over, and OnConnectedCallback queues the greeting.
Handshake ==
  /\ Polled /\ ~authSocketConnected /\ link = "pending"
  /\ isConnecting' = FALSE /\ authSocketConnected' = TRUE
  /\ link' = "up"
  /\ authSocket' = [authSocket EXCEPT
       !.outQueue = Append(@, Greeting(data.username)),
       !.greeted = [user |-> data.username, password |-> data.password]]
  /\ poll_fds' = [poll_fds EXCEPT ![1].out = TRUE]
  /\ UNCHANGED <<data, arrived, commands, alive>>

\* CheckForIncomingData: the handle is closed or the peer has gone.
Disconnected ==
  /\ Connected /\ (~authSocket.open \/ link = "down")
  /\ OnDisconnect
  /\ UNCHANGED <<data, commands, alive>>

Close(socket) == /\ authSocket' = [socket EXCEPT !.open = FALSE]
                 /\ link' = "none" /\ arrived' = <<>>

Sending == Connected /\ authSocket.open /\ poll_fds[1].out /\ authSocket.outQueue # <<>>

Send ==
  /\ Sending /\ link = "up"
  /\ authSocket' = [authSocket EXCEPT !.outQueue = Tail(@)]
  /\ poll_fds' = [poll_fds EXCEPT ![1].out = Len(authSocket.outQueue) > 1]
  /\ UNCHANGED <<data, isConnecting, authSocketConnected, link, arrived, commands, alive>>

\* Close, and a positive error code, which the caller does not take for one.
SendFails ==
  /\ Sending /\ link = "down"
  /\ Close(authSocket)
  /\ UNCHANGED <<data, isConnecting, authSocketConnected, poll_fds, commands, alive>>

\* ... so that it goes on to Receive if the socket was readable as well, with
\* the SSL object freed.  OpenSSL dereferences it, or returns an error.
SendFailsThenReceives ==
  /\ Sending /\ link = "down"
  /\ alive' = FALSE
  /\ UNCHANGED <<data, socketVars, commands>>

ReceiveFails ==
  /\ Connected /\ authSocket.open /\ link = "down"
  /\ Close(authSocket)
  /\ UNCHANGED <<data, isConnecting, authSocketConnected, poll_fds, commands, alive>>

\* Receive and ReadCallback.
response == Head(arrived)
Reading(results) == Connected /\ authSocket.open /\ arrived # <<>> /\ response.result \in results

ReadMismatch ==
  /\ \/ Reading(GatherResults) /\ authSocket.status # "GATHER_INFO"
     \/ Reading(ProofResults) /\ authSocket.status # "LOGIN_ATTEMPT"
  /\ Close(authSocket)
  /\ UNCHANGED <<data, isConnecting, authSocketConnected, poll_fds, commands, alive>>

\* Mutants of ReadGatherSuccess: the password stays in memory; it is cleared
\* before it is written to the packet.
ReadGatherSuccessKeeps ==
  /\ Reading({"gatherSuccess"}) /\ authSocket.status = "GATHER_INFO"
  /\ authSocket' = [authSocket EXCEPT !.status = "LOGIN_ATTEMPT",
                                      !.outQueue = Append(@, Proof(data.password))]
  /\ poll_fds' = [poll_fds EXCEPT ![1].out = TRUE]
  /\ arrived' = Tail(arrived)
  /\ UNCHANGED <<data, isConnecting, authSocketConnected, link, commands, alive>>
ReadGatherSuccessForgetsFirst ==
  /\ Reading({"gatherSuccess"}) /\ authSocket.status = "GATHER_INFO"
  /\ authSocket' = [authSocket EXCEPT !.status = "LOGIN_ATTEMPT",
       !.outQueue = Append(@, [cmd |-> "proof", password |-> None, size |-> 9])]
  /\ data' = [data EXCEPT !.password = None]
  /\ poll_fds' = [poll_fds EXCEPT ![1].out = TRUE]
  /\ arrived' = Tail(arrived)
  /\ UNCHANGED <<isConnecting, authSocketConnected, link, commands, alive>>
\* HandlePacketAuthLoginGatherInfoResponse: the proof is queued and the
\* password forgotten.
ReadGatherSuccess ==
  /\ Reading({"gatherSuccess"}) /\ authSocket.status = "GATHER_INFO"
  /\ authSocket' = [authSocket EXCEPT !.status = "LOGIN_ATTEMPT",
                                      !.outQueue = Append(@, Proof(data.password))]
  /\ data' = [data EXCEPT !.password = None]
  /\ poll_fds' = [poll_fds EXCEPT ![1].out = TRUE]
  /\ arrived' = Tail(arrived)
  /\ UNCHANGED <<isConnecting, authSocketConnected, link, commands, alive>>

\* HandlePacketAuthLoginProofResponse: the login is complete and the
\* connection closed.
ReadProofSuccess ==
  /\ Reading({"proofSuccess"}) /\ authSocket.status = "LOGIN_ATTEMPT"
  /\ data' = [data EXCEPT !.sessionKey = response.key, !.hasAuthenticated = TRUE]
  /\ Close([authSocket EXCEPT !.status = "AUTHED"])
  /\ UNCHANGED <<isConnecting, authSocketConnected, poll_fds, commands, alive>>

\* Mutant of ReadFailure: the connection stays.
ReadFailureStays ==
  /\ \/ Reading(GatherResults \ {"gatherSuccess"}) /\ authSocket.status = "GATHER_INFO"
     \/ Reading({"proofFailed"}) /\ authSocket.status = "LOGIN_ATTEMPT"
  /\ arrived' = Tail(arrived)
  /\ UNCHANGED <<data, authSocket, isConnecting, authSocketConnected, poll_fds, link, commands, alive>>
ReadFailure ==
  /\ \/ Reading(GatherResults \ {"gatherSuccess"}) /\ authSocket.status = "GATHER_INFO"
     \/ Reading({"proofFailed"}) /\ authSocket.status = "LOGIN_ATTEMPT"
  /\ Close(authSocket)
  /\ UNCHANGED <<data, isConnecting, authSocketConnected, poll_fds, commands, alive>>

-----------------------------------------------------------------------------
(***************************************************************************)
(* The network and the server.                                             *)
(***************************************************************************)

Deliver(reply) ==
  /\ link = "up" /\ Len(arrived) < MaxArrived
  /\ arrived' = Append(arrived, reply)
  /\ UNCHANGED <<data, authSocket, isConnecting, authSocketConnected, poll_fds, link, commands, alive>>

LinkFails ==
  /\ link \in {"pending", "up"}
  /\ link' = "down"
  /\ UNCHANGED <<data, authSocket, isConnecting, authSocketConnected, poll_fds, arrived, commands, alive>>

\* What the client does on its own, neither sending nor connecting.
Alone == \/ \E user \in Users, password \in Passwords :
              \/ CommandWhileConnecting(user, password)
              \/ CommandConnects(user, password)
              \/ CommandFails(user, password)
         \/ PollFails \/ ConnectionFails \/ Disconnected
         \/ SendFails \/ SendFailsThenReceives \/ ReceiveFails
         \/ ReadMismatch \/ ReadGatherSuccess \/ ReadProofSuccess \/ ReadFailure

Next == Alone \/ Handshake \/ Send \/ LinkFails \/ \E reply \in Responses : Deliver(reply)

Spec == Init /\ [][Next]_clientVars

-----------------------------------------------------------------------------

AuthData     == [username : Users \cup {None}, password : Passwords \cup {None},
                 hasAuthenticated : BOOLEAN, sessionKey : Nat]
AuthSessions == [fd : Nat, open : BOOLEAN, status : {"GATHER_INFO", "LOGIN_ATTEMPT", "AUTHED"},
                 outQueue : Seq(Packets), greeted : Credentials]

TypeOK == /\ data \in AuthData
          /\ authSocket \in AuthSessions
          /\ isConnecting \in BOOLEAN /\ authSocketConnected \in BOOLEAN
          /\ poll_fds \in Seq([fd : Nat, out : BOOLEAN])
          /\ link \in {"none", "pending", "up", "down"}
          /\ arrived \in Seq(Responses)
          /\ commands \in 0..MaxCommands /\ alive \in BOOLEAN

\* NetworkUpdate looks at poll_fds[0] and takes it for authSocket: there is
\* never another entry, left over from an earlier socket or an earlier attempt.
PollFdsMatchSocket == Len(poll_fds) <= 1 /\ \A i \in DOMAIN poll_fds : poll_fds[i].fd = authSocket.fd

\* While isConnecting is set the connect command does nothing: only the poll
\* of an entry can clear it, and there always is one.
ConnectingIsPolled == isConnecting => poll_fds # <<>> /\ ~authSocketConnected

\* The command may replace the credentials at any moment.  A proof always
\* carries the password that was given with the user name of the greeting.
ProofMatchesGreeting ==
  \A i \in DOMAIN authSocket.outQueue :
    authSocket.outQueue[i].cmd = "proof" =>
      authSocket.outQueue[i].password = authSocket.greeted.password

\* AuthSession.cpp, "clear the password from memory after having used it":
\* a socket that has sent its proof, or is about to, leaves no password
\* behind, whatever commands are given meanwhile.
PasswordForgotten == authSocket.status # "GATHER_INFO" => data.password = None

\* Why: a socket that is not connected has exchanged nothing, and one
\* without a connection is not polled; what the greeting was made of is still
\* there when the proof is made, and a polled socket has credentials.
UnconnectedIsFresh ==
  /\ ~authSocketConnected => authSocket.status = "GATHER_INFO" /\ authSocket.outQueue = <<>>
  /\ link = "none" /\ authSocket.open => poll_fds = <<>> /\ ~authSocketConnected
GreetingIsCurrent ==
  authSocketConnected /\ authSocket.status = "GATHER_INFO" =>
    data.password = authSocket.greeted.password
CredentialsGiven ==
  poll_fds # <<>> => /\ data.username \in Users
                     /\ authSocket.status = "GATHER_INFO" => data.password \in Passwords

\* The inductive invariant: whatever moment a command, a response or a lost
\* connection comes at, the client's view of its connection is consistent.
ClientIInv == /\ TypeOK /\ PollFdsMatchSocket /\ ConnectingIsPolled
              /\ ProofMatchesGreeting /\ PasswordForgotten
              /\ UnconnectedIsFresh /\ GreetingIsCurrent /\ CredentialsGiven
===============================================================================
