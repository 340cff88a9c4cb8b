---------------------------- MODULE AuthLogin_proofs ----------------------------
(***************************************************************************)
(* Proofs about AuthLogin, and about its client by itself: for every set   *)
(* of users and passwords, any number of commands, sessions and messages,  *)
(* and connections that fail at any time.  The proofs of the client let    *)
(* the server send anything; those of the composition put the server of    *)
(* AuthServer_proofs there.                                                *)
(***************************************************************************)
EXTENDS AuthLogin, SequenceTheorems, TLAPS

-----------------------------------------------------------------------------
(* The client *)

\* Queuing a packet, the greeting or a proof.
LEMMA AppendPacket ==
  ASSUME NEW q \in Seq(Packets), NEW p \in Packets
  PROVE  /\ Append(q, p) \in Seq(Packets)
         /\ DOMAIN Append(q, p) = 1..(Len(q) + 1) /\ DOMAIN q = 1..Len(q) /\ Len(q) \in Nat
         /\ Append(q, p)[Len(q) + 1] = p
         /\ \A i \in DOMAIN q : Append(q, p)[i] = q[i]
  OBVIOUS

\* The two kinds of packet.
LEMMA PacketShapes ==
  /\ \A u \in Users : Greeting(u) \in Packets /\ Greeting(u).cmd = "gather"
  /\ \A p \in Passwords : Proof(p) \in Packets /\ Proof(p).password = p
  BY DEF Packets, Greeting, Proof

\* A new socket has the type of one, and has exchanged nothing.
LEMMA FreshSocketType ==
  ASSUME NEW fd \in Nat
  PROVE  /\ FreshSocket(fd) \in AuthSessions
         /\ FreshSocket(fd).status = "GATHER_INFO"
         /\ FreshSocket(fd).outQueue = <<>>
  <1>1. <<>> \in Seq(Packets)
    BY EmptySeq
  <1> QED
    BY <1>1 DEF FreshSocket, AuthSessions, Credentials

\* The strengthened invariant holds at the start.
LEMMA ClientInitial == Init => ClientIInv
  <1> SUFFICES ASSUME Init PROVE ClientIInv
    OBVIOUS
  <1>1. authSocket \in AuthSessions /\ authSocket.status = "GATHER_INFO" /\ authSocket.outQueue = <<>>
    BY FreshSocketType DEF Init
  <1>2. TypeOK
    <2>1. data \in AuthData
      BY DEF Init, AuthData
    <2>2. poll_fds \in Seq([fd : Nat, out : BOOLEAN]) /\ arrived \in Seq(Responses)
      BY EmptySeq DEF Init
    <2>3. isConnecting \in BOOLEAN /\ authSocketConnected \in BOOLEAN /\ alive \in BOOLEAN
      BY Zenon DEF Init
    <2>4. commands \in 0..MaxCommands /\ link \in {"none", "pending", "up", "down"}
      BY ClientBounds DEF Init
    <2> QED
      BY <1>1, <2>1, <2>2, <2>3, <2>4 DEF TypeOK
  <1>3. poll_fds = <<>> /\ Len(poll_fds) = 0 /\ DOMAIN poll_fds = {}
    BY DEF Init
  <1>4. PollFdsMatchSocket /\ ConnectingIsPolled /\ PasswordForgotten /\ GreetingIsCurrent
    BY <1>1, <1>3 DEF Init, PollFdsMatchSocket, ConnectingIsPolled, PasswordForgotten, GreetingIsCurrent
  <1>5. ProofMatchesGreeting
    BY <1>1 DEF ProofMatchesGreeting
  <1>6. UnconnectedIsFresh /\ CredentialsGiven
    BY <1>1, <1>3 DEF Init, UnconnectedIsFresh, CredentialsGiven
  <1> QED
    BY <1>2, <1>4, <1>5, <1>6 DEF ClientIInv

\* OnDisconnect leads back to a state like the first one, whatever the
\* credentials are by then.
LEMMA DisconnectKeeps ==
  ASSUME TypeOK, OnDisconnect,
         data' \in AuthData, commands' \in 0..MaxCommands, alive' \in BOOLEAN
  PROVE  ClientIInv'
  <1>1. authSocket.fd + 1 \in Nat
    BY DEF TypeOK, AuthSessions
  <1>2. /\ authSocket' \in AuthSessions
        /\ authSocket'.status = "GATHER_INFO" /\ authSocket'.outQueue = <<>>
    BY <1>1, FreshSocketType DEF OnDisconnect
  <1>3. poll_fds' = <<>> /\ Len(poll_fds') = 0 /\ DOMAIN poll_fds' = {}
    BY DEF OnDisconnect
  <1>4. TypeOK'
    BY <1>2, <1>3, EmptySeq DEF OnDisconnect, TypeOK
  <1>5. PollFdsMatchSocket' /\ ConnectingIsPolled' /\ PasswordForgotten' /\ GreetingIsCurrent'
    BY <1>2, <1>3 DEF OnDisconnect, PollFdsMatchSocket, ConnectingIsPolled, PasswordForgotten,
                      GreetingIsCurrent
  <1>6. ProofMatchesGreeting'
    BY <1>2 DEF ProofMatchesGreeting
  <1>7. UnconnectedIsFresh' /\ CredentialsGiven'
    BY <1>2, <1>3 DEF OnDisconnect, UnconnectedIsFresh, CredentialsGiven
  <1> QED
    BY <1>4, <1>5, <1>6, <1>7 DEF ClientIInv

\* Close on a connected socket, whose status may just have changed after
\* the proof: the poll entry stays for the next NetworkUpdate.
LEMMA CloseKeeps ==
  ASSUME ClientIInv, Connected, NEW socket, Close(socket),
         socket = authSocket \/ (socket = [authSocket EXCEPT !.status = "AUTHED"]
                                 /\ data.password = None),
         data' \in AuthData, data'.username = data.username, data'.password = data.password,
         UNCHANGED <<isConnecting, authSocketConnected, poll_fds, commands, alive>>
  PROVE  ClientIInv'
  <1> USE DEF ClientIInv
  <1>1. authSocket \in AuthSessions
    BY DEF TypeOK
  <1>2. /\ authSocket' \in AuthSessions /\ authSocket'.fd = authSocket.fd /\ ~authSocket'.open
        /\ authSocket'.outQueue = authSocket.outQueue /\ authSocket'.greeted = authSocket.greeted
        /\ \/ authSocket'.status = authSocket.status
           \/ authSocket'.status = "AUTHED" /\ data.password = None
    BY <1>1 DEF Close, AuthSessions
  <1>3. TypeOK'
    BY <1>2, EmptySeq DEF Close, TypeOK
  <1>4. PollFdsMatchSocket' /\ ConnectingIsPolled' /\ PasswordForgotten'
    BY <1>2 DEF PollFdsMatchSocket, ConnectingIsPolled, PasswordForgotten
  <1>5. ProofMatchesGreeting'
    BY <1>2 DEF ProofMatchesGreeting
  <1>6. UnconnectedIsFresh' /\ GreetingIsCurrent' /\ CredentialsGiven'
    BY <1>2 DEF Connected, UnconnectedIsFresh, GreetingIsCurrent, CredentialsGiven
  <1> QED
    BY <1>3, <1>4, <1>5, <1>6

-----------------------------------------------------------------------------

\* The connect command.
LEMMA CommandType ==
  ASSUME TypeOK, NEW user \in Users, NEW password \in Passwords, Command(user, password)
  PROVE  /\ data' \in AuthData /\ data'.username = user /\ data'.password = password
         /\ commands' \in 0..MaxCommands /\ alive' \in BOOLEAN
  <1>1. data \in AuthData /\ commands \in 0..MaxCommands
    BY DEF TypeOK
  <1>2. data' = [data EXCEPT !.username = user, !.password = password]
    BY DEF Command
  <1>3. data' \in AuthData /\ data'.username = user /\ data'.password = password
    BY <1>1, <1>2 DEF AuthData
  <1>4. commands' \in 0..MaxCommands
    BY <1>1, ClientBounds DEF Command
  <1> QED
    BY <1>3, <1>4 DEF Command, TypeOK

\* While an attempt is under way the command only replaces the credentials:
\* nothing was made of the earlier ones yet.
LEMMA CommandWhileConnectingKeeps ==
  ASSUME ClientIInv, NEW user \in Users, NEW password \in Passwords,
         CommandWhileConnecting(user, password)
  PROVE  ClientIInv'
  <1> USE DEF ClientIInv
  <1>1. isConnecting /\ UNCHANGED socketVars
    BY DEF CommandWhileConnecting
  <1>2. ~authSocketConnected /\ authSocket.status = "GATHER_INFO" /\ authSocket.outQueue = <<>>
    BY <1>1 DEF ConnectingIsPolled, UnconnectedIsFresh
  <1>3. /\ data' \in AuthData /\ data'.username = user /\ data'.password = password
        /\ commands' \in 0..MaxCommands /\ alive' \in BOOLEAN
    BY CommandType DEF CommandWhileConnecting
  <1>4. TypeOK'
    BY <1>1, <1>3 DEF TypeOK, socketVars
  <1>5. PollFdsMatchSocket' /\ ConnectingIsPolled' /\ ProofMatchesGreeting' /\ UnconnectedIsFresh'
    BY <1>1 DEF socketVars, PollFdsMatchSocket, ConnectingIsPolled, ProofMatchesGreeting,
                UnconnectedIsFresh
  <1>6. PasswordForgotten' /\ GreetingIsCurrent' /\ CredentialsGiven'
    BY <1>1, <1>2, <1>3 DEF socketVars, PasswordForgotten, GreetingIsCurrent, CredentialsGiven
  <1> QED
    BY <1>4, <1>5, <1>6

\* A socket without a connection is not polled: the new entry is the only one.
LEMMA CommandConnectsKeeps ==
  ASSUME ClientIInv, NEW user \in Users, NEW password \in Passwords,
         CommandConnects(user, password)
  PROVE  ClientIInv'
  <1> USE DEF ClientIInv
  <1>1. poll_fds = <<>> /\ authSocket.status = "GATHER_INFO" /\ authSocket.outQueue = <<>>
    BY DEF CommandConnects, UnconnectedIsFresh
  <1>2. /\ authSocket' = authSocket /\ arrived' = arrived
        /\ isConnecting' = TRUE /\ authSocketConnected' = FALSE /\ link' = "pending"
    BY DEF CommandConnects
  <1>3. /\ data' \in AuthData /\ data'.username = user /\ data'.password = password
        /\ commands' \in 0..MaxCommands /\ alive' \in BOOLEAN
    BY CommandType DEF CommandConnects
  <1> DEFINE entry == [fd |-> authSocket.fd, out |-> TRUE]
  <1>4. poll_fds' = <<entry>>
    BY <1>1 DEF CommandConnects
  <1>5. entry \in [fd : Nat, out : BOOLEAN] /\ entry.fd = authSocket.fd
    BY DEF TypeOK, AuthSessions
  <1> HIDE DEF entry
  <1>6. /\ poll_fds' \in Seq([fd : Nat, out : BOOLEAN]) /\ poll_fds' # <<>>
        /\ Len(poll_fds') = 1 /\ DOMAIN poll_fds' = {1} /\ poll_fds'[1] = entry
    BY <1>4, <1>5
  <1>7. TypeOK'
    BY <1>2, <1>3, <1>6 DEF TypeOK
  <1>8. PollFdsMatchSocket' /\ ConnectingIsPolled' /\ ProofMatchesGreeting'
    BY <1>1, <1>2, <1>5, <1>6 DEF PollFdsMatchSocket, ConnectingIsPolled, ProofMatchesGreeting
  <1>9. PasswordForgotten' /\ UnconnectedIsFresh' /\ GreetingIsCurrent' /\ CredentialsGiven'
    BY <1>1, <1>2, <1>3 DEF PasswordForgotten, UnconnectedIsFresh, GreetingIsCurrent, CredentialsGiven
  <1> QED
    BY <1>7, <1>8, <1>9

-----------------------------------------------------------------------------

\* Setting POLLOUT in the only entry changes nothing else of it.
LEMMA PollOutKeeps ==
  ASSUME TypeOK, PollFdsMatchSocket, poll_fds # <<>>, NEW out \in BOOLEAN,
         poll_fds' = [poll_fds EXCEPT ![1].out = out], authSocket'.fd = authSocket.fd
  PROVE  /\ poll_fds' \in Seq([fd : Nat, out : BOOLEAN])
         /\ poll_fds' # <<>>
         /\ PollFdsMatchSocket'
  <1>1. /\ poll_fds \in Seq([fd : Nat, out : BOOLEAN])
        /\ Len(poll_fds) = 1 /\ DOMAIN poll_fds = {1}
    <2>1. poll_fds \in Seq([fd : Nat, out : BOOLEAN])
      BY DEF TypeOK
    <2>2. Len(poll_fds) \in Nat /\ DOMAIN poll_fds = 1..Len(poll_fds) /\ Len(poll_fds) # 0
      BY <2>1, LenProperties, EmptySeq
    <2>3. Len(poll_fds) <= 1
      BY DEF PollFdsMatchSocket
    <2>4. Len(poll_fds) = 1
      BY <2>2, <2>3
    <2> QED
      BY <2>1, <2>2, <2>4
  <1>2. poll_fds[1] \in [fd : Nat, out : BOOLEAN] /\ poll_fds[1].fd = authSocket.fd
    <2> DEFINE E == [fd : Nat, out : BOOLEAN]
    <2>1. poll_fds \in Seq(E) /\ 1 \in 1..Len(poll_fds)
      BY <1>1
    <2> HIDE DEF E
    <2>2. poll_fds[1] \in E
      BY <2>1, ElementOfSeq
    <2> QED
      BY <1>1, <2>2 DEF PollFdsMatchSocket, E
  <1> DEFINE entry == [poll_fds[1] EXCEPT !.out = out]
  <1>3. entry \in [fd : Nat, out : BOOLEAN] /\ entry.fd = authSocket.fd
    BY <1>2
  <1>4. poll_fds' = [poll_fds EXCEPT ![1] = entry]
    OBVIOUS
  <1> HIDE DEF entry
  <1>5. /\ poll_fds' \in Seq([fd : Nat, out : BOOLEAN]) /\ Len(poll_fds') = 1
        /\ DOMAIN poll_fds' = {1} /\ poll_fds'[1] = entry
    BY <1>1, <1>3, <1>4
  <1>6. poll_fds' # <<>>
    BY <1>5
  <1> QED
    BY <1>3, <1>5, <1>6 DEF PollFdsMatchSocket

\* The greeting is the first packet of the socket, and made of the
\* credentials there are.
LEMMA HandshakeKeeps ==
  ASSUME ClientIInv, Handshake
  PROVE  ClientIInv'
  <1> USE DEF ClientIInv
  <1>1. /\ authSocket \in AuthSessions /\ data \in AuthData
        /\ authSocket.status = "GATHER_INFO" /\ authSocket.outQueue = <<>>
        /\ data.username \in Users /\ data.password \in Passwords /\ poll_fds # <<>>
    BY DEF Handshake, Polled, TypeOK, UnconnectedIsFresh, CredentialsGiven
  <1>2. Greeting(data.username) \in Packets /\ Greeting(data.username).cmd = "gather"
    BY <1>1, PacketShapes
  <1> DEFINE greeting == Greeting(data.username)
             given    == [user |-> data.username, password |-> data.password]
  <1>3. given \in Credentials /\ given.password = data.password
    BY <1>1 DEF Credentials
  <1>4. authSocket' = [authSocket EXCEPT !.outQueue = Append(@, greeting), !.greeted = given]
    BY DEF Handshake
  <1> HIDE DEF greeting, given
  <1>5. <<greeting>> \in Seq(Packets) /\ DOMAIN <<greeting>> = {1} /\ <<greeting>>[1] = greeting
    BY <1>2 DEF greeting
  <1>6. /\ authSocket' \in AuthSessions /\ authSocket'.fd = authSocket.fd
        /\ authSocket'.status = "GATHER_INFO" /\ authSocket'.outQueue = <<greeting>>
        /\ authSocket'.greeted = given
    <2>1. Append(authSocket.outQueue, greeting) = <<greeting>>
      BY <1>1
    <2>2. authSocket' = [authSocket EXCEPT !.outQueue = <<greeting>>, !.greeted = given]
      BY <1>1, <1>4, <2>1 DEF AuthSessions
    <2> QED
      BY <1>1, <1>3, <1>5, <2>2 DEF AuthSessions
  <1>7. /\ isConnecting' = FALSE /\ authSocketConnected' = TRUE /\ link' = "up"
        /\ data' = data /\ UNCHANGED <<arrived, commands, alive>>
    BY DEF Handshake
  <1>8. /\ poll_fds' \in Seq([fd : Nat, out : BOOLEAN])
        /\ PollFdsMatchSocket'
    BY <1>1, <1>6, PollOutKeeps DEF Handshake
  <1>9. TypeOK'
    BY <1>6, <1>7, <1>8 DEF TypeOK
  <1>10. ProofMatchesGreeting'
    BY <1>2, <1>5, <1>6 DEF ProofMatchesGreeting, greeting
  <1>11. /\ ConnectingIsPolled' /\ PasswordForgotten' /\ UnconnectedIsFresh'
         /\ GreetingIsCurrent' /\ CredentialsGiven'
    BY <1>1, <1>3, <1>6, <1>7 DEF ConnectingIsPolled, PasswordForgotten, UnconnectedIsFresh,
                                  GreetingIsCurrent, CredentialsGiven
  <1> QED
    BY <1>8, <1>9, <1>10, <1>11

\* The rest of the queue keeps its proofs.
LEMMA SendKeeps ==
  ASSUME ClientIInv, Send
  PROVE  ClientIInv'
  <1> USE DEF ClientIInv
  <1>1. authSocket \in AuthSessions /\ poll_fds # <<>> /\ authSocketConnected
    BY DEF Send, Sending, Connected, Polled, TypeOK
  <1> DEFINE q == authSocket.outQueue
  <1>2. q \in Seq(Packets) /\ q # <<>>
    BY <1>1 DEF AuthSessions, Send, Sending
  <1>3. authSocket' = [authSocket EXCEPT !.outQueue = Tail(q)]
    BY DEF Send
  <1> HIDE DEF q
  <1>4. /\ Tail(q) \in Seq(Packets)
        /\ \A i \in DOMAIN Tail(q) : i + 1 \in DOMAIN q /\ Tail(q)[i] = q[i + 1]
        /\ Len(q) \in Nat
    BY <1>2
  <1>5. /\ authSocket' \in AuthSessions /\ authSocket'.fd = authSocket.fd
        /\ authSocket'.open = authSocket.open
        /\ authSocket'.status = authSocket.status /\ authSocket'.outQueue = Tail(q)
        /\ authSocket'.greeted = authSocket.greeted
    BY <1>1, <1>3, <1>4 DEF AuthSessions
  <1>6. UNCHANGED <<data, isConnecting, authSocketConnected, link, arrived, commands, alive>>
    BY DEF Send
  <1>7. (Len(q) > 1) \in BOOLEAN /\ poll_fds' = [poll_fds EXCEPT ![1].out = Len(q) > 1]
    BY DEF Send, q
  <1>8. poll_fds' \in Seq([fd : Nat, out : BOOLEAN]) /\ poll_fds' # <<>> /\ PollFdsMatchSocket'
    BY <1>1, <1>5, <1>7, PollOutKeeps
  <1>9. TypeOK'
    BY <1>5, <1>6, <1>8 DEF TypeOK
  <1>10. ProofMatchesGreeting'
    BY <1>4, <1>5 DEF ProofMatchesGreeting, q
  <1>11. /\ ConnectingIsPolled' /\ PasswordForgotten' /\ UnconnectedIsFresh'
         /\ GreetingIsCurrent' /\ CredentialsGiven'
    BY <1>1, <1>5, <1>6, <1>8 DEF ConnectingIsPolled, PasswordForgotten, UnconnectedIsFresh,
                                  GreetingIsCurrent, CredentialsGiven, Send, Sending
  <1> QED
    BY <1>8, <1>9, <1>10, <1>11

\* A response that has been read leaves the others.
LEMMA ArrivedTail ==
  ASSUME TypeOK, arrived # <<>>
  PROVE  Tail(arrived) \in Seq(Responses) /\ Head(arrived) \in Responses
  BY HeadTailProperties DEF TypeOK

\* The proof is made of the password that came with the greeting.
LEMMA ReadGatherSuccessStep ==
  ASSUME ClientIInv, ReadGatherSuccess
  PROVE  ClientIInv'
  <1> USE DEF ClientIInv
  <1>1. /\ authSocket \in AuthSessions /\ data \in AuthData
        /\ poll_fds # <<>> /\ authSocketConnected /\ authSocket.open
        /\ authSocket.status = "GATHER_INFO" /\ arrived # <<>>
        /\ data.username \in Users /\ data.password \in Passwords
        /\ data.password = authSocket.greeted.password
    BY DEF ReadGatherSuccess, Reading, Connected, Polled, TypeOK, GreetingIsCurrent, CredentialsGiven
  <1> DEFINE proof == Proof(data.password)
             q     == authSocket.outQueue
  <1>2. proof \in Packets /\ proof.password = authSocket.greeted.password
    BY <1>1, PacketShapes
  <1>3. q \in Seq(Packets)
    BY <1>1 DEF AuthSessions
  <1>4. authSocket' = [authSocket EXCEPT !.status = "LOGIN_ATTEMPT", !.outQueue = Append(@, proof)]
    BY DEF ReadGatherSuccess
  <1>5. data' = [data EXCEPT !.password = None]
    BY DEF ReadGatherSuccess
  <1> HIDE DEF proof, q
  <1>6. /\ Append(q, proof) \in Seq(Packets)
        /\ \A i \in DOMAIN Append(q, proof) :
             Append(q, proof)[i] = proof \/ (i \in DOMAIN q /\ Append(q, proof)[i] = q[i])
    <2>1. /\ Append(q, proof) \in Seq(Packets)
          /\ DOMAIN Append(q, proof) = 1..(Len(q) + 1) /\ DOMAIN q = 1..Len(q) /\ Len(q) \in Nat
          /\ Append(q, proof)[Len(q) + 1] = proof
          /\ \A i \in DOMAIN q : Append(q, proof)[i] = q[i]
      BY <1>2, <1>3, AppendPacket
    <2>2. \A i \in 1..(Len(q) + 1) : i = Len(q) + 1 \/ i \in 1..Len(q)
      BY <2>1
    <2> QED
      BY <2>1, <2>2
  <1>7. /\ authSocket' \in AuthSessions /\ authSocket'.fd = authSocket.fd
        /\ authSocket'.status = "LOGIN_ATTEMPT" /\ authSocket'.outQueue = Append(q, proof)
        /\ authSocket'.greeted = authSocket.greeted
    BY <1>1, <1>4, <1>6 DEF AuthSessions, q
  <1>8. data' \in AuthData /\ data'.username = data.username /\ data'.password = None
    BY <1>1, <1>5 DEF AuthData
  <1>9. /\ UNCHANGED <<isConnecting, authSocketConnected, link, commands, alive>>
        /\ arrived' = Tail(arrived)
    BY DEF ReadGatherSuccess
  <1>10. poll_fds' \in Seq([fd : Nat, out : BOOLEAN]) /\ poll_fds' # <<>> /\ PollFdsMatchSocket'
    BY <1>1, <1>7, PollOutKeeps DEF ReadGatherSuccess
  <1>11. TypeOK'
    BY <1>1, <1>7, <1>8, <1>9, <1>10, ArrivedTail DEF TypeOK
  <1>12. ProofMatchesGreeting'
    BY <1>2, <1>6, <1>7 DEF ProofMatchesGreeting, q
  <1>13. /\ ConnectingIsPolled' /\ PasswordForgotten' /\ UnconnectedIsFresh'
         /\ GreetingIsCurrent' /\ CredentialsGiven'
    <2>1. link # "none"
      BY <1>1 DEF UnconnectedIsFresh
    <2> QED
      BY <1>1, <1>7, <1>8, <1>9, <1>10, <2>1 DEF ConnectingIsPolled, PasswordForgotten, UnconnectedIsFresh,
                                          GreetingIsCurrent, CredentialsGiven
  <1> QED
    BY <1>10, <1>11, <1>12, <1>13

-----------------------------------------------------------------------------

\* Actions that close the connection.
LEMMA ClosingKeeps ==
  ASSUME ClientIInv, SendFails \/ ReceiveFails \/ ReadMismatch \/ ReadFailure
  PROVE  ClientIInv'
  <1>1. /\ Connected /\ Close(authSocket)
        /\ UNCHANGED <<data, isConnecting, authSocketConnected, poll_fds, commands, alive>>
    BY DEF SendFails, Sending, ReceiveFails, ReadMismatch, ReadFailure, Reading
  <1>2. data \in AuthData
    BY DEF ClientIInv, TypeOK
  <1> QED
    BY <1>1, <1>2, CloseKeeps

\* The login is complete: key and flag are stored, the password is gone already.
LEMMA ReadProofSuccessKeeps ==
  ASSUME ClientIInv, ReadProofSuccess
  PROVE  ClientIInv'
  <1>1. /\ Connected /\ arrived # <<>> /\ authSocket.status = "LOGIN_ATTEMPT"
        /\ Close([authSocket EXCEPT !.status = "AUTHED"])
        /\ data' = [data EXCEPT !.sessionKey = response.key, !.hasAuthenticated = TRUE]
        /\ UNCHANGED <<isConnecting, authSocketConnected, poll_fds, commands, alive>>
    BY DEF ReadProofSuccess, Reading
  <1>2. data \in AuthData /\ data.password = None
    BY <1>1 DEF ClientIInv, TypeOK, PasswordForgotten
  <1>3. response.key \in Nat
    BY <1>1, ArrivedTail, KeysAssumption DEF response, Responses, ClientIInv
  <1>4. data' \in AuthData /\ data'.username = data.username /\ data'.password = data.password
    BY <1>1, <1>2, <1>3 DEF AuthData
  <1> QED
    BY <1>1, <1>2, <1>4, CloseKeeps

\* Every step keeps the strengthened invariant.
LEMMA ClientStep == ClientIInv /\ [Next]_clientVars => ClientIInv'
  <1> SUFFICES ASSUME ClientIInv, [Next]_clientVars PROVE ClientIInv'
    OBVIOUS
  <1>0. TypeOK /\ data \in AuthData /\ commands \in 0..MaxCommands /\ alive \in BOOLEAN
    BY DEF ClientIInv, TypeOK
  <1>1. ASSUME NEW user \in Users, NEW password \in Passwords, CommandWhileConnecting(user, password)
        PROVE  ClientIInv'
    BY <1>1, CommandWhileConnectingKeeps
  <1>2. ASSUME NEW user \in Users, NEW password \in Passwords, CommandConnects(user, password)
        PROVE  ClientIInv'
    BY <1>2, CommandConnectsKeeps
  <1>3. ASSUME NEW user \in Users, NEW password \in Passwords, CommandFails(user, password)
        PROVE  ClientIInv'
    BY <1>0, <1>3, CommandType, DisconnectKeeps DEF CommandFails
  <1>4. CASE PollFails \/ ConnectionFails \/ Disconnected
    BY <1>0, <1>4, DisconnectKeeps DEF PollFails, ConnectionFails, Disconnected
  <1>5. CASE SendFails \/ ReceiveFails \/ ReadMismatch \/ ReadFailure
    BY <1>5, ClosingKeeps
  <1>6. CASE Handshake
    BY <1>6, HandshakeKeeps
  <1>7. CASE Send
    BY <1>7, SendKeeps
  <1>8. CASE ReadGatherSuccess
    BY <1>8, ReadGatherSuccessStep
  <1>9. CASE ReadProofSuccess
    BY <1>9, ReadProofSuccessKeeps
  <1>10. CASE SendFailsThenReceives \/ UNCHANGED clientVars
    <2>1. UNCHANGED <<data, socketVars, commands>> /\ alive' \in BOOLEAN
      BY <1>0, <1>10 DEF SendFailsThenReceives, clientVars
    <2> QED
      BY <2>1 DEF socketVars, ClientIInv, TypeOK, PollFdsMatchSocket, ConnectingIsPolled,
                  ProofMatchesGreeting, PasswordForgotten, UnconnectedIsFresh, GreetingIsCurrent,
                  CredentialsGiven
  <1>11. CASE LinkFails
    BY <1>11 DEF LinkFails, ClientIInv, TypeOK, PollFdsMatchSocket, ConnectingIsPolled,
                 ProofMatchesGreeting, PasswordForgotten, UnconnectedIsFresh, GreetingIsCurrent,
                 CredentialsGiven
  <1>12. ASSUME NEW reply \in Responses, Deliver(reply)
         PROVE  ClientIInv'
    <2>1. arrived' \in Seq(Responses)
      BY <1>0, <1>12 DEF Deliver, TypeOK
    <2> QED
      BY <1>12, <2>1 DEF Deliver, ClientIInv, TypeOK, PollFdsMatchSocket, ConnectingIsPolled,
                 ProofMatchesGreeting, PasswordForgotten, UnconnectedIsFresh, GreetingIsCurrent,
                 CredentialsGiven
  <1> QED
    BY <1>1, <1>2, <1>3, <1>4, <1>5, <1>6, <1>7, <1>8, <1>9, <1>10, <1>11, <1>12 DEF Next, Alone

-----------------------------------------------------------------------------

\* The inductive invariant of the client, for every server and network.
THEOREM ClientInvariance == Spec => []ClientIInv
  BY ClientInitial, ClientStep, PTL DEF Spec

\* Commands given at any moment never mix credentials: a proof carries the
\* password that was given with the user name of its greeting.
THEOREM CredentialsTogether == Spec => []ProofMatchesGreeting
  <1>1. ClientIInv => ProofMatchesGreeting
    BY DEF ClientIInv
  <1> QED
    BY <1>1, ClientInvariance, PTL

\* A socket that has made its proof leaves no password behind.
THEOREM PasswordIsForgotten == Spec => []PasswordForgotten
  <1>1. ClientIInv => PasswordForgotten
    BY DEF ClientIInv
  <1> QED
    BY <1>1, ClientInvariance, PTL

\* The client is never stuck in isConnecting without an entry to poll.
THEOREM PollingIsSound == Spec => []ConnectingIsPolled
  <1>1. ClientIInv => ConnectingIsPolled
    BY DEF ClientIInv
  <1> QED
    BY <1>1, ClientInvariance, PTL

\* NetworkUpdate's poll_fds[0] is the entry of the current socket, whatever
\* sockets there were before it: OnDisconnect leaves none behind.
THEOREM OnlyOwnEntry == Spec => []PollFdsMatchSocket
  <1>1. ClientIInv => PollFdsMatchSocket
    BY DEF ClientIInv
  <1> QED
    BY <1>1, ClientInvariance, PTL

-----------------------------------------------------------------------------
(* The server of AuthServer_proofs is the one of AuthLogin *)

\* The packets a client sends, as the server has them.
Sendable == {Greeting(u) : u \in Users} \cup {ProofPacket(u, p) : u \in Users, p \in Passwords}
ServerProofs == INSTANCE AuthServer_proofs WITH ClientMessages <- Sendable

\* The assumptions it makes.
LEMMA ServerAssumed ==
  /\ Sendable \subseteq ServerProofs!Gathers \cup ServerProofs!Proofs \cup ServerProofs!Unknowns
  /\ Fds \subseteq Nat \ {0} /\ MaxSessions \in Nat /\ MaxMessages \in Nat
  /\ Registered \subseteq Users
  /\ "done" \in Outcomes /\ Outcomes \subseteq {"done", "dropped"}
  /\ MaxQueue \in Nat /\ MaxKeys \in Nat
  <1>1. ASSUME NEW u \in Users
        PROVE  Greeting(u) \in ServerProofs!Gathers
    <2>1. 8 + NameLength[u] \in Nat /\ UpToDate \in BOOLEAN
      BY LengthsAssumption, UpToDateAssumption
    <2> QED
      BY <2>1 DEF Greeting, ServerProofs!Gathers
  <1>2. ASSUME NEW u \in Users, NEW p \in Passwords
        PROVE  ProofPacket(u, p) \in ServerProofs!Proofs
    <2>1. 9 + PasswordLength[p] \in Nat
      BY LengthsAssumption
    <2>2. Proof(p).size \in Nat
      BY <2>1 DEF Proof
    <2>3. (u \in Registered /\ PasswordOf[u] = p) \in BOOLEAN
      BY Zenon
    <2> QED
      BY <2>2, <2>3 DEF ProofPacket, ServerProofs!Proofs
  <1> QED
    BY <1>1, <1>2, ServerAssumption DEF Sendable

\* What it does by itself.
LEMMA SameServe == Server!Serve => ServerProofs!Serve
  BY DEF Server!Serve, ServerProofs!Serve, Server!GetResponses, ServerProofs!GetResponses, Server!RunCallback,
         ServerProofs!RunCallback, Server!CallbacksDone, ServerProofs!CallbacksDone, Server!EndOfPoll,
         ServerProofs!EndOfPoll, Server!SkipInvalid, ServerProofs!SkipInvalid, Server!SendNothing,
         ServerProofs!SendNothing, Server!SendFails, ServerProofs!SendFails, Server!ReceiveNothing,
         ServerProofs!ReceiveNothing, Server!ReceiveFails, ServerProofs!ReceiveFails, Server!Receive,
         ServerProofs!Receive, Server!ReadDone, ServerProofs!ReadDone, Server!UnknownCommand,
         ServerProofs!UnknownCommand, Server!StatusMismatch, ServerProofs!StatusMismatch, Server!TooBig,
         ServerProofs!TooBig, Server!HandleAuthLoginGatherInfoPacket,
         ServerProofs!HandleAuthLoginGatherInfoPacket, Server!WrongPassword, ServerProofs!WrongPassword,
         Server!RightPassword, ServerProofs!RightPassword, Server!NewSession, ServerProofs!NewSession,
         Server!Db!Collect, ServerProofs!Db!Collect, Server!pollVars, ServerProofs!pollVars,
         Server!clientVars, ServerProofs!clientVars, Server!QueuePacket, ServerProofs!QueuePacket,
         Server!LookedUp, ServerProofs!LookedUp, Server!GatherReply, ServerProofs!GatherReply, Server!dbVars,
         ServerProofs!dbVars, Server!AtClient, ServerProofs!AtClient, Server!NextClient,
         ServerProofs!NextClient, Server!me, ServerProofs!me, Server!Connected, ServerProofs!Connected,
         Server!s0, ServerProofs!s0, Server!Close, ServerProofs!Close, Server!IsHalf, ServerProofs!IsHalf,
         Server!packet, ServerProofs!packet, Server!Expected, ServerProofs!Expected,
         Server!S_MAX_ACCEPTED_GATHER_INFO_SIZE, ServerProofs!S_MAX_ACCEPTED_GATHER_INFO_SIZE,
         Server!Db!EnqueueSelect, ServerProofs!Db!EnqueueSelect, Server!Reading, ServerProofs!Reading,
         Server!Complete, ServerProofs!Complete, Server!Db!EnqueueLog, ServerProofs!Db!EnqueueLog,
         Server!Reply, ServerProofs!Reply, Server!Db!EnqueueDelete, ServerProofs!Db!EnqueueDelete,
         Server!Db!EnqueueInsert, ServerProofs!Db!EnqueueInsert, Server!Db!Nothing, ServerProofs!Db!Nothing,
         Server!Db!Room, ServerProofs!Db!Room, Server!Db!Select, ServerProofs!Db!Select, Server!Db!Log,
         ServerProofs!Db!Log, Server!Db!Delete, ServerProofs!Db!Delete, Server!Db!Insert,
         ServerProofs!Db!Insert

LEMMA SameInit == Server!Init => ServerProofs!Init
  BY DEF Server!Init, ServerProofs!Init, Server!Db!DbInit, ServerProofs!Db!DbInit, Server!Db!Nothing,
         ServerProofs!Db!Nothing
LEMMA SamePoll == \A incoming : Server!Poll(incoming) => ServerProofs!Poll(incoming)
  BY DEF Server!Poll, ServerProofs!Poll, Server!Polled, ServerProofs!Polled, Server!clientVars,
         ServerProofs!clientVars, Server!dbVars, ServerProofs!dbVars, Server!Events, ServerProofs!Events
LEMMA SameRest ==
  /\ Server!NoNewClient => ServerProofs!NoNewClient
  /\ Server!Failure => ServerProofs!Failure
  /\ Server!WorkerFinishes => ServerProofs!WorkerFinishes
  /\ Server!Shutdown => ServerProofs!Shutdown
  BY DEF Server!NoNewClient, ServerProofs!NoNewClient, Server!Failure, ServerProofs!Failure,
         Server!WorkerFinishes, ServerProofs!WorkerFinishes, Server!Shutdown, ServerProofs!Shutdown,
         Server!pollVars, ServerProofs!pollVars, Server!clientVars, ServerProofs!clientVars, Server!dbVars,
         ServerProofs!dbVars, Server!PollFails, ServerProofs!PollFails, Server!SslCrash,
         ServerProofs!SslCrash, Server!PasswordQueryFails, ServerProofs!PasswordQueryFails, Server!Db!Finish,
         ServerProofs!Db!Finish, Server!AtClient, ServerProofs!AtClient, Server!me, ServerProofs!me,
         Server!Reading, ServerProofs!Reading, Server!Complete, ServerProofs!Complete, Server!Db!Effect,
         ServerProofs!Db!Effect, Server!s0, ServerProofs!s0, Server!packet, ServerProofs!packet,
         Server!IsHalf, ServerProofs!IsHalf, Server!S_MAX_ACCEPTED_GATHER_INFO_SIZE,
         ServerProofs!S_MAX_ACCEPTED_GATHER_INFO_SIZE
LEMMA SameExchange ==
  /\ \A fd : Server!AcceptClient(fd) => ServerProofs!AcceptClient(fd)
  /\ \A s, m : Server!ClientSends(s, m) => ServerProofs!ClientSends(s, m)
  /\ Server!SendPacket => ServerProofs!SendPacket
  BY DEF Server!AcceptClient, ServerProofs!AcceptClient, Server!ClientSends, ServerProofs!ClientSends,
         Server!SendPacket, ServerProofs!SendPacket, Server!Reallocates, ServerProofs!Reallocates,
         Server!Grown, ServerProofs!Grown, Server!dbVars, ServerProofs!dbVars, Server!pollVars,
         ServerProofs!pollVars, Server!AtClient, ServerProofs!AtClient, Server!me, ServerProofs!me, Server!s0,
         ServerProofs!s0, Server!clientVars, ServerProofs!clientVars

-----------------------------------------------------------------------------
(* The inductive invariant *)

\* Whether the proof that the greeted server will get is the right one, and
\* whether the client has sent it.
Right == /\ authSocket.greeted.user \in Registered
         /\ PasswordOf[authSocket.greeted.user] = authSocket.greeted.password
Said  == authSocket.status # "GATHER_INFO" /\ authSocket.outQueue = <<>>
\* What the client still has to send is about the user it has named; a proof
\* is the last of it.
ToSay == \A i \in DOMAIN authSocket.outQueue :
           /\ authSocket.outQueue[i].cmd = "gather" => authSocket.outQueue[i].user = authSocket.greeted.user
           /\ authSocket.outQueue[i].cmd = "proof" =>
                i = Len(authSocket.outQueue) /\ authSocket.status # "GATHER_INFO"
\* A connected client has a session of its own, which makes of it what Serves
\* says; what it has been told, or has concluded, is the session's key.
Linked ==
    authSocketConnected =>
      /\ peer \in DOMAIN sessions /\ authSocket.greeted.user \in Users
      /\ ToSay
      /\ ServerProofs!Serves(peer, authSocket.greeted.user, Right, Said)
      /\ ServerProofs!Tells(arrived, sessions[peer].sessionKey)
      /\ authSocket.status = "AUTHED" =>
           sessions[peer].sessionKey # 0 /\ data.sessionKey = sessions[peer].sessionKey
Unlinked == ~authSocketConnected => arrived = <<>> /\ link # "up"
LoginIInv ==
    /\ ClientIInv
    /\ ServerProofs!IInv /\ ServerProofs!Granting /\ ServerProofs!KeysGiven
    /\ Unlinked /\ Linked

\* The session of a connected client.
LEMMA Peer ==
  ASSUME LoginIInv, authSocketConnected
  PROVE  peer \in DOMAIN sessions /\ peer \in ServerProofs!SessionIds
  <1>1. peer \in DOMAIN sessions
    BY DEF LoginIInv, Linked
  <1>2. sessions \in Seq(ServerProofs!SessionObjects) /\ Len(sessions) <= MaxSessions
    BY DEF LoginIInv, ServerProofs!IInv, ServerProofs!Structures, ServerProofs!Aligned
  <1>3. peer \in 1..Len(sessions) /\ Len(sessions) \in Nat
    BY <1>1, <1>2, LenProperties
  <1>4. MaxSessions \in Nat
    BY ServerAssumption
  <1> QED
    BY <1>1, <1>2, <1>3, <1>4 DEF ServerProofs!SessionIds

\* The packet the client sends, as the server has it.
LEMMA WireTells ==
  ASSUME LoginIInv, Send
  PROVE  LET m == Wire(Head(authSocket.outQueue))
         IN  /\ m \in Sendable
             /\ m.cmd = "gather" => m.user = authSocket.greeted.user
             /\ m.cmd = "proof" => (m.right <=> Right) /\ Said'
             /\ Said' => authSocket.status # "GATHER_INFO"
             /\ ~Said
  <1> DEFINE q == authSocket.outQueue
             p == Head(q)
  <1>1. authSocketConnected /\ q # <<>> /\ authSocket' = [authSocket EXCEPT !.outQueue = Tail(q)]
    BY DEF Send, Sending, Connected
  <1>2. authSocket \in AuthSessions /\ q \in Seq(Packets) /\ ProofMatchesGreeting
    BY DEF LoginIInv, ClientIInv, TypeOK, AuthSessions
  <1>3. /\ Len(q) \in Nat \ {0} /\ 1 \in DOMAIN q /\ p = q[1] /\ p \in Packets
        /\ Tail(q) \in Seq(Packets) /\ Len(Tail(q)) = Len(q) - 1
    BY <1>1, <1>2, HeadTailProperties, EmptySeq, LenProperties
  <1>4. authSocket.greeted.user \in Users /\ ToSay
    BY <1>1 DEF LoginIInv, Linked
  <1>5. /\ p.cmd = "gather" => p.user = authSocket.greeted.user
        /\ p.cmd = "proof" => p.password = authSocket.greeted.password /\ Len(q) = 1
                                /\ authSocket.status # "GATHER_INFO"
    BY <1>2, <1>3, <1>4 DEF ToSay, ProofMatchesGreeting
  <1>6. authSocket'.status = authSocket.status /\ authSocket'.outQueue = Tail(q)
    BY <1>1, <1>2 DEF AuthSessions
  <1> HIDE DEF q, p
  <1>7. p.cmd = "proof" => Said'
    <2>1. PICK t \in Seq(Packets) : t = Tail(q)
      BY <1>3
    <2>2. Len(q) = 1 => Len(t) = 0
      BY <1>3, <2>1
    <2>3. Len(q) = 1 => Tail(q) = <<>>
      BY <2>1, <2>2, EmptySeq
    <2> QED
      BY <1>5, <1>6, <2>3 DEF Said
  <1>8. CASE \E u \in Users : p = Greeting(u)
    <2>1. PICK u \in Users : p = Greeting(u)
      BY <1>8
    <2>2. Wire(p) = p /\ p.cmd = "gather" /\ p \in Sendable
      BY <2>1 DEF Wire, Greeting, Sendable
    <2> QED
      BY <1>1, <1>5, <1>6, <2>2 DEF Said, q, p
  <1>9. CASE \E w \in Passwords : p = Proof(w)
    <2>1. PICK w \in Passwords : p = Proof(w)
      BY <1>9
    <2>2. p.cmd = "proof" /\ p.password = w
      BY <2>1 DEF Proof
    <2>3. PICK u \in Users : u = authSocket.greeted.user
      BY <1>4
    <2>4. Wire(p) = ProofPacket(u, w)
      BY <2>2, <2>3 DEF Wire
    <2>5. ProofPacket(u, w).cmd = "proof" /\ (ProofPacket(u, w).right <=> u \in Registered /\ PasswordOf[u] = w)
      BY DEF ProofPacket
    <2>6. ProofPacket(u, w) \in Sendable
      BY DEF Sendable
    <2>7. w = authSocket.greeted.password
      BY <1>5, <2>2
    <2>8. ProofPacket(u, w).right <=> Right
      BY <2>3, <2>5, <2>7 DEF Right
    <2>9. Said' => authSocket.status # "GATHER_INFO"
      BY <1>6 DEF Said
    <2>10. ~Said
      BY <1>1 DEF Said, q
    <2> QED
      BY <1>7, <2>2, <2>4, <2>5, <2>6, <2>8, <2>9, <2>10 DEF q, p
  <1> QED
    BY <1>3, <1>8, <1>9 DEF Packets

\* The server's part of a step, as its own proofs know it.
LEMMA ServerTakes ==
  ASSUME LoginIInv, [LoginNext]_loginVars
  PROVE  ServerProofs!OwnStep \/ ServerProofs!Environment
  <1>1. gone \subseteq ServerProofs!SessionIds
    BY DEF LoginIInv, ServerProofs!IInv, ServerProofs!RestTypes
  <1>2. ASSUME UNCHANGED ownVars, gone' \subseteq ServerProofs!SessionIds
        PROVE  ServerProofs!Left
    BY <1>2 DEF ownVars, ServerProofs!Left, ServerProofs!pollVars, ServerProofs!dbVars
  <1>3. CASE UNCHANGED serverVars
    BY <1>1, <1>2, <1>3 DEF serverVars, ServerProofs!OwnStep
  <1>4. CASE UNCHANGED ownVars /\ Leave
    <2>1. link = "up" => authSocketConnected
      BY DEF LoginIInv, Unlinked
    <2>2. gone' \subseteq ServerProofs!SessionIds
      BY <1>1, <1>4, <2>1, Peer DEF Leave
    <2> QED
      BY <1>2, <1>4, <2>2 DEF ServerProofs!OwnStep
  <1>5. CASE ServerAlone
    BY <1>5, SameServe, SamePoll, SameRest DEF ServerAlone, ServerProofs!OwnStep, ServerProofs!PollLoop
  <1>6. CASE Meet
    BY <1>6, SameExchange DEF Meet, ServerProofs!OwnStep, ServerProofs!PollLoop
  <1>7. CASE ClientSends
    <2>1. CASE Server!ClientSends(peer, Wire(Head(authSocket.outQueue)))
      <3>1. authSocketConnected /\ Send
        BY <1>7 DEF ClientSends, Send, Sending, Connected
      <3>2. peer \in DOMAIN sessions /\ Wire(Head(authSocket.outQueue)) \in Sendable
        BY <3>1, Peer, WireTells
      <3> QED
        BY <2>1, <3>2, SameExchange DEF ServerProofs!Environment, Sendable
    <2> QED
      BY <1>3, <1>7, <2>1 DEF ClientSends
  <1>8. CASE ServerSends
    BY <1>8, SameExchange DEF ServerSends, ServerProofs!OwnStep, ServerProofs!PollLoop
  <1>9. CASE ClientAlone \/ ConnectionLost
    BY <1>4, <1>9 DEF ClientAlone, ConnectionLost
  <1>10. CASE UNCHANGED loginVars
    BY <1>3, <1>10 DEF loginVars, serverVars
  <1> QED
    BY <1>5, <1>6, <1>7, <1>8, <1>9, <1>10 DEF LoginNext

\* What its proofs say of such a step.
LEMMA ServerKeeps ==
  ASSUME LoginIInv, [LoginNext]_loginVars
  PROVE  ServerProofs!IInv' /\ ServerProofs!Granting' /\ ServerProofs!KeysGiven'
  <1>1. ServerProofs!IInv /\ ServerProofs!Granting /\ ServerProofs!KeysGiven
    BY DEF LoginIInv
  <1>2. ServerProofs!OwnStep \/ ServerProofs!Environment
    BY ServerTakes
  <1>3. ServerProofs!Left \/ ServerProofs!Next
    BY <1>2 DEF ServerProofs!OwnStep, ServerProofs!Next
  <1>4. ServerProofs!IInv'
    BY <1>1, <1>3, ServerAssumed, ServerProofs!LeftKeeps, ServerProofs!NextIInv
  <1>5. ServerProofs!Granting'
    BY <1>1, <1>2, ServerAssumed, ServerProofs!GrantingStep
  <1>6. ServerProofs!KeysGiven'
    BY <1>1, <1>2, ServerAssumed, ServerProofs!KeysGrow
  <1> QED
    BY <1>4, <1>5, <1>6

\* The reply that is sent is a response the client knows.
LEMMA ReplyKnown ==
  ASSUME LoginIInv, Server!SendPacket, Server!s0 = peer
  PROVE  /\ sessions[peer].outQueue \in Seq(ServerProofs!Replies) /\ sessions[peer].outQueue # <<>>
         /\ Server!me.outQueue = sessions[peer].outQueue
         /\ Head(sessions[peer].outQueue) \in Responses
         /\ peer \in DOMAIN sessions /\ ServerProofs!SendPacket
  <1>1. ServerProofs!SendPacket /\ ServerProofs!s0 = peer /\ Server!me = sessions[peer]
    BY SameExchange DEF Server!s0, ServerProofs!s0, Server!me
  <1>2. ServerProofs!me = sessions[peer] /\ ServerProofs!me.outQueue # <<>> /\ turn <= Len(pollFds)
    BY <1>1 DEF ServerProofs!SendPacket, ServerProofs!AtClient, ServerProofs!me
  <1>3. peer \in DOMAIN sessions
    BY <1>1, <1>2, ServerAssumed, ServerProofs!Me DEF LoginIInv
  <1>4. sessions[peer].outQueue \in Seq(ServerProofs!Replies)
    BY <1>3, ServerAssumed, ServerProofs!SessionTypes DEF LoginIInv
  <1>5. Head(sessions[peer].outQueue) \in ServerProofs!Replies
    BY <1>2, <1>4, HeadTailProperties
  <1>6. Head(sessions[peer].outQueue) \in Responses
    BY <1>5, KeysOfServerAssumption
    DEF ServerProofs!Replies, ServerProofs!Results, Responses, GatherResults, ProofResults
  <1> QED
    BY <1>1, <1>2, <1>3, <1>4, <1>6

\* The client's part of a step, as its own proofs know it.
LEMMA ClientTakes ==
  ASSUME LoginIInv, [LoginNext]_loginVars
  PROVE  [Next]_clientVars
  <1>1. CASE ServerAlone \/ UNCHANGED loginVars
    BY <1>1 DEF ServerAlone, loginVars
  <1>2. CASE ClientAlone \/ Meet \/ ClientSends \/ ConnectionLost
    BY <1>2 DEF ClientAlone, Meet, ClientSends, ConnectionLost, Next
  <1>3. CASE ServerSends
    <2>1. ASSUME Server!s0 = peer, Deliver(Head(Server!me.outQueue))
          PROVE  Next
      BY <1>3, <2>1, ReplyKnown DEF ServerSends, Next
    <2> QED
      BY <1>3, <2>1 DEF ServerSends, Next
  <1> QED
    BY <1>1, <1>2, <1>3 DEF LoginNext

-----------------------------------------------------------------------------
(* The link between the two *)

\* What the server does of itself leaves the client's session what it was.
LEMMA LinkHolds ==
  ASSUME LoginIInv, ServerProofs!OwnStep, NEW s \in DOMAIN sessions, NEW u, NEW right \in BOOLEAN, NEW said,
         ServerProofs!Serves(s, u, right, said)
  PROVE  /\ s \in DOMAIN sessions'
         /\ ServerProofs!Serves(s, u, right, said)'
         /\ sessions[s].sessionKey # 0 => sessions'[s].sessionKey = sessions[s].sessionKey
  <1>1. ServerProofs!IInv /\ ServerProofs!Granting /\ ServerProofs!KeysGiven
    BY DEF LoginIInv
  <1>2. DOMAIN sessions \subseteq DOMAIN sessions'
    BY <1>1, ServerAssumed, ServerProofs!SessionsStay
  <1> QED
    BY <1>1, <1>2, ServerAssumed, ServerProofs!ServesStep

\* So the link is kept by such a step together with one of a client that
\* stays connected, if what the client has heard and concludes fits the
\* session as it was.
LEMMA LinkKept ==
  ASSUME LoginIInv, authSocketConnected, ServerProofs!OwnStep, peer' = peer,
         authSocket'.greeted = authSocket.greeted, ToSay', Said => Said',
         ServerProofs!Tells(arrived', sessions[peer].sessionKey),
         authSocket'.status = "AUTHED" =>
           sessions[peer].sessionKey # 0 /\ data'.sessionKey = sessions[peer].sessionKey
  PROVE  Linked'
  <1>1. PICK s, u, w, k : s = peer /\ u = authSocket.greeted.user /\ w = authSocket.greeted.password
                          /\ k = sessions[peer].sessionKey
    OBVIOUS
  <1>2. PICK right \in BOOLEAN : right = (u \in Registered /\ PasswordOf[u] = w)
    BY Zenon
  <1>3. s \in DOMAIN sessions /\ u \in Users
    BY <1>1 DEF LoginIInv, Linked
  <1>4. Right = right /\ Right' = right
    BY <1>1, <1>2 DEF Right
  <1>5. ServerProofs!Serves(s, u, right, Said)
    BY <1>1, <1>4 DEF LoginIInv, Linked
  <1>6. PICK said \in BOOLEAN : said = Said'
    BY Zenon DEF Said
  <1>7. ServerProofs!Serves(s, u, right, said)
    BY <1>5, <1>6 DEF ServerProofs!Serves, ServerProofs!Hearing, ServerProofs!Answering
  <1>8. /\ s \in DOMAIN sessions'
        /\ ServerProofs!Serves(s, u, right, said)'
        /\ k # 0 => sessions'[s].sessionKey = k
    BY <1>1, <1>3, <1>7, LinkHolds
  <1>9. ServerProofs!Serves(peer, authSocket.greeted.user, Right, Said)'
    BY <1>1, <1>4, <1>6, <1>8 DEF ServerProofs!Serves
  <1>10. ServerProofs!Tells(arrived, sessions[peer].sessionKey)'
    BY <1>1, <1>8 DEF ServerProofs!Tells
  <1> QED
    BY <1>1, <1>3, <1>8, <1>9, <1>10 DEF Linked

\* What a client keeps of what it has to say.
LEMMA StillToSay ==
  ASSUME ToSay, authSocket'.greeted = authSocket.greeted, authSocket'.outQueue = authSocket.outQueue,
         authSocket.status # "GATHER_INFO" => authSocket'.status # "GATHER_INFO"
  PROVE  ToSay'
  BY DEF ToSay

\* The steps of the client alone, one by one: the link is given up ...
LEMMA Disconnects ==
  ASSUME LoginIInv, OnDisconnect
  PROVE  Linked' /\ Unlinked'
  BY DEF OnDisconnect, Linked, Unlinked

\* ... or the connection closed, with what has arrived and was not read.
LEMMA ClosedKeeps ==
  ASSUME LoginIInv, authSocketConnected, ServerProofs!OwnStep, peer' = peer, Close(authSocket),
         UNCHANGED <<data, authSocketConnected>>
  PROVE  Linked' /\ Unlinked'
  <1>1. authSocket \in AuthSessions /\ Linked
    BY DEF LoginIInv, ClientIInv, TypeOK
  <1>2. /\ authSocket'.greeted = authSocket.greeted /\ authSocket'.outQueue = authSocket.outQueue
        /\ authSocket'.status = authSocket.status /\ arrived' = <<>>
    BY <1>1 DEF Close, AuthSessions
  <1>3. ToSay' /\ (Said => Said')
    BY <1>1, <1>2, StillToSay DEF Said, Linked
  <1>4. ServerProofs!Tells(arrived', sessions[peer].sessionKey)
    BY <1>2 DEF ServerProofs!Tells
  <1>5. Linked'
    BY <1>1, <1>2, <1>3, <1>4, LinkKept DEF Linked
  <1>6. Unlinked'
    BY DEF Unlinked
  <1> QED
    BY <1>5, <1>6

\* The answer to the greeting is read: the proof is queued, behind whatever
\* is to be sent before it.
LEMMA GatherReadKeeps ==
  ASSUME LoginIInv, ServerProofs!OwnStep, peer' = peer, ReadGatherSuccess
  PROVE  Linked' /\ Unlinked'
  <1> DEFINE q == authSocket.outQueue
             proof == Proof(data.password)
  <1>1. /\ authSocketConnected /\ arrived # <<>> /\ authSocket.status = "GATHER_INFO"
        /\ authSocket' = [authSocket EXCEPT !.status = "LOGIN_ATTEMPT", !.outQueue = Append(q, proof)]
        /\ arrived' = Tail(arrived) /\ UNCHANGED authSocketConnected
    BY DEF ReadGatherSuccess, Reading, Connected
  <1>2. authSocket \in AuthSessions /\ Linked /\ data.password \in Passwords /\ arrived \in Seq(Responses)
    <2>1. poll_fds # <<>>
      BY DEF ReadGatherSuccess, Reading, Connected, Polled
    <2> QED
      BY <1>1, <2>1 DEF LoginIInv, ClientIInv, TypeOK, CredentialsGiven
  <1>3. q \in Seq(Packets) /\ proof \in Packets /\ proof.cmd = "proof"
    BY <1>2, PacketShapes DEF AuthSessions, Proof
  <1>4. ToSay /\ ServerProofs!Tells(arrived, sessions[peer].sessionKey)
    BY <1>1, <1>2 DEF Linked
  <1> HIDE DEF proof
  <1>5. /\ authSocket'.greeted = authSocket.greeted /\ authSocket'.outQueue = Append(q, proof)
        /\ authSocket'.status = "LOGIN_ATTEMPT"
    BY <1>1, <1>2 DEF AuthSessions
  <1>6. /\ DOMAIN Append(q, proof) = 1..(Len(q) + 1) /\ DOMAIN q = 1..Len(q) /\ Len(q) \in Nat
        /\ Append(q, proof)[Len(q) + 1] = proof /\ Len(Append(q, proof)) = Len(q) + 1
        /\ \A i \in DOMAIN q : Append(q, proof)[i] = q[i]
    BY <1>3, AppendPacket, AppendProperties
  <1>7. ToSay'
    <2>1. \A i \in DOMAIN q : q[i].cmd # "proof" /\ (q[i].cmd = "gather" => q[i].user = authSocket.greeted.user)
      BY <1>1, <1>4 DEF ToSay
    <2> HIDE DEF q
    <2>2. ASSUME NEW i \in DOMAIN Append(q, proof)
          PROVE  i = Len(q) + 1 \/ i \in DOMAIN q
      BY <1>6
    <2>3. ASSUME NEW i \in DOMAIN Append(q, proof)
          PROVE  /\ Append(q, proof)[i].cmd = "gather" => Append(q, proof)[i].user = authSocket.greeted.user
                 /\ Append(q, proof)[i].cmd = "proof" => i = Len(Append(q, proof))
      <3>1. CASE i = Len(q) + 1
        BY <1>3, <1>6, <3>1
      <3>2. CASE i \in DOMAIN q
        BY <1>6, <2>1, <3>2
      <3> QED
        BY <2>2, <3>1, <3>2
    <2> QED
      BY <1>5, <2>3 DEF ToSay
  <1>8. Said => Said'
    BY <1>1 DEF Said
  <1>9. ServerProofs!Tells(arrived', sessions[peer].sessionKey)
    BY <1>1, <1>2, <1>4, ServerAssumed, ServerProofs!ReplyTaken
  <1>10. Linked'
    BY <1>1, <1>5, <1>7, <1>8, <1>9, LinkKept
  <1> QED
    BY <1>1, <1>10 DEF Unlinked

\* The answer to the proof is read: the key is the one of the session.
LEMMA ProofReadKeeps ==
  ASSUME LoginIInv, ServerProofs!OwnStep, peer' = peer, ReadProofSuccess
  PROVE  Linked' /\ Unlinked'
  <1>1. /\ authSocketConnected /\ arrived # <<>> /\ Head(arrived).result = "proofSuccess"
        /\ authSocket.status = "LOGIN_ATTEMPT"
        /\ authSocket' = [[authSocket EXCEPT !.status = "AUTHED"] EXCEPT !.open = FALSE]
        /\ arrived' = <<>> /\ UNCHANGED authSocketConnected
        /\ data' = [data EXCEPT !.sessionKey = Head(arrived).key, !.hasAuthenticated = TRUE]
    BY DEF ReadProofSuccess, Reading, Connected, response, Close
  <1>2. authSocket \in AuthSessions /\ data \in AuthData /\ Linked /\ arrived \in Seq(Responses)
    BY DEF LoginIInv, ClientIInv, TypeOK
  <1>3. /\ authSocket'.greeted = authSocket.greeted /\ authSocket'.outQueue = authSocket.outQueue
        /\ authSocket'.status = "AUTHED" /\ data'.sessionKey = Head(arrived).key
    BY <1>1, <1>2 DEF AuthSessions, AuthData
  <1>4. ToSay' /\ (Said => Said')
    BY <1>1, <1>2, <1>3, StillToSay DEF Said, Linked
  <1>5. ServerProofs!Tells(arrived, sessions[peer].sessionKey)
    BY <1>1, <1>2 DEF Linked
  <1>6. sessions[peer].sessionKey # 0 /\ Head(arrived).key = sessions[peer].sessionKey
    BY <1>1, <1>2, <1>5, ServerAssumed, ServerProofs!ReplyTaken
  <1>7. ServerProofs!Tells(arrived', sessions[peer].sessionKey)
    BY <1>1 DEF ServerProofs!Tells
  <1>8. Linked'
    BY <1>1, <1>3, <1>4, <1>6, <1>7, LinkKept
  <1> QED
    BY <1>1, <1>8 DEF Unlinked

\* The client has changed nothing of it.
LEMMA IdleKeeps ==
  ASSUME LoginIInv, ServerProofs!OwnStep, peer' = peer,
         UNCHANGED <<authSocket, authSocketConnected, arrived>>, link' \in {link, "down"},
         data'.sessionKey = data.sessionKey
  PROVE  Linked' /\ Unlinked'
  <1>1. Linked /\ Unlinked
    BY DEF LoginIInv
  <1>2. CASE authSocketConnected
    <2>1. ToSay' /\ (Said => Said')
      BY <1>1, <1>2, StillToSay DEF Said, Linked
    <2>2. Linked'
      BY <1>1, <1>2, <2>1, LinkKept DEF Linked
    <2> QED
      BY <1>2, <2>2 DEF Unlinked
  <1>3. CASE ~authSocketConnected
    BY <1>1, <1>3 DEF Linked, Unlinked
  <1> QED
    BY <1>2, <1>3

\* All of what a client does alone.
LEMMA AloneKeeps ==
  ASSUME LoginIInv, ServerProofs!OwnStep, peer' = peer, Alone
  PROVE  Linked' /\ Unlinked'
  <1>1. data \in AuthData /\ UnconnectedIsFresh /\ Unlinked
    BY DEF LoginIInv, ClientIInv, TypeOK
  <1>2. ASSUME NEW user \in Users, NEW password \in Passwords, Command(user, password)
        PROVE  data'.sessionKey = data.sessionKey
    BY <1>1, <1>2 DEF Command, AuthData
  <1>3. ASSUME NEW user \in Users, NEW password \in Passwords, CommandWhileConnecting(user, password)
        PROVE  Linked' /\ Unlinked'
    BY <1>2, <1>3, IdleKeeps DEF CommandWhileConnecting, socketVars
  <1>4. ASSUME NEW user \in Users, NEW password \in Passwords, CommandConnects(user, password)
        PROVE  Linked' /\ Unlinked'
    BY <1>1, <1>4 DEF CommandConnects, UnconnectedIsFresh, Linked, Unlinked
  <1>5. ASSUME NEW user \in Users, NEW password \in Passwords, CommandFails(user, password)
        PROVE  Linked' /\ Unlinked'
    BY <1>5, Disconnects DEF CommandFails
  <1>6. CASE PollFails \/ ConnectionFails \/ Disconnected
    BY <1>6, Disconnects DEF PollFails, ConnectionFails, Disconnected
  <1>7. CASE SendFails \/ ReceiveFails \/ ReadMismatch \/ ReadFailure
    <2>1. authSocketConnected /\ Close(authSocket) /\ UNCHANGED <<data, authSocketConnected>>
      BY <1>7 DEF SendFails, Sending, ReceiveFails, ReadMismatch, ReadFailure, Reading, Connected
    <2> QED
      BY <2>1, ClosedKeeps
  <1>8. CASE SendFailsThenReceives
    BY <1>8, IdleKeeps DEF SendFailsThenReceives, socketVars
  <1> QED
    BY <1>3, <1>4, <1>5, <1>6, <1>7, <1>8, GatherReadKeeps, ProofReadKeeps DEF Alone

\* The handshake: the two ends of a new connection know nothing of each other.
LEMMA MeetKeeps ==
  ASSUME LoginIInv, Meet
  PROVE  Linked' /\ Unlinked'
  <1> DEFINE greeting == Greeting(data.username)
  <1>1. /\ ~authSocketConnected /\ poll_fds # <<>> /\ authSocketConnected' /\ UNCHANGED arrived
        /\ authSocket' = [authSocket EXCEPT !.outQueue = Append(authSocket.outQueue, greeting),
                                            !.greeted = [user |-> data.username, password |-> data.password]]
        /\ peer' = Len(sessions')
    BY DEF Meet, Handshake, Polled
  <1>2. /\ authSocket \in AuthSessions /\ authSocket.outQueue = <<>> /\ authSocket.status = "GATHER_INFO"
        /\ data.username \in Users /\ arrived = <<>>
    BY <1>1 DEF LoginIInv, ClientIInv, TypeOK, UnconnectedIsFresh, CredentialsGiven, Unlinked
  <1>3. greeting.cmd = "gather" /\ greeting.user = data.username
    BY DEF Greeting
  <1> HIDE DEF greeting
  <1>4. /\ authSocket'.outQueue = <<greeting>> /\ authSocket'.greeted.user = data.username
        /\ authSocket'.greeted.password = data.password /\ authSocket'.status = "GATHER_INFO"
    BY <1>1, <1>2 DEF AuthSessions
  <1>5. PICK n, u, w : n = Len(sessions') /\ u = data.username /\ w = data.password
    OBVIOUS
  <1>6. PICK right \in BOOLEAN : right = (u \in Registered /\ PasswordOf[u] = w)
    BY Zenon
  <1>7. Right' = right
    BY <1>4, <1>5, <1>6 DEF Right
  <1>8. n \in DOMAIN sessions' /\ \A said : ServerProofs!Serves(n, u, right, said)'
    <2>1. PICK fd \in Fds : ServerProofs!AcceptClient(fd)
      BY SameExchange DEF Meet
    <2>2. ServerProofs!IInv
      BY DEF LoginIInv
    <2> QED
      BY <1>5, <2>1, <2>2, ServerAssumed, ServerProofs!ServesNew
  <1>9. ServerProofs!Serves(peer, authSocket.greeted.user, Right, Said)'
    BY <1>1, <1>4, <1>5, <1>7, <1>8 DEF ServerProofs!Serves
  <1>10. ToSay'
    BY <1>3, <1>4 DEF ToSay
  <1>11. ServerProofs!Tells(arrived, sessions[peer].sessionKey)'
    BY <1>1, <1>2 DEF ServerProofs!Tells
  <1>12. Linked'
    BY <1>1, <1>2, <1>4, <1>5, <1>8, <1>9, <1>10, <1>11 DEF Linked
  <1> QED
    BY <1>1, <1>12 DEF Unlinked

\* A packet is sent, and arrives or is lost with its connection.
LEMMA ClientSendsKeeps ==
  ASSUME LoginIInv, ClientSends
  PROVE  Linked' /\ Unlinked'
  <1> DEFINE q == authSocket.outQueue
             m == Wire(Head(q))
  <1>1. /\ authSocketConnected /\ q # <<>> /\ authSocket' = [authSocket EXCEPT !.outQueue = Tail(q)]
        /\ UNCHANGED <<data, arrived, peer, authSocketConnected>> /\ Send
    BY DEF ClientSends, Send, Sending, Connected
  <1>2. authSocket \in AuthSessions /\ q \in Seq(Packets) /\ Linked
    BY DEF LoginIInv, ClientIInv, TypeOK, AuthSessions
  <1>3. /\ authSocket'.outQueue = Tail(q) /\ authSocket'.status = authSocket.status
        /\ authSocket'.greeted = authSocket.greeted
    BY <1>1, <1>2 DEF AuthSessions
  <1>4. ToSay
    BY <1>1, <1>2 DEF Linked
  <1>5. ToSay'
    <2>1. PICK t \in Seq(Packets) : t = Tail(q)
      BY <1>1, <1>2, HeadTailProperties
    <2>2. /\ Len(t) = Len(q) - 1 /\ Len(q) \in Nat /\ DOMAIN t = 1..Len(t) /\ DOMAIN q = 1..Len(q)
          /\ \A i \in 1..Len(t) : t[i] = q[i + 1]
      BY <1>1, <1>2, <2>1, HeadTailProperties, LenProperties
    <2>3. \A i \in DOMAIN t : i + 1 \in DOMAIN q /\ t[i] = q[i + 1] /\ (i + 1 = Len(q) => i = Len(t))
      BY <2>2
    <2> HIDE DEF q
    <2>4. \A i \in DOMAIN q : /\ q[i].cmd = "gather" => q[i].user = authSocket.greeted.user
                              /\ q[i].cmd = "proof" => i = Len(q) /\ authSocket.status # "GATHER_INFO"
      BY <1>4 DEF ToSay, q
    <2>5. \A i \in DOMAIN t : /\ t[i].cmd = "gather" => t[i].user = authSocket.greeted.user
                              /\ t[i].cmd = "proof" => i = Len(t) /\ authSocket.status # "GATHER_INFO"
      BY <2>3, <2>4
    <2> QED
      BY <1>3, <2>1, <2>5 DEF ToSay
  <1>6. /\ m \in Sendable /\ ~Said
        /\ m.cmd = "gather" => m.user = authSocket.greeted.user
        /\ m.cmd = "proof" => (m.right <=> Right) /\ Said'
    BY <1>1, WireTells
  <1>7. CASE UNCHANGED serverVars
    <2>1. ServerProofs!OwnStep
      <3>1. gone' \subseteq ServerProofs!SessionIds
        BY <1>7 DEF serverVars, LoginIInv, ServerProofs!IInv, ServerProofs!RestTypes
      <3> QED
        BY <1>7, <3>1 DEF serverVars, ownVars, ServerProofs!OwnStep, ServerProofs!Left, ServerProofs!pollVars,
                          ServerProofs!dbVars
    <2>2. Linked'
      BY <1>1, <1>2, <1>3, <1>5, <1>6, <2>1, LinkKept DEF Linked
    <2> QED
      BY <1>1, <2>2 DEF Unlinked
  <1>8. CASE ServerProofs!ClientSends(peer, m)
    <2>1. PICK s, u, w, x : s = peer /\ u = authSocket.greeted.user /\ w = authSocket.greeted.password /\ x = m
      OBVIOUS
    <2>2. PICK right \in BOOLEAN : right = (u \in Registered /\ PasswordOf[u] = w)
      BY Zenon
    <2>3. Right = right /\ Right' = right
      BY <1>3, <2>1, <2>2 DEF Right
    <2>4. PICK before, said \in BOOLEAN : before = Said /\ said = Said'
      BY Zenon DEF Said
    <2>5. s \in DOMAIN sessions /\ u \in Users /\ ServerProofs!Serves(s, u, right, before)
      BY <1>1, <1>2, <2>1, <2>3, <2>4 DEF Linked
    <2>6. x.cmd = "proof" => x.right = right
      <3>1. x \in ServerProofs!Gathers \cup ServerProofs!Proofs \cup ServerProofs!Unknowns
        BY <1>6, <2>1, ServerAssumed
      <3>2. x.cmd = "proof" => x.right \in BOOLEAN
        BY <3>1 DEF ServerProofs!Gathers, ServerProofs!Proofs, ServerProofs!Unknowns
      <3> QED
        BY <1>6, <2>1, <2>2, <2>3, <3>2
    <2>7. ServerProofs!Serves(s, u, right, said)'
      <3>1. ServerProofs!IInv /\ ServerProofs!ClientSends(s, x) /\ x \in Sendable
        BY <1>6, <1>8, <2>1 DEF LoginIInv
      <3>2. (x.cmd = "gather" => x.user = u) /\ (x.cmd = "proof" => x.right = right /\ said)
        BY <1>6, <2>1, <2>4, <2>6
      <3>3. ~before
        BY <1>6, <2>4
      <3> QED
        BY <2>5, <3>1, <3>2, <3>3, ServerAssumed, ServerProofs!ServesMessage
    <2>8. ServerProofs!Serves(peer, authSocket.greeted.user, Right, Said)'
      BY <1>1, <1>3, <2>1, <2>3, <2>4, <2>7 DEF ServerProofs!Serves
    <2>9. sessions' = sessions
      BY <1>8 DEF ServerProofs!ClientSends
    <2>10. Linked'
      BY <1>1, <1>2, <1>3, <1>5, <2>8, <2>9 DEF Linked
    <2> QED
      BY <1>1, <2>10 DEF Unlinked
  <1> QED
    BY <1>7, <1>8, SameExchange DEF ClientSends

\* A reply is sent, and reaches the client or breaks its connection.
LEMMA ServerSendsKeeps ==
  ASSUME LoginIInv, ServerSends
  PROVE  Linked' /\ Unlinked'
  <1>1. /\ peer' = peer /\ ServerProofs!SendPacket /\ ServerProofs!OwnStep /\ Linked /\ Unlinked
        /\ arrived \in Seq(Responses)
    BY SameExchange DEF ServerSends, ServerProofs!OwnStep, ServerProofs!PollLoop, LoginIInv, ClientIInv, TypeOK
  <1>2. CASE Server!s0 = peer /\ Deliver(Head(Server!me.outQueue))
    <2>1. /\ peer \in DOMAIN sessions /\ sessions[peer].outQueue \in Seq(ServerProofs!Replies)
          /\ sessions[peer].outQueue # <<>> /\ Server!me.outQueue = sessions[peer].outQueue
          /\ Head(sessions[peer].outQueue) \in Responses
      BY <1>2, ReplyKnown DEF ServerSends
    <2>2. PICK reply \in Responses : reply = Head(sessions[peer].outQueue)
      BY <2>1
    <2>3. /\ link = "up" /\ arrived' = Append(arrived, reply)
          /\ UNCHANGED <<data, authSocket, authSocketConnected, link>>
      BY <1>2, <2>1, <2>2 DEF Deliver
    <2>4. authSocketConnected
      BY <1>1, <2>3 DEF Unlinked
    <2>5. ServerProofs!Tells(sessions[peer].outQueue, sessions[peer].sessionKey)
      BY <1>1, <2>4 DEF Linked, ServerProofs!Serves, ServerProofs!Answering
    <2>6. reply.result = "proofSuccess" => sessions[peer].sessionKey # 0 /\ reply.key = sessions[peer].sessionKey
      BY <2>1, <2>2, <2>5, ServerAssumed, ServerProofs!ReplyTaken
    <2>7. ServerProofs!Tells(arrived', sessions[peer].sessionKey)
      BY <1>1, <2>3, <2>4, <2>6, ServerAssumed, ServerProofs!ReplyAdded DEF Linked
    <2>8. ToSay' /\ (Said => Said')
      BY <1>1, <2>3, <2>4, StillToSay DEF Said, Linked
    <2>9. Linked'
      BY <1>1, <2>3, <2>4, <2>7, <2>8, LinkKept DEF Linked
    <2> QED
      BY <2>3, <2>4, <2>9 DEF Unlinked
  <1>3. CASE LinkFails \/ UNCHANGED clientVars
    BY <1>1, <1>3, IdleKeeps DEF LinkFails, clientVars, socketVars
  <1> QED
    BY <1>2, <1>3 DEF ServerSends

\* The invariant holds at the start ...
LEMMA LoginInitial == LoginInit => LoginIInv
  <1> SUFFICES ASSUME LoginInit PROVE LoginIInv
    OBVIOUS
  <1>1. ClientIInv
    BY ClientInitial DEF LoginInit
  <1>2. ServerProofs!Init
    BY SameInit DEF LoginInit
  <1>3. ServerProofs!IInv /\ ServerProofs!Granting /\ ServerProofs!KeysGiven
    BY <1>2, ServerAssumed, ServerProofs!InitIInv, ServerProofs!InitGranting
  <1>4. Unlinked /\ Linked
    BY DEF LoginInit, Init, Unlinked, Linked
  <1> QED
    BY <1>1, <1>3, <1>4 DEF LoginIInv

\* ... and after every step.
LEMMA LoginStep == LoginIInv /\ [LoginNext]_loginVars => LoginIInv'
  <1> SUFFICES ASSUME LoginIInv, [LoginNext]_loginVars PROVE LoginIInv'
    OBVIOUS
  <1>1. ClientIInv'
    BY ClientTakes, ClientStep DEF LoginIInv
  <1>2. ServerProofs!IInv' /\ ServerProofs!Granting' /\ ServerProofs!KeysGiven'
    BY ServerKeeps
  <1>3. ServerProofs!OwnStep \/ ServerProofs!Environment
    BY ServerTakes
  <1>4. Linked' /\ Unlinked'
    <2>1. ASSUME ServerProofs!OwnStep, peer' = peer, UNCHANGED clientVars
          PROVE  Linked' /\ Unlinked'
      BY <2>1, IdleKeeps DEF clientVars, socketVars
    <2>2. CASE ServerAlone
      <3>1. ServerProofs!OwnStep
        BY <2>2, SameServe, SamePoll, SameRest DEF ServerAlone, ServerProofs!OwnStep, ServerProofs!PollLoop
      <3> QED
        BY <2>1, <2>2, <3>1 DEF ServerAlone
    <2>3. ASSUME UNCHANGED ownVars, Leave \/ UNCHANGED gone
          PROVE  ServerProofs!OwnStep
      <3>1. gone \subseteq ServerProofs!SessionIds /\ (link = "up" => authSocketConnected)
        BY DEF LoginIInv, ServerProofs!IInv, ServerProofs!RestTypes, Unlinked
      <3>2. gone' \subseteq ServerProofs!SessionIds
        BY <2>3, <3>1, Peer DEF Leave
      <3> QED
        BY <2>3, <3>2 DEF ownVars, ServerProofs!OwnStep, ServerProofs!Left, ServerProofs!pollVars,
                          ServerProofs!dbVars
    <2>4. CASE ClientAlone
      BY <2>3, <2>4, AloneKeeps DEF ClientAlone
    <2>5. CASE ConnectionLost
      BY <2>3, <2>5, IdleKeeps DEF ConnectionLost, LinkFails
    <2>6. CASE UNCHANGED loginVars
      BY <2>1, <2>3, <2>6 DEF loginVars, serverVars
    <2> QED
      BY <2>2, <2>4, <2>5, <2>6, MeetKeeps, ClientSendsKeeps, ServerSendsKeeps DEF LoginNext
  <1> QED
    BY <1>1, <1>2, <1>4 DEF LoginIInv

-----------------------------------------------------------------------------
(* What follows *)

\* The inductive invariant holds in every behaviour of the two.
THEOREM LoginInvariance == LoginSpec => []LoginIInv
  BY LoginInitial, LoginStep, PTL DEF LoginSpec

\* A client that is told it is logged in gave the right password for the
\* account it named, and holds the key that its session issued to it:
\* HandlePacketAuthLoginProofResponse and HandleAuthLoginProofPacket agree,
\* whatever commands, earlier connections and losses come between them.
THEOREM KeysAgree == LoginSpec => []KeyAgreement
  <1>1. LoginIInv => KeyAgreement
    <2> SUFFICES ASSUME LoginIInv, authSocket.status = "AUTHED"
                 PROVE  /\ authSocket.greeted.user \in Registered
                        /\ authSocket.greeted.password = PasswordOf[authSocket.greeted.user]
                        /\ sessions[peer].account = authSocket.greeted.user
                        /\ sessions[peer].sessionKey = data.sessionKey
      BY DEF KeyAgreement
    <2>1. authSocketConnected
      BY DEF LoginIInv, ClientIInv, UnconnectedIsFresh
    <2>2. /\ ServerProofs!Serves(peer, authSocket.greeted.user, Right, Said)
          /\ sessions[peer].sessionKey # 0 /\ data.sessionKey = sessions[peer].sessionKey
      BY <2>1 DEF LoginIInv, Linked
    <2>3. Right /\ sessions[peer].status = "LOGIN_ATTEMPT" /\ sessions[peer].account = authSocket.greeted.user
      BY <2>2 DEF ServerProofs!Serves, ServerProofs!Hearing, ServerProofs!Answering
    <2> QED
      BY <2>2, <2>3 DEF Right
  <1> QED
    BY <1>1, LoginInvariance, PTL

\* POLLOUT follows the queue with these clients as well.
THEOREM LoginPollFollowsQueue == LoginSpec => []PollMatchesQueue
  <1>1. LoginIInv => PollMatchesQueue
    BY DEF LoginIInv, ServerProofs!IInv, ServerProofs!PollMatchesQueue, PollMatchesQueue, Server!PollMatchesQueue
  <1> QED
    BY <1>1, LoginInvariance, PTL

\* The refinement: what the composition does to the database is what
\* LoginDatabase describes.
LEMMA LoginUsesDatabase == LoginIInv /\ [LoginNext]_loginVars => [Server!Db!DbNext]_(Server!Db!dbVars)
  <1> SUFFICES ASSUME LoginIInv, [LoginNext]_loginVars PROVE [Server!Db!DbNext]_(Server!Db!dbVars)
    OBVIOUS
  <1>1. [ServerProofs!Db!DbNext]_(ServerProofs!dbVars)
    BY ServerTakes, ServerAssumed, ServerProofs!OwnUsesDatabase DEF LoginIInv
  <1> QED
    BY <1>1 DEF ServerProofs!dbVars, Server!SessionIds, ServerProofs!SessionIds,
         Server!Db!DbNext, ServerProofs!Db!DbNext, Server!Db!dbVars, ServerProofs!Db!dbVars,
         Server!Db!EnqueueSelect, ServerProofs!Db!EnqueueSelect, Server!Db!EnqueueLog,
         ServerProofs!Db!EnqueueLog, Server!Db!EnqueueDelete, ServerProofs!Db!EnqueueDelete,
         Server!Db!EnqueueInsert, ServerProofs!Db!EnqueueInsert, Server!Db!Finish, ServerProofs!Db!Finish,
         Server!Db!Collect, ServerProofs!Db!Collect, Server!Db!Nothing, ServerProofs!Db!Nothing,
         Server!Db!Room, ServerProofs!Db!Room, Server!Db!Select, ServerProofs!Db!Select, Server!Db!Log,
         ServerProofs!Db!Log, Server!Db!Delete, ServerProofs!Db!Delete, Server!Db!Insert,
         ServerProofs!Db!Insert, Server!Db!Effect, ServerProofs!Db!Effect
THEOREM LoginRefinesDatabase == LoginSpec => ImplementsLoginDatabase
  <1>1. LoginInit => Server!Db!DbInit
    BY DEF LoginInit, Server!Init
  <1> QED
    BY <1>1, LoginUsesDatabase, LoginInvariance, PTL DEF LoginSpec, ImplementsLoginDatabase, Server!Db!DbSafeSpec

\* With a worker that completes its requests, the session that a client is
\* logged in with is in active_sessions or on its way there, unless a later
\* login to the account has been, or is being, recorded.
THEOREM KeyArrives == ASSUME Outcomes = {"done"} PROVE LoginSpec => []KeyOnItsWay
  <1>1. LoginInit => ServerProofs!DbProofs!LoginsAhead
    BY SameInit, ServerAssumed, ServerProofs!InitLogins DEF LoginInit
  <1>2. LoginIInv /\ ServerProofs!DbProofs!LoginsAhead /\ [LoginNext]_loginVars
          => ServerProofs!DbProofs!LoginsAhead'
    BY ServerTakes, ServerAssumed, ServerProofs!LoginsKept DEF LoginIInv
  <1>3. LoginIInv /\ ServerProofs!DbProofs!LoginsAhead => KeyOnItsWay
    <2> SUFFICES ASSUME LoginIInv, ServerProofs!DbProofs!LoginsAhead, authSocket.status = "AUTHED",
                        NEW a, a = authSocket.greeted.user, NEW k, k = data.sessionKey
                 PROVE  \/ [account |-> a, key |-> k] \in Server!Db!Projected
                        \/ lastKey[a] > k
                        \/ inserting # <<>> /\ inserting.account = a
      BY DEF KeyOnItsWay
    <2>1. authSocketConnected
      BY DEF LoginIInv, ClientIInv, UnconnectedIsFresh
    <2>2. /\ ServerProofs!Serves(peer, a, Right, Said) /\ peer \in DOMAIN sessions
          /\ k # 0 /\ k = sessions[peer].sessionKey
      BY <2>1 DEF LoginIInv, Linked
    <2>3. \/ [account |-> a, key |-> k] \in ServerProofs!Db!Projected
          \/ lastKey[a] > k
          \/ inserting # <<>> /\ inserting.account = a
      BY <2>2, ServerAssumed, ServerProofs!OnItsWay DEF LoginIInv
    <2>4. ServerProofs!Db!Projected = Server!Db!Projected
      BY DEF ServerProofs!Db!Projected, Server!Db!Projected, ServerProofs!Db!LastingInserts, Server!Db!LastingInserts,
             ServerProofs!Db!Survives, Server!Db!Survives, ServerProofs!Db!Delete, Server!Db!Delete
    <2> QED
      BY <2>3, <2>4
  <1> QED
    BY <1>1, <1>2, <1>3, LoginInvariance, PTL DEF LoginSpec
===============================================================================
