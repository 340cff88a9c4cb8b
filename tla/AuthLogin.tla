------------------------------ MODULE AuthLogin ------------------------------
(***************************************************************************)
(* A client (AuthClient) that logs in to the server (AuthServer), again    *)
(* and again, over connections that may fail.  The two take steps of their *)
(* own, except that a handshake is a step of both, a packet or a response  *)
(* is passed from one to the other, and a handle that one of them closes   *)
(* is lost to the other.                                                   *)
(***************************************************************************)
EXTENDS AuthClient, FiniteSets

CONSTANTS Registered, Outcomes, MaxQueue, MaxKeys,  \* see LoginDatabase
          Fds, MaxSessions, MaxMessages,            \* see AuthServer
          PasswordOf                                \* the passwords in necroauth.users

ASSUME PasswordOfAssumption == PasswordOf \in [Registered -> Passwords]
\* The assumptions of AuthServer and LoginDatabase.
ASSUME ServerAssumption == /\ Fds \subseteq Nat \ {0} /\ MaxSessions \in Nat /\ MaxMessages \in Nat
                           /\ Registered \subseteq Users
                           /\ "done" \in Outcomes /\ Outcomes \subseteq {"done", "dropped"}
                           /\ MaxQueue \in Nat /\ MaxKeys \in Nat
\* The client knows every key a reply can carry, 0 included: replies that bring none.
ASSUME KeysOfServerAssumption == 0..MaxKeys \subseteq Keys

VARIABLES pc, turn, batch, sessions, list, pollFds, capacity, socketOf, inbox, gone, sent,
          dbQueue, responses, rows, inserting, lastKey, issued,  \* see AuthServer
          peer       \* the session that the client's connection leads to, or 0

\* A packet as AuthServer has it.  right is what the comparison with the
\* password of the session's account will give.
ProofPacket(user, password) ==
  [cmd |-> "proof", right |-> user \in Registered /\ PasswordOf[user] = password,
   size |-> Proof(password).size]
Wire(p) == IF p.cmd = "gather" THEN p ELSE ProofPacket(authSocket.greeted.user, p.password)

Server == INSTANCE AuthServer
  WITH ClientMessages <- {Greeting(u) : u \in Users}
                         \cup {ProofPacket(u, p) : u \in Users, p \in Passwords}

ownVars    == <<pc, turn, batch, sessions, list, pollFds, capacity, socketOf, inbox, sent,
                dbQueue, responses, rows, inserting, lastKey, issued>>
serverVars == <<ownVars, gone>>
loginVars  == <<clientVars, serverVars, peer>>

LoginInit == Init /\ Server!Init /\ peer = 0

\* The server's side of the connection is there.
PeerOpen == /\ pc \notin {"down", "crashed"}
            /\ peer # 0 /\ peer \notin gone /\ socketOf[sessions[peer].fd] = peer

\* A client that gives its connection up is gone for the session it led to.
Leave == gone' = IF link = "up" /\ link' # "up" THEN gone \cup {peer} ELSE gone

ClientAlone ==
  /\ Alone /\ Leave
  /\ UNCHANGED <<ownVars, peer>>

ServerAlone ==
  /\ \/ Server!Serve
     \/ Server!Poll(link = "pending")
     \/ Server!NoNewClient
     \/ Server!Failure \/ Server!WorkerFinishes \/ Server!Shutdown
  /\ UNCHANGED <<clientVars, peer>>

\* Both sides complete the handshake.  Handles are numbered in the order of
\* their first use.
Handles == 1..(1 + Cardinality({sessions[i].fd : i \in DOMAIN sessions}))
Meet == /\ \E fd \in Fds \cap Handles : Server!AcceptClient(fd)
        /\ Handshake
        /\ peer' = Len(sessions')

\* The client's packet reaches the session, or nobody.
ClientSends ==
  /\ Send
  /\ IF PeerOpen THEN Server!ClientSends(peer, Wire(Head(authSocket.outQueue)))
     ELSE UNCHANGED serverVars
  /\ UNCHANGED peer

\* The server's packet reaches the client.  What an earlier session writes to
\* a handle that it no longer owns makes the client's TLS layer fail.
ServerSends ==
  /\ Server!SendPacket
  /\ IF PeerOpen /\ link = "up" /\ Server!me.fd = sessions[peer].fd
     THEN IF Server!s0 = peer THEN Deliver(Head(Server!me.outQueue)) ELSE LinkFails
     ELSE UNCHANGED clientVars
  /\ UNCHANGED peer

\* The connection is lost, or one whose other end the server has closed is
\* found to be.
ConnectionLost ==
  /\ LinkFails /\ Leave
  /\ UNCHANGED <<ownVars, peer>>
ConnectionFound == ~PeerOpen /\ (link = "up" \/ pc \in {"down", "crashed"}) /\ ConnectionLost

LoginNext == ClientAlone \/ ServerAlone \/ Meet \/ ClientSends \/ ServerSends \/ ConnectionLost

\* NetworkUpdate has something to do: packets, or a connection that is over.
NetworkUpdate ==
  \/ ConnectionFound
  \/ ClientSends
  \/ /\ \/ Disconnected
        \/ ConnectionFails /\ link = "down"
        \/ ReadMismatch \/ ReadGatherSuccess \/ ReadProofSuccess \/ ReadFailure
     /\ ClientAlone

\* A handshake, a packet or a response for which both ends are ready.
Exchange ==
  \/ Meet
  \/ ServerSends
  \/ /\ \E n \in 1..MaxMessages, split \in BOOLEAN : Server!Receive(n, split)
     /\ UNCHANGED <<clientVars, peer>>

\* The game loop comes back to NetworkUpdate and the server's to Poll, the
\* worker goes on, and the network does not fail to pass things on for ever.
LoginFairness ==
  /\ WF_loginVars(NetworkUpdate)
  /\ WF_loginVars(ServerAlone \/ Meet \/ ServerSends)
  /\ WF_loginVars((Server!WorkerFinishes \/ Server!Shutdown) /\ ServerAlone)
  /\ SF_loginVars(Exchange)

LoginSpec == LoginInit /\ [][LoginNext]_loginVars /\ LoginFairness

-----------------------------------------------------------------------------

\* A client that is told it is logged in has given the right password for
\* the account it named, and the key it holds is the one that its own
\* session issued to that account.
KeyAgreement ==
  authSocket.status = "AUTHED" =>
    /\ authSocket.greeted.user \in Registered
    /\ authSocket.greeted.password = PasswordOf[authSocket.greeted.user]
    /\ sessions[peer].account = authSocket.greeted.user
    /\ sessions[peer].sessionKey = data.sessionKey

\* The session a client is logged in with is in active_sessions or on its
\* way there, behind every delete that could take it away, or a later login
\* to the account is, or is being recorded.
KeyOnItsWay ==
  authSocket.status = "AUTHED" =>
    LET a == authSocket.greeted.user
        row == [account |-> a, key |-> data.sessionKey]
    IN  \/ row \in Server!Db!Projected
        \/ lastKey[a] > data.sessionKey
        \/ inserting # <<>> /\ inserting.account = a
\* A login attempt comes to an end, with a key or with a disconnection, so
\* that the connect command can be given again.
AttemptsEnd == (poll_fds # <<>>) ~> (poll_fds = <<>> \/ ~alive)

\* The composition: whatever the client and the two sessions do, the server
\* uses the login database as LoginDatabase says, so that what is shown and
\* proved there holds here.
ImplementsLoginDatabase == Server!Db!DbSafeSpec
\* POLLOUT is polled for exactly while a session whose m_pfd is valid has a
\* reply to send, although entries outlive the connections they were made for.
PollMatchesQueue == Server!PollMatchesQueue
===============================================================================
