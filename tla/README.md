# NECRO: verification of the server and its client

TLA+ specifications of the NECROAuth solution (`src/src`) and of the earlier
server beside it (`src`): what their parts keep and promise, checked with TLC on
small instances and, for the parts that everything else relies on, proved with
TLAPS for every instance.

## The system

NECRO is a multiplayer game in C++. `NECROAuth` is the authentication server: a
client connects through TLS, names an account and its version, proves the
password and receives a session key, which the server also stores for the
(still empty) world server, `NECROWorld`. `NECROClient` is the SDL client.
`shared` and `database` are libraries. An older copy of the server lies beside
the solution, directly in `src`. There are no tests and no documents; what the
authors say of the program is in comments and names.

| Part | State | Operations | Correct when |
|---|---|---|---|
| Database worker (`DatabaseWorker.h`) | request queue and counter, running flag, response queue, two mutexes, a condition variable | Start, Stop, Join, Enqueue, GetResponseQueue, the thread's loop | requests are executed in order and once, no wake-up is lost, Stop drains, responses arrive once |
| Message buffer (`NetworkMessage.h`) | bytes, read and write position | Write, ReadCompleted, CompactData, EnlargeBufferIfNeeded, Clear, SoftClear | positions stay ordered, unread bytes survive, a read has room |
| Socket (`TCPSocket.cpp`) | input buffer, output queue, SSL object, handle, pointer to a poll entry | QueuePacket, Send, Receive, Close, TLS set-up | bytes arrive in order, POLLOUT is polled for while output waits |
| Login database (`LoginDatabase.h`) | `users`, `active_sessions`, `logs_actions` | five statements | one session per account, the last login wins |
| Session (`Auth/AuthSession.cpp`) | status, user name, version, account, key | ReadCallback, two packet handlers, one database callback | a status implies its account, requests of one login stay together, each lookup is answered |
| Socket manager (`TCPSocketManager.cpp`), server (`NECROServer.cpp`) | session list, poll vector, running flag | Poll, accept, client loop, Update, Shutdown | the loop comes back, callbacks find their session, both lists agree |
| Client authentication (`Client/Online`) | connection state, credentials, results | connect, the two responses, disconnect | the proof matches the greeting, the password is forgotten, polling follows the socket |
| Client world and entities (`Engine/World`, `Entity`) | grid of cells, entity map, pending transfers, current player | update, move, interact, add, remove, teleport | an entity is in exactly the cell it believes, nothing dangles, one update per frame |
| Console, input (`Engine/Console`, `Input`) | history and its file, browse index, text, key states | toggle, send, browse, type, start and shutdown | the history survives launches and stays bounded, an arrow recalls a command |
| Assets, animator (`Engine/Assets`, `Animation`) | caches of images, prefabs, animators; tilesets; current animation | load, get, instantiate, play | what a cache returns stays there, an id finds its tile |
| Engine loop (`NECROEngine.cpp`, `Game.cpp`) | running flag, the order of a frame | Init, Start, Update, Stop, Shutdown | each launch finds what the last left |
| Earlier server (`src/*.cpp`) | connections, poll vector, map of user names, worker queue | Poll with removals, two handlers, Stop | parallel lists stay aligned, no name dangles, closed sessions go |
| Light, rendering, AES/TLS set-up, addresses, logging, packets, world server | energies, geometry, keys, strings | calculations and wrappers | not modelled |

Interactions. The main thread alone touches sockets and sessions. A packet
handler enqueues requests for the worker thread; the worker puts completed
requests that want an answer into the response queue; the main thread takes
that queue at the start of each Poll and runs the callbacks, which queue
replies; a reply is sent when a later poll finds the socket writable. A second,
direct database connection answers the password check within the handler.

The client is one thread. A frame of `Game::Update` reads the input, moves the
camera, handles a click on the hovered cell, updates the entities of the
visible cells, moves those that left their cell, and updates the console;
`NetworkUpdate` runs once per frame. The world, its tiles and the player hold
plain pointers into the asset caches and into each other. The earlier server is
also one thread with a database worker, but its handlers query the database on
the spot, and it removes broken sockets from its lists by index.

What is hard: the worker's wait against Enqueue and Stop; the worker between
two requests of one login; the answer to a lookup that comes after the session
was closed or has sent more packets; packets in pieces and ahead of their turn;
handles that the system reuses; pointers into a vector that grows; requests
that fail; entities that change cell while the cells are walked; a file that
outlives the process. `PROJECT.json` lists each hazard with its line.

## Modules

* `DatabaseWorker`: the worker thread against the main thread. The shared
  variables keep the code's names; `workerPc` is the position in
  `ThreadRoutine`, split at every operation on the mutex and at the wait;
  `mainPc` the position in Stop and Join. `WorkerDrop` is the three catch
  clauses. `FifoService` is what the worker promises: requests finish in
  order, completed or dropped; `ImplementsFifoService` is the refinement.
* `MessageBuffer`: the storage of a message as a record and the methods as
  operators. `NetworkMessage`: a receive buffer, one action per method.
  `ByteFifo`: what it promises.
* `TCPSocket`: the output queue, plain sends that may be short, POLLOUT. It uses
  `MessageBuffer` for each queued message; that its queue is a `ByteFifo` is proved only, not run.
* `LoginDatabase`: `active_sessions` and the requests. `EnqueueDelete` and
  `EnqueueInsert` are the two halves of a successful proof, with the worker free
  to run between them; `Finish` is the step of `FifoService`.
* `AuthServer`: the main thread. `pc` and `turn` are the position in Poll, in its
  loop over the clients and in ReadCallback; `sessions` are the AuthSession
  objects, `list` is `m_list`, `pollFds` is `m_poll_fds` with the listener as entry 1.
  `pfd` is the `m_pfd` of a session, 0 once the vector has been moved under it;
  `socketOf` is the system's table of handles. The database is an instance
  of `LoginDatabase`; `ImplementsLoginDatabase` says that all sessions together
  use it as that module specifies, so that what is proved there holds here.
* `AuthClient`: the client's AuthManager and AuthSession: the connect command,
  which may be given at any moment, and NetworkUpdate. `link` is the connection
  as the network has it; the server is whatever delivers responses. `greeted`
  is history, the credentials behind the greeting of the current socket.
* `AuthLogin`: extends `AuthClient` and instantiates `AuthServer`. A handshake
  (`Meet`), a packet (`ClientSends`) and a response (`ServerSends`) are steps of
  both; everything else is a step of one. `peer` is the session that the
  client's connection leads to. What the server compares with the password of
  the account is computed when the packet is sent (`Wire`).
* `WorldEntities`: one frame of the client's world. `phase` is the position in
  `Game::Update`: input, click, update, transfer, console. In the update `slot` is
  the cell and the index that the three nested loops of `World::Update` have
  reached, so that each `Entity::Update` is a step. An entity of which the grid
  position changes waits in `pending`; `TransferPending` empties that list. `cells`
  holds ids instead of raw pointers, `live` is `m_allEntities`; a step that would
  use the pointer of an entity that was freed, or a null cell, is `Crash`, the end of the
  process. A position is kept to the cell it lies in. The player walks as far as his
  speed and the duration of the frame take him (`Walks`), the AI a pixel on both axes
  (`AISteps`); a prefab's offset may put what the editor adds in another cell than
  the one clicked, or outside the world (`InstanceCell`). `teleported` is history: a 'tel'
  has moved the player since his last transfer.
* `Console`: history, browsing and the keys of two frames. A text of the input field
  may be pasted and have several lines (`Split`): it is one command and one entry of the
  history, and as many lines of the file; `pasted` counts the further lines of what was sent. `Assets`: caches, prefabs,
  tilesets and the animator, over a Data folder (`disk`) that may lack files.
  `ClientEngine` extends both: processes one after the other that Init, Start, run
  frames, shut down or die. The file of the history is what one passes to the next.
* `SingleServer`: the earlier server. `pc` and `turn` as in `AuthServer`; `list` and `fds`
  are the two parallel lists, `toRemove` the indexes that a poll collects and
  `RemoveLast` erases from the highest down, `usernameMap` the map of names. The delete and the
  insert of a login are two requests, between which the worker may run (`RightPassword`,
  `EnqueueInsert`), and the worker may fail at any statement and drop it; `dropped` is history,
  the keys of which a statement was. What
  clients may send is a set of scenarios, one packet sequence per connection; "bye"
  is what ends a TLS stream.
* `MC*`: instances for TLC. `*_proofs`: theorems.

Operators named in a comment as a mutant are changed forms of the definition
below them, as a slip in the code would change it; each property was seen to fail
under at least one.

Undefined behaviour. A write through a dangling `m_pfd` is taken to have no
effect on the poll vector. A null SSL object either ends the process
(`SslCrash`) or gives an error, depending on the OpenSSL version. A failed
direct query makes `LoginDatabase::Execute` end without a value: taken as the
end of the process. The positions of a wrapping NetworkMessage may start anywhere
(`StartPositions`). A freed entity or a null cell that is used ends the client
(`Crash`), and so does a send on a null SSL object in the earlier server (`SendCrashes`).

## Runs

| Run | Instance | Shows |
|---|---|---|
| `worker` | 3 requests, one of them fire-and-forget, 2 starts | all safety and liveness of the worker, and the refinement |
| `buffer` | 2 bytes growing to at most 8, chunks of 1 to 3 | ordered positions, refinement of the byte FIFO |
| `socket` | 3 packets of 1 to 3 bytes | the wire has what was queued, in order, but for what still waits, and the queue drains |
| `login_db` | 2 accounts, 3 logins, 4 queued requests | one session per account, last login wins, keys reach the table |
| `server` | 1 session, 2 packets out of all kinds, failing requests | callbacks, status and account, lookups answered, replies sent |
| `client` | 2 users, 2 passwords, 3 commands, 2 waiting responses, any server | poll list, isConnecting, credentials of one proof, no password left behind |
| `login` | 1 user, 2 passwords, 2 commands, 2 sessions, 2 handles, 4 packets | both sides agree on account and key, the key is recorded, poll entries of two sessions, the server uses the database as `LoginDatabase` says, attempts end |
| `world` | 3 x 3 cells, player, AI, map entity, what the editor adds, radius 1, six walks of up to two cells per axis, a prefab beside its cell | lists, owners and entities agree, pointers live, one update per frame, the AI stays inside |
| `engine` | history limit 2, 2 commands per launch, a pasted text of two lines sent once, browse index up to 3, 4 Data folders | history bounded, kept across launches, recalled; images held, tile ids right |
| `single_server` | 2 connections, 2 handles, 4 scenarios of up to 3 packets each, any statement dropped | lists aligned through removals, names live, table settles on logins whose statements were executed, closed sessions removed |
| `server_pollout`, `world_teleport` | 2 sessions; the world above | the two disagreements below |

Why the bounds suffice. Three requests let one be in hand, one queued and one
answered, with a stop between any two. Chunks of three bytes in a storage of two
force compaction and reallocation with unread bytes inside. Two whole logins to
one account fit into a queue of four behind each other, and a third one
follows them. In `server` two packets are a lookup with its proof, two lookups with a
callback between or behind them, or any packet out of turn. In `login` and
`server_pollout`, with two sessions, the poll vector is moved under the first one
and a handle can be reused; a closed session, a pending callback and a new connection
meet. Two logins by different sessions are covered through `LoginDatabase` as well.
In `client` a third command follows two abandoned attempts, and a response can
arrive behind another one. In `login` each of two attempts may use the right
or the wrong password, and packets of the first can be handled in the second.
A world of three by three has rows and columns on both sides of the visible
range, an entity can walk, wait in the transfer list and be clicked, and two
entities share a cell; walks of two cells cross the visible range and leave the world.
With limit 2 a history is empty, below the limit, at it and above it, a run without commands
doubles the file, and the pasted text, whose second line is the "qqq" that a
shutdown would skip as an entry, exceeds the bound by the one line it may. The scenarios have two logins to one account at once, a
second proof, an unknown command, two names of one session, a TLS end with a
reply under way and a packet out of order. Two sessions suffice to remove the first
of two, both at once, and one whose handle the other gets; the proofs do not
depend on any bound.

Deadlock is not checked where the system may stop: the worker with no caller, the
sockets with nothing queued, the servers after Shutdown, the client after its last
command, and the world after a crash. The engine can always start again: there
deadlock is checked.

Fairness. The worker thread and the main thread are weakly fair: the operating
system runs a thread that can run. Nothing makes a client send, leave, or the
server stop. In `AuthServer` fairness of the poll loop also says that a handshake
that began ends, which the code does not enforce (`SSL_accept` is retried
without limit), and SendPacket is strongly fair: a connection that lasts
becomes writable again and again. `TCPSocket` has the same assumption in one step.
`SingleServer` makes its loop, the worker and Shutdown weakly fair, with the same
assumption on handshakes; its poll has no timeout and is fair only when a poll has something to report.
`AuthLogin` lets the client's frame loop come back to NetworkUpdate (weak), as well
as the server's loop, the worker and Shutdown (weak), and asks of the network that what both
ends are ready for passes in the end (strong, `Exchange`): the client has no timeout,
so that without this an attempt could wait for ever.

### Disagreements found

1. Accepting a client moves `m_poll_fds` and leaves `m_pfd` of earlier sessions
   dangling: their replies are not polled for, although a socket with output
   should poll for POLLOUT (`server_pollout`).
2. A teleport sets the player's position and cell but not his grid position. If he
   steps back to the grid position of before, `Entity::Update` sees no change and he
   stays in the list of the cell he was teleported to (`world_teleport`).

The modules state more, which shows with other constants than those of the runs:

* The wrapping constructor of NetworkMessage does not set its positions: with
  `StartPositions` other than 0, `WireInOrder` of `TCPSocket` fails.
* "Delete every previous session" holds only if the worker's delete succeeds:
  with a dropped request among `Outcomes`, `OneSessionPerAccount` fails.
* In the earlier server the same: a login of which the worker dropped the delete or the
  insert leaves old rows, or none. `TableSettles` without its condition on `dropped` fails.
* "Limits the command history" (`Console.h:22`): each further line of a pasted text
  adds an entry at the next start. `HistoryBounded` without `pasted` fails.
* The length of a proof is compared with the limit of the other packet: with a
  password of maximal length `LongestProofAccepted` of `AuthServer` fails. The
  earlier server has the same comparison.

What the models contain without a property of its own:

* Servers. `Clear` leaves a buffer without storage, which cannot be enlarged by
  half of nothing: a session that sent an unknown command has no room to read
  into, and its next read gets nothing or, if the TLS layer takes the empty read for an error,
  ends the session (`deaf`). WakeUp is empty, so that a response waits for an event or the three
  seconds of the timeout, whatever `DatabaseWorker.h` lines 35-36 say. The removal of
  invalid sockets is commented out. Shutdown never takes the last responses. A
  second gather packet replaces the name and version that the pending callback uses,
  and its own callback may replace the account after the session is in LOGIN_ATTEMPT.
  A proof still under way on an abandoned connection counts as a login, and its key
  replaces that of a login handled before it. `PollMatchesQueue` speaks of sessions
  whose `m_pfd` is valid; what happens to the others is `server_pollout`.
* Earlier server. The check for a name in use does not stop the login; the
  status does not advance after a proof, so that one connection can log in
  again and again. Within one poll a connection that was reported
  broken can lose its handle to the one just accepted, and removing it closes
  that one. Positive errors of the TLS layer are not taken as failures: a
  session whose stream ended stays in the list, and its pending reply is sent on a
  null SSL object.
* World. An AI or a walk beyond the border would update a null cell; that the
  last row and column are never visible prevents it for the AI. A DESTROY
  interactable frees its owner while the loop over its interactables runs. `tel` and
  `noclip` use the current player without a check, after the editor removed him.
* Console. A shutdown appends the whole history, so that the file doubles with
  each launch until it has 2 MAX - 2 lines. The browse index grows while the
  history is empty.
* Assets. The image of a tileset that cannot be loaded shifts the ids of all
  later ones relative to the map. A loader whose file lacks its END line never ends. A
  prefab whose name is not that of its file is loaded again at each request.

## Proofs

* `DatabaseWorker_proofs`. `IInv` adds to the properties the counter's agreement
  with the queue, the holder of the mutex and the relative positions of the two
  threads (`PcsAgree`). Without them neither `InOrder` (a pop from an empty
  queue) nor `NoLostWakeup` (a wait entered with a stale predicate) is
  inductive. `Refinement` maps each step to a step of `FifoService`: the
  queue of the service is the request in hand followed by the worker's queue.
  `ResponsesInOrder` says which request the n-th response answers by counting the
  answered requests up to an index, so that the induction over the history goes
  through cardinalities instead of a filter of a sequence.
  Assumed: fire-and-forget requests are requests, `NoRequest` is none.
* `NetworkMessage_proofs`. Type correctness and the order of the positions
  together are inductive; one lemma per method. With them each method is a step
  of `ByteFifo` or a stutter: compaction and reallocation leave the active bytes
  alone (`SameActive`: two buffers of as many active bytes that agree on each), a
  write appends to them (`FillActive`) and a read takes from the front
  (`ReadActive`). Assumed: bytes are bytes.
  The module also instantiates `TCPSocket`: a queue is flattened piece by
  piece (`FlattenAppend`, `FlattenHead`, by induction over the pieces as below), a wrapped packet is
  all that its message holds, and a send splits the first message in what goes on the wire and
  what stays (`SendSplits`). `WireStaysInOrder` and `SocketKeepsOrder` assume that the wrapping
  constructor leaves equal positions (`StartsEmpty`), which the run's constants satisfy
  and the code does not ensure: without it they are false (see above).
* `LoginDatabase_proofs`. That an account has one row is inductive only with
  `DeleteBeforeInsert` (a queued insert directly follows a delete of its
  account, or is first and the account has no row) and its counterpart for
  the insert that is still to be enqueued. `LastLoginWins` needs `LoginsAhead`: for
  each account whose last key is not being recorded, the last
  insert or, with none queued, the row is that of the last key. `Projected` says what the
  queue will leave by which rows and inserts survive the deletes
  behind them, so that no fold has to be reasoned about. Both theorems assume
  `Outcomes = {"done"}`, that is, no request is dropped (with dropped requests they are
  false, see above).
* `AuthServer_proofs`. `Aligned` relates `m_list`, `m_poll_fds` and the sessions'
  handles, `Asked` says of each lookup under way that its session is still in the list and has not
  been answered, `Handling` what the main thread may assume of the session in hand at each
  `pc`, and `LoggedIn` where a session's account comes from. `CallbackTargetsLive` is
  inductive only with all four: a removal is harmless because the main thread handles
  one session at a time and a lookup is asked for by a session that stays. `UsesDatabase` shows
  that each step is a step of `LoginDatabase`, or leaves its variables alone;
  the theorems of `LoginDatabase_proofs` then hold for the server through
  `INSTANCE` (`OneSessionOnServer`). Assumed: `DatabaseAssumption`, the
  constants' types.
* `AuthLogin_proofs`. First the client by itself, for any server and network. That a proof matches its
  greeting is inductive only with `GreetingIsCurrent` (the credentials have not
  been replaced since the greeting, because a command on a connected socket
  fails and disconnects), `UnconnectedIsFresh` (before the connection nothing
  was queued, and a socket without a connection is not polled) and
  `CredentialsGiven`. The steps that disconnect share `DisconnectKeeps`, those
  that close share `CloseKeeps`. Assumed: keys are naturals.
  Then the composition. Its invariant `LoginIInv` is that of the client, that of the
  server (the module is instantiated with the packets this client can send), and
  `Linked`, which relates the two ends of a connection: what the client still
  has to say, what is under way, and what the session has read are all about the user
  of the greeting (`ToSay`, `Hearing`); the proof comes last and is sent once; the session has a key only
  after it read the proof, and then only if that proof was right (`Answering`); and
  every reply under way carries that key (`Tells`). `KeyAgreement` alone is not
  inductive: a client is AUTHED several steps after its session drew the key, and what was
  true at the session then must still be true of the reply, the session and the
  database (`Granting`: between its two requests the handler is
  at the proof that it accepted). The server's part (`Serves`) is proved in `AuthServer_proofs` for any
  client, for each step of the server and each message. `KeyArrives` joins it with
  `LoginsAhead` of the database and assumes `Outcomes = {"done"}` as that does.
  Assumed besides the types: the client has room for every key a reply can carry
  (`KeysOfServerAssumption`).
* `WorldEntities_proofs`. Types, `EntityInItsCell` and `PointersLive` are inductive
  together: a removal finds the entity in its owner's list because lists and
  owners agree, and no pending transfer is left behind because a click removes
  only at the beginning of an update, when none is pending. Every
  change of placement is a transfer, a removal or an addition (`Transferred`,
  `Removed`, `Added`), all three made of leaving a list and joining one
  (`Leaves`, `Joins`). On top of it `FrameInv` follows a walk over the lists: what has been
  walked over is what has been updated (`Walked`), an
  entity stands where its owner is unless its transfer is pending (`Standing`), and
  an AI at the border is in a cell that is never visible, so that it is
  not updated (`AIStands`). `EntitiesStand` excepts the player while `teleported`: a 'tel'
  leaves his grid position as it was, and disagreement 2 is what follows. Assumed: entities start in the list of the cell they
  stand in, once, and the player is not the AI; nothing of the walks and the offsets of prefabs.
* `ClientEngine_proofs`. That the history stays below twice its limit and the lines
  pasted needs the same bound on the file, whose texts are one line each (`Logs`), and `LinesOfRun`: while a client
  runs, all the lines of a full history are within the bound, and one that is not full has at least the entries of the file and no
  more lines than entries and pasted ones, so that an append at most doubles what
  is below the limit. What a shutdown writes is flattened text by text
  (`FlattenAppend`, `FlattenSingles`). `Kept` (the
  file ends with what the last shutdown wrote) gives `HistorySurvives`, `Indexed` (the
  browse index is an integer, which opening the console resets) `RecallShowsHistory`.
  `ImagesHeld` needs `Sound`: a cached animator is not read again, so that its images must be
  cached whenever it is. The proof showed that a map without tilesets has tiles without an image,
  which the statement now says. For `TilesMatchCatalogue`, the definition's list of tiles and the
  catalogue are sums of the same parts (`IsSum`); by induction over the tilesets, the first of them
  whose last id is not below an id is that of the id's tile (`TilesetOfTile`). The loops of the
  loaders are recursive functions: that they exist and what they compute is shown over
  sets of rounds (`EachRound`, from the least element of a set of naturals), which needs no
  operator as a parameter. Assumed: a limit of at least 2, lists of names and
  images of natural size in the files.
* `SingleServer_proofs`. `IndexesAligned` and `NoDanglingName` are inductive with
  `AtWork` (the session that is read has a place in the list) and
  `Accounts` (a name in the map is that of a session past its gather
  packet, so that it no longer changes). `Still` covers all the steps that leave
  handles, names and status; `Erased` says what the removal of an index does
  to a sequence. `TableSettles` follows from `LastLoginAhead`: the last insert queued for an account
  carries its last key, behind a delete; with nothing queued for the account the table has the row of that key;
  between the two requests of a login (`Entering`) its delete is the last in the queue, or is done.
  What was executed counts only if it was not `dropped`; that a new login deletes whatever rows
  dropped statements left makes this inductive. Assumed: the empty name is no user.

Only model-checked: all liveness, which needs fairness and ENABLED, and with it the
fair part of `FifoService`. The type invariants that no run lists are
those of the theorems, or were left to the properties that rest on them.

## Plan

Done: the worker, buffers, sockets, database, server loop, client and the login
of a client at the server; the client's world, console, assets and engine; the
earlier server. What is left:

1. Propagation of light and the packet format as algorithms against reference
   definitions; the IV counter; paging of the console's log.
2. The stages of the server's start; colliders and movement inside a cell.
3. Proofs about these.

## Not modelled

Encryption and TLS set-up (calls into OpenSSL; keys are fresh values, and AES
framing is only called from a commented-out example), logging, address
conversion, packets byte by byte, drawing, light and colliders (floating-point geometry). Files are modelled
by what they hold and whether they end, not by their text. Positions inside a cell,
depth and animation frames are left out of the world, the log out of the console.
The world server is a skeleton whose loop does nothing.

