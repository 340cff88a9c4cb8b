------------------------------ MODULE TCPSocket ------------------------------
(***************************************************************************)
(* The sending half of shared/Sockets/TCPSocket.cpp: packets wrapped into  *)
(* NetworkMessages wait in m_outQueue and are sent when the poll loop      *)
(* finds the socket writable, possibly a part at a time.  m_pfd is taken   *)
(* to point at the socket's pollfd here; AuthServer models when it does    *)
(* not.                                                                    *)
(***************************************************************************)
EXTENDS MessageBuffer, SequencesExt

CONSTANTS Packets,         \* the packets the application queues
          StartPositions,  \* the <<m_rpos, m_wpos>> a wrapping NetworkMessage can start with
          MaxQueued        \* bound on the packets queued in a behaviour

ASSUME PacketsAssumption == Packets \subseteq Chunks
ASSUME StartAssumption ==
  \A start \in StartPositions : start[1] \in Nat /\ start[2] \in Nat /\ start[1] <= start[2]
ASSUME MaxQueuedAssumption == MaxQueued \in Nat

VARIABLES outQueue,  \* m_outQueue, a sequence of buffers
          pollOut,   \* m_pfd->events contains POLLOUT
          open,      \* Close has not been called
          queued,    \* history: the packets queued, in order
          wire       \* history: the bytes handed to the network, in order

vars == <<outQueue, pollOut, open, queued, wire>>

\* Mutant of Wrapped: the storage is reserved, not sized.
WrappedUnsized(packet, start) ==
  Fill([data |-> <<>>, rpos |-> start[1], wpos |-> start[2]], packet)

\* NetworkMessage(const Packet&) leaves the positions as it finds the
\* memory.  The starts that stand for this are those that do not leave the
\* storage at once.
Wrapped(packet, start) ==
  Written([data |-> [i \in 1..Len(packet) |-> Zero],
           rpos |-> start[1], wpos |-> start[2]], packet)

Init == /\ outQueue = <<>>
        /\ pollOut = FALSE
        /\ open = TRUE
        /\ queued = <<>>
        /\ wire = <<>>

\* Mutant of QueuePacket: the events are not updated.
QueuePacketUnpolled(packet) ==
  /\ Len(queued) < MaxQueued
  /\ \E start \in {p \in StartPositions : p[2] <= Len(packet)} :
       outQueue' = Append(outQueue, Wrapped(packet, start))
  /\ queued' = Append(queued, packet)
  /\ UNCHANGED <<pollOut, open, wire>>

\* The database callbacks queue a reply whether or not the socket is open.
QueuePacket(packet) ==
  /\ Len(queued) < MaxQueued
  /\ \E start \in {p \in StartPositions : p[2] <= Len(packet)} :
       outQueue' = Append(outQueue, Wrapped(packet, start))
  /\ pollOut' = TRUE
  /\ queued' = Append(queued, packet)
  /\ UNCHANGED <<open, wire>>

Out == Head(outQueue)
Sent(n) == [Out EXCEPT !.rpos = Out.rpos + n]

\* Mutants of SendBytes: a short send drops the rest of the packet, or puts
\* it behind the other packets; POLLOUT is cleared after every send.
SendBytesPopsAlways(n) ==
  /\ open /\ pollOut /\ outQueue # <<>> /\ n \in 1..ActiveSize(Out)
  /\ wire' = wire \o SubSeq(Out.data, Out.rpos + 1, Out.rpos + n)
  /\ outQueue' = Tail(outQueue)
  /\ pollOut' = (outQueue' # <<>>)
  /\ UNCHANGED <<open, queued>>
SendBytesRequeues(n) ==
  /\ open /\ pollOut /\ outQueue # <<>> /\ n \in 1..ActiveSize(Out)
  /\ wire' = wire \o SubSeq(Out.data, Out.rpos + 1, Out.rpos + n)
  /\ outQueue' = IF ActiveSize(Sent(n)) = 0 THEN Tail(outQueue)
                 ELSE Append(Tail(outQueue), Sent(n))
  /\ pollOut' = (outQueue' # <<>>)
  /\ UNCHANGED <<open, queued>>
SendBytesClearsPollOut(n) ==
  /\ open /\ pollOut /\ outQueue # <<>> /\ n \in 1..ActiveSize(Out)
  /\ wire' = wire \o SubSeq(Out.data, Out.rpos + 1, Out.rpos + n)
  /\ outQueue' = IF ActiveSize(Sent(n)) = 0 THEN Tail(outQueue)
                 ELSE <<Sent(n)>> \o Tail(outQueue)
  /\ pollOut' = FALSE
  /\ UNCHANGED <<open, queued>>

\* Send found the socket writable: n bytes of the oldest message are sent,
\* and the message leaves the queue when nothing of it remains.
SendBytes(n) ==
  /\ open /\ pollOut /\ outQueue # <<>> /\ n \in 1..ActiveSize(Out)
  /\ wire' = wire \o SubSeq(Out.data, Out.rpos + 1, Out.rpos + n)
  /\ outQueue' = IF ActiveSize(Sent(n)) = 0 THEN Tail(outQueue)
                 ELSE <<Sent(n)>> \o Tail(outQueue)
  /\ pollOut' = (outQueue' # <<>>)
  /\ UNCHANGED <<open, queued>>

\* Send or Receive failed, or the session closed the connection: Close
\* leaves the queue and the events as they are.
Close == /\ open
         /\ open' = FALSE
         /\ UNCHANGED <<outQueue, pollOut, queued, wire>>

SendSome == outQueue # <<>> /\ \E n \in 1..ActiveSize(Out) : SendBytes(n)

Next == \/ \E packet \in Packets : QueuePacket(packet)
        \/ SendSome
        \/ Close

\* The loop of TCPSocketManager::Poll comes back to a socket that polls for
\* POLLOUT, and a peer that stays connected makes it writable again.
Spec == Init /\ [][Next]_vars /\ WF_vars(SendSome)

-----------------------------------------------------------------------------

Waiting == FlattenSeq([i \in 1..Len(outQueue) |-> Active(outQueue[i])])

TypeOK == /\ outQueue \in Seq(Buffer)
          /\ \A i \in 1..Len(outQueue) : WellFormed(outQueue[i])
          /\ pollOut \in BOOLEAN
          /\ open \in BOOLEAN
          /\ queued \in Seq(Packets)
          /\ wire \in Seq(Byte)

\* What the peer has received and what still waits is what was queued:
\* through partial sends, pops and reallocations no byte is lost, repeated
\* or moved into another packet.
WireInOrder == wire \o Waiting = FlattenSeq(queued)

\* The socket polls for POLLOUT exactly while it has something to send.
PollMatchesQueue == pollOut <=> outQueue # <<>>

\* A queued packet is sent unless the connection is closed.
QueueDrains == (outQueue # <<>>) ~> (outQueue = <<>> \/ ~open)

\* The waiting bytes are a byte FIFO that Send empties from the front.
Fifo == INSTANCE ByteFifo WITH content <- Waiting
ImplementsByteFifo == Fifo!Spec
===============================================================================
