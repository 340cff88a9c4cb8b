---------------------------- MODULE NetworkMessage ----------------------------
(***************************************************************************)
(* A NetworkMessage used as the buffer in which a socket collects what it  *)
(* receives (TCPSocket's m_inBuffer).  SocketRead is the part of           *)
(* TCPSocket::Receive that prepares and fills it; the other actions are    *)
(* the methods a ReadCallback or a writer calls.                           *)
(***************************************************************************)
EXTENDS MessageBuffer

CONSTANTS InitialSize,  \* Packet::DEFAULT_PCKT_SIZE
          MaxSize       \* bound on the storage a step may leave behind

ASSUME SizeAssumption == InitialSize \in Nat /\ MaxSize \in Nat

VARIABLE buf   \* [data |-> m_data, rpos |-> m_rpos, wpos |-> m_wpos]

Init == buf = [data |-> [i \in 1..InitialSize |-> Zero], rpos |-> 0, wpos |-> 0]

\* Mutant of SocketRead: the read is offered the whole storage instead of
\* the space that is left.
SocketReadWholeSize(bytes) ==
  LET b == EnlargeBufferIfNeeded(CompactData(buf))
  IN  /\ Len(b.data) <= MaxSize
      /\ Len(bytes) <= Len(b.data)
      /\ buf' = Fill(b, bytes)

\* TCPSocket::Receive up to WriteCompleted: the read brings at most what fits.
SocketRead(bytes) ==
  LET b == EnlargeBufferIfNeeded(CompactData(buf))
  IN  /\ Len(b.data) <= MaxSize
      /\ Len(bytes) <= RemainingSpace(b)
      /\ buf' = Fill(b, bytes)

\* A read that would block, or fails, has compacted and enlarged all the same.
SocketReadNothing ==
  LET b == EnlargeBufferIfNeeded(CompactData(buf))
  IN  /\ Len(b.data) <= MaxSize
      /\ buf' = b

Write(bytes) ==
  /\ Len(Written(buf, bytes).data) <= MaxSize
  /\ buf' = Written(buf, bytes)

\* The reader has processed n of the active bytes.
ReadCompleted(n) ==
  /\ n \in 1..ActiveSize(buf)
  /\ buf' = [buf EXCEPT !.rpos = buf.rpos + n]

Clear == buf' = [data |-> <<>>, rpos |-> 0, wpos |-> 0]

SoftClear == buf' = [buf EXCEPT !.rpos = 0, !.wpos = 0]

Next == \/ \E bytes \in Chunks : SocketRead(bytes)
        \/ SocketReadNothing
        \/ \E bytes \in Chunks : Write(bytes)
        \/ \E n \in 1..ActiveSize(buf) : ReadCompleted(n)
        \/ Clear
        \/ SoftClear

Spec == Init /\ [][Next]_buf

-----------------------------------------------------------------------------

TypeOK == buf \in Buffer

\* The positions stay ordered within the storage through every sequence of
\* reads, writes, compactions and reallocations: GetActiveSize and
\* GetRemainingSpace, computed on unsigned integers, never wrap around, and
\* no copy leaves the storage.
PositionsOrdered == WellFormed(buf)

\* The unread bytes survive compaction and reallocation unchanged and leave
\* in the order in which they came.
Fifo == INSTANCE ByteFifo WITH content <- Active(buf)

ImplementsByteFifo == Fifo!Spec
===============================================================================
