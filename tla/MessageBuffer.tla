---------------------------- MODULE MessageBuffer ----------------------------
(***************************************************************************)
(* The storage of a NetworkMessage (shared/Packets/NetworkMessage.h) as a  *)
(* value, and its methods as operators: a vector with a read and a write   *)
(* position.  m_data[i] is data[i + 1]; positions are offsets from 0 as in *)
(* the code.  AES framing is not modelled: its only call is commented out. *)
(***************************************************************************)
EXTENDS Integers, Sequences

CONSTANTS Byte,   \* what a byte can be
          Zero,   \* what resize fills with
          Chunks  \* the byte sequences a packet, a read or a write can bring

ASSUME ByteAssumption == /\ Zero \in Byte
                         /\ Chunks \subseteq Seq(Byte) \ {<<>>}

Buffer == [data : Seq(Byte), rpos : Nat, wpos : Nat]

ActiveSize(b)     == b.wpos - b.rpos
RemainingSpace(b) == Len(b.data) - b.wpos

\* vector::resize to a size that is not smaller.
Resize(d, size) == [i \in 1..size |-> IF i <= Len(d) THEN d[i] ELSE Zero]

\* Mutants of CompactData: the write position is left where it was, or moved
\* back twice as far as the bytes.
CompactDataForgetsWpos(b) ==
  IF b.rpos > 0
  THEN [b EXCEPT !.data = [i \in 1..Len(b.data) |->
                             IF i <= ActiveSize(b) THEN b.data[b.rpos + i] ELSE b.data[i]],
                 !.rpos = 0]
  ELSE b
CompactDataTwice(b) ==
  IF b.rpos > 0 THEN [b EXCEPT !.wpos = b.wpos - 2 * b.rpos, !.rpos = 0] ELSE b
CompactData(b) ==
  IF b.rpos > 0
  THEN [data |-> [i \in 1..Len(b.data) |->
                    IF i <= ActiveSize(b) THEN b.data[b.rpos + i] ELSE b.data[i]],
        wpos |-> b.wpos - b.rpos,
        rpos |-> 0]
  ELSE b

EnlargeBufferIfNeeded(b) ==
  IF RemainingSpace(b) = 0
  THEN [b EXCEPT !.data = Resize(b.data, Len(b.data) + Len(b.data) \div 2)]
  ELSE b

\* Copies bytes to the write pointer and moves the write position past them.
Fill(b, bytes) ==
  [b EXCEPT !.data = [i \in 1..Len(b.data) |->
                        IF b.wpos < i /\ i <= b.wpos + Len(bytes)
                        THEN bytes[i - b.wpos] ELSE b.data[i]],
            !.wpos = b.wpos + Len(bytes)]

\* Room for size bytes: compaction first, then storage for half as much again.
MakeRoom(b, size) ==
  IF RemainingSpace(b) >= size THEN b
  ELSE LET c == CompactData(b)
           newSize == Len(c.data) + size
       IN  IF RemainingSpace(c) >= size THEN c
           ELSE [c EXCEPT !.data = Resize(c.data, newSize + newSize \div 2)]

Written(b, bytes) == Fill(MakeRoom(b, Len(bytes)), bytes)

\* The bytes written and not yet read.
Active(b) == SubSeq(b.data, b.rpos + 1, b.wpos)

\* 0 <= rpos <= wpos <= size.
WellFormed(b) == 0 <= b.rpos /\ b.rpos <= b.wpos /\ b.wpos <= Len(b.data)
===============================================================================
