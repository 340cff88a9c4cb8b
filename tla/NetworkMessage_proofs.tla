----------------------- MODULE NetworkMessage_proofs -----------------------
(***************************************************************************)
(* The positions of a NetworkMessage stay within its storage, and what is  *)
(* between them is a byte fifo, for every set of bytes, every initial size *)
(* and reads and writes of any length; and so are the messages that wait   *)
(* in the queue of a TCPSocket together, for any packets and short sends.  *)
(***************************************************************************)
EXTENDS NetworkMessage, SequencesExt, SequenceTheorems, WellFoundedInduction, TLAPS

IInv == TypeOK /\ PositionsOrdered

\* A function over 1..n with bytes as values is a sequence of n bytes.
LEMMA ByteSequence ==
  ASSUME NEW n \in Nat, NEW f, f = [i \in 1..n |-> f[i]], \A i \in 1..n : f[i] \in Byte
  PROVE  f \in Seq(Byte) /\ Len(f) = n
  OBVIOUS

\* Half as much again is not less.
LEMMA HalfMore ==
  ASSUME NEW n \in Nat
  PROVE  n + n \div 2 \in Nat /\ n + n \div 2 >= n
<1>1. n \div 2 \in Nat
  OBVIOUS
<1> QED
  BY <1>1

\* CompactData moves the active bytes to the front and nothing else: the
\* storage keeps its size and the positions their distance.
LEMMA CompactDataKeeps ==
  ASSUME NEW b \in Buffer, WellFormed(b)
  PROVE  /\ CompactData(b) \in Buffer
         /\ WellFormed(CompactData(b))
         /\ Len(CompactData(b).data) = Len(b.data)
         /\ ActiveSize(CompactData(b)) = ActiveSize(b)
         /\ CompactData(b).rpos = 0
<1>1. /\ b.data \in Seq(Byte) /\ Len(b.data) \in Nat /\ b.rpos \in Nat /\ b.wpos \in Nat
      /\ b.rpos <= b.wpos /\ b.wpos <= Len(b.data)
  BY LenProperties DEF Buffer, WellFormed
<1>2. CASE b.rpos > 0
  <2> DEFINE moved == [i \in 1..Len(b.data) |->
                         IF i <= ActiveSize(b) THEN b.data[b.rpos + i] ELSE b.data[i]]
  <2>1. CompactData(b) = [data |-> moved, wpos |-> b.wpos - b.rpos, rpos |-> 0]
    BY <1>2 DEF CompactData
  <2>2. ASSUME NEW i \in 1..Len(b.data) PROVE moved[i] \in Byte
    <3>1. CASE i <= ActiveSize(b)
      <4>1. b.rpos + i \in 1..Len(b.data)
        BY <1>1, <3>1 DEF ActiveSize
      <4> QED
        BY <1>1, <3>1, <4>1, ElementOfSeq
    <3>2. CASE ~(i <= ActiveSize(b))
      BY <1>1, <3>2, ElementOfSeq
    <3> QED
      BY <3>1, <3>2
  <2> HIDE DEF moved
  <2>3. moved \in Seq(Byte) /\ Len(moved) = Len(b.data)
    <3>1. moved = [i \in 1..Len(b.data) |-> moved[i]]
      BY DEF moved
    <3> QED
      BY <1>1, <2>2, <3>1, ByteSequence
  <2>4. b.wpos - b.rpos \in Nat
    BY <1>1
  <2>5. CompactData(b) \in Buffer
    BY <2>1, <2>3, <2>4 DEF Buffer
  <2> QED
    BY <1>1, <2>1, <2>3, <2>5 DEF WellFormed, ActiveSize
<1>3. CASE b.rpos = 0
  BY <1>3 DEF CompactData
<1> QED
  BY <1>1, <1>2, <1>3

\* resize keeps the type and gives the size asked for.
LEMMA ResizeType ==
  ASSUME NEW d \in Seq(Byte), NEW size \in Nat
  PROVE  Resize(d, size) \in Seq(Byte) /\ Len(Resize(d, size)) = size
<1>1. ASSUME NEW i \in 1..size
      PROVE  (IF i <= Len(d) THEN d[i] ELSE Zero) \in Byte
  <2>1. CASE i <= Len(d)
    BY <2>1, ElementOfSeq, LenProperties
  <2>2. CASE ~(i <= Len(d))
    BY <2>2, ByteAssumption
  <2> QED
    BY <2>1, <2>2
<1> QED
  BY <1>1 DEF Resize

\* Enlarging the storage leaves the positions where they are, within it.
LEMMA EnlargeKeeps ==
  ASSUME NEW b \in Buffer, WellFormed(b), NEW size \in Nat, size >= Len(b.data)
  PROVE  LET e == [b EXCEPT !.data = Resize(b.data, size)]
         IN  e \in Buffer /\ WellFormed(e) /\ Len(e.data) = size /\ e.rpos = b.rpos /\ e.wpos = b.wpos
<1>1. b.data \in Seq(Byte) /\ Len(b.data) \in Nat /\ b.rpos \in Nat /\ b.wpos \in Nat
  BY LenProperties DEF Buffer
<1>2. Resize(b.data, size) \in Seq(Byte) /\ Len(Resize(b.data, size)) = size
  BY <1>1, ResizeType
<1> DEFINE e == [b EXCEPT !.data = Resize(b.data, size)]
<1>3. e = [data |-> Resize(b.data, size), rpos |-> b.rpos, wpos |-> b.wpos]
  BY DEF Buffer
<1>4. e \in Buffer
  BY <1>1, <1>2, <1>3 DEF Buffer
<1> QED
  BY <1>1, <1>2, <1>3, <1>4 DEF WellFormed

\* EnlargeBufferIfNeeded before a read.
LEMMA EnlargeBufferKeeps ==
  ASSUME NEW b \in Buffer, WellFormed(b)
  PROVE  EnlargeBufferIfNeeded(b) \in Buffer /\ WellFormed(EnlargeBufferIfNeeded(b))
<1>1. Len(b.data) \in Nat
  BY LenProperties DEF Buffer
<1>2. Len(b.data) + Len(b.data) \div 2 \in Nat /\ Len(b.data) + Len(b.data) \div 2 >= Len(b.data)
  BY <1>1, HalfMore
<1> QED
  BY <1>1, <1>2, EnlargeKeeps DEF EnlargeBufferIfNeeded

\* Filling the remaining space does not leave the storage.
LEMMA FillKeeps ==
  ASSUME NEW b \in Buffer, WellFormed(b), NEW bytes \in Seq(Byte),
         Len(bytes) <= RemainingSpace(b)
  PROVE  Fill(b, bytes) \in Buffer /\ WellFormed(Fill(b, bytes))
<1>1. /\ b.data \in Seq(Byte) /\ Len(b.data) \in Nat /\ b.rpos \in Nat /\ b.wpos \in Nat
      /\ Len(bytes) \in Nat /\ b.rpos <= b.wpos /\ b.wpos + Len(bytes) <= Len(b.data)
  BY LenProperties DEF Buffer, WellFormed, RemainingSpace
<1> DEFINE filled == [i \in 1..Len(b.data) |->
                        IF b.wpos < i /\ i <= b.wpos + Len(bytes)
                        THEN bytes[i - b.wpos] ELSE b.data[i]]
<1>2. Fill(b, bytes) = [data |-> filled, rpos |-> b.rpos, wpos |-> b.wpos + Len(bytes)]
  <2>1. b = [data |-> b.data, rpos |-> b.rpos, wpos |-> b.wpos]
    BY DEF Buffer
  <2>2. Fill(b, bytes) = [b EXCEPT !.data = filled, !.wpos = b.wpos + Len(bytes)]
    BY Zenon DEF Fill
  <2> HIDE DEF filled
  <2> QED
    BY <2>1, <2>2
<1>3. ASSUME NEW i \in 1..Len(b.data) PROVE filled[i] \in Byte
  <2>1. CASE b.wpos < i /\ i <= b.wpos + Len(bytes)
    <3>1. i - b.wpos \in 1..Len(bytes)
      BY <1>1, <2>1
    <3> QED
      BY <2>1, <3>1, ElementOfSeq
  <2>2. CASE ~(b.wpos < i /\ i <= b.wpos + Len(bytes))
    BY <1>1, <2>2, ElementOfSeq
  <2> QED
    BY <2>1, <2>2
<1>4. filled \in Seq(Byte) /\ Len(filled) = Len(b.data)
  BY <1>1, <1>3
<1> HIDE DEF filled
<1>5. b.wpos + Len(bytes) \in Nat
  BY <1>1
<1> QED
  BY <1>1, <1>2, <1>4, <1>5 DEF Buffer, WellFormed

\* MakeRoom makes the room it was asked for.
LEMMA MakeRoomKeeps ==
  ASSUME NEW b \in Buffer, WellFormed(b), NEW size \in Nat
  PROVE  /\ MakeRoom(b, size) \in Buffer
         /\ WellFormed(MakeRoom(b, size))
         /\ RemainingSpace(MakeRoom(b, size)) >= size
<1> DEFINE c == CompactData(b)
           newSize == Len(c.data) + size
           larger == newSize + newSize \div 2
<1>1. c \in Buffer /\ WellFormed(c)
  BY CompactDataKeeps
<1>2. c.wpos \in Nat /\ Len(c.data) \in Nat /\ c.wpos <= Len(c.data)
  BY <1>1, LenProperties DEF Buffer, WellFormed
<1>3. larger \in Nat /\ larger >= Len(c.data) /\ larger >= Len(c.data) + size
  <2>1. newSize \in Nat /\ newSize >= Len(c.data)
    BY <1>2
  <2>2. newSize = Len(c.data) + size
    OBVIOUS
  <2> HIDE DEF newSize
  <2>3. larger \in Nat /\ larger >= newSize
    BY <2>1, HalfMore
  <2> HIDE DEF larger, c
  <2> QED
    BY <1>2, <2>1, <2>2, <2>3
<1> DEFINE e == [c EXCEPT !.data = Resize(c.data, larger)]
<1>4. e \in Buffer /\ WellFormed(e) /\ Len(e.data) = larger /\ e.wpos = c.wpos
  BY <1>1, <1>3, EnlargeKeeps
<1>5. CASE RemainingSpace(b) >= size
  BY <1>5 DEF MakeRoom
<1>6. CASE ~(RemainingSpace(b) >= size) /\ RemainingSpace(c) >= size
  BY <1>1, <1>6 DEF MakeRoom
<1>7. CASE ~(RemainingSpace(b) >= size) /\ ~(RemainingSpace(c) >= size)
  <2>1. MakeRoom(b, size) = e
    BY <1>7 DEF MakeRoom
  <2>2. RemainingSpace(e) >= size
    BY <1>2, <1>3, <1>4 DEF RemainingSpace
  <2> QED
    BY <1>4, <2>1, <2>2
<1> QED
  BY <1>5, <1>6, <1>7

\* Every method keeps the positions in order.
LEMMA MessageStep == IInv /\ [Next]_buf => IInv'
<1> SUFFICES ASSUME IInv, [Next]_buf PROVE IInv'
  OBVIOUS
<1>1. buf \in Buffer /\ WellFormed(buf)
  BY DEF IInv, TypeOK, PositionsOrdered
<1>2. /\ buf.data \in Seq(Byte) /\ Len(buf.data) \in Nat /\ buf.rpos \in Nat /\ buf.wpos \in Nat
      /\ buf.rpos <= buf.wpos /\ buf.wpos <= Len(buf.data)
  BY <1>1, LenProperties DEF Buffer, WellFormed
<1> DEFINE b == EnlargeBufferIfNeeded(CompactData(buf))
<1>3. b \in Buffer /\ WellFormed(b)
  BY <1>1, CompactDataKeeps, EnlargeBufferKeeps
<1>4. ASSUME NEW bytes \in Chunks, SocketRead(bytes) PROVE IInv'
  <2>1. bytes \in Seq(Byte) /\ Len(bytes) <= RemainingSpace(b) /\ buf' = Fill(b, bytes)
    BY <1>4, ByteAssumption DEF SocketRead
  <2>2. Fill(b, bytes) \in Buffer /\ WellFormed(Fill(b, bytes))
    BY <1>3, <2>1, FillKeeps
  <2> QED
    BY <2>1, <2>2 DEF IInv, TypeOK, PositionsOrdered
<1>5. CASE SocketReadNothing
  BY <1>3, <1>5 DEF SocketReadNothing, IInv, TypeOK, PositionsOrdered
<1>6. ASSUME NEW bytes \in Chunks, Write(bytes) PROVE IInv'
  <2> DEFINE m == MakeRoom(buf, Len(bytes))
  <2>1. bytes \in Seq(Byte) /\ Len(bytes) \in Nat
    BY ByteAssumption, LenProperties
  <2>2. m \in Buffer /\ WellFormed(m) /\ RemainingSpace(m) >= Len(bytes)
    BY <1>1, <2>1, MakeRoomKeeps
  <2>3. m.wpos \in Nat /\ Len(m.data) \in Nat
    BY <2>2, LenProperties DEF Buffer
  <2>4. Len(bytes) <= RemainingSpace(m)
    BY <2>1, <2>2, <2>3 DEF RemainingSpace
  <2>5. Fill(m, bytes) \in Buffer /\ WellFormed(Fill(m, bytes))
    BY <2>1, <2>2, <2>4, FillKeeps
  <2>6. buf' = Fill(m, bytes)
    BY <1>6 DEF Write, Written
  <2> QED
    BY <2>5, <2>6 DEF IInv, TypeOK, PositionsOrdered
<1>7. ASSUME NEW n \in 1..ActiveSize(buf), ReadCompleted(n) PROVE IInv'
  <2>1. buf' = [data |-> buf.data, rpos |-> buf.rpos + n, wpos |-> buf.wpos]
    BY <1>1, <1>7 DEF ReadCompleted, Buffer
  <2>2. n \in Nat /\ buf.rpos + n \in Nat /\ buf.rpos + n <= buf.wpos
    BY <1>2 DEF ActiveSize
  <2> QED
    BY <1>2, <2>1, <2>2 DEF IInv, TypeOK, PositionsOrdered, Buffer, WellFormed
<1>8. CASE Clear
  <2>1. buf' = [data |-> <<>>, rpos |-> 0, wpos |-> 0]
    BY <1>8 DEF Clear
  <2>2. <<>> \in Seq(Byte) /\ Len(<<>>) = 0
    BY EmptySeq
  <2> QED
    BY <2>1, <2>2 DEF IInv, TypeOK, PositionsOrdered, Buffer, WellFormed
<1>9. CASE SoftClear
  <2>1. buf' = [data |-> buf.data, rpos |-> 0, wpos |-> 0]
    BY <1>1, <1>9 DEF SoftClear, Buffer
  <2> QED
    BY <1>2, <2>1 DEF IInv, TypeOK, PositionsOrdered, Buffer, WellFormed
<1>10. CASE UNCHANGED buf
  BY <1>10 DEF IInv, TypeOK, PositionsOrdered
<1> QED
  BY <1>4, <1>5, <1>6, <1>7, <1>8, <1>9, <1>10 DEF Next

\* A new message is empty and within its storage.
LEMMA MessageInitial == Init => IInv
<1> SUFFICES ASSUME Init PROVE IInv
  OBVIOUS
<1> DEFINE zeros == [i \in 1..InitialSize |-> Zero]
<1>1. zeros \in Seq(Byte) /\ Len(zeros) = InitialSize
  BY ByteAssumption, SizeAssumption
<1>2. buf = [data |-> zeros, rpos |-> 0, wpos |-> 0]
  BY DEF Init
<1> HIDE DEF zeros
<1> QED
  BY <1>1, <1>2, SizeAssumption DEF IInv, TypeOK, PositionsOrdered, Buffer, WellFormed

\* GetActiveSize and GetRemainingSpace never wrap around, and the copies of
\* CompactData, Write and the socket's read stay within the storage.
THEOREM PositionsStayOrdered == Spec => []PositionsOrdered
<1>1. IInv => PositionsOrdered
  BY DEF IInv
<1> QED
  BY <1>1, MessageInitial, MessageStep, PTL DEF Spec

-----------------------------------------------------------------------------
(* The bytes between the positions *)

\* The active bytes, one by one.
LEMMA ActiveBytes ==
  ASSUME NEW b \in Buffer, WellFormed(b)
  PROVE  /\ Active(b) \in Seq(Byte) /\ Len(Active(b)) = ActiveSize(b) /\ ActiveSize(b) \in Nat
         /\ \A i \in 1..ActiveSize(b) : b.rpos + i \in 1..Len(b.data) /\ Active(b)[i] = b.data[b.rpos + i]
<1>1. /\ b.data \in Seq(Byte) /\ Len(b.data) \in Nat /\ b.rpos \in Nat /\ b.wpos \in Nat
      /\ b.rpos <= b.wpos /\ b.wpos <= Len(b.data)
  BY LenProperties DEF Buffer, WellFormed
<1>2. \A i \in (b.rpos + 1)..b.wpos : b.data[i] \in Byte
  BY <1>1, ElementOfSeq
<1>3. /\ Active(b) \in Seq(Byte)
      /\ Len(Active(b)) = IF b.rpos + 1 <= b.wpos THEN b.wpos - (b.rpos + 1) + 1 ELSE 0
      /\ \A i \in 1..(b.wpos - (b.rpos + 1) + 1) : Active(b)[i] = b.data[(b.rpos + 1) + i - 1]
  <2>1. b.rpos + 1 \in Int /\ b.wpos \in Int
    BY <1>1
  <2> QED
    BY <1>2, <2>1, SubSeqProperties DEF Active
<1>4. ASSUME NEW i \in 1..ActiveSize(b)
      PROVE  b.rpos + i \in 1..Len(b.data) /\ Active(b)[i] = b.data[b.rpos + i]
  <2>1. i \in 1..(b.wpos - (b.rpos + 1) + 1) /\ (b.rpos + 1) + i - 1 = b.rpos + i
    BY <1>1 DEF ActiveSize
  <2>2. b.rpos + i \in 1..Len(b.data)
    BY <1>1 DEF ActiveSize
  <2>3. Active(b)[i] = b.data[(b.rpos + 1) + i - 1]
    BY <1>3, <2>1
  <2> QED
    BY <2>1, <2>2, <2>3
<1> QED
  BY <1>1, <1>3, <1>4 DEF ActiveSize

\* Two buffers with the same bytes at the same distances from their read
\* positions have the same active bytes.
LEMMA SameActive ==
  ASSUME NEW b \in Buffer, NEW c \in Buffer, WellFormed(b), WellFormed(c), ActiveSize(c) = ActiveSize(b),
         \A i \in 1..ActiveSize(b) : c.data[c.rpos + i] = b.data[b.rpos + i]
  PROVE  Active(c) = Active(b)
<1>1. /\ Active(b) \in Seq(Byte) /\ Len(Active(b)) = ActiveSize(b)
      /\ \A i \in 1..ActiveSize(b) : Active(b)[i] = b.data[b.rpos + i]
  BY ActiveBytes
<1>2. /\ Active(c) \in Seq(Byte) /\ Len(Active(c)) = ActiveSize(b)
      /\ \A i \in 1..ActiveSize(b) : Active(c)[i] = c.data[c.rpos + i]
  BY ActiveBytes
<1> QED
  BY <1>1, <1>2, SeqEqual

\* Compaction moves the active bytes and changes none of them.
LEMMA CompactDataActive ==
  ASSUME NEW b \in Buffer, WellFormed(b)
  PROVE  Active(CompactData(b)) = Active(b)
<1>1. /\ b.data \in Seq(Byte) /\ Len(b.data) \in Nat /\ b.rpos \in Nat /\ b.wpos \in Nat
      /\ b.rpos <= b.wpos /\ b.wpos <= Len(b.data)
  BY LenProperties DEF Buffer, WellFormed
<1>2. CASE b.rpos > 0
  <2> DEFINE c == CompactData(b)
             moved == [i \in 1..Len(b.data) |->
                         IF i <= ActiveSize(b) THEN b.data[b.rpos + i] ELSE b.data[i]]
  <2>1. c = [data |-> moved, wpos |-> b.wpos - b.rpos, rpos |-> 0]
    BY <1>2 DEF CompactData
  <2>2. c \in Buffer /\ WellFormed(c) /\ ActiveSize(c) = ActiveSize(b)
    BY CompactDataKeeps
  <2>3. ASSUME NEW i \in 1..ActiveSize(b) PROVE c.data[c.rpos + i] = b.data[b.rpos + i]
    <3>1. i \in 1..Len(b.data) /\ i <= ActiveSize(b) /\ 0 + i = i
      BY <1>1 DEF ActiveSize
    <3>2. c.data = moved /\ c.rpos = 0
      BY <2>1
    <3> QED
      BY <3>1, <3>2
  <2> QED
    BY <2>2, <2>3, SameActive
<1>3. CASE b.rpos = 0
  BY <1>3 DEF CompactData
<1> QED
  BY <1>1, <1>2, <1>3

\* A larger storage has the same active bytes.
LEMMA EnlargeActive ==
  ASSUME NEW b \in Buffer, WellFormed(b), NEW size \in Nat, size >= Len(b.data)
  PROVE  Active([b EXCEPT !.data = Resize(b.data, size)]) = Active(b)
<1> DEFINE e == [b EXCEPT !.data = Resize(b.data, size)]
<1>1. e \in Buffer /\ WellFormed(e) /\ e.rpos = b.rpos /\ e.wpos = b.wpos
  BY EnlargeKeeps
<1>2. e.data = Resize(b.data, size)
  BY DEF Buffer
<1>3. ASSUME NEW i \in 1..ActiveSize(b) PROVE e.data[e.rpos + i] = b.data[b.rpos + i]
  <2>1. b.rpos + i \in 1..Len(b.data) /\ Len(b.data) \in Nat
    BY ActiveBytes, LenProperties DEF Buffer
  <2>2. b.rpos + i \in 1..size /\ b.rpos + i <= Len(b.data)
    BY <2>1
  <2> QED
    BY <1>1, <1>2, <2>2 DEF Resize
<1>4. ActiveSize(e) = ActiveSize(b)
  BY <1>1 DEF ActiveSize
<1> QED
  BY <1>1, <1>3, <1>4, SameActive

\* EnlargeBufferIfNeeded before a read.
LEMMA EnlargeBufferActive ==
  ASSUME NEW b \in Buffer, WellFormed(b)
  PROVE  Active(EnlargeBufferIfNeeded(b)) = Active(b)
<1>1. Len(b.data) \in Nat
  BY LenProperties DEF Buffer
<1>2. Len(b.data) + Len(b.data) \div 2 \in Nat /\ Len(b.data) + Len(b.data) \div 2 >= Len(b.data)
  BY <1>1, HalfMore
<1> QED
  BY <1>1, <1>2, EnlargeActive DEF EnlargeBufferIfNeeded

\* MakeRoom before a write.
LEMMA MakeRoomActive ==
  ASSUME NEW b \in Buffer, WellFormed(b), NEW size \in Nat
  PROVE  Active(MakeRoom(b, size)) = Active(b)
<1> DEFINE c == CompactData(b)
           newSize == Len(c.data) + size
           larger == newSize + newSize \div 2
<1>1. c \in Buffer /\ WellFormed(c) /\ Active(c) = Active(b)
  BY CompactDataKeeps, CompactDataActive
<1>2. larger \in Nat /\ larger >= Len(c.data)
  <2>1. newSize \in Nat /\ newSize >= Len(c.data)
    <3>1. Len(c.data) \in Nat
      BY <1>1, LenProperties DEF Buffer
    <3> QED
      BY <3>1
  <2> HIDE DEF newSize
  <2>2. larger \in Nat /\ larger >= newSize
    BY <2>1, HalfMore
  <2>3. Len(c.data) \in Nat
    BY <1>1, LenProperties DEF Buffer
  <2> HIDE DEF larger, c
  <2> QED
    BY <2>1, <2>2, <2>3
<1>3. Active([c EXCEPT !.data = Resize(c.data, larger)]) = Active(c)
  BY <1>1, <1>2, EnlargeActive
<1> QED
  BY <1>1, <1>3 DEF MakeRoom

\* What is written comes behind the active bytes, and changes none of them.
LEMMA FillActive ==
  ASSUME NEW b \in Buffer, WellFormed(b), NEW bytes \in Seq(Byte),
         Len(bytes) <= RemainingSpace(b)
  PROVE  Active(Fill(b, bytes)) = Active(b) \o bytes
<1> DEFINE f == Fill(b, bytes)
           both == Active(b) \o bytes
<1>1. /\ b.data \in Seq(Byte) /\ Len(b.data) \in Nat /\ b.rpos \in Nat /\ b.wpos \in Nat
      /\ Len(bytes) \in Nat /\ b.rpos <= b.wpos /\ b.wpos + Len(bytes) <= Len(b.data)
  BY LenProperties DEF Buffer, WellFormed, RemainingSpace
<1>2. /\ f \in Buffer /\ WellFormed(f) /\ f.rpos = b.rpos /\ f.wpos = b.wpos + Len(bytes)
      /\ f.data = [i \in 1..Len(b.data) |->
                     IF b.wpos < i /\ i <= b.wpos + Len(bytes) THEN bytes[i - b.wpos] ELSE b.data[i]]
  BY FillKeeps DEF Fill, Buffer
<1>3. /\ Active(f) \in Seq(Byte) /\ Len(Active(f)) = ActiveSize(f)
      /\ \A i \in 1..ActiveSize(f) : f.rpos + i \in 1..Len(f.data) /\ Active(f)[i] = f.data[f.rpos + i]
  BY <1>2, ActiveBytes
<1>4. /\ Active(b) \in Seq(Byte) /\ Len(Active(b)) = ActiveSize(b) /\ ActiveSize(b) \in Nat
      /\ \A i \in 1..ActiveSize(b) : b.rpos + i \in 1..Len(b.data) /\ Active(b)[i] = b.data[b.rpos + i]
  BY ActiveBytes
<1>5. /\ both \in Seq(Byte) /\ Len(both) = ActiveSize(b) + Len(bytes)
      /\ \A i \in 1..(ActiveSize(b) + Len(bytes)) :
           both[i] = IF i <= ActiveSize(b) THEN Active(b)[i] ELSE bytes[i - ActiveSize(b)]
  <2>1. /\ both \in Seq(Byte) /\ Len(both) = Len(Active(b)) + Len(bytes)
        /\ \A i \in 1..(Len(Active(b)) + Len(bytes)) :
             both[i] = IF i <= Len(Active(b)) THEN Active(b)[i] ELSE bytes[i - Len(Active(b))]
    <3>1. Active(b) \in Seq(Byte)
      BY <1>4
    <3> QED
      BY <3>1, ConcatProperties
  <2> HIDE DEF both
  <2> QED
    BY <1>4, <2>1
<1>6. ActiveSize(f) = ActiveSize(b) + Len(bytes)
  BY <1>1, <1>2 DEF ActiveSize
<1> HIDE DEF f, both
<1>7. ASSUME NEW i \in 1..ActiveSize(f) PROVE Active(f)[i] = both[i]
  <2>1. Active(f)[i] = f.data[b.rpos + i] /\ b.rpos + i \in 1..Len(b.data)
    <3>1. b.rpos + i \in 1..Len(b.data)
      BY <1>1, <1>6 DEF ActiveSize
    <3> QED
      BY <1>2, <1>3, <3>1
  <2>2. CASE i <= ActiveSize(b)
    <3>1. i \in 1..ActiveSize(b) /\ ~(b.wpos < b.rpos + i)
      BY <1>1, <2>2 DEF ActiveSize
    <3> QED
      BY <1>2, <1>4, <1>5, <1>6, <2>1, <2>2, <3>1
  <2>3. CASE ~(i <= ActiveSize(b))
    <3>1. b.wpos < b.rpos + i /\ b.rpos + i <= b.wpos + Len(bytes) /\ b.rpos + i - b.wpos = i - ActiveSize(b)
      BY <1>1, <1>6, <2>3 DEF ActiveSize
    <3>2. f.data[b.rpos + i] = bytes[b.rpos + i - b.wpos]
      <4>1. \A k \in 1..Len(b.data) :
              b.wpos < k /\ k <= b.wpos + Len(bytes) => f.data[k] = bytes[k - b.wpos]
        BY <1>2
      <4> QED
        BY <1>1, <2>1, <3>1, <4>1
    <3>3. both[i] = bytes[i - ActiveSize(b)]
      BY <1>5, <1>6, <2>3
    <3> QED
      BY <2>1, <3>1, <3>2, <3>3
  <2> QED
    BY <2>2, <2>3
<1>8. Len(both) = Len(Active(f))
  BY <1>3, <1>5, <1>6
<1>9. Active(f) = both
  BY <1>3, <1>5, <1>7, <1>8, SeqEqual
<1> QED
  BY <1>9 DEF f, both

\* What a reader has processed leaves from the front.
LEMMA ReadActive ==
  ASSUME NEW b \in Buffer, WellFormed(b), NEW n \in 1..ActiveSize(b)
  PROVE  LET c == [b EXCEPT !.rpos = b.rpos + n]
         IN  /\ c \in Buffer /\ WellFormed(c)
             /\ Active(c) = SubSeq(Active(b), n + 1, Len(Active(b)))
<1> DEFINE c == [b EXCEPT !.rpos = b.rpos + n]
           rest == SubSeq(Active(b), n + 1, Len(Active(b)))
<1>1. /\ b.data \in Seq(Byte) /\ Len(b.data) \in Nat /\ b.rpos \in Nat /\ b.wpos \in Nat
      /\ b.rpos <= b.wpos /\ b.wpos <= Len(b.data) /\ n \in Nat /\ n <= b.wpos - b.rpos
  BY LenProperties DEF Buffer, WellFormed, ActiveSize
<1>2. c = [data |-> b.data, rpos |-> b.rpos + n, wpos |-> b.wpos]
  BY DEF Buffer
<1>3. c \in Buffer /\ WellFormed(c) /\ c.data = b.data /\ c.rpos = b.rpos + n /\ c.wpos = b.wpos
  BY <1>1, <1>2 DEF Buffer, WellFormed
<1>4. /\ Active(b) \in Seq(Byte) /\ Len(Active(b)) = ActiveSize(b) /\ ActiveSize(b) \in Nat
      /\ \A i \in 1..ActiveSize(b) : Active(b)[i] = b.data[b.rpos + i]
  BY ActiveBytes
<1> HIDE DEF c
<1>5. /\ Active(c) \in Seq(Byte) /\ Len(Active(c)) = ActiveSize(c)
      /\ \A i \in 1..ActiveSize(c) : Active(c)[i] = c.data[c.rpos + i]
  BY <1>3, ActiveBytes
<1>6. ActiveSize(c) = ActiveSize(b) - n
  BY <1>1, <1>3 DEF ActiveSize
<1>7. /\ rest \in Seq(Byte)
      /\ Len(rest) = IF n + 1 <= ActiveSize(b) THEN ActiveSize(b) - (n + 1) + 1 ELSE 0
      /\ \A i \in 1..(ActiveSize(b) - (n + 1) + 1) : rest[i] = Active(b)[(n + 1) + i - 1]
  <2>1. n + 1 \in Int /\ ActiveSize(b) \in Int
    BY <1>1, <1>4
  <2>2. \A i \in (n + 1)..ActiveSize(b) : Active(b)[i] \in Byte
    BY <1>1, <1>4, ElementOfSeq
  <2> QED
    BY <1>4, <2>1, <2>2, SubSeqProperties
<1> HIDE DEF rest
<1>8. ASSUME NEW i \in 1..ActiveSize(c) PROVE Active(c)[i] = rest[i]
  <2>1. /\ i \in 1..(ActiveSize(b) - (n + 1) + 1) /\ (n + 1) + i - 1 = n + i /\ n + i \in 1..ActiveSize(b)
        /\ (b.rpos + n) + i = b.rpos + (n + i)
    BY <1>1, <1>4, <1>6
  <2> QED
    BY <1>3, <1>4, <1>5, <1>7, <2>1
<1>9. Len(rest) = ActiveSize(c)
  BY <1>1, <1>4, <1>6, <1>7
<1>10. Active(c) = rest
  BY <1>5, <1>7, <1>8, <1>9, SeqEqual
<1> QED
  BY <1>3, <1>10 DEF c, rest

\* Nothing is active between equal positions.
LEMMA NothingActive ==
  ASSUME NEW b \in Buffer, WellFormed(b), b.rpos = b.wpos
  PROVE  Active(b) = <<>>
<1>1. Active(b) \in Seq(Byte) /\ Len(Active(b)) = ActiveSize(b) /\ b.wpos \in Nat
  BY ActiveBytes DEF Buffer
<1>2. ActiveSize(b) = 0
  BY <1>1 DEF ActiveSize
<1> QED
  BY <1>1, <1>2, EmptySeq

-----------------------------------------------------------------------------
(* The refinement *)

\* Every method is a step of the fifo, or changes nothing that it sees.
LEMMA MessageIsFifo == IInv /\ [Next]_buf => [Fifo!Next]_(Active(buf))
<1> SUFFICES ASSUME IInv, [Next]_buf PROVE Fifo!Next \/ Active(buf)' = Active(buf)
  OBVIOUS
<1>1. buf \in Buffer /\ WellFormed(buf)
  BY DEF IInv, TypeOK, PositionsOrdered
<1>2. Active(buf)' = Active(buf')
  BY DEF Active
<1> DEFINE b == EnlargeBufferIfNeeded(CompactData(buf))
<1>3. b \in Buffer /\ WellFormed(b) /\ Active(b) = Active(buf)
  BY <1>1, CompactDataKeeps, CompactDataActive, EnlargeBufferKeeps, EnlargeBufferActive
<1>4. ASSUME NEW bytes \in Chunks, SocketRead(bytes) PROVE Fifo!Put(bytes)
  <2>1. bytes \in Seq(Byte) /\ Len(bytes) <= RemainingSpace(b) /\ buf' = Fill(b, bytes)
    BY <1>4, ByteAssumption DEF SocketRead
  <2>2. Active(buf') = Active(buf) \o bytes
    BY <1>3, <2>1, FillActive
  <2> QED
    BY <1>2, <2>2 DEF Fifo!Put
<1>5. CASE SocketReadNothing
  BY <1>2, <1>3, <1>5 DEF SocketReadNothing
<1>6. ASSUME NEW bytes \in Chunks, Write(bytes) PROVE Fifo!Put(bytes)
  <2> DEFINE m == MakeRoom(buf, Len(bytes))
  <2>1. bytes \in Seq(Byte) /\ Len(bytes) \in Nat
    BY ByteAssumption, LenProperties
  <2>2. m \in Buffer /\ WellFormed(m) /\ RemainingSpace(m) >= Len(bytes) /\ Active(m) = Active(buf)
    BY <1>1, <2>1, MakeRoomKeeps, MakeRoomActive
  <2>3. m.wpos \in Nat /\ Len(m.data) \in Nat
    BY <2>2, LenProperties DEF Buffer
  <2>4. Len(bytes) <= RemainingSpace(m)
    BY <2>1, <2>2, <2>3 DEF RemainingSpace
  <2>5. buf' = Fill(m, bytes)
    BY <1>6 DEF Write, Written
  <2>6. Active(buf') = Active(buf) \o bytes
    BY <2>1, <2>2, <2>4, <2>5, FillActive
  <2> QED
    BY <1>2, <2>6 DEF Fifo!Put
<1>7. ASSUME NEW n \in 1..ActiveSize(buf), ReadCompleted(n)
      PROVE  n \in 1..Len(Active(buf)) /\ Fifo!Take(n)
  <2>1. n \in 1..Len(Active(buf))
    BY <1>1, ActiveBytes
  <2>2. Active(buf') = SubSeq(Active(buf), n + 1, Len(Active(buf)))
    BY <1>1, <1>7, ReadActive DEF ReadCompleted
  <2> QED
    BY <1>2, <2>1, <2>2 DEF Fifo!Take
<1>8. CASE Clear \/ SoftClear
  <2>1. IInv'
    BY MessageStep
  <2>2. buf' \in Buffer /\ WellFormed(buf') /\ buf'.rpos = buf'.wpos
    <3>1. buf' \in Buffer /\ WellFormed(buf')
      BY <2>1 DEF IInv, TypeOK, PositionsOrdered
    <3>2. buf'.rpos = 0 /\ buf'.wpos = 0
      <4>1. CASE Clear
        BY <4>1 DEF Clear
      <4>2. CASE SoftClear
        BY <1>1, <4>2 DEF SoftClear, Buffer
      <4> QED
        BY <1>8, <4>1, <4>2
    <3> QED
      BY <3>1, <3>2
  <2>3. Active(buf') = <<>>
    BY <2>2, NothingActive
  <2> QED
    BY <1>2, <2>3 DEF Fifo!Next, Fifo!Forget
<1>9. CASE UNCHANGED buf
  BY <1>2, <1>9
<1> QED
  BY <1>4, <1>5, <1>6, <1>7, <1>8, <1>9 DEF Next, Fifo!Next

\* The unread bytes of a message are a byte fifo: no read, write, compaction
\* or reallocation loses, repeats, alters or reorders one of them.
THEOREM BytesStayInOrder == Spec => ImplementsByteFifo
<1>1. Init => Fifo!Init
  <2> SUFFICES ASSUME Init PROVE Active(buf) = <<>>
    BY DEF Fifo!Init
  <2>1. buf \in Buffer /\ WellFormed(buf)
    BY MessageInitial DEF IInv, TypeOK, PositionsOrdered
  <2>2. buf.rpos = buf.wpos
    BY DEF Init
  <2> QED
    BY <2>1, <2>2, NothingActive
<1> QED
  BY <1>1, MessageInitial, MessageStep, MessageIsFifo, PTL DEF Spec, ImplementsByteFifo, Fifo!Spec

-----------------------------------------------------------------------------
(* Flattening a sequence of byte sequences *)

\* A set of naturals has a least element.
LEMMA Least ==
  ASSUME NEW T \in SUBSET Nat, T # {}
  PROVE  \E x \in T : \A y \in T : x <= y
<1>1. PICK x \in T : \A y \in T : ~(<<y, x>> \in OpToRel(<, Nat))
  BY NatLessThanWellFounded, WFMin
<1>2. ASSUME NEW y \in T PROVE x <= y
  <2>1. <<y, x>> \in Nat \X Nat /\ ~(y < x)
    BY <1>1 DEF OpToRel
  <2> QED
    BY <2>1
<1> QED
  BY <1>2

\* What holds of the first piece and of a piece after another holds of all.
LEMMA EachPiece ==
  ASSUME NEW N \in Nat, NEW T, 1 \in T, \A n \in 2..N : n - 1 \in T => n \in T
  PROVE  \A n \in 1..N : n \in T
<1> SUFFICES ASSUME NEW m \in 1..N, m \notin T PROVE FALSE
  OBVIOUS
<1> DEFINE U == {n \in 1..N : n \notin T}
<1>1. U \in SUBSET Nat /\ U # {}
  OBVIOUS
<1>2. PICK x \in U : \A y \in U : x <= y
  BY <1>1, Least
<1>3. x \in 2..N /\ x - 1 \in 1..N /\ ~(x <= x - 1)
  OBVIOUS
<1>4. x - 1 \in T
  BY <1>2, <1>3
<1> QED
  BY <1>3, <1>4

\* f[i] is what the first i pieces make together.
IsFlat(f, pieces, n) == f = [i \in 1..n |-> IF i = 1 THEN pieces[1] ELSE f[i - 1] \o pieces[i]]

\* There is such a function.
LEMMA FlatExists ==
  ASSUME NEW N \in Nat, N # 0, NEW pieces
  PROVE  \E f : IsFlat(f, pieces, N)
<1> DEFINE T == {n \in 1..N : \E f : IsFlat(f, pieces, n)}
<1>1. 1 \in T
  <2>1. IsFlat([i \in 1..1 |-> pieces[1]], pieces, 1)
    BY DEF IsFlat
  <2> QED
    BY <2>1
<1>2. ASSUME NEW n \in 2..N, n - 1 \in T PROVE n \in T
  <2>1. PICK f : IsFlat(f, pieces, n - 1)
    BY <1>2
  <2> DEFINE g == [i \in 1..n |-> IF i = n THEN f[n - 1] \o pieces[n] ELSE f[i]]
  <2>2. ASSUME NEW i \in 1..n
        PROVE  g[i] = IF i = 1 THEN pieces[1] ELSE g[i - 1] \o pieces[i]
    <3>1. CASE i = n
      <4>1. n # 1 /\ n - 1 \in 1..n /\ n - 1 # n /\ n \in 1..n
        OBVIOUS
      <4>2. g[n] = f[n - 1] \o pieces[n] /\ g[n - 1] = f[n - 1]
        BY <4>1
      <4> HIDE DEF g
      <4> QED
        BY <3>1, <4>1, <4>2
    <3>2. CASE i # n
      <4>1. i \in 1..(n - 1) /\ g[i] = f[i] /\ (i # 1 => i - 1 \in 1..n /\ i - 1 # n /\ g[i - 1] = f[i - 1])
        BY <3>2
      <4> QED
        BY <2>1, <4>1 DEF IsFlat
    <3> QED
      BY <3>1, <3>2
  <2>3. IsFlat(g, pieces, n)
    <3>1. g = [i \in 1..n |-> g[i]]
      OBVIOUS
    <3> HIDE DEF g
    <3> QED
      BY <2>2, <3>1 DEF IsFlat
  <2>4. n \in 1..N
    OBVIOUS
  <2> QED
    BY <2>3, <2>4
<1> HIDE DEF T
<1>3. \A n \in 1..N : n \in T
  BY <1>1, <1>2, EachPiece
<1> QED
  BY <1>3 DEF T

LEMMA JoinAssociative ==
  ASSUME NEW a \in Seq(Byte), NEW b \in Seq(Byte), NEW c \in Seq(Byte)
  PROVE  (a \o b) \o c = a \o (b \o c)
  BY ConcatAssociative

\* The pieces of bytes, one after the other.
Pieces == Seq(Seq(Byte))

\* What flattening computes.
LEMMA FlattenIsFlat ==
  ASSUME NEW s \in Pieces, s # <<>>
  PROVE  Len(s) \in Nat \ {0} /\ \E f : IsFlat(f, s, Len(s)) /\ FlattenSeq(s) = f[Len(s)]
<1>1. Len(s) \in Nat \ {0}
  BY EmptySeq DEF Pieces
<1> DEFINE f == CHOOSE f : f = [i \in 1..Len(s) |-> IF i = 1 THEN s[i] ELSE f[i - 1] \o s[i]]
<1>2. FlattenSeq(s) = f[Len(s)]
  <2>1. FlattenSeq(s) = IF Len(s) = 0 THEN s ELSE f[Len(s)]
    BY Zenon DEF FlattenSeq
  <2> QED
    BY <1>1, <2>1
<1>3. \E g : IsFlat(g, s, Len(s))
  BY <1>1, FlatExists
<1>4. IsFlat(f, s, Len(s))
  <2> DEFINE IsIt(g) == g = [i \in 1..Len(s) |-> IF i = 1 THEN s[i] ELSE g[i - 1] \o s[i]]
  <2>1. \A g : IsFlat(g, s, Len(s)) <=> IsIt(g)
    BY DEF IsFlat
  <2>2. IsIt(f)
    BY <1>3, <2>1
  <2> HIDE DEF IsIt, f
  <2> QED
    BY <2>1, <2>2
<1> HIDE DEF f
<1> QED
  BY <1>1, <1>2, <1>4

LEMMA FlattenEmpty == FlattenSeq(<<>>) = <<>>
  BY EmptySeq DEF FlattenSeq

\* Pieces that agree make the same together.
Agree(s, t, m) == \A i \in 1..m : s[i] = t[i]

LEMMA FlatAgree ==
  ASSUME NEW m \in Nat, NEW n \in Nat, m <= n, NEW s, NEW t, Agree(s, t, m),
         NEW f, IsFlat(f, s, m), NEW g, IsFlat(g, t, n)
  PROVE  Agree(f, g, m)
<1> SUFFICES ASSUME m # 0 PROVE \A i \in 1..m : f[i] = g[i]
  BY DEF Agree
<1> DEFINE T == {i \in 1..m : f[i] = g[i]}
<1>1. 1 \in T
  <2>1. 1 \in 1..m /\ 1 \in 1..n
    OBVIOUS
  <2> QED
    BY <2>1 DEF IsFlat, Agree
<1>2. ASSUME NEW i \in 2..m, i - 1 \in T PROVE i \in T
  <2>1. i \in 1..m /\ i \in 1..n /\ i # 1
    OBVIOUS
  <2>2. f[i] = f[i - 1] \o s[i] /\ g[i] = g[i - 1] \o t[i]
    BY <2>1 DEF IsFlat
  <2> QED
    BY <1>2, <2>1, <2>2 DEF Agree
<1> HIDE DEF T
<1>3. \A i \in 1..m : i \in T
  BY <1>1, <1>2, EachPiece
<1> QED
  BY <1>3 DEF T

\* All that the pieces make are bytes.
LEMMA FlatType ==
  ASSUME NEW s \in Pieces, NEW n \in Nat, n <= Len(s), NEW f, IsFlat(f, s, n)
  PROVE  \A i \in 1..n : f[i] \in Seq(Byte)
<1> SUFFICES ASSUME n # 0 PROVE \A i \in 1..n : f[i] \in Seq(Byte)
  OBVIOUS
<1>1. Len(s) \in Nat /\ \A i \in 1..Len(s) : s[i] \in Seq(Byte)
  BY LenProperties, ElementOfSeq DEF Pieces
<1> DEFINE T == {i \in 1..n : f[i] \in Seq(Byte)}
<1>2. 1 \in T
  <2>1. 1 \in 1..n /\ 1 \in 1..Len(s)
    BY <1>1
  <2>2. f[1] = s[1]
    BY <2>1 DEF IsFlat
  <2> QED
    BY <1>1, <2>1, <2>2
<1>3. ASSUME NEW i \in 2..n, i - 1 \in T PROVE i \in T
  <2>1. i \in 1..n /\ i \in 1..Len(s) /\ i # 1
    BY <1>1
  <2>2. f[i] = f[i - 1] \o s[i]
    BY <2>1 DEF IsFlat
  <2> QED
    <3>1. f[i - 1] \in Seq(Byte) /\ s[i] \in Seq(Byte)
      BY <1>1, <1>3, <2>1
    <3>2. f[i - 1] \o s[i] \in Seq(Byte)
      BY <3>1, ConcatProperties
    <3> QED
      BY <2>1, <2>2, <3>2
<1> HIDE DEF T
<1>4. \A i \in 1..n : i \in T
  BY <1>2, <1>3, EachPiece
<1> QED
  BY <1>4 DEF T

\* Flattened pieces are bytes.
LEMMA FlattenType ==
  ASSUME NEW s \in Pieces
  PROVE  FlattenSeq(s) \in Seq(Byte)
<1>1. CASE s = <<>>
  BY <1>1, FlattenEmpty, EmptySeq
<1>2. CASE s # <<>>
  <2>1. PICK f : Len(s) \in Nat \ {0} /\ IsFlat(f, s, Len(s)) /\ FlattenSeq(s) = f[Len(s)]
    BY <1>2, FlattenIsFlat
  <2>2. Len(s) \in 1..Len(s) /\ Len(s) <= Len(s)
    BY <2>1
  <2> QED
    BY <2>1, <2>2, FlatType
<1> QED
  BY <1>1, <1>2

\* A piece behind the others.
LEMMA FlattenAppend ==
  ASSUME NEW s \in Pieces, NEW piece \in Seq(Byte)
  PROVE  FlattenSeq(Append(s, piece)) = FlattenSeq(s) \o piece
<1> DEFINE t == Append(s, piece)
<1>1. /\ t \in Pieces /\ t # <<>> /\ Len(t) = Len(s) + 1 /\ t[Len(t)] = piece /\ Len(s) \in Nat
      /\ \A i \in 1..Len(s) : t[i] = s[i]
  BY AppendProperties, LenProperties DEF Pieces
<1> HIDE DEF t
<1>2. PICK g : IsFlat(g, t, Len(t)) /\ FlattenSeq(t) = g[Len(t)]
  BY <1>1, FlattenIsFlat
<1>3. CASE s = <<>>
  <2>1. Len(t) = 1
    BY <1>1, <1>3, EmptySeq
  <2>2. g[1] = piece
    <3>1. 1 \in 1..Len(t)
      BY <2>1
    <3>2. g[1] = t[1]
      BY <1>2, <3>1 DEF IsFlat
    <3> QED
      BY <1>1, <2>1, <3>2
  <2>3. <<>> \o piece = piece
    BY ConcatEmptySeq
  <2> QED
    BY <1>2, <1>3, <2>1, <2>2, <2>3, FlattenEmpty DEF t
<1>4. CASE s # <<>>
  <2>1. PICK f : Len(s) \in Nat \ {0} /\ IsFlat(f, s, Len(s)) /\ FlattenSeq(s) = f[Len(s)]
    BY <1>4, FlattenIsFlat
  <2>2. Len(s) <= Len(t) /\ Len(t) \in Nat /\ Len(t) \in 1..Len(t) /\ Len(t) # 1 /\ Len(t) - 1 = Len(s)
        /\ Len(s) \in 1..Len(s)
    BY <1>1, <2>1
  <2>3. f[Len(s)] = g[Len(s)]
    <3>1. Len(s) \in Nat /\ Len(t) \in Nat /\ Len(s) <= Len(t) /\ Agree(s, t, Len(s))
      BY <1>1, <2>1, <2>2 DEF Agree
    <3>2. Agree(f, g, Len(s))
      BY <1>2, <2>1, <3>1, FlatAgree
    <3> QED
      BY <2>2, <3>2 DEF Agree
  <2>4. g[Len(t)] = g[Len(s)] \o piece
    BY <1>1, <1>2, <2>2 DEF IsFlat
  <2> QED
    BY <1>2, <2>1, <2>3, <2>4 DEF t
<1> QED
  BY <1>3, <1>4

\* The first piece before the others.
LEMMA FlattenHead ==
  ASSUME NEW s \in Pieces, s # <<>>
  PROVE  FlattenSeq(s) = Head(s) \o FlattenSeq(Tail(s))
<1> DEFINE t == Tail(s)
<1>1. PICK f : Len(s) \in Nat \ {0} /\ IsFlat(f, s, Len(s)) /\ FlattenSeq(s) = f[Len(s)]
  BY FlattenIsFlat
<1>2. /\ t \in Pieces /\ Len(t) = Len(s) - 1 /\ (\A i \in 1..Len(t) : t[i] = s[i + 1])
      /\ Head(s) = s[1] /\ Head(s) \in Seq(Byte)
  BY HeadTailProperties DEF Pieces
<1> HIDE DEF t
<1>3. CASE t = <<>>
  <2>1. Len(s) = 1
    BY <1>1, <1>2, <1>3, EmptySeq
  <2>2. f[1] = s[1]
    BY <1>1, <2>1 DEF IsFlat
  <2>3. Head(s) \o <<>> = Head(s)
    BY <1>2, ConcatEmptySeq
  <2> QED
    BY <1>1, <1>2, <1>3, <2>1, <2>2, <2>3, FlattenEmpty DEF t
<1>4. CASE t # <<>>
  <2>1. PICK g : Len(t) \in Nat \ {0} /\ IsFlat(g, t, Len(t)) /\ FlattenSeq(t) = g[Len(t)]
    BY <1>2, <1>4, FlattenIsFlat
  <2> DEFINE N == Len(t)
             T == {i \in 1..N : f[i + 1] = Head(s) \o g[i]}
  <2>2. N \in Nat /\ N # 0 /\ Len(s) = N + 1 /\ N <= N
    BY <1>1, <1>2, <2>1
  <2>3. \A i \in 1..N : g[i] \in Seq(Byte) /\ t[i] \in Seq(Byte)
    BY <1>2, <2>1, <2>2, FlatType, ElementOfSeq DEF Pieces
  <2> HIDE DEF N
  <2>4. \A i \in 1..N : /\ f[i + 1] = f[i] \o t[i] /\ (i = 1 => g[i] = t[i] /\ f[1] = Head(s))
                        /\ (i # 1 => i - 1 \in 1..N /\ (i - 1) + 1 = i /\ g[i] = g[i - 1] \o t[i])
    <3> SUFFICES ASSUME NEW i \in 1..N
                 PROVE  /\ f[i + 1] = f[i] \o t[i] /\ (i = 1 => g[i] = t[i] /\ f[1] = Head(s))
                        /\ (i # 1 => i - 1 \in 1..N /\ (i - 1) + 1 = i /\ g[i] = g[i - 1] \o t[i])
      OBVIOUS
    <3>1. i + 1 \in 1..Len(s) /\ i + 1 # 1 /\ (i + 1) - 1 = i /\ 1 \in 1..Len(s)
      BY <2>2
    <3>2. f[i + 1] = f[i] \o s[i + 1] /\ f[1] = s[1]
      BY <1>1, <3>1 DEF IsFlat
    <3>3. (i = 1 => g[i] = t[1]) /\ (i # 1 => g[i] = g[i - 1] \o t[i])
      BY <2>1 DEF IsFlat, N
    <3>4. i # 1 => i - 1 \in 1..N /\ (i - 1) + 1 = i
      BY <2>2
    <3>5. t[i] = s[i + 1]
      BY <1>2 DEF N
    <3> QED
      BY <1>2, <3>2, <3>3, <3>4, <3>5
  <2>5. 1 \in T
    <3>1. 1 \in 1..N
      BY <2>2
    <3> QED
      BY <2>4, <3>1
  <2>6. ASSUME NEW i \in 2..N, i - 1 \in T PROVE i \in T
    <3>1. i \in 1..N /\ i # 1 /\ i - 1 \in 1..N /\ (i - 1) + 1 = i
      BY <2>2
    <3>2. f[i] = Head(s) \o g[i - 1]
      BY <2>6, <3>1
    <3>3. f[i + 1] = (Head(s) \o g[i - 1]) \o t[i] /\ g[i] = g[i - 1] \o t[i]
      BY <2>4, <3>1, <3>2
    <3>4. (Head(s) \o g[i - 1]) \o t[i] = Head(s) \o (g[i - 1] \o t[i])
      <4>1. g[i - 1] \in Seq(Byte) /\ t[i] \in Seq(Byte)
        BY <2>3, <3>1
      <4> QED
        BY <1>2, <4>1, JoinAssociative
    <3> QED
      BY <3>1, <3>3, <3>4
  <2> HIDE DEF T
  <2>7. \A i \in 1..N : i \in T
    BY <2>2, <2>5, <2>6, EachPiece
  <2>8. N \in 1..N
    BY <2>2
  <2>9. f[N + 1] = Head(s) \o g[N]
    BY <2>7, <2>8 DEF T
  <2> QED
    BY <1>1, <2>1, <2>2, <2>9 DEF N, t
<1> QED
  BY <1>3, <1>4

-----------------------------------------------------------------------------
(* The socket's queue of messages *)

\* A queue of messages, and all that is left to send of it.
IsQueue(q) == q \in Seq(Buffer) /\ \A i \in 1..Len(q) : WellFormed(q[i])
Parts(q) == [i \in 1..Len(q) |-> Active(q[i])]
Left(q) == FlattenSeq(Parts(q))

\* The active bytes of a queue are pieces.
LEMMA PartsType ==
  ASSUME NEW q, IsQueue(q)
  PROVE  Parts(q) \in Pieces /\ Len(Parts(q)) = Len(q) /\ Left(q) \in Seq(Byte) /\ Len(q) \in Nat
<1>1. Len(q) \in Nat /\ \A i \in 1..Len(q) : q[i] \in Buffer /\ WellFormed(q[i])
  BY LenProperties, ElementOfSeq DEF IsQueue
<1>2. \A i \in 1..Len(q) : Parts(q)[i] \in Seq(Byte)
  BY <1>1, ActiveBytes DEF Parts
<1>3. Parts(q) = [i \in 1..Len(q) |-> Parts(q)[i]]
  BY DEF Parts
<1>4. Parts(q) \in Pieces /\ Len(Parts(q)) = Len(q)
  BY <1>1, <1>2, <1>3 DEF Pieces
<1> QED
  BY <1>1, <1>4, FlattenType DEF Left

\* A message behind the others.
LEMMA LeftAppend ==
  ASSUME NEW q, IsQueue(q), NEW b \in Buffer, WellFormed(b)
  PROVE  IsQueue(Append(q, b)) /\ Left(Append(q, b)) = Left(q) \o Active(b)
<1> DEFINE r == Append(q, b)
<1>1. /\ r \in Seq(Buffer) /\ Len(r) = Len(q) + 1 /\ r[Len(q) + 1] = b /\ Len(q) \in Nat
      /\ \A i \in 1..Len(q) : r[i] = q[i]
  BY AppendProperties, LenProperties DEF IsQueue
<1> HIDE DEF r
<1>2. ASSUME NEW i \in 1..Len(r) PROVE WellFormed(r[i])
  <2>1. i \in 1..Len(q) \/ i = Len(q) + 1
    BY <1>1
  <2> QED
    BY <1>1, <2>1 DEF IsQueue
<1>3. Parts(q) \in Pieces /\ Len(Parts(q)) = Len(q) /\ Active(b) \in Seq(Byte)
  BY PartsType, ActiveBytes
<1>4. Parts(r) = Append(Parts(q), Active(b))
  <2> DEFINE t == Append(Parts(q), Active(b))
  <2>1. /\ t \in Pieces /\ Len(t) = Len(q) + 1 /\ t[Len(q) + 1] = Active(b)
        /\ \A i \in 1..Len(q) : t[i] = Parts(q)[i]
    BY <1>3, AppendProperties DEF Pieces
  <2> HIDE DEF t
  <2>2. IsQueue(r)
    BY <1>1, <1>2 DEF IsQueue
  <2>3. Parts(r) \in Pieces /\ Len(Parts(r)) = Len(r)
    BY <2>2, PartsType
  <2>4. ASSUME NEW i \in 1..Len(r) PROVE Parts(r)[i] = t[i]
    <3>1. i \in 1..Len(q) \/ i = Len(q) + 1
      BY <1>1
    <3>2. Parts(r)[i] = Active(r[i]) /\ (i \in 1..Len(q) => Parts(q)[i] = Active(q[i]))
      BY DEF Parts
    <3> QED
      BY <1>1, <2>1, <3>1, <3>2
  <2>5. Parts(r) = t
    BY <1>1, <2>1, <2>3, <2>4, SeqEqual DEF Pieces
  <2> QED
    BY <2>5 DEF t
<1>5. FlattenSeq(Append(Parts(q), Active(b))) = FlattenSeq(Parts(q)) \o Active(b)
  BY <1>3, FlattenAppend
<1> QED
  BY <1>1, <1>2, <1>4, <1>5 DEF IsQueue, Left, r

\* The first message before the others.
LEMMA LeftHead ==
  ASSUME NEW q, IsQueue(q), q # <<>>
  PROVE  /\ Head(q) \in Buffer /\ WellFormed(Head(q)) /\ IsQueue(Tail(q))
         /\ Left(q) = Active(Head(q)) \o Left(Tail(q))
<1> DEFINE r == Tail(q)
<1>1. /\ Head(q) \in Buffer /\ r \in Seq(Buffer) /\ Len(r) = Len(q) - 1 /\ Head(q) = q[1]
      /\ \A i \in 1..Len(r) : r[i] = q[i + 1]
  BY HeadTailProperties DEF IsQueue
<1>2. Len(q) \in Nat \ {0}
  BY EmptySeq DEF IsQueue
<1> HIDE DEF r
<1>3. \A i \in 1..Len(r) : i + 1 \in 1..Len(q)
  BY <1>1, <1>2
<1>4. IsQueue(r) /\ WellFormed(Head(q))
  <2>1. 1 \in 1..Len(q)
    BY <1>2
  <2> QED
    BY <1>1, <1>3, <2>1 DEF IsQueue
<1>5. /\ Parts(q) \in Pieces /\ Len(Parts(q)) = Len(q) /\ Parts(r) \in Pieces /\ Len(Parts(r)) = Len(r)
  BY <1>4, PartsType
<1>6. Parts(q) # <<>>
  BY <1>2, <1>5, EmptySeq
<1>7. /\ Tail(Parts(q)) \in Pieces /\ Len(Tail(Parts(q))) = Len(q) - 1 /\ Head(Parts(q)) = Parts(q)[1]
      /\ \A i \in 1..Len(Tail(Parts(q))) : Tail(Parts(q))[i] = Parts(q)[i + 1]
  BY <1>5, <1>6, HeadTailProperties DEF Pieces
<1>8. Head(Parts(q)) = Active(Head(q))
  <2>1. 1 \in 1..Len(q)
    BY <1>2
  <2> QED
    BY <1>1, <1>7, <2>1 DEF Parts
<1>9. Tail(Parts(q)) = Parts(r)
  <2>1. ASSUME NEW i \in 1..Len(r) PROVE Tail(Parts(q))[i] = Parts(r)[i]
    <3>1. i \in 1..Len(Tail(Parts(q))) /\ i + 1 \in 1..Len(q)
      BY <1>1, <1>3, <1>7
    <3>2. Tail(Parts(q))[i] = Active(q[i + 1])
      BY <1>7, <3>1 DEF Parts
    <3> QED
      BY <1>1, <3>2 DEF Parts
  <2>2. Len(Tail(Parts(q))) = Len(r)
    BY <1>1, <1>7
  <2> QED
    BY <1>5, <1>7, <2>1, <2>2, SeqEqual DEF Pieces
<1>10. FlattenSeq(Parts(q)) = Head(Parts(q)) \o FlattenSeq(Tail(Parts(q)))
  BY <1>5, <1>6, FlattenHead
<1> QED
  BY <1>1, <1>4, <1>8, <1>9, <1>10 DEF Left, r

\* A message in the place of the first.
LEMMA LeftFirst ==
  ASSUME NEW q, IsQueue(q), NEW b \in Buffer, WellFormed(b)
  PROVE  IsQueue(<<b>> \o q) /\ Left(<<b>> \o q) = Active(b) \o Left(q) /\ <<b>> \o q # <<>>
<1> DEFINE r == <<b>> \o q
<1>1. <<b>> \in Seq(Buffer) /\ Len(<<b>>) = 1 /\ <<b>>[1] = b /\ q \in Seq(Buffer) /\ Len(q) \in Nat
  BY LenProperties DEF IsQueue
<1>2. r \in Seq(Buffer) /\ Len(r) = 1 + Len(q)
  BY <1>1, ConcatProperties
<1>3. \A i \in 1..Len(r) : r[i] = IF i = 1 THEN b ELSE q[i - 1]
  <2>1. \A i \in 1..1 + Len(q) : r[i] = IF i <= 1 THEN <<b>>[i] ELSE q[i - 1]
    BY <1>1, ConcatProperties
  <2> HIDE DEF r
  <2> QED
    BY <1>1, <1>2, <2>1
<1> HIDE DEF r
<1>4. r # <<>>
  BY <1>1, <1>2, EmptySeq
<1>5. IsQueue(r)
  <2>1. ASSUME NEW i \in 1..Len(r) PROVE WellFormed(r[i])
    <3>1. i = 1 \/ i - 1 \in 1..Len(q)
      BY <1>1, <1>2
    <3> QED
      BY <1>3, <3>1 DEF IsQueue
  <2> QED
    BY <1>2, <2>1 DEF IsQueue
<1>6. Head(r) = b
  <2>1. 1 \in 1..Len(r) /\ Head(r) = r[1]
    BY <1>1, <1>2, <1>4
  <2> QED
    BY <1>3, <2>1
<1>7. Tail(r) = q
  <2>1. /\ Tail(r) \in Seq(Buffer) /\ Len(Tail(r)) = Len(r) - 1
        /\ \A i \in 1..Len(Tail(r)) : Tail(r)[i] = r[i + 1]
    BY <1>2, <1>4, HeadTailProperties
  <2>2. Len(Tail(r)) = Len(q)
    BY <1>1, <1>2, <2>1
  <2>3. ASSUME NEW i \in 1..Len(q) PROVE Tail(r)[i] = q[i]
    <3>1. i \in 1..Len(Tail(r)) /\ i + 1 \in 1..Len(r) /\ i + 1 # 1 /\ (i + 1) - 1 = i
      BY <1>1, <1>2, <2>2
    <3> QED
      BY <1>3, <2>1, <3>1
  <2> QED
    BY <1>1, <2>1, <2>2, <2>3, SeqEqual
<1> QED
  BY <1>4, <1>5, <1>6, <1>7, LeftHead DEF r

\* What a send hands over is the front of the message, the rest stays.
LEMMA SendSplits ==
  ASSUME NEW b \in Buffer, WellFormed(b), NEW n \in 1..ActiveSize(b)
  PROVE  LET c == [b EXCEPT !.rpos = b.rpos + n]
             sent == SubSeq(b.data, b.rpos + 1, b.rpos + n)
         IN  /\ c \in Buffer /\ WellFormed(c) /\ sent \in Seq(Byte) /\ Len(sent) = n
             /\ Active(b) = sent \o Active(c)
             /\ ActiveSize(c) = 0 => Active(c) = <<>>
<1> DEFINE c == [b EXCEPT !.rpos = b.rpos + n]
           sent == SubSeq(b.data, b.rpos + 1, b.rpos + n)
<1>1. /\ b.data \in Seq(Byte) /\ Len(b.data) \in Nat /\ b.rpos \in Nat /\ b.wpos \in Nat
      /\ b.rpos <= b.wpos /\ b.wpos <= Len(b.data) /\ n \in Nat /\ n <= b.wpos - b.rpos
  BY LenProperties DEF Buffer, WellFormed, ActiveSize
<1>2. c \in Buffer /\ WellFormed(c)
  BY ReadActive
<1>3. c.data = b.data /\ c.rpos = b.rpos + n /\ c.wpos = b.wpos
  BY DEF Buffer
<1> HIDE DEF c
<1> DEFINE m == b.rpos + 1
           k == b.rpos + n
<1>4. m \in 1..Len(b.data) + 1 /\ k \in m - 1..Len(b.data) /\ b.wpos \in k..Len(b.data)
  BY <1>1
<1>5. SubSeq(b.data, m, k) \o SubSeq(b.data, k + 1, b.wpos) = SubSeq(b.data, m, b.wpos)
  BY <1>1, <1>4, ConcatAdjacentSubSeq
<1>6. Active(b) = sent \o Active(c)
  BY <1>3, <1>5 DEF Active
<1>7. sent \in Seq(Byte) /\ Len(sent) = n
  <2>1. m \in Int /\ k \in Int /\ m <= k /\ k - m + 1 = n /\ \A i \in m..k : i \in 1..Len(b.data)
    BY <1>1
  <2>2. \A i \in m..k : b.data[i] \in Byte
    BY <1>1, <2>1, ElementOfSeq
  <2> HIDE DEF m, k
  <2>3. SubSeq(b.data, m, k) \in Seq(Byte) /\ Len(SubSeq(b.data, m, k)) = n
    BY <2>1, <2>2, SubSeqProperties
  <2> QED
    BY <2>3 DEF m, k
<1>8. ActiveSize(c) = 0 => Active(c) = <<>>
  <2>1. ActiveSize(c) = 0 => c.rpos = c.wpos
    BY <1>1, <1>3 DEF ActiveSize
  <2> QED
    BY <1>2, <2>1, NothingActive
<1> QED
  BY <1>2, <1>6, <1>7, <1>8 DEF c

\* What is behind the first of two pieces is the second.
LEMMA RestOfJoined ==
  ASSUME NEW a \in Seq(Byte), NEW b \in Seq(Byte), NEW n \in Nat \ {0}, Len(a) = n
  PROVE  n \in 1..Len(a \o b) /\ b = SubSeq(a \o b, n + 1, Len(a \o b))
<1> DEFINE j == a \o b
<1>1. j \in Seq(Byte) /\ Len(j) = n + Len(b) /\ Len(b) \in Nat
  BY ConcatProperties, LenProperties
<1>2. CASE Len(b) = 0
  <2>1. b = <<>>
    BY <1>2, EmptySeq
  <2>2. n + 1 \in Int /\ Len(j) \in Int /\ Len(j) < n + 1
    BY <1>1, <1>2
  <2> HIDE DEF j
  <2>3. SubSeq(j, n + 1, Len(j)) = <<>>
    BY <2>2, SubSeqEmpty
  <2> QED
    BY <1>1, <1>2, <2>1, <2>3 DEF j
<1>3. CASE Len(b) # 0
  <2>1. n + 1 \in Len(a) + 1..Len(a) + Len(b) /\ Len(j) \in Len(a) + 1..Len(a) + Len(b)
    BY <1>1, <1>3
  <2>2. SubSeq(a \o b, n + 1, Len(j)) = SubSeq(b, (n + 1) - Len(a), Len(j) - Len(a))
    BY <2>1, SubSeqOfConcat2
  <2>3. (n + 1) - Len(a) = 1 /\ Len(j) - Len(a) = Len(b)
    BY <1>1
  <2>4. SubSeq(b, 1, Len(b)) = b
    BY SubSeqFull
  <2> QED
    BY <1>1, <2>2, <2>3, <2>4
<1> QED
  BY <1>2, <1>3

-----------------------------------------------------------------------------
(* The socket *)

CONSTANTS Packets, StartPositions, MaxQueued
VARIABLES outQueue, pollOut, open, queued, wire
Socket == INSTANCE TCPSocket

\* The constructor that wraps a packet leaves equal positions, as it must and
\* does not see to.
StartsEmpty ==
    /\ Packets \subseteq Chunks
    /\ \A start \in StartPositions : start[1] \in Nat /\ start[2] = start[1]

\* The packets that were queued are on the wire or wait, and are polled for.
SocketInv ==
    /\ IsQueue(outQueue) /\ queued \in Pieces /\ wire \in Seq(Byte)
    /\ pollOut = (outQueue # <<>>)
    /\ wire \o Left(outQueue) = FlattenSeq(queued)

LEMMA SameWaiting == Socket!Waiting = Left(outQueue)
  BY Zenon DEF Socket!Waiting, Left, Parts, Socket!FlattenSeq, FlattenSeq, Socket!Active, Active

LEMMA SameWired == Socket!WireInOrder <=> wire \o Left(outQueue) = FlattenSeq(queued)
<1>1. Socket!FlattenSeq(queued) = FlattenSeq(queued)
  BY Zenon DEF Socket!FlattenSeq, FlattenSeq
<1> QED
  BY <1>1, SameWaiting DEF Socket!WireInOrder

\* A wrapped packet is all that a message holds.
LEMMA WrapsPacket ==
  ASSUME NEW packet \in Seq(Byte), NEW start, start[1] \in Nat, start[2] = start[1], start[2] <= Len(packet)
  PROVE  LET w == Socket!Wrapped(packet, start)
         IN  w \in Buffer /\ WellFormed(w) /\ Active(w) = packet
<1> DEFINE zeros == [i \in 1..Len(packet) |-> Zero]
           b == [data |-> zeros, rpos |-> start[1], wpos |-> start[2]]
           m == MakeRoom(b, Len(packet))
           w == Fill(m, packet)
<1>1. Len(packet) \in Nat
  BY LenProperties
<1>2. zeros \in Seq(Byte) /\ Len(zeros) = Len(packet)
  BY <1>1, ByteAssumption
<1> HIDE DEF zeros
<1>3. b \in Buffer /\ WellFormed(b) /\ b.rpos = b.wpos
  BY <1>1, <1>2 DEF Buffer, WellFormed
<1>4. Socket!Wrapped(packet, start) = w
  BY DEF Socket!Wrapped, zeros, Socket!Written, Socket!Fill, Fill, Socket!MakeRoom, MakeRoom,
         Socket!RemainingSpace, RemainingSpace, Socket!CompactData, CompactData, Socket!ActiveSize,
         ActiveSize, Socket!Resize, Resize
<1> HIDE DEF b
<1>5. Active(b) = <<>>
  BY <1>3, NothingActive
<1>6. m \in Buffer /\ WellFormed(m) /\ RemainingSpace(m) >= Len(packet) /\ Active(m) = <<>>
  BY <1>1, <1>3, <1>5, MakeRoomKeeps, MakeRoomActive
<1> HIDE DEF m
<1>7. Len(packet) <= RemainingSpace(m)
  <2>1. m.wpos \in Nat /\ Len(m.data) \in Nat
    BY <1>6, LenProperties DEF Buffer
  <2> QED
    BY <1>1, <1>6, <2>1 DEF RemainingSpace
<1>8. w \in Buffer /\ WellFormed(w) /\ Active(w) = <<>> \o packet
  BY <1>6, <1>7, FillKeeps, FillActive
<1>9. <<>> \o packet = packet
  BY ConcatEmptySeq
<1> QED
  BY <1>4, <1>8, <1>9

LEMMA SocketQueues ==
  ASSUME SocketInv, StartsEmpty, NEW packet \in Packets, Socket!QueuePacket(packet)
  PROVE  SocketInv' /\ Left(outQueue') = Left(outQueue) \o packet
<1>1. packet \in Seq(Byte)
  BY ByteAssumption DEF StartsEmpty
<1>2. PICK start \in StartPositions :
        start[2] <= Len(packet) /\ outQueue' = Append(outQueue, Socket!Wrapped(packet, start))
  BY DEF Socket!QueuePacket
<1>3. start[1] \in Nat /\ start[2] = start[1]
  BY DEF StartsEmpty
<1> DEFINE w == Socket!Wrapped(packet, start)
<1>4. w \in Buffer /\ WellFormed(w) /\ Active(w) = packet
  BY <1>1, <1>2, <1>3, WrapsPacket
<1>5. outQueue' = Append(outQueue, w) /\ queued' = Append(queued, packet) /\ wire' = wire /\ pollOut' = TRUE
  BY <1>2 DEF Socket!QueuePacket
<1> HIDE DEF w
<1>6. IsQueue(outQueue') /\ Left(outQueue') = Left(outQueue) \o packet
  BY <1>4, <1>5, LeftAppend DEF SocketInv
<1>7. queued' \in Pieces /\ FlattenSeq(queued') = FlattenSeq(queued) \o packet
  BY <1>1, <1>5, FlattenAppend, AppendProperties DEF SocketInv, Pieces
<1>8. wire' \o Left(outQueue') = FlattenSeq(queued')
  <2>1. Left(outQueue) \in Seq(Byte) /\ wire \in Seq(Byte)
    BY PartsType DEF SocketInv
  <2>2. (wire \o Left(outQueue)) \o packet = wire \o (Left(outQueue) \o packet)
    BY <1>1, <2>1, JoinAssociative
  <2> QED
    BY <1>5, <1>6, <1>7, <2>2 DEF SocketInv
<1>9. outQueue' # <<>>
  BY <1>4, <1>5, AppendProperties DEF SocketInv, IsQueue
<1> QED
  BY <1>5, <1>6, <1>7, <1>8, <1>9 DEF SocketInv, Left, Parts, IsQueue, Pieces

LEMMA SocketSends ==
  ASSUME SocketInv, NEW n, Socket!SendBytes(n)
  PROVE  /\ SocketInv' /\ n \in 1..Len(Left(outQueue))
         /\ Left(outQueue') = SubSeq(Left(outQueue), n + 1, Len(Left(outQueue)))
<1> DEFINE b == Head(outQueue)
           rest == Tail(outQueue)
           c == [b EXCEPT !.rpos = b.rpos + n]
           sent == SubSeq(b.data, b.rpos + 1, b.rpos + n)
<1>1. /\ outQueue # <<>> /\ n \in 1..ActiveSize(b) /\ wire' = wire \o sent /\ queued' = queued
      /\ outQueue' = IF ActiveSize(c) = 0 THEN rest ELSE <<c>> \o rest
      /\ pollOut' = (outQueue' # <<>>)
  BY DEF Socket!SendBytes, Socket!Out, Socket!Sent, Socket!ActiveSize, ActiveSize
<1>2. /\ b \in Buffer /\ WellFormed(b) /\ IsQueue(rest)
      /\ Left(outQueue) = Active(b) \o Left(rest)
  BY <1>1, LeftHead DEF SocketInv
<1> HIDE DEF b, rest
<1>3. /\ c \in Buffer /\ WellFormed(c) /\ sent \in Seq(Byte) /\ Len(sent) = n
      /\ Active(b) = sent \o Active(c) /\ (ActiveSize(c) = 0 => Active(c) = <<>>)
  BY <1>1, <1>2, SendSplits
<1> HIDE DEF c, sent
<1>4. Left(rest) \in Seq(Byte) /\ Active(c) \in Seq(Byte)
  BY <1>2, <1>3, PartsType, ActiveBytes
<1>5. IsQueue(outQueue') /\ Left(outQueue') = Active(c) \o Left(rest)
  <2>1. CASE ActiveSize(c) = 0
    <3>1. Active(c) \o Left(rest) = Left(rest)
      BY <1>3, <1>4, <2>1, ConcatEmptySeq
    <3> QED
      BY <1>1, <1>2, <2>1, <3>1
  <2>2. CASE ActiveSize(c) # 0
    BY <1>1, <1>2, <1>3, <2>2, LeftFirst
  <2> QED
    BY <2>1, <2>2
<1> DEFINE left == Left(outQueue')
<1>6. left \in Seq(Byte)
  BY <1>5, PartsType
<1>7. Left(outQueue) = sent \o left
  <2>1. Left(outQueue) = (sent \o Active(c)) \o Left(rest)
    BY <1>2, <1>3
  <2>2. (sent \o Active(c)) \o Left(rest) = sent \o (Active(c) \o Left(rest))
    BY <1>3, <1>4, JoinAssociative
  <2> QED
    BY <1>5, <2>1, <2>2
<1> HIDE DEF left
<1>8. wire' \o left = FlattenSeq(queued') /\ wire' \in Seq(Byte)
  <2>1. (wire \o sent) \o left = wire \o (sent \o left) /\ wire \o sent \in Seq(Byte)
    BY <1>3, <1>6, JoinAssociative, ConcatProperties DEF SocketInv
  <2> QED
    BY <1>1, <1>7, <2>1 DEF SocketInv
<1>9. n \in 1..Len(Left(outQueue)) /\ left = SubSeq(Left(outQueue), n + 1, Len(Left(outQueue)))
  BY <1>1, <1>3, <1>6, <1>7, RestOfJoined
<1> QED
  BY <1>1, <1>5, <1>8, <1>9 DEF SocketInv, Left, Parts, IsQueue, left, Pieces

LEMMA SocketStep == SocketInv /\ StartsEmpty /\ [Socket!Next]_(Socket!vars) => SocketInv'
<1> SUFFICES ASSUME SocketInv, StartsEmpty, [Socket!Next]_(Socket!vars) PROVE SocketInv'
  OBVIOUS
<1>1. ASSUME NEW packet \in Packets, Socket!QueuePacket(packet) PROVE SocketInv'
  BY <1>1, SocketQueues
<1>2. CASE Socket!SendSome
  <2>1. PICK n : Socket!SendBytes(n)
    BY <1>2 DEF Socket!SendSome
  <2> QED
    BY <2>1, SocketSends
<1>3. CASE Socket!Close \/ UNCHANGED Socket!vars
  <2>1. UNCHANGED <<outQueue, pollOut, queued, wire>>
    BY <1>3 DEF Socket!Close, Socket!vars
  <2> QED
    BY <2>1 DEF SocketInv, IsQueue, Left, Parts, Active, WellFormed, Buffer, Pieces
<1> QED
  BY <1>1, <1>2, <1>3 DEF Socket!Next

LEMMA SocketInitial == Socket!Init => SocketInv /\ Left(outQueue) = <<>>
<1> SUFFICES ASSUME Socket!Init PROVE SocketInv /\ Left(outQueue) = <<>>
  OBVIOUS
<1>1. outQueue = <<>> /\ queued = <<>> /\ wire = <<>> /\ pollOut = FALSE
  BY DEF Socket!Init
<1>2. IsQueue(outQueue) /\ queued \in Pieces /\ wire \in Seq(Byte)
  BY <1>1, EmptySeq DEF IsQueue, Pieces
<1>3. Left(outQueue) = <<>>
  <2>1. Parts(outQueue) \in Pieces /\ Len(Parts(outQueue)) = 0
    BY <1>1, <1>2, PartsType, EmptySeq
  <2>2. Parts(outQueue) = <<>>
    BY <2>1, EmptySeq DEF Pieces
  <2> QED
    BY <2>2, FlattenEmpty DEF Left
<1>4. <<>> \o <<>> = <<>>
  BY EmptySeq, ConcatEmptySeq
<1> QED
  BY <1>1, <1>2, <1>3, <1>4, FlattenEmpty DEF SocketInv

LEMMA SocketIsFifo ==
  ASSUME SocketInv, StartsEmpty, [Socket!Next]_(Socket!vars)
  PROVE  [Socket!Fifo!Next]_(Socket!Waiting)
<1> DEFINE left == Left(outQueue)
<1>1. Socket!Waiting = left /\ Socket!Waiting' = left'
  <2>1. Socket!Waiting' = left'
    BY Zenon DEF Socket!Waiting, Left, Parts, Socket!FlattenSeq, FlattenSeq, Socket!Active, Active
  <2> QED
    BY <2>1, SameWaiting
<1>2. left' = Left(outQueue')
  BY DEF Left, Parts, Active
<1>3. ASSUME NEW packet \in Packets, Socket!QueuePacket(packet) PROVE Socket!Fifo!Next
  <2>1. packet \in Chunks
    BY DEF StartsEmpty
  <2>2. Socket!Waiting' = Socket!Waiting \o packet
    BY <1>1, <1>2, <1>3, SocketQueues
  <2> QED
    BY <2>1, <2>2 DEF Socket!Fifo!Next, Socket!Fifo!Put
<1>4. CASE Socket!SendSome
  <2>1. PICK n : Socket!SendBytes(n)
    BY <1>4 DEF Socket!SendSome
  <2>2. n \in 1..Len(left) /\ Left(outQueue') = SubSeq(left, n + 1, Len(left))
    BY <2>1, SocketSends
  <2> HIDE DEF left
  <2>3. n \in 1..Len(Socket!Waiting) /\ Socket!Waiting' = SubSeq(Socket!Waiting, n + 1, Len(Socket!Waiting))
    BY <1>1, <1>2, <2>2
  <2> QED
    BY <2>3 DEF Socket!Fifo!Next, Socket!Fifo!Take
<1>5. CASE Socket!Close \/ UNCHANGED Socket!vars
  <2>1. outQueue' = outQueue
    BY <1>5 DEF Socket!Close, Socket!vars
  <2> QED
    BY <1>1, <1>2, <2>1
<1> QED
  BY <1>3, <1>4, <1>5 DEF Socket!Next

\* If messages start empty, what the peer has received and what still waits is
\* what was queued, through short sends of any length: no byte is lost,
\* repeated or moved into another packet (TCPSocket::QueuePacket, Send).
THEOREM WireStaysInOrder ==
  ASSUME StartsEmpty
  PROVE  Socket!Spec => []Socket!WireInOrder
<1>1. SocketInv => Socket!WireInOrder
  BY SameWired DEF SocketInv
<1> QED
  BY <1>1, SocketInitial, SocketStep, PTL DEF Socket!Spec

\* If messages start empty, the socket's queue is a byte fifo that sends empty
\* from the front (TCPSocket::QueuePacket, Send).
THEOREM SocketKeepsOrder ==
  ASSUME StartsEmpty
  PROVE  Socket!Spec => Socket!ImplementsByteFifo
<1>1. Socket!Init => Socket!Fifo!Init
  BY SocketInitial, SameWaiting DEF Socket!Fifo!Init
<1>2. SocketInv /\ [Socket!Next]_(Socket!vars) => [Socket!Fifo!Next]_(Socket!Waiting)
  BY SocketIsFifo
<1> QED
  BY <1>1, <1>2, SocketInitial, SocketStep, PTL DEF Socket!Spec, Socket!ImplementsByteFifo, Socket!Fifo!Spec
=============================================================================
