-------------------------- MODULE ClientEngine_proofs --------------------------
(***************************************************************************)
(* Proofs about the console and the assets of the client, for any limit of *)
(* the history, any texts, pastes of several lines among them, any         *)
(* keyboards, typing, data folders and any number of runs: the history,    *)
(* which goes through a file from one run to the next, stays below twice   *)
(* its limit but for the further lines of what was pasted, ends with what  *)
(* the last run left, and is what recall shows; every pointer to an image  *)
(* is to a cached one; and the tile of an id is that of the list of all    *)
(* tiles.                                                                  *)
(***************************************************************************)
EXTENDS ClientEngine, SequenceTheorems, FiniteSetTheorems, WellFoundedInduction, TLAPS

-----------------------------------------------------------------------------
(* Loops over a list *)

\* A set of numbers has a least one; a set that has 0, and each number whose
\* predecessor it has, has all.  (A loop of the code is a recursive function
\* over the number of its rounds; the set is that of the rounds after which
\* what is to be proved holds.)
LEMMA Least ==
  ASSUME NEW T \in SUBSET Nat, T # {}
  PROVE  \E x \in T : \A y \in T : x <= y
  <1>1. PICK x \in T : \A y \in T : ~(<<y, x>> \in OpToRel(<, Nat))
    BY NatLessThanWellFounded, WFMin
  <1>2. ASSUME NEW y \in T PROVE x <= y
    <2>1. <<y, x>> \in Nat \X Nat /\ ~(y < x)
      BY <1>1 DEF OpToRel
    <2> QED
      BY <2>1
  <1> QED
    BY <1>2
LEMMA EachRound ==
  ASSUME NEW N \in Nat, NEW T, 0 \in T, \A n \in 0..N : n # 0 /\ n - 1 \in T => n \in T
  PROVE  \A n \in 0..N : n \in T
  <1> SUFFICES ASSUME NEW m \in 0..N, m \notin T PROVE FALSE
    OBVIOUS
  <1> DEFINE U == {n \in 0..N : n \notin T}
  <1>1. U \in SUBSET Nat /\ U # {}
    OBVIOUS
  <1>2. PICK x \in U : \A y \in U : x <= y
    BY <1>1, Least
  <1>3. x # 0 /\ x - 1 \in 0..N /\ ~(x <= x - 1) /\ x \in 0..N
    OBVIOUS
  <1>4. x - 1 \in T
    BY <1>2, <1>3
  <1> QED
    BY <1>3, <1>4

-----------------------------------------------------------------------------
(* Putting pieces together *)

\* What holds of the first piece and of a piece after another holds of all.
LEMMA EachPiece ==
  ASSUME NEW N \in Nat, NEW T, 1 \in T, \A n \in 2..N : n - 1 \in T => n \in T
  PROVE  \A n \in 1..N : n \in T
  <1> SUFFICES ASSUME NEW m \in 1..N, m \notin T PROVE FALSE
    OBVIOUS
  <1> DEFINE U == {n \in 1..N : n \notin T}
  <1>1. U \in SUBSET Nat /\ U # {}
    OBVIOUS
  <1>2. PICK x \in U : \A y \in U : x <= y
    BY <1>1, Least
  <1>3. x \in 2..N /\ x - 1 \in 1..N /\ ~(x <= x - 1)
    OBVIOUS
  <1>4. x - 1 \in T
    BY <1>2, <1>3
  <1> QED
    BY <1>3, <1>4

\* f[i] is what the first i pieces make together.
Joins(f, pieces, n) == f = [i \in 1..n |-> IF i = 1 THEN pieces[1] ELSE f[i - 1] \o pieces[i]]

\* There is such a function.
LEMMA FlatExists ==
  ASSUME NEW N \in Nat, N # 0, NEW pieces
  PROVE  \E f : Joins(f, pieces, N)
  <1> DEFINE T == {n \in 1..N : \E f : Joins(f, pieces, n)}
  <1>1. 1 \in T
    <2>1. Joins([i \in 1..1 |-> pieces[1]], pieces, 1)
      BY DEF Joins
    <2> QED
      BY <2>1
  <1>2. ASSUME NEW n \in 2..N, n - 1 \in T PROVE n \in T
    <2>1. PICK f : Joins(f, pieces, n - 1)
      BY <1>2
    <2> DEFINE g == [i \in 1..n |-> IF i = n THEN f[n - 1] \o pieces[n] ELSE f[i]]
    <2>2. ASSUME NEW i \in 1..n
          PROVE  g[i] = IF i = 1 THEN pieces[1] ELSE g[i - 1] \o pieces[i]
      <3>1. CASE i = n
        <4>1. n # 1 /\ n - 1 \in 1..n /\ n - 1 # n /\ n \in 1..n
          OBVIOUS
        <4>2. g[n] = f[n - 1] \o pieces[n] /\ g[n - 1] = f[n - 1]
          BY <4>1
        <4> HIDE DEF g
        <4> QED
          BY <3>1, <4>1, <4>2
      <3>2. CASE i # n
        <4>1. i \in 1..(n - 1) /\ g[i] = f[i] /\ (i # 1 => i - 1 \in 1..n /\ i - 1 # n /\ g[i - 1] = f[i - 1])
          BY <3>2
        <4> QED
          BY <2>1, <4>1 DEF Joins
      <3> QED
        BY <3>1, <3>2
    <2>3. Joins(g, pieces, n)
      <3>1. g = [i \in 1..n |-> g[i]]
        OBVIOUS
      <3> HIDE DEF g
      <3> QED
        BY <2>2, <3>1 DEF Joins
    <2>4. n \in 1..N
      OBVIOUS
    <2> QED
      BY <2>3, <2>4
  <1> HIDE DEF T
  <1>3. \A n \in 1..N : n \in T
    BY <1>1, <1>2, EachPiece
  <1> QED
    BY <1>3 DEF T

\* What flattening computes.
LEMMA FlattenJoins ==
  ASSUME NEW S, NEW s \in Seq(Seq(S)), s # <<>>
  PROVE  Len(s) \in Nat \ {0} /\ \E f : Joins(f, s, Len(s)) /\ FlattenSeq(s) = f[Len(s)]
  <1>1. Len(s) \in Nat \ {0}
    BY EmptySeq
  <1> DEFINE f == CHOOSE f : f = [i \in 1..Len(s) |-> IF i = 1 THEN s[i] ELSE f[i - 1] \o s[i]]
  <1>2. FlattenSeq(s) = f[Len(s)]
    <2>1. FlattenSeq(s) = IF Len(s) = 0 THEN s ELSE f[Len(s)]
      BY Zenon DEF FlattenSeq
    <2> QED
      BY <1>1, <2>1
  <1>3. \E g : Joins(g, s, Len(s))
    BY <1>1, FlatExists
  <1>4. Joins(f, s, Len(s))
    <2> DEFINE IsIt(g) == g = [i \in 1..Len(s) |-> IF i = 1 THEN s[i] ELSE g[i - 1] \o s[i]]
    <2>1. \A g : Joins(g, s, Len(s)) <=> IsIt(g)
      BY DEF Joins
    <2>2. IsIt(f)
      BY <1>3, <2>1
    <2> HIDE DEF IsIt, f
    <2> QED
      BY <2>1, <2>2
  <1> HIDE DEF f
  <1> QED
    BY <1>1, <1>2, <1>4

\* No pieces make nothing.
LEMMA FlattenEmpty == FlattenSeq(<<>>) = <<>>
  BY EmptySeq DEF FlattenSeq

\* Pieces that agree make the same together.
Agree(s, t, m) == \A i \in 1..m : s[i] = t[i]

LEMMA FlatAgree ==
  ASSUME NEW m \in Nat, NEW n \in Nat, m <= n, NEW s, NEW t, Agree(s, t, m),
         NEW f, Joins(f, s, m), NEW g, Joins(g, t, n)
  PROVE  Agree(f, g, m)
  <1> SUFFICES ASSUME m # 0 PROVE \A i \in 1..m : f[i] = g[i]
    BY DEF Agree
  <1> DEFINE T == {i \in 1..m : f[i] = g[i]}
  <1>1. 1 \in T
    <2>1. 1 \in 1..m /\ 1 \in 1..n
      OBVIOUS
    <2> QED
      BY <2>1 DEF Joins, Agree
  <1>2. ASSUME NEW i \in 2..m, i - 1 \in T PROVE i \in T
    <2>1. i \in 1..m /\ i \in 1..n /\ i # 1
      OBVIOUS
    <2>2. f[i] = f[i - 1] \o s[i] /\ g[i] = g[i - 1] \o t[i]
      BY <2>1 DEF Joins
    <2> QED
      BY <1>2, <2>1, <2>2 DEF Agree
  <1> HIDE DEF T
  <1>3. \A i \in 1..m : i \in T
    BY <1>1, <1>2, EachPiece
  <1> QED
    BY <1>3 DEF T

\* What the pieces make has their elements.
LEMMA FlatType ==
  ASSUME NEW S, NEW s \in Seq(Seq(S)), NEW n \in Nat, n <= Len(s), NEW f, Joins(f, s, n)
  PROVE  \A i \in 1..n : f[i] \in Seq(S)
  <1> SUFFICES ASSUME n # 0 PROVE \A i \in 1..n : f[i] \in Seq(S)
    OBVIOUS
  <1>1. Len(s) \in Nat /\ \A i \in 1..Len(s) : s[i] \in Seq(S)
    BY LenProperties, ElementOfSeq
  <1> DEFINE T == {i \in 1..n : f[i] \in Seq(S)}
  <1>2. 1 \in T
    <2>1. 1 \in 1..n /\ 1 \in 1..Len(s)
      BY <1>1
    <2>2. f[1] = s[1]
      BY <2>1 DEF Joins
    <2> QED
      BY <1>1, <2>1, <2>2
  <1>3. ASSUME NEW i \in 2..n, i - 1 \in T PROVE i \in T
    <2>1. i \in 1..n /\ i \in 1..Len(s) /\ i # 1
      BY <1>1
    <2>2. f[i] = f[i - 1] \o s[i]
      BY <2>1 DEF Joins
    <2> QED
      <3>1. f[i - 1] \in Seq(S) /\ s[i] \in Seq(S)
        BY <1>1, <1>3, <2>1
      <3>2. f[i - 1] \o s[i] \in Seq(S)
        BY <3>1, ConcatProperties
      <3> QED
        BY <2>1, <2>2, <3>2
  <1> HIDE DEF T
  <1>4. \A i \in 1..n : i \in T
    BY <1>2, <1>3, EachPiece
  <1> QED
    BY <1>4 DEF T

LEMMA FlattenType ==
  ASSUME NEW S, NEW s \in Seq(Seq(S))
  PROVE  FlattenSeq(s) \in Seq(S)
  <1>1. CASE s = <<>>
    BY <1>1, FlattenEmpty, EmptySeq
  <1>2. CASE s # <<>>
    <2>1. PICK f : Len(s) \in Nat \ {0} /\ Joins(f, s, Len(s)) /\ FlattenSeq(s) = f[Len(s)]
      BY <1>2, FlattenJoins
    <2>2. Len(s) \in 1..Len(s) /\ Len(s) <= Len(s)
      BY <2>1
    <2> QED
      BY <2>1, <2>2, FlatType
  <1> QED
    BY <1>1, <1>2

\* A piece behind the others.
LEMMA FlattenAppend ==
  ASSUME NEW S, NEW s \in Seq(Seq(S)), NEW piece \in Seq(S)
  PROVE  FlattenSeq(Append(s, piece)) = FlattenSeq(s) \o piece
  <1> DEFINE t == Append(s, piece)
  <1>1. /\ t \in Seq(Seq(S)) /\ t # <<>> /\ Len(t) = Len(s) + 1 /\ t[Len(t)] = piece /\ Len(s) \in Nat
        /\ \A i \in 1..Len(s) : t[i] = s[i]
    BY AppendProperties, LenProperties
  <1> HIDE DEF t
  <1>2. PICK g : Joins(g, t, Len(t)) /\ FlattenSeq(t) = g[Len(t)]
    BY <1>1, FlattenJoins
  <1>3. CASE s = <<>>
    <2>1. Len(t) = 1
      BY <1>1, <1>3, EmptySeq
    <2>2. g[1] = piece
      <3>1. 1 \in 1..Len(t)
        BY <2>1
      <3>2. g[1] = t[1]
        BY <1>2, <3>1 DEF Joins
      <3> QED
        BY <1>1, <2>1, <3>2
    <2>3. <<>> \o piece = piece
      BY ConcatEmptySeq
    <2> QED
      BY <1>2, <1>3, <2>1, <2>2, <2>3, FlattenEmpty DEF t
  <1>4. CASE s # <<>>
    <2>1. PICK f : Len(s) \in Nat \ {0} /\ Joins(f, s, Len(s)) /\ FlattenSeq(s) = f[Len(s)]
      BY <1>4, FlattenJoins
    <2>2. Len(s) <= Len(t) /\ Len(t) \in Nat /\ Len(t) \in 1..Len(t) /\ Len(t) # 1 /\ Len(t) - 1 = Len(s)
          /\ Len(s) \in 1..Len(s)
      BY <1>1, <2>1
    <2>3. f[Len(s)] = g[Len(s)]
      <3>1. Len(s) \in Nat /\ Len(t) \in Nat /\ Len(s) <= Len(t) /\ Agree(s, t, Len(s))
        BY <1>1, <2>1, <2>2 DEF Agree
      <3>2. Agree(f, g, Len(s))
        BY <1>2, <2>1, <3>1, FlatAgree
      <3> QED
        BY <2>2, <3>2 DEF Agree
    <2>4. g[Len(t)] = g[Len(s)] \o piece
      BY <1>1, <1>2, <2>2 DEF Joins
    <2> QED
      BY <1>2, <2>1, <2>3, <2>4 DEF t
  <1> QED
    BY <1>3, <1>4

\* The first piece before the others.
LEMMA FlattenHead ==
  ASSUME NEW S, NEW s \in Seq(Seq(S)), s # <<>>
  PROVE  FlattenSeq(s) = Head(s) \o FlattenSeq(Tail(s))
  <1> DEFINE t == Tail(s)
  <1>0. \A a, b, c \in Seq(S) : (a \o b) \o c = a \o (b \o c)
    BY ConcatAssociative, SMTT(30)
  <1>1. PICK f : Len(s) \in Nat \ {0} /\ Joins(f, s, Len(s)) /\ FlattenSeq(s) = f[Len(s)]
    BY FlattenJoins
  <1>2. /\ t \in Seq(Seq(S)) /\ Len(t) = Len(s) - 1 /\ (\A i \in 1..Len(t) : t[i] = s[i + 1])
        /\ Head(s) = s[1] /\ Head(s) \in Seq(S)
    BY HeadTailProperties
  <1> HIDE DEF t
  <1>3. CASE t = <<>>
    <2>1. Len(s) = 1
      BY <1>1, <1>2, <1>3, EmptySeq
    <2>2. f[1] = s[1]
      BY <1>1, <2>1 DEF Joins
    <2>3. Head(s) \o <<>> = Head(s)
      BY <1>2, ConcatEmptySeq
    <2> QED
      BY <1>1, <1>2, <1>3, <2>1, <2>2, <2>3, FlattenEmpty DEF t
  <1>4. CASE t # <<>>
    <2>1. PICK g : Len(t) \in Nat \ {0} /\ Joins(g, t, Len(t)) /\ FlattenSeq(t) = g[Len(t)]
      BY <1>2, <1>4, FlattenJoins
    <2> DEFINE N == Len(t)
               T == {i \in 1..N : f[i + 1] = Head(s) \o g[i]}
    <2>2. N \in Nat /\ N # 0 /\ Len(s) = N + 1 /\ N <= N
      BY <1>1, <1>2, <2>1
    <2>3. \A i \in 1..N : g[i] \in Seq(S) /\ t[i] \in Seq(S)
      BY <1>2, <2>1, <2>2, FlatType, ElementOfSeq
    <2> HIDE DEF N
    <2>4. \A i \in 1..N : /\ f[i + 1] = f[i] \o t[i] /\ (i = 1 => g[i] = t[i] /\ f[1] = Head(s))
                          /\ (i # 1 => i - 1 \in 1..N /\ (i - 1) + 1 = i /\ g[i] = g[i - 1] \o t[i])
      <3> SUFFICES ASSUME NEW i \in 1..N
                   PROVE  /\ f[i + 1] = f[i] \o t[i] /\ (i = 1 => g[i] = t[i] /\ f[1] = Head(s))
                          /\ (i # 1 => i - 1 \in 1..N /\ (i - 1) + 1 = i /\ g[i] = g[i - 1] \o t[i])
        OBVIOUS
      <3>1. i + 1 \in 1..Len(s) /\ i + 1 # 1 /\ (i + 1) - 1 = i /\ 1 \in 1..Len(s)
        BY <2>2
      <3>2. f[i + 1] = f[i] \o s[i + 1] /\ f[1] = s[1]
        BY <1>1, <3>1 DEF Joins
      <3>3. (i = 1 => g[i] = t[1]) /\ (i # 1 => g[i] = g[i - 1] \o t[i])
        BY <2>1 DEF Joins, N
      <3>4. i # 1 => i - 1 \in 1..N /\ (i - 1) + 1 = i
        BY <2>2
      <3>5. t[i] = s[i + 1]
        BY <1>2 DEF N
      <3> QED
        BY <1>2, <3>2, <3>3, <3>4, <3>5
    <2>5. 1 \in T
      <3>1. 1 \in 1..N
        BY <2>2
      <3> QED
        BY <2>4, <3>1
    <2>6. ASSUME NEW i \in 2..N, i - 1 \in T PROVE i \in T
      <3>1. i \in 1..N /\ i # 1 /\ i - 1 \in 1..N /\ (i - 1) + 1 = i
        BY <2>2
      <3>2. f[i] = Head(s) \o g[i - 1]
        BY <2>6, <3>1
      <3>3. f[i + 1] = (Head(s) \o g[i - 1]) \o t[i] /\ g[i] = g[i - 1] \o t[i]
        BY <2>4, <3>1, <3>2
      <3>4. (Head(s) \o g[i - 1]) \o t[i] = Head(s) \o (g[i - 1] \o t[i])
        <4>1. g[i - 1] \in Seq(S) /\ t[i] \in Seq(S)
          BY <2>3, <3>1
        <4> QED
          BY <1>0, <1>2, <4>1
      <3> QED
        BY <3>1, <3>3, <3>4
    <2> HIDE DEF T
    <2>7. \A i \in 1..N : i \in T
      BY <2>2, <2>5, <2>6, EachPiece
    <2>8. N \in 1..N
      BY <2>2
    <2>9. f[N + 1] = Head(s) \o g[N]
      BY <2>7, <2>8 DEF T
    <2> QED
      BY <1>1, <2>1, <2>2, <2>9 DEF N, t
  <1> QED
    BY <1>3, <1>4

\* Pieces of one element at most make no more elements than there are pieces;
\* pieces that are not longer than others make nothing longer.
LEMMA FlattenLonger ==
  ASSUME NEW S, NEW s \in Seq(Seq(S)), NEW T, NEW t \in Seq(Seq(T)), Len(s) = Len(t),
         \A i \in 1..Len(s) : Len(s[i]) <= Len(t[i])
  PROVE  Len(FlattenSeq(s)) <= Len(FlattenSeq(t))
  <1>1. CASE s = <<>>
    <2>1. Len(s) = 0 /\ t = <<>>
      BY <1>1, EmptySeq
    <2>2. Len(FlattenSeq(s)) = Len(FlattenSeq(t)) /\ Len(FlattenSeq(s)) = 0
      BY <1>1, <2>1, FlattenEmpty, EmptySeq
    <2> QED
      BY <2>2
  <1>2. CASE s # <<>>
    <2>1. t # <<>>
      BY <1>2, EmptySeq
    <2>2. PICK f : Len(s) \in Nat \ {0} /\ Joins(f, s, Len(s)) /\ FlattenSeq(s) = f[Len(s)]
      BY <1>2, FlattenJoins
    <2>3. PICK g : Len(t) \in Nat \ {0} /\ Joins(g, t, Len(t)) /\ FlattenSeq(t) = g[Len(t)]
      BY <2>1, FlattenJoins
    <2> DEFINE N == Len(s)
               U == {i \in 1..N : Len(f[i]) <= Len(g[i])}
    <2>4. N \in Nat /\ N # 0 /\ N <= Len(s) /\ N <= Len(t) /\ Len(t) = N /\ Len(s) = N
      BY <2>2
    <2>5. \A i \in 1..N : /\ f[i] \in Seq(S) /\ s[i] \in Seq(S) /\ g[i] \in Seq(T) /\ t[i] \in Seq(T)
                          /\ Len(s[i]) <= Len(t[i])
      BY <2>2, <2>3, <2>4, FlatType, ElementOfSeq
    <2> HIDE DEF N
    <2>6. \A i \in 1..N : f[i] = (IF i = 1 THEN s[1] ELSE f[i - 1] \o s[i])
                          /\ g[i] = (IF i = 1 THEN t[1] ELSE g[i - 1] \o t[i])
      BY <2>2, <2>3, <2>4 DEF Joins
    <2>7. 1 \in U
      <3>1. 1 \in 1..N
        BY <2>4
      <3>2. f[1] = s[1] /\ g[1] = t[1] /\ Len(s[1]) <= Len(t[1])
        BY <2>5, <2>6, <3>1
      <3> QED
        BY <3>1, <3>2
    <2>8. ASSUME NEW i \in 2..N, i - 1 \in U PROVE i \in U
      <3>1. i \in 1..N /\ i # 1 /\ i - 1 \in 1..N
        BY <2>4
      <3>2. f[i] = f[i - 1] \o s[i] /\ g[i] = g[i - 1] \o t[i]
        BY <2>6, <3>1
      <3>3. /\ f[i - 1] \in Seq(S) /\ s[i] \in Seq(S) /\ g[i - 1] \in Seq(T) /\ t[i] \in Seq(T)
            /\ Len(s[i]) <= Len(t[i]) /\ Len(f[i - 1]) <= Len(g[i - 1])
        BY <2>5, <2>8, <3>1
      <3>4. Len(f[i - 1] \o s[i]) = Len(f[i - 1]) + Len(s[i]) /\ Len(g[i - 1] \o t[i]) = Len(g[i - 1]) + Len(t[i])
        BY <3>3, ConcatProperties
      <3>5. Len(f[i - 1]) \in Nat /\ Len(s[i]) \in Nat /\ Len(g[i - 1]) \in Nat /\ Len(t[i]) \in Nat
        BY <3>3, LenProperties
      <3>6. Len(f[i]) = Len(f[i - 1]) + Len(s[i]) /\ Len(g[i]) = Len(g[i - 1]) + Len(t[i])
        BY <3>2, <3>4, Zenon
      <3>7. \A a, b, c, d \in Nat : a <= c /\ b <= d => a + b <= c + d
        OBVIOUS
      <3>8. Len(f[i]) <= Len(g[i])
        BY <3>3, <3>5, <3>6, <3>7, Zenon
      <3> QED
        BY <3>1, <3>8
    <2> HIDE DEF U
    <2>9. \A i \in 1..N : i \in U
      BY <2>4, <2>7, <2>8, EachPiece
    <2>10. N \in 1..N
      BY <2>4
    <2> QED
      BY <2>2, <2>3, <2>4, <2>9, <2>10 DEF U
  <1> QED
    BY <1>1, <1>2
LEMMA FlattenSingles ==
  ASSUME NEW S, NEW s \in Seq(Seq(S)), \A i \in 1..Len(s) : Len(s[i]) <= 1
  PROVE  Len(FlattenSeq(s)) <= Len(s)
  <1>1. CASE s = <<>>
    <2>1. Len(FlattenSeq(s)) = Len(s) /\ Len(s) = 0
      BY <1>1, FlattenEmpty, EmptySeq
    <2> QED
      BY <2>1
  <1>2. CASE s # <<>>
    <2>1. PICK f : Len(s) \in Nat \ {0} /\ Joins(f, s, Len(s)) /\ FlattenSeq(s) = f[Len(s)]
      BY <1>2, FlattenJoins
    <2> DEFINE N == Len(s)
               U == {i \in 1..N : Len(f[i]) <= i}
    <2>2. N \in Nat /\ N # 0 /\ N <= Len(s) /\ Len(s) = N
      BY <2>1
    <2>3. \A i \in 1..N : f[i] \in Seq(S) /\ s[i] \in Seq(S) /\ Len(s[i]) <= 1
      BY <2>1, <2>2, FlatType, ElementOfSeq
    <2> HIDE DEF N
    <2>4. \A i \in 1..N : f[i] = IF i = 1 THEN s[1] ELSE f[i - 1] \o s[i]
      BY <2>1, <2>2 DEF Joins
    <2>5. 1 \in U
      <3>1. 1 \in 1..N
        BY <2>2
      <3>2. f[1] = s[1] /\ Len(s[1]) <= 1
        BY <2>3, <2>4, <3>1
      <3> QED
        BY <3>1, <3>2
    <2>6. ASSUME NEW i \in 2..N, i - 1 \in U PROVE i \in U
      <3>1. i \in 1..N /\ i # 1 /\ i - 1 \in 1..N /\ i \in Nat
        BY <2>2
      <3>2. f[i] = f[i - 1] \o s[i]
        BY <2>4, <3>1
      <3>3. f[i - 1] \in Seq(S) /\ s[i] \in Seq(S) /\ Len(s[i]) <= 1 /\ Len(f[i - 1]) <= i - 1
        BY <2>3, <2>6, <3>1
      <3>4. Len(f[i - 1] \o s[i]) = Len(f[i - 1]) + Len(s[i])
        BY <3>3, ConcatProperties
      <3>5. Len(f[i - 1]) \in Nat /\ Len(s[i]) \in Nat
        BY <3>3, LenProperties
      <3>6. Len(f[i]) = Len(f[i - 1]) + Len(s[i])
        BY <3>2, <3>4, Zenon
      <3>7. \A a, b \in Nat : a <= i - 1 /\ b <= 1 => a + b <= i
        BY <3>1
      <3>8. Len(f[i]) <= i
        BY <3>3, <3>5, <3>6, <3>7, Zenon
      <3> QED
        BY <3>1, <3>8
    <2> HIDE DEF U
    <2>7. \A i \in 1..N : i \in U
      BY <2>2, <2>5, <2>6, EachPiece
    <2>8. N \in 1..N
      BY <2>2
    <2> QED
      BY <2>1, <2>2, <2>7, <2>8 DEF U
  <1> QED
    BY <1>1, <1>2

-----------------------------------------------------------------------------
(* Histories and files *)

\* Sequences, of whatever, and the fields of the console.
IsLog(s) == \E S : s \in Seq(S)
IsConsole(c) == c = [active |-> c.active, history |-> c.history, index |-> c.index, text |-> c.text]

\* What the file has: texts of one line.  What the history has: texts that have
\* a line.  The lines of each entry of a history, and all its lines.
OneLine == {t \in Texts : Split[t] = <<t>>}
Full == {t \in Texts : Split[t] # <<>>}
Parts(history) == [i \in DOMAIN history |-> Split[history[i]]]
AllLines(history) == FlattenSeq(Parts(history))

\* The limit of the history lets it hold two commands.
LEMMA Limit == MaxHistory \in Nat /\ MaxHistory >= 2 /\ 0 <= 2 * (MaxHistory - 1)
  <1>1. MaxHistory \in Nat \ {0, 1}
    BY ConsoleAssumption, Zenon
  <1> QED
    BY <1>1

\* The length and the indexes of a log.
LEMMA LogLen ==
  ASSUME NEW s, IsLog(s)
  PROVE  Len(s) \in Nat /\ DOMAIN s = 1..Len(s)
  <1>1. PICK S : s \in Seq(S)
    BY DEF IsLog
  <1> QED
    BY <1>1, LenProperties

\* Logs that are put together.
LEMMA LogConcat ==
  ASSUME NEW s, NEW t, IsLog(s), IsLog(t)
  PROVE  IsLog(s \o t) /\ Len(s \o t) = Len(s) + Len(t)
  <1>1. PICK S : s \in Seq(S)
    BY DEF IsLog
  <1>2. PICK T : t \in Seq(T)
    BY DEF IsLog
  <1>3. s \in Seq(S \cup T) /\ t \in Seq(S \cup T)
    BY <1>1, <1>2, SeqDef
  <1>4. s \o t \in Seq(S \cup T) /\ Len(s \o t) = Len(s) + Len(t)
    BY <1>3, ConcatProperties
  <1> QED
    BY <1>4 DEF IsLog

\* A sequence of some is one of more.
LEMMA WiderSeq ==
  ASSUME NEW S, NEW T, S \subseteq T, NEW s \in Seq(S)
  PROVE  s \in Seq(T)
  <1>1. Len(s) \in Nat /\ s \in [1..Len(s) -> S]
    BY LenProperties
  <1>2. s \in [1..Len(s) -> T]
    BY <1>1
  <1> QED
    BY <1>1, <1>2, SeqDef

\* A line of a text is a text of one line; a text that is not blank has one.
LEMMA SplitText ==
  /\ \A t \in Texts : Split[t] \in Seq(OneLine)
  /\ OneLine \subseteq Full /\ Full \subseteq Texts /\ Texts \ Blank \subseteq Full /\ "" \in Texts /\ "" \in Blank
  /\ Seq(OneLine) \subseteq Seq(Full) /\ Seq(Full) \subseteq Seq(Texts)
  /\ \A t \in OneLine : Len(Split[t]) = 1
  /\ \A t \in Full : Len(Split[t]) \in Nat /\ Len(Split[t]) >= 1
  <1>1. /\ Split \in [Texts -> Seq(Texts)]
        /\ \A t \in Texts : \A i \in DOMAIN Split[t] : Split[Split[t][i]] = <<Split[t][i]>>
        /\ "" \in Blank /\ Blank \subseteq Texts /\ \A t \in Texts \ Blank : Split[t] # <<>>
    BY ConsoleAssumption, Zenon
  <1>2. ASSUME NEW t \in Texts PROVE Split[t] \in Seq(OneLine)
    <2>1. Split[t] \in Seq(Texts)
      BY <1>1
    <2>2. Len(Split[t]) \in Nat /\ DOMAIN Split[t] = 1..Len(Split[t])
      BY <2>1, LenProperties
    <2>3. ASSUME NEW i \in 1..Len(Split[t]) PROVE Split[t][i] \in OneLine
      <3>1. Split[t][i] \in Texts
        BY <2>1, ElementOfSeq
      <3>2. Split[Split[t][i]] = <<Split[t][i]>>
        BY <1>1, <2>2
      <3> QED
        BY <3>1, <3>2 DEF OneLine
    <2> QED
      BY <2>1, <2>2, <2>3, SeqDef
  <1>3. ASSUME NEW t \in OneLine PROVE Len(Split[t]) = 1 /\ t \in Full
    <2>1. Split[t] = <<t>> /\ t \in Texts
      BY DEF OneLine
    <2>2. Len(<<t>>) = 1 /\ <<t>> # <<>>
      OBVIOUS
    <2> QED
      BY <2>1, <2>2 DEF Full
  <1>4. ASSUME NEW t \in Full PROVE Len(Split[t]) \in Nat /\ Len(Split[t]) >= 1
    <2>1. Split[t] \in Seq(Texts) /\ Split[t] # <<>>
      BY <1>1 DEF Full
    <2>2. Len(Split[t]) \in Nat /\ Len(Split[t]) # 0
      BY <2>1, LenProperties, EmptySeq
    <2> QED
      BY <2>2
  <1>5. Full \subseteq Texts /\ Texts \ Blank \subseteq Full
    BY <1>1 DEF Full
  <1>6. Seq(OneLine) \subseteq Seq(Full) /\ Seq(Full) \subseteq Seq(Texts)
    BY <1>3, <1>5, WiderSeq
  <1> QED
    BY <1>1, <1>2, <1>3, <1>4, <1>5, <1>6

\* The lines of a history are put together from those of its entries.
LEMMA PartsType ==
  ASSUME NEW h \in Seq(Texts)
  PROVE  /\ Len(h) \in Nat /\ Parts(h) \in Seq(Seq(OneLine)) /\ Len(Parts(h)) = Len(h)
         /\ \A i \in 1..Len(h) : h[i] \in Texts /\ Parts(h)[i] = Split[h[i]]
         /\ AllLines(h) \in Seq(OneLine) /\ Len(AllLines(h)) \in Nat
  <1>1. Len(h) \in Nat /\ DOMAIN h = 1..Len(h) /\ \A i \in 1..Len(h) : h[i] \in Texts
    BY LenProperties, ElementOfSeq
  <1>2. \A i \in 1..Len(h) : Split[h[i]] \in Seq(OneLine)
    BY <1>1, SplitText
  <1>3. Parts(h) = [i \in 1..Len(h) |-> Split[h[i]]]
    BY <1>1 DEF Parts
  <1>4. Parts(h) \in Seq(Seq(OneLine)) /\ Len(Parts(h)) = Len(h)
    <2>1. Parts(h) \in [1..Len(h) -> Seq(OneLine)]
      BY <1>2, <1>3
    <2> HIDE DEF Parts
    <2>2. Parts(h) \in Seq(Seq(OneLine))
      BY <1>1, <2>1, SeqDef
    <2>3. DOMAIN Parts(h) = 1..Len(h) /\ DOMAIN Parts(h) = 1..Len(Parts(h)) /\ Len(Parts(h)) \in Nat
      BY <2>1, <2>2, LenProperties
    <2>4. Len(Parts(h)) = Len(h)
      BY <1>1, <2>3
    <2> QED
      BY <2>2, <2>4
  <1>5. AllLines(h) \in Seq(OneLine)
    BY <1>4, FlattenType DEF AllLines
  <1>6. Len(AllLines(h)) \in Nat
    BY <1>5, LenProperties
  <1> QED
    BY <1>1, <1>3, <1>4, <1>5, <1>6

\* What Shutdown writes is lines of the history.
LEMMA WrittenType ==
  ASSUME NEW h \in Seq(Texts)
  PROVE  /\ Written(h) \in Seq(OneLine) /\ Len(Written(h)) \in Nat
         /\ Len(Written(h)) <= Len(AllLines(h))
  <1> DEFINE w == [i \in DOMAIN h |-> IF h[i] = "qqq" THEN <<>> ELSE Split[h[i]]]
  <1>1. /\ Len(h) \in Nat /\ Parts(h) \in Seq(Seq(OneLine)) /\ Len(Parts(h)) = Len(h)
        /\ \A i \in 1..Len(h) : h[i] \in Texts /\ Parts(h)[i] = Split[h[i]]
    BY PartsType
  <1>2. DOMAIN h = 1..Len(h)
    BY LenProperties
  <1>3. \A i \in 1..Len(h) : Split[h[i]] \in Seq(OneLine) /\ Len(Split[h[i]]) \in Nat
    BY <1>1, SplitText, LenProperties
  <1>4. w \in [1..Len(h) -> Seq(OneLine)]
    <2>1. <<>> \in Seq(OneLine)
      BY EmptySeq
    <2> QED
      BY <1>2, <1>3, <2>1
  <1>5. \A i \in 1..Len(h) : Len(w[i]) <= Len(Parts(h)[i])
    <2> SUFFICES ASSUME NEW i \in 1..Len(h) PROVE Len(w[i]) <= Len(Parts(h)[i])
      OBVIOUS
    <2>1. w[i] = (IF h[i] = "qqq" THEN <<>> ELSE Split[h[i]]) /\ Parts(h)[i] = Split[h[i]]
      BY <1>1, <1>2
    <2>2. Len(<<>>) = 0
      BY EmptySeq
    <2> HIDE DEF w
    <2> QED
      BY <1>3, <2>1, <2>2
  <1>6. Written(h) = FlattenSeq(w)
    BY DEF Written
  <1> HIDE DEF w
  <1>7. w \in Seq(Seq(OneLine)) /\ Len(w) = Len(h)
    <2>1. \A n \in Nat : \A S : [1..n -> S] \subseteq Seq(S)
      BY SeqDef
    <2>2. w \in Seq(Seq(OneLine))
      BY <1>1, <1>4, <2>1
    <2>3. DOMAIN w = 1..Len(h) /\ DOMAIN w = 1..Len(w) /\ Len(w) \in Nat
      BY <1>4, <2>2, LenProperties
    <2>4. Len(w) = Len(h)
      BY <1>1, <2>3
    <2> QED
      BY <2>2, <2>4
  <1>8. Len(FlattenSeq(w)) <= Len(FlattenSeq(Parts(h)))
    BY <1>1, <1>5, <1>7, FlattenLonger
  <1>9. FlattenSeq(w) \in Seq(OneLine)
    BY <1>7, FlattenType
  <1>10. Len(FlattenSeq(w)) \in Nat
    BY <1>9, LenProperties
  <1> QED
    BY <1>6, <1>8, <1>9, <1>10 DEF AllLines

\* A file has as many lines as texts.
LEMMA FileLines ==
  ASSUME NEW f \in Seq(OneLine)
  PROVE  f \in Seq(Full) /\ f \in Seq(Texts) /\ Len(AllLines(f)) <= Len(f)
  <1>1. f \in Seq(Full) /\ f \in Seq(Texts)
    BY SplitText
  <1>2. /\ Parts(f) \in Seq(Seq(OneLine)) /\ Len(Parts(f)) = Len(f)
        /\ \A i \in 1..Len(f) : Parts(f)[i] = Split[f[i]]
    BY <1>1, PartsType
  <1>3. \A i \in 1..Len(f) : Len(Parts(f)[i]) <= 1
    <2> SUFFICES ASSUME NEW i \in 1..Len(f) PROVE Len(Parts(f)[i]) <= 1
      OBVIOUS
    <2>1. f[i] \in OneLine
      BY ElementOfSeq
    <2>2. Len(Split[f[i]]) = 1
      BY <2>1, SplitText
    <2>3. Len(Parts(f)[i]) = 1
      BY <1>2, <2>2, Zenon
    <2> QED
      BY <2>3
  <1>4. Len(FlattenSeq(Parts(f))) <= Len(Parts(f))
    BY <1>2, <1>3, FlattenSingles
  <1> QED
    BY <1>1, <1>2, <1>4 DEF AllLines

\* The lines of a history without its first entry, and with another at its end.
LEMMA TailLines ==
  ASSUME NEW h \in Seq(Full), h # <<>>
  PROVE  /\ Tail(h) \in Seq(Full) /\ Len(Tail(h)) = Len(h) - 1
         /\ Len(AllLines(Tail(h))) + 1 <= Len(AllLines(h))
  <1> DEFINE t == Tail(h)
  <1>1. t \in Seq(Full) /\ Len(t) = Len(h) - 1 /\ \A i \in 1..Len(t) : t[i] = h[i + 1]
    BY HeadTailProperties
  <1>2. h \in Seq(Texts) /\ t \in Seq(Texts)
    BY <1>1, SplitText
  <1> HIDE DEF t
  <1>3. /\ Len(h) \in Nat /\ Parts(h) \in Seq(Seq(OneLine)) /\ Len(Parts(h)) = Len(h)
        /\ \A i \in 1..Len(h) : Parts(h)[i] = Split[h[i]]
    BY <1>2, PartsType
  <1>4. /\ Parts(t) \in Seq(Seq(OneLine)) /\ Len(Parts(t)) = Len(t)
        /\ \A i \in 1..Len(t) : Parts(t)[i] = Split[t[i]]
        /\ AllLines(t) \in Seq(OneLine) /\ Len(AllLines(t)) \in Nat
    BY <1>2, PartsType
  <1>5. Len(h) # 0 /\ 1 \in 1..Len(h)
    BY <1>3, EmptySeq
  <1>6. Parts(h) # <<>>
    BY <1>3, <1>5, EmptySeq
  <1>7. /\ Tail(Parts(h)) \in Seq(Seq(OneLine)) /\ Len(Tail(Parts(h))) = Len(Parts(h)) - 1
        /\ \A i \in 1..Len(Tail(Parts(h))) : Tail(Parts(h))[i] = Parts(h)[i + 1]
        /\ Head(Parts(h)) = Parts(h)[1]
    BY <1>3, <1>6, HeadTailProperties
  <1>8. Parts(t) = Tail(Parts(h))
    <2>1. Len(Parts(t)) = Len(Tail(Parts(h)))
      BY <1>1, <1>3, <1>4, <1>7
    <2>2. ASSUME NEW i \in 1..Len(Parts(t)) PROVE Parts(t)[i] = Tail(Parts(h))[i]
      <3>1. i \in 1..Len(t) /\ i + 1 \in 1..Len(h) /\ i \in 1..Len(Tail(Parts(h)))
        BY <1>1, <1>3, <1>4, <2>1
      <3> QED
        BY <1>1, <1>3, <1>4, <1>7, <3>1
    <2> QED
      BY <1>4, <1>7, <2>1, <2>2, SeqEqual
  <1>9. AllLines(h) = Split[h[1]] \o AllLines(t)
    <2>1. FlattenSeq(Parts(h)) = Head(Parts(h)) \o FlattenSeq(Tail(Parts(h)))
      BY <1>3, <1>6, FlattenHead
    <2> QED
      BY <1>3, <1>5, <1>7, <1>8, <2>1 DEF AllLines
  <1>10. h[1] \in Full
    BY <1>5, ElementOfSeq
  <1>11. Split[h[1]] \in Seq(OneLine) /\ Len(Split[h[1]]) \in Nat /\ Len(Split[h[1]]) >= 1
    BY <1>10, SplitText
  <1>12. Len(AllLines(h)) = Len(Split[h[1]]) + Len(AllLines(t))
    BY <1>4, <1>9, <1>11, ConcatProperties
  <1>13. Len(AllLines(t)) + 1 <= Len(AllLines(h))
    BY <1>4, <1>11, <1>12
  <1> QED
    BY <1>1, <1>13 DEF t
LEMMA AppendLines ==
  ASSUME NEW h \in Seq(Full), NEW text \in Texts \ Blank
  PROVE  /\ Append(h, text) \in Seq(Full) /\ Len(Append(h, text)) = Len(h) + 1
         /\ Len(AllLines(Append(h, text))) = Len(AllLines(h)) + Len(Split[text])
  <1> DEFINE a == Append(h, text)
  <1>1. text \in Full /\ Split[text] \in Seq(OneLine)
    BY SplitText
  <1>2. /\ a \in Seq(Full) /\ Len(a) = Len(h) + 1 /\ a[Len(h) + 1] = text
        /\ \A i \in 1..Len(h) : a[i] = h[i]
    BY <1>1, AppendProperties
  <1>3. h \in Seq(Texts) /\ a \in Seq(Texts)
    BY <1>2, SplitText
  <1> HIDE DEF a
  <1>4. /\ Len(h) \in Nat /\ Parts(h) \in Seq(Seq(OneLine)) /\ Len(Parts(h)) = Len(h)
        /\ \A i \in 1..Len(h) : Parts(h)[i] = Split[h[i]]
        /\ AllLines(h) \in Seq(OneLine)
    BY <1>3, PartsType
  <1>5. /\ Parts(a) \in Seq(Seq(OneLine)) /\ Len(Parts(a)) = Len(a)
        /\ \A i \in 1..Len(a) : Parts(a)[i] = Split[a[i]]
    BY <1>3, PartsType
  <1>6. /\ Append(Parts(h), Split[text]) \in Seq(Seq(OneLine))
        /\ Len(Append(Parts(h), Split[text])) = Len(h) + 1
        /\ Append(Parts(h), Split[text])[Len(h) + 1] = Split[text]
        /\ \A i \in 1..Len(h) : Append(Parts(h), Split[text])[i] = Parts(h)[i]
    BY <1>1, <1>4, AppendProperties
  <1>7. Parts(a) = Append(Parts(h), Split[text])
    <2>1. Len(Parts(a)) = Len(Append(Parts(h), Split[text]))
      BY <1>2, <1>5, <1>6
    <2>2. ASSUME NEW i \in 1..Len(Parts(a)) PROVE Parts(a)[i] = Append(Parts(h), Split[text])[i]
      <3>1. i \in 1..Len(a) /\ Parts(a)[i] = Split[a[i]] /\ (i \in 1..Len(h) \/ i = Len(h) + 1)
        BY <1>2, <1>4, <1>5
      <3> QED
        BY <1>2, <1>4, <1>6, <3>1
    <2> QED
      BY <1>5, <1>6, <2>1, <2>2, SeqEqual
  <1>8. FlattenSeq(Append(Parts(h), Split[text])) = FlattenSeq(Parts(h)) \o Split[text]
    BY <1>1, <1>4, FlattenAppend
  <1>9. AllLines(a) = AllLines(h) \o Split[text]
    BY <1>7, <1>8 DEF AllLines
  <1>10. Len(AllLines(a)) = Len(AllLines(h)) + Len(Split[text])
    BY <1>1, <1>4, <1>9, ConcatProperties
  <1> QED
    BY <1>2, <1>10 DEF a

\* Another command in the history: a full one keeps its length and loses a line
\* at least, another is longer by one.
LEMMA RememberedLines ==
  ASSUME NEW h \in Seq(Full), NEW text \in Texts \ Blank
  PROVE  LET g == Remembered(h, text)
         IN  /\ g \in Seq(Full)
             /\ Len(g) = IF Len(h) >= MaxHistory THEN Len(h) ELSE Len(h) + 1
             /\ Len(AllLines(g)) + (IF Len(h) >= MaxHistory THEN 1 ELSE 0) <= Len(AllLines(h)) + Len(Split[text])
  <1>1. MaxHistory \in Nat /\ MaxHistory >= 2 /\ Len(h) \in Nat /\ Len(Split[text]) \in Nat
    BY Limit, LenProperties, SplitText
  <1>2. h \in Seq(Texts)
    BY SplitText
  <1>3. Len(AllLines(h)) \in Nat
    BY <1>2, PartsType
  <1>4. CASE Len(h) >= MaxHistory
    <2> DEFINE t == Tail(h)
    <2>1. h # <<>>
      BY <1>1, <1>4, EmptySeq
    <2>2. t \in Seq(Full) /\ Len(t) = Len(h) - 1 /\ Len(AllLines(t)) + 1 <= Len(AllLines(h))
      BY <2>1, TailLines
    <2>3. Remembered(h, text) = Append(t, text)
      BY <1>4 DEF Remembered
    <2> HIDE DEF t
    <2>4. /\ Append(t, text) \in Seq(Full) /\ Len(Append(t, text)) = Len(t) + 1
          /\ Len(AllLines(Append(t, text))) = Len(AllLines(t)) + Len(Split[text])
      BY <2>2, AppendLines
    <2>5. Len(AllLines(t)) \in Nat
      <3>1. t \in Seq(Texts)
        BY <2>2, SplitText
      <3> QED
        BY <3>1, PartsType
    <2> QED
      BY <1>1, <1>3, <1>4, <2>2, <2>3, <2>4, <2>5
  <1>5. CASE ~(Len(h) >= MaxHistory)
    <2>1. Remembered(h, text) = Append(h, text)
      BY <1>5 DEF Remembered
    <2>2. /\ Append(h, text) \in Seq(Full) /\ Len(Append(h, text)) = Len(h) + 1
          /\ Len(AllLines(Append(h, text))) = Len(AllLines(h)) + Len(Split[text])
      BY AppendLines
    <2> QED
      BY <1>1, <1>3, <1>5, <2>1, <2>2
  <1> QED
    BY <1>4, <1>5

-----------------------------------------------------------------------------
(* The console *)

\* An arrow key: the text is an entry of the history, from a fresh index the last.
LEMMA BrowseShows ==
  ASSUME NEW d, IsConsole(d), IsLog(d.history), d.index \in Int, NEW step \in {1, -1}
  PROVE  LET e == Browse(d, step)
         IN  /\ IsConsole(e) /\ e.index \in Int /\ e.history = d.history /\ e.active = d.active
             /\ d.history # <<>> => e.text \in ToSet(d.history)
             /\ d.history # <<>> /\ d.index = -1 /\ step = 1 => e.text = Last(d.history)
             /\ e.text = d.text \/ e.text \in ToSet(d.history)
  <1> DEFINE size == Len(d.history)
             index == Clamp(d.index + step, size)
             text == IF index < size THEN d.history[size - index] ELSE d.text
  <1>1. Browse(d, step) = [active |-> d.active, history |-> d.history, index |-> index, text |-> text]
    <2>1. Browse(d, step) = [d EXCEPT !.index = index, !.text = text]
      BY DEF Browse
    <2>2. d = [active |-> d.active, history |-> d.history, index |-> d.index, text |-> d.text]
      BY DEF IsConsole
    <2> HIDE DEF index, text
    <2> QED
      BY <2>1, <2>2
  <1>2. size \in Nat /\ DOMAIN d.history = 1..size /\ d.index + step \in Int
    BY LogLen
  <1>3. d.history # <<>> => size # 0
    <2>1. PICK S : d.history \in Seq(S)
      BY DEF IsLog
    <2> QED
      BY <2>1, EmptySeq
  <1>4. index \in Int /\ index >= 0 /\ (size # 0 => index \in 0..size - 1)
    BY <1>2 DEF Clamp
  <1>5. size # 0 /\ d.index = -1 /\ step = 1 => index = 0
    BY <1>2 DEF Clamp
  <1> HIDE DEF index
  <1>6. /\ size # 0 => text = d.history[size - index] /\ size - index \in 1..size
        /\ size = 0 => text = d.text
    BY <1>2, <1>4
  <1>7. size # 0 => text \in ToSet(d.history)
    BY <1>2, <1>6 DEF ToSet
  <1>8. size # 0 /\ d.index = -1 /\ step = 1 => text = Last(d.history)
    BY <1>2, <1>5, <1>6 DEF Last
  <1> HIDE DEF text
  <1>9. ASSUME NEW e, e = [active |-> d.active, history |-> d.history, index |-> index, text |-> text]
        PROVE  IsConsole(e) /\ e.index = index /\ e.history = d.history /\ e.active = d.active /\ e.text = text
    BY <1>9 DEF IsConsole
  <1> QED
    BY <1>1, <1>3, <1>4, <1>6, <1>7, <1>8, <1>9

\* A toggle keeps the index a number, and sets it back when it opens the
\* console; the history is as it was, or has what was sent.
LEMMA ToggleIndex ==
  ASSUME NEW c, IsConsole(c), IsLog(c.history), c.index \in Int
  PROVE  LET t == Toggle(c)
         IN  /\ IsConsole(t) /\ t.index \in Int /\ (~c.active => t.index = -1)
             /\ t.text = c.text \/ t.text = ""
             /\ t.history = IF Sends(c) THEN Remembered(c.history, c.text) ELSE c.history
  <1>1. CASE ~c.active
    <2>1. Toggle(c) = [c EXCEPT !.active = TRUE, !.index = -1, !.text = ""] /\ ~Sends(c)
      BY <1>1 DEF Toggle, Sends
    <2>2. PICK a, i, s : i = -1 /\ s = "" /\ Toggle(c) = [c EXCEPT !.active = a, !.index = i, !.text = s]
      BY <2>1
    <2>3. Toggle(c) = [active |-> a, history |-> c.history, index |-> i, text |-> s]
      BY <2>2 DEF IsConsole
    <2>4. IsConsole(Toggle(c)) /\ Toggle(c).index = i /\ Toggle(c).text = s /\ Toggle(c).history = c.history
      BY <2>3 DEF IsConsole
    <2>5. -1 \in Int
      OBVIOUS
    <2> QED
      BY <2>1, <2>2, <2>4, <2>5, Zenon
  <1>2. CASE c.active
    <2> DEFINE open == Sends(c) /\ c.text \notin Closing
               h == IF Sends(c) THEN Remembered(c.history, c.text) ELSE c.history
               s == IF open THEN "" ELSE c.text
    <2>1. Toggle(c) = [c EXCEPT !.active = open, !.history = h, !.text = s]
      BY <1>2 DEF Toggle
    <2> HIDE DEF open, h
    <2>2. Toggle(c) = [active |-> open, history |-> h, index |-> c.index, text |-> s]
      BY <2>1 DEF IsConsole
    <2>3. s = c.text \/ s = ""
      OBVIOUS
    <2> HIDE DEF s
    <2>4. /\ IsConsole(Toggle(c)) /\ Toggle(c).index = c.index /\ Toggle(c).text = s /\ Toggle(c).history = h
      BY <2>2 DEF IsConsole
    <2> QED
      BY <1>2, <2>3, <2>4 DEF h
  <1> QED
    BY <1>1, <1>2

\* The console of a new process.
LEMMA ClosedConsole ==
  /\ IsConsole(Closed) /\ Closed.history = <<>> /\ Closed.index = -1 /\ Closed.index \in Int /\ ~Closed.active
  /\ Closed.text = ""
  /\ \A h : LET e == [Closed EXCEPT !.history = h]
            IN  IsConsole(e) /\ e.index \in Int /\ e.history = h /\ e.text = ""
  <1>1. -1 \in Int
    OBVIOUS
  <1>2. /\ Closed.active = FALSE /\ Closed.history = <<>> /\ Closed.index = -1 /\ Closed.text = ""
        /\ IsConsole(Closed)
    BY DEF Closed, IsConsole
  <1>3. ~Closed.active
    BY <1>2, Zenon
  <1>4. ASSUME NEW c, IsConsole(c), NEW h, NEW e, e = [c EXCEPT !.history = h]
        PROVE  IsConsole(e) /\ e.index = c.index /\ e.history = h /\ e.text = c.text
    <2>1. c = [active |-> c.active, history |-> c.history, index |-> c.index, text |-> c.text]
      BY <1>4 DEF IsConsole
    <2>2. e = [active |-> c.active, history |-> h, index |-> c.index, text |-> c.text]
      BY <1>4, <2>1
    <2> QED
      BY <2>2 DEF IsConsole
  <1>5. ASSUME NEW h
        PROVE  LET e == [Closed EXCEPT !.history = h]
               IN  IsConsole(e) /\ e.index \in Int /\ e.history = h /\ e.text = ""
    <2> DEFINE e == [Closed EXCEPT !.history = h]
    <2>1. e = [Closed EXCEPT !.history = h] /\ IsConsole(Closed)
      BY <1>2
    <2> HIDE DEF e
    <2>2. IsConsole(e) /\ e.index = Closed.index /\ e.history = h /\ e.text = Closed.text
      BY <1>4, <2>1
    <2> QED
      BY <1>1, <1>2, <2>2 DEF e
  <1> QED
    BY <1>1, <1>2, <1>3, <1>5

-----------------------------------------------------------------------------
(* The inductive invariant *)

\* Every entry of the history has a line, and the file is lines.
Fine(c) == IsConsole(c) /\ c.history \in Seq(Full) /\ c.text \in Texts /\ c.index \in Int
Logs == Fine(console) /\ file \in Seq(OneLine) /\ pasted \in Nat
\* The bound holds of the file too.  During a run the history is full, and has
\* no more lines than the bound allows for the file that replaces the old one;
\* or it has kept all that it was read from the file, so that its own length
\* limits what an append makes of the file.
Limited == 2 * (MaxHistory - 1) + pasted
Bounded == Len(console.history) <= Limited /\ Len(file) <= Limited
LinesOfRun ==
    stage = "running" =>
        IF Len(console.history) >= MaxHistory
        THEN Len(AllLines(console.history)) <= Limited
        ELSE /\ Len(file) <= Len(console.history)
             /\ Len(AllLines(console.history)) <= Len(console.history) + pasted
IInv == Logs /\ Bounded /\ LinesOfRun

\* The lengths are numbers.
LEMMA Lengths ==
  ASSUME Logs
  PROVE  /\ MaxHistory \in Nat /\ MaxHistory >= 2 /\ pasted \in Nat
         /\ IsConsole(console) /\ console.index \in Int /\ IsLog(console.history) /\ IsLog(file)
         /\ console.history \in Seq(Texts) /\ file \in Seq(Texts)
         /\ Len(console.history) \in Nat /\ Len(file) \in Nat /\ Len(AllLines(console.history)) \in Nat
  <1>1. /\ MaxHistory \in Nat /\ MaxHistory >= 2 /\ pasted \in Nat /\ IsConsole(console) /\ console.index \in Int
        /\ console.history \in Seq(Full) /\ file \in Seq(OneLine)
    BY Limit DEF Logs, Fine
  <1>2. console.history \in Seq(Texts) /\ file \in Seq(Texts)
    BY <1>1, SplitText
  <1>3. IsLog(console.history) /\ IsLog(file)
    BY <1>2 DEF IsLog
  <1>4. Len(console.history) \in Nat /\ Len(file) \in Nat /\ Len(AllLines(console.history)) \in Nat
    BY <1>2, PartsType, LenProperties
  <1> QED
    BY <1>1, <1>2, <1>3, <1>4

\* One update of the console: its history is as it was, or has the text that
\* was sent.
LEMMA UpdateKeeps ==
  ASSUME NEW c, Fine(c)
  PROVE  /\ Fine(Update(c))
         /\ Update(c).history = IF KeyDown("RETURN") /\ Sends(c) THEN Remembered(c.history, c.text) ELSE c.history
  <1> DEFINE toggled == IF KeyDown("RETURN") THEN Toggle(c) ELSE c
  <1>1. IsConsole(c) /\ c.history \in Seq(Full) /\ IsLog(c.history) /\ c.text \in Texts /\ c.index \in Int
    BY DEF Fine, IsLog
  <1>2. /\ Fine(toggled)
        /\ toggled.history = IF KeyDown("RETURN") /\ Sends(c) THEN Remembered(c.history, c.text) ELSE c.history
    <2>1. CASE KeyDown("RETURN")
      <3>1. toggled = Toggle(c)
        BY <2>1
      <3>2. /\ IsConsole(Toggle(c)) /\ Toggle(c).index \in Int /\ Toggle(c).text \in Texts
            /\ Toggle(c).history = IF Sends(c) THEN Remembered(c.history, c.text) ELSE c.history
        BY <1>1, ToggleIndex, SplitText
      <3>3. Sends(c) => c.text \in Texts \ Blank
        BY <1>1 DEF Sends
      <3>4. Sends(c) => Remembered(c.history, c.text) \in Seq(Full)
        BY <1>1, <3>3, RememberedLines
      <3>5. Toggle(c).history \in Seq(Full)
        BY <1>1, <3>2, <3>4
      <3> QED
        BY <2>1, <3>1, <3>2, <3>5 DEF Fine
    <2>2. CASE ~KeyDown("RETURN")
      BY <2>2
    <2> QED
      BY <2>1, <2>2
  <1>3. ASSUME NEW d, Fine(d), NEW step \in {1, -1}
        PROVE  Fine(Browse(d, step)) /\ Browse(d, step).history = d.history
    <2>1. IsConsole(d) /\ d.history \in Seq(Full) /\ IsLog(d.history) /\ d.text \in Texts /\ d.index \in Int
      BY <1>3 DEF Fine, IsLog
    <2>2. /\ IsConsole(Browse(d, step)) /\ Browse(d, step).index \in Int /\ Browse(d, step).history = d.history
          /\ Browse(d, step).text = d.text \/ Browse(d, step).text \in ToSet(d.history)
      BY <2>1, BrowseShows
    <2>3. ToSet(d.history) \subseteq Texts
      <3>1. d.history \in Seq(Texts)
        BY <2>1, SplitText
      <3> QED
        BY <3>1 DEF ToSet
    <2>4. Browse(d, step).text \in Texts
      BY <2>1, <2>2, <2>3
    <2> QED
      BY <2>1, <2>2, <2>4 DEF Fine
  <1>4. Update(c) \in {toggled, Browse(toggled, 1), Browse(toggled, -1)}
    BY DEF Update
  <1> HIDE DEF toggled
  <1>5. /\ Fine(Browse(toggled, 1)) /\ Browse(toggled, 1).history = toggled.history
        /\ Fine(Browse(toggled, -1)) /\ Browse(toggled, -1).history = toggled.history
    BY <1>2, <1>3
  <1> QED
    BY <1>2, <1>4, <1>5

\* What is typed changes the text alone.
LEMMA TypedFine ==
  ASSUME Logs, NEW text \in Texts
  PROVE  Fine(Typed(text)) /\ Typed(text).history = console.history
  <1>1. CASE field
    <2>1. Typed(text) = [console EXCEPT !.text = text]
      BY <1>1 DEF Typed
    <2>2. Typed(text) = [active |-> console.active, history |-> console.history,
                         index |-> console.index, text |-> text]
      BY <2>1 DEF Logs, Fine, IsConsole
    <2> QED
      BY <2>2 DEF Logs, Fine, IsConsole
  <1>2. CASE ~field
    BY <1>2 DEF Logs, Typed
  <1> QED
    BY <1>1, <1>2

\* A frame: the history is as it was, or has the text that was sent, whose
\* further lines are counted.
LEMMA FrameFact ==
  ASSUME Logs, NEW held, NEW text \in Texts, NEW closes, Frame(held, text, closes)
  PROVE  /\ Fine(console') /\ file' = file /\ stage' = stage /\ stage = "running"
         /\ \/ console'.history = console.history /\ pasted' = pasted
            \/ \E t \in Texts \ Blank : /\ console'.history = Remembered(console.history, t)
                                        /\ pasted' = pasted + (Len(Split[t]) - 1)
  <1> DEFINE c == Typed(text)
  <1>1. Fine(c) /\ c.history = console.history
    BY TypedFine
  <1>2. console' = Update(c) /\ file' = file /\ stage' = stage /\ stage = "running" /\ pasted' = pasted + FurtherLines(text)
    BY DEF Frame, ConsoleFrame
  <1>3. /\ FurtherLines(text) = IF Sent(text) = "" THEN 0 ELSE Len(Split[Sent(text)]) - 1
        /\ Sent(text) = IF KeyDown("RETURN") /\ Sends(c) THEN c.text ELSE ""
    BY DEF FurtherLines, Sent
  <1>4. Sends(c) => c.text \in Texts \ Blank /\ c.text # ""
    BY <1>1, SplitText DEF Sends, Fine
  <1> HIDE DEF c
  <1>5. /\ Fine(Update(c))
        /\ Update(c).history = IF KeyDown("RETURN") /\ Sends(c) THEN Remembered(c.history, c.text) ELSE c.history
    BY <1>1, UpdateKeeps
  <1>6. CASE KeyDown("RETURN") /\ Sends(c)
    <2>1. FurtherLines(text) = Len(Split[c.text]) - 1
      BY <1>3, <1>4, <1>6, Zenon
    <2>2. /\ console'.history = Remembered(console.history, c.text)
          /\ pasted' = pasted + (Len(Split[c.text]) - 1) /\ c.text \in Texts \ Blank
      BY <1>1, <1>2, <1>4, <1>5, <1>6, <2>1, Zenon
    <2> QED
      BY <1>2, <1>5, <2>2
  <1>7. CASE ~(KeyDown("RETURN") /\ Sends(c))
    <2>1. FurtherLines(text) = 0
      BY <1>3, <1>7
    <2>2. pasted' = pasted
      BY <1>2, <2>1 DEF Logs
    <2> QED
      BY <1>1, <1>2, <1>5, <1>7, <2>2
  <1> QED
    BY <1>6, <1>7

\* A frame keeps the invariant.
LEMMA FrameKeeps ==
  ASSUME IInv, NEW held, NEW text \in Texts, NEW closes, Frame(held, text, closes)
  PROVE  IInv'
  <1> DEFINE h == console.history
             g == console'.history
  <1>0. Logs
    BY DEF IInv
  <1>1. /\ Fine(console') /\ file' = file /\ stage' = stage /\ stage = "running"
        /\ \/ g = h /\ pasted' = pasted
           \/ \E t \in Texts \ Blank : g = Remembered(h, t) /\ pasted' = pasted + (Len(Split[t]) - 1)
    BY <1>0, FrameFact
  <1>2. /\ MaxHistory \in Nat /\ MaxHistory >= 2 /\ pasted \in Nat
        /\ Len(h) \in Nat /\ Len(file) \in Nat /\ Len(AllLines(h)) \in Nat /\ h \in Seq(Full)
    BY <1>0, Lengths DEF Logs, Fine
  <1>3. CASE g = h /\ pasted' = pasted
    BY <1>0, <1>1, <1>3 DEF IInv, Logs, Bounded, LinesOfRun, Limited
  <1>4. ASSUME NEW t \in Texts \ Blank, g = Remembered(h, t), pasted' = pasted + (Len(Split[t]) - 1)
        PROVE  IInv'
    <2> DEFINE p == Len(Split[t])
               before == Len(AllLines(h))
               after == Len(AllLines(g))
    <2>1. p \in Nat /\ p >= 1
      BY SplitText
    <2>2. /\ g \in Seq(Full) /\ Len(g) = IF Len(h) >= MaxHistory THEN Len(h) ELSE Len(h) + 1
          /\ after + (IF Len(h) >= MaxHistory THEN 1 ELSE 0) <= before + p
      BY <1>2, <1>4, RememberedLines
    <2>3. after \in Nat
      <3>1. g \in Seq(Texts)
        BY <2>2, SplitText
      <3> QED
        BY <3>1, PartsType
    <2>4. /\ Len(h) <= Limited /\ Len(file) <= Limited
          /\ IF Len(h) >= MaxHistory THEN before <= Limited
             ELSE Len(file) <= Len(h) /\ before <= Len(h) + pasted
      BY <1>1 DEF IInv, Bounded, LinesOfRun
    <2>5. /\ Limited = 2 * (MaxHistory - 1) + pasted /\ Limited' = 2 * (MaxHistory - 1) + pasted'
          /\ pasted' = pasted + (p - 1)
      BY <1>4 DEF Limited
    <2> HIDE DEF p, before, after, h, g
    <2>6. CASE Len(h) >= MaxHistory
      <3>1. Len(g) = Len(h) /\ after + 1 <= before + p /\ before <= Limited
        BY <2>2, <2>4, <2>6
      <3>2. /\ Len(g) >= MaxHistory /\ Len(g) <= Limited' /\ Len(file) <= Limited'
            /\ after <= Limited' /\ pasted' \in Nat
        BY <1>2, <2>1, <2>3, <2>4, <2>5, <2>6, <3>1 DEF before
      <3> QED
        BY <1>0, <1>1, <3>2 DEF IInv, Logs, Bounded, LinesOfRun, g, after
    <2>7. CASE ~(Len(h) >= MaxHistory)
      <3>1. Len(g) = Len(h) + 1 /\ after <= before + p /\ before <= Len(h) + pasted /\ Len(file) <= Len(h)
        BY <1>2, <2>1, <2>2, <2>3, <2>4, <2>7 DEF before
      <3>2. /\ Len(g) <= Limited' /\ Len(file) <= Limited' /\ pasted' \in Nat
            /\ (Len(g) >= MaxHistory => after <= Limited')
            /\ Len(file) <= Len(g) /\ after <= Len(g) + pasted'
        BY <1>2, <2>1, <2>3, <2>4, <2>5, <2>7, <3>1 DEF before
      <3> QED
        BY <1>0, <1>1, <3>2 DEF IInv, Logs, Bounded, LinesOfRun, g, after
    <2> QED
      BY <2>6, <2>7
  <1> QED
    BY <1>1, <1>3, <1>4

\* The end of a process keeps it: the memory is gone, and the file has what
\* it had or what Shutdown makes of it.
LEMMA ExitKeeps ==
  ASSUME IInv, Exit, pasted' = pasted, file' \in Seq(OneLine), Len(file') <= Limited
  PROVE  IInv'
  <1>1. console' = Closed /\ stage' = "off"
    BY DEF Exit
  <1>2. Fine(Closed) /\ Len(Closed.history) = 0
    BY ClosedConsole, SplitText, EmptySeq DEF Fine
  <1>3. /\ MaxHistory \in Nat /\ MaxHistory >= 2 /\ pasted \in Nat
    BY Lengths DEF IInv
  <1>4. Limited' = Limited /\ 0 <= Limited
    BY <1>3 DEF Limited
  <1> QED
    BY <1>1, <1>2, <1>3, <1>4 DEF IInv, Logs, Bounded, LinesOfRun

\* No step breaks the invariant.
LEMMA NextIInv == IInv /\ [Next]_vars => IInv'
  <1> SUFFICES ASSUME IInv, [Next]_vars PROVE IInv'
    OBVIOUS
  <1> DEFINE h == console.history
  <1>0. /\ MaxHistory \in Nat /\ MaxHistory >= 2 /\ pasted \in Nat
        /\ h \in Seq(Texts) /\ file \in Seq(OneLine)
        /\ Len(h) \in Nat /\ Len(file) \in Nat /\ Len(AllLines(h)) \in Nat
        /\ Len(h) <= Limited /\ Len(file) <= Limited /\ Limited = 2 * (MaxHistory - 1) + pasted
    BY Lengths DEF IInv, Logs, Bounded, Limited
  <1>1. CASE Start
    <2>1. console' = [Closed EXCEPT !.history = file] /\ file' = file /\ pasted' = pasted
      BY <1>1 DEF Start, ConsoleInit
    <2>2. /\ file \in Seq(Full) /\ file \in Seq(Texts) /\ Len(AllLines(file)) <= Len(file)
          /\ Len(AllLines(file)) \in Nat
      BY <1>0, FileLines, PartsType
    <2>3. Fine(console') /\ console'.history = file
      BY <2>1, <2>2, ClosedConsole, SplitText DEF Fine
    <2>4. Limited' = Limited
      BY <2>1 DEF Limited
    <2>5. Len(AllLines(file)) <= Limited /\ Len(AllLines(file)) <= Len(file) + pasted
      BY <1>0, <2>2
    <2> QED
      BY <1>0, <2>1, <2>3, <2>4, <2>5 DEF IInv, Logs, Bounded, LinesOfRun
  <1>2. CASE StartHangs \/ EditHangs
    <2>1. console' = console /\ file' = file /\ pasted' = pasted /\ stage' = "stuck"
      BY <1>2 DEF StartHangs, EditHangs, consoleVars
    <2> QED
      BY <2>1 DEF IInv, Logs, Bounded, LinesOfRun, Limited
  <1>3. ASSUME NEW held \in Keyboards, NEW text \in Texts, NEW closes \in BOOLEAN,
               PlayFrame(held, text, closes) \/ EditFrame(held, text, closes)
        PROVE  IInv'
    BY <1>3, FrameKeeps DEF PlayFrame, EditFrame
  <1>4. CASE Shutdown
    <2> DEFINE w == Written(h)
    <2>1. stage = "running" /\ ConsoleShutdown /\ Exit /\ pasted' = pasted
      BY <1>4 DEF Shutdown
    <2>2. w \in Seq(OneLine) /\ Len(w) \in Nat /\ Len(w) <= Len(AllLines(h))
      BY <1>0, WrittenType
    <2>3. CASE Len(h) >= MaxHistory
      <3>1. file' = w
        BY <2>1, <2>3 DEF ConsoleShutdown
      <3>2. Len(AllLines(h)) <= Limited
        BY <2>1, <2>3 DEF IInv, LinesOfRun
      <3>3. Len(w) <= Limited
        BY <1>0, <2>2, <3>2
      <3> QED
        BY <2>1, <2>2, <3>1, <3>3, ExitKeeps
    <2>4. CASE ~(Len(h) >= MaxHistory)
      <3>1. file' = file \o w
        BY <2>1, <2>4 DEF ConsoleShutdown
      <3>2. file \o w \in Seq(OneLine) /\ Len(file \o w) = Len(file) + Len(w)
        BY <1>0, <2>2, ConcatProperties
      <3>3. Len(file) <= Len(h) /\ Len(AllLines(h)) <= Len(h) + pasted
        BY <2>1, <2>4 DEF IInv, LinesOfRun
      <3> HIDE DEF w, h
      <3>4. Len(file) + Len(w) <= Limited
        BY <1>0, <2>2, <2>4, <3>3
      <3> QED
        BY <2>1, <3>1, <3>2, <3>4, ExitKeeps
    <2> QED
      BY <2>3, <2>4
  <1>5. CASE ShutdownUnwritten \/ Dies
    <2>1. Exit /\ file' = file /\ pasted' = pasted
      BY <1>5 DEF ShutdownUnwritten, Dies
    <2> QED
      BY <1>0, <2>1, ExitKeeps
  <1>6. CASE UNCHANGED vars
    BY <1>6 DEF vars, consoleVars, engineVars, IInv, Logs, Bounded, LinesOfRun, Limited
  <1> QED
    BY <1>1, <1>2, <1>3, <1>4, <1>5, <1>6 DEF Next

\* The first run finds no history.
LEMMA InitIInv == Init => IInv
  <1> SUFFICES ASSUME Init PROVE IInv
    OBVIOUS
  <1>1. console = Closed /\ file = <<>> /\ pasted = 0 /\ stage = "off"
    BY DEF Init
  <1>2. Fine(Closed) /\ Len(Closed.history) = 0 /\ <<>> \in Seq(OneLine) /\ Len(<<>>) = 0
    BY ClosedConsole, SplitText, EmptySeq DEF Fine
  <1>3. 0 <= Limited
    BY <1>1, Limit DEF Limited
  <1> QED
    BY <1>1, <1>2, <1>3 DEF IInv, Logs, Bounded, LinesOfRun

\* The history never has more than twice its limit less two entries and one for
\* each further line of the texts that were sent since the first run, whatever
\* else is sent in however many runs and whichever of them end without a Shutdown
\* (Console::Init, Shutdown and SendCmd).
THEOREM HistoryStaysBounded == Spec => []HistoryBounded
  <1>1. IInv => HistoryBounded
    BY DEF IInv, Bounded, Limited, HistoryBounded
  <1> QED
    BY <1>1, InitIInv, NextIInv, PTL DEF Spec

-----------------------------------------------------------------------------
(* The history of the last run *)

\* A log from its end.
LEMMA ReversedLog ==
  ASSUME NEW s, IsLog(s)
  PROVE  /\ Reverse(s) = [i \in 1..Len(s) |-> s[(Len(s) - i) + 1]]
         /\ IsLog(Reverse(s)) /\ Len(Reverse(s)) = Len(s)
  <1>1. PICK S : s \in Seq(S)
    BY DEF IsLog
  <1>2. Len(s) \in Nat /\ DOMAIN s = 1..Len(s)
    BY LogLen
  <1>3. ASSUME NEW i \in 1..Len(s) PROVE s[(Len(s) - i) + 1] \in S
    <2>1. (Len(s) - i) + 1 \in 1..Len(s)
      BY <1>2
    <2> QED
      BY <1>1, <2>1, ElementOfSeq
  <1>4. Reverse(s) = [i \in 1..Len(s) |-> s[(Len(s) - i) + 1]]
    BY DEF Reverse
  <1>5. Reverse(s) \in Seq(S) /\ Len(Reverse(s)) = Len(s)
    BY <1>2, <1>3, <1>4
  <1> QED
    BY <1>4, <1>5 DEF IsLog

\* What is appended to a log is its end.
LEMMA SuffixOfConcat ==
  ASSUME NEW s, NEW t, IsLog(s), IsLog(t)
  PROVE  IsSuffix(s, t \o s)
  <1> DEFINE u == t \o s
  <1>1. PICK S : s \in Seq(S)
    BY DEF IsLog
  <1>2. PICK T : t \in Seq(T)
    BY DEF IsLog
  <1>3. s \in Seq(S \cup T) /\ t \in Seq(S \cup T)
    BY <1>1, <1>2, SeqDef
  <1>4. /\ Len(s) \in Nat /\ Len(t) \in Nat /\ Len(u) = Len(t) + Len(s) /\ IsLog(u)
        /\ \A i \in 1..Len(t) + Len(s) : u[i] = IF i <= Len(t) THEN t[i] ELSE s[i - Len(t)]
    BY <1>3, ConcatProperties, LogLen, LogConcat
  <1> HIDE DEF u
  <1>5. /\ Reverse(s) = [i \in 1..Len(s) |-> s[(Len(s) - i) + 1]] /\ Len(Reverse(s)) = Len(s)
        /\ Reverse(u) = [i \in 1..Len(u) |-> u[(Len(u) - i) + 1]] /\ Len(Reverse(u)) = Len(u)
    BY <1>4, ReversedLog
  <1>6. ASSUME NEW i \in 1..Len(s) PROVE Reverse(u)[i] = Reverse(s)[i]
    <2>1. /\ i \in 1..Len(u) /\ (Len(u) - i) + 1 \in 1..(Len(t) + Len(s))
          /\ ~((Len(u) - i) + 1 <= Len(t)) /\ ((Len(u) - i) + 1) - Len(t) = (Len(s) - i) + 1
      BY <1>4
    <2>2. Reverse(u)[i] = u[(Len(u) - i) + 1] /\ Reverse(s)[i] = s[(Len(s) - i) + 1]
      BY <1>5, <2>1
    <2>3. u[(Len(u) - i) + 1] = s[((Len(u) - i) + 1) - Len(t)]
      BY <1>4, <2>1
    <2> QED
      BY <2>1, <2>2, <2>3
  <1>7. SubSeq(Reverse(s), 1, Len(s)) = [i \in 1..Len(s) |-> Reverse(s)[i]]
    BY <1>4
  <1>8. SubSeq(Reverse(u), 1, Len(s)) = [i \in 1..Len(s) |-> Reverse(u)[i]]
    BY <1>4
  <1>9. SubSeq(Reverse(s), 1, Len(s)) = SubSeq(Reverse(u), 1, Len(s))
    BY <1>6, <1>7, <1>8
  <1> QED
    BY <1>4, <1>5, <1>9 DEF IsSuffix, IsPrefix, u
\* A log is its own end.
LEMMA SuffixOfItself ==
  ASSUME NEW s, IsLog(s)
  PROVE  IsSuffix(s, s)
  <1>1. IsLog(<<>>)
    BY EmptySeq DEF IsLog
  <1>2. <<>> \o s = s
    BY ConcatEmptySeq DEF IsLog
  <1> QED
    BY <1>1, <1>2, SuffixOfConcat

\* The file ends with what the last Shutdown wrote.
Kept == IsSuffix(lastRun, file)

LEMMA NextKept == IInv /\ Kept /\ [Next]_vars => Kept'
  <1> SUFFICES ASSUME IInv, Kept, [Next]_vars PROVE Kept'
    OBVIOUS
  <1>1. CASE Shutdown
    <2>1. IsLog(file) /\ console.history \in Seq(Texts)
      BY Lengths DEF IInv
    <2>2. lastRun' = Written(console.history) /\ IsLog(Written(console.history))
      BY <1>1, <2>1, WrittenType DEF Shutdown, IsLog
    <2>3. file' = Written(console.history) \/ file' = file \o Written(console.history)
      BY <1>1 DEF Shutdown, ConsoleShutdown
    <2> QED
      BY <2>1, <2>2, <2>3, SuffixOfItself, SuffixOfConcat DEF Kept
  <1>2. CASE ~Shutdown
    <2>1. lastRun' = lastRun /\ file' = file
      BY <1>2 DEF Next, Start, StartHangs, PlayFrame, EditFrame, Frame, ConsoleFrame, EditHangs,
                  ShutdownUnwritten, Dies, vars, consoleVars, engineVars
    <2> QED
      BY <2>1 DEF Kept
  <1> QED
    BY <1>1, <1>2

\* What the last Shutdown wrote is at the end of the history that the next
\* run starts with, however many crashes, hangs and unwritten shutdowns come
\* between (Console::Shutdown and Console::Init).
THEOREM HistoryIsRecovered == Spec => HistorySurvives
  <1>1. Init => IInv /\ Kept
    <2>1. IsLog(<<>>)
      BY EmptySeq DEF IsLog
    <2>2. Init => lastRun = <<>> /\ file = <<>>
      BY DEF Init
    <2> QED
      BY <2>1, <2>2, InitIInv, SuffixOfItself DEF Kept
  <1>2. Kept /\ [Next]_vars => (stage = "off" /\ stage' = "running" => IsSuffix(lastRun, console'.history))
    <2> SUFFICES ASSUME Kept, [Next]_vars, stage = "off", stage' = "running"
                 PROVE  IsSuffix(lastRun, console'.history)
      OBVIOUS
    <2>1. Start
      BY DEF Next, Start, StartHangs, PlayFrame, EditFrame, Frame, EditHangs, Shutdown,
             ShutdownUnwritten, Dies, Exit, vars, engineVars
    <2>2. console'.history = file
      BY <2>1 DEF Start, ConsoleInit, Closed
    <2> QED
      BY <2>2 DEF Kept
  <1> QED
    BY <1>1, <1>2, NextIInv, NextKept, PTL DEF Spec, HistorySurvives

-----------------------------------------------------------------------------
(* Browsing the history *)

\* A frame of the console.
LEMMA FrameShows ==
  ASSUME IInv, NEW held, NEW text \in Texts, NEW closes, Frame(held, text, closes)
  PROVE  console'.active /\ console'.history # <<>> =>
           /\ KeyDown("UP") \/ KeyDown("DOWN") => console'.text \in ToSet(console'.history)
           /\ KeyDown("UP") /\ ~console.active => console'.text = Last(console'.history)
  <1> DEFINE c == Typed(text)
             d == IF KeyDown("RETURN") THEN Toggle(c) ELSE c
  <1>1. IsConsole(c) /\ IsLog(c.history) /\ c.index \in Int /\ c.active = console.active
    BY Lengths DEF IInv, IsConsole, Typed
  <1>2. console' = Update(c)
    BY DEF Frame, ConsoleFrame
  <1>3. /\ IsConsole(d) /\ IsLog(d.history) /\ d.index \in Int
        /\ ~c.active => ~d.active \/ d.index = -1
    <2>1. CASE KeyDown("RETURN")
      <3>1. /\ d = Toggle(c) /\ IsConsole(d) /\ d.index \in Int /\ (~c.active => d.index = -1)
            /\ d.history = IF Sends(c) THEN Remembered(c.history, c.text) ELSE c.history
        BY <1>1, <2>1, ToggleIndex
      <3>2. Fine(c)
        <4>1. Logs
          BY DEF IInv
        <4> QED
          BY <4>1, TypedFine
      <3>3. Sends(c) => Remembered(c.history, c.text) \in Seq(Full)
        <4>1. Sends(c) => c.text \in Texts \ Blank
          BY <3>2 DEF Fine, Sends
        <4> QED
          BY <3>2, <4>1, RememberedLines DEF Fine
      <3>4. IsLog(d.history)
        BY <1>1, <3>1, <3>3 DEF IsLog
      <3> QED
        BY <3>1, <3>4
    <2>2. CASE ~KeyDown("RETURN")
      BY <1>1, <2>2
    <2> QED
      BY <2>1, <2>2
  <1>4. Update(c) = CASE d.active /\ KeyDown("UP") -> Browse(d, 1)
                      [] d.active /\ KeyDown("DOWN") /\ ~KeyDown("UP") -> Browse(d, -1)
                      [] OTHER -> d
    BY DEF Update
  <1> HIDE DEF c, d
  <1>5. CASE d.active /\ KeyDown("UP")
    <2>1. Update(c) = Browse(d, 1)
      BY <1>4, <1>5
    <2> QED
      BY <1>1, <1>2, <1>3, <1>5, <2>1, BrowseShows
  <1>6. CASE d.active /\ KeyDown("DOWN") /\ ~KeyDown("UP")
    <2>1. Update(c) = Browse(d, -1)
      BY <1>4, <1>6
    <2> QED
      BY <1>2, <1>3, <1>6, <2>1, BrowseShows
  <1>7. CASE ~(d.active /\ KeyDown("UP")) /\ ~(d.active /\ KeyDown("DOWN") /\ ~KeyDown("UP"))
    <2>1. Update(c) = d
      BY <1>4, <1>7
    <2> QED
      BY <1>2, <1>3, <1>7, <2>1
  <1> QED
    BY <1>5, <1>6, <1>7

\* An arrow key shows an entry of the history, UP in a console that this frame
\* opens the latest one, whatever RETURN does in the same frame
\* (Console::Update, Toggle and SDL_clamp on the index).
THEOREM RecallIsHistory == Spec => RecallShowsHistory
  <1>1. Init => IInv
    BY InitIInv
  <1>2. IInv /\ [Next]_vars =>
          (stage = "running" /\ running /\ console'.active /\ console'.history # <<>> =>
             /\ "UP" \in keys' \ keys \/ "DOWN" \in keys' \ keys => console'.text \in ToSet(console'.history)
             /\ "UP" \in keys' \ keys /\ ~console.active => console'.text = Last(console'.history))
    <2> SUFFICES ASSUME IInv, [Next]_vars, stage = "running", console'.active, console'.history # <<>>
                 PROVE  /\ KeyDown("UP") \/ KeyDown("DOWN") => console'.text \in ToSet(console'.history)
                        /\ KeyDown("UP") /\ ~console.active => console'.text = Last(console'.history)
      BY DEF KeyDown
    <2>1. ASSUME NEW held, NEW text \in Texts, NEW closes, PlayFrame(held, text, closes) \/ EditFrame(held, text, closes)
          PROVE  /\ KeyDown("UP") \/ KeyDown("DOWN") => console'.text \in ToSet(console'.history)
                 /\ KeyDown("UP") /\ ~console.active => console'.text = Last(console'.history)
      BY <2>1, FrameShows DEF PlayFrame, EditFrame
    <2>2. CASE EditHangs \/ UNCHANGED vars
      BY <2>2 DEF EditHangs, vars, consoleVars, KeyDown
    <2>3. CASE Start \/ StartHangs
      BY <2>3 DEF Start, StartHangs
    <2>4. CASE Shutdown \/ ShutdownUnwritten \/ Dies
      BY <2>4, ClosedConsole DEF Shutdown, ShutdownUnwritten, Dies, Exit
    <2> QED
      BY <2>1, <2>2, <2>3, <2>4 DEF Next
  <1> QED
    BY <1>1, <1>2, NextIInv, PTL DEF Spec, RecallShowsHistory

-----------------------------------------------------------------------------
(* The caches *)

\* The fallback image is cached, and with an animator the images of its states.
IsCache(c) == c = [images |-> c.images, prefabs |-> c.prefabs, animators |-> c.animators]
StateImages(name) == {GetImage(s.img) : s \in ToSet(disk.animators[name].states)}
Sound(c) ==
    /\ IsCache(c) /\ NullImg \in c.images
    /\ \A a \in c.animators : HasAnimator(a) /\ StateImages(a) \subseteq c.images
\* What a prefab shows.
PrefabImages(name) ==
    {GetImage(disk.prefabs[name].img)} \cup
    (IF HasAnimator(disk.prefabs[name].anim) THEN StateImages(disk.prefabs[name].anim) ELSE {})

\* The caches only grow, and what is asked for is there.
LEMMA WithImagesKeeps ==
  ASSUME NEW c, Sound(c), NEW names
  PROVE  LET w == WithImages(c, names)
         IN  /\ Sound(w) /\ c.images \subseteq w.images /\ w.animators = c.animators
             /\ \A n \in names : GetImage(n) \in w.images
  <1> DEFINE w == WithImages(c, names)
  <1>1. c = [images |-> c.images, prefabs |-> c.prefabs, animators |-> c.animators]
    BY DEF Sound, IsCache
  <1>2. w = [c EXCEPT !.images = c.images \cup (DOMAIN disk.images \cap names)]
    BY DEF WithImages
  <1>3. w = [images |-> c.images \cup (DOMAIN disk.images \cap names), prefabs |-> c.prefabs, animators |-> c.animators]
    BY <1>1, <1>2
  <1> HIDE DEF w
  <1>4. IsCache(w) /\ w.images = c.images \cup (DOMAIN disk.images \cap names) /\ w.animators = c.animators
    BY <1>3 DEF IsCache
  <1>5. Sound(w) /\ c.images \subseteq w.images
    BY <1>4 DEF Sound
  <1>6. \A n \in names : GetImage(n) \in w.images
    BY <1>4 DEF Sound, GetImage
  <1> QED
    BY <1>4, <1>5, <1>6 DEF w

LEMMA WithAnimatorKeeps ==
  ASSUME NEW c, Sound(c), NEW name
  PROVE  LET w == WithAnimator(c, name)
         IN  /\ Sound(w) /\ c.images \subseteq w.images
             /\ HasAnimator(name) => StateImages(name) \subseteq w.images
  <1> DEFINE all == WithImages(c, {s.img : s \in ToSet(disk.animators[name].states)})
             w == WithAnimator(c, name)
  <1>1. CASE name \in c.animators \/ ~HasAnimator(name)
    <2>1. w = c
      BY <1>1 DEF WithAnimator
    <2> QED
      BY <1>1, <2>1 DEF Sound
  <1>2. CASE ~(name \in c.animators \/ ~HasAnimator(name))
    <2>1. w = [all EXCEPT !.animators = all.animators \cup {name}]
      BY <1>2 DEF WithAnimator
    <2>2. /\ Sound(all) /\ c.images \subseteq all.images /\ all.animators = c.animators
          /\ \A n \in {s.img : s \in ToSet(disk.animators[name].states)} : GetImage(n) \in all.images
      BY WithImagesKeeps
    <2>3. StateImages(name) \subseteq all.images
      BY <2>2 DEF StateImages
    <2> HIDE DEF all, w
    <2>4. all = [images |-> all.images, prefabs |-> all.prefabs, animators |-> all.animators]
      BY <2>2 DEF Sound, IsCache
    <2>5. w = [images |-> all.images, prefabs |-> all.prefabs, animators |-> all.animators \cup {name}]
      BY <2>1, <2>4
    <2>6. Sound(w) /\ c.images \subseteq w.images /\ StateImages(name) \subseteq w.images
      BY <1>2, <2>2, <2>3, <2>5 DEF Sound, IsCache
    <2> QED
      BY <2>6 DEF w
  <1> QED
    BY <1>1, <1>2

LEMMA WithInstanceKeeps ==
  ASSUME NEW c, Sound(c), NEW name
  PROVE  LET w == WithInstance(c, name)
         IN  /\ Sound(w) /\ c.images \subseteq w.images
             /\ HasPrefab(name) => PrefabImages(name) \subseteq w.images
  <1> DEFINE p == disk.prefabs[name]
             c1 == WithPrefab(c, name)
             c2 == WithImages(c1, {p.img})
             w == WithInstance(c, name)
  <1>1. Sound(c1) /\ c1.images = c.images
    <2>1. CASE c1 = c
      BY <2>1
    <2>2. CASE c1 = [c EXCEPT !.prefabs = c.prefabs \cup {disk.prefabs[name].name}]
      <3>1. c = [images |-> c.images, prefabs |-> c.prefabs, animators |-> c.animators]
        BY DEF Sound, IsCache
      <3>2. PICK ps : ps = c.prefabs \cup {disk.prefabs[name].name}
        OBVIOUS
      <3>3. c1 = [c EXCEPT !.prefabs = ps]
        BY <2>2, <3>2
      <3> HIDE DEF c1
      <3>4. c1 = [images |-> c.images, prefabs |-> ps, animators |-> c.animators]
        BY <3>1, <3>3
      <3> QED
        BY <3>4 DEF Sound, IsCache
    <2> QED
      BY <2>1, <2>2 DEF WithPrefab
  <1>2. CASE HasPrefab(name)
    <2>1. Sound(c2) /\ c1.images \subseteq c2.images /\ GetImage(p.img) \in c2.images
      BY <1>1, WithImagesKeeps
    <2>2. w = WithAnimator(c2, p.anim)
      BY <1>2 DEF WithInstance
    <2>3. /\ Sound(w) /\ c2.images \subseteq w.images
          /\ HasAnimator(p.anim) => StateImages(p.anim) \subseteq w.images
      BY <2>1, <2>2, WithAnimatorKeeps
    <2> HIDE DEF w, c2, c1
    <2>4. PrefabImages(name) \subseteq w.images
      BY <2>1, <2>3 DEF PrefabImages
    <2>5. Sound(w) /\ c.images \subseteq w.images /\ PrefabImages(name) \subseteq w.images
      BY <1>1, <2>1, <2>3, <2>4
    <2> QED
      BY <2>5 DEF w
  <1>3. CASE ~HasPrefab(name)
    <2>1. w = c1
      BY <1>3 DEF WithInstance
    <2> QED
      BY <1>1, <1>3, <2>1
  <1> QED
    BY <1>2, <1>3

\* Loading a map: the images of its tilesets and of all its prefabs.
LEMMA MapCacheKeeps ==
  ASSUME NEW c, Sound(c), disk \in Disks
  PROVE  LET w == MapCache(c)
         IN  /\ Sound(w)
             /\ HasAnimator(PlayerAnimator) => StateImages(PlayerAnimator) \subseteq w.images
             /\ disk.defined => \A i \in DOMAIN disk.tilesets : GetImage(disk.tilesets[i]) \in w.images
             /\ \A i \in DOMAIN disk.map.prefabs :
                  HasPrefab(disk.map.prefabs[i]) => PrefabImages(disk.map.prefabs[i]) \subseteq w.images
  <1> DEFINE names == disk.map.prefabs
             N == Len(names)
             tilesets == IF disk.defined THEN ToSet(disk.tilesets) ELSE {}
             c0 == WithAnimator(c, PlayerAnimator)
             c1 == WithImages(c0, tilesets)
             IsLoop(f, n) == f = [i \in 0..n |-> IF i = 0 THEN c1 ELSE WithInstance(f[i - 1], names[i])]
             loaded == CHOOSE f : f = [i \in 0..N |-> IF i = 0 THEN c1 ELSE WithInstance(f[i - 1], names[i])]
  <1>1. MapCache(c) = loaded[N]
    BY Zenon DEF MapCache
  <1>2. N \in Nat /\ DOMAIN names = 1..N
    BY AssetsAssumption, LenProperties
  <1>3. Sound(c0) /\ (HasAnimator(PlayerAnimator) => StateImages(PlayerAnimator) \subseteq c0.images)
    BY WithAnimatorKeeps
  <1>4. /\ Sound(c1) /\ c0.images \subseteq c1.images
        /\ \A n \in tilesets : GetImage(n) \in c1.images
    BY <1>3, WithImagesKeeps
  <1>5. disk.defined => \A i \in DOMAIN disk.tilesets : GetImage(disk.tilesets[i]) \in c1.images
    BY <1>4 DEF ToSet
  <1> HIDE DEF c0, c1, names, N, tilesets
  <1>6. \A n \in 0..N : \E f : IsLoop(f, n)
    <2> DEFINE T == {n \in 0..N : \E f : IsLoop(f, n)}
    <2>1. 0 \in T
      <3>1. IsLoop([i \in 0..0 |-> c1], 0)
        OBVIOUS
      <3>2. 0 \in 0..N
        BY <1>2
      <3> HIDE DEF IsLoop
      <3> QED
        BY <3>1, <3>2
    <2>2. ASSUME NEW n \in 0..N, n # 0, n - 1 \in T PROVE n \in T
      <3>1. PICK f : IsLoop(f, n - 1)
        BY <2>2
      <3> DEFINE g == [i \in 0..n |-> IF i = n THEN WithInstance(f[n - 1], names[n]) ELSE f[i]]
      <3>2. ASSUME NEW i \in 0..n
            PROVE  g[i] = IF i = 0 THEN c1 ELSE WithInstance(g[i - 1], names[i])
        <4>1. CASE i = n
          BY <1>2, <2>2, <4>1
        <4>2. CASE i # n
          <5>1. i \in 0..(n - 1) /\ g[i] = f[i] /\ (i # 0 => i - 1 \in 0..n /\ i - 1 # n /\ g[i - 1] = f[i - 1])
            BY <1>2, <4>2
          <5> QED
            BY <3>1, <5>1
        <4> QED
          BY <4>1, <4>2
      <3>3. IsLoop(g, n)
        <4>1. g = [i \in 0..n |-> g[i]]
          OBVIOUS
        <4> HIDE DEF g
        <4> QED
          BY <3>2, <4>1
      <3> QED
        BY <3>3
    <2> HIDE DEF T
    <2>3. \A n \in 0..N : n \in T
      BY <1>2, <2>1, <2>2, EachRound
    <2> QED
      BY <2>3 DEF T
  <1>7. loaded = [i \in 0..N |-> IF i = 0 THEN c1 ELSE WithInstance(loaded[i - 1], names[i])]
    <2>1. \E f : IsLoop(f, N)
      BY <1>2, <1>6
    <2> QED
      BY <2>1
  <1> HIDE DEF loaded
  <1> DEFINE Done(n) == /\ Sound(loaded[n]) /\ c1.images \subseteq loaded[n].images
                        /\ \A i \in 1..n : HasPrefab(names[i]) => PrefabImages(names[i]) \subseteq loaded[n].images
             T == {n \in 0..N : Done(n)}
  <1>8. \A n \in 0..N : n \in T
    <2>1. 0 \in T
      <3>1. loaded[0] = c1
        BY <1>2, <1>7
      <3> QED
        BY <1>2, <1>4, <3>1
    <2>2. ASSUME NEW n \in 0..N, n # 0, n - 1 \in T PROVE n \in T
      <3>1. loaded[n] = WithInstance(loaded[n - 1], names[n])
        BY <1>2, <1>7, <2>2
      <3>2. Done(n - 1)
        BY <2>2
      <3>3. /\ Sound(loaded[n]) /\ loaded[n - 1].images \subseteq loaded[n].images
            /\ HasPrefab(names[n]) => PrefabImages(names[n]) \subseteq loaded[n].images
        BY <3>1, <3>2, WithInstanceKeeps
      <3>4. \A i \in 1..n : i = n \/ i \in 1..(n - 1)
        BY <1>2
      <3>5. Done(n)
        BY <3>2, <3>3, <3>4
      <3> QED
        BY <3>5
    <2> HIDE DEF T
    <2> QED
      BY <1>2, <2>1, <2>2, EachRound
  <1>9. Done(N)
    BY <1>2, <1>8
  <1>10. loaded[N] = MapCache(c)
    BY <1>1
  <1> QED
    BY <1>2, <1>3, <1>4, <1>5, <1>9, <1>10 DEF names

-----------------------------------------------------------------------------
(* What points into the caches *)

\* An animator, and an entity, whose images are cached; the tile of an empty
\* list of tilesets has no image.
Drawn(a, c) == a = [states |-> a.states, current |-> a.current] /\ \A s \in DOMAIN a.states : a.states[s] \in c.images
Shown(e, def, c) == Drawn(e.anim, c) /\ (e.img \in c.images \/ (e.img = Null /\ def.resources = <<>>))

\* The first state of a name is one of the file's.
LEMMA FirstState ==
  ASSUME disk \in Disks, NEW name, HasAnimator(name), NEW s \in DOMAIN StatesOf(name)
  PROVE  StatesOf(name)[s] \in StateImages(name)
  <1> DEFINE states == disk.animators[name].states
             First(i) == states[i].name = s /\ \A j \in 1..i - 1 : states[j].name # s
             first == CHOOSE i \in DOMAIN states : First(i)
             U == {i \in DOMAIN states : states[i].name = s}
  <1>1. DOMAIN states = 1..Len(states) /\ Len(states) \in Nat
    BY AssetsAssumption, LenProperties DEF HasAnimator
  <1>2. U \in SUBSET Nat /\ U # {} /\ StatesOf(name)[s] = GetImage(states[first].img)
    <2>1. DOMAIN StatesOf(name) = {states[i].name : i \in DOMAIN states}
      BY DEF StatesOf
    <2>2. PICK i \in DOMAIN states : states[i].name = s
      BY <2>1
    <2>3. U \in SUBSET Nat
      BY <1>1
    <2>4. i \in U
      BY <2>2
    <2>5. StatesOf(name)[s] = GetImage(states[first].img)
      BY <2>1, Zenon DEF StatesOf
    <2> QED
      BY <2>3, <2>4, <2>5
  <1>3. PICK i \in U : \A j \in U : i <= j
    BY <1>2, Least
  <1>4. First(i)
    <2>1. ASSUME NEW j \in 1..i - 1 PROVE states[j].name # s
      <3>1. j \in DOMAIN states /\ ~(i <= j)
        BY <1>1, <1>3
      <3> QED
        BY <1>3, <3>1
    <2> QED
      BY <1>3, <2>1
  <1> HIDE DEF First, states
  <1>5. first \in DOMAIN states
    BY <1>3, <1>4 DEF states
  <1>6. states[first] \in ToSet(states)
    BY <1>5 DEF ToSet
  <1> QED
    BY <1>2, <1>6 DEF StateImages, states

\* A copy of a cached animator, and one that has begun to play.
LEMMA CopyDrawn ==
  ASSUME disk \in Disks, NEW name, NEW c, HasAnimator(name) => StateImages(name) \subseteq c.images
  PROVE  Drawn(Copied(name), c) /\ Copied(name).current = Null
  <1> DEFINE states == IF HasAnimator(name) THEN StatesOf(name) ELSE <<>>
  <1>1. Copied(name) = [states |-> states, current |-> Null]
    BY DEF Copied, NoPlayer
  <1>2. ASSUME NEW s \in DOMAIN states PROVE states[s] \in c.images
    <2>1. HasAnimator(name)
      OBVIOUS
    <2> QED
      BY <2>1, FirstState
  <1> HIDE DEF states
  <1> QED
    BY <1>1, <1>2 DEF Drawn
LEMMA PlayDrawn ==
  ASSUME NEW a, NEW c, Drawn(a, c), NEW state
  PROVE  LET b == Play(a, state)
         IN  Drawn(b, c) /\ b.states = a.states /\ (b.current = a.current \/ b.current \in DOMAIN b.states)
  <1>1. a = [states |-> a.states, current |-> a.current]
    BY DEF Drawn
  <1>2. CASE state \in DOMAIN a.states
    <2>1. Play(a, state) = [states |-> a.states, current |-> state]
      BY <1>1, <1>2 DEF Play
    <2> QED
      BY <1>2, <2>1 DEF Drawn
  <1>3. CASE state \notin DOMAIN a.states
    BY <1>3 DEF Play
  <1> QED
    BY <1>2, <1>3

\* An instance of a prefab.
LEMMA InstanceShown ==
  ASSUME disk \in Disks, NEW name, NEW id, NEW def, NEW c, PrefabImages(name) \subseteq c.images
  PROVE  Shown(Instance(name, id), def, c)
  <1> DEFINE p == disk.prefabs[name]
             anim == IF HasAnimator(p.anim) THEN Play(Copied(p.anim), disk.animators[p.anim].default) ELSE NoPlayer
             img == IF anim.current = Null THEN GetImage(p.img) ELSE anim.states[anim.current]
  <1>1. Instance(name, id).anim = anim /\ Instance(name, id).img = img
    BY DEF Instance
  <1>2. GetImage(p.img) \in c.images /\ (HasAnimator(p.anim) => StateImages(p.anim) \subseteq c.images)
    BY DEF PrefabImages
  <1>3. Drawn(anim, c) /\ (anim.current = Null \/ anim.current \in DOMAIN anim.states)
    <2>1. CASE HasAnimator(p.anim)
      <3>1. Drawn(Copied(p.anim), c) /\ Copied(p.anim).current = Null
        BY <1>2, CopyDrawn
      <3> QED
        BY <2>1, <3>1, PlayDrawn
    <2>2. CASE ~HasAnimator(p.anim)
      BY <2>2 DEF NoPlayer, Drawn
    <2> QED
      BY <2>1, <2>2
  <1> HIDE DEF anim
  <1>4. img \in c.images
    BY <1>2, <1>3 DEF Drawn
  <1> QED
    BY <1>1, <1>3, <1>4 DEF Shown

\* The tileset definition has an image and a last id for each of its tilesets.
LEMMA TileDefImages ==
  ASSUME disk \in Disks
  PROVE  /\ IsLog(MapTileDef.resources)
         /\ ~MapTileDef.loaded => MapTileDef.resources = <<>>
         /\ MapTileDef.loaded =>
              /\ disk.defined /\ DOMAIN MapTileDef.ends = DOMAIN MapTileDef.resources
              /\ MapTileDef.resources = [i \in DOMAIN disk.tilesets |-> GetImage(disk.tilesets[i])]
  <1> DEFINE images == [i \in DOMAIN disk.tilesets |-> GetImage(disk.tilesets[i])]
  <1>1. CASE disk.defined
    <2>1. /\ MapTileDef.loaded /\ MapTileDef.resources = images
          /\ DOMAIN MapTileDef.ends = DOMAIN disk.tilesets
      BY <1>1 DEF MapTileDef, LoadTilesets
    <2>2. images \in Seq({GetImage(disk.tilesets[i]) : i \in DOMAIN disk.tilesets})
      BY AssetsAssumption, LenProperties
    <2> HIDE DEF images
    <2> QED
      BY <1>1, <2>1, <2>2 DEF IsLog, images
  <1>2. CASE ~disk.defined
    <2>1. MapTileDef = NoTileDef
      BY <1>2 DEF MapTileDef
    <2>2. ~NoTileDef.loaded /\ NoTileDef.resources = <<>>
      BY DEF NoTileDef
    <2> QED
      BY <2>1, <2>2, EmptySeq DEF IsLog
  <1> QED
    BY <1>1, <1>2

\* A tile, whatever its id.
LEMMA TileShown ==
  ASSUME disk \in Disks, NEW c, ToSet(MapTileDef.resources) \subseteq c.images, NEW id
  PROVE  Shown(TileEntity(MapTileDef, id), MapTileDef, c)
  <1> DEFINE def == MapTileDef
             i == GetResourceIndexFromID(def, id)
             found == {k \in DOMAIN def.ends : id <= def.ends[k]}
             Lowest(k) == \A j \in found : k <= j
             img == GetResource(def, i)
  <1>1. TileEntity(def, id).anim = NoPlayer /\ TileEntity(def, id).img = img
    BY DEF TileEntity
  <1>2. Drawn(NoPlayer, c)
    BY DEF NoPlayer, Drawn
  <1>3. IsLog(def.resources) /\ (~def.loaded => def.resources = <<>>) /\ (def.loaded => DOMAIN def.ends = DOMAIN def.resources)
    BY TileDefImages
  <1>4. Len(def.resources) \in Nat /\ DOMAIN def.resources = 1..Len(def.resources)
    BY <1>3, LogLen
  <1>5. def.resources # <<>> => i + 1 \in DOMAIN def.resources
    <2> SUFFICES ASSUME def.resources # <<>> PROVE i + 1 \in DOMAIN def.resources
      OBVIOUS
    <2>1. def.loaded /\ 1 \in DOMAIN def.resources
      <3>1. PICK S : def.resources \in Seq(S)
        BY <1>3 DEF IsLog
      <3> QED
        BY <1>3, <1>4, <3>1, EmptySeq
    <2>2. CASE found = {}
      <3>1. i = 0
        BY <2>1, <2>2 DEF GetResourceIndexFromID
      <3> QED
        BY <2>1, <3>1
    <2>3. CASE found # {}
      <3>1. i = (CHOOSE k \in found : Lowest(k)) - 1
        BY <2>1, <2>3 DEF GetResourceIndexFromID
      <3>2. found \in SUBSET Nat
        BY <1>3, <1>4, <2>1
      <3>3. \E k \in found : Lowest(k)
        BY <2>3, <3>2, Least
      <3> HIDE DEF found, i
      <3>4. (CHOOSE k \in found : Lowest(k)) \in found
        BY <3>3
      <3>5. i + 1 \in found
        <4> DEFINE k == CHOOSE k \in found : Lowest(k)
        <4>1. k \in found /\ i = k - 1
          BY <3>1, <3>4
        <4> HIDE DEF k, Lowest
        <4>2. k \in Nat
          BY <3>2, <4>1
        <4>3. i + 1 = k
          BY <4>1, <4>2
        <4> QED
          BY <4>1, <4>3
      <3> QED
        BY <1>3, <2>1, <3>5 DEF found
    <2> QED
      BY <2>2, <2>3
  <1> HIDE DEF i
  <1>6. img \in ToSet(def.resources) \/ (img = Null /\ def.resources = <<>>)
    <2>1. CASE i + 1 \in DOMAIN def.resources
      BY <2>1 DEF GetResource, ToSet
    <2>2. CASE i + 1 \notin DOMAIN def.resources
      BY <1>5, <2>2 DEF GetResource
    <2> QED
      BY <2>1, <2>2
  <1> HIDE DEF img
  <1> QED
    BY <1>1, <1>2, <1>6 DEF Shown

-----------------------------------------------------------------------------
(* Images are held *)

\* In every state of the client, with the caches of a running one sound.
Pointers ==
    /\ ToSet(tileDef.resources) \subseteq cache.images /\ Drawn(player, cache)
    /\ \A e \in entities : Shown(e, tileDef, cache)
HeldInv == disk \in Disks /\ (stage = "running" => Sound(cache)) /\ Pointers

\* Larger caches hold what smaller ones held.
LEMMA StillHeld ==
  ASSUME NEW c, NEW d, c.images \subseteq d.images
  PROVE  /\ \A a : Drawn(a, c) => Drawn(a, d)
         /\ \A e, def : Shown(e, def, c) => Shown(e, def, d)
  BY DEF Drawn, Shown

\* Soundness is about the files of the disk, which stay.
LEMMA StaysSound ==
  ASSUME NEW c, Sound(c), disk' = disk, cache' = c
  PROVE  Sound(cache)'
  BY DEF Sound, IsCache, StateImages, HasAnimator, GetImage

LEMMA NothingHeld ==
  ASSUME disk \in Disks, disk' = disk, stage' = "off", tileDef' = NoTileDef, entities' = {}, player' = NoPlayer
  PROVE  HeldInv'
  <1>1. ToSet(tileDef'.resources) = {}
    BY DEF NoTileDef, ToSet
  <1>2. Drawn(player', cache')
    BY DEF NoPlayer, Drawn
  <1> QED
    BY <1>1, <1>2 DEF HeldInv, Pointers, Drawn, Sound

\* The start of a run.
LEMMA StartHeld ==
  ASSUME HeldInv, Start
  PROVE  HeldInv'
  <1> DEFINE c == MapCache(CacheAtInit)
             names == disk.map.prefabs
  <1>1. disk \in Disks /\ disk' = disk /\ NullImg \in DOMAIN disk.images
    BY DEF HeldInv, Start, InitializeWorld, AssetsInits
  <1>2. /\ cache' = c /\ tileDef' = MapTileDef /\ player' = Play(Copied(PlayerAnimator), "idle")
        /\ entities' = {TileEntity(MapTileDef, id) : id \in disk.map.tiles}
                         \cup {Instance(names[i], -i) : i \in {j \in DOMAIN names : HasPrefab(names[j])}}
    BY DEF Start, InitializeWorld
  <1>3. Sound(CacheAtInit)
    <2>1. CacheAtInit = [images |-> {NullImg}, prefabs |-> {}, animators |-> {}]
      BY <1>1 DEF CacheAtInit, WithImages, NoAssets
    <2> QED
      BY <2>1 DEF Sound, IsCache
  <1>4. /\ Sound(c)
        /\ HasAnimator(PlayerAnimator) => StateImages(PlayerAnimator) \subseteq c.images
        /\ disk.defined => \A i \in DOMAIN disk.tilesets : GetImage(disk.tilesets[i]) \in c.images
        /\ \A i \in DOMAIN names : HasPrefab(names[i]) => PrefabImages(names[i]) \subseteq c.images
    BY <1>1, <1>3, MapCacheKeeps
  <1> HIDE DEF c, names
  <1>5. ToSet(MapTileDef.resources) \subseteq c.images
    <2>1. CASE MapTileDef.loaded
      <3>1. disk.defined /\ MapTileDef.resources = [i \in DOMAIN disk.tilesets |-> GetImage(disk.tilesets[i])]
        BY <1>1, <2>1, TileDefImages
      <3> QED
        BY <1>4, <3>1 DEF ToSet
    <2>2. CASE ~MapTileDef.loaded
      <3>1. MapTileDef.resources = <<>>
        BY <1>1, <2>2, TileDefImages
      <3> QED
        BY <3>1 DEF ToSet
    <2> QED
      BY <2>1, <2>2
  <1>6. Drawn(player', c)
    BY <1>1, <1>2, <1>4, CopyDrawn, PlayDrawn
  <1>7. ASSUME NEW e \in entities' PROVE Shown(e, MapTileDef, c)
    <2>1. CASE \E id \in disk.map.tiles : e = TileEntity(MapTileDef, id)
      BY <1>1, <1>5, <2>1, TileShown
    <2>2. ASSUME NEW i \in DOMAIN names, HasPrefab(names[i]), e = Instance(names[i], -i)
          PROVE  Shown(e, MapTileDef, c)
      BY <1>1, <1>4, <2>2, InstanceShown
    <2> QED
      BY <1>2, <2>1, <2>2
  <1>8. Sound(cache)'
    BY <1>1, <1>2, <1>4, StaysSound
  <1> QED
    BY <1>1, <1>2, <1>5, <1>6, <1>7, <1>8 DEF HeldInv, Pointers, Drawn, Shown

\* The editor adds to the caches before it adds the entity.
LEMMA EditHeld ==
  ASSUME HeldInv, NEW held, NEW text, NEW closes, EditFrame(held, text, closes)
  PROVE  HeldInv'
  <1>1. PICK name : EditorAdds(name)
    BY DEF EditFrame
  <1> DEFINE c == WithInstance(cache, name)
  <1>2. /\ disk \in Disks /\ disk' = disk /\ Sound(cache) /\ Pointers
        /\ tileDef' = tileDef /\ player' = player
    BY DEF HeldInv, EditFrame, Frame
  <1>3. cache' = c /\ entities' = entities \cup (IF HasPrefab(name) THEN {Instance(name, 0)} ELSE {})
    BY <1>1 DEF EditorAdds
  <1>4. /\ Sound(c) /\ cache.images \subseteq c.images
        /\ HasPrefab(name) => PrefabImages(name) \subseteq c.images
    BY <1>2, WithInstanceKeeps
  <1> HIDE DEF c
  <1>5. ASSUME NEW e \in entities' PROVE Shown(e, tileDef, c)
    <2>1. CASE e \in entities
      BY <1>2, <1>4, <2>1, StillHeld DEF Pointers
    <2>2. CASE HasPrefab(name) /\ e = Instance(name, 0)
      BY <1>2, <1>4, <2>2, InstanceShown
    <2> QED
      BY <1>3, <2>1, <2>2
  <1>6. Drawn(player, c) /\ ToSet(tileDef.resources) \subseteq c.images
    BY <1>2, <1>4, StillHeld DEF Pointers
  <1>7. Sound(cache)'
    BY <1>2, <1>3, <1>4, StaysSound
  <1> QED
    BY <1>2, <1>3, <1>5, <1>6, <1>7 DEF HeldInv, Pointers, Drawn, Shown

LEMMA NextHeld == HeldInv /\ [Next]_vars => HeldInv'
  <1> SUFFICES ASSUME HeldInv, [Next]_vars PROVE HeldInv'
    OBVIOUS
  <1>1. CASE Start
    BY <1>1, StartHeld
  <1>2. ASSUME NEW held, NEW text, NEW closes, EditFrame(held, text, closes)
        PROVE  HeldInv'
    BY <1>2, EditHeld
  <1>3. ASSUME NEW held, NEW text, NEW closes, PlayFrame(held, text, closes)
        PROVE  HeldInv'
    <2>1. PICK state : player' = Play(player, state)
      BY <1>3 DEF PlayFrame, HandleAnim
    <2>2. /\ disk' = disk /\ cache' = cache /\ tileDef' = tileDef /\ entities' = entities /\ Sound(cache)
          /\ Drawn(player, cache)
      BY <1>3 DEF PlayFrame, Frame, HeldInv, Pointers
    <2>3. Drawn(player', cache)
      BY <2>1, <2>2, PlayDrawn
    <2>4. Sound(cache)'
      BY <2>2, StaysSound
    <2> QED
      BY <2>2, <2>3, <2>4 DEF HeldInv, Pointers, Drawn, Shown
  <1>4. CASE StartHangs \/ EditHangs
    <2>1. UNCHANGED assetsVars /\ stage' = "stuck"
      BY <1>4 DEF StartHangs, EditHangs
    <2> QED
      BY <2>1 DEF assetsVars, HeldInv, Pointers, Drawn, Shown
  <1>5. CASE Shutdown \/ ShutdownUnwritten \/ Dies
    <2>1. /\ disk \in Disks /\ disk' = disk /\ stage' = "off" /\ tileDef' = NoTileDef
          /\ entities' = {} /\ player' = NoPlayer
      BY <1>5 DEF Shutdown, ShutdownUnwritten, Dies, Exit, HeldInv
    <2> QED
      BY <2>1, NothingHeld
  <1>6. CASE UNCHANGED vars
    <2>1. UNCHANGED assetsVars /\ stage' = stage
      BY <1>6 DEF vars, engineVars
    <2> QED
      BY <2>1, StaysSound DEF assetsVars, HeldInv, Pointers, Drawn, Shown
  <1> QED
    BY <1>1, <1>2, <1>3, <1>4, <1>5, <1>6 DEF Next

\* Every image that a tile set, an entity or an animator points to is cached,
\* the fallback for the ones that cannot be loaded, for any data folder and
\* any edits; a tile has no image only if there is no tileset at all
\* (AssetsManager, Mapfile::LoadMap, Prefab::InstantiatePrefab).
THEOREM ImagesStay == Spec => []ImagesHeld
  <1>1. Init => HeldInv
    <2>1. ToSet(NoTileDef.resources) = {} /\ (\A c : Drawn(NoPlayer, c))
      BY DEF NoTileDef, ToSet, NoPlayer, Drawn
    <2> QED
      BY <2>1 DEF Init, HeldInv, Pointers
  <1>2. HeldInv => ImagesHeld
    BY DEF HeldInv, Pointers, Drawn, Shown, ImagesHeld
  <1> QED
    BY <1>1, <1>2, NextHeld, PTL DEF Spec

-----------------------------------------------------------------------------
(* The tiles of a tileset definition *)

\* A sum of parts: f[n] is a first log followed by the parts up to the n-th.
IsSum(f, first, parts, N) == f = [n \in 0..N |-> IF n = 0 THEN first ELSE f[n - 1] \o parts[n]]

LEMMA SumExists ==
  ASSUME NEW N \in Nat, NEW first, NEW parts
  PROVE  \E f : IsSum(f, first, parts, N)
  <1> DEFINE T == {n \in 0..N : \E f : IsSum(f, first, parts, n)}
  <1>1. 0 \in T
    <2>1. IsSum([i \in 0..0 |-> first], first, parts, 0)
      BY DEF IsSum
    <2> QED
      BY <2>1
  <1>2. ASSUME NEW n \in 0..N, n # 0, n - 1 \in T PROVE n \in T
    <2>1. PICK f : IsSum(f, first, parts, n - 1)
      BY <1>2
    <2> DEFINE g == [i \in 0..n |-> IF i = n THEN f[n - 1] \o parts[n] ELSE f[i]]
    <2>2. ASSUME NEW i \in 0..n
          PROVE  g[i] = IF i = 0 THEN first ELSE g[i - 1] \o parts[i]
      <3>1. CASE i = n
        BY <1>2, <3>1
      <3>2. CASE i # n
        <4>1. i \in 0..(n - 1) /\ g[i] = f[i] /\ (i # 0 => i - 1 \in 0..n /\ i - 1 # n /\ g[i - 1] = f[i - 1])
          BY <3>2
        <4> QED
          BY <2>1, <4>1 DEF IsSum
      <3> QED
        BY <3>1, <3>2
    <2>3. IsSum(g, first, parts, n)
      <3>1. g = [i \in 0..n |-> g[i]]
        OBVIOUS
      <3> HIDE DEF g
      <3> QED
        BY <2>2, <3>1 DEF IsSum
    <2> QED
      BY <2>3
  <1> HIDE DEF T
  <1>3. \A n \in 0..N : n \in T
    BY <1>1, <1>2, EachRound
  <1> QED
    BY <1>3 DEF T

\* An element of a log behind another.
LEMMA ConcatAt ==
  ASSUME NEW s, NEW t, IsLog(s), IsLog(t)
  PROVE  /\ \A k \in 1..Len(s) : (s \o t)[k] = s[k]
         /\ \A k \in 1..Len(t) : (s \o t)[Len(s) + k] = t[k]
  <1>1. PICK S : s \in Seq(S)
    BY DEF IsLog
  <1>2. PICK T : t \in Seq(T)
    BY DEF IsLog
  <1>3. s \in Seq(S \cup T) /\ t \in Seq(S \cup T)
    BY <1>1, <1>2, SeqDef
  <1>4. \A k \in 1..Len(s) + Len(t) : (s \o t)[k] = IF k <= Len(s) THEN s[k] ELSE t[k - Len(s)]
    BY <1>3, ConcatProperties
  <1>5. Len(s) \in Nat /\ Len(t) \in Nat
    BY LogLen
  <1>6. ASSUME NEW k \in 1..Len(t) PROVE (s \o t)[Len(s) + k] = t[k]
    <2>1. Len(s) + k \in 1..Len(s) + Len(t) /\ ~(Len(s) + k <= Len(s)) /\ (Len(s) + k) - Len(s) = k
      BY <1>5
    <2> QED
      BY <1>4, <2>1
  <1> QED
    BY <1>4, <1>5, <1>6

\* The tiles of each tileset, and the same tiles with the tileset's image.
Named(named, images, tiles, N) ==
    \A i \in 1..N :
        /\ IsLog(tiles[i]) /\ IsLog(named[i]) /\ Len(named[i]) = Len(tiles[i])
        /\ \A k \in 1..Len(tiles[i]) : named[i][k] = <<images[i], tiles[i][k]>>

\* f sums up the tiles behind one empty one, h the tiles with their images: the
\* first sum of tiles that reaches an id ends with the tileset of its tile.
Located(f, h, images, N) ==
    /\ IsLog(f[N]) /\ IsLog(h[N]) /\ Len(f[N]) = Len(h[N]) + 1
    /\ \A i \in 0..N : Len(f[i]) \in Nat
    /\ \A id \in 1..Len(h[N]) :
         \E i \in 1..N : /\ id <= Len(f[i]) - 1 /\ (\A j \in 1..i - 1 : ~(id <= Len(f[j]) - 1))
                         /\ h[N][id] = <<images[i], f[N][id + 1]>>

\* The tiles of the tilesets behind one empty tile, and the same tiles each
\* with the image of its tileset: the last ids grow, and the first of them that
\* is not below an id is that of the tileset of its tile.
LEMMA TilesetOfTile ==
  ASSUME NEW N \in Nat, NEW images, NEW tiles, NEW named, Named(named, images, tiles, N),
         NEW one, IsLog(one), Len(one) = 1, NEW none, IsLog(none), Len(none) = 0,
         NEW f, IsSum(f, one, tiles, N), NEW h, IsSum(h, none, named, N)
  PROVE  Located(f, h, images, N)
  <1> DEFINE Owns(i, id, n) == /\ id <= Len(f[i]) - 1 /\ (\A j \in 1..i - 1 : ~(id <= Len(f[j]) - 1))
                               /\ h[n][id] = <<images[i], f[n][id + 1]>>
             Both(n) == IsLog(f[n]) /\ IsLog(h[n]) /\ Len(f[n]) = Len(h[n]) + 1
             Grows(n) == \A i \in 0..n : Len(f[i]) \in Nat /\ Len(f[i]) <= Len(f[n])
             Owned(n) == \A id \in 1..Len(h[n]) : \E i \in 1..n : Owns(i, id, n)
             T == {n \in 0..N : Both(n) /\ Grows(n) /\ Owned(n)}
  <1> HIDE DEF Owns, Both, Grows, Owned
  <1>1. 0 \in T
    <2>1. 0 \in 0..N /\ f[0] = one /\ h[0] = none
      BY DEF IsSum
    <2> HIDE DEF T
    <2>2. Both(0)
      BY <2>1 DEF Both
    <2>3. Grows(0)
      BY <2>1 DEF Grows
    <2>4. Owned(0)
      BY <2>1 DEF Owned
    <2> QED
      BY <2>1, <2>2, <2>3, <2>4 DEF T
  <1>2. ASSUME NEW n \in 0..N, n # 0, n - 1 \in T PROVE n \in T
    <2> DEFINE p == n - 1
               fp == f[p]
               hp == h[p]
               fn == f[n]
               hn == h[n]
               tn == tiles[n]
               nn == named[n]
    <2>1. p \in 0..N /\ n \in 1..N /\ p + 1 = n /\ Both(p) /\ Grows(p) /\ Owned(p)
      BY <1>2 DEF T
    <2> HIDE DEF T
    <2>2. fn = fp \o tn /\ hn = hp \o nn
      BY <1>2 DEF IsSum
    <2> HIDE DEF p
    <2>3. /\ IsLog(tn) /\ IsLog(nn) /\ Len(nn) = Len(tn)
          /\ \A k \in 1..Len(tn) : nn[k] = <<images[n], tn[k]>>
          /\ IsLog(fp) /\ IsLog(hp) /\ Len(fp) = Len(hp) + 1
      BY <2>1 DEF Both, Named
    <2>4. /\ \A i \in 0..p : Len(f[i]) \in Nat /\ Len(f[i]) <= Len(fp)
          /\ \A id \in 1..Len(hp) : \E i \in 1..p : Owns(i, id, p)
      BY <2>1 DEF Grows, Owned
    <2> HIDE DEF fp, hp, fn, hn, tn, nn
    <2>5. Len(tn) \in Nat /\ Len(hp) \in Nat /\ Len(fp) \in Nat
      BY <2>3, LogLen
    <2>6. IsLog(fn) /\ IsLog(hn) /\ Len(fn) = Len(fp) + Len(tn) /\ Len(hn) = Len(hp) + Len(nn)
      BY <2>2, <2>3, LogConcat
    <2>7. Len(fn) = Len(hn) + 1 /\ Len(fp) <= Len(fn) /\ Len(fn) \in Nat /\ Len(hn) = Len(hp) + Len(tn)
      BY <2>3, <2>5, <2>6
    <2>8. ASSUME NEW i \in 0..n PROVE Len(f[i]) \in Nat /\ Len(f[i]) <= Len(fn)
      <3>1. CASE i = n
        BY <2>7, <3>1 DEF fn
      <3>2. CASE i # n
        <4> DEFINE fi == f[i]
        <4>1. i \in 0..p
          BY <2>1, <3>2
        <4>2. Len(fi) \in Nat /\ Len(fi) <= Len(fp)
          BY <2>4, <4>1
        <4> HIDE DEF fi
        <4>3. Len(fi) \in Nat /\ Len(fi) <= Len(fn)
          BY <2>5, <2>7, <4>2
        <4> QED
          BY <4>3 DEF fi
      <3> QED
        BY <3>1, <3>2
    <2>9. ASSUME NEW id \in 1..Len(hn) PROVE \E i \in 1..n : Owns(i, id, n)
      <3>1. CASE id <= Len(hp)
        <4>1. id \in 1..Len(hp) /\ id \in 1..Len(fp) /\ id + 1 \in 1..Len(fp)
          BY <2>3, <2>5, <3>1
        <4>2. PICK i \in 1..p : Owns(i, id, p)
          BY <2>4, <4>1
        <4>3. hn[id] = hp[id] /\ fn[id + 1] = fp[id + 1]
          BY <2>2, <2>3, <4>1, ConcatAt
        <4>4. i \in 1..n
          BY <2>1
        <4>5. Owns(i, id, n)
          BY <4>2, <4>3 DEF Owns, hn, hp, fn, fp
        <4> QED
          BY <4>4, <4>5
      <3>2. CASE ~(id <= Len(hp))
        <4> DEFINE k == id - Len(hp)
        <4>1. k \in 1..Len(tn) /\ id = Len(hp) + k /\ id + 1 = Len(fp) + k
          BY <2>3, <2>5, <2>7, <3>2
        <4> HIDE DEF k
        <4>2. hn[Len(hp) + k] = nn[k] /\ fn[Len(fp) + k] = tn[k]
          <5>1. k \in 1..Len(nn)
            BY <2>3, <4>1
          <5>2. (hp \o nn)[Len(hp) + k] = nn[k]
            BY <2>3, <5>1, ConcatAt
          <5>3. (fp \o tn)[Len(fp) + k] = tn[k]
            BY <2>3, <4>1, ConcatAt
          <5> QED
            BY <2>2, <5>2, <5>3
        <4>3. id <= Len(fn) - 1
          BY <2>5, <2>7
        <4>4. ASSUME NEW j \in 1..n - 1 PROVE ~(id <= Len(f[j]) - 1)
          <5> DEFINE fj == f[j]
          <5>1. j \in 0..p
            BY <2>1
          <5>2. Len(fj) \in Nat /\ Len(fj) <= Len(fp)
            BY <2>4, <5>1
          <5> HIDE DEF fj
          <5>3. ~(id <= Len(fj) - 1)
            BY <2>3, <2>5, <3>2, <5>2
          <5> QED
            BY <5>3 DEF fj
        <4>5. hn[id] = <<images[n], fn[id + 1]>>
          BY <2>3, <4>1, <4>2
        <4>6. Owns(n, id, n)
          BY <4>3, <4>4, <4>5 DEF Owns, fn, hn
        <4>7. n \in 1..n
          BY <2>1
        <4> QED
          BY <4>6, <4>7
      <3> QED
        BY <3>1, <3>2
    <2> QED
      BY <2>6, <2>7, <2>8, <2>9 DEF T, Both, Grows, Owned, fn, hn
  <1> HIDE DEF T
  <1>3. \A n \in 0..N : n \in T
    BY <1>1, <1>2, EachRound
  <1>4. N \in 0..N
    OBVIOUS
  <1> QED
    BY <1>3, <1>4 DEF T, Both, Grows, Owned, Owns, Located

LEMMA AsLog ==
  ASSUME NEW n \in Nat, NEW s, s = [i \in 1..n |-> s[i]]
  PROVE  IsLog(s) /\ Len(s) = n
  <1>1. s \in Seq({s[i] : i \in 1..n}) /\ Len(s) = n
    OBVIOUS
  <1> QED
    BY <1>1 DEF IsLog

\* The tiles of an image, which is there or is the fallback.
LEMMA TilesOfLog ==
  ASSUME disk \in Disks, AssetsInits, NEW name
  PROVE  IsLog(TilesOf(GetImage(name)))
  <1> DEFINE img == GetImage(name)
             size == disk.images[img]
  <1>1. img \in DOMAIN disk.images
    BY DEF GetImage, AssetsInits
  <1>2. size.x \in Nat /\ size.y \in Nat
    BY <1>1, AssetsAssumption
  <1> HIDE DEF size, img
  <1>3. size.x * size.y \in Nat
    BY <1>2
  <1>4. TilesOf(img) = [n \in 1 .. size.x * size.y |-> TilesOf(img)[n]]
    BY DEF TilesOf, size
  <1> QED
    BY <1>3, <1>4, AsLog DEF img

\* What the definition is made of depends on the files of the disk, which stay.
LEMMA SameTileDef ==
  ASSUME disk' = disk
  PROVE  MapTileDef' = MapTileDef
  BY DEF MapTileDef, LoadTilesets, GetImage, TilesOf

\* The catalogue and the definition as sums of the tiles of the tilesets.
LEMMA CatalogueIsSum ==
  ASSUME disk \in Disks, disk.defined, NEW id \in DOMAIN Catalogue
  PROVE  LET names == disk.tilesets
             N == Len(names)
             images == [i \in DOMAIN names |-> GetImage(names[i])]
             tiles == [i \in 1..N |-> TilesOf(images[i])]
             named == [i \in 1..N |-> [n \in DOMAIN tiles[i] |-> <<images[i], tiles[i][n]>>]]
         IN  /\ N \in Nat /\ N # 0 /\ DOMAIN names = 1..N /\ images = [i \in 1..N |-> GetImage(names[i])]
             /\ \E f : /\ IsSum(f, <<<<0, 0>>>>, tiles, N)
                       /\ MapTileDef = [loaded |-> TRUE, resources |-> images, tiles |-> f[N],
                                        ends |-> [i \in DOMAIN names |-> Len(f[i]) - 1]]
             /\ \E h : h[1] = named[1] /\ (\A i \in 2..N : h[i] = h[i - 1] \o named[i]) /\ Catalogue = h[N]
  <1> DEFINE names == disk.tilesets
             N == Len(names)
             images == [i \in DOMAIN names |-> GetImage(names[i])]
             tiles == [i \in 1..N |-> TilesOf(images[i])]
             named == [i \in 1..N |-> [n \in DOMAIN tiles[i] |-> <<images[i], tiles[i][n]>>]]
             seqs == [i \in DOMAIN names |-> LET img == GetImage(names[i])
                                             IN  [n \in DOMAIN TilesOf(img) |-> <<img, TilesOf(img)[n]>>]]
             IsFlat(h, n) == h = [i \in 1..n |-> IF i = 1 THEN seqs[i] ELSE h[i - 1] \o seqs[i]]
             IsTiles(f) == f = [n \in 0..Len(names) |-> IF n = 0 THEN <<<<0, 0>>>> ELSE f[n - 1] \o TilesOf(images[n])]
             f == CHOOSE f : IsTiles(f)
             h == CHOOSE h : IsFlat(h, Len(seqs))
  <1>1. N \in Nat /\ DOMAIN names = 1..N
    BY AssetsAssumption, LenProperties
  <1>2. seqs = named
    BY <1>1
  <1>3. Len(seqs) = N
    <2> HIDE DEF N
    <2>1. seqs = [i \in 1..N |-> seqs[i]]
      BY <1>1
    <2> HIDE DEF seqs
    <2> QED
      BY <1>1, <2>1, AsLog
  <1>4. Catalogue = IF Len(seqs) = 0 THEN seqs ELSE h[Len(seqs)]
    BY Zenon DEF Catalogue, FlattenSeq
  <1>5. MapTileDef = [loaded |-> TRUE, resources |-> images, tiles |-> f[Len(names)],
                      ends |-> [i \in DOMAIN names |-> Len(f[i]) - 1]]
    BY Zenon DEF MapTileDef, LoadTilesets
  <1>6. N # 0
    <2>1. N = 0 => Catalogue = seqs
      BY <1>3, <1>4
    <2>2. DOMAIN seqs = 1..N
      BY <1>1
    <2> HIDE DEF seqs, N
    <2> QED
      BY <1>1, <2>1, <2>2
  <1>7. Catalogue = h[N]
    BY <1>3, <1>4, <1>6
  <1>8. IsSum(f, <<<<0, 0>>>>, tiles, N)
    <2>1. \A g : IsSum(g, <<<<0, 0>>>>, tiles, N) <=> IsTiles(g)
      <3>1. \A n \in 0..N : n # 0 => tiles[n] = TilesOf(images[n])
        BY <1>1
      <3> HIDE DEF tiles, images
      <3> QED
        BY <3>1 DEF IsSum
    <2>2. PICK g : IsSum(g, <<<<0, 0>>>>, tiles, N)
      BY <1>1, SumExists
    <2>3. IsTiles(f)
      <3> HIDE DEF IsTiles
      <3> QED
        BY <2>1, <2>2
    <2> QED
      BY <2>1, <2>3
  <1>9. IsFlat(h, N)
    <2> DEFINE parts == [i \in 1..N - 1 |-> seqs[i + 1]]
    <2>1. PICK g : IsSum(g, seqs[1], parts, N - 1)
      <3>1. N - 1 \in Nat
        BY <1>1, <1>6
      <3> HIDE DEF seqs, parts, N
      <3> QED
        BY <3>1, SumExists
    <2> DEFINE k == [i \in 1..N |-> g[i - 1]]
    <2> HIDE DEF N, seqs
    <2>2. ASSUME NEW i \in 1..N PROVE k[i] = IF i = 1 THEN seqs[i] ELSE k[i - 1] \o seqs[i]
      <3>1. CASE i = 1
        BY <1>1, <1>6, <2>1, <3>1 DEF IsSum
      <3>2. CASE i # 1
        <4>1. /\ i - 1 \in 1..N /\ i - 1 \in 0..N - 1 /\ i - 1 # 0 /\ (i - 1) + 1 = i /\ i - 1 \in 1..N - 1
          BY <1>1, <3>2
        <4>2. g[i - 1] = g[(i - 1) - 1] \o parts[i - 1]
          BY <2>1, <4>1 DEF IsSum
        <4>3. k[i] = g[i - 1] /\ k[i - 1] = g[(i - 1) - 1] /\ parts[i - 1] = seqs[i]
          BY <4>1
        <4> HIDE DEF k, parts
        <4> QED
          BY <3>2, <4>2, <4>3
      <3> QED
        BY <3>1, <3>2
    <2>3. IsFlat(k, N)
      <3>1. k = [i \in 1..N |-> k[i]]
        OBVIOUS
      <3> HIDE DEF k
      <3> QED
        BY <2>2, <3>1
    <2> HIDE DEF IsFlat, k
    <2> QED
      BY <1>3, <2>3
  <1>10. \E g : /\ IsSum(g, <<<<0, 0>>>>, tiles, N)
               /\ MapTileDef = [loaded |-> TRUE, resources |-> images, tiles |-> g[N],
                                ends |-> [i \in DOMAIN names |-> Len(g[i]) - 1]]
    <2> HIDE DEF f, tiles, images
    <2> QED
      BY <1>5, <1>8, Zenon
  <1>11. \E g : g[1] = named[1] /\ (\A i \in 2..N : g[i] = g[i - 1] \o named[i]) /\ Catalogue = g[N]
    <2> HIDE DEF h, N, seqs, named
    <2>1. \A i \in 1..N : h[i] = IF i = 1 THEN seqs[i] ELSE h[i - 1] \o seqs[i]
      BY <1>9
    <2>2. 1 \in 1..N /\ \A i \in 2..N : i \in 1..N /\ i # 1
      BY <1>1, <1>6
    <2>3. h[1] = named[1] /\ \A i \in 2..N : h[i] = h[i - 1] \o named[i]
      BY <1>2, <2>1, <2>2
    <2> QED
      BY <1>7, <2>3, Zenon
  <1>12. images = [i \in 1..N |-> GetImage(names[i])]
    BY <1>1
  <1> QED
    BY <1>1, <1>6, <1>10, <1>11, <1>12, Zenon

\* Looked up by its id, a tile of the catalogue has its image and its place.
LEMMA TileOfCatalogue ==
  ASSUME disk \in Disks, AssetsInits, MapTileDef.loaded, NEW id \in DOMAIN Catalogue
  PROVE  /\ id \in Nat \ {0}
         /\ <<TileEntity(MapTileDef, id).img, TileEntity(MapTileDef, id).tile>> = Catalogue[id]
  <1> DEFINE names == disk.tilesets
             N == Len(names)
             images == [i \in DOMAIN names |-> GetImage(names[i])]
             tiles == [i \in 1..N |-> TilesOf(images[i])]
             named == [i \in 1..N |-> [n \in DOMAIN tiles[i] |-> <<images[i], tiles[i][n]>>]]
             none == <<>>
             one == <<<<0, 0>>>>
             ends(f) == [i \in DOMAIN names |-> Len(f[i]) - 1]
             def == MapTileDef
  <1>1. disk.defined
    BY TileDefImages
  <1>2. N \in Nat /\ N # 0 /\ DOMAIN names = 1..N /\ images = [i \in 1..N |-> GetImage(names[i])]
    BY <1>1, CatalogueIsSum, Zenon
  <1>3. PICK f : IsSum(f, one, tiles, N) /\ def = [loaded |-> TRUE, resources |-> images, tiles |-> f[N], ends |-> ends(f)]
    BY <1>1, CatalogueIsSum, Zenon
  <1>4. PICK g : g[1] = named[1] /\ (\A i \in 2..N : g[i] = g[i - 1] \o named[i]) /\ Catalogue = g[N]
    BY <1>1, CatalogueIsSum, Zenon
  <1>5. Named(named, images, tiles, N)
    <2>1. ASSUME NEW i \in 1..N
          PROVE  /\ IsLog(tiles[i]) /\ IsLog(named[i]) /\ Len(named[i]) = Len(tiles[i])
                 /\ \A k \in 1..Len(tiles[i]) : named[i][k] = <<images[i], tiles[i][k]>>
      <3> DEFINE t == tiles[i]
                 m == [n \in DOMAIN t |-> <<images[i], t[n]>>]
      <3>1. t = TilesOf(GetImage(names[i])) /\ named[i] = m
        BY <1>2
      <3>2. IsLog(t)
        BY <3>1, TilesOfLog
      <3> HIDE DEF t, named
      <3>3. Len(t) \in Nat /\ DOMAIN t = 1..Len(t)
        BY <3>2, LogLen
      <3>4. m = [n \in 1..Len(t) |-> m[n]] /\ \A k \in 1..Len(t) : m[k] = <<images[i], t[k]>>
        BY <3>3
      <3> HIDE DEF m
      <3>5. IsLog(m) /\ Len(m) = Len(t)
        BY <3>3, <3>4, AsLog
      <3> QED
        BY <3>1, <3>2, <3>4, <3>5 DEF t
    <2> HIDE DEF images, tiles, named
    <2> QED
      BY <2>1 DEF Named
  <1>6. IsLog(none) /\ Len(none) = 0 /\ IsLog(one) /\ Len(one) = 1
    <2>1. none \in Seq({0}) /\ one \in Seq({<<0, 0>>})
      OBVIOUS
    <2> QED
      BY <2>1 DEF IsLog
  <1> DEFINE h == [i \in 0..N |-> IF i = 0 THEN none ELSE g[i]]
  <1> HIDE DEF N, images, tiles, named, none, one, def
  <1>7. IsSum(h, none, named, N)
    <2>1. ASSUME NEW i \in 0..N PROVE h[i] = IF i = 0 THEN none ELSE h[i - 1] \o named[i]
      <3>1. CASE i = 0
        BY <3>1
      <3>2. CASE i = 1
        <4>1. IsLog(named[1])
          BY <1>2, <1>5, <3>2 DEF Named
        <4>2. <<>> \o named[1] = named[1]
          BY <4>1, ConcatEmptySeq DEF IsLog
        <4>3. h[1] = g[1] /\ h[0] = none /\ i - 1 = 0
          BY <1>2, <3>2
        <4> HIDE DEF h
        <4>4. h[1] = h[0] \o named[1]
          BY <1>4, <4>2, <4>3 DEF none
        <4> QED
          BY <3>2, <4>3, <4>4
      <3>3. CASE i # 0 /\ i # 1
        <4>1. i \in 2..N /\ i - 1 \in 0..N /\ i - 1 # 0
          BY <1>2, <3>3
        <4> QED
          BY <1>4, <3>3, <4>1
      <3> QED
        BY <3>1, <3>2, <3>3
    <2>2. h = [i \in 0..N |-> h[i]]
      OBVIOUS
    <2> HIDE DEF h
    <2> QED
      BY <2>1, <2>2 DEF IsSum
  <1>8. h[N] = Catalogue
    BY <1>2, <1>4
  <1> HIDE DEF h
  <1>9. /\ IsLog(Catalogue) /\ IsLog(f[N]) /\ Len(f[N]) = Len(Catalogue) + 1
        /\ \A i \in 0..N : Len(f[i]) \in Nat
        /\ \A k \in 1..Len(Catalogue) :
             \E i \in 1..N : /\ k <= Len(f[i]) - 1 /\ (\A j \in 1..i - 1 : ~(k <= Len(f[j]) - 1))
                             /\ Catalogue[k] = <<images[i], f[N][k + 1]>>
    <2>1. Located(f, h, images, N)
      BY <1>2, <1>3, <1>5, <1>6, <1>7, TilesetOfTile, Zenon
    <2> QED
      BY <1>8, <2>1 DEF Located
  <1>10. Len(Catalogue) \in Nat /\ id \in 1..Len(Catalogue)
    BY <1>9, LogLen
  <1>11. PICK i \in 1..N : /\ id <= Len(f[i]) - 1 /\ (\A j \in 1..i - 1 : ~(id <= Len(f[j]) - 1))
                           /\ Catalogue[id] = <<images[i], f[N][id + 1]>>
    BY <1>9, <1>10
  <1>12. def.loaded /\ def.resources = images /\ def.tiles = f[N] /\ def.ends = [k \in 1..N |-> Len(f[k]) - 1]
    BY <1>2, <1>3
  <1>13. GetResourceIndexFromID(def, id) = i - 1
    <2> DEFINE found == {k \in DOMAIN def.ends : id <= def.ends[k]}
               Lowest(k) == \A j \in found : k <= j
               least == CHOOSE k \in found : Lowest(k)
    <2>1. \A k \in 1..N : k \in found <=> id <= Len(f[k]) - 1
      BY <1>12
    <2>2. found \in SUBSET (1..N)
      BY <1>12
    <2> HIDE DEF found
    <2>3. i \in found
      BY <1>11, <2>1
    <2>4. ASSUME NEW k \in found PROVE i <= k /\ k \in 1..N
      <3>1. k \in 1..N /\ ~(k \in 1..i - 1)
        BY <1>11, <2>1, <2>2
      <3> QED
        BY <1>2, <3>1
    <2>5. Lowest(i)
      BY <2>4
    <2>6. least \in found /\ Lowest(least)
      <3> HIDE DEF Lowest
      <3> QED
        BY <2>3, <2>5
    <2> HIDE DEF least
    <2>7. least = i
      BY <1>2, <2>3, <2>4, <2>6
    <2>8. GetResourceIndexFromID(def, id) = least - 1
      BY <1>12, <2>3 DEF GetResourceIndexFromID, found, least
    <2> QED
      BY <2>7, <2>8
  <1>14. GetResource(def, i - 1) = images[i]
    <2>1. (i - 1) + 1 = i /\ i \in DOMAIN images
      BY <1>2
    <2> QED
      BY <1>12, <2>1 DEF GetResource
  <1>15. GetTile(def, id) = f[N][id + 1]
    <2>1. id < Len(f[N])
      BY <1>9, <1>10
    <2> QED
      BY <1>12, <2>1 DEF GetTile
  <1>16. TileEntity(def, id).img = images[i] /\ TileEntity(def, id).tile = f[N][id + 1]
    BY <1>13, <1>14, <1>15 DEF TileEntity
  <1> QED
    BY <1>10, <1>11, <1>16 DEF def

\* In every state of the client: a loaded definition is that of the disk, and a
\* tile of the map is what the definition makes of its id.
TilesInv ==
    /\ disk \in Disks
    /\ tileDef.loaded =>
         /\ AssetsInits /\ tileDef = MapTileDef
         /\ \A e \in entities : e.id \in Nat \ {0} => e = TileEntity(tileDef, e.id)

LEMMA NextTiles == TilesInv /\ [Next]_vars => TilesInv'
  <1> SUFFICES ASSUME TilesInv, [Next]_vars PROVE TilesInv'
    OBVIOUS
  <1>1. CASE Start
    <2> DEFINE names == disk.map.prefabs
    <2>1. /\ disk \in Disks /\ disk' = disk /\ AssetsInits /\ tileDef' = MapTileDef
          /\ entities' = {TileEntity(MapTileDef, id) : id \in disk.map.tiles}
                           \cup {Instance(names[i], -i) : i \in {j \in DOMAIN names : HasPrefab(names[j])}}
      BY <1>1 DEF TilesInv, Start, InitializeWorld
    <2>2. DOMAIN names \subseteq Nat \ {0}
      BY <2>1, AssetsAssumption, LenProperties
    <2>3. ASSUME NEW e \in entities', e.id \in Nat \ {0} PROVE e = TileEntity(MapTileDef, e.id)
      <3>1. \A id : TileEntity(MapTileDef, id).id = id
        BY DEF TileEntity
      <3>2. \A i : Instance(names[i], -i).id = -i
        BY DEF Instance
      <3> QED
        BY <2>1, <2>2, <2>3, <3>1, <3>2
    <2> QED
      BY <2>1, <2>3, SameTileDef DEF TilesInv, AssetsInits
  <1>2. ASSUME NEW held, NEW text, NEW closes, EditFrame(held, text, closes)
        PROVE  TilesInv'
    <2>1. PICK name : EditorAdds(name)
      BY <1>2 DEF EditFrame
    <2>2. disk' = disk /\ tileDef' = tileDef /\ \A e \in entities' : e \in entities \/ e = Instance(name, 0)
      BY <1>2, <2>1 DEF EditFrame, Frame, EditorAdds
    <2>3. Instance(name, 0).id = 0
      BY DEF Instance
    <2> QED
      BY <2>2, <2>3, SameTileDef DEF TilesInv, AssetsInits
  <1>3. CASE UNCHANGED <<disk, tileDef, entities>>
    BY <1>3, SameTileDef DEF TilesInv, AssetsInits
  <1>4. ASSUME NEW held, NEW text, NEW closes, PlayFrame(held, text, closes)
        PROVE  TilesInv'
    BY <1>3, <1>4 DEF PlayFrame, Frame
  <1>5. CASE StartHangs \/ EditHangs \/ UNCHANGED vars
    BY <1>3, <1>5 DEF StartHangs, EditHangs, vars, engineVars, assetsVars
  <1>6. CASE Shutdown \/ ShutdownUnwritten \/ Dies
    BY <1>6 DEF Shutdown, ShutdownUnwritten, Dies, Exit, TilesInv, NoTileDef
  <1> QED
    BY <1>1, <1>2, <1>4, <1>5, <1>6 DEF Next

\* A tile of the map with an id of the catalogue, the plain list of all tiles
\* of all tilesets, shows the image and the place that the catalogue has there,
\* for any tilesets, the ones without tiles or without their file included
\* (TilesetDef::LoadFromFile, GetResourceIndexFromID, GetTile).
THEOREM TilesAreCatalogued == Spec => []TilesMatchCatalogue
  <1>1. Init => TilesInv
    BY DEF Init, TilesInv, NoTileDef
  <1>2. TilesInv => TilesMatchCatalogue
    <2> SUFFICES ASSUME TilesInv, tileDef.loaded, NEW e \in entities, e.id \in DOMAIN Catalogue
                 PROVE  <<e.img, e.tile>> = Catalogue[e.id]
      BY DEF TilesMatchCatalogue
    <2>1. disk \in Disks /\ AssetsInits /\ tileDef = MapTileDef
      BY DEF TilesInv
    <2>2. /\ e.id \in Nat \ {0}
          /\ <<TileEntity(MapTileDef, e.id).img, TileEntity(MapTileDef, e.id).tile>> = Catalogue[e.id]
      BY <2>1, TileOfCatalogue
    <2>3. e = TileEntity(MapTileDef, e.id)
      BY <2>1, <2>2 DEF TilesInv
    <2> QED
      BY <2>2, <2>3
  <1> QED
    BY <1>1, <1>2, NextTiles, PTL DEF Spec
=============================================================================
