---------------------------- MODULE VeinTcpProofs ----------------------------
(***************************************************************************)
(* Proofs about the framing and the peers of VeinTcp: a length is read as  *)
(* it was written, the reader takes exactly the messages out of a stream   *)
(* however it is cut, and the stream implements the channel of messages.   *)
(***************************************************************************)
EXTENDS VeinTcp, SequenceTheorems, WellFoundedInduction, TLAPS

-----------------------------------------------------------------------------
(* Induction and recursion, with sets and functions as parameters          *)

\* A set that holds a number whenever it holds the smaller ones holds them all.
LEMMA StrongInduction ==
  ASSUME NEW X,
         \A n \in Nat : (\A i \in Nat : i < n => i \in X) => n \in X
  PROVE  Nat \subseteq X
<1> DEFINE T == Nat \ X
<1>1. SUFFICES ASSUME T # {} PROVE FALSE
  OBVIOUS
<1>2. T \subseteq Nat
  OBVIOUS
<1>3. PICK n \in T : \A i \in T : ~(<<i, n>> \in OpToRel(<, Nat))
  <2> HIDE DEF T
  <2>1. QED BY <1>1, <1>2, NatLessThanWellFounded, WFMin
<1>4. \A i \in T : ~(i < n)
  BY <1>2, <1>3 DEF OpToRel
<1>5. QED BY <1>3, <1>4

\* The same with a successor.
LEMMA Induction ==
  ASSUME NEW X, 0 \in X, \A n \in Nat : n \in X => n + 1 \in X
  PROVE  Nat \subseteq X
<1> SUFFICES ASSUME NEW n \in Nat, \A i \in Nat : i < n => i \in X PROVE n \in X
  BY StrongInduction
<1>1. CASE n = 0
  BY <1>1
<1>2. CASE n # 0
  <2>1. n - 1 \in Nat /\ n - 1 < n /\ n = (n - 1) + 1
    BY <1>2
  <2>2. n - 1 \in X
    BY <2>1
  <2>3. QED BY <2>1, <2>2
<1>3. QED BY <1>1, <1>2

\* Step maps functions to functions, and Step[g] at d depends only on g where
\* the measure is smaller.
Shrinks(D, R, size, Step) ==
  /\ R # {} /\ size \in [D -> Nat]
  /\ Step \in [[D -> R] -> [D -> R]]
  /\ \A d \in D : \A g, h \in [D -> R] :
       (\A e \in D : size[e] < size[d] => g[e] = h[e]) => Step[g][d] = Step[h][d]

\* Functions that solve h = Step[h] wherever the measure is below n.
Solved(D, R, size, Step, n) ==
  {h \in [D -> R] : \A d \in D : size[d] < n => h[d] = Step[h][d]}

\* A recursive definition whose calls make the measure smaller has a solution.
LEMMA Recursion ==
  ASSUME NEW D, NEW R, NEW size, NEW Step, Shrinks(D, R, size, Step)
  PROVE  \E f \in [D -> R] : f = Step[f]
<1>0. PICK r0 \in R : TRUE
  BY DEF Shrinks
<1>a. size \in [D -> Nat] /\ Step \in [[D -> R] -> [D -> R]]
  BY DEF Shrinks
<1> USE <1>a
<1> DEFINE G(n) == Solved(D, R, size, Step, n)
<1>1. ASSUME NEW n \in Nat, NEW k \in Nat, n <= k, NEW h \in G(k) PROVE h \in G(n)
  BY <1>1 DEF Solved
<1>2. \A n \in Nat : G(n) # {}
  <2> DEFINE X == {n \in Nat : G(n) # {}}
  <2>1. 0 \in X
    <3>1. [d \in D |-> r0] \in G(0)
      BY DEF Solved
    <3>2. QED BY <3>1
  <2>2. ASSUME NEW n \in Nat, n \in X PROVE n + 1 \in X
    <3>1. PICK h \in G(n) : TRUE
      BY <2>2
    <3>2. h \in [D -> R] /\ Step[h] \in [D -> R]
      BY <3>1 DEF Solved
    <3>3. ASSUME NEW d \in D, size[d] < n + 1 PROVE Step[h][d] = Step[Step[h]][d]
      <4>1. \A e \in D : size[e] < size[d] => h[e] = Step[h][e]
        BY <3>1, <3>3 DEF Solved
      <4>2. QED BY <3>2, <4>1 DEF Shrinks
    <3>4. Step[h] \in G(n + 1)
      BY <3>2, <3>3 DEF Solved
    <3>5. QED BY <3>4
  <2>3. Nat \subseteq X
    <3> HIDE DEF X
    <3>1. QED BY <2>1, <2>2, Induction
  <2>4. QED BY <2>3
<1>3. \A n \in Nat : \A g, h \in G(n) : \A d \in D : size[d] < n => g[d] = h[d]
  <2> DEFINE X == {n \in Nat : \A g, h \in G(n) : \A d \in D : size[d] < n => g[d] = h[d]}
  <2>1. 0 \in X
    OBVIOUS
  <2>2. ASSUME NEW n \in Nat, n \in X PROVE n + 1 \in X
    <3> SUFFICES ASSUME NEW g \in G(n + 1), NEW h \in G(n + 1), NEW d \in D, size[d] < n + 1
                 PROVE g[d] = h[d]
      OBVIOUS
    <3>1. g \in G(n) /\ h \in G(n)
      BY <1>1
    <3>2. g \in [D -> R] /\ h \in [D -> R] /\ g[d] = Step[g][d] /\ h[d] = Step[h][d]
      BY DEF Solved
    <3>3. \A e \in D : size[e] < size[d] => g[e] = h[e]
      BY <2>2, <3>1
    <3>4. QED BY <3>2, <3>3 DEF Shrinks
  <2>3. Nat \subseteq X
    <3> HIDE DEF X
    <3>1. QED BY <2>1, <2>2, Induction
  <2>4. QED BY <2>3
<1> DEFINE at(d) == CHOOSE h : h \in G(size[d] + 1)
           f == [d \in D |-> at(d)[d]]
<1>4. \A d \in D : at(d) \in G(size[d] + 1)
  <2> SUFFICES ASSUME NEW d \in D PROVE at(d) \in G(size[d] + 1)
    OBVIOUS
  <2>1. size[d] + 1 \in Nat
    OBVIOUS
  <2>2. \E h : h \in G(size[d] + 1)
    BY <1>2, <2>1
  <2> HIDE DEF G
  <2>3. QED BY <2>2
<1>5. \A d \in D : at(d) \in [D -> R] /\ at(d)[d] = Step[at(d)][d]
  <2> HIDE DEF at
  <2>1. QED BY <1>4 DEF Solved
<1>6. f \in [D -> R]
  <2> HIDE DEF at
  <2>1. QED BY <1>5
<1>7. ASSUME NEW d \in D PROVE f[d] = Step[f][d]
  <2>1. ASSUME NEW e \in D, size[e] < size[d] PROVE f[e] = at(d)[e]
    <3>1. f[e] = at(e)[e]
      OBVIOUS
    <3>2. at(d) \in G(size[e] + 1) /\ at(e) \in G(size[e] + 1)
      <4> HIDE DEF at, G
      <4>1. size[e] + 1 \in Nat /\ size[d] + 1 \in Nat /\ size[e] + 1 <= size[d] + 1
        BY <2>1
      <4>2. QED BY <1>1, <1>4, <4>1
    <3>3. at(e)[e] = at(d)[e]
      <4> HIDE DEF at, G
      <4>1. size[e] + 1 \in Nat /\ size[e] < size[e] + 1
        OBVIOUS
      <4>2. QED BY <1>3, <3>2, <4>1
    <3>4. QED BY <3>1, <3>3
  <2>2. Step[f][d] = Step[at(d)][d]
    <3> HIDE DEF at, f
    <3>1. QED BY <1>5, <1>6, <2>1 DEF Shrinks
  <2>3. QED BY <1>5, <2>2
<1>8. f = Step[f]
  <2>1. Step[f] \in [D -> R]
    <3> HIDE DEF f
    <3>1. QED BY <1>6
  <2>2. \A d \in D : f[d] = Step[f][d]
    BY <1>7
  <2> HIDE DEF f
  <2>3. QED BY <1>6, <2>1, <2>2
<1>9. QED
  <2> HIDE DEF f
  <2>1. QED BY <1>6, <1>8

-----------------------------------------------------------------------------
(* Lengths: what the writer puts in front of a block the reader reads      *)

Byte == 0..(Base - 1)

LEMMA LimitUnfolds == Limit = [k \in Nat |-> IF k = 0 THEN 1 ELSE Base * Limit[k - 1]]
<1> DEFINE size == [k \in Nat |-> k]
           Step == [g \in [Nat -> Int] |-> [k \in Nat |-> IF k = 0 THEN 1 ELSE Base * g[k - 1]]]
<1>1. Step \in [[Nat -> Int] -> [Nat -> Int]]
  BY HeaderAssumption
<1>2. Shrinks(Nat, Int, size, Step)
  BY <1>1 DEF Shrinks
<1>3. \E f \in [Nat -> Int] : f = Step[f]
  <2> HIDE DEF size, Step
  <2>1. QED BY <1>2, Recursion
<1>4. \E f : f = [k \in Nat |-> IF k = 0 THEN 1 ELSE Base * f[k - 1]]
  BY <1>3
<1>5. QED BY <1>4, Zenon DEF Limit

LEMMA DigitsUnfolds ==
  Digits = [k \in Nat |-> [n \in Nat |-> IF k = 0 THEN <<>>
                                         ELSE Append(Digits[k - 1][n \div Base], n % Base)]]
<1> DEFINE size == [k \in Nat |-> k]
           R == [Nat -> Seq(Byte)]
           Step == [g \in [Nat -> R] |-> [k \in Nat |-> [n \in Nat |->
                      IF k = 0 THEN <<>> ELSE Append(g[k - 1][n \div Base], n % Base)]]]
<1>0. \A n \in Nat : n \div Base \in Nat /\ n % Base \in Byte
  BY HeaderAssumption DEF Byte
<1>1. Step \in [[Nat -> R] -> [Nat -> R]]
  <2> SUFFICES ASSUME NEW g \in [Nat -> R], NEW k \in Nat, NEW n \in Nat
               PROVE (IF k = 0 THEN <<>> ELSE Append(g[k - 1][n \div Base], n % Base)) \in Seq(Byte)
    OBVIOUS
  <2>1. CASE k # 0
    <3>1. k - 1 \in Nat
      BY <2>1
    <3>2. g[k - 1][n \div Base] \in Seq(Byte)
      BY <1>0, <3>1
    <3>3. QED BY <1>0, <2>1, <3>2
  <2>2. QED BY <2>1
<1>01. [n \in Nat |-> <<>>] \in R
  OBVIOUS
<1>2. Shrinks(Nat, R, size, Step)
  <2> SUFFICES ASSUME NEW d \in Nat, NEW g \in [Nat -> R], NEW h \in [Nat -> R],
                      \A e \in Nat : size[e] < size[d] => g[e] = h[e]
               PROVE  Step[g][d] = Step[h][d]
    BY <1>1, <1>01 DEF Shrinks
  <2>1. d # 0 => g[d - 1] = h[d - 1]
    OBVIOUS
  <2>2. QED BY <2>1
<1>3. \E f \in [Nat -> R] : f = Step[f]
  <2> HIDE DEF size, Step, R
  <2>1. QED BY <1>2, Recursion
<1>4. \E f : f = [k \in Nat |-> [n \in Nat |-> IF k = 0 THEN <<>>
                                               ELSE Append(f[k - 1][n \div Base], n % Base)]]
  BY <1>3
<1>5. QED BY <1>4, Zenon DEF Digits

LEMMA LengthUnfolds ==
  Length = [b \in Seq(Byte) |-> IF b = <<>> THEN 0
                                ELSE Base * Length[SubSeq(b, 1, Len(b) - 1)] + b[Len(b)]]
<1> DEFINE D == Seq(Byte)
           size == [b \in D |-> Len(b)]
           Step == [g \in [D -> Nat] |-> [b \in D |->
                      IF b = <<>> THEN 0 ELSE Base * g[SubSeq(b, 1, Len(b) - 1)] + b[Len(b)]]]
<1>0. ASSUME NEW b \in D, b # <<>>
      PROVE  /\ SubSeq(b, 1, Len(b) - 1) \in D /\ Len(SubSeq(b, 1, Len(b) - 1)) < Len(b)
             /\ b[Len(b)] \in Nat
  BY <1>0, HeaderAssumption DEF Byte
<1>1. Step \in [[D -> Nat] -> [D -> Nat]]
  <2> SUFFICES ASSUME NEW g \in [D -> Nat], NEW b \in D, b # <<>>
               PROVE Base * g[SubSeq(b, 1, Len(b) - 1)] + b[Len(b)] \in Nat
    OBVIOUS
  <2>1. g[SubSeq(b, 1, Len(b) - 1)] \in Nat /\ b[Len(b)] \in Nat
    BY <1>0
  <2>2. QED BY <2>1, HeaderAssumption
<1>01. size \in [D -> Nat]
  OBVIOUS
<1>2. Shrinks(D, Nat, size, Step)
  <2> SUFFICES ASSUME NEW d \in D, NEW g \in [D -> Nat], NEW h \in [D -> Nat],
                      \A e \in D : size[e] < size[d] => g[e] = h[e]
               PROVE  Step[g][d] = Step[h][d]
    <3> HIDE DEF size, Step, D
    <3>1. QED BY <1>1, <1>01 DEF Shrinks
  <2>1. d # <<>> => g[SubSeq(d, 1, Len(d) - 1)] = h[SubSeq(d, 1, Len(d) - 1)]
    BY <1>0
  <2>2. QED BY <2>1
<1>3. \E f \in [D -> Nat] : f = Step[f]
  <2> HIDE DEF size, Step, D
  <2>1. QED BY <1>2, Recursion
<1>4. \E f : f = [b \in Seq(Byte) |-> IF b = <<>> THEN 0
                   ELSE Base * f[SubSeq(b, 1, Len(b) - 1)] + b[Len(b)]]
  BY <1>3
<1>5. QED BY <1>4, Zenon DEF Length, Byte

\* Dividing by Base takes the last digit off.
LEMMA Division ==
  ASSUME NEW n \in Nat, NEW l \in Nat
  PROVE  /\ n \div Base \in Nat /\ n % Base \in Byte
         /\ n = Base * (n \div Base) + (n % Base)
         /\ n < Base * l => n \div Base < l
<1>1. n \div Base \in Nat /\ n % Base \in Byte
  BY HeaderAssumption DEF Byte
<1>2. n = Base * (n \div Base) + (n % Base)
  BY HeaderAssumption
<1>3. ASSUME n < Base * l, ~(n \div Base < l) PROVE FALSE
  <2>1. PICK q \in Nat : q = n \div Base
    BY <1>1
  <2>2. Base * q <= n
    BY <1>1, <1>2, <2>1, HeaderAssumption DEF Byte
  <2>3. l <= q
    BY <1>3, <2>1
  <2>4. Base * l <= Base * q
    BY <2>3, HeaderAssumption
  <2>5. Base * l \in Nat /\ Base * q \in Nat
    BY HeaderAssumption
  <2>6. QED BY <1>3, <2>2, <2>4, <2>5
<1>4. QED BY <1>1, <1>2, <1>3

LEMMA LengthNat == \A b \in Seq(Byte) : Length[b] \in Nat
<1> DEFINE X == {n \in Nat : \A b \in Seq(Byte) : Len(b) = n => Length[b] \in Nat}
<1>1. ASSUME NEW n \in Nat, \A i \in Nat : i < n => i \in X PROVE n \in X
  <2> SUFFICES ASSUME NEW b \in Seq(Byte), Len(b) = n PROVE Length[b] \in Nat
    OBVIOUS
  <2>1. CASE b = <<>>
    BY <2>1, LengthUnfolds
  <2>2. CASE b # <<>>
    <3>1. /\ SubSeq(b, 1, Len(b) - 1) \in Seq(Byte)
          /\ Len(SubSeq(b, 1, Len(b) - 1)) = n - 1 /\ n - 1 \in Nat
          /\ b[Len(b)] \in Nat
      BY <2>2, HeaderAssumption DEF Byte
    <3>2. n - 1 \in X
      BY <1>1, <3>1
    <3>5. Length[SubSeq(b, 1, Len(b) - 1)] \in Nat
      BY <3>1, <3>2, Zenon
    <3>3. Length[b] = Base * Length[SubSeq(b, 1, Len(b) - 1)] + b[Len(b)]
      BY <2>2, LengthUnfolds
    <3>4. QED BY <3>1, <3>3, <3>5, HeaderAssumption
  <2>3. QED BY <2>1, <2>2
<1>2. Nat \subseteq X
  <2> HIDE DEF X
  <2>1. QED BY <1>1, StrongInduction
<1>3. QED BY <1>2

\* One more byte at the end of a length.
LEMMA LengthAppend ==
  ASSUME NEW b \in Seq(Byte), NEW d \in Byte
  PROVE  Length[Append(b, d)] = Base * Length[b] + d
<1>1. /\ Append(b, d) \in Seq(Byte) /\ Append(b, d) # <<>>
      /\ Append(b, d)[Len(Append(b, d))] = d
  BY AppendProperties
<1>2. SubSeq(Append(b, d), 1, Len(Append(b, d)) - 1) = b
  OBVIOUS
<1>3. QED BY <1>1, <1>2, LengthUnfolds

LEMMA LimitNat == \A k \in Nat : Limit[k] \in Nat
<1> DEFINE X == {k \in Nat : Limit[k] \in Nat}
<1>1. 0 \in X
  BY LimitUnfolds
<1>2. ASSUME NEW k \in Nat, k \in X PROVE k + 1 \in X
  <2>1. Limit[k + 1] = Base * Limit[k]
    BY LimitUnfolds
  <2>2. QED BY <1>2, <2>1, HeaderAssumption
<1>3. Nat \subseteq X
  <2> HIDE DEF X
  <2>1. QED BY <1>1, <1>2, Induction
<1>4. QED BY <1>3

\* The reader of a header gets the number that was written.
LEMMA DigitsRead ==
  \A k \in Nat : \A n \in Nat :
    /\ Digits[k][n] \in Seq(Byte) /\ Len(Digits[k][n]) = k
    /\ n < Limit[k] => Length[Digits[k][n]] = n
<1> DEFINE P(k) == \A n \in Nat :
             /\ Digits[k][n] \in Seq(Byte) /\ Len(Digits[k][n]) = k
             /\ n < Limit[k] => Length[Digits[k][n]] = n
           X == {k \in Nat : P(k)}
<1>1. P(0)
  <2> SUFFICES ASSUME NEW n \in Nat
               PROVE  /\ Digits[0][n] = <<>>
                      /\ n < Limit[0] => Length[<<>>] = n
    BY EmptySeq
  <2>1. Digits[0][n] = <<>>
    BY DigitsUnfolds
  <2>2. Limit[0] = 1
    BY LimitUnfolds
  <2>3. Length[<<>>] = 0
    BY LengthUnfolds
  <2>4. QED BY <2>1, <2>2, <2>3
<1>2. ASSUME NEW k \in Nat, P(k) PROVE P(k + 1)
  <2> SUFFICES ASSUME NEW n \in Nat
               PROVE  /\ Digits[k + 1][n] \in Seq(Byte) /\ Len(Digits[k + 1][n]) = k + 1
                      /\ n < Limit[k + 1] => Length[Digits[k + 1][n]] = n
    OBVIOUS
  <2>1. Digits[k + 1][n] = Append(Digits[k][n \div Base], n % Base)
    <3>1. k + 1 \in Nat /\ k + 1 # 0 /\ (k + 1) - 1 = k
      OBVIOUS
    <3>2. \A j \in Nat :
            Digits[j] = [i \in Nat |-> IF j = 0 THEN <<>>
                                       ELSE Append(Digits[j - 1][i \div Base], i % Base)]
      BY DigitsUnfolds, Zenon
    <3>3. Digits[k + 1] = [i \in Nat |-> IF k + 1 = 0 THEN <<>>
                             ELSE Append(Digits[(k + 1) - 1][i \div Base], i % Base)]
      BY <3>1, <3>2, Zenon
    <3>4. Digits[k + 1] = [i \in Nat |-> Append(Digits[k][i \div Base], i % Base)]
      BY <3>1, <3>3
    <3>5. QED BY <3>4
  <2>2. Limit[k + 1] = Base * Limit[k] /\ Limit[k] \in Nat
    BY LimitUnfolds, LimitNat
  <2>3. /\ n \div Base \in Nat /\ n % Base \in Byte
        /\ n = Base * (n \div Base) + (n % Base)
        /\ n < Limit[k + 1] => n \div Base < Limit[k]
    BY <2>2, Division
  <2>4. /\ Digits[k][n \div Base] \in Seq(Byte) /\ Len(Digits[k][n \div Base]) = k
        /\ n < Limit[k + 1] => Length[Digits[k][n \div Base]] = n \div Base
    BY <1>2, <2>3
  <2>5. Length[Digits[k + 1][n]] = Base * Length[Digits[k][n \div Base]] + (n % Base)
    BY <2>1, <2>3, <2>4, LengthAppend
  <2>6. n < Limit[k + 1] => Length[Digits[k + 1][n]] = n
    BY <2>3, <2>4, <2>5
  <2>7. QED BY <2>1, <2>3, <2>4, <2>6, AppendProperties
<1>3. Nat \subseteq X
  <2>1. 0 \in X
    BY <1>1
  <2>2. \A k \in Nat : k \in X => k + 1 \in X
    BY <1>2
  <2> HIDE DEF X
  <2>3. QED BY <2>1, <2>2, Induction
<1>4. QED BY <1>3

-----------------------------------------------------------------------------
(* The reader                                                              *)

\* What readArray returns is made of bytes; an array makes the rest shorter.
LEMMA ReadArrayTypes ==
  ASSUME NEW b \in Seq(Byte)
  PROVE  /\ readArray(b).rest \in Seq(Byte)
         /\ readArray(b).array # NullArray =>
              readArray(b).array \in Seq(Byte) /\ Len(readArray(b).rest) < Len(b)
<1>1. HeaderLen \in Nat \ {0} /\ Len(b) \in Nat
  BY HeaderAssumption
<1>2. CASE ~Complete(b)
  BY <1>2 DEF readArray
<1>3. ASSUME Complete(b) PROVE SubSeq(b, 1, HeaderLen) \in Seq(Byte)
  BY <1>1, <1>3 DEF Complete
<1>4. ASSUME Complete(b) PROVE LengthOf(b) \in Nat
  BY <1>3, <1>4, LengthNat DEF LengthOf
<1>5. CASE Complete(b) /\ LengthOf(b) = Mark
  <2>1. readArray(b) = [array |-> NullArray, rest |-> SubSeq(b, HeaderLen + 1, Len(b))]
    BY <1>5 DEF readArray
  <2>2. SubSeq(b, HeaderLen + 1, Len(b)) \in Seq(Byte)
    BY <1>1
  <2>3. QED BY <2>1, <2>2
<1>6. CASE Complete(b) /\ LengthOf(b) # Mark
  <2> DEFINE n == HeaderLen + LengthOf(b)
  <2>1. readArray(b) = [array |-> SubSeq(b, HeaderLen + 1, n), rest |-> SubSeq(b, n + 1, Len(b))]
    BY <1>6 DEF readArray
  <2>2. n \in Nat /\ n <= Len(b) /\ n > 0
    BY <1>1, <1>4, <1>6 DEF Complete
  <2> HIDE DEF n
  <2>3. SubSeq(b, HeaderLen + 1, n) \in Seq(Byte)
    BY <1>1, <2>2
  <2>4. SubSeq(b, n + 1, Len(b)) \in Seq(Byte) /\ Len(SubSeq(b, n + 1, Len(b))) < Len(b)
    <3>1. \A i \in (n + 1) .. Len(b) : b[i] \in Byte
      BY <2>2
    <3>2. QED BY <1>1, <2>2, <3>1, SubSeqProperties
  <2>5. QED BY <2>1, <2>3, <2>4
<1>7. QED BY <1>2, <1>5, <1>6

LEMMA ReadLoopUnfolds ==
  readLoop = [b \in Seq(Byte) |->
    IF readArray(b).array = NullArray THEN [arrays |-> <<>>, rest |-> readArray(b).rest]
    ELSE [arrays |-> <<readArray(b).array>> \o readLoop[readArray(b).rest].arrays,
          rest |-> readLoop[readArray(b).rest].rest]]
<1> DEFINE D == Seq(Byte)
           size == [b \in D |-> Len(b)]
           R == [arrays : Seq(Seq(Byte)), rest : Seq(Byte)]
           E(g, b) == IF readArray(b).array = NullArray
                      THEN [arrays |-> <<>>, rest |-> readArray(b).rest]
                      ELSE [arrays |-> <<readArray(b).array>> \o g[readArray(b).rest].arrays,
                            rest |-> g[readArray(b).rest].rest]
           Step == [g \in [D -> R] |-> [b \in D |-> E(g, b)]]
<1>1. ASSUME NEW g \in [D -> R], NEW b \in D PROVE E(g, b) \in R
  <2>1. CASE readArray(b).array = NullArray
    BY <2>1, ReadArrayTypes
  <2>2. CASE readArray(b).array # NullArray
    <3>1. g[readArray(b).rest] \in R /\ readArray(b).array \in Seq(Byte)
      BY <2>2, ReadArrayTypes
    <3>2. <<readArray(b).array>> \in Seq(Seq(Byte))
      BY <3>1
    <3>3. <<readArray(b).array>> \o g[readArray(b).rest].arrays \in Seq(Seq(Byte))
      BY <3>1, <3>2, ConcatProperties
    <3>4. QED BY <2>2, <3>1, <3>3
  <2>3. QED BY <2>1, <2>2
<1>2. ASSUME NEW d \in D, NEW g \in [D -> R], NEW h \in [D -> R],
             \A e \in D : size[e] < size[d] => g[e] = h[e]
      PROVE  E(g, d) = E(h, d)
  <2>1. readArray(d).array # NullArray => g[readArray(d).rest] = h[readArray(d).rest]
    BY <1>2, ReadArrayTypes
  <2>2. QED BY <2>1
<1>3. size \in [D -> Nat]
  OBVIOUS
<1>4. [arrays |-> <<>>, rest |-> <<>>] \in R
  OBVIOUS
<1>5. Shrinks(D, R, size, Step)
  <2> HIDE DEF D, R, size, E
  <2>1. QED BY <1>1, <1>2, <1>3, <1>4 DEF Shrinks
<1>6. \E f \in [D -> R] : f = Step[f]
  <2> HIDE DEF D, R, size, Step
  <2>1. QED BY <1>5, Recursion
<1>7. \E f : f = [b \in D |-> E(f, b)]
  <2> HIDE DEF D, R, size, E
  <2>1. QED BY <1>6
<1>8. QED
  BY <1>7, Zenon DEF readLoop, Byte

LEMMA BlockTypes ==
  ASSUME NEW m \in Messages
  PROVE  /\ m \in Seq(Byte) /\ Len(m) \in Nat /\ Len(m) # Mark /\ m # NullArray
         /\ Header(Len(m)) \in Seq(Byte) /\ Len(Header(Len(m))) = HeaderLen
         /\ Length[Header(Len(m))] = Len(m)
         /\ Block(m) \in Seq(Byte) /\ Len(Block(m)) = HeaderLen + Len(m)
<1>1. m \in Seq(Byte) /\ Len(m) \in Nat /\ Len(m) < Mark /\ m # NullArray
  BY HeaderAssumption DEF Byte
<1>2. HeaderLen \in Nat /\ Limit[HeaderLen] \in Nat
  BY HeaderAssumption, LimitNat
<1>3. Len(m) # Mark /\ Len(m) < Limit[HeaderLen]
  BY <1>1, <1>2 DEF Mark
<1>4. /\ Header(Len(m)) \in Seq(Byte) /\ Len(Header(Len(m))) = HeaderLen
      /\ Length[Header(Len(m))] = Len(m)
  BY <1>1, <1>2, <1>3, DigitsRead DEF Header
<1>5. Block(m) \in Seq(Byte) /\ Len(Block(m)) = HeaderLen + Len(m)
  BY <1>1, <1>4, ConcatProperties DEF Block
<1>6. QED BY <1>1, <1>3, <1>4, <1>5

\* A beginning of x \o w.
LEMMA TakeConcat ==
  ASSUME NEW S, NEW x \in Seq(S), NEW w \in Seq(S)
  PROVE  /\ SubSeq(x \o w, 1, Len(x)) = x
         /\ SubSeq(x \o w, Len(x) + 1, Len(x) + Len(w)) = w
<1>1. x \o w \in Seq(S) /\ Len(x \o w) = Len(x) + Len(w)
  BY ConcatProperties
<1>2. Len(x) \in Nat /\ Len(w) \in Nat
  OBVIOUS
<1>3. SubSeq(x \o w, 1, Len(x)) = x
  OBVIOUS
<1>4. SubSeq(x \o w, Len(x) + 1, Len(x) + Len(w)) = w
  <2>1. \A i \in (Len(x) + 1) .. (Len(x) + Len(w)) : (x \o w)[i] \in S
    BY <1>1, <1>2
  <2> DEFINE v == SubSeq(x \o w, Len(x) + 1, Len(x) + Len(w))
  <2>2. v \in Seq(S) /\ Len(v) = Len(w)
        /\ \A i \in 1 .. Len(w) : v[i] = (x \o w)[Len(x) + i]
    BY <1>2, <2>1, SubSeqProperties
  <2>3. \A i \in 1 .. Len(w) : (x \o w)[Len(x) + i] = w[i]
    BY <1>2, ConcatProperties
  <2> HIDE DEF v
  <2>4. v = w
    BY <2>2, <2>3, SeqEqual
  <2>5. QED BY <2>4 DEF v
<1>5. QED BY <1>3, <1>4

LEMMA Associative ==
  ASSUME NEW S, NEW s \in Seq(S), NEW t \in Seq(S), NEW u \in Seq(S)
  PROVE  (s \o t) \o u = s \o (t \o u)
BY ConcatAssociative

Regroups(s, t, u) == (s \o t) \o u = s \o (t \o u)

LEMMA Regrouping ==
  ASSUME NEW S, NEW s \in Seq(S), NEW t \in Seq(S), NEW u \in Seq(S)
  PROVE  Regroups(s, t, u)
BY Associative DEF Regroups

\* Two ways to cut the same sequence: x is a beginning of u ...
LEMMA ShortCut ==
  ASSUME NEW S, NEW x \in Seq(S), NEW w \in Seq(S), NEW u \in Seq(S), NEW s \in Seq(S),
         x \o w = u \o s, Len(x) < Len(u)
  PROVE  x = SubSeq(u, 1, Len(x))
<1>1. Len(x) \in Nat /\ Len(u) \in Nat
  OBVIOUS
<1>2. CASE Len(x) = 0
  <2>1. x = <<>>
    BY <1>2
  <2>2. SubSeq(u, 1, Len(x)) = <<>>
    BY <1>2, SubSeqEmpty
  <2>3. QED BY <2>1, <2>2
<1>3. CASE Len(x) # 0
  <2>1. SubSeq(u \o s, 1, Len(x)) = SubSeq(u, 1, Len(x))
    <3>1. 1 \in 1 .. Len(u) /\ Len(x) \in 1 .. Len(u)
      BY <1>1, <1>3
    <3>2. QED BY <3>1, SubSeqOfConcat1
  <2>2. QED BY <2>1, TakeConcat
<1>4. QED BY <1>2, <1>3

\* ... or u is one of x, and y is what x has more.
Longer(S, x, w, u, s) == \E y \in Seq(S) : x = u \o y /\ y \o w = s

LEMMA LongCut ==
  ASSUME NEW S, NEW x \in Seq(S), NEW w \in Seq(S), NEW u \in Seq(S), NEW s \in Seq(S),
         x \o w = u \o s, Len(u) <= Len(x)
  PROVE  Longer(S, x, w, u, s)
<1>1. Len(x) \in Nat /\ Len(u) \in Nat
  OBVIOUS
<1>2. PICK y \in Seq(S) : y = SubSeq(x, Len(u) + 1, Len(x))
  <2>1. SubSeq(x, Len(u) + 1, Len(x)) \in Seq(S)
    BY <1>1
  <2>2. QED BY <2>1
<1>3. SubSeq(x, 1, Len(u)) = u
  <2>1. CASE Len(u) = 0
    BY <2>1, SubSeqEmpty
  <2>2. CASE Len(u) # 0
    <3>1. 1 \in 1 .. Len(x) /\ Len(u) \in 1 .. Len(x)
      BY <1>1, <2>2
    <3>2. SubSeq(x \o w, 1, Len(u)) = SubSeq(x, 1, Len(u))
      BY <3>1, SubSeqOfConcat1
    <3>3. QED BY <3>2, TakeConcat
  <2>3. QED BY <2>1, <2>2
<1>4. x = u \o y
  <2>1. 1 \in 1 .. Len(x) + 1 /\ Len(u) \in (1 - 1) .. Len(x) /\ Len(x) \in Len(u) .. Len(x)
    BY <1>1
  <2>2. SubSeq(x, 1, Len(u)) \o SubSeq(x, Len(u) + 1, Len(x)) = SubSeq(x, 1, Len(x))
    BY <2>1, ConcatAdjacentSubSeq
  <2>3. QED BY <1>2, <1>3, <2>2, SubSeqFull
<1>5. y \o w = s
  <2>1. (u \o y) \o w = u \o (y \o w)
    BY Associative
  <2>2. u \o (y \o w) = u \o s
    BY <1>4, <2>1, Zenon
  <2>3. y \o w \in Seq(S)
    BY ConcatProperties
  <2>4. QED BY <2>2, <2>3, ConcatSimplifications
<1>6. QED BY <1>4, <1>5 DEF Longer

\* Bytes that begin a block and do not end it.
Partials ==
  {b \in Seq(Byte) :
     b = <<>> \/ \E m \in Messages : \E n \in 0 .. (Len(Block(m)) - 1) : b = SubSeq(Block(m), 1, n)}

\* Streams: whole blocks of messages and a partial one, as the least set that
\* is closed under putting a block in front.
Closed(X) ==
  Partials \subseteq X /\ \A m \in Messages : \A s \in X : Block(m) \o s \in X
Streams == {b \in Seq(Byte) : \A X \in SUBSET Seq(Byte) : Closed(X) => b \in X}

LEMMA StreamInduction ==
  ASSUME NEW X \in SUBSET Seq(Byte), Closed(X)
  PROVE  Streams \subseteq X
BY DEF Streams

LEMMA StreamsClosed == Closed(Streams)
<1>1. Partials \subseteq Streams
  BY DEF Partials, Streams, Closed
<1>2. ASSUME NEW m \in Messages, NEW s \in Streams PROVE Block(m) \o s \in Streams
  <2>1. Block(m) \o s \in Seq(Byte)
    BY BlockTypes, ConcatProperties DEF Streams
  <2>2. ASSUME NEW X \in SUBSET Seq(Byte), Closed(X) PROVE Block(m) \o s \in X
    BY <2>2 DEF Streams, Closed
  <2>3. QED BY <2>1, <2>2 DEF Streams
<1>3. QED BY <1>1, <1>2 DEF Closed

\* Nothing is taken from bytes that hold no whole block.
LEMMA ReadPartial ==
  ASSUME NEW b \in Partials
  PROVE  readLoop[b] = [arrays |-> <<>>, rest |-> b]
<1>1. b \in Seq(Byte) /\ HeaderLen \in Nat \ {0} /\ Len(b) \in Nat
  BY HeaderAssumption DEF Partials
<1>2. ~Complete(b)
  <2>1. CASE b = <<>>
    BY <1>1, <2>1 DEF Complete
  <2>2. CASE b # <<>>
    <3>0. PICK m \in Messages : \E n \in 0 .. (Len(Block(m)) - 1) : b = SubSeq(Block(m), 1, n)
      BY <2>2 DEF Partials
    <3>1. PICK n \in 0 .. (Len(Block(m)) - 1) : b = SubSeq(Block(m), 1, n)
      BY <3>0
    <3>2. /\ Block(m) \in Seq(Byte) /\ Len(Block(m)) = HeaderLen + Len(m) /\ Len(m) \in Nat
          /\ Header(Len(m)) \in Seq(Byte) /\ Len(Header(Len(m))) = HeaderLen
          /\ Length[Header(Len(m))] = Len(m) /\ Len(m) # Mark /\ m \in Seq(Byte)
      BY BlockTypes
    <3>3. Len(b) = n /\ n < HeaderLen + Len(m) /\ n \in Nat
      BY <1>1, <3>1, <3>2
    <3>4. ASSUME n >= HeaderLen PROVE SubSeq(b, 1, HeaderLen) = Header(Len(m))
      <4>1. SubSeq(Block(m), 1, HeaderLen) = Header(Len(m))
        BY <3>2, TakeConcat DEF Block
      <4>2. SubSeq(b, 1, HeaderLen) = SubSeq(Block(m), 1, HeaderLen)
        <5>1. /\ n \in 1 .. Len(Block(m)) /\ 1 \in 1 .. Len(Block(m))
              /\ 1 \in 1 .. (n - 1 + 1) /\ HeaderLen \in 1 .. (n - 1 + 1)
          BY <1>1, <3>2, <3>3, <3>4
        <5>2. SubSeq(SubSeq(Block(m), 1, n), 1, HeaderLen)
                = SubSeq(Block(m), 1 + 1 - 1, 1 + HeaderLen - 1)
          BY <3>2, <5>1, SubSeqOfSubSeq
        <5>3. 1 + 1 - 1 = 1 /\ 1 + HeaderLen - 1 = HeaderLen
          BY <1>1
        <5>4. QED BY <3>1, <5>2, <5>3
      <4>3. QED BY <4>1, <4>2
    <3>5. ASSUME n >= HeaderLen PROVE LengthOf(b) = Len(m)
      BY <3>2, <3>4, <3>5 DEF LengthOf
    <3>6. QED BY <1>1, <3>2, <3>3, <3>5 DEF Complete
  <2>3. QED BY <2>1, <2>2
<1>3. readArray(b) = [array |-> NullArray, rest |-> b]
  BY <1>2 DEF readArray
<1>4. QED BY <1>1, <1>3, ReadLoopUnfolds

\* The three parts of a block with what follows it.
LEMMA Parts ==
  ASSUME NEW S, NEW h \in Seq(S), NEW m \in Seq(S), NEW s \in Seq(S),
         NEW b, b = (h \o m) \o s
  PROVE  /\ b \in Seq(S) /\ Len(b) = Len(h) + Len(m) + Len(s)
         /\ SubSeq(b, 1, Len(h)) = h
         /\ SubSeq(b, Len(h) + 1, Len(h) + Len(m)) = m
         /\ SubSeq(b, Len(h) + Len(m) + 1, Len(b)) = s
<1>1. PICK u \in Seq(S) : u = h \o m
  BY ConcatProperties
<1>2. PICK v \in Seq(S) : v = m \o s
  BY ConcatProperties
<1>3. /\ Len(h) \in Nat /\ Len(m) \in Nat /\ Len(s) \in Nat
      /\ Len(u) = Len(h) + Len(m) /\ Len(v) = Len(m) + Len(s)
  BY <1>1, <1>2, ConcatProperties
<1>4. b = u \o s /\ b = h \o v
  BY <1>1, <1>2, ConcatAssociative
<1>5. b \in Seq(S) /\ Len(b) = Len(u) + Len(s) /\ Len(b) = Len(h) + Len(v)
  BY <1>4, ConcatProperties
<1>6. SubSeq(b, 1, Len(h)) = h
  BY <1>4, TakeConcat
<1>7. SubSeq(b, Len(h) + Len(m) + 1, Len(b)) = s
  <2>1. SubSeq(u \o s, Len(u) + 1, Len(u) + Len(s)) = s
    BY TakeConcat
  <2>2. QED BY <1>3, <1>4, <1>5, <2>1
<1>8. SubSeq(b, Len(h) + 1, Len(h) + Len(m)) = m
  <2>1. \A i \in 1 .. Len(m) : b[Len(h) + i] = m[i]
    <3> SUFFICES ASSUME NEW i \in 1 .. Len(m) PROVE b[Len(h) + i] = m[i]
      OBVIOUS
    <3>1. b[Len(h) + i] = v[i]
      BY <1>3, <1>4, ConcatProperties
    <3>2. v[i] = m[i]
      BY <1>2, <1>3, ConcatProperties
    <3>3. QED BY <3>1, <3>2
  <2>2. \A i \in (Len(h) + 1) .. (Len(h) + Len(m)) : b[i] \in S
    BY <1>3, <1>5
  <2>3. PICK v1 : v1 = SubSeq(b, Len(h) + 1, Len(h) + Len(m))
    OBVIOUS
  <2>4. /\ v1 \in Seq(S) /\ Len(v1) = Len(m)
        /\ \A i \in 1 .. Len(m) : v1[i] = b[Len(h) + i]
    BY <1>3, <2>2, <2>3, SubSeqProperties
  <2>5. v1 = m
    BY <2>1, <2>4, SeqEqual
  <2>6. QED BY <2>3, <2>5
<1>9. QED BY <1>3, <1>5, <1>6, <1>7, <1>8

\* A whole block in front is the next array.
LEMMA ReadBlock ==
  ASSUME NEW m \in Messages, NEW s \in Seq(Byte)
  PROVE  readLoop[Block(m) \o s] =
           [arrays |-> <<m>> \o readLoop[s].arrays, rest |-> readLoop[s].rest]
<1>1. PICK h \in Seq(Byte) : h = Header(Len(m))
  BY BlockTypes
<1>2. /\ m \in Seq(Byte) /\ Len(m) \in Nat /\ Len(m) # Mark /\ m # NullArray
      /\ Len(h) = HeaderLen /\ Length[h] = Len(m)
  BY <1>1, BlockTypes
<1>3. HeaderLen \in Nat \ {0} /\ Len(s) \in Nat
  BY HeaderAssumption
<1>4. PICK b : b = (h \o m) \o s
  OBVIOUS
<1>5. /\ b \in Seq(Byte) /\ Len(b) = HeaderLen + Len(m) + Len(s)
      /\ SubSeq(b, 1, HeaderLen) = h
      /\ SubSeq(b, HeaderLen + 1, HeaderLen + Len(m)) = m
      /\ SubSeq(b, HeaderLen + Len(m) + 1, Len(b)) = s
  <2>1. /\ b \in Seq(Byte) /\ Len(b) = Len(h) + Len(m) + Len(s)
        /\ SubSeq(b, 1, Len(h)) = h
        /\ SubSeq(b, Len(h) + 1, Len(h) + Len(m)) = m
        /\ SubSeq(b, Len(h) + Len(m) + 1, Len(b)) = s
    <3>1. m \in Seq(Byte)
      BY <1>2
    <3>2. QED BY <1>4, <3>1, Parts
  <2>2. QED BY <1>2, <2>1, Zenon
<1>6. LengthOf(b) = Len(m)
  BY <1>2, <1>5 DEF LengthOf
<1>7. Complete(b)
  BY <1>2, <1>3, <1>5, <1>6 DEF Complete
<1>8. readArray(b) = [array |-> m, rest |-> s]
  BY <1>2, <1>5, <1>6, <1>7 DEF readArray
<1>9. readLoop[b] = [arrays |-> <<m>> \o readLoop[s].arrays, rest |-> readLoop[s].rest]
  <2>1. readArray(b).array = m /\ readArray(b).rest = s
    BY <1>8
  <2>2. readLoop[b] =
          IF readArray(b).array = NullArray THEN [arrays |-> <<>>, rest |-> readArray(b).rest]
          ELSE [arrays |-> <<readArray(b).array>> \o readLoop[readArray(b).rest].arrays,
                rest |-> readLoop[readArray(b).rest].rest]
    BY <1>5, ReadLoopUnfolds, Zenon
  <2>3. QED BY <1>2, <2>1, <2>2, Zenon
<1>10. QED BY <1>1, <1>4, <1>9 DEF Block

LEMMA EmptyPartial == <<>> \in Partials /\ Partials \subseteq Seq(Byte)
BY EmptySeq DEF Partials

\* The beginning of a partial block is one.
LEMMA PartialPrefix ==
  ASSUME NEW x \in Seq(Byte), NEW w \in Seq(Byte), x \o w \in Partials
  PROVE  x \in Partials
<1>1. CASE x = <<>>
  BY <1>1, EmptyPartial
<1>2. CASE x # <<>>
  <2>1. PICK b \in Seq(Byte) : b = x \o w /\ b \in Partials
    BY DEF Partials
  <2>2. Len(b) = Len(x) + Len(w) /\ Len(x) \in Nat /\ Len(w) \in Nat /\ Len(x) # 0
    BY <1>2, <2>1, ConcatProperties
  <2>3. PICK m \in Messages : \E n \in 0 .. (Len(Block(m)) - 1) : b = SubSeq(Block(m), 1, n)
    <3>1. b # <<>>
      BY <2>2
    <3>2. QED BY <2>1, <3>1 DEF Partials
  <2>4. PICK n \in 0 .. (Len(Block(m)) - 1) : b = SubSeq(Block(m), 1, n)
    BY <2>3
  <2>5. PICK B \in Seq(Byte) : B = Block(m)
    BY BlockTypes
  <2>6. Len(B) \in Nat /\ n \in 0 .. (Len(B) - 1) /\ b = SubSeq(B, 1, n) /\ Len(b) = n
    BY <2>4, <2>5
  <2>7. x = SubSeq(b, 1, Len(x))
    BY <2>1, TakeConcat
  <2>8. SubSeq(SubSeq(B, 1, n), 1, Len(x)) = SubSeq(B, 1 + 1 - 1, 1 + Len(x) - 1)
    <3>1. /\ 1 \in 1 .. Len(B) /\ n \in 1 .. Len(B)
          /\ 1 \in 1 .. (n - 1 + 1) /\ Len(x) \in 1 .. (n - 1 + 1)
      BY <2>2, <2>6
    <3>2. QED BY <3>1, SubSeqOfSubSeq
  <2>9. 1 + 1 - 1 = 1 /\ 1 + Len(x) - 1 = Len(x)
    BY <2>2
  <2>10. x = SubSeq(Block(m), 1, Len(x)) /\ Len(x) \in 0 .. (Len(Block(m)) - 1)
    BY <2>2, <2>5, <2>6, <2>7, <2>8, <2>9
  <2>11. QED BY <2>10 DEF Partials
<1>3. QED BY <1>1, <1>2

\* The reader takes messages out of a stream and leaves a partial block.
LEMMA StreamTypes ==
  ASSUME NEW b \in Streams
  PROVE  /\ readLoop[b].arrays \in Seq(Messages) /\ readLoop[b].rest \in Partials
         /\ readLoop[b] = [arrays |-> readLoop[b].arrays, rest |-> readLoop[b].rest]
<1> DEFINE X == {c \in Streams : /\ readLoop[c].arrays \in Seq(Messages)
                                 /\ readLoop[c].rest \in Partials
                                 /\ readLoop[c] = [arrays |-> readLoop[c].arrays,
                                                   rest |-> readLoop[c].rest]}
<1>1. X \in SUBSET Seq(Byte)
  BY DEF Streams
<1>2. Partials \subseteq X
  <2> SUFFICES ASSUME NEW c \in Partials PROVE c \in X
    OBVIOUS
  <2>1. readLoop[c] = [arrays |-> <<>>, rest |-> c]
    BY ReadPartial
  <2>2. c \in Streams
    BY StreamsClosed DEF Closed
  <2>3. readLoop[c].arrays = <<>> /\ readLoop[c].rest = c
    BY <2>1
  <2>4. <<>> \in Seq(Messages)
    BY EmptySeq
  <2>5. readLoop[c] = [arrays |-> readLoop[c].arrays, rest |-> readLoop[c].rest]
    BY <2>1, <2>3, Zenon
  <2>6. QED BY <2>2, <2>3, <2>4, <2>5, Zenon
<1>3. ASSUME NEW m \in Messages, NEW s \in X PROVE Block(m) \o s \in X
  <2>1. Block(m) \o s \in Streams
    BY StreamsClosed DEF Closed
  <2>2. readLoop[Block(m) \o s] =
          [arrays |-> <<m>> \o readLoop[s].arrays, rest |-> readLoop[s].rest]
    <3>1. s \in Seq(Byte)
      BY <1>1
    <3>2. QED BY <3>1, ReadBlock
  <2>3. PICK a \in Seq(Messages) : a = readLoop[s].arrays
    OBVIOUS
  <2>4. <<m>> \o a \in Seq(Messages)
    OBVIOUS
  <2>5. PICK c : c = Block(m) \o s
    OBVIOUS
  <2>6. readLoop[c].arrays = <<m>> \o a /\ readLoop[c].rest = readLoop[s].rest
    BY <2>2, <2>3, <2>5
  <2>7. readLoop[c] = [arrays |-> readLoop[c].arrays, rest |-> readLoop[c].rest]
    BY <2>2, <2>3, <2>5, <2>6, Zenon
  <2>8. readLoop[s].rest \in Partials
    OBVIOUS
  <2>9. c \in X
    BY <2>1, <2>4, <2>5, <2>6, <2>7, <2>8, Zenon
  <2>10. QED BY <2>5, <2>9
<1>4. Closed(X)
  BY <1>2, <1>3 DEF Closed
<1>5. Streams \subseteq X
  <2> HIDE DEF X
  <2>1. QED BY <1>1, <1>4, StreamInduction
<1>6. QED BY <1>5

\* Reading a stream in two pieces is reading it at once: what the first piece
\* leaves goes in front of the second.
Cut(x, w, b) ==
  /\ x \in Streams /\ readLoop[x].rest \o w \in Streams
  /\ readLoop[b].arrays = readLoop[x].arrays \o readLoop[readLoop[x].rest \o w].arrays
  /\ readLoop[b].rest = readLoop[readLoop[x].rest \o w].rest

LEMMA CutPartial ==
  ASSUME NEW x \in Partials, NEW w \in Seq(Byte), x \o w \in Streams
  PROVE  Cut(x, w, x \o w)
<1>0. readLoop[x] = [arrays |-> <<>>, rest |-> x]
  BY ReadPartial
<1>1. readLoop[x].arrays = <<>> /\ readLoop[x].rest = x
  BY <1>0
<1>2. x \in Streams
  BY StreamsClosed DEF Closed
<1>3. PICK a \in Seq(Messages) : a = readLoop[x \o w].arrays
  BY StreamTypes
<1>4. <<>> \o a = a
  BY ConcatEmptySeq
<1>5. QED BY <1>1, <1>2, <1>3, <1>4 DEF Cut

LEMMA CutStream ==
  ASSUME NEW x \in Seq(Byte), NEW w \in Seq(Byte), x \o w \in Streams
  PROVE  Cut(x, w, x \o w)
<1> DEFINE X == {b \in Streams : \A y, v \in Seq(Byte) : b = y \o v => Cut(y, v, b)}
<1>1. X \in SUBSET Seq(Byte)
  BY DEF Streams
<1>2. Partials \subseteq X
  <2> SUFFICES ASSUME NEW c \in Partials, NEW y \in Seq(Byte), NEW v \in Seq(Byte), c = y \o v
               PROVE  Cut(y, v, c)
    BY StreamsClosed DEF Closed
  <2>1. y \in Partials
    BY PartialPrefix
  <2>2. y \o v \in Streams
    BY StreamsClosed DEF Closed
  <2>3. QED BY <2>1, <2>2, CutPartial
<1>3. ASSUME NEW m \in Messages, NEW s \in X PROVE Block(m) \o s \in X
  <2>1. Block(m) \o s \in Streams /\ s \in Streams /\ s \in Seq(Byte)
    BY <1>1, StreamsClosed DEF Closed
  <2> SUFFICES ASSUME NEW y \in Seq(Byte), NEW v \in Seq(Byte), Block(m) \o s = y \o v
               PROVE  Cut(y, v, Block(m) \o s)
    BY <2>1
  <2>2. PICK B \in Seq(Byte) : B = Block(m)
    BY BlockTypes
  <2>3. CASE Len(y) < Len(B)
    <3>1. y = SubSeq(B, 1, Len(y))
      BY <2>1, <2>2, <2>3, ShortCut
    <3>2. Len(y) \in 0 .. (Len(Block(m)) - 1)
      BY <2>2, <2>3
    <3>3. y \in Partials
      BY <2>2, <3>1, <3>2 DEF Partials
    <3>4. QED BY <2>1, <3>3, CutPartial
  <2>4. CASE Len(B) <= Len(y)
    <3>1. PICK z \in Seq(Byte) : y = B \o z /\ z \o v = s
      <4>1. y \o v = B \o s /\ s \in Seq(Byte)
        BY <2>1, <2>2
      <4> HIDE DEF X
      <4>2. Longer(Byte, y, v, B, s)
        BY <2>4, <4>1, LongCut
      <4>3. QED BY <4>2 DEF Longer
    <3>2. Cut(z, v, s)
      BY <3>1
    <3>3. readLoop[y] = [arrays |-> <<m>> \o readLoop[z].arrays, rest |-> readLoop[z].rest]
      BY <2>2, <3>1, ReadBlock
    <3>4. readLoop[Block(m) \o s] = [arrays |-> <<m>> \o readLoop[s].arrays, rest |-> readLoop[s].rest]
      BY <2>1, ReadBlock
    <3>5. y \in Streams
      BY <2>2, <3>1, <3>2, StreamsClosed DEF Closed, Cut
    <3>6. PICK t : t = readLoop[z].rest \o v
      OBVIOUS
    <3>7. PICK a1 \in Seq(Messages), a2 \in Seq(Messages) :
            a1 = readLoop[z].arrays /\ a2 = readLoop[t].arrays
      BY <3>2, <3>6, StreamTypes DEF Cut
    <3>8. readLoop[s].arrays = a1 \o a2 /\ readLoop[s].rest = readLoop[t].rest /\ t \in Streams
      BY <3>2, <3>6, <3>7 DEF Cut
    <3>9. (<<m>> \o a1) \o a2 = <<m>> \o (a1 \o a2)
      <4>1. <<m>> \in Seq(Messages)
        OBVIOUS
      <4>2. QED BY <4>1, Associative
    <3>10. readLoop[y].arrays = <<m>> \o a1 /\ readLoop[y].rest \o v = t
      <4>1. readLoop[y].arrays = <<m>> \o readLoop[z].arrays /\ readLoop[y].rest = readLoop[z].rest
        BY <3>3
      <4>2. QED BY <3>6, <3>7, <4>1, Zenon
    <3>11. /\ readLoop[Block(m) \o s].arrays = <<m>> \o (a1 \o a2)
           /\ readLoop[Block(m) \o s].rest = readLoop[t].rest
      BY <3>4, <3>8
    <3>12. QED BY <3>5, <3>7, <3>8, <3>9, <3>10, <3>11, Zenon DEF Cut
  <2>5. QED BY <2>2, <2>3, <2>4
<1>4. Closed(X)
  BY <1>2, <1>3 DEF Closed
<1>5. Streams \subseteq X
  <2> HIDE DEF X
  <2>1. QED BY <1>1, <1>4, StreamInduction
<1>6. QED BY <1>5

\* A block behind a stream that ends with one is the last array.
Last(m, b) ==
  /\ b \o Block(m) \in Streams
  /\ readLoop[b \o Block(m)].arrays = Append(readLoop[b].arrays, m)
  /\ readLoop[b \o Block(m)].rest = <<>>

LEMMA AppendBlock ==
  ASSUME NEW m \in Messages, NEW b \in Streams, readLoop[b].rest = <<>>
  PROVE  Last(m, b)
<1> DEFINE X == {c \in Streams : readLoop[c].rest = <<>> => Last(m, c)}
<1>1. X \in SUBSET Seq(Byte)
  BY DEF Streams
<1>2. Partials \subseteq X
  <2> SUFFICES ASSUME NEW c \in Partials, readLoop[c].rest = <<>> PROVE Last(m, c)
    BY StreamsClosed DEF Closed
  <2>1. \A e \in Partials : readLoop[e] = [arrays |-> <<>>, rest |-> e]
    BY ReadPartial
  <2>2. readLoop[c] = [arrays |-> <<>>, rest |-> c]
    BY <2>1
  <2>3. c = <<>>
    BY <2>2
  <2>4. readLoop[<<>>].arrays = <<>> /\ readLoop[<<>>].rest = <<>>
    BY <2>2, <2>3
  <2>5. PICK B \in Seq(Byte) : B = Block(m)
    BY BlockTypes
  <2>6. c \o B = B \o <<>> /\ c \o B = B
    BY <2>3, ConcatEmptySeq
  <2>7. <<>> \in Seq(Byte) /\ <<>> \in Streams
    BY EmptyPartial, StreamsClosed DEF Closed
  <2>8. B \o <<>> \in Streams
    BY <2>5, <2>7, StreamsClosed DEF Closed
  <2>9. readLoop[B \o <<>>] = [arrays |-> <<m>> \o readLoop[<<>>].arrays, rest |-> readLoop[<<>>].rest]
    BY <2>5, <2>7, ReadBlock
  <2>10. <<m>> \o <<>> = <<m>> /\ Append(<<>>, m) = <<m>>
    OBVIOUS
  <2>11. readLoop[B \o <<>>].arrays = <<m>> /\ readLoop[B \o <<>>].rest = <<>>
    BY <2>4, <2>9, <2>10
  <2>12. readLoop[c].arrays = <<>>
    BY <2>3, <2>4
  <2>13. QED BY <2>5, <2>6, <2>8, <2>10, <2>11, <2>12, Zenon DEF Last
<1>3. ASSUME NEW k \in Messages, NEW s \in X PROVE Block(k) \o s \in X
  <2>1. s \in Streams /\ s \in Seq(Byte) /\ Block(k) \o s \in Streams
    BY <1>1, StreamsClosed DEF Closed
  <2> SUFFICES ASSUME readLoop[Block(k) \o s].rest = <<>> PROVE Last(m, Block(k) \o s)
    BY <2>1
  <2>2. readLoop[Block(k) \o s] = [arrays |-> <<k>> \o readLoop[s].arrays, rest |-> readLoop[s].rest]
    BY <2>1, ReadBlock
  <2>3. /\ readLoop[Block(k) \o s].arrays = <<k>> \o readLoop[s].arrays
        /\ readLoop[Block(k) \o s].rest = readLoop[s].rest
    BY <2>2
  <2>4. Last(m, s)
    BY <2>3
  <2> HIDE DEF X
  <2>5. PICK B \in Seq(Byte), C \in Seq(Byte) : B = Block(m) /\ C = Block(k)
    BY BlockTypes
  <2>6. (C \o s) \o B = C \o (s \o B)
    BY <2>1, Associative
  <2>7. PICK t \in Seq(Byte) : t = s \o B /\ t \in Streams
    BY <2>4, <2>5 DEF Last, Streams
  <2>8. C \o t \in Streams
    BY <2>5, <2>7, StreamsClosed DEF Closed
  <2>9. readLoop[C \o t] = [arrays |-> <<k>> \o readLoop[t].arrays, rest |-> readLoop[t].rest]
    BY <2>5, ReadBlock
  <2>10. readLoop[t].arrays = Append(readLoop[s].arrays, m) /\ readLoop[t].rest = <<>>
    BY <2>4, <2>5, <2>7 DEF Last
  <2>11. PICK a \in Seq(Messages) : a = readLoop[s].arrays
    BY <2>1, StreamTypes
  <2>12. <<k>> \o Append(a, m) = Append(<<k>> \o a, m)
    <3>1. PICK l \in Seq(Messages), r \in Seq(Messages) : l = <<k>> /\ r = <<m>>
      <4>1. <<k>> \in Seq(Messages) /\ <<m>> \in Seq(Messages)
        OBVIOUS
      <4>2. QED BY <4>1
    <3>2. Append(a, m) = a \o r /\ Append(l \o a, m) = (l \o a) \o r
      <4>1. l \o a \in Seq(Messages)
        BY ConcatProperties
      <4>2. QED BY <3>1, <4>1, AppendIsConcat
    <3>3. (l \o a) \o r = l \o (a \o r)
      BY Associative
    <3>4. QED BY <3>1, <3>2, <3>3
  <2>13. /\ readLoop[C \o t].arrays = <<k>> \o readLoop[t].arrays
         /\ readLoop[C \o t].rest = readLoop[t].rest
    BY <2>9
  <2>14. (Block(k) \o s) \o Block(m) = C \o t
    BY <2>5, <2>6, <2>7, Zenon
  <2>15. readLoop[C \o t].arrays = Append(readLoop[Block(k) \o s].arrays, m)
    BY <2>3, <2>10, <2>11, <2>12, <2>13, Zenon
  <2>16. QED BY <2>8, <2>10, <2>13, <2>14, <2>15, Zenon DEF Last
<1>4. Closed(X)
  BY <1>2, <1>3 DEF Closed
<1>5. Streams \subseteq X
  <2> HIDE DEF X
  <2>1. QED BY <1>1, <1>4, StreamInduction
<1>6. QED BY <1>5

-----------------------------------------------------------------------------
(* The invariant                                                           *)

Gone(p) == sock[p] \in {"closed", "deleted"}
Young(p) == sock[p] \in {"idle", "connecting"}

\* Bytes of p the reader of the other end has not taken.
Stream(p) == buf[Other(p)] \o wire[p]

\* The life of a connection: the client is first, then the kernel, then the
\* server; a peer that has not been connected has neither sent nor received.
Lives ==
  /\ \A c \in backlog : sock[Server(c)] = "idle"
  /\ \A c \in Clients : Young(Client(c)) => sock[Server(c)] = "idle" /\ c \notin backlog
  /\ \A p \in Peers : Young(p) => wire[p] = <<>> /\ buf[p] = <<>> /\ buf[Other(p)] = <<>>

\* While the other end can read, p's bytes are a stream; it ends with a whole
\* block while p is there, for only the end of p cuts it.
Carries(p) ==
  ~Gone(Other(p)) =>
    /\ buf[Other(p)] \in Partials /\ Stream(p) \in Streams
    /\ sock[p] = "connected" => readLoop[Stream(p)].rest = <<>>

TcpInv == TypeOK /\ Lives /\ \A p \in Peers : Carries(p)

LEMMA PeerFacts ==
  /\ \A p \in Peers : Other(p) \in Peers /\ Other(Other(p)) = p /\ Other(p) # p
  /\ \A c \in Clients : /\ Client(c) \in Peers /\ Server(c) \in Peers
                        /\ Other(Client(c)) = Server(c) /\ Other(Server(c)) = Client(c)
  /\ \A c, d \in Clients : /\ Client(c) # Server(d)
                           /\ Client(c) = Client(d) => c = d
                           /\ Server(c) = Server(d) => c = d
  /\ \A p \in Peers : p[1] \in Clients /\ (p = Client(p[1]) \/ p = Server(p[1]))
  /\ \A p \in Peers : p[2] = "server" <=> p = Server(p[1])
BY DEF Peers, Other, Client, Server

LEMMA ByteIsBytes == Bytes = Seq(Byte)
BY DEF Bytes, Byte

LEMMA EmptyStream ==
  <<>> \in Partials /\ <<>> \o <<>> = <<>> /\ <<>> \in Streams /\ readLoop[<<>>].rest = <<>>
<1>1. <<>> \in Partials /\ <<>> \in Streams
  BY EmptyPartial, StreamsClosed DEF Closed
<1>2. \A e \in Partials : readLoop[e] = [arrays |-> <<>>, rest |-> e]
  BY ReadPartial
<1>3. readLoop[<<>>] = [arrays |-> <<>>, rest |-> <<>>]
  BY <1>1, <1>2
<1>4. QED BY <1>1, <1>3

\* What keeps the stream of p: nobody writes it, reads it or comes to life.
LEMMA CarriesKept ==
  ASSUME NEW p \in Peers, Carries(p), Gone(Other(p)) => Gone(Other(p))',
         ~Gone(Other(p))' => buf'[Other(p)] = buf[Other(p)] /\ wire'[p] = wire[p],
         sock'[p] = "connected" => sock[p] = "connected"
  PROVE  Carries(p)'
BY DEF Carries, Stream, Gone

LEMMA TcpInit == Init => TcpInv
<1> SUFFICES ASSUME Init PROVE TcpInv
  OBVIOUS
<1>1. TypeOK
  BY PeerFacts, ByteIsBytes, EmptySeq DEF Init, TypeOK, States
<1>2. Lives
  BY PeerFacts DEF Init, Lives
<1>3. ASSUME NEW p \in Peers PROVE Carries(p)
  BY PeerFacts, EmptyStream DEF Init, Carries, Stream
<1>4. QED BY <1>1, <1>2, <1>3 DEF TcpInv

LEMMA StartServerInv ==
  ASSUME TcpInv, startServer PROVE TcpInv'
<1>1. TypeOK'
  BY DEF TcpInv, TypeOK, startServer
<1>2. Lives'
  BY DEF TcpInv, Lives, Young, startServer
<1>3. ASSUME NEW p \in Peers PROVE Carries(p)'
  BY CarriesKept, PeerFacts DEF TcpInv, Gone, startServer
<1>4. QED BY <1>1, <1>2, <1>3 DEF TcpInv

LEMMA StartConnectionInv ==
  ASSUME TcpInv, NEW c \in Clients, startConnection(c) \/ connectionRefused(c) PROVE TcpInv'
<1> USE PeerFacts
<1>0. PICK v \in {"idle", "connecting"} : sock' = [sock EXCEPT ![Client(c)] = v]
  BY DEF startConnection, connectionRefused
<1>1. /\ Young(Client(c)) /\ sock \in [Peers -> States]
      /\ UNCHANGED <<listening, backlog, clients, wire, buf, sent, received>>
  BY DEF startConnection, connectionRefused, Young, TcpInv, TypeOK
<1>2. TypeOK'
  <2>1. sock' \in [Peers -> States] /\ \A d \in Clients : sock'[Server(d)] = sock[Server(d)]
    BY <1>0, <1>1 DEF States
  <2>2. QED BY <1>1, <2>1 DEF TcpInv, TypeOK
<1>3. \A p \in Peers : Young(p)' <=> Young(p)
  BY <1>0, <1>1 DEF Young
<1>4. Lives'
  BY <1>0, <1>1, <1>3 DEF TcpInv, Lives, TypeOK
<1>5. ASSUME NEW p \in Peers PROVE Carries(p)'
  <2>1. \A q \in Peers : (Gone(q) => Gone(q)') /\ (sock'[q] = "connected" => sock[q] = "connected")
    BY <1>0, <1>1 DEF Gone, Young
  <2>2. QED BY <1>1, <2>1, CarriesKept DEF TcpInv
<1>6. QED BY <1>2, <1>4, <1>5 DEF TcpInv

\* A peer that becomes connected has an empty stream.
LEMMA ConnectedInv ==
  ASSUME TcpInv, NEW q \in Peers, Young(q), sock' = [sock EXCEPT ![q] = "connected"],
         UNCHANGED <<wire, buf>>
  PROVE  /\ sock' \in [Peers -> States]
         /\ \A p \in Peers : Young(p)' <=> Young(p) /\ p # q
         /\ \A p \in Peers : Carries(p)'
<1> USE PeerFacts
<1>1. sock \in [Peers -> States]
  BY DEF TcpInv, TypeOK
<1>2. sock' \in [Peers -> States] /\ \A p \in Peers : Young(p)' <=> Young(p) /\ p # q
  BY <1>1 DEF States, Young
<1>3. \A p \in Peers : Gone(p)' <=> Gone(p)
  BY <1>1 DEF Gone, Young
<1>4. ASSUME NEW p \in Peers PROVE Carries(p)'
  <2>1. CASE p # q
    <3>1. sock'[p] = sock[p]
      BY <1>1, <2>1
    <3>2. QED BY <1>3, <3>1, CarriesKept DEF TcpInv
  <2>2. CASE p = q
    <3>1. wire'[p] = <<>> /\ buf'[Other(p)] = <<>>
      BY <2>2 DEF TcpInv, Lives
    <3>2. QED BY <3>1, EmptyStream DEF Carries, Stream
  <2>3. QED BY <2>1, <2>2
<1>5. QED BY <1>2, <1>4

LEMMA ConnectionEstablishedInv ==
  ASSUME TcpInv, NEW c \in Clients, connectionEstablished(c) PROVE TcpInv'
<1> USE PeerFacts
<1>1. Young(Client(c)) /\ sock[Server(c)] = "idle" /\ sock \in [Peers -> States]
  BY DEF connectionEstablished, Young, TcpInv, Lives, TypeOK
<1>2. /\ sock' \in [Peers -> States]
      /\ \A p \in Peers : Young(p)' <=> Young(p) /\ p # Client(c)
      /\ \A p \in Peers : Carries(p)'
  BY <1>1, ConnectedInv DEF connectionEstablished
<1>3. \A d \in Clients : sock'[Server(d)] = sock[Server(d)]
  BY <1>1 DEF connectionEstablished
<1>4. TypeOK'
  BY <1>2, <1>3 DEF connectionEstablished, TcpInv, TypeOK
<1>5. Lives'
  BY <1>1, <1>2, <1>3 DEF connectionEstablished, TcpInv, Lives, TypeOK
<1>6. QED BY <1>2, <1>4, <1>5 DEF TcpInv

LEMMA IncomingConnectionInv ==
  ASSUME TcpInv, NEW c \in Clients, incomingConnection(c) PROVE TcpInv'
<1> USE PeerFacts
<1>1. Young(Server(c)) /\ ~Young(Client(c)) /\ sock \in [Peers -> States] /\ backlog \subseteq Clients
  BY DEF incomingConnection, Young, TcpInv, Lives, TypeOK
<1>2. /\ sock' \in [Peers -> States]
      /\ \A p \in Peers : Young(p)' <=> Young(p) /\ p # Server(c)
      /\ \A p \in Peers : Carries(p)'
  BY <1>1, ConnectedInv DEF incomingConnection
<1>3. /\ sock'[Server(c)] = "connected"
      /\ \A d \in Clients : d # c => sock'[Server(d)] = sock[Server(d)]
  BY <1>1 DEF incomingConnection
<1>4. TypeOK'
  BY <1>1, <1>2, <1>3 DEF incomingConnection, TcpInv, TypeOK
<1>5. Lives'
  BY <1>1, <1>2, <1>3 DEF incomingConnection, TcpInv, Lives, TypeOK
<1>6. QED BY <1>2, <1>4, <1>5 DEF TcpInv

LEMMA SendArrayInv ==
  ASSUME TcpInv, NEW p \in Peers, NEW m \in Messages, sendArray(p, m) PROVE TcpInv'
<1> USE PeerFacts
<1>1. /\ sock[p] = "connected" /\ ~Young(p) /\ sock \in [Peers -> States]
      /\ wire \in [Peers -> Seq(Byte)] /\ buf \in [Peers -> Seq(Byte)]
      /\ sent \in [Peers -> Seq(Messages)]
  BY ByteIsBytes DEF sendArray, TcpInv, TypeOK, Young
<1>2. PICK B \in Seq(Byte) : B = Block(m)
  BY BlockTypes
<1>3. wire' = [wire EXCEPT ![p] = wire[p] \o B] /\ wire[p] \o B \in Seq(Byte)
  BY <1>1, <1>2, ConcatProperties DEF sendArray
<1>4. wire' \in [Peers -> Seq(Byte)] /\ sent' \in [Peers -> Seq(Messages)]
  <2>1. PICK a \in Seq(Messages) : a = sent[p]
    BY <1>1
  <2>2. Append(a, m) \in Seq(Messages)
    BY AppendProperties
  <2>3. sent' = [sent EXCEPT ![p] = Append(a, m)]
    BY <2>1 DEF sendArray
  <2>4. QED BY <1>1, <1>3, <2>2, <2>3
<1>5. TypeOK'
  BY <1>4, ByteIsBytes DEF sendArray, TcpInv, TypeOK
<1>6. Lives'
  BY <1>1, <1>3 DEF sendArray, TcpInv, Lives, Young
<1>7. ASSUME NEW q \in Peers PROVE Carries(q)'
  <2>1. CASE q # p
    BY <1>1, <1>3, <2>1, CarriesKept DEF TcpInv, Gone, sendArray
  <2>2. CASE q = p
    <3> SUFFICES ASSUME ~Gone(Other(p))' PROVE Carries(p)'
      BY <2>2 DEF Carries
    <3>1. ~Gone(Other(p)) /\ buf' = buf /\ sock' = sock
      BY DEF Gone, sendArray
    <3>2. /\ buf[Other(p)] \in Partials /\ Stream(p) \in Streams
          /\ readLoop[Stream(p)].rest = <<>>
      BY <1>1, <3>1 DEF TcpInv, Carries
    <3>3. Last(m, Stream(p))
      BY <3>2, AppendBlock
    <3>4. Stream(p)' = Stream(p) \o Block(m)
      <4>1. PICK s \in Seq(Byte), t \in Seq(Byte) : s = buf[Other(p)] /\ t = wire[p]
        BY <1>1
      <4>2. (s \o t) \o B = s \o (t \o B)
        BY Associative
      <4>3. Stream(p)' = s \o (t \o B)
        BY <1>1, <1>3, <3>1, <4>1 DEF Stream
      <4>4. QED BY <1>2, <4>1, <4>2, <4>3, Zenon DEF Stream
    <3>5. QED BY <3>1, <3>2, <3>3, <3>4 DEF Carries, Last
  <2>3. QED BY <2>1, <2>2
<1>8. QED BY <1>5, <1>6, <1>7 DEF TcpInv

\* q reads the bytes x, its old ones and new ones, and w stay on the wire.
Taken(q, x, w) ==
  /\ x \in Seq(Byte) /\ w \in Seq(Byte) /\ Stream(Other(q)) = x \o w
  /\ Stream(Other(q)) \in Streams /\ Cut(x, w, Stream(Other(q)))
  /\ readLoop[x].arrays \in Seq(Messages) /\ readLoop[x].rest \in Partials
  /\ wire' = [wire EXCEPT ![Other(q)] = w]
  /\ buf' = [buf EXCEPT ![q] = readLoop[x].rest]
  /\ received' = [received EXCEPT ![q] = received[q] \o readLoop[x].arrays]

LEMMA ReadyRead ==
  ASSUME TcpInv, NEW q \in Peers, onReadyRead(q)
  PROVE  \E x, w : Taken(q, x, w)
<1> USE PeerFacts
<1>1. PICK p \in Peers : p = Other(q)
  OBVIOUS
<1>2. /\ sock[q] = "connected" /\ wire \in [Peers -> Seq(Byte)] /\ buf \in [Peers -> Seq(Byte)]
  BY ByteIsBytes DEF onReadyRead, TcpInv, TypeOK
<1>3. PICK n \in 1 .. Len(wire[p]) :
        /\ wire' = [wire EXCEPT ![p] = SubSeq(wire[p], n + 1, Len(wire[p]))]
        /\ buf' = [buf EXCEPT ![q] = readLoop[buf[q] \o SubSeq(wire[p], 1, n)].rest]
        /\ received' = [received EXCEPT ![q] =
                          received[q] \o readLoop[buf[q] \o SubSeq(wire[p], 1, n)].arrays]
  BY <1>1, Zenon DEF onReadyRead
<1>4. PICK b \in Seq(Byte), s \in Seq(Byte) : b = buf[q] /\ s = wire[p]
  BY <1>2
<1>5. n \in 1 .. Len(s) /\ Len(s) \in Nat
  BY <1>4
<1>6. PICK t \in Seq(Byte), w \in Seq(Byte) : t = SubSeq(s, 1, n) /\ w = SubSeq(s, n + 1, Len(s))
  <2>1. SubSeq(s, 1, n) \in Seq(Byte) /\ SubSeq(s, n + 1, Len(s)) \in Seq(Byte)
    BY <1>5
  <2>2. QED BY <2>1
<1>7. s = t \o w
  <2>1. 1 \in 1 .. Len(s) + 1 /\ n \in (1 - 1) .. Len(s) /\ Len(s) \in n .. Len(s)
    BY <1>5
  <2>2. SubSeq(s, 1, n) \o SubSeq(s, n + 1, Len(s)) = SubSeq(s, 1, Len(s))
    BY <2>1, ConcatAdjacentSubSeq
  <2>3. QED BY <1>6, <2>2, SubSeqFull
<1>8. PICK x \in Seq(Byte) : x = b \o t
  BY ConcatProperties
<1>9. Stream(p) = x \o w
  <2>1. (b \o t) \o w = b \o (t \o w)
    <3>1. Regroups(b, t, w)
      BY Regrouping
    <3>2. QED BY <3>1, Zenon DEF Regroups
  <2>2. Stream(p) = b \o s
    BY <1>1, <1>4 DEF Stream
  <2>3. QED BY <1>7, <1>8, <2>1, <2>2
<1>10. Stream(p) \in Streams
  BY <1>1, <1>2 DEF TcpInv, Carries, Gone
<1>11. Cut(x, w, Stream(p))
  BY <1>9, <1>10, CutStream
<1>12. readLoop[x].arrays \in Seq(Messages) /\ readLoop[x].rest \in Partials
  BY <1>11, StreamTypes DEF Cut
<1>13. /\ wire' = [wire EXCEPT ![p] = w] /\ buf' = [buf EXCEPT ![q] = readLoop[x].rest]
       /\ received' = [received EXCEPT ![q] = received[q] \o readLoop[x].arrays]
  BY <1>3, <1>4, <1>6, <1>8, Zenon
<1>14. Taken(q, x, w)
  BY <1>1, <1>9, <1>10, <1>11, <1>12, <1>13, Zenon DEF Taken
<1>15. QED BY <1>14

LEMMA OnReadyReadInv ==
  ASSUME TcpInv, NEW q \in Peers, onReadyRead(q) PROVE TcpInv'
<1> USE PeerFacts
<1>1. PICK x, w : Taken(q, x, w)
  BY ReadyRead
<1>2. PICK p \in Peers : p = Other(q) /\ q = Other(p) /\ p # q
  OBVIOUS
<1>3. /\ sock[q] = "connected" /\ sock' = sock /\ UNCHANGED <<listening, backlog, clients, sent>>
      /\ wire[p] # <<>>
  BY <1>2 DEF onReadyRead
<1>4. /\ wire \in [Peers -> Seq(Byte)] /\ buf \in [Peers -> Seq(Byte)]
      /\ received \in [Peers -> Seq(Messages)]
  BY ByteIsBytes DEF TcpInv, TypeOK
<1>5. PICK r : r = readLoop[x]
  OBVIOUS
<1>6. /\ r.rest \in Partials /\ r.rest \in Seq(Byte) /\ r.arrays \in Seq(Messages) /\ w \in Seq(Byte)
      /\ wire' = [wire EXCEPT ![p] = w] /\ buf' = [buf EXCEPT ![q] = r.rest]
      /\ received' = [received EXCEPT ![q] = received[q] \o r.arrays]
  BY <1>1, <1>2, <1>5, EmptyPartial DEF Taken
<1>7. TypeOK'
  <2>1. wire' \in [Peers -> Seq(Byte)] /\ buf' \in [Peers -> Seq(Byte)]
    BY <1>4, <1>6
  <2>2. received' \in [Peers -> Seq(Messages)]
    <3>1. received[q] \o r.arrays \in Seq(Messages)
      BY <1>4, <1>6, ConcatProperties
    <3>2. QED BY <1>4, <1>6, <3>1
  <2>3. QED BY <1>3, <2>1, <2>2, ByteIsBytes DEF TcpInv, TypeOK
<1>8. ~Young(p) /\ ~Young(q)
  BY <1>3 DEF TcpInv, Lives, Young
<1>9. \A o \in Peers : (o # p => wire'[o] = wire[o]) /\ (o # q => buf'[o] = buf[o])
  BY <1>4, <1>6
<1>10. Lives'
  <2>1. \A o \in Peers : Young(o)' <=> Young(o)
    BY <1>3 DEF Young
  <2>2. ASSUME NEW o \in Peers, Young(o) PROVE wire'[o] = <<>> /\ buf'[o] = <<>> /\ buf'[Other(o)] = <<>>
    BY <1>2, <1>8, <1>9, <2>2 DEF TcpInv, Lives
  <2>3. QED BY <1>3, <2>1, <2>2 DEF TcpInv, Lives
<1>11. ASSUME NEW o \in Peers PROVE Carries(o)'
  <2>1. CASE o # p
    BY <1>2, <1>3, <1>9, <2>1, CarriesKept DEF TcpInv, Gone
  <2>2. CASE o = p
    <3>1. Stream(p)' = r.rest \o w /\ buf'[q] = r.rest
      BY <1>2, <1>4, <1>6 DEF Stream
    <3>2. r.rest \o w \in Streams /\ readLoop[Stream(p)].rest = readLoop[r.rest \o w].rest
      BY <1>1, <1>2, <1>5 DEF Taken, Cut
    <3>3. sock[p] = "connected" => readLoop[Stream(p)].rest = <<>>
      BY <1>2, <1>3 DEF TcpInv, Carries, Gone
    <3>4. QED BY <1>2, <1>3, <1>6, <2>2, <3>1, <3>2, <3>3 DEF Carries
  <2>3. QED BY <2>1, <2>2
<1>12. QED BY <1>7, <1>10, <1>11 DEF TcpInv

\* A stream whose end is lost.
LEMMA PrefixStream ==
  ASSUME TcpInv, NEW p \in Peers, ~Gone(Other(p)), NEW t \in Prefixes(wire[p])
  PROVE  /\ t \in Seq(Byte) /\ buf[Other(p)] \o t \in Streams
         /\ \E w : Cut(buf[Other(p)] \o t, w, Stream(p))
<1>1. PICK b \in Seq(Byte), s \in Seq(Byte) : b = buf[Other(p)] /\ s = wire[p]
  BY PeerFacts, ByteIsBytes DEF TcpInv, TypeOK
<1>2. PICK n \in 0 .. Len(s) : t = SubSeq(s, 1, n)
  BY <1>1 DEF Prefixes
<1>3. Len(s) \in Nat
  OBVIOUS
<1>4. PICK u \in Seq(Byte), w \in Seq(Byte) : u = SubSeq(s, 1, n) /\ w = SubSeq(s, n + 1, Len(s))
  <2>1. SubSeq(s, 1, n) \in Seq(Byte) /\ SubSeq(s, n + 1, Len(s)) \in Seq(Byte)
    BY <1>3
  <2>2. QED BY <2>1
<1>5. s = u \o w
  <2>1. 1 \in 1 .. Len(s) + 1 /\ n \in (1 - 1) .. Len(s) /\ Len(s) \in n .. Len(s)
    BY <1>3
  <2>2. SubSeq(s, 1, n) \o SubSeq(s, n + 1, Len(s)) = SubSeq(s, 1, Len(s))
    BY <2>1, ConcatAdjacentSubSeq
  <2>3. QED BY <1>4, <2>2, SubSeqFull
<1>6. PICK x \in Seq(Byte) : x = b \o u
  BY ConcatProperties
<1>7. Stream(p) = x \o w
  <2>1. Regroups(b, u, w)
    BY Regrouping
  <2>2. QED BY <1>1, <1>5, <1>6, <2>1, Zenon DEF Stream, Regroups
<1>8. Stream(p) \in Streams
  BY DEF TcpInv, Carries
<1>9. Cut(x, w, Stream(p))
  BY <1>7, <1>8, CutStream
<1>10. t = u /\ x = buf[Other(p)] \o t
  BY <1>1, <1>2, <1>4, <1>6
<1>11. QED BY <1>9, <1>10, Zenon DEF Cut

LEMMA DestroyedInv ==
  ASSUME TcpInv, NEW P \in SUBSET Peers, destroyed(P)
  PROVE  /\ sock' \in [Peers -> States] /\ wire' \in [Peers -> Seq(Byte)]
         /\ buf' \in [Peers -> Seq(Byte)]
         /\ \A p \in Peers : /\ sock'[p] = IF p \in P THEN "deleted" ELSE sock[p]
                             /\ p \notin P => wire'[p] = wire[p] /\ buf'[p] = buf[p]
                             /\ p \in P => wire'[p] \in Prefixes(wire[p]) /\ buf'[p] = <<>>
         /\ \A p \in Peers : Young(p)' <=> Young(p) /\ p \notin P
         /\ \A p \in Peers : Young(p)' => wire'[p] = <<>> /\ buf'[p] = <<>> /\ buf'[Other(p)] = <<>>
         /\ \A p \in Peers : Gone(p)' <=> Gone(p) \/ p \in P
         /\ \A p \in Peers : Carries(p)'
<1> USE PeerFacts
<1>1. /\ sock \in [Peers -> States] /\ wire \in [Peers -> Seq(Byte)] /\ buf \in [Peers -> Seq(Byte)]
  BY ByteIsBytes DEF TcpInv, TypeOK
<1>2. PICK left \in [P -> UNION {Prefixes(wire[p]) : p \in P}] :
        /\ \A p \in P : left[p] \in Prefixes(wire[p])
        /\ wire' = [p \in Peers |-> IF p \in P THEN left[p] ELSE wire[p]]
  BY DEF destroyed
<1>3. \A p \in Peers : /\ sock'[p] = IF p \in P THEN "deleted" ELSE sock[p]
                       /\ p \notin P => wire'[p] = wire[p] /\ buf'[p] = buf[p]
                       /\ p \in P => wire'[p] \in Prefixes(wire[p]) /\ buf'[p] = <<>>
  BY <1>2 DEF destroyed
<1>4. sock' \in [Peers -> States] /\ buf' \in [Peers -> Seq(Byte)]
  BY <1>1, EmptySeq DEF destroyed, States
<1>5. ASSUME NEW p \in Peers PROVE wire'[p] \in Seq(Byte)
  <2>1. CASE p \in P
    <3>1. PICK s \in Seq(Byte) : s = wire[p]
      BY <1>1
    <3>2. PICK n \in 0 .. Len(s) : wire'[p] = SubSeq(s, 1, n)
      BY <1>3, <2>1, <3>1 DEF Prefixes
    <3>3. SubSeq(s, 1, n) \in Seq(Byte)
      OBVIOUS
    <3>4. QED BY <3>2, <3>3
  <2>2. QED BY <1>1, <1>3, <2>1
<1>6. wire' \in [Peers -> Seq(Byte)]
  BY <1>2, <1>5
<1>7. \A p \in Peers : (Young(p)' <=> Young(p) /\ p \notin P) /\ (Gone(p)' <=> Gone(p) \/ p \in P)
  BY <1>3 DEF Young, Gone
<1>8. \A p \in Peers : Young(p)' => wire'[p] = <<>> /\ buf'[p] = <<>> /\ buf'[Other(p)] = <<>>
  BY <1>3, <1>7 DEF TcpInv, Lives
<1>9. ASSUME NEW p \in Peers PROVE Carries(p)'
  <2>1. CASE p \notin P
    BY <1>3, <1>7, <2>1, CarriesKept DEF TcpInv
  <2>2. CASE p \in P
    <3> SUFFICES ASSUME ~Gone(Other(p))' PROVE Carries(p)'
      BY DEF Carries
    <3>1. ~Gone(Other(p)) /\ Other(p) \notin P /\ buf'[Other(p)] = buf[Other(p)]
      BY <1>3, <1>7
    <3>2. wire'[p] \in Prefixes(wire[p]) /\ sock'[p] = "deleted"
      BY <1>3, <2>2
    <3>3. buf[Other(p)] \o wire'[p] \in Streams
      BY <3>1, <3>2, PrefixStream
    <3>4. buf[Other(p)] \in Partials
      BY <3>1 DEF TcpInv, Carries
    <3>5. QED BY <3>1, <3>2, <3>3, <3>4 DEF Carries, Stream
  <2>3. QED BY <2>1, <2>2
<1>10. QED BY <1>3, <1>4, <1>6, <1>7, <1>8, <1>9

LEMMA OnDisconnectedInv ==
  ASSUME TcpInv, NEW q \in Peers, onDisconnected(q) PROVE TcpInv'
<1> USE PeerFacts
<1>1. /\ sock \in [Peers -> States] /\ buf \in [Peers -> Seq(Byte)]
      /\ sock[q] = "connected" /\ ~Young(q)
  BY ByteIsBytes DEF TcpInv, TypeOK, onDisconnected, Young
<1>2. /\ sock' \in [Peers -> States] /\ buf' \in [Peers -> Seq(Byte)]
      /\ \A p \in Peers : sock'[p] = IF p = q THEN "closed" ELSE sock[p]
      /\ \A p \in Peers : buf'[p] = IF p = q THEN <<>> ELSE buf[p]
  BY <1>1, EmptySeq DEF onDisconnected, States
<1>3. \A p \in Peers : (Young(p)' <=> Young(p)) /\ (Gone(p)' <=> Gone(p) \/ p = q)
  BY <1>1, <1>2 DEF Young, Gone
<1>4. clients' = {c \in Clients : sock'[Server(c)] = "connected"}
  <2>1. CASE q[2] = "server"
    <3>1. q = Server(q[1]) /\ q[1] \in Clients
      BY <2>1
    <3>2. clients' = clients \ {q[1]}
      BY <2>1 DEF onDisconnected, clientDisconnectedSRV
    <3>3. QED BY <1>1, <1>2, <3>1, <3>2 DEF TcpInv, TypeOK
  <2>2. CASE q[2] # "server"
    <3>1. clients' = clients /\ \A c \in Clients : q # Server(c)
      BY <2>2 DEF onDisconnected, clientDisconnectedSRV, Server
    <3>2. QED BY <1>2, <3>1 DEF TcpInv, TypeOK
  <2>3. QED BY <2>1, <2>2
<1>5. TypeOK'
  BY <1>2, <1>4, ByteIsBytes DEF onDisconnected, TcpInv, TypeOK
<1>6. Lives'
  <2>1. \A c \in Clients : sock[Server(c)] = "idle" => sock'[Server(c)] = "idle"
    BY <1>1, <1>2
  <2>2. backlog' = backlog /\ backlog \subseteq Clients /\ wire' = wire
    BY DEF onDisconnected, TcpInv, TypeOK
  <2>3. ASSUME NEW p \in Peers, Young(p) PROVE wire'[p] = <<>> /\ buf'[p] = <<>> /\ buf'[Other(p)] = <<>>
    BY <1>2, <2>2, <2>3 DEF TcpInv, Lives
  <2>4. QED BY <1>3, <2>1, <2>2, <2>3 DEF TcpInv, Lives
<1>7. ASSUME NEW p \in Peers PROVE Carries(p)'
  BY <1>2, <1>3, CarriesKept DEF TcpInv, onDisconnected
<1>8. QED BY <1>5, <1>6, <1>7 DEF TcpInv

LEMMA DeferredDeleteInv ==
  ASSUME TcpInv, NEW c \in Clients, deferredDelete(c) PROVE TcpInv'
<1> USE PeerFacts
<1>1. sock \in [Peers -> States] /\ sock[Server(c)] = "closed" /\ wire' = wire /\ buf' = buf
  BY DEF TcpInv, TypeOK, deferredDelete
<1>2. /\ sock' \in [Peers -> States]
      /\ \A p \in Peers : sock'[p] = IF p = Server(c) THEN "deleted" ELSE sock[p]
  BY <1>1 DEF deferredDelete, States
<1>3. \A p \in Peers : (Young(p)' <=> Young(p)) /\ (Gone(p)' <=> Gone(p))
  BY <1>1, <1>2 DEF Young, Gone
<1>4. TypeOK'
  BY <1>1, <1>2 DEF deferredDelete, TcpInv, TypeOK
<1>5. Lives'
  <2>1. \A d \in Clients : sock[Server(d)] = "idle" => sock'[Server(d)] = "idle"
    BY <1>1, <1>2
  <2>2. backlog' = backlog /\ backlog \subseteq Clients
    BY DEF deferredDelete, TcpInv, TypeOK
  <2>3. QED BY <1>1, <1>3, <2>1, <2>2 DEF TcpInv, Lives
<1>6. ASSUME NEW p \in Peers PROVE Carries(p)'
  BY <1>1, <1>2, <1>3, CarriesKept DEF TcpInv
<1>7. QED BY <1>4, <1>5, <1>6 DEF TcpInv

LEMMA DestroyClientPeerInv ==
  ASSUME TcpInv, NEW c \in Clients, destroyClientPeer(c) PROVE TcpInv'
<1> USE PeerFacts
<1>1. {Client(c)} \in SUBSET Peers /\ destroyed({Client(c)}) /\ backlog \subseteq Clients
      /\ UNCHANGED <<listening, backlog, clients, sent, received>>
  BY DEF destroyClientPeer, TcpInv, TypeOK
<1>2. /\ sock' \in [Peers -> States] /\ wire' \in [Peers -> Seq(Byte)] /\ buf' \in [Peers -> Seq(Byte)]
      /\ \A p \in Peers : sock'[p] = IF p \in {Client(c)} THEN "deleted" ELSE sock[p]
      /\ \A p \in Peers : Young(p)' <=> Young(p) /\ p \notin {Client(c)}
      /\ \A p \in Peers : Young(p)' => wire'[p] = <<>> /\ buf'[p] = <<>> /\ buf'[Other(p)] = <<>>
      /\ \A p \in Peers : Carries(p)'
  BY <1>1, DestroyedInv
<1>3. \A d \in Clients : sock'[Server(d)] = sock[Server(d)]
  BY <1>2
<1>4. TypeOK'
  BY <1>1, <1>2, <1>3, ByteIsBytes DEF TcpInv, TypeOK
<1>5. Lives'
  BY <1>1, <1>2, <1>3 DEF TcpInv, Lives
<1>6. QED BY <1>2, <1>4, <1>5 DEF TcpInv

LEMMA DestroyServerInv ==
  ASSUME TcpInv, destroyServer PROVE TcpInv'
<1> USE PeerFacts
<1>1. backlog \subseteq Clients /\ clients = {c \in Clients : sock[Server(c)] = "connected"}
  BY DEF TcpInv, TypeOK
<1>2. PICK P \in SUBSET Peers : P = {Server(c) : c \in clients \cup backlog}
  <2>1. \A c \in clients \cup backlog : Server(c) \in Peers
    BY <1>1
  <2>2. {Server(c) : c \in clients \cup backlog} \in SUBSET Peers
    BY <2>1
  <2>3. QED BY <2>2
<1>3. /\ destroyed(P) /\ listening' \in BOOLEAN /\ clients' = {} /\ backlog' = {}
      /\ UNCHANGED <<sent, received>>
  BY <1>2 DEF destroyServer
<1>4. /\ sock' \in [Peers -> States] /\ wire' \in [Peers -> Seq(Byte)] /\ buf' \in [Peers -> Seq(Byte)]
      /\ \A p \in Peers : sock'[p] = IF p \in P THEN "deleted" ELSE sock[p]
      /\ \A p \in Peers : Young(p)' <=> Young(p) /\ p \notin P
      /\ \A p \in Peers : Young(p)' => wire'[p] = <<>> /\ buf'[p] = <<>> /\ buf'[Other(p)] = <<>>
      /\ \A p \in Peers : Carries(p)'
  BY <1>3, DestroyedInv
<1>5. ASSUME NEW c \in Clients PROVE sock'[Server(c)] # "connected"
  <2>1. CASE c \in clients
    <3>1. Server(c) \in P
      BY <1>2, <2>1
    <3>2. QED BY <1>4, <3>1
  <2>2. CASE c \notin clients
    <3>1. sock[Server(c)] # "connected"
      BY <1>1, <2>2
    <3>2. QED BY <1>4, <3>1
  <2>3. QED BY <2>1, <2>2
<1>6. TypeOK'
  BY <1>3, <1>4, <1>5, ByteIsBytes DEF TcpInv, TypeOK
<1>7. Lives'
  <2>1. ASSUME NEW c \in Clients, Young(Client(c)) PROVE sock'[Server(c)] = "idle"
    <3>1. sock[Server(c)] = "idle" /\ c \notin backlog
      BY <2>1 DEF TcpInv, Lives
    <3>2. Server(c) \notin P
      BY <1>1, <1>2, <3>1
    <3>3. QED BY <1>4, <3>1, <3>2
  <2>2. QED BY <1>3, <1>4, <2>1 DEF Lives
<1>8. QED BY <1>4, <1>6, <1>7 DEF TcpInv

LEMMA StutterInv == ASSUME TcpInv, UNCHANGED vars PROVE TcpInv'
<1>1. TypeOK' /\ Lives'
  BY DEF vars, TcpInv, TypeOK, Lives, Young
<1>2. ASSUME NEW p \in Peers PROVE Carries(p)'
  BY PeerFacts, CarriesKept DEF vars, TcpInv, Gone
<1>3. QED BY <1>1, <1>2 DEF TcpInv

LEMMA TcpStep == TcpInv /\ [Next]_vars => TcpInv'
<1> SUFFICES ASSUME TcpInv, [Next]_vars PROVE TcpInv'
  OBVIOUS
<1> USE StartServerInv, DestroyServerInv, StartConnectionInv, ConnectionEstablishedInv,
        IncomingConnectionInv, DeferredDeleteInv, DestroyClientPeerInv, SendArrayInv,
        OnReadyReadInv, OnDisconnectedInv, StutterInv
<1>1. QED BY Zenon DEF Next

\* The invariant: the lives of the peers, and whole blocks of messages in every
\* stream, however it is cut and whoever goes away.
THEOREM TcpInvariant == Spec => []TcpInv
<1>1. QED BY TcpInit, TcpStep, PTL DEF Spec

\* Types: a peer signals messages that were sent and nothing else, and
\* m_clients holds exactly the peers of the server that are connected.
THEOREM TcpTypes == Spec => []TypeOK
<1>1. TcpInv => TypeOK
  BY DEF TcpInv
<1>2. QED BY <1>1, TcpInvariant, PTL

-----------------------------------------------------------------------------
(* The stream implements the channel                                       *)

ends == [p \in Peers |-> EndOf(sock[p])]
chans == [p \in Peers |-> UnderWay(p)]

LEMMA Ends ==
  /\ EndOf("idle") = "new" /\ EndOf("connecting") = "new" /\ EndOf("connected") = "open"
  /\ EndOf("closed") = "closed" /\ EndOf("deleted") = "deleted"
BY DEF EndOf

LEMMA EndsOf ==
  ASSUME sock \in [Peers -> States], NEW p \in Peers
  PROVE  /\ ends[p] = "new" <=> Young(p)
         /\ ends[p] = "open" <=> sock[p] = "connected"
         /\ ends[p] = "closed" <=> sock[p] = "closed"
         /\ ends[p] = "deleted" <=> sock[p] = "deleted"
         /\ ends[p] \in {"closed", "deleted"} <=> Gone(p)
<1>1. sock[p] \in States /\ ends[p] = EndOf(sock[p])
  BY DEF ends
<1>2. QED BY <1>1, Ends DEF States, Young, Gone

LEMMA ChansKept ==
  ASSUME \A p \in Peers : Gone(p)' <=> Gone(p), UNCHANGED <<wire, buf>>
  PROVE  chans' = chans
BY PeerFacts DEF chans, UnderWay, Gone

LEMMA ChansOf ==
  ASSUME TcpInv, NEW p \in Peers
  PROVE  /\ chans[p] = IF Gone(Other(p)) THEN <<>> ELSE readLoop[Stream(p)].arrays
         /\ chans[p] \in Seq(Messages)
<1>1. chans[p] = IF Gone(Other(p)) THEN <<>> ELSE readLoop[Stream(p)].arrays
  BY DEF chans, UnderWay, Gone, Stream
<1>2. CASE Gone(Other(p))
  BY <1>1, <1>2, EmptySeq
<1>3. CASE ~Gone(Other(p))
  <2>1. Stream(p) \in Streams
    BY <1>3 DEF TcpInv, Carries
  <2>2. QED BY <1>1, <1>3, <2>1, StreamTypes
<1>4. QED BY <1>1, <1>2, <1>3

\* A primed ChansOf.
LEMMA ChansNext ==
  ASSUME NEW p \in Peers
  PROVE  chans'[p] = IF Gone(Other(p))' THEN <<>> ELSE readLoop[Stream(p)'].arrays
BY DEF chans, UnderWay, Gone, Stream

LEMMA SamePeers ==
  /\ Channel!Peers = Peers
  /\ \A p : Channel!Other(p) = Other(p)
  /\ \A s : Channel!Prefixes(s) = Prefixes(s)
BY DEF Channel!Peers, Peers, Channel!Other, Other, Channel!Prefixes, Prefixes

LEMMA ChannelInit == Init => Channel!Init
<1> SUFFICES ASSUME Init PROVE Channel!Init
  OBVIOUS
<1>1. ends = [p \in Peers |-> "new"]
  BY Ends DEF Init, ends
<1>2. chans = [p \in Peers |-> <<>>]
  <2>1. \A p \in Peers : chans[p] = <<>>
    <3> SUFFICES ASSUME NEW p \in Peers PROVE chans[p] = <<>>
      OBVIOUS
    <3>1. \A e \in Partials : readLoop[e] = [arrays |-> <<>>, rest |-> e]
      BY ReadPartial
    <3>2. readLoop[<<>>] = [arrays |-> <<>>, rest |-> <<>>]
      BY <3>1, EmptyStream
    <3>3. Stream(p) = <<>>
      BY PeerFacts, EmptyStream DEF Init, Stream
    <3>4. QED BY <3>2, <3>3, TcpInit, ChansOf
  <2>2. QED BY <2>1 DEF chans
<1>3. QED BY <1>1, <1>2, SamePeers DEF Init, Channel!Init, ends, chans

\* The server starts, a client tries or is refused: nothing to see.
LEMMA AttemptMapped ==
  ASSUME TcpInv, startServer \/ (\E c \in Clients : startConnection(c) \/ connectionRefused(c))
  PROVE  UNCHANGED <<ends, chans, received>>
<1> USE PeerFacts
<1>1. sock \in [Peers -> States]
  BY DEF TcpInv, TypeOK
<1>2. CASE startServer
  BY <1>2 DEF startServer, ends, chans, UnderWay
<1>3. ASSUME NEW c \in Clients, startConnection(c) \/ connectionRefused(c)
      PROVE  UNCHANGED <<ends, chans, received>>
  <2>1. PICK v \in {"idle", "connecting"} : sock' = [sock EXCEPT ![Client(c)] = v]
    BY <1>3 DEF startConnection, connectionRefused
  <2>2. Young(Client(c)) /\ UNCHANGED <<wire, buf, received>>
    BY <1>3 DEF startConnection, connectionRefused, Young
  <2>3. \A p \in Peers : Gone(p)' <=> Gone(p)
    BY <1>1, <2>1, <2>2 DEF Gone, Young
  <2>4. EndOf(v) = "new" /\ ends[Client(c)] = "new"
    BY <1>1, <2>2, Ends, EndsOf
  <2>5. ends' = [ends EXCEPT ![Client(c)] = "new"]
    BY <1>1, <2>1, <2>4 DEF ends
  <2>6. QED BY <2>2, <2>3, <2>4, <2>5, ChansKept DEF ends
<1>4. QED BY <1>2, <1>3

LEMMA EstablishedMapped ==
  ASSUME TcpInv, NEW c \in Clients, connectionEstablished(c)
  PROVE  Channel!emitSigConnectionEstablished(c)
<1> USE PeerFacts
<1>1. /\ sock \in [Peers -> States] /\ Young(Client(c)) /\ UNCHANGED <<wire, buf, received>>
      /\ sock' = [sock EXCEPT ![Client(c)] = "connected"]
  BY DEF TcpInv, TypeOK, connectionEstablished, Young
<1>2. \A p \in Peers : Gone(p)' <=> Gone(p)
  BY <1>1 DEF Gone, Young
<1>3. ends[Client(c)] = "new"
  BY <1>1, EndsOf
<1>5. ends' = [ends EXCEPT ![Client(c)] = "open"]
  BY <1>1, Ends DEF ends
<1>4. QED BY <1>1, <1>2, <1>3, <1>5, ChansKept
  DEF Channel!emitSigConnectionEstablished, ends, chans, Client

LEMMA ClientConnectedMapped ==
  ASSUME TcpInv, NEW c \in Clients, incomingConnection(c)
  PROVE  Channel!emitSigClientConnected(c)
<1> USE PeerFacts
<1>1. /\ sock \in [Peers -> States] /\ Young(Server(c)) /\ UNCHANGED <<wire, buf, received>>
      /\ sock' = [sock EXCEPT ![Server(c)] = "connected"]
  BY DEF TcpInv, TypeOK, Lives, incomingConnection, Young
<1>2. \A p \in Peers : Gone(p)' <=> Gone(p)
  BY <1>1 DEF Gone, Young
<1>3. ends[Server(c)] = "new"
  BY <1>1, EndsOf
<1>5. ends' = [ends EXCEPT ![Server(c)] = "open"]
  BY <1>1, Ends DEF ends
<1>4. QED BY <1>1, <1>2, <1>3, <1>5, ChansKept
  DEF Channel!emitSigClientConnected, ends, chans, Server

\* A message sent to an end that is gone is lost at once.
LEMMA SendMapped ==
  ASSUME TcpInv, NEW p \in Peers, NEW m \in Messages, sendArray(p, m)
  PROVE  Channel!sendArray(p, m) \/ UNCHANGED <<ends, chans, received>>
<1> USE PeerFacts
<1>1. /\ sock \in [Peers -> States] /\ UNCHANGED <<sock, buf, received>> /\ sock[p] = "connected"
      /\ wire \in [Peers -> Seq(Byte)] /\ buf \in [Peers -> Seq(Byte)]
      /\ wire' = [wire EXCEPT ![p] = wire[p] \o Block(m)]
  BY ByteIsBytes DEF TcpInv, TypeOK, sendArray
<1>2. \A q \in Peers : Gone(q)' <=> Gone(q)
  BY <1>1 DEF Gone
<1>3. ends' = ends /\ ends[p] = "open"
  BY <1>1, EndsOf DEF ends
<1>4. \A q \in Peers : q # p => chans'[q] = chans[q]
  <2> SUFFICES ASSUME NEW q \in Peers, q # p PROVE chans'[q] = chans[q]
    OBVIOUS
  <2>1. Stream(q)' = Stream(q)
    BY <1>1 DEF Stream
  <2>2. QED BY <1>2, <2>1, ChansOf, ChansNext
<1>5. DOMAIN chans = Peers /\ DOMAIN chans' = Peers
  BY DEF chans
<1>6. CASE Gone(Other(p))
  <2>1. chans'[p] = chans[p]
    BY <1>2, <1>6, ChansOf, ChansNext
  <2>2. chans' = chans
    BY <1>4, <2>1 DEF chans
  <2>3. QED BY <1>1, <1>3, <2>2
<1>7. CASE ~Gone(Other(p))
  <2>1. Last(m, Stream(p))
    BY <1>1, <1>7, AppendBlock DEF TcpInv, Carries
  <2>2. Stream(p)' = Stream(p) \o Block(m)
    <3>1. PICK s \in Seq(Byte), t \in Seq(Byte), B \in Seq(Byte) :
            s = buf[Other(p)] /\ t = wire[p] /\ B = Block(m)
      BY <1>1, BlockTypes
    <3>2. Regroups(s, t, B)
      BY Regrouping
    <3>3. Stream(p)' = s \o (t \o B)
      BY <1>1, <3>1 DEF Stream
    <3>4. QED BY <3>1, <3>2, <3>3, Zenon DEF Stream, Regroups
  <2>3. chans'[p] = Append(chans[p], m)
    BY <1>2, <1>7, <2>1, <2>2, ChansOf, ChansNext DEF Last
  <2>4. chans' = [chans EXCEPT ![p] = Append(chans[p], m)]
    BY <1>4, <2>3 DEF chans
  <2>5. QED BY <1>1, <1>3, <2>4 DEF Channel!sendArray, ends, chans
<1>8. QED BY <1>6, <1>7

LEMMA ReadMapped ==
  ASSUME TcpInv, NEW q \in Peers, onReadyRead(q)
  PROVE  \/ \E p \in Peers : \E n \in 1 .. Len(chans[p]) : Channel!emitMessageReceived(p, n)
         \/ UNCHANGED <<ends, chans, received>>
<1> USE PeerFacts
<1>1. PICK x, w : Taken(q, x, w)
  BY ReadyRead
<1>2. PICK p \in Peers : p = Other(q) /\ q = Other(p) /\ p # q
  OBVIOUS
<1>3. /\ sock \in [Peers -> States] /\ sock' = sock /\ sock[q] = "connected" /\ ~Gone(q)
      /\ wire \in [Peers -> Seq(Byte)] /\ buf \in [Peers -> Seq(Byte)]
      /\ received \in [Peers -> Seq(Messages)]
  BY ByteIsBytes DEF TcpInv, TypeOK, onReadyRead, Gone
<1>4. \A o \in Peers : Gone(o)' <=> Gone(o)
  BY <1>3 DEF Gone
<1>5. ends' = ends /\ ends[q] = "open"
  BY <1>3, EndsOf DEF ends
<1>6. /\ wire' = [wire EXCEPT ![p] = w] /\ buf' = [buf EXCEPT ![q] = readLoop[x].rest]
      /\ received' = [received EXCEPT ![q] = received[q] \o readLoop[x].arrays]
  BY <1>1, <1>2 DEF Taken
<1>7. \A o \in Peers : (o # p => wire'[o] = wire[o]) /\ (o # q => buf'[o] = buf[o])
  BY <1>3, <1>6
<1>8. \A o \in Peers : o # p => chans'[o] = chans[o]
  <2> SUFFICES ASSUME NEW o \in Peers, o # p PROVE chans'[o] = chans[o]
    OBVIOUS
  <2>0. Other(o) # q /\ Other(o) \in Peers
    BY <1>2
  <2>1. Stream(o)' = Stream(o)
    BY <1>7, <2>0 DEF Stream
  <2>2. QED BY <1>4, <2>1, ChansOf, ChansNext
<1>9. Stream(p)' = readLoop[x].rest \o w
  BY <1>2, <1>3, <1>6 DEF Stream
<1>10. PICK a \in Seq(Messages), c \in Seq(Messages) :
         a = readLoop[x].arrays /\ c = readLoop[readLoop[x].rest \o w].arrays
  BY <1>1, StreamTypes DEF Taken, Cut
<1>11. chans[p] = a \o c /\ chans'[p] = c
  <2>1. chans[p] = readLoop[Stream(p)].arrays /\ chans'[p] = readLoop[Stream(p)'].arrays
    BY <1>2, <1>3, <1>4, ChansOf, ChansNext
  <2>2. readLoop[Stream(p)].arrays = a \o c
    BY <1>1, <1>2, <1>10 DEF Taken, Cut
  <2>3. QED BY <1>9, <1>10, <2>1, <2>2
<1>12. CASE a = <<>>
  <2>1. chans'[p] = chans[p]
    BY <1>11, <1>12, ConcatEmptySeq
  <2>2. chans' = chans
    BY <1>8, <2>1 DEF chans
  <2>3. received[q] \o a = received[q]
    BY <1>3, <1>12, ConcatEmptySeq
  <2>4. received' = received
    BY <1>3, <1>6, <1>10, <2>3
  <2>5. QED BY <1>5, <2>2, <2>4
<1>13. CASE a # <<>>
  <2>1. Len(a) \in Nat /\ Len(a) >= 1 /\ Len(c) \in Nat /\ Len(a \o c) = Len(a) + Len(c)
    BY <1>13, ConcatProperties
  <2>2. Len(a) \in 1 .. Len(chans[p])
    BY <1>11, <2>1
  <2>3. SubSeq(chans[p], 1, Len(a)) = a /\ SubSeq(chans[p], Len(a) + 1, Len(chans[p])) = c
    BY <1>11, <2>1, TakeConcat
  <2>4. chans' = [chans EXCEPT ![p] = SubSeq(chans[p], Len(a) + 1, Len(chans[p]))]
    BY <1>8, <1>11, <2>3 DEF chans
  <2>5. received' = [received EXCEPT ![q] = received[q] \o SubSeq(chans[p], 1, Len(a))]
    BY <1>6, <1>10, <2>3
  <2>6. Channel!emitMessageReceived(p, Len(a))
    <3>1. Channel!Other(p) = q
      BY <1>2, SamePeers
    <3>2. QED BY <1>5, <2>4, <2>5, <3>1, Zenon DEF Channel!emitMessageReceived, ends, chans
  <2>7. QED BY <2>2, <2>6
<1>14. QED BY <1>12, <1>13

LEMMA ClosedMapped ==
  ASSUME TcpInv, NEW q \in Peers, onDisconnected(q)
  PROVE  Channel!onPeerClosed(q)
<1> USE PeerFacts
<1>1. /\ sock \in [Peers -> States] /\ buf \in [Peers -> Seq(Byte)]
      /\ sock[q] = "connected" /\ Gone(Other(q)) /\ ~Gone(q)
      /\ wire[Other(q)] = <<>> /\ wire' = wire /\ received' = received
      /\ sock' = [sock EXCEPT ![q] = "closed"] /\ buf' = [buf EXCEPT ![q] = <<>>]
  BY ByteIsBytes DEF TcpInv, TypeOK, onDisconnected, Gone
<1>2. ends[q] = "open" /\ ends[Other(q)] \in {"closed", "deleted"}
  BY <1>1, EndsOf
<1>3. ends' = [ends EXCEPT ![q] = "closed"]
  BY <1>1, Ends DEF ends
<1>4. \A p \in Peers : Gone(p)' <=> Gone(p) \/ p = q
  BY <1>1 DEF Gone
<1>5. chans[Other(q)] = <<>>
  <2>1. buf[q] \in Partials
    BY <1>1 DEF TcpInv, Carries
  <2>2. Stream(Other(q)) = buf[q]
    BY <1>1, ConcatEmptySeq DEF Stream
  <2>3. readLoop[buf[q]] = [arrays |-> <<>>, rest |-> buf[q]]
    BY <2>1, ReadPartial
  <2>4. chans[Other(q)] = readLoop[buf[q]].arrays
    BY <1>1, <2>2, ChansOf
  <2>5. QED BY <2>3, <2>4
<1>6. chans[q] = <<>> /\ chans'[q] = <<>> /\ chans'[Other(q)] = <<>>
  BY <1>1, <1>4, ChansOf, ChansNext
<1>7. \A p \in Peers : p # q /\ p # Other(q) => chans'[p] = chans[p]
  <2> SUFFICES ASSUME NEW p \in Peers, p # q, p # Other(q) PROVE chans'[p] = chans[p]
    OBVIOUS
  <2>1. Other(p) # q
    OBVIOUS
  <2>2. Stream(p)' = Stream(p)
    BY <1>1, <2>1 DEF Stream
  <2>3. QED BY <1>4, <2>1, <2>2, ChansOf, ChansNext
<1>8. chans' = [chans EXCEPT ![q] = <<>>]
  BY <1>5, <1>6, <1>7 DEF chans
<1>9. QED BY <1>1, <1>2, <1>3, <1>5, <1>8, SamePeers DEF Channel!onPeerClosed, ends, chans

LEMMA PrefixFacts ==
  ASSUME NEW S, NEW a \in Seq(S), NEW b \in Seq(S)
  PROVE  a \in Prefixes(a \o b) /\ <<>> \in Prefixes(a) /\ a \in Prefixes(a)
<1>1. Len(a) \in 0 .. Len(a \o b) /\ SubSeq(a \o b, 1, Len(a)) = a
  BY ConcatProperties, TakeConcat
<1>2. 0 \in 0 .. Len(a) /\ SubSeq(a, 1, 0) = <<>>
  BY SubSeqEmpty
<1>3. Len(a) \in 0 .. Len(a) /\ SubSeq(a, 1, Len(a)) = a
  BY SubSeqFull
<1>4. QED BY <1>1, <1>2, <1>3 DEF Prefixes

LEMMA DestroyMapped ==
  ASSUME TcpInv, NEW P \in SUBSET Peers, P # {}, \A p \in P : sock[p] # "deleted",
         received' = received, sock' \in [Peers -> States],
         \A p \in Peers : sock'[p] = IF p \in P THEN "deleted" ELSE sock[p],
         \A p \in Peers : /\ ~Gone(Other(p))' /\ p \in P => chans'[p] \in Prefixes(chans[p])
                          /\ ~Gone(Other(p))' /\ p \notin P => chans'[p] = chans[p]
  PROVE  Channel!destroy(P)
<1> USE PeerFacts
<1>1. sock \in [Peers -> States]
  BY DEF TcpInv, TypeOK
<1>2. \A p \in P : ends[p] # "deleted"
  BY <1>1, EndsOf
<1>3. ends' = [p \in Peers |-> IF p \in P THEN "deleted" ELSE ends[p]]
  <2>1. \A p \in Peers : ends'[p] = IF p \in P THEN "deleted" ELSE ends[p]
    BY Ends DEF ends
  <2>2. QED BY <2>1 DEF ends
<1>4. \A p \in Peers : /\ Gone(p)' => ends'[p] \in {"closed", "deleted"}
                       /\ ~Gone(p)' => ends'[p] \in {"new", "open"}
  <2> SUFFICES ASSUME NEW p \in Peers
               PROVE  /\ Gone(p)' => ends'[p] \in {"closed", "deleted"}
                      /\ ~Gone(p)' => ends'[p] \in {"new", "open"}
    OBVIOUS
  <2>1. sock'[p] \in States /\ ends'[p] = EndOf(sock'[p])
    BY DEF ends
  <2>2. QED BY <2>1, Ends DEF States, Gone
<1>5. \A p \in Peers : Gone(Other(p))' => chans'[p] = <<>>
  BY ChansNext
<1>6. ASSUME NEW p \in Peers PROVE chans'[p] \in Prefixes(chans[p])
  <2>1. PICK a \in Seq(Messages) : a = chans[p]
    BY ChansOf
  <2>2. <<>> \in Prefixes(a) /\ a \in Prefixes(a)
    BY PrefixFacts
  <2>3. QED BY <1>5, <2>1, <2>2
<1>7. chans' \in [Peers -> UNION {Prefixes(chans[p]) : p \in Peers}]
  BY <1>6 DEF chans
<1>8. ASSUME NEW p \in Peers
      PROVE  CASE ends'[Other(p)] \in {"closed", "deleted"} -> chans'[p] = <<>>
               [] ends'[Other(p)] \in {"new", "open"} /\ p \in P -> chans'[p] \in Prefixes(chans[p])
               [] OTHER -> chans'[p] = chans[p]
  <2>1. CASE Gone(Other(p))'
    <3>1. ends'[Other(p)] \in {"closed", "deleted"} /\ chans'[p] = <<>>
      BY <1>4, <1>5, <2>1
    <3>2. QED BY <3>1
  <2>2. CASE ~Gone(Other(p))' /\ p \in P
    <3>1. ends'[Other(p)] \in {"new", "open"} /\ chans'[p] \in Prefixes(chans[p])
      BY <1>4, <2>2
    <3>2. QED BY <2>2, <3>1
  <2>3. CASE ~Gone(Other(p))' /\ p \notin P
    <3>1. ends'[Other(p)] \in {"new", "open"} /\ chans'[p] = chans[p]
      BY <1>4, <2>3
    <3>2. QED BY <2>3, <3>1
  <2>4. QED BY <2>1, <2>2, <2>3
<1>9. QED
  BY <1>2, <1>3, <1>7, <1>8, Zenon
  DEF Channel!destroy, ends, chans, Channel!Peers, Peers, Channel!Other, Other,
      Channel!Prefixes, Prefixes

\* What destroyed(P) does to the channels.
LEMMA DestroyedChans ==
  ASSUME TcpInv, NEW P \in SUBSET Peers, destroyed(P), NEW p \in Peers, ~Gone(Other(p))'
  PROVE  /\ p \in P => chans'[p] \in Prefixes(chans[p])
         /\ p \notin P => chans'[p] = chans[p]
<1> USE PeerFacts
<1>1. \A q \in Peers : /\ q \notin P => wire'[q] = wire[q] /\ buf'[q] = buf[q]
                       /\ q \in P => wire'[q] \in Prefixes(wire[q]) /\ buf'[q] = <<>>
                       /\ Gone(q)' <=> Gone(q) \/ q \in P
  BY DestroyedInv
<1>2. Other(p) \notin P /\ ~Gone(Other(p)) /\ buf'[Other(p)] = buf[Other(p)]
  BY <1>1
<1>3. chans[p] = readLoop[Stream(p)].arrays /\ chans'[p] = readLoop[Stream(p)'].arrays
  BY <1>2, ChansOf, ChansNext
<1>4. CASE p \notin P
  BY <1>1, <1>2, <1>3, <1>4 DEF Stream
<1>5. CASE p \in P
  <2>1. PICK w : Cut(buf[Other(p)] \o wire'[p], w, Stream(p))
    BY <1>1, <1>2, <1>5, PrefixStream
  <2>2. Stream(p)' = buf[Other(p)] \o wire'[p]
    BY <1>2 DEF Stream
  <2>3. PICK a \in Seq(Messages), b \in Seq(Messages) :
          /\ a = readLoop[Stream(p)'].arrays
          /\ b = readLoop[readLoop[Stream(p)'].rest \o w].arrays
    BY <2>1, <2>2, StreamTypes DEF Cut
  <2>4. readLoop[Stream(p)].arrays = a \o b
    BY <2>1, <2>2, <2>3 DEF Cut
  <2>5. a \in Prefixes(a \o b)
    BY PrefixFacts
  <2>6. QED BY <1>3, <1>5, <2>3, <2>4, <2>5
<1>6. QED BY <1>4, <1>5

LEMMA DeferredDeleteMapped ==
  ASSUME TcpInv, NEW c \in Clients, deferredDelete(c)
  PROVE  Channel!destroy({Server(c)})
<1> USE PeerFacts
<1>1. /\ sock \in [Peers -> States] /\ sock[Server(c)] = "closed"
      /\ UNCHANGED <<wire, buf, received>>
      /\ sock' = [sock EXCEPT ![Server(c)] = "deleted"]
  BY DEF TcpInv, TypeOK, deferredDelete
<1>2. /\ sock' \in [Peers -> States]
      /\ \A p \in Peers : sock'[p] = IF p \in {Server(c)} THEN "deleted" ELSE sock[p]
  BY <1>1 DEF States
<1>3. \A p \in Peers : Gone(p)' <=> Gone(p)
  BY <1>1 DEF Gone
<1>4. chans' = chans
  BY <1>1, <1>3, ChansKept
<1>5. \A p \in Peers : chans[p] \in Prefixes(chans[p])
  <2> SUFFICES ASSUME NEW p \in Peers PROVE chans[p] \in Prefixes(chans[p])
    OBVIOUS
  <2>1. PICK a \in Seq(Messages) : a = chans[p]
    BY ChansOf
  <2>2. QED BY <2>1, PrefixFacts
<1>6. {Server(c)} \in SUBSET Peers /\ {Server(c)} # {} /\ \A p \in {Server(c)} : sock[p] # "deleted"
  BY <1>1
<1>7. QED BY <1>1, <1>2, <1>4, <1>5, <1>6, DestroyMapped

LEMMA DestroyClientMapped ==
  ASSUME TcpInv, NEW c \in Clients, destroyClientPeer(c)
  PROVE  Channel!destroy({Client(c)})
<1> USE PeerFacts
<1>1. /\ {Client(c)} \in SUBSET Peers /\ {Client(c)} # {} /\ destroyed({Client(c)})
      /\ \A p \in {Client(c)} : sock[p] # "deleted"
      /\ received' = received
  BY DEF destroyClientPeer
<1>2. /\ sock' \in [Peers -> States]
      /\ \A p \in Peers : sock'[p] = IF p \in {Client(c)} THEN "deleted" ELSE sock[p]
  BY <1>1, DestroyedInv
<1>3. \A p \in Peers :
        /\ ~Gone(Other(p))' /\ p \in {Client(c)} => chans'[p] \in Prefixes(chans[p])
        /\ ~Gone(Other(p))' /\ p \notin {Client(c)} => chans'[p] = chans[p]
  BY <1>1, DestroyedChans
<1>4. QED BY <1>1, <1>2, <1>3, DestroyMapped

LEMMA DestroyServerMapped ==
  ASSUME TcpInv, destroyServer
  PROVE  (\E P \in SUBSET Peers : Channel!destroy(P)) \/ UNCHANGED <<ends, chans, received>>
<1> USE PeerFacts
<1>1. /\ backlog \subseteq Clients /\ clients = {c \in Clients : sock[Server(c)] = "connected"}
      /\ sock \in [Peers -> States] /\ wire \in [Peers -> Seq(Byte)] /\ buf \in [Peers -> Seq(Byte)]
  BY ByteIsBytes DEF TcpInv, TypeOK
<1>2. PICK P \in SUBSET Peers : P = {Server(c) : c \in clients \cup backlog}
  <2>1. \A c \in clients \cup backlog : Server(c) \in Peers
    BY <1>1
  <2>2. {Server(c) : c \in clients \cup backlog} \in SUBSET Peers
    BY <2>1
  <2>3. QED BY <2>2
<1>3. destroyed(P) /\ received' = received
  BY <1>2 DEF destroyServer
<1>4. \A p \in P : sock[p] # "deleted"
  BY <1>1, <1>2 DEF TcpInv, Lives
<1>5. /\ sock' \in [Peers -> States] /\ wire' \in [Peers -> Seq(Byte)] /\ buf' \in [Peers -> Seq(Byte)]
      /\ \A p \in Peers : sock'[p] = IF p \in P THEN "deleted" ELSE sock[p]
      /\ \A p \in Peers : p \notin P => wire'[p] = wire[p] /\ buf'[p] = buf[p]
  BY <1>3, DestroyedInv
<1>6. \A p \in Peers :
        /\ ~Gone(Other(p))' /\ p \in P => chans'[p] \in Prefixes(chans[p])
        /\ ~Gone(Other(p))' /\ p \notin P => chans'[p] = chans[p]
  BY <1>3, DestroyedChans
<1>7. CASE P # {}
  <2>1. Channel!destroy(P)
    BY <1>3, <1>4, <1>5, <1>6, <1>7, DestroyMapped
  <2>2. QED BY <2>1
<1>8. CASE P = {}
  <2>1. sock' = sock
    BY <1>1, <1>5, <1>8
  <2>2. wire' = wire /\ buf' = buf
    BY <1>1, <1>5, <1>8
  <2>3. QED BY <1>3, <2>1, <2>2 DEF ends, chans, UnderWay
<1>9. QED BY <1>7, <1>8

LEMMA ChannelStep == TcpInv /\ [Next]_vars => [Channel!Next]_(Channel!vars)
<1> SUFFICES ASSUME TcpInv, [Next]_vars PROVE Channel!Next \/ UNCHANGED Channel!vars
  OBVIOUS
<1> USE PeerFacts, SamePeers
<1>0. UNCHANGED <<ends, chans, received>> => UNCHANGED Channel!vars
  BY DEF Channel!vars, ends, chans
<1>1. CASE startServer \/ (\E c \in Clients : startConnection(c) \/ connectionRefused(c))
  BY <1>0, <1>1, AttemptMapped
<1>2. ASSUME NEW c \in Clients, connectionEstablished(c) \/ incomingConnection(c)
      PROVE  Channel!Next
  BY <1>2, EstablishedMapped, ClientConnectedMapped DEF Channel!Next
<1>3. ASSUME NEW p \in Peers, NEW m \in Messages, sendArray(p, m)
      PROVE  Channel!Next \/ UNCHANGED Channel!vars
  BY <1>0, <1>3, SendMapped DEF Channel!Next
<1>4. ASSUME NEW q \in Peers, onReadyRead(q)
      PROVE  Channel!Next \/ UNCHANGED Channel!vars
  BY <1>0, <1>4, ReadMapped DEF Channel!Next, chans
<1>5. ASSUME NEW q \in Peers, onDisconnected(q) PROVE Channel!Next
  BY <1>5, ClosedMapped DEF Channel!Next
<1>6. ASSUME NEW c \in Clients, deferredDelete(c) \/ destroyClientPeer(c) PROVE Channel!Next
  <2>1. {Server(c)} \in SUBSET Peers /\ {Client(c)} \in SUBSET Peers
    OBVIOUS
  <2>2. QED BY <1>6, <2>1, DeferredDeleteMapped, DestroyClientMapped DEF Channel!Next
<1>7. CASE destroyServer
  BY <1>0, <1>7, DestroyServerMapped DEF Channel!Next
<1>8. CASE UNCHANGED vars
  BY <1>0, <1>8 DEF vars, ends, chans, UnderWay
<1>9. QED BY <1>1, <1>2, <1>3, <1>4, <1>5, <1>6, <1>7, <1>8, Zenon DEF Next

\* The socket workers implement the network the tests run on, for every length
\* of a header, every set of messages and every way the stream is cut: messages
\* arrive whole, in order and at most once, and before the end of a connection.
THEOREM TcpImplementsChannel == Spec => ImplementsChannel
<1>1. QED BY ChannelInit, ChannelStep, TcpInvariant, PTL DEF Spec, ImplementsChannel, Channel!Spec
=============================================================================
