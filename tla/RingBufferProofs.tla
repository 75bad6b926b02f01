-------------------------- MODULE RingBufferProofs --------------------------
(***************************************************************************)
(* RingBuffer implements ByteQueue for every capacity and block length.    *)
(***************************************************************************)
EXTENDS RingBuffer, SequenceTheorems, TLAPS

\* The modulus of the indices, over the range they take.
LEMMA WrapLow == \A x \in Cell : Wrapped(x) = x
BY RingAssumption DEF Wrapped, Cell, Cap

LEMMA WrapHigh == \A x \in Cap .. Cap + Size : Wrapped(x) = x - Cap
BY RingAssumption DEF Wrapped, Cell, Cap

\* The same without the modulus.
Fold(x) == IF x < Cap THEN x ELSE x - Cap

\* One subtraction replaces the modulus.
LEMMA WrapFold == \A x \in 0 .. Cap + Size : Wrapped(x) = Fold(x) /\ Fold(x) \in Cell
BY WrapLow, WrapHigh, RingAssumption DEF Fold, Cell, Cap

\* A block is a sequence of bytes.
LEMMA BlockType ==
  \A s \in Blocks : s \in Seq(Byte) /\ Len(s) \in Nat /\ Len(s) <= MaxLen
BY RingAssumption DEF Blocks

\* Both sides count the same cells: the used, the free and the spare one.
LEMMA Counting ==
  TypeOK => /\ Count \in 0 .. Size /\ Free = Size - Count
            /\ ~ IsEmpty => Avail \in Count - 1 .. Count
            /\ IsEmpty <=> Count = 0
            /\ IsFull <=> Count = Size
<1> SUFFICES ASSUME TypeOK
    PROVE /\ Count \in 0 .. Size /\ Free = Size - Count
          /\ ~ IsEmpty => Avail \in Count - 1 .. Count
          /\ IsEmpty <=> Count = 0
          /\ IsFull <=> Count = Size
  OBVIOUS
<1>1. Wrapped(wri + 1) = IF wri = Size THEN 0 ELSE wri + 1
  BY WrapFold, RingAssumption DEF TypeOK, Cell, Fold, Cap
<1> QED
  BY <1>1, RingAssumption DEF TypeOK, Cell, Cap, Count, Free, Avail, IsEmpty, IsFull

ItemsTyped == /\ Items \in Seq(Byte)
              /\ Len(Items) = Count
              /\ \A i \in 1 .. Count : Items[i] = data[Fold(rdi + i - 1)]

\* The abstract queue is a sequence of bytes, one for each used cell.
LEMMA ItemsType == TypeOK => ItemsTyped
<1> SUFFICES ASSUME TypeOK PROVE ItemsTyped
  OBVIOUS
<1>1. Count \in Nat /\ Count <= Size
  BY Counting, RingAssumption
<1>2. ASSUME NEW i \in 1 .. Count
      PROVE  Wrapped(rdi + i - 1) = Fold(rdi + i - 1) /\ Fold(rdi + i - 1) \in Cell
  <2>1. rdi + i - 1 \in 0 .. Cap + Size
    BY <1>1, RingAssumption DEF TypeOK, Cell, Cap
  <2> QED
    BY <2>1, WrapFold
<1>3. \A i \in 1 .. Count : data[Wrapped(rdi + i - 1)] \in Byte
  BY <1>2 DEF TypeOK
<1>4. Items \in Seq(Byte) /\ Len(Items) = Count
  BY <1>1, <1>3 DEF Items
<1>5. \A i \in 1 .. Count : Items[i] = data[Fold(rdi + i - 1)]
  BY <1>2 DEF Items
<1> QED
  BY <1>4, <1>5 DEF ItemsTyped

Accepts(s) == Write(s) /\ ~ IsFull /\ Len(s) <= Free

\* Where an accepted block ends up, whether it is copied in one part or in two.
LEMMA WriteEffect ==
  ASSUME TypeOK, NEW s \in Blocks, Accepts(s)
  PROVE  /\ Len(s) <= Size - Count /\ UNCHANGED rdi
         /\ wri' = Fold(wri + Len(s)) /\ wri' \in Cell
         /\ ret' = 0 /\ out' = <<>>
         /\ data' = [p \in Cell |->
                       IF wri <= p /\ p < wri + Len(s) THEN s[p - wri + 1]
                       ELSE IF p + Cap < wri + Len(s) THEN s[p + Cap - wri + 1]
                       ELSE data[p]]
<1> DEFINE n == Len(s)
           m == Cap - wri
<1>1. /\ n \in Nat /\ n <= Size - Count /\ Count \in 0 .. Size /\ Size \in Nat
      /\ wri \in 0 .. Size /\ rdi \in 0 .. Size /\ Cap = Size + 1 /\ m \in 1 .. Cap
  BY Counting, BlockType, RingAssumption DEF Accepts, TypeOK, Cell, Cap
<1>2. Wrapped(wri + m) = 0
  BY <1>1, WrapFold DEF Fold
<1>3. ~ IsFull /\ n <= Free /\ Free \in Int
  BY <1>1, Counting DEF Accepts
<1> HIDE DEF n, m
<1>6. /\ UNCHANGED rdi /\ ret' = 0 /\ out' = <<>>
      /\ \/ /\ rdi <= wri /\ m <= n
            /\ data' = Copy(Copy(data, wri, s, 0, m), Wrapped(wri + m), s, m, n - m)
            /\ wri' = Wrapped(Wrapped(wri + m) + n - m)
         \/ /\ wri < rdi \/ n < m
            /\ data' = Copy(data, wri, s, 0, n)
            /\ wri' = Wrapped(wri + n)
  BY <1>1, <1>3 DEF Accepts, Write, Answer, n, m
<1> USE DEF m
<1>4. CASE rdi <= wri /\ m <= n
  <2>1. /\ data' = Copy(Copy(data, wri, s, 0, m), 0, s, m, n - m)
        /\ wri' = Wrapped(0 + n - m)
    BY <1>1, <1>2, <1>4, <1>6
  <2>2. wri' = Fold(wri + n) /\ wri' \in Cell
    BY <1>1, <1>4, <2>1, WrapFold DEF Fold, Cell
  <2>3. n - m < wri
    BY <1>1, <1>4 DEF Count
  <2> QED
    BY <1>1, <1>6, <1>4, <2>1, <2>2, <2>3 DEF Copy, Cell, n
<1>5. CASE ~ (rdi <= wri /\ m <= n)
  <2>1. data' = Copy(data, wri, s, 0, n) /\ wri' = Wrapped(wri + n)
    BY <1>1, <1>5, <1>6
  <2>2. wri' = Fold(wri + n) /\ wri' \in Cell
    BY <1>1, <2>1, WrapFold DEF Fold, Cell
  <2>3. wri + n <= Cap
    BY <1>1, <1>5 DEF Count
  <2>4. \A p \in Cell : /\ ~ (p + Cap < wri + n)
                       /\ 0 + (p - wri) + 1 = p - wri + 1
    BY <1>1, <2>3 DEF Cell
  <2>5. data' = [p \in Cell |-> IF wri <= p /\ p < wri + n THEN s[p - wri + 1]
                               ELSE data[p]]
    BY <2>1, <2>4 DEF Copy
  <2> QED
    BY <1>1, <1>6, <2>2, <2>4, <2>5 DEF n
<1> QED
  BY <1>4, <1>5

Takes(n) == Read(n) /\ ~ IsEmpty /\ n <= Avail

\* What a successful read hands out, whether it is copied in one part or in two.
LEMMA ReadEffect ==
  ASSUME TypeOK, NEW n \in 0 .. MaxLen, Takes(n)
  PROVE  /\ n <= Count /\ UNCHANGED <<data, wri>>
         /\ rdi' = Fold(rdi + n) /\ rdi' \in Cell /\ ret' = 0
         /\ out' \in Seq(Byte) /\ Len(out') = n
         /\ \A i \in 1 .. n : out'[i] = data[Fold(rdi + i - 1)]
<1> DEFINE m == Cap - rdi
<1>1. /\ n \in Nat /\ n <= Count /\ Count \in 0 .. Size /\ Size \in Nat
      /\ wri \in 0 .. Size /\ rdi \in 0 .. Size /\ Cap = Size + 1 /\ m \in 1 .. Cap
      /\ m = Cap - rdi /\ Avail \in Int /\ ~ IsEmpty /\ n <= Avail /\ Avail <= Count
  BY Counting, RingAssumption DEF Takes, TypeOK, Cell, Cap
<1>2. Wrapped(rdi + m) = 0
  BY <1>1, WrapFold DEF Fold
<1> HIDE DEF m
<1>3. /\ UNCHANGED <<data, wri>> /\ ret' = 0
      /\ \/ /\ wri <= rdi /\ m <= n
            /\ out' = Fetch(rdi, m) \o Fetch(0, n - m)
            /\ rdi' = Wrapped(0 + n - m)
         \/ /\ rdi < wri \/ n < m
            /\ out' = Fetch(rdi, n)
            /\ rdi' = Wrapped(rdi + n)
  BY <1>1, <1>2 DEF Takes, Read, Answer, m
<1>4. \A at, k \in Nat : at + k <= Cap =>
        /\ Fetch(at, k) \in Seq(Byte) /\ Len(Fetch(at, k)) = k
        /\ \A i \in 1 .. k : Fetch(at, k)[i] = data[at + i - 1]
  <2> SUFFICES ASSUME NEW at \in Nat, NEW k \in Nat, at + k <= Cap
               PROVE  /\ Fetch(at, k) \in Seq(Byte) /\ Len(Fetch(at, k)) = k
                      /\ \A i \in 1 .. k : Fetch(at, k)[i] = data[at + i - 1]
    OBVIOUS
  <2>1. \A i \in 1 .. k : at + i - 1 \in Cell
    BY <1>1 DEF Cell
  <2>2. \A i \in 1 .. k : data[at + i - 1] \in Byte
    BY <2>1 DEF TypeOK
  <2> QED
    BY <2>2 DEF Fetch
<1>5. CASE wri <= rdi /\ m <= n
  <2>1. out' = Fetch(rdi, m) \o Fetch(0, n - m) /\ rdi' = Wrapped(0 + n - m)
    BY <1>1, <1>3, <1>5
  <2>2. n - m \in Nat /\ m \in Nat /\ rdi + m <= Cap /\ 0 + (n - m) <= Cap
    BY <1>1, <1>5
  <2> DEFINE a == Fetch(rdi, m)
             b == Fetch(0, n - m)
  <2>3. a \in Seq(Byte) /\ Len(a) = m /\ \A i \in 1 .. m : a[i] = data[rdi + i - 1]
    <3>1. rdi \in Nat /\ m \in Nat /\ rdi + m <= Cap
      BY <1>1, <2>2
    <3> QED
      BY <1>4, <3>1
  <2>4. b \in Seq(Byte) /\ Len(b) = n - m /\ \A i \in 1 .. n - m : b[i] = data[0 + i - 1]
    BY <1>4, <2>2
  <2>8. out' = a \o b
    BY <2>1
  <2> HIDE DEF a, b
  <2>9. /\ a \o b \in Seq(Byte) /\ Len(a \o b) = Len(a) + Len(b)
        /\ \A i \in 1 .. Len(a) + Len(b) : (a \o b)[i] = IF i <= Len(a) THEN a[i]
                                                         ELSE b[i - Len(a)]
    BY <2>3, <2>4, ConcatProperties
  <2>5. /\ out' \in Seq(Byte) /\ Len(out') = n
        /\ \A i \in 1 .. n : out'[i] = IF i <= m THEN a[i] ELSE b[i - m]
    <3>1. Len(a) + Len(b) = n
      BY <1>1, <2>2, <2>3, <2>4
    <3> QED
      BY <2>3, <2>8, <2>9, <3>1
  <2>6. ASSUME NEW i \in 1 .. n PROVE out'[i] = data[Fold(rdi + i - 1)]
    <3>1. CASE i <= m
      <4>1. i \in 1 .. m /\ Fold(rdi + i - 1) = rdi + i - 1
        BY <1>1, <3>1 DEF Fold
      <4>2. out'[i] = a[i]
        BY <2>5, <3>1
      <4> QED
        BY <2>3, <4>1, <4>2
    <3>2. CASE m < i
      <4>1. i - m \in 1 .. n - m /\ 0 + (i - m) - 1 = rdi + i - 1 - Cap
        BY <1>1, <2>2, <3>2
      <4>2. Fold(rdi + i - 1) = rdi + i - 1 - Cap
        BY <1>1, <3>2 DEF Fold
      <4>3. out'[i] = b[i - m]
        BY <1>1, <2>5, <3>2
      <4>4. b[i - m] = data[0 + (i - m) - 1]
        BY <2>4, <4>1
      <4> QED
        BY <4>1, <4>2, <4>3, <4>4
    <3> QED
      BY <1>1, <3>1, <3>2
  <2>7. rdi' = Fold(rdi + n) /\ rdi' \in Cell
    BY <1>1, <1>5, <2>1, WrapFold DEF Fold, Cell
  <2> QED
    BY <1>1, <1>3, <2>5, <2>6, <2>7
<1>6. CASE ~ (wri <= rdi /\ m <= n)
  <2>1. out' = Fetch(rdi, n) /\ rdi' = Wrapped(rdi + n)
    BY <1>1, <1>3, <1>6
  <2>2. rdi + n <= Cap
    BY <1>1, <1>6 DEF Count
  <2>3. rdi' = Fold(rdi + n) /\ rdi' \in Cell
    BY <1>1, <2>1, WrapFold DEF Fold, Cell
  <2>4. \A i \in 1 .. n : Fold(rdi + i - 1) = rdi + i - 1
    BY <1>1, <2>2 DEF Fold
  <2> QED
    <3>1. rdi \in Nat /\ n \in Nat
      BY <1>1
    <3>2. /\ Fetch(rdi, n) \in Seq(Byte) /\ Len(Fetch(rdi, n)) = n
          /\ \A i \in 1 .. n : Fetch(rdi, n)[i] = data[rdi + i - 1]
      BY <1>4, <2>2, <3>1
    <3> QED
      BY <1>1, <1>3, <2>1, <2>3, <2>4, <3>2
<1> QED
  BY <1>5, <1>6

\* What a refused call does.
LEMMA Refused ==
  ASSUME TypeOK,
         \/ \E s \in Blocks : Write(s) /\ ~ Accepts(s)
         \/ \E n \in 0 .. MaxLen : Read(n) /\ ~ Takes(n)
  PROVE  UNCHANGED <<data, rdi, wri>> /\ ret' \in {1, -1} /\ out' = <<>>
<1>1. ASSUME NEW s \in Blocks, Write(s), ~ Accepts(s)
      PROVE  UNCHANGED <<data, rdi, wri>> /\ ret' \in {1, -1} /\ out' = <<>>
  BY <1>1 DEF Write, Accepts, Answer
<1>2. ASSUME NEW n \in 0 .. MaxLen, Read(n), ~ Takes(n)
      PROVE  UNCHANGED <<data, rdi, wri>> /\ ret' \in {1, -1} /\ out' = <<>>
  BY <1>2 DEF Read, Takes, Answer
<1> QED
  BY <1>1, <1>2

-----------------------------------------------------------------------------
\* Every step, and every stuttering step, keeps the types.
LEMMA NextType == TypeOK /\ [Next]_vars => TypeOK'
<1> SUFFICES ASSUME TypeOK, [Next]_vars PROVE TypeOK'
  OBVIOUS
<1>1. ASSUME NEW s \in Blocks, Accepts(s) PROVE TypeOK'
  <2>1. ASSUME NEW p \in Cell
        PROVE (IF wri <= p /\ p < wri + Len(s) THEN s[p - wri + 1]
               ELSE IF p + Cap < wri + Len(s) THEN s[p + Cap - wri + 1]
               ELSE data[p]) \in Byte
    <3>1. s \in Seq(Byte) /\ Len(s) \in Nat /\ wri \in 0 .. Size /\ p \in 0 .. Size
      BY BlockType DEF TypeOK, Cell
    <3>2. Cap = Size + 1 /\ Size \in Nat
      BY RingAssumption DEF Cap
    <3>3. CASE wri <= p /\ p < wri + Len(s)
      <4>1. p - wri + 1 \in 1 .. Len(s)
        BY <3>1, <3>2, <3>3
      <4> QED
        BY <3>1, <3>3, <4>1
    <3>4. CASE p + Cap < wri + Len(s)
      <4>1. p + Cap - wri + 1 \in 1 .. Len(s)
        BY <3>1, <3>2, <3>4
      <4> QED
        BY <3>1, <3>2, <3>4, <4>1
    <3> QED
      BY <3>3, <3>4 DEF TypeOK
  <2>2. /\ rdi' = rdi /\ wri' \in Cell /\ ret' = 0 /\ out' = <<>>
        /\ data' = [p \in Cell |->
                       IF wri <= p /\ p < wri + Len(s) THEN s[p - wri + 1]
                       ELSE IF p + Cap < wri + Len(s) THEN s[p + Cap - wri + 1]
                       ELSE data[p]]
    BY <1>1, WriteEffect
  <2>3. data' \in [Cell -> Byte]
    BY <2>1, <2>2
  <2> QED
    BY <2>2, <2>3 DEF TypeOK
<1>2. ASSUME NEW n \in 0 .. MaxLen, Takes(n) PROVE TypeOK'
  <2>1. /\ UNCHANGED <<data, wri>> /\ rdi' \in Cell /\ ret' = 0 /\ out' \in Seq(Byte)
    BY <1>2, ReadEffect
  <2> QED
    BY <2>1 DEF TypeOK
<1>3. CASE \/ \E s \in Blocks : Write(s) /\ ~ Accepts(s)
           \/ \E n \in 0 .. MaxLen : Read(n) /\ ~ Takes(n)
  <2>1. UNCHANGED <<data, rdi, wri>> /\ ret' \in {1, -1} /\ out' = <<>>
    BY <1>3, Refused
  <2> QED
    BY <2>1 DEF TypeOK
<1>4. CASE Clear
  BY <1>4, RingAssumption DEF Clear, TypeOK, Cell
<1>5. CASE UNCHANGED vars
  BY <1>5 DEF vars, TypeOK
<1> QED
  BY <1>1, <1>2, <1>3, <1>4, <1>5 DEF Next

\* The two indices stay within the ring and every cell holds a byte, for every
\* capacity and every length of block.
THEOREM TypeCorrect == Spec => []TypeOK
<1>1. Init => TypeOK
  BY RingAssumption DEF Init, TypeOK, Cell
<1> QED
  BY <1>1, NextType, PTL DEF Spec
-----------------------------------------------------------------------------
\* An accepted block is appended to the queue.
LEMMA WriteItems ==
  ASSUME TypeOK, NEW s \in Blocks, Accepts(s)
  PROVE  Items' = Items \o s
<1>1. /\ Len(s) <= Size - Count /\ rdi' = rdi
      /\ wri' = Fold(wri + Len(s)) /\ wri' \in Cell
      /\ data' = [p \in Cell |->
                    IF wri <= p /\ p < wri + Len(s) THEN s[p - wri + 1]
                    ELSE IF p + Cap < wri + Len(s) THEN s[p + Cap - wri + 1]
                    ELSE data[p]]
  BY WriteEffect
<1>2. /\ Len(s) \in Nat /\ Count \in 0 .. Size /\ Size \in Nat
      /\ rdi \in 0 .. Size /\ wri \in 0 .. Size /\ Cap = Size + 1
  BY Counting, BlockType, RingAssumption DEF TypeOK, Cell, Cap
<1>3. Count' = Count + Len(s)
  <2> DEFINE k == Len(s)
  <2>1. /\ k \in Nat /\ k <= Size - Count /\ rdi' = rdi
        /\ wri' = IF wri + k < Size + 1 THEN wri + k ELSE wri + k - (Size + 1)
    <3>1. wri' = Fold(wri + k) /\ Cap = Size + 1
      BY <1>1, <1>2
    <3>2. k \in Nat /\ k <= Size - Count /\ rdi' = rdi
      BY <1>1, <1>2
    <3> QED
      BY <1>2, <3>1, <3>2 DEF Fold
  <2>2. /\ Count = IF rdi <= wri THEN wri - rdi ELSE Cap - (rdi - wri)
        /\ Count' = IF rdi' <= wri' THEN wri' - rdi' ELSE Cap - (rdi' - wri')
    BY DEF Count, Cap
  <2> HIDE DEF k
  <2>3. Count' = Count + k
    <3>1. CASE wri + k < Size + 1
      BY <1>2, <2>1, <2>2, <3>1
    <3>2. CASE wri + k >= Size + 1
      BY <1>2, <2>1, <2>2, <3>2
    <3> QED
      BY <1>2, <2>1, <3>1, <3>2
  <2> QED
    BY <2>3 DEF k
<1>4. TypeOK' /\ s \in Seq(Byte)
  BY NextType, BlockType DEF Next, Accepts
<1>5. ItemsTyped /\ ItemsTyped'
  BY <1>4, ItemsType, PTL
<1>6. /\ Items \o s \in Seq(Byte) /\ Len(Items \o s) = Count + Len(s)
      /\ \A i \in 1 .. Count + Len(s) :
           (Items \o s)[i] = IF i <= Count THEN Items[i] ELSE s[i - Count]
  BY <1>4, <1>5, ConcatProperties DEF ItemsTyped
<1>7. ASSUME NEW i \in 1 .. Count + Len(s)
      PROVE  Items'[i] = (Items \o s)[i]
  <2> DEFINE p == Fold(rdi + i - 1)
  <2>1. Items'[i] = data'[p]
    BY <1>1, <1>3, <1>5 DEF ItemsTyped, Fold, Cap
  <2>2. p \in Cell /\ p \in 0 .. Size
    BY <1>1, <1>2 DEF Fold, Cell
  <2>3. CASE i <= Count
    <3>1. ~ (wri <= p /\ p < wri + Len(s)) /\ ~ (p + Cap < wri + Len(s))
      BY <1>1, <1>2, <2>3 DEF Fold, Count
    <3>2. Items[i] = data[p]
      BY <1>2, <1>5, <2>3 DEF ItemsTyped
    <3> QED
      BY <1>1, <1>6, <2>1, <2>2, <2>3, <3>1, <3>2
  <2>4. CASE Count < i
    <3>1. \/ wri <= p /\ p < wri + Len(s) /\ p - wri + 1 = i - Count
          \/ /\ ~ (wri <= p /\ p < wri + Len(s)) /\ p + Cap < wri + Len(s)
             /\ p + Cap - wri + 1 = i - Count
      BY <1>1, <1>2, <2>4 DEF Fold, Count
    <3>2. data'[p] = s[i - Count]
      BY <1>1, <2>2, <3>1
    <3> QED
      BY <1>2, <1>6, <2>1, <2>4, <3>2
  <2>5. i <= Count \/ Count < i
    BY <1>2
  <2> QED
    BY <2>3, <2>4, <2>5
<1> QED
  BY <1>3, <1>5, <1>6, <1>7, SeqEqual DEF ItemsTyped

\* A successful read takes the oldest bytes off the queue and hands them out.
LEMMA ReadItems ==
  ASSUME TypeOK, NEW n \in 0 .. MaxLen, Takes(n)
  PROVE  /\ out' = SubSeq(Items, 1, n)
         /\ Items' = SubSeq(Items, n + 1, Len(Items))
<1>1. /\ n <= Count /\ data' = data /\ wri' = wri
      /\ rdi' = Fold(rdi + n) /\ rdi' \in Cell
      /\ out' \in Seq(Byte) /\ Len(out') = n
      /\ \A i \in 1 .. n : out'[i] = data[Fold(rdi + i - 1)]
  BY ReadEffect
<1>2. /\ n \in Nat /\ Count \in 0 .. Size /\ Size \in Nat
      /\ rdi \in 0 .. Size /\ wri \in 0 .. Size /\ Cap = Size + 1
  BY Counting, RingAssumption DEF TypeOK, Cell, Cap
<1>3. Count' = Count - n
  <2>1. ~ IsEmpty /\ n <= Avail
    BY DEF Takes
  <2> QED
    BY <1>1, <1>2, <2>1 DEF Count, Fold, Cell, Cap, IsEmpty, Avail
<1>4. TypeOK'
  BY NextType DEF Next, Takes
<1>5. ItemsTyped /\ ItemsTyped'
  BY <1>4, ItemsType, PTL
<1>6. \A i \in 1 .. Count : Items[i] \in Byte
  BY <1>2, <1>5, ElementOfSeq DEF ItemsTyped
<1>7. out' = SubSeq(Items, 1, n)
  <2>1. /\ SubSeq(Items, 1, n) \in Seq(Byte) /\ Len(SubSeq(Items, 1, n)) = n
        /\ \A i \in 1 .. n : SubSeq(Items, 1, n)[i] = Items[i]
    <3>1. \A i \in 1 .. n : Items[i] \in Byte
      BY <1>1, <1>2, <1>6
    <3>2. /\ SubSeq(Items, 1, n) \in Seq(Byte)
          /\ Len(SubSeq(Items, 1, n)) = IF 1 <= n THEN n - 1 + 1 ELSE 0
          /\ \A i \in 1 .. n - 1 + 1 : SubSeq(Items, 1, n)[i] = Items[1 + i - 1]
      BY <1>2, <3>1, SubSeqProperties
    <3> QED
      BY <1>2, <3>2
  <2>2. \A i \in 1 .. n : out'[i] = Items[i]
    BY <1>1, <1>2, <1>5 DEF ItemsTyped
  <2> QED
    BY <1>1, <2>1, <2>2, SeqEqual
<1>8. Items' = SubSeq(Items, n + 1, Len(Items))
  <2> DEFINE rest == SubSeq(Items, n + 1, Count)
  <2>1. /\ rest \in Seq(Byte) /\ Len(rest) = Count - n
        /\ \A i \in 1 .. Count - n : rest[i] = Items[n + i]
    <3>1. n + 1 \in Int /\ Count \in Int /\ \A i \in n + 1 .. Count : Items[i] \in Byte
      BY <1>1, <1>2, <1>6
    <3>2. /\ rest \in Seq(Byte)
          /\ Len(rest) = IF n + 1 <= Count THEN Count - (n + 1) + 1 ELSE 0
          /\ \A i \in 1 .. Count - (n + 1) + 1 : rest[i] = Items[(n + 1) + i - 1]
      BY <3>1, SubSeqProperties
    <3> HIDE DEF rest
    <3>3. Len(rest) = Count - n
      BY <1>1, <1>2, <3>2
    <3>4. ASSUME NEW i \in 1 .. Count - n PROVE rest[i] = Items[n + i]
      <4>1. i \in 1 .. Count - (n + 1) + 1 /\ (n + 1) + i - 1 = n + i
        BY <1>2
      <4> QED
        BY <3>2, <4>1
    <3> QED
      BY <3>2, <3>3, <3>4
  <2>2. ASSUME NEW i \in 1 .. Count - n PROVE Items'[i] = Items[n + i]
    <3>1. Fold(rdi' + i - 1) = Fold(rdi + (n + i) - 1)
      BY <1>1, <1>2 DEF Fold
    <3>2. Items'[i] = data'[Fold(rdi' + i - 1)]
      BY <1>3, <1>5 DEF ItemsTyped, Fold, Cap
    <3>3. n + i \in 1 .. Count
      BY <1>2
    <3> QED
      BY <1>1, <1>5, <3>1, <3>2, <3>3 DEF ItemsTyped
  <2>3. /\ Items' \in Seq(Byte) /\ Len(Items') = Count - n
    BY <1>3, <1>5 DEF ItemsTyped
  <2>4. Items' = rest
    <3> HIDE DEF rest
    <3> QED
      BY <2>1, <2>2, <2>3, SeqEqual
  <2> QED
    BY <1>5, <2>4 DEF ItemsTyped
<1> QED
  BY <1>7, <1>8

\* Steps that leave the two indices and the cells alone leave the queue alone.
LEMMA SameItems ==
  ASSUME UNCHANGED <<data, rdi, wri>> PROVE Items' = Items
BY DEF Items, Count, Wrapped, Cap

\* The empty queue.
LEMMA NoItems == TypeOK /\ Count = 0 => Items = <<>>
BY DEF Items

\* Whatever the capacity and the blocks, the ring behaves as a bounded queue of
\* bytes: buf_write appends the whole block or nothing, buf_read takes the
\* oldest bytes or nothing.
THEOREM Implements == Spec => ImplementsByteQueue
<1>1. Init => Bytes!Init
  <2> SUFFICES ASSUME Init PROVE Bytes!Init
    OBVIOUS
  <2>1. TypeOK /\ Count = 0
    BY RingAssumption DEF Init, TypeOK, Cell, Count
  <2> QED
    BY <2>1, NoItems DEF Init, Bytes!Init
<1>2. TypeOK /\ [Next]_vars => [Bytes!Next]_(Bytes!vars)
  <2> SUFFICES ASSUME TypeOK, [Next]_vars PROVE [Bytes!Next]_(Bytes!vars)
    OBVIOUS
  <2>1. ItemsTyped
    BY ItemsType
  <2>2. ASSUME NEW s \in Blocks, Write(s) PROVE Bytes!Write(s)
    <3>1. CASE Accepts(s)
      <4>1. Items' = Items \o s /\ ret' = 0 /\ out' = <<>>
        BY <3>1, WriteItems, WriteEffect
      <4>2. Len(Items) < Size /\ Len(Items) + Len(s) <= Size
        BY <2>1, <3>1, Counting, BlockType, RingAssumption DEF Accepts, ItemsTyped
      <4> QED
        BY <4>1, <4>2 DEF Bytes!Write, Bytes!Answer
    <3>2. CASE ~ Accepts(s)
      <4>1. UNCHANGED <<data, rdi, wri>> /\ out' = <<>>
        BY <2>2, <3>2, Refused
      <4>2. Items' = Items
        BY <4>1, SameItems
      <4>3. \/ Len(Items) = Size /\ ret' = 1
            \/ Len(Items) < Size /\ Len(Items) + Len(s) > Size /\ ret' = -1
        <5>1. \/ IsFull /\ ret' = 1
              \/ ~ IsFull /\ Free < Len(s) /\ ret' = -1
          BY <2>2, <3>2 DEF Write, Accepts, Answer
        <5> QED
          BY <2>1, <5>1, Counting, BlockType, RingAssumption DEF ItemsTyped
      <4> QED
        BY <4>1, <4>2, <4>3 DEF Bytes!Write, Bytes!Answer
    <3> QED
      BY <3>1, <3>2
  <2>3. ASSUME NEW n \in 0 .. MaxLen, Read(n) PROVE Bytes!Read(n)
    <3>1. CASE Takes(n)
      <4>1. /\ out' = SubSeq(Items, 1, n) /\ ret' = 0
            /\ Items' = SubSeq(Items, n + 1, Len(Items))
        BY <3>1, ReadItems, ReadEffect
      <4>2. Items # <<>> /\ n <= Len(Items)
        <5>1. Count > 0 /\ n <= Count
          BY <3>1, Counting, RingAssumption DEF Takes
        <5> QED
          BY <2>1, <5>1 DEF ItemsTyped
      <4> QED
        BY <4>1, <4>2 DEF Bytes!Read, Bytes!Answer
    <3>2. CASE ~ Takes(n)
      <4>1. UNCHANGED <<data, rdi, wri>> /\ out' = <<>>
        BY <2>3, <3>2, Refused
      <4>2. Items' = Items
        BY <4>1, SameItems
      <4>3. n >= Len(Items) /\ ret' = -1
        <5>1. (IsEmpty \/ Avail < n) /\ ret' = -1
          BY <2>3, <3>2 DEF Read, Takes, Answer
        <5> QED
          BY <2>1, <5>1, Counting, RingAssumption DEF ItemsTyped
      <4> QED
        BY <4>1, <4>2, <4>3 DEF Bytes!Read, Bytes!Answer
    <3> QED
      BY <3>1, <3>2
  <2>4. CASE Clear
    <3>1. TypeOK' /\ (Count = 0)'
      BY <2>4, NextType DEF Clear, Count, Next
    <3>2. (Items = <<>>)'
      BY <3>1, NoItems, PTL
    <3> QED
      BY <2>4, <3>2 DEF Clear, Bytes!Next, Bytes!Clear
  <2>5. CASE UNCHANGED vars
    <3>1. Items' = Items
      BY <2>5, SameItems DEF vars
    <3> QED
      BY <2>5, <3>1 DEF vars, Bytes!vars
  <2> QED
    BY <2>2, <2>3, <2>4, <2>5 DEF Next, Bytes!Next, Blocks, Bytes!Blocks
<1> QED
  BY <1>1, <1>2, TypeCorrect, PTL DEF Spec, ImplementsByteQueue, Bytes!Spec
=============================================================================
