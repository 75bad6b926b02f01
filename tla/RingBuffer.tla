----------------------------- MODULE RingBuffer -----------------------------
(***************************************************************************)
(* buffer.c: a ring of Size + 1 cells with a read index and a write index. *)
(* One cell always stays unused, so that equal indices mean empty.         *)
(***************************************************************************)
EXTENDS Integers, Sequences

CONSTANTS Byte,    \* what a cell can hold
          Zero,    \* the byte calloc leaves
          Size,    \* buf_new(sz)
          MaxLen   \* bound: the longest block a caller writes or reads

ASSUME RingAssumption == /\ Size \in Nat \ {0}
                         /\ MaxLen \in Nat
                         /\ Zero \in Byte

VARIABLES data,      \* buf->data
          rdi, wri,  \* buf->rdi, buf->wri
          ret,       \* what the last call returned
          out        \* the block the last call gave its caller

vars == <<data, rdi, wri, ret, out>>

Cap == Size + 1
Cell == 0 .. Size
Blocks == UNION {[1 .. n -> Byte] : n \in 0 .. MaxLen}

\* buf_init
Init == /\ data = [i \in Cell |-> Zero]
        /\ rdi = 0 /\ wri = 0
        /\ ret = 0 /\ out = <<>>

IsEmpty == wri = rdi
NeverWraps(x) == x            \* mutant: the index is not taken modulo capacity
Wrapped(x) == x % Cap
IsFull == Wrapped(wri + 1) = rdi

\* The variable sz of buf_write and of buf_read.
FreeAll == IF rdi <= wri THEN Cap - (wri - rdi)   \* mutant: no unused cell
           ELSE rdi - wri
Free == IF rdi <= wri THEN Cap - (wri - rdi) - 1 ELSE rdi - wri - 1
Avail == IF wri <= rdi THEN Cap - (rdi - wri) - 1 ELSE wri - rdi

\* memcpy(mem + at, s + from, k)
Copy(mem, at, s, from, k) ==
  [i \in Cell |-> IF at <= i /\ i < at + k THEN s[from + (i - at) + 1] ELSE mem[i]]

\* memcpy(..., data + at, k)
Fetch(at, k) == [i \in 1 .. k |-> data[at + i - 1]]

Answer(r, block) == ret' = r /\ out' = block

Write(s) ==
  LET n == Len(s)
      m == Cap - wri
      start == Wrapped(wri + m)
  IN  /\ UNCHANGED rdi
      /\ \/ IsFull /\ Answer(1, <<>>) /\ UNCHANGED <<data, wri>>
         \/ ~ IsFull /\ Free < n /\ Answer(-1, <<>>) /\ UNCHANGED <<data, wri>>
         \/ /\ ~ IsFull /\ n <= Free /\ Answer(0, <<>>)
            /\ \/ /\ rdi <= wri /\ m <= n   \* in two parts, around the end
                  /\ data' = Copy(Copy(data, wri, s, 0, m), start, s, m, n - m)
                  /\ wri' = Wrapped(start + n - m)
               \/ /\ wri < rdi \/ n < m
                  /\ data' = Copy(data, wri, s, 0, n)
                  /\ wri' = Wrapped(wri + n)

Read(n) ==
  LET m == Cap - rdi
      start == Wrapped(rdi + m)
  IN  /\ UNCHANGED <<data, wri>>
      /\ \/ (IsEmpty \/ Avail < n) /\ Answer(-1, <<>>) /\ UNCHANGED rdi
         \/ /\ ~ IsEmpty /\ n <= Avail
            /\ \/ /\ wri <= rdi /\ m <= n   \* in two parts, around the end
                  /\ Answer(0, Fetch(rdi, m) \o Fetch(start, n - m))
                  /\ rdi' = Wrapped(start + n - m)
               \/ /\ rdi < wri \/ n < m
                  /\ Answer(0, Fetch(rdi, n))
                  /\ rdi' = Wrapped(rdi + n)

\* buf_clear
Clear == rdi' = 0 /\ wri' = 0 /\ UNCHANGED <<data, ret, out>>

Next == \/ \E s \in Blocks : Write(s)
        \/ \E n \in 0 .. MaxLen : Read(n)
        \/ Clear

Spec == Init /\ [][Next]_vars
-----------------------------------------------------------------------------
TypeOK == /\ data \in [Cell -> Byte]
          /\ rdi \in Cell /\ wri \in Cell
          /\ ret \in {0, 1, -1}
          /\ out \in Seq(Byte)

\* The bytes between the indices, oldest first.
Count == IF rdi <= wri THEN wri - rdi ELSE Cap - (rdi - wri)
Items == [i \in 1 .. Count |-> data[Wrapped(rdi + i - 1)]]

Bytes == INSTANCE ByteQueue WITH items <- Items

\* buffer.c: whatever the two indices, the ring behaves as a bounded queue of
\* bytes: nothing is lost, repeated, overwritten or reordered.
ImplementsByteQueue == Bytes!Spec

\* buffer_test.c:53-55: what has been written can be read back whole.
WholeReadable ==
  [][\A n \in 1 .. MaxLen : Read(n) /\ n <= Count => ret' = 0]_vars
=============================================================================
