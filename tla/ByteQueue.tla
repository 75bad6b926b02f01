----------------------------- MODULE ByteQueue -----------------------------
(***************************************************************************)
(* What buffer.h promises: a queue of at most Size bytes, written and read *)
(* in blocks, each call all or nothing.  RingBuffer is shown to implement  *)
(* it.  One freedom is the code's: a read that asks for everything there   *)
(* is may be refused.                                                      *)
(***************************************************************************)
EXTENDS Integers, Sequences

CONSTANTS Byte,    \* what a cell can hold
          Size,    \* buf_new(sz): how many bytes the buffer can hold
          MaxLen   \* bound: the longest block a caller writes or reads

VARIABLES items,   \* the bytes in the buffer, oldest first
          ret,     \* what the last call returned
          out      \* the block the last call read

vars == <<items, ret, out>>

Init == items = <<>> /\ ret = 0 /\ out = <<>>

Answer(r, block) == ret' = r /\ out' = block

Write(s) == \/ /\ Len(items) = Size
               /\ Answer(1, <<>>) /\ UNCHANGED items
            \/ /\ Len(items) < Size /\ Len(items) + Len(s) > Size
               /\ Answer(-1, <<>>) /\ UNCHANGED items
            \/ /\ Len(items) < Size /\ Len(items) + Len(s) <= Size
               /\ Answer(0, <<>>) /\ items' = items \o s

Read(n) == \/ /\ n >= Len(items)
              /\ Answer(-1, <<>>) /\ UNCHANGED items
           \/ /\ items # <<>> /\ n <= Len(items)
              /\ Answer(0, SubSeq(items, 1, n))
              /\ items' = SubSeq(items, n + 1, Len(items))

Clear == items' = <<>> /\ UNCHANGED <<ret, out>>

Blocks == UNION {[1 .. n -> Byte] : n \in 0 .. MaxLen}

Next == \/ \E s \in Blocks : Write(s)
        \/ \E n \in 0 .. MaxLen : Read(n)
        \/ Clear

Spec == Init /\ [][Next]_vars
=============================================================================
