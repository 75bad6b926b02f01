--------------------------- MODULE DescriptorSets ---------------------------
(***************************************************************************)
(* select.c: the sets of descriptors given to select(), bitmaps that grow  *)
(* together.  The server clears them, adds what it waits for, calls        *)
(* select() and asks what is marked, in every round.                       *)
(***************************************************************************)
EXTENDS Integers

CONSTANTS Set,          \* SELECT_READ, SELECT_WRITE, SELECT_EXCEPT
          FD_SETSIZE,   \* bits of an fd_set
          MaxFd,        \* bound: descriptors
          MaxCapacity   \* bound: fd_sets in a bitmap; a power of two

ASSUME SetsAssumption == FD_SETSIZE \in Nat /\ MaxFd \in Nat /\ MaxCapacity \in Nat

Fd == 0 .. MaxFd

VARIABLES capacity,  \* s->capacity
          maxfd,     \* s->maxfd
          bits,      \* the bits set inside the array, of each set
          asked      \* history: what was added since the last clearing, and is ready

marksVars == <<capacity, maxfd, bits, asked>>

Empty == [s \in Set |-> {}]
MarksInit == capacity = 0 /\ maxfd = 0 /\ bits = Empty /\ asked = Empty

select_zero ==
  /\ IF capacity = 0 THEN UNCHANGED <<maxfd, bits>> ELSE maxfd' = 0 /\ bits' = Empty
  /\ asked' = Empty
  /\ UNCHANGED capacity

\* The capacities select_grow passes through.
Doubled(c) == {d \in c .. MaxCapacity :
                 d = c \/ \E k \in 0 .. MaxCapacity : d = (IF c = 0 THEN 1 ELSE c) * 2 ^ k}
Grown(c, fd) == {d \in Doubled(c) : /\ d * FD_SETSIZE >= fd
                                    /\ \A e \in Doubled(c) : e * FD_SETSIZE >= fd => e >= d}
\* mutant: the sets are not copied when they grow
KeptNone(c, d) == IF c = d THEN bits ELSE Empty
\* select_grow: the old bits stay, the new ones are cleared.
Kept(c, d) == bits

\* A bit beyond the array is written, but it is not the set's.  The first descriptor is
\* not 0, for which no array would be made.
select_add(set, fd) ==
  \E d \in Grown(capacity, fd) :
    /\ d > 0 /\ capacity' = d
    /\ bits' = [Kept(capacity, d) EXCEPT ![set] = IF fd < d * FD_SETSIZE THEN @ \cup {fd} ELSE @]
    /\ maxfd' = IF fd > maxfd THEN fd ELSE maxfd
    /\ asked' = [asked EXCEPT ![set] = @ \cup {fd}]

\* select() keeps the marks of what is ready.
Wait(ready) ==
  /\ bits' = [s \in Set |-> bits[s] \cap ready]
  /\ asked' = [s \in Set |-> asked[s] \cap ready]
  /\ UNCHANGED <<capacity, maxfd>>

select_has(set, fd) == fd <= maxfd /\ fd \in bits[set]

MarksNext ==
  \/ select_zero
  \/ \E set \in Set, fd \in Fd : select_add(set, fd)
  \/ \E ready \in SUBSET UNION {asked[s] : s \in Set} : Wait(ready)

MarksSpec == MarksInit /\ [][MarksNext]_marksVars

-----------------------------------------------------------------------------
\* A descriptor is marked exactly when it was added and is ready, in whatever order
\* the sets grow; only a number at the end of an array, a multiple of FD_SETSIZE, may
\* be lost. (select_add, select_grow, select_zero, select_has)
MarksExact ==
  \A set \in Set, fd \in Fd :
    (\A c \in 0 .. MaxCapacity : fd # c * FD_SETSIZE)
      => (select_has(set, fd) <=> fd \in asked[set])
=============================================================================
