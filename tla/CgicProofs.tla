----------------------------- MODULE CgicProofs -----------------------------
(***************************************************************************)
(* What is proved of Cgic, for every request and every file, whichever     *)
(* of the calls that Faults names fails: no temporary file is lost, and    *)
(* what a script restores is what it had saved but for what that failure   *)
(* costs; and of the answers a script gets, that they fit their buffers    *)
(* and that what is escaped holds no markup.                               *)
(*                                                                         *)
(* The functions of cgic.c are loops; the lemmas about them give each loop *)
(* an invariant, and TurnsKeep says that its turns keep it.                *)
(***************************************************************************)
EXTENDS Cgic, FiniteSetTheorems, SequenceTheorems, WellFoundedInduction, TLAPS

Parts == [value : Text, name : Text, fileName : Text, type : Text, tfile : Nat, outf : BOOLEAN]

\* Every variable has its type, and the parser is within the boundary it looks for.
TypeInv ==
  /\ request \in Request /\ strm \in Stream /\ out \in Text /\ part \in Parts
  /\ boffset \in Nat /\ saved \in Saved
  /\ pc \in {"preamble", "body"} => boffset < Len(WorkingBoundary)
  /\ pc \in {"start", "preambleEnd", "next", "header", "open", "bodyEnd", "link"} => boffset = 0
  /\ form \in Seq(Entries) /\ \A t \in DOMAIN temp : temp[t] \in Text
  /\ pc \notin {"return", "crashed"} => \A i \in DOMAIN form : form[i].live

\* So has env: there is always a string where the script looks for one.
EnvInv == env \in [strings : [DOMAIN Env -> Text], wild : SUBSET DOMAIN Env, restored : BOOLEAN]

\* Where the parser is, and where it has a part of which it reads the body.
Parsing == {"start", "preamble", "preambleEnd", "next", "header", "open", "body", "bodyEnd", "link"}
Reading == {"body", "bodyEnd", "link"}

\* The temporary files of the list, and those that are not of the list.
Owned == {form[i].tfile : i \in DOMAIN form}
Lost == DOMAIN temp \ Owned

\* Each entry has its file to itself.
EntriesInv ==
  /\ \A i \in DOMAIN form : form[i].tfile \in Nat
  /\ \A i \in DOMAIN form :
       form[i].live /\ form[i].tfile > 0 =>
         /\ form[i].tfile \in DOMAIN temp
         /\ \A j \in DOMAIN form : form[j].tfile = form[i].tfile => i = j

\* Only the part being read has a file that is not of the list yet, and only the one
\* file whose fopen has failed is ever forgotten.
LostInv ==
  /\ DOMAIN temp \subseteq Nat \ {0}
  /\ pc \in Parsing \/ fault # "open" =>
       Lost \subseteq IF pc \in Reading THEN {part.tfile} ELSE {}
  /\ \A x, y \in Lost : x = y

\* The part being read: its file is open unless fopen has failed.
PartInv ==
  /\ DOMAIN part = DOMAIN NoPart /\ part.tfile \in Nat /\ part.outf \in BOOLEAN
  /\ pc \in {"header", "open"} => part.tfile = 0 /\ ~ part.outf
  /\ pc \in Reading =>
       IF part.tfile = 0 THEN ~ part.outf
       ELSE /\ part.tfile \in Lost
            /\ ~ part.outf => fault = "open"

\* While the request is parsed the list is a sequence of entries that are there, and
\* the files can be counted.
ListInv ==
  pc \in Parsing =>
    /\ form \in Seq(Range(form)) /\ \A i \in DOMAIN form : form[i].live
    /\ IsFiniteSet(DOMAIN temp)
    /\ pc = "start" => form = <<>>

TempInv == EntriesInv /\ LostInv /\ PartInv /\ ListInv

\* What a script will see of it.
SavedView(e) == [attr |-> e.attr, fileName |-> e.fileName, type |-> e.type, length |-> e.length,
                 isFile |-> e.isFile, content |-> IF e.isFile THEN e.text ELSE CString(e.value)]
Views(list) == [i \in 1 .. Len(list) |-> SavedView(list[i])]

\* The strings a file gives.
Given(f) == [i \in DOMAIN Env |-> Restored(f).strings[i + 1]]

\* What was written, or the first part of it, is what the file still gives; it gives it
\* all after a save, unless the disk was full.
Shown == {SavedView(e) : e \in SavedEntries}
KeptInv ==
  /\ kept.view \in Seq(Shown)
  /\ Savable(kept.view) =>
       LET r == Restored(saved)
       IN  /\ r.ok => Brings(kept.view, Views(r.list)) /\ Given(saved) = kept.strings
           /\ kept.whole /\ saved # Absent /\ fault # "disk"
                => r.ok /\ Len(Views(r.list)) = Len(kept.view)
  /\ kept.whole /\ saved = Absent => fault # "none"

\* The inductive invariant. KeptInv is what makes EnvRestored inductive, TypeInv what
\* makes the functions that read and write the file apply to it.
CgicInv == TypeInv /\ EnvInv /\ TempInv /\ KeptInv /\ EnvRestored

-----------------------------------------------------------------------------
(* Numbers, loops and texts                                                *)

\* A set of natural numbers has a least one.
LEMMA MinIs ==
  ASSUME NEW S \in SUBSET Nat, S # {}
  PROVE  Min(S) \in S /\ \A n \in S : Min(S) <= n
<1> DEFINE R == OpToRel(<, Nat)
<1>1. IsWellFoundedOn(R, Nat)
  BY NatLessThanWellFounded
<1>2. \A m, n \in Nat : m < n => <<m, n>> \in R
  BY DEF OpToRel
<1> HIDE DEF R
<1>3. \E m \in S : \A n \in S : <<n, m>> \notin R
  BY <1>1, WFMin
<1>4. \A m, n \in S : <<n, m>> \notin R => m <= n
  BY <1>2
<1>5. \E m \in S : \A n \in S : m <= n
  BY <1>3, <1>4
<1> QED
  BY <1>5 DEF Min

\* A set of naturals that has 0 and, with k, k + 1 has them all: induction, as the
\* provers can use it.
LEMMA Ind ==
  ASSUME NEW P \in SUBSET Nat, 0 \in P, \A k \in P : k + 1 \in P
  PROVE  P = Nat
<1> SUFFICES ASSUME Nat \ P # {} PROVE FALSE
  OBVIOUS
<1> DEFINE R == OpToRel(<, Nat)
<1>1. IsWellFoundedOn(R, Nat)
  BY NatLessThanWellFounded
<1>2. \A m, n \in Nat : m < n => <<m, n>> \in R
  BY DEF OpToRel
<1> HIDE DEF R
<1>3. PICK m \in Nat \ P : \A n \in Nat \ P : <<n, m>> \notin R
  BY <1>1, WFMin
<1>4. m # 0 /\ m - 1 \in Nat /\ m - 1 < m /\ m = (m - 1) + 1
  OBVIOUS
<1>5. m - 1 \in P
  BY <1>2, <1>3, <1>4
<1> QED
  BY <1>4, <1>5

\* The turns of a loop, one by one: the recursive function of Turns exists.
LEMMA TurnsEq ==
  ASSUME NEW start, NEW step
  PROVE  /\ Turns(start, 0, step) = start
         /\ \A n \in Nat : Turns(start, n + 1, step) = step[n + 1][Turns(start, n, step)]
<1> DEFINE Good(g, n) == /\ g[0] = start
                         /\ \A k \in 0 .. n - 1 : g[k + 1] = step[k + 1][g[k]]
           Has == {n \in Nat : \E g : Good(g, n)}
<1>1. \A n \in Nat : \E g : Good(g, n)
  <2>1. Good([k \in {0} |-> start], 0)
    OBVIOUS
  <2>2. ASSUME NEW n \in Nat, NEW g, Good(g, n) PROVE \E h : Good(h, n + 1)
    <3> DEFINE h == [k \in 0 .. n + 1 |-> IF k = n + 1 THEN step[n + 1][g[n]] ELSE g[k]]
    <3>1. \A k \in 0 .. n : h[k] = g[k]
      OBVIOUS
    <3>2. h[n + 1] = step[n + 1][g[n]] /\ h[n] = g[n]
      OBVIOUS
    <3>3. h[0] = start
      BY <2>2, <3>1
    <3>4. ASSUME NEW k \in 0 .. (n + 1) - 1 PROVE h[k + 1] = step[k + 1][h[k]]
      <4>1. CASE k = n
        BY <3>2, <4>1
      <4>2. CASE k # n
        <5>1. k \in 0 .. n - 1 /\ k + 1 \in 0 .. n /\ k \in 0 .. n
          BY <4>2
        <5>2. g[k + 1] = step[k + 1][g[k]]
          BY <2>2, <5>1
        <5> QED
          BY <3>1, <5>1, <5>2
      <4> QED
        BY <4>1, <4>2
    <3> HIDE DEF h
    <3> QED
      BY <3>3, <3>4
  <2>3. 0 \in Has
    BY <2>1
  <2>4. \A n \in Has : n + 1 \in Has
    <3> TAKE n \in Has
    <3>1. PICK g : Good(g, n)
      OBVIOUS
    <3>2. \E h : Good(h, n + 1)
      BY <2>2, <3>1
    <3> QED
      BY <3>2
  <2> HIDE DEF Good
  <2>5. Has = Nat
    BY <2>3, <2>4, Ind
  <2> QED
    BY <2>5
<1>2. ASSUME NEW n \in Nat, NEW g, NEW h, NEW m \in Nat, n <= m, Good(g, n), Good(h, m)
      PROVE  \A k \in 0 .. n : g[k] = h[k]
  <2> DEFINE P == {k \in Nat : k <= n => g[k] = h[k]}
  <2>1. 0 \in P
    BY <1>2
  <2>2. \A k \in P : k + 1 \in P
    <3> TAKE k \in P
    <3> SUFFICES ASSUME k + 1 <= n PROVE g[k + 1] = h[k + 1]
      OBVIOUS
    <3>1. k \in 0 .. n - 1 /\ k \in 0 .. m - 1 /\ k <= n
      BY <1>2
    <3>2. g[k] = h[k]
      BY <3>1
    <3> QED
      BY <1>2, <3>1, <3>2
  <2>3. P = Nat
    BY <2>1, <2>2, Ind
  <2> QED
    BY <2>3
<1> DEFINE G(n) == CHOOSE g : Good(g, n)
           F == [n \in Nat |-> G(n)[n]]
<1>3. \A n \in Nat : Good(G(n), n)
  <2> HIDE DEF Good
  <2> QED
    BY <1>1
<1>4. F[0] = start
  BY <1>3
<1>5. ASSUME NEW n \in Nat PROVE F[n + 1] = step[n + 1][F[n]]
  <2>1. Good(G(n), n) /\ Good(G(n + 1), n + 1)
    BY <1>3
  <2> HIDE DEF G
  <2>2. \A k \in 0 .. n : G(n)[k] = G(n + 1)[k]
    <3> HIDE DEF Good
    <3>1. n + 1 \in Nat /\ n <= n + 1
      OBVIOUS
    <3> QED
      BY <1>2, <2>1, <3>1
  <2>3. G(n)[n] = G(n + 1)[n]
    BY <2>2
  <2>4. n \in 0 .. (n + 1) - 1 /\ n + 1 \in Nat
    OBVIOUS
  <2>5. G(n + 1)[n + 1] = step[n + 1][G(n + 1)[n]]
    BY <2>1, <2>4
  <2> QED
    BY <2>3, <2>4, <2>5
<1> HIDE DEF F
<1> DEFINE Turn == CHOOSE f : f = [k \in Nat |-> IF k = 0 THEN start ELSE step[k][f[k - 1]]]
<1>6. F = [k \in Nat |-> IF k = 0 THEN start ELSE step[k][F[k - 1]]]
  <2>1. F = [k \in Nat |-> F[k]]
    BY DEF F
  <2>2. ASSUME NEW k \in Nat PROVE F[k] = IF k = 0 THEN start ELSE step[k][F[k - 1]]
    <3>1. CASE k = 0
      BY <1>4, <3>1
    <3>2. CASE k # 0
      <4> DEFINE j == k - 1
      <4>1. j \in Nat /\ k = j + 1
        BY <3>2
      <4> HIDE DEF j
      <4>2. F[k] = step[k][F[j]]
        BY <1>5, <4>1
      <4> QED
        BY <3>2, <4>2 DEF j
    <3> QED
      BY <3>1, <3>2
  <2> QED
    BY <2>1, <2>2
<1>7. Turn = [k \in Nat |-> IF k = 0 THEN start ELSE step[k][Turn[k - 1]]]
  BY <1>6
<1>8. \A n : Turns(start, n, step) = Turn[n]
  BY DEF Turns
<1> HIDE DEF Turn
<1>9. Turn[0] = start
  BY <1>7
<1>10. ASSUME NEW n \in Nat PROVE Turn[n + 1] = step[n + 1][Turn[n]]
  <2>1. n + 1 \in Nat /\ n + 1 # 0 /\ (n + 1) - 1 = n
    OBVIOUS
  <2> QED
    BY <1>7, <2>1
<1> QED
  BY <1>8, <1>9, <1>10

\* What holds of the start and is kept by each turn holds after any number of turns.
LEMMA TurnsKeep ==
  ASSUME NEW P, NEW start, NEW step, NEW n \in Nat,
         start \in P[0],
         \A k \in 1 .. n : \A x : x \in P[k - 1] => step[k][x] \in P[k]
  PROVE  Turns(start, n, step) \in P[n]
<1> DEFINE Good == {k \in Nat : k <= n => Turns(start, k, step) \in P[k]}
<1>1. 0 \in Good
  BY TurnsEq
<1>2. ASSUME NEW k \in Good, k + 1 <= n PROVE Turns(start, k + 1, step) \in P[k + 1]
  <2> DEFINE x == Turns(start, k, step)
             j == k + 1
  <2>1. x \in P[k] /\ k \in Nat
    BY <1>2
  <2>2. Turns(start, k + 1, step) = step[k + 1][x]
    BY <2>1, TurnsEq
  <2>3. j \in 1 .. n /\ j - 1 = k
    BY <1>2
  <2> HIDE DEF x
  <2>4. step[j][x] \in P[j]
    <3>1. x \in P[j - 1]
      BY <2>1, <2>3
    <3> QED
      BY <2>3, <3>1
  <2> QED
    BY <2>2, <2>4 DEF x
<1>3. Good \in SUBSET Nat /\ \A k \in Good : k + 1 \in Good
  BY <1>2
<1> HIDE DEF Good
<1>4. Good = Nat
  BY <1>1, <1>3, Ind
<1> QED
  BY <1>4 DEF Good

\* The type of a loop's state.
LEMMA TurnsIn ==
  ASSUME NEW S, NEW start \in S, NEW step, NEW n \in Nat,
         \A k \in 1 .. n, x \in S : step[k][x] \in S
  PROVE  Turns(start, n, step) \in S
<1> DEFINE P == [k \in 0 .. n |-> S]
<1>1. \A k \in 0 .. n : P[k] = S
  OBVIOUS
<1>2. start \in P[0]
  BY <1>1
<1>3. \A k \in 1 .. n : \A x : x \in P[k - 1] => step[k][x] \in P[k]
  BY <1>1
<1> HIDE DEF P
<1>4. Turns(start, n, step) \in P[n]
  BY <1>2, <1>3, TurnsKeep
<1> QED
  BY <1>1, <1>4

\* The smaller of two numbers.
LEMMA MinTwo ==
  ASSUME NEW a \in Int, NEW b \in Int
  PROVE  Min({a, b}) = IF a <= b THEN a ELSE b
<1>1. \E x \in {a, b} : \A y \in {a, b} : x =< y
  BY SMT
<1> QED
  BY <1>1 DEF Min

\* The larger of two numbers.
LEMMA MaxTwo ==
  ASSUME NEW a \in Int, NEW b \in Int
  PROVE  Max({a, b}) = IF a >= b THEN a ELSE b
<1>1. \E x \in {a, b} : \A y \in {a, b} : x >= y
  BY SMT
<1> QED
  BY <1>1 DEF Max

\* A text up to the first of some places.
LEMMA UpToPlace ==
  ASSUME NEW s \in Text, NEW I \in SUBSET (1 .. Len(s))
  PROVE  LET stop == IF I # {} THEN Min(I) ELSE 0
             r    == IF stop = 0 THEN s ELSE SubSeq(s, 1, stop - 1)
         IN  /\ r \in Text /\ Len(r) <= Len(s)
             /\ \A i \in 1 .. Len(r) : r[i] = s[i] /\ i \notin I
             /\ I = {} => r = s
<1> DEFINE stop == IF I # {} THEN Min(I) ELSE 0
           r    == IF stop = 0 THEN s ELSE SubSeq(s, 1, stop - 1)
<1>1. s \in Seq(Nat) /\ Len(s) \in Nat
  BY LenProperties DEF Text
<1>2. CASE I = {}
  BY <1>1, <1>2 DEF Text
<1>3. CASE I # {}
  <2>1. I \in SUBSET Nat
    BY <1>1
  <2>2. Min(I) \in I /\ \A i \in I : Min(I) <= i
    BY <1>3, <2>1, MinIs
  <2> DEFINE m == stop - 1
  <2>3. m \in Nat /\ m < Len(s) /\ r = SubSeq(s, 1, m) /\ \A i \in I : m < i
    <3>1. stop = Min(I)
      BY <1>3
    <3> DEFINE least == Min(I)
    <3>2. least \in 1 .. Len(s) /\ \A i \in I : least <= i /\ i \in Int
      <4>1. Min(I) \in 1 .. Len(s)
        BY <2>2
      <4>2. \A i \in I : i \in 1 .. Len(s)
        OBVIOUS
      <4> QED
        BY <2>2, <4>1, <4>2
    <3>3. stop # 0 /\ r = SubSeq(s, 1, least - 1) /\ m = least - 1
      BY <3>1, <3>2
    <3> HIDE DEF least, stop, r, m
    <3> QED
      BY <1>1, <3>2, <3>3
  <2> HIDE DEF m, r
  <2>4. \A i \in 1 .. m : s[i] \in Nat
    BY <1>1, <2>3, ElementOfSeq
  <2>5. /\ SubSeq(s, 1, m) \in Seq(Nat)
        /\ Len(SubSeq(s, 1, m)) = IF 1 <= m THEN m - 1 + 1 ELSE 0
        /\ \A i \in 1 .. m - 1 + 1 : SubSeq(s, 1, m)[i] = s[1 + i - 1]
    BY <2>3, <2>4, SubSeqProperties
  <2>6. Len(r) = m
    BY <2>3, <2>5
  <2>7. \A i \in 1 .. m : r[i] = s[i] /\ i \notin I
    <3> TAKE i \in 1 .. m
    <3>1. i \in 1 .. m - 1 + 1 /\ 1 + i - 1 = i /\ i <= m
      BY <2>3
    <3> QED
      BY <2>3, <2>5, <3>1
  <2>8. r \in Text /\ Len(r) <= Len(s) /\ (\A i \in 1 .. Len(r) : r[i] = s[i] /\ i \notin I)
    BY <1>1, <2>3, <2>5, <2>6, <2>7 DEF Text
  <2> QED
    BY <1>3, <2>8 DEF r
<1> QED
  BY <1>2, <1>3

\* UpTo, and so CString: what is before the first c.
LEMMA UpToIs ==
  ASSUME NEW s \in Text, NEW c
  PROVE  /\ UpTo(s, c) \in Text /\ Len(UpTo(s, c)) <= Len(s)
         /\ \A i \in 1 .. Len(UpTo(s, c)) : UpTo(s, c)[i] = s[i] /\ s[i] # c
         /\ (\A i \in 1 .. Len(s) : s[i] # c) => UpTo(s, c) = s
<1> DEFINE I == {i \in 1 .. Len(s) : ~ s[i] # c}
           stop == IF I # {} THEN Min(I) ELSE 0
           r    == IF stop = 0 THEN s ELSE SubSeq(s, 1, stop - 1)
<1>1. UpTo(s, c) = r
  BY DEF UpTo, Span, SelectInSeq
<1>2. I \in SUBSET (1 .. Len(s))
  OBVIOUS
<1>3. /\ r \in Text /\ Len(r) <= Len(s)
      /\ \A i \in 1 .. Len(r) : r[i] = s[i] /\ i \notin I
      /\ I = {} => r = s
  <2> HIDE DEF I
  <2> QED
    BY <1>2, UpToPlace
<1> HIDE DEF r
<1>4. Len(r) \in Nat /\ Len(s) \in Nat
  BY <1>3, LenProperties DEF Text
<1>5. \A i \in 1 .. Len(r) : r[i] = s[i] /\ s[i] # c
  BY <1>3, <1>4
<1> QED
  BY <1>1, <1>3, <1>5

\* The name and the blanks a text begins with. (decomposeValue, readHeaderLine)
LEMMA SpanTypes ==
  ASSUME NEW s \in Text
  PROVE  /\ Span(s, IsAlnum) \in Text /\ Len(Span(s, IsAlnum)) <= Len(s)
         /\ Span(s, IsSpace) \in Text /\ Len(Span(s, IsSpace)) <= Len(s)
<1> DEFINE I == {i \in 1 .. Len(s) : ~ IsAlnum(s[i])}
           J == {i \in 1 .. Len(s) : ~ IsSpace(s[i])}
           Cut(K) == IF (IF K # {} THEN Min(K) ELSE 0) = 0 THEN s
                     ELSE SubSeq(s, 1, (IF K # {} THEN Min(K) ELSE 0) - 1)
<1>1. I \in SUBSET (1 .. Len(s)) /\ J \in SUBSET (1 .. Len(s))
  OBVIOUS
<1>2. Span(s, IsAlnum) = Cut(I)
  BY DEF Span, SelectInSeq
<1>3. Span(s, IsSpace) = Cut(J)
  BY DEF Span, SelectInSeq
<1> HIDE DEF I, J
<1>4. ASSUME NEW K \in SUBSET (1 .. Len(s)) PROVE Cut(K) \in Text /\ Len(Cut(K)) <= Len(s)
  BY UpToPlace
<1> HIDE DEF Cut
<1> QED
  BY <1>1, <1>2, <1>3, <1>4

\* What is left after n elements.
LEMMA DropIs ==
  ASSUME NEW S, NEW s \in Seq(S), NEW n \in Nat
  PROVE  /\ Drop(s, n) \in Seq(S)
         /\ Len(Drop(s, n)) = IF n <= Len(s) THEN Len(s) - n ELSE 0
         /\ \A i \in 1 .. Len(Drop(s, n)) : Drop(s, n)[i] = s[n + i]
<1>1. Len(s) \in Nat /\ n + 1 \in Int
  BY LenProperties
<1>2. \A i \in n + 1 .. Len(s) : s[i] \in S
  BY <1>1, ElementOfSeq
<1>3. /\ SubSeq(s, n + 1, Len(s)) \in Seq(S)
      /\ Len(SubSeq(s, n + 1, Len(s))) = IF n + 1 <= Len(s) THEN Len(s) - (n + 1) + 1 ELSE 0
      /\ \A i \in 1 .. Len(s) - (n + 1) + 1 : SubSeq(s, n + 1, Len(s))[i] = s[(n + 1) + i - 1]
  BY <1>1, <1>2, SubSeqProperties
<1> DEFINE d == Drop(s, n)
<1>4. d = SubSeq(s, n + 1, Len(s))
  BY DEF Drop
<1> HIDE DEF d
<1>5. Len(d) = IF n <= Len(s) THEN Len(s) - n ELSE 0
  BY <1>1, <1>3, <1>4
<1>6. ASSUME NEW i \in 1 .. Len(d) PROVE d[i] = s[n + i]
  <2>1. i \in 1 .. Len(s) - (n + 1) + 1 /\ (n + 1) + i - 1 = n + i
    BY <1>1, <1>5
  <2> QED
    BY <1>3, <1>4, <2>1
<1> QED
  BY <1>3, <1>4, <1>5, <1>6 DEF d

-----------------------------------------------------------------------------
(* A file of ints and chars, whole or cut                                  *)

\* f is a file that has been cut: what there is of g from its beginning.
Cut(f, g) == /\ f \in Saved /\ g \in Saved /\ Len(f) <= Len(g)
             /\ \A i \in 1 .. Len(f) : f[i] = g[i]

Item == [int : BOOLEAN, v : Nat]

\* The file f begins with x; what comes then is cut from t.
Past(f, x, t, n) == /\ Len(f) >= n /\ Len(f) = n + Len(Drop(f, n))
                    /\ Cut(Drop(f, n), t)
                    /\ \A i \in 1 .. n : f[i] = x[i]

\* A cut file ends within its first piece, or after it.
LEMMA CutConcat ==
  ASSUME NEW x \in Saved, NEW t \in Saved, NEW f, Cut(f, x \o t), NEW n, n = Len(x)
  PROVE  Len(f) < n \/ Past(f, x, t, n)
<1> DEFINE g == x \o t
<1>0. Len(x) = n
  OBVIOUS
<1>1. /\ x \in Seq(Item) /\ t \in Seq(Item) /\ f \in Seq(Item)
      /\ Len(x) \in Nat /\ Len(t) \in Nat /\ Len(f) \in Nat
  BY LenProperties DEF Cut, Saved, Item
<1> DEFINE d == Drop(f, n)
<1>2. /\ Len(g) = Len(x) + Len(t)
      /\ \A i \in 1 .. Len(x) + Len(t) : g[i] = IF i <= Len(x) THEN x[i] ELSE t[i - Len(x)]
  <2>1. /\ Len(x \o t) = Len(x) + Len(t)
        /\ \A i \in 1 .. Len(x) + Len(t) :
             (x \o t)[i] = IF i <= Len(x) THEN x[i] ELSE t[i - Len(x)]
    BY <1>1, ConcatProperties
  <2> QED
    BY <2>1
<1>3. Len(f) <= Len(g) /\ \A i \in 1 .. Len(f) : f[i] = g[i]
  BY DEF Cut
<1>4. CASE Len(f) < Len(x)
  BY <1>0, <1>1, <1>2, <1>3, <1>4
<1>5. CASE Len(f) >= Len(x)
  <2>1. /\ d \in Seq(Item) /\ Len(d) = Len(f) - Len(x)
        /\ \A i \in 1 .. Len(d) : d[i] = f[Len(x) + i]
    BY <1>0, <1>1, <1>5, DropIs
  <2> HIDE DEF d
  <2>2. ASSUME NEW i \in 1 .. Len(d) PROVE d[i] = t[i]
    <3> DEFINE m == Len(x) + i
    <3>1. m \in 1 .. Len(f) /\ m \in 1 .. Len(x) + Len(t) /\ m - Len(x) = i /\ ~ m <= Len(x)
      BY <1>1, <1>2, <1>3, <1>5, <2>1
    <3>2. d[i] = f[m]
      BY <2>1
    <3> HIDE DEF m
    <3> QED
      BY <1>2, <1>3, <3>1, <3>2
  <2>3. Len(d) <= Len(t)
    BY <1>1, <1>2, <1>3, <2>1
  <2>4. Cut(d, t)
    BY <1>1, <2>1, <2>2, <2>3 DEF Cut, Saved, Item
  <2>5. Len(f) >= n /\ Len(f) = n + Len(d)
    BY <1>0, <1>1, <1>5, <2>1
  <2>6. \A i \in 1 .. n : f[i] = x[i]
    BY <1>0, <1>1, <1>2, <1>3, <1>5
  <2> QED
    BY <2>4, <2>5, <2>6 DEF d, Past
<1> QED
  BY <1>0, <1>1, <1>4, <1>5

\* A file of one int before what follows.
LEMMA IntIs ==
  ASSUME NEW n \in Nat
  PROVE  <<OneInt(n)>> \in Saved /\ Len(<<OneInt(n)>>) = 1 /\ <<OneInt(n)>>[1] = OneInt(n)
         /\ OneInt(n) \in Item /\ OneInt(n).int /\ OneInt(n).v = n
BY DEF OneInt, Saved, Item

\* What is read where an int has been written. (cgiReadInt)
LEMMA ReadsInt ==
  ASSUME NEW n \in Nat, NEW t \in Saved, NEW f, Cut(f, <<OneInt(n)>> \o t)
  PROVE  LET r == ReadInt(f)
         IN  \/ f = <<>> /\ r = Unread
             \/ r.ok /\ r.v = n /\ Cut(r.rest, t) /\ Len(f) = 1 + Len(r.rest)
<1> DEFINE x == <<OneInt(n)>>
<1>1. x \in Saved /\ Len(x) = 1 /\ x[1] = OneInt(n) /\ OneInt(n).int /\ OneInt(n).v = n
  BY IntIs
<1> HIDE DEF x
<1>2. Cut(f, x \o t)
  BY DEF x
<1>3. f \in Seq(Item) /\ Len(f) \in Nat
  BY LenProperties DEF Cut, Saved, Item
<1>4. CASE f = <<>>
  BY <1>4 DEF ReadInt
<1>5. CASE f # <<>>
  <2>1. Len(f) >= 1
    BY <1>3, <1>5, EmptySeq
  <2>2. Len(f) < 1 \/ Past(f, x, t, 1)
    BY <1>1, <1>2, CutConcat
  <2>22. /\ Len(f) = 1 + Len(Drop(f, 1)) /\ Cut(Drop(f, 1), t) /\ f[1] = OneInt(n)
    BY <1>1, <1>3, <2>1, <2>2 DEF Past
  <2>3. Tail(f) = Drop(f, 1)
    BY <1>3, <1>5, TailIsSubSeq DEF Drop
  <2>4. ReadInt(f).ok /\ ReadInt(f).v = n /\ ReadInt(f).rest = Tail(f)
    BY <1>1, <1>5, <2>22 DEF ReadInt
  <2> QED
    BY <2>22, <2>3, <2>4
<1> QED
  BY <1>4, <1>5

\* The bytes of a text in a file.
LEMMA CharsAre ==
  ASSUME NEW s \in Text
  PROVE  /\ Chars(s) \in Saved /\ Len(Chars(s)) = Len(s)
         /\ \A i \in 1 .. Len(s) : Chars(s)[i].v = s[i]
<1>1. s \in Seq(Nat) /\ Len(s) \in Nat /\ \A i \in 1 .. Len(s) : s[i] \in Nat
  BY LenProperties, ElementOfSeq DEF Text
<1>2. Chars(s) \in [1 .. Len(s) -> Item]
  BY <1>1 DEF Chars, Item
<1>3. Chars(s) \in Seq(Item)
  BY <1>1, <1>2, SeqDef
<1>4. Len(Chars(s)) = Len(s)
  BY <1>1, <1>2, <1>3, LenProperties
<1>5. \A i \in 1 .. Len(s) : Chars(s)[i].v = s[i]
  BY DEF Chars
<1> QED
  BY <1>3, <1>4, <1>5 DEF Saved, Item

\* The v's of a piece of a file are the text that was written there.
LEMMA SameText ==
  ASSUME NEW s \in Text, NEW f, \A i \in 1 .. Len(s) : f[i].v = s[i]
  PROVE  [i \in 1 .. Len(s) |-> f[i].v] = s
<1>1. s \in Seq(Nat) /\ Len(s) \in Nat /\ s \in [1 .. Len(s) -> Nat]
  BY LenProperties DEF Text
<1>2. s = [i \in 1 .. Len(s) |-> s[i]]
  BY <1>1
<1> QED
  BY <1>2

\* One piece of a file after another.
LEMMA ConcatSaved ==
  ASSUME NEW x \in Saved, NEW t \in Saved
  PROVE  x \o t \in Saved /\ Len(x) \in Nat /\ Len(t) \in Nat /\ Len(x \o t) = Len(x) + Len(t)
BY ConcatProperties, LenProperties DEF Saved

\* A string in a file. (cgiWriteString)
LEMMA StringIs ==
  ASSUME NEW s \in Text
  PROVE  WriteString(s) \in Saved /\ Len(WriteString(s)) = 1 + Len(s) /\ Len(s) \in Nat
<1>1. Len(s) \in Nat
  BY LenProperties DEF Text
<1> DEFINE x == <<OneInt(Len(s))>>
           c == Chars(s)
<1>2. x \in Saved /\ Len(x) = 1 /\ c \in Saved /\ Len(c) = Len(s)
  BY <1>1, IntIs, CharsAre
<1>3. WriteString(s) = x \o c
  BY DEF WriteString
<1> HIDE DEF x, c
<1>4. x \o c \in Saved /\ Len(x \o c) = Len(x) + Len(c)
  BY <1>2, ConcatSaved
<1> QED
  BY <1>1, <1>2, <1>3, <1>4

\* What is read where a string has been written. (cgiReadString, cgiWriteString)
LEMMA ReadsString ==
  ASSUME NEW s \in Text, NEW t \in Saved, NEW f, Cut(f, WriteString(s) \o t)
  PROVE  LET r == ReadString(f)
         IN  \/ Len(f) < Len(WriteString(s)) /\ r = Unread
             \/ r.ok /\ r.v = s /\ Cut(r.rest, t) /\ Len(f) = Len(WriteString(s)) + Len(r.rest)
<1> DEFINE r == ReadString(f)
           w == WriteString(s)
           n == ReadInt(f)
           m == n.rest
           c == Chars(s)
           k == Len(s)
           d == Drop(m, k)
<1>1. /\ k \in Nat /\ c \in Saved /\ Len(c) = k /\ Len(w) = 1 + k
      /\ \A i \in 1 .. k : c[i].v = s[i]
  BY CharsAre, StringIs
<1>2. w \o t = <<OneInt(k)>> \o (c \o t) /\ c \o t \in Saved
  <2>1. <<OneInt(k)>> \in Saved
    BY <1>1, IntIs
  <2>2. (<<OneInt(k)>> \o c) \o t = <<OneInt(k)>> \o (c \o t)
    BY <1>1, <2>1, ConcatAssociative DEF Saved
  <2> QED
    BY <1>1, <2>2, ConcatSaved DEF WriteString
<1> HIDE DEF c
<1>3. \/ f = <<>> /\ n = Unread
      \/ n.ok /\ n.v = k /\ Cut(m, c \o t) /\ Len(f) = 1 + Len(m)
  BY <1>1, <1>2, ReadsInt
<1>4. r = IF n.ok /\ n.v <= Len(m)
          THEN [ok |-> TRUE, v |-> [i \in 1 .. n.v |-> m[i].v], rest |-> Drop(m, n.v)]
          ELSE Unread
  BY DEF ReadString
<1> HIDE DEF n, m, r, w
<1>5. CASE f = <<>> /\ n = Unread
  <2>1. r = Unread /\ Len(f) = 0
    BY <1>4, <1>5 DEF Unread
  <2>2. Len(f) < Len(w) /\ r = Unread
    BY <1>1, <2>1
  <2> QED
    BY <2>2 DEF r, w
<1>6. CASE n.ok /\ n.v = k /\ Cut(m, c \o t) /\ Len(f) = 1 + Len(m)
  <2>1. Len(m) \in Nat
    BY <1>6, LenProperties DEF Cut, Saved
  <2>2. Len(m) < k \/ Past(m, c, t, k)
    <3> HIDE DEF k, d
    <3>1. c \in Saved /\ t \in Saved /\ k = Len(c) /\ Cut(m, c \o t)
      BY <1>1, <1>6
    <3> QED
      BY <3>1, CutConcat
  <2> HIDE DEF k
  <2>3. CASE Len(m) < k
    <3>1. r = Unread
      BY <1>1, <1>4, <1>6, <2>1, <2>3
    <3>2. Len(f) < Len(w)
      BY <1>1, <1>6, <2>1, <2>3
    <3> QED
      BY <3>1, <3>2 DEF r, w
  <2>4. CASE Past(m, c, t, k)
    <3>0. /\ Len(m) >= k /\ Len(m) = k + Len(d)
          /\ Cut(d, t)
          /\ \A i \in 1 .. k : m[i] = c[i]
      BY <2>4 DEF Past
    <3>1. [i \in 1 .. k |-> m[i].v] = s
      BY <1>1, <3>0, SameText DEF k
    <3>2. n.v <= Len(m) /\ n.v = k
      BY <1>1, <1>6, <2>1, <3>0
    <3>3. r.ok /\ r.rest = d /\ r.v = [i \in 1 .. k |-> m[i].v]
      BY <1>4, <1>6, <3>2
    <3>4. Len(d) \in Nat
      BY <3>0, LenProperties DEF Cut, Saved
    <3>5. Len(f) = Len(w) + Len(d)
      BY <1>1, <1>6, <2>1, <3>0, <3>4
    <3> HIDE DEF d
    <3>6. r.ok /\ r.v = s /\ Cut(r.rest, t) /\ Len(f) = Len(w) + Len(r.rest)
      BY <3>0, <3>1, <3>3, <3>5
    <3> QED
      BY <3>6 DEF r, w
  <2> QED
    BY <2>2, <2>3, <2>4
<1> QED
  BY <1>3, <1>5, <1>6

\* Where nothing is left nothing is read.
LEMMA ReadsNothing ==
  ASSUME NEW f, f = <<>>
  PROVE  ReadString(f) = Unread /\ ReadInt(f) = Unread
<1>1. ReadInt(f) = Unread
  BY DEF ReadInt
<1> QED
  BY <1>1 DEF ReadString, Unread

\* The same of a file that is whole or not.
Part(f, g, whole) == Cut(f, g) /\ (whole => Len(f) = Len(g))

\* The same of a file that is whole or cut: a whole one gives the string.
\* (cgiReadString)
LEMMA PartReadsString ==
  ASSUME NEW s \in Text, NEW t \in Saved, NEW whole, NEW f, Part(f, WriteString(s) \o t, whole)
  PROVE  \/ ~ whole /\ ReadString(f) = Unread
         \/ /\ ReadString(f).ok /\ ReadString(f).v = s
            /\ Part(ReadString(f).rest, t, whole)
<1> DEFINE r == ReadString(f)
           w == WriteString(s)
<1>1. w \in Saved /\ Len(w) \in Nat
  BY StringIs, ConcatSaved
<1>2. Len(w \o t) = Len(w) + Len(t) /\ Len(t) \in Nat
  BY <1>1, ConcatSaved
<1>3. Cut(f, w \o t) /\ (whole => Len(f) = Len(w \o t))
  BY DEF Part
<1>4. \/ Len(f) < Len(w) /\ r = Unread
      \/ r.ok /\ r.v = s /\ Cut(r.rest, t) /\ Len(f) = Len(w) + Len(r.rest)
  BY <1>3, ReadsString
<1>5. Len(f) \in Nat
  BY <1>3, LenProperties DEF Cut, Saved
<1> HIDE DEF r, w
<1>6. CASE Len(f) < Len(w) /\ r = Unread
  <2>1. ~ whole
    BY <1>1, <1>2, <1>3, <1>5, <1>6
  <2> QED
    BY <1>6, <2>1 DEF r
<1>7. CASE r.ok /\ r.v = s /\ Cut(r.rest, t) /\ Len(f) = Len(w) + Len(r.rest)
  <2>1. Len(r.rest) \in Nat
    BY <1>7, LenProperties DEF Cut, Saved
  <2>2. whole => Len(r.rest) = Len(t)
    BY <1>1, <1>2, <1>3, <1>5, <1>7, <2>1
  <2> QED
    BY <1>7, <2>2 DEF r, Part
<1> QED
  BY <1>4, <1>6, <1>7

\* The same of an int. (cgiReadInt)
LEMMA PartReadsInt ==
  ASSUME NEW n \in Nat, NEW t \in Saved, NEW whole, NEW f, Part(f, <<OneInt(n)>> \o t, whole)
  PROVE  \/ ~ whole /\ f = <<>> /\ ReadInt(f) = Unread
         \/ /\ ReadInt(f).ok /\ ReadInt(f).v = n
            /\ Part(ReadInt(f).rest, t, whole)
<1> DEFINE r == ReadInt(f)
           x == <<OneInt(n)>>
<1>1. x \in Saved /\ Len(x) = 1
  BY IntIs
<1> HIDE DEF x
<1>2. Len(x \o t) = 1 + Len(t) /\ Len(t) \in Nat
  BY <1>1, ConcatSaved
<1>3. Cut(f, x \o t) /\ (whole => Len(f) = Len(x \o t))
  BY DEF Part, x
<1>4. \/ f = <<>> /\ r = Unread
      \/ r.ok /\ r.v = n /\ Cut(r.rest, t) /\ Len(f) = 1 + Len(r.rest)
  BY <1>3, ReadsInt DEF x
<1> HIDE DEF r
<1>6. CASE f = <<>> /\ r = Unread
  <2>1. Len(f) = 0
    BY <1>6
  <2>2. ~ whole
    BY <1>2, <1>3, <2>1
  <2> QED
    BY <1>6, <2>2 DEF r
<1>7. CASE r.ok /\ r.v = n /\ Cut(r.rest, t) /\ Len(f) = 1 + Len(r.rest)
  <2>1. Len(r.rest) \in Nat
    BY <1>7, LenProperties DEF Cut, Saved
  <2>2. whole => Len(r.rest) = Len(t)
    BY <1>2, <1>3, <1>7, <2>1
  <2> QED
    BY <1>7, <2>2 DEF r, Part
<1> QED
  BY <1>4, <1>6, <1>7

\* The same of the contents of a temporary file.
LEMMA PartReadsChars ==
  ASSUME NEW s \in Text, NEW t \in Saved, NEW whole, NEW f, Part(f, Chars(s) \o t, whole)
  PROVE  \/ ~ whole /\ Len(f) < Len(s)
         \/ /\ Len(f) >= Len(s) /\ [i \in 1 .. Len(s) |-> f[i].v] = s
            /\ Part(Drop(f, Len(s)), t, whole)
<1> DEFINE c == Chars(s)
           k == Len(s)
           d == Drop(f, k)
<1>1. c \in Saved /\ Len(c) = k /\ (\A i \in 1 .. k : c[i].v = s[i]) /\ k \in Nat
  BY CharsAre, StringIs
<1> HIDE DEF c
<1>2. Len(c \o t) = k + Len(t) /\ Len(t) \in Nat
  BY <1>1, ConcatSaved
<1>3. Cut(f, c \o t) /\ (whole => Len(f) = Len(c \o t))
  BY DEF Part, c
<1>4. Len(f) \in Nat
  BY <1>3, LenProperties DEF Cut, Saved
<1> HIDE DEF k, d
<1>5. Len(f) < k \/ Past(f, c, t, k)
  BY <1>1, <1>3, CutConcat
<1>6. CASE Len(f) < k
  BY <1>1, <1>2, <1>3, <1>4, <1>6 DEF k
<1>7. CASE Past(f, c, t, k)
  <2>0. /\ Len(f) >= k /\ Len(f) = k + Len(d)
        /\ Cut(d, t)
        /\ \A i \in 1 .. k : f[i] = c[i]
    BY <1>7 DEF Past, d
  <2>1. \A i \in 1 .. k : f[i].v = s[i]
    BY <1>1, <2>0
  <2>2. [i \in 1 .. k |-> f[i].v] = s
    BY <2>1, SameText DEF k
  <2>3. Len(d) \in Nat
    BY <2>0, LenProperties DEF Cut, Saved
  <2>4. whole => Len(d) = Len(t)
    BY <1>1, <1>2, <1>3, <1>4, <2>0, <2>3
  <2> QED
    BY <2>0, <2>2, <2>4 DEF Part, d, k
<1> QED
  BY <1>5, <1>6, <1>7

Cat(x, y) == x \o y

\* Concatenation under a name of its own: a lemma about \o is not found by its pattern.
LEMMA Joined ==
  ASSUME NEW x \in Saved, NEW y \in Saved
  PROVE  Cat(x, y) \in Saved
BY ConcatSaved DEF Cat

\* Pieces can be joined in any order.
LEMMA Assoc ==
  ASSUME NEW x \in Saved, NEW y \in Saved, NEW z \in Saved
  PROVE  Cat(Cat(x, y), z) = Cat(x, Cat(y, z))
BY ConcatAssociative DEF Saved, Cat

\* An entry has six pieces; the first is read first.
LEMMA Assoc6 ==
  ASSUME NEW a \in Saved, NEW b \in Saved, NEW c \in Saved, NEW d \in Saved,
         NEW l \in Saved, NEW u \in Saved
  PROVE  Cat(Cat(Cat(Cat(Cat(a, b), c), d), l), u) = Cat(a, Cat(b, Cat(c, Cat(d, Cat(l, u)))))
<1>1. Cat(l, u) \in Saved /\ Cat(d, Cat(l, u)) \in Saved /\ Cat(c, Cat(d, Cat(l, u))) \in Saved
  BY Joined
<1>2. Cat(a, b) \in Saved /\ Cat(Cat(a, b), c) \in Saved /\ Cat(Cat(Cat(a, b), c), d) \in Saved
  BY Joined
<1>3. Cat(Cat(Cat(Cat(Cat(a, b), c), d), l), u) = Cat(Cat(Cat(Cat(a, b), c), d), Cat(l, u))
  BY <1>2, Assoc
<1>4. @ = Cat(Cat(Cat(a, b), c), Cat(d, Cat(l, u)))
  BY <1>1, <1>2, Assoc
<1>5. @ = Cat(Cat(a, b), Cat(c, Cat(d, Cat(l, u))))
  BY <1>1, <1>2, Assoc
<1>6. @ = Cat(a, Cat(b, Cat(c, Cat(d, Cat(l, u)))))
  BY <1>1, Assoc
<1> QED
  BY <1>3, <1>4, <1>5, <1>6

\* An entry is no shorter than its first piece.
LEMMA Larger ==
  ASSUME NEW a \in Saved, NEW b \in Saved, NEW c \in Saved, NEW d \in Saved,
         NEW l \in Saved, NEW u \in Saved
  PROVE  /\ a \o b \o c \o d \o l \o u \in Saved
         /\ Len(a) <= Len(a \o b \o c \o d \o l \o u)
<1> DEFINE q == Cat(b, Cat(c, Cat(d, Cat(l, u))))
<1>1. q \in Saved
  BY Joined
<1>2. Cat(Cat(Cat(Cat(Cat(a, b), c), d), l), u) = Cat(a, q)
  BY Assoc6
<1>22. a \o b \o c \o d \o l \o u = a \o q
  BY <1>2 DEF Cat
<1> HIDE DEF q
<1>3. a \o q \in Saved /\ Len(a) \in Nat /\ Len(q) \in Nat /\ Len(a \o q) = Len(a) + Len(q)
  BY <1>1, ConcatSaved
<1> QED
  BY <1>22, <1>3

\* What cgiWriteEnvironment writes for an entry, and the entries it writes so.
Flag(e) == IF e.isFile THEN 1 ELSE 0
Tailing(e) == <<OneInt(Flag(e))>> \o Chars(e.text)
Written(e) ==
  WriteString(e.attr) \o WriteString(e.value) \o WriteString(e.fileName) \o WriteString(e.type)
    \o <<OneInt(e.length)>> \o Tailing(e)
Fitting(e) == IF e.isFile THEN e.length = Len(e.text) ELSE e.text = <<>>

\* What is written for an entry, in the order in which it is read.
\* (cgiWriteEnvironment)
LEMMA WrittenIs ==
  ASSUME NEW e \in SavedEntries, NEW t \in Saved
  PROVE  /\ Written(e) \in Saved
         /\ Written(e) \o t =
              WriteString(e.attr) \o (WriteString(e.value) \o (WriteString(e.fileName)
                \o (WriteString(e.type) \o (<<OneInt(e.length)>>
                \o (<<OneInt(Flag(e))>> \o (Chars(e.text) \o t))))))
         /\ Len(Written(e)) >= 1
<1> DEFINE a == WriteString(e.attr)
           b == WriteString(e.value)
           c == WriteString(e.fileName)
           d == WriteString(e.type)
           l == <<OneInt(e.length)>>
           g == <<OneInt(Flag(e))>>
           h == Chars(e.text)
<1>1. /\ e.attr \in Text /\ e.value \in Text /\ e.fileName \in Text /\ e.type \in Text
      /\ e.length \in Nat /\ Flag(e) \in Nat /\ e.text \in Text
  BY DEF SavedEntries, Flag
<1>2. a \in Saved /\ b \in Saved /\ c \in Saved /\ d \in Saved
  BY <1>1, StringIs
<1>3. l \in Saved /\ g \in Saved /\ h \in Saved
  BY <1>1, IntIs, CharsAre
<1>4. Written(e) = ((((a \o b) \o c) \o d) \o l) \o (g \o h)
  BY DEF Written, Tailing
<1>5. Len(a) \in Nat /\ Len(a) >= 1
  BY <1>1, StringIs
<1> HIDE DEF a, b, c, d, l, g, h
<1> DEFINE u == Cat(g, Cat(h, t))
           v == Cat(g, h)
           p == Cat(Cat(Cat(Cat(a, b), c), d), l)
<1>6. v \in Saved /\ u \in Saved /\ p \in Saved
  BY <1>2, <1>3, Joined
<1>7. Cat(v, t) = u
  BY <1>3, Assoc
<1>8. Written(e) = Cat(p, v)
  BY <1>4 DEF Cat
<1> HIDE DEF u, v
<1>61. a \in Saved /\ b \in Saved /\ c \in Saved /\ d \in Saved /\ l \in Saved /\ u \in Saved
  BY <1>2, <1>3, <1>6
<1>9. Cat(p, u) = Cat(a, Cat(b, Cat(c, Cat(d, Cat(l, u)))))
  BY <1>61, Assoc6
<1>10. Cat(p, v) \in Saved /\ Len(a) <= Len(Cat(p, v))
  BY <1>2, <1>3, <1>6, Larger DEF Cat
<1> HIDE DEF p
<1>11. Cat(Written(e), t) = Cat(a, Cat(b, Cat(c, Cat(d, Cat(l, u)))))
  BY <1>6, <1>7, <1>8, <1>9, Assoc
<1>12. Len(Written(e)) >= 1 /\ Written(e) \in Saved
  <2>1. Len(Cat(p, v)) \in Nat
    BY <1>10, ConcatSaved
  <2> QED
    BY <1>5, <1>8, <1>10, <2>1
<1> QED
  BY <1>11, <1>12 DEF a, b, c, d, l, g, h, u, Cat

-----------------------------------------------------------------------------
(* The entries of a file                                                   *)

ReadState == [ok : BOOLEAN, rest : Saved, list : Seq(SavedEntries)]

\* What is read where an entry has been written: the entry, or nothing as the file
\* ends before its name does, or a failure.
LEMMA ReadsEntry ==
  ASSUME NEW e \in SavedEntries, Fitting(e), NEW t \in Saved, NEW whole,
         NEW r \in ReadState, r.ok, Part(r.rest, Written(e) \o t, whole)
  PROVE  LET q == ReadOneEntry(r)
         IN  \/ /\ q = [ok |-> TRUE, rest |-> q.rest, list |-> Append(r.list, e)]
                /\ Part(q.rest, t, whole)
             \/ ~ whole /\ q = r /\ ReadString(r.rest) = Unread
             \/ ~ whole /\ q \in ReadState /\ ~ q.ok
<1> DEFINE A == ReadString(r.rest)
           V == ReadString(A.rest)
           N == ReadString(V.rest)
           T == ReadString(N.rest)
           S == ReadInt(T.rest)
           F == ReadInt(S.rest)
           n == IF F.v = 0 THEN 0 ELSE S.v
           X == [attr |-> A.v, value |-> V.v, length |-> S.v, fileName |-> N.v,
                 type |-> T.v, isFile |-> F.v # 0, text |-> [i \in 1 .. n |-> F.rest[i].v]]
           q == ReadOneEntry(r)
<1>1. q = CASE ~ r.ok \/ ~ A.ok -> r
            [] r.ok /\ A.ok /\ F.ok /\ n <= Len(F.rest) ->
                 [ok |-> TRUE, rest |-> Drop(F.rest, n), list |-> Append(r.list, X)]
            [] r.ok /\ A.ok /\ ~ (F.ok /\ n <= Len(F.rest)) -> [r EXCEPT !.ok = FALSE]
  BY DEF ReadOneEntry
<1>5. ~ Unread.ok /\ Unread.rest = <<>>
  BY DEF Unread
<1>6. /\ V = Unread => N = Unread
      /\ N = Unread => T = Unread
      /\ T = Unread => S = Unread
      /\ S = Unread => F = Unread
  BY <1>5, ReadsNothing
<1> DEFINE g7 == Chars(e.text) \o t
           g6 == <<OneInt(Flag(e))>> \o g7
           g5 == <<OneInt(e.length)>> \o g6
           g4 == WriteString(e.type) \o g5
           g3 == WriteString(e.fileName) \o g4
           g2 == WriteString(e.value) \o g3
<1>7. /\ e.attr \in Text /\ e.value \in Text /\ e.fileName \in Text /\ e.type \in Text
      /\ e.length \in Nat /\ Flag(e) \in Nat /\ e.text \in Text
  BY DEF SavedEntries, Flag
<1>8. Part(r.rest, WriteString(e.attr) \o g2, whole)
  BY WrittenIs
<1>9. g7 \in Saved
  BY <1>7, CharsAre, Joined DEF Cat
<1> HIDE DEF g7
<1>10. g6 \in Saved
  BY <1>7, <1>9, IntIs, Joined DEF Cat
<1> HIDE DEF g6
<1>11. g5 \in Saved
  BY <1>7, <1>10, IntIs, Joined DEF Cat
<1> HIDE DEF g5
<1>12. g4 \in Saved
  BY <1>7, <1>11, StringIs, Joined DEF Cat
<1> HIDE DEF g4
<1>13. g3 \in Saved
  BY <1>7, <1>12, StringIs, Joined DEF Cat
<1> HIDE DEF g3
<1>14. g2 \in Saved
  BY <1>7, <1>13, StringIs, Joined DEF Cat
<1> HIDE DEF g2
<1>15. \/ ~ whole /\ A = Unread
       \/ A.ok /\ A.v = e.attr /\ Part(A.rest, g2, whole)
  BY <1>7, <1>8, <1>14, PartReadsString
<1>16. Part(A.rest, g2, whole) => \/ ~ whole /\ V = Unread
                                  \/ V.ok /\ V.v = e.value /\ Part(V.rest, g3, whole)
  BY <1>7, <1>13, PartReadsString DEF g2
<1>17. Part(V.rest, g3, whole) => \/ ~ whole /\ N = Unread
                                  \/ N.ok /\ N.v = e.fileName /\ Part(N.rest, g4, whole)
  BY <1>7, <1>12, PartReadsString DEF g3
<1>18. Part(N.rest, g4, whole) => \/ ~ whole /\ T = Unread
                                  \/ T.ok /\ T.v = e.type /\ Part(T.rest, g5, whole)
  BY <1>7, <1>11, PartReadsString DEF g4
<1>19. Part(T.rest, g5, whole) => \/ ~ whole /\ S = Unread
                                  \/ S.ok /\ S.v = e.length /\ Part(S.rest, g6, whole)
  BY <1>7, <1>10, PartReadsInt DEF g5
<1>20. Part(S.rest, g6, whole) => \/ ~ whole /\ F = Unread
                                  \/ F.ok /\ F.v = Flag(e) /\ Part(F.rest, g7, whole)
  <2> DEFINE b == Flag(e)
             m == S.rest
  <2>1. b \in Nat /\ g6 = <<OneInt(b)>> \o g7
    BY <1>7 DEF g6
  <2> HIDE DEF b, m
  <2>2. Part(m, <<OneInt(b)>> \o g7, whole) =>
          \/ ~ whole /\ ReadInt(m) = Unread
          \/ ReadInt(m).ok /\ ReadInt(m).v = b /\ Part(ReadInt(m).rest, g7, whole)
    BY <1>9, <2>1, PartReadsInt
  <2> QED
    BY <2>1, <2>2 DEF b, m
<1> DEFINE k == Len(e.text)
<1>21. Part(F.rest, g7, whole) =>
         \/ ~ whole /\ Len(F.rest) < k
         \/ /\ Len(F.rest) >= k /\ [i \in 1 .. k |-> F.rest[i].v] = e.text
            /\ Part(Drop(F.rest, k), t, whole)
  BY <1>7, PartReadsChars DEF g7
<1>22. k \in Nat
  BY <1>7, StringIs
<1>23. F.v = Flag(e) /\ S.v = e.length => n = k /\ (F.v # 0) = e.isFile
  <2> SUFFICES ASSUME F.v = Flag(e), S.v = e.length PROVE n = k /\ (F.v # 0) = e.isFile
    OBVIOUS
  <2> HIDE DEF F, S, X
  <2>1. CASE e.isFile = TRUE
    <3>1. F.v = 1 /\ e.length = k
      BY <2>1 DEF Flag, Fitting
    <3> HIDE DEF k
    <3>2. n = k /\ F.v # 0
      BY <3>1
    <3> QED
      BY <2>1, <3>2, Zenon
  <2>2. CASE e.isFile = FALSE
    <3>1. F.v = 0 /\ e.text = <<>>
      BY <2>2 DEF Flag, Fitting
    <3>2. k = 0
      BY <3>1
    <3> HIDE DEF k
    <3>3. n = k /\ ~ F.v # 0
      BY <3>1, <3>2
    <3> QED
      BY <2>2, <3>3, Zenon
  <2>3. e.isFile \in BOOLEAN
    BY DEF SavedEntries
  <2> QED
    BY <2>1, <2>2, <2>3
<1>24. e = [attr |-> e.attr, value |-> e.value, length |-> e.length, fileName |-> e.fileName,
            type |-> e.type, isFile |-> e.isFile, text |-> e.text]
  BY DEF SavedEntries
<1> DEFINE failed == [r EXCEPT !.ok = FALSE]
           taken == [ok |-> TRUE, rest |-> Drop(F.rest, n), list |-> Append(r.list, X)]
<1>29. ~ failed.ok /\ failed \in ReadState
  BY DEF ReadState
<1>30. taken.ok /\ taken.rest = Drop(F.rest, n) /\ taken.list = Append(r.list, X)
       /\ taken = [ok |-> TRUE, rest |-> taken.rest, list |-> taken.list]
  OBVIOUS
<1> HIDE DEF A, V, N, T, S, F, q, k, failed, taken
<1>2. ~ A.ok => q = r
  BY <1>1
<1>3. A.ok /\ ~ (F.ok /\ n <= Len(F.rest)) => q = failed
  <2> HIDE DEF n, X
  <2> QED
    BY <1>1 DEF failed
<1>4. A.ok /\ F.ok /\ n <= Len(F.rest) => q = taken
  <2> HIDE DEF n, X
  <2> QED
    BY <1>1 DEF taken
<1>25. CASE A = Unread /\ ~ whole
  BY <1>2, <1>5, <1>25 DEF A, q
<1>26. CASE A.ok /\ ~ whole /\ F = Unread
  BY <1>3, <1>5, <1>26, <1>29 DEF q
<1>27. CASE A.ok /\ A.v = e.attr /\ V.v = e.value /\ N.v = e.fileName /\ T.v = e.type
            /\ S.v = e.length /\ F.ok /\ F.v = Flag(e) /\ Part(F.rest, g7, whole)
  <2>1. n = k /\ (F.v # 0) = e.isFile
    BY <1>23, <1>27
  <2> HIDE DEF n
  <2>2. CASE ~ whole /\ Len(F.rest) < k
    <3>1. Len(F.rest) \in Nat
      BY <1>27, LenProperties DEF Part, Cut, Saved
    <3>2. ~ n <= Len(F.rest)
      BY <1>22, <2>1, <2>2, <3>1
    <3> QED
      BY <1>3, <1>27, <1>29, <2>2, <3>2 DEF q
  <2>3. CASE /\ Len(F.rest) >= k /\ [i \in 1 .. k |-> F.rest[i].v] = e.text
             /\ Part(Drop(F.rest, k), t, whole)
    <3>1. Len(F.rest) \in Nat
      BY <1>27, LenProperties DEF Part, Cut, Saved
    <3>2. n <= Len(F.rest)
      BY <1>22, <2>1, <2>3, <3>1
    <3>3. X = e
      <4>1. [i \in 1 .. n |-> F.rest[i].v] = e.text
        BY <2>1, <2>3
      <4> QED
        BY <1>24, <1>27, <2>1, <4>1
    <3> HIDE DEF X
    <3>4. q.rest = Drop(F.rest, k)
          /\ q = [ok |-> TRUE, rest |-> q.rest, list |-> Append(r.list, e)]
      BY <1>4, <1>27, <1>30, <2>1, <3>2, <3>3
    <3> QED
      BY <2>3, <3>4 DEF q
  <2> QED
    BY <1>21, <1>27, <2>2, <2>3
<1>28. \/ A = Unread /\ ~ whole
       \/ A.ok /\ ~ whole /\ F = Unread
       \/ A.ok /\ A.v = e.attr /\ V.v = e.value /\ N.v = e.fileName /\ T.v = e.type
            /\ S.v = e.length /\ F.ok /\ F.v = Flag(e) /\ Part(F.rest, g7, whole)
  BY <1>6, <1>15, <1>16, <1>17, <1>18, <1>19, <1>20
<1> QED
  BY <1>25, <1>26, <1>27, <1>28

\* The last j pieces of w, joined.
Rest(w, j) ==
  Turns(<<>>, j, [k \in 1 .. Len(w) |-> [t \in Saved |-> Cat(w[Len(w) + 1 - k], t)]])

\* The empty sequence is a file and a text.
LEMMA Nothing == <<>> \in Saved /\ Len(<<>>) = 0 /\ <<>> \in Text
BY DEF Saved, Text

\* The end of a file, from the (n - j + 1)-th entry on.
LEMMA RestIs ==
  ASSUME NEW w \in Seq(Saved), NEW n, n = Len(w)
  PROVE  /\ Rest(w, 0) = <<>>
         /\ \A j \in 0 .. n : Rest(w, j) \in Saved
         /\ \A j \in 0 .. n - 1 : Rest(w, j + 1) = Cat(w[n - j], Rest(w, j))
<1> DEFINE step == [k \in 1 .. n |-> [t \in Saved |-> Cat(w[n + 1 - k], t)]]
<1>1. n \in Nat /\ \A i \in 1 .. n : w[i] \in Saved
  BY LenProperties, ElementOfSeq
<1>2. \A j : Rest(w, j) = Turns(<<>>, j, step)
  BY DEF Rest
<1>3. \A k \in 1 .. n, t \in Saved : step[k][t] = Cat(w[n + 1 - k], t) /\ n + 1 - k \in 1 .. n
  BY <1>1
<1> HIDE DEF step
<1>4. ASSUME NEW j \in 0 .. n PROVE Rest(w, j) \in Saved
  <2>1. j \in Nat /\ \A k \in 1 .. j : k \in 1 .. n
    BY <1>1
  <2>2. ASSUME NEW k \in 1 .. j, NEW t \in Saved PROVE step[k][t] \in Saved
    <3>1. k \in 1 .. n
      BY <2>1
    <3>2. w[n + 1 - k] \in Saved
      BY <1>1, <1>3, <3>1
    <3> QED
      BY <1>3, <3>1, <3>2, Joined
  <2>3. Turns(<<>>, j, step) \in Saved
    BY <2>1, <2>2, Nothing, TurnsIn
  <2> QED
    BY <1>2, <2>3
<1>5. ASSUME NEW j \in 0 .. n - 1 PROVE Rest(w, j + 1) = Cat(w[n - j], Rest(w, j))
  <2>1. j \in Nat /\ j \in 0 .. n /\ j + 1 \in 1 .. n /\ n + 1 - (j + 1) = n - j
    BY <1>1
  <2>2. Turns(<<>>, j + 1, step) = step[j + 1][Turns(<<>>, j, step)]
    BY <2>1, TurnsEq
  <2>3. Turns(<<>>, j, step) \in Saved
    BY <1>2, <1>4, <2>1
  <2>4. step[j + 1][Turns(<<>>, j, step)] = Cat(w[n + 1 - (j + 1)], Turns(<<>>, j, step))
    BY <1>3, <2>1, <2>3
  <2> QED
    BY <1>2, <2>1, <2>2, <2>4
<1>6. Rest(w, 0) = <<>>
  BY <1>2, TurnsEq
<1> QED
  BY <1>4, <1>5, <1>6

\* The steps in which a sequence of sequences is joined to one.
LEMMA FlattenSteps ==
  ASSUME NEW S, NEW w \in Seq(Seq(S)), Len(w) # 0
  PROVE  \E F : /\ FlattenSeq(w) = F[Len(w)]
                /\ \A i \in 1 .. Len(w) :
                     F[i] \in Seq(S) /\ F[i] = IF i = 1 THEN w[i] ELSE Cat(F[i - 1], w[i])
<1> DEFINE T == Seq(S)
           n == Len(w)
           step == [k \in 1 .. n |-> [t \in T |-> Cat(t, w[k])]]
           g == [i \in 1 .. n |-> Turns(<<>>, i, step)]
           F == CHOOSE f : f = [i \in 1 .. n |-> IF i = 1 THEN w[i] ELSE Cat(f[i - 1], w[i])]
<1>1. n \in Nat /\ n # 0 /\ \A i \in 1 .. n : w[i] \in T
  BY LenProperties, ElementOfSeq
<1>2. FlattenSeq(w) = F[n]
  BY <1>1 DEF FlattenSeq, Cat
<1>3. \A x, y \in T : Cat(x, y) \in T
  BY ConcatProperties DEF Cat
<1>4. \A x \in T : Cat(<<>>, x) = x
  BY ConcatEmptySeq DEF Cat
<1>5. <<>> \in T
  OBVIOUS
<1> HIDE DEF T
<1>6. \A k \in 1 .. n, t \in T : step[k][t] = Cat(t, w[k]) /\ step[k][t] \in T
  BY <1>1, <1>3
<1> HIDE DEF step
<1>7. ASSUME NEW j \in 0 .. n PROVE Turns(<<>>, j, step) \in T
  <2>1. j \in Nat /\ \A k \in 1 .. j : k \in 1 .. n
    BY <1>1
  <2> QED
    BY <1>5, <1>6, <2>1, TurnsIn
<1>8. ASSUME NEW i \in 1 .. n
      PROVE  g[i] \in T /\ g[i] = IF i = 1 THEN w[i] ELSE Cat(g[i - 1], w[i])
  <2> DEFINE j == i - 1
  <2>1. j \in Nat /\ i = j + 1 /\ j \in 0 .. n /\ i \in 0 .. n
    BY <1>1
  <2>2. Turns(<<>>, j + 1, step) = step[j + 1][Turns(<<>>, j, step)]
    BY <2>1, TurnsEq
  <2>3. Turns(<<>>, i, step) = Cat(Turns(<<>>, j, step), w[i])
    BY <1>6, <1>7, <2>1, <2>2
  <2>4. CASE j = 0
    <3>1. Turns(<<>>, 0, step) = <<>>
      BY TurnsEq
    <3>2. Cat(<<>>, w[i]) = w[i]
      BY <1>1, <1>4
    <3>3. g[i] = w[i]
      BY <2>3, <2>4, <3>1, <3>2
    <3> QED
      BY <1>1, <2>1, <2>4, <3>3
  <2>5. CASE j # 0
    <3>1. j \in 1 .. n
      BY <2>1, <2>5
    <3>2. g[j] = Turns(<<>>, j, step)
      BY <3>1
    <3>3. g[i] = Turns(<<>>, i, step) /\ g[i] \in T
      BY <1>7, <2>1
    <3> HIDE DEF g
    <3> QED
      BY <2>1, <2>3, <2>5, <3>2, <3>3
  <2> QED
    BY <2>4, <2>5
<1>9. g = [i \in 1 .. n |-> IF i = 1 THEN w[i] ELSE Cat(g[i - 1], w[i])]
  BY <1>8
<1>10. F = [i \in 1 .. n |-> IF i = 1 THEN w[i] ELSE Cat(F[i - 1], w[i])]
  BY <1>9
<1> HIDE DEF F, g
<1>11. \A i \in 1 .. n : F[i] = IF i = 1 THEN w[i] ELSE Cat(F[i - 1], w[i])
  BY <1>10
<1> HIDE DEF n
<1>12. \A i \in 1 .. n : F[i] \in T
  <2> DEFINE P == {i \in Nat : i + 1 <= n => F[i + 1] \in T}
  <2>1. 0 \in P
    <3>1. 1 \in 1 .. n
      BY <1>1
    <3>2. F[1] = w[1]
      BY <1>11, <3>1
    <3> QED
      BY <1>1, <3>1, <3>2
  <2>2. \A i \in P : i + 1 \in P
    <3> TAKE i \in P
    <3> SUFFICES ASSUME (i + 1) + 1 <= n PROVE F[(i + 1) + 1] \in T
      OBVIOUS
    <3> DEFINE k == i + 1
               m == k + 1
    <3>1. k \in 1 .. n /\ m \in 1 .. n /\ m # 1 /\ m - 1 = k
      BY <1>1
    <3>2. F[k] \in T
      BY <1>1
    <3> HIDE DEF k, m
    <3>3. F[m] = Cat(F[k], w[m])
      BY <1>11, <3>1
    <3>4. F[m] \in T
      BY <1>1, <1>3, <3>1, <3>2, <3>3
    <3> QED
      BY <3>4 DEF m, k
  <2> HIDE DEF P
  <2>3. P = Nat
    <3>1. P \in SUBSET Nat
      BY DEF P
    <3> QED
      BY <2>1, <2>2, <3>1, Ind
  <2>4. ASSUME NEW i \in 1 .. n PROVE F[i] \in T
    <3>1. i - 1 \in P /\ (i - 1) + 1 = i /\ i <= n
      BY <1>1, <2>3
    <3> QED
      BY <3>1 DEF P
  <2> QED
    BY <2>4
<1> QED
  BY <1>2, <1>11, <1>12 DEF n, T

\* What is joined has the elements of its parts.
LEMMA FlattenIn ==
  ASSUME NEW S, NEW w \in Seq(Seq(S))
  PROVE  FlattenSeq(w) \in Seq(S)
<1>1. Len(w) \in Nat
  BY LenProperties
<1>2. CASE Len(w) = 0
  <2>1. w = <<>>
    BY <1>2, EmptySeq
  <2> QED
    BY <1>2, <2>1 DEF FlattenSeq
<1>3. CASE Len(w) # 0
  <2>1. PICK F : /\ FlattenSeq(w) = F[Len(w)]
                 /\ \A i \in 1 .. Len(w) : F[i] \in Seq(S)
    BY <1>3, FlattenSteps
  <2> QED
    BY <1>1, <1>3, <2>1
<1> QED
  BY <1>2, <1>3

\* A file is the concatenation of its entries.
LEMMA FlattenIs ==
  ASSUME NEW w \in Seq(Saved)
  PROVE  FlattenSeq(w) = Rest(w, Len(w)) /\ FlattenSeq(w) \in Saved
<1> DEFINE n == Len(w)
<1>1. n \in Nat /\ \A i \in 1 .. n : w[i] \in Saved
  BY LenProperties, ElementOfSeq
<1>2. CASE n = 0
  <2>1. w = <<>>
    BY <1>2, EmptySeq
  <2>2. FlattenSeq(w) = <<>>
    BY <1>2, <2>1 DEF FlattenSeq
  <2>3. Rest(w, 0) = <<>>
    BY RestIs
  <2> QED
    BY <1>2, <2>2, <2>3, Nothing
<1>3. CASE n # 0
  <2>1. PICK F : /\ FlattenSeq(w) = F[n]
                 /\ \A i \in 1 .. n :
                      F[i] \in Saved /\ F[i] = IF i = 1 THEN w[i] ELSE Cat(F[i - 1], w[i])
    BY <1>3, FlattenSteps DEF Saved
  <2> HIDE DEF n
  <2>2. \A i \in 1 .. n : F[i] = IF i = 1 THEN w[i] ELSE Cat(F[i - 1], w[i])
    BY <2>1
  <2>3. \A i \in 1 .. n : F[i] \in Saved
    BY <2>1
  <2>4. /\ Rest(w, 0) = <<>>
        /\ \A j \in 0 .. n : Rest(w, j) \in Saved
        /\ \A j \in 0 .. n - 1 : Rest(w, j + 1) = Cat(w[n - j], Rest(w, j))
    BY RestIs DEF n
  <2>5. Cat(F[1], Rest(w, n - 1)) = F[n]
    <3> DEFINE P == {j \in Nat : j + 1 <= n => Cat(F[n - j], Rest(w, j)) = F[n]}
    <3>1. 0 \in P
      <4>1. n \in 1 .. n /\ n - 0 = n
        BY <1>1, <1>3
      <4>2. Cat(F[n], <<>>) = F[n]
        BY <2>3, <4>1, ConcatEmptySeq DEF Cat, Saved
      <4> QED
        BY <2>4, <4>1, <4>2
    <3>2. \A j \in P : j + 1 \in P
      <4> TAKE j \in P
      <4> SUFFICES ASSUME (j + 1) + 1 <= n PROVE Cat(F[n - (j + 1)], Rest(w, j + 1)) = F[n]
        OBVIOUS
      <4> DEFINE k == n - j
                 m == n - (j + 1)
      <4>1. /\ k \in 1 .. n /\ m \in 1 .. n /\ k # 1 /\ k - 1 = m
            /\ j \in 0 .. n /\ j \in 0 .. n - 1 /\ j + 1 <= n
        BY <1>1
      <4>2. Cat(F[k], Rest(w, j)) = F[n]
        BY <4>1
      <4>3. Rest(w, j + 1) = Cat(w[k], Rest(w, j)) /\ Rest(w, j) \in Saved
        BY <2>4, <4>1
      <4> HIDE DEF k, m, P
      <4>4. F[k] = Cat(F[m], w[k])
        BY <2>2, <4>1
      <4>5. F[m] \in Saved /\ w[k] \in Saved
        BY <1>1, <2>3, <4>1
      <4>6. Cat(Cat(F[m], w[k]), Rest(w, j)) = Cat(F[m], Cat(w[k], Rest(w, j)))
        BY <4>3, <4>5, Assoc
      <4>7. Cat(F[m], Rest(w, j + 1)) = F[n]
        BY <4>2, <4>3, <4>4, <4>6
      <4> QED
        BY <4>7 DEF m
    <3> HIDE DEF P
    <3>3. P = Nat
      <4>1. P \in SUBSET Nat
        BY DEF P
      <4> QED
        BY <3>1, <3>2, <4>1, Ind
    <3>4. n - 1 \in P /\ (n - 1) + 1 <= n /\ n - (n - 1) = 1
      BY <1>1, <1>3, <3>3
    <3> QED
      BY <3>4 DEF P
  <2>6. F[1] = w[1] /\ F[n] \in Saved
    <3>1. 1 \in 1 .. n /\ n \in 1 .. n
      BY <1>1, <1>3
    <3> QED
      BY <2>2, <2>3, <3>1
  <2>7. Rest(w, n) = Cat(w[1], Rest(w, n - 1))
    <3>1. n - 1 \in 0 .. n - 1 /\ (n - 1) + 1 = n /\ n - (n - 1) = 1
      BY <1>1, <1>3
    <3> QED
      BY <2>4, <3>1
  <2> QED
    BY <2>1, <2>5, <2>6, <2>7 DEF n
<1> QED
  BY <1>2, <1>3

\* The strings u, one after the other: g[k] is what follows the first k.
Strung(u, g, n) ==
  /\ \A k \in 0 .. n : g[k] \in Saved
  /\ \A k \in 1 .. n : u[k] \in Text /\ g[k - 1] = Cat(WriteString(u[k]), g[k])

\* They have been read, and so has the file up to g[n], unless it was cut before.
StringsRead(x, u, g, n, whole) ==
  \/ ~ whole /\ ~ x.ok
  \/ /\ x.ok /\ Part(x.rest, g[n], whole)
     /\ Len(x.list) = n /\ \A i \in 1 .. n : x.list[i] = u[i]

\* What a run of cgiReadString reads where strings have been written.
LEMMA ReadsStrings ==
  ASSUME NEW n \in Nat, NEW g, NEW u, NEW whole, Strung(u, g, n), NEW f, Part(f, g[0], whole)
  PROVE  StringsRead(ReadStrings(f, n), u, g, n, whole)
<1> DEFINE S == [ok : BOOLEAN, rest : Saved, list : Seq(Text)]
           turn == [r \in S |-> ReadOneString(r)]
           step == [k \in 1 .. n |-> turn]
           start == [ok |-> TRUE, rest |-> f, list |-> <<>>]
           Good(x, k) == x \in S /\ \/ ~ whole /\ ~ x.ok
                                    \/ /\ x.ok /\ Part(x.rest, g[k], whole)
                                       /\ Len(x.list) = k /\ \A i \in 1 .. k : x.list[i] = u[i]
           P == [k \in 0 .. n |-> {x \in S : Good(x, k)}]
<1>0. /\ \A k \in 0 .. n : g[k] \in Saved
      /\ \A k \in 1 .. n : u[k] \in Text /\ g[k - 1] = Cat(WriteString(u[k]), g[k])
  BY DEF Strung
<1>1. ReadStrings(f, n) = Turns(start, n, step)
  BY DEF ReadStrings, Repeat
<1>2. start \in P[0]
  <2>1. f \in Saved /\ 0 \in 0 .. n
    BY DEF Part, Cut
  <2>2. start \in S /\ start.ok /\ start.rest = f /\ start.list = <<>>
    BY <2>1, Nothing DEF Text
  <2>3. Len(start.list) = 0 /\ \A i \in 1 .. 0 : start.list[i] = u[i]
    BY <2>2, Nothing
  <2> HIDE DEF start
  <2> QED
    BY <2>1, <2>2, <2>3
<1>3. ASSUME NEW k \in 1 .. n, NEW x \in P[k - 1] PROVE step[k][x] \in P[k]
  <2> DEFINE q == ReadOneString(x)
             s == ReadString(x.rest)
             failed == [x EXCEPT !.ok = FALSE]
  <2>1. k - 1 \in 0 .. n /\ k \in 0 .. n
    OBVIOUS
  <2>2. x \in S /\ Good(x, k - 1)
    BY <2>1
  <2>3. step[k][x] = q
    BY <2>2
  <2>4. q = IF x.ok /\ s.ok THEN [ok |-> TRUE, rest |-> s.rest, list |-> Append(x.list, s.v)]
            ELSE failed
    BY DEF ReadOneString
  <2>5. failed \in S /\ ~ failed.ok
    BY <2>2
  <2> HIDE DEF q, failed
  <2>6. CASE ~ whole /\ ~ x.ok
    BY <2>1, <2>3, <2>4, <2>5, <2>6
  <2>7. CASE /\ x.ok /\ Part(x.rest, g[k - 1], whole)
             /\ Len(x.list) = k - 1 /\ \A i \in 1 .. k - 1 : x.list[i] = u[i]
    <3> DEFINE h == g[k]
               t == u[k]
    <3>1. t \in Text /\ g[k - 1] = Cat(WriteString(t), h)
      BY <1>0
    <3>2. h \in Saved /\ Part(x.rest, WriteString(t) \o h, whole)
      BY <1>0, <2>1, <2>7, <3>1 DEF Cat
    <3>3. \/ ~ whole /\ s = Unread
          \/ s.ok /\ s.v = t /\ Part(s.rest, h, whole)
      <4> HIDE DEF h, t
      <4> QED
        BY <3>1, <3>2, PartReadsString
    <3> HIDE DEF s
    <3>4. CASE ~ whole /\ s = Unread
      <4>1. ~ s.ok
        BY <3>4 DEF Unread
      <4> QED
        BY <2>1, <2>3, <2>4, <2>5, <3>4, <4>1
    <3>5. CASE s.ok /\ s.v = t /\ Part(s.rest, h, whole)
      <4> DEFINE l == x.list
                 m == Append(l, t)
      <4>1. s.rest \in Saved
        BY <3>5 DEF Part, Cut
      <4>2. q = [ok |-> TRUE, rest |-> s.rest, list |-> m]
        BY <2>4, <2>7, <3>5
      <4>3. l \in Seq(Text) /\ Len(l) = k - 1 /\ \A i \in 1 .. k - 1 : l[i] = u[i]
        BY <2>2, <2>7
      <4> HIDE DEF l, t
      <4>4. /\ m \in Seq(Text) /\ Len(m) = Len(l) + 1 /\ m[Len(l) + 1] = t
            /\ \A i \in 1 .. Len(l) : m[i] = l[i]
        BY <3>1, <4>3, AppendProperties
      <4> HIDE DEF m
      <4>5. Len(m) = k /\ \A i \in 1 .. k : m[i] = u[i]
        <5>1. k \in Nat /\ \A i \in 1 .. k : i \in 1 .. k - 1 \/ i = k
          OBVIOUS
        <5>2. m[k] = u[k]
          BY <4>3, <4>4, <5>1 DEF t
        <5> QED
          BY <4>3, <4>4, <5>1, <5>2
      <4>6. q \in S /\ q.ok /\ q.rest = s.rest /\ q.list = m
        BY <4>1, <4>2, <4>4
      <4> HIDE DEF q
      <4>7. Good(q, k)
        BY <3>5, <4>5, <4>6
      <4> QED
        BY <2>1, <2>3, <4>6, <4>7
    <3> QED
      BY <3>3, <3>4, <3>5
  <2> QED
    BY <2>2, <2>6, <2>7
<1> HIDE DEF step, start
<1> DEFINE x == Turns(start, n, step)
<1>4. x \in P[n]
  <2> HIDE DEF P
  <2> QED
    BY <1>2, <1>3, TurnsKeep
<1> HIDE DEF x
<1>5. Good(x, n)
  BY <1>4
<1> QED
  BY <1>1, <1>5 DEF x, StringsRead

\* The first j elements of a sequence.
LEMMA FirstIs ==
  ASSUME NEW S, NEW s \in Seq(S), NEW j \in 0 .. Len(s)
  PROVE  /\ SubSeq(s, 1, j) \in Seq(S) /\ Len(SubSeq(s, 1, j)) = j
         /\ \A i \in 1 .. j : SubSeq(s, 1, j)[i] = s[i]
<1>1. Len(s) \in Nat /\ j \in Nat /\ j <= Len(s)
  BY LenProperties
<1>2. \A i \in 1 .. j : s[i] \in S
  BY <1>1, ElementOfSeq
<1>3. /\ SubSeq(s, 1, j) \in Seq(S)
      /\ Len(SubSeq(s, 1, j)) = IF 1 <= j THEN j - 1 + 1 ELSE 0
      /\ \A i \in 1 .. j - 1 + 1 : SubSeq(s, 1, j)[i] = s[1 + i - 1]
  BY <1>1, <1>2, SubSeqProperties
<1> DEFINE q == SubSeq(s, 1, j)
<1> HIDE DEF q
<1>4. q \in Seq(S) /\ Len(q) = j
  BY <1>1, <1>3 DEF q
<1>5. ASSUME NEW i \in 1 .. j PROVE q[i] = s[i]
  <2>1. i \in 1 .. j - 1 + 1 /\ 1 + i - 1 = i
    BY <1>1
  <2> QED
    BY <1>3, <2>1 DEF q
<1> QED
  BY <1>4, <1>5 DEF q

\* The first elements of a sequence are a prefix of it.
LEMMA FirstPrefix ==
  ASSUME NEW S, NEW s \in Seq(S), NEW j \in 0 .. Len(s)
  PROVE  /\ IsPrefix(SubSeq(s, 1, j), s)
         /\ SubSeq(s, 1, 0) = <<>>
         /\ SubSeq(s, 1, Len(s)) = s
         /\ j < Len(s) => Append(SubSeq(s, 1, j), s[j + 1]) = SubSeq(s, 1, j + 1)
<1>1. Len(s) \in Nat /\ j \in Nat /\ j <= Len(s)
  BY LenProperties
<1> DEFINE q == SubSeq(s, 1, j)
<1>2. q \in Seq(S) /\ Len(q) = j /\ \A i \in 1 .. j : q[i] = s[i]
  BY FirstIs
<1>3. SubSeq(q, 1, Len(q)) = q
  BY <1>2, SubSeqFull
<1>4. IsPrefix(q, s)
  BY <1>1, <1>2, <1>3 DEF IsPrefix
<1>5. SubSeq(s, 1, Len(s)) = s
  BY SubSeqFull
<1>6. SubSeq(s, 1, 0) = <<>>
  <2>1. SubSeq(s, 1, 0) \in Seq(S) /\ Len(SubSeq(s, 1, 0)) = 0
    <3>1. 0 \in 0 .. Len(s)
      BY <1>1
    <3> QED
      BY <3>1, FirstIs
  <2> QED
    BY <2>1, EmptySeq
<1>7. ASSUME j < Len(s) PROVE Append(q, s[j + 1]) = SubSeq(s, 1, j + 1)
  <2> DEFINE m == j + 1
             p == SubSeq(s, 1, m)
             a == Append(q, s[m])
  <2>1. m \in 0 .. Len(s) /\ m \in 1 .. Len(s)
    BY <1>1, <1>7
  <2>2. p \in Seq(S) /\ Len(p) = m /\ \A i \in 1 .. m : p[i] = s[i]
    BY <2>1, FirstIs
  <2>3. s[m] \in S
    BY <2>1, ElementOfSeq
  <2> HIDE DEF q, p
  <2>4. a \in Seq(S) /\ Len(a) = Len(q) + 1 /\ (\A i \in 1 .. Len(q) : a[i] = q[i])
        /\ a[Len(q) + 1] = s[m]
    BY <1>2, <2>3, AppendProperties
  <2> HIDE DEF a
  <2>5. \A i \in 1 .. m : a[i] = p[i]
    BY <1>1, <1>2, <2>2, <2>4
  <2>6. a = p
    BY <1>2, <2>2, <2>4, <2>5, SeqEqual
  <2> QED
    BY <2>6 DEF a, p
<1> QED
  BY <1>4, <1>5, <1>6, <1>7

\* Once an entry cannot be read nothing more is.
LEMMA ReadsNoEntry ==
  ASSUME NEW r \in ReadState, ~ r.ok \/ ReadString(r.rest) = Unread
  PROVE  ReadOneEntry(r) = r
<1>1. ~ r.ok \/ ~ ReadString(r.rest).ok
  BY DEF Unread
<1> QED
  BY <1>1 DEF ReadOneEntry

\* Every piece takes its place.
LEMMA RestLong ==
  ASSUME NEW w \in Seq(Saved), NEW n, n = Len(w), \A i \in 1 .. n : Len(w[i]) >= 1
  PROVE  Len(Rest(w, n)) >= n
<1>1. n \in Nat /\ \A i \in 1 .. n : w[i] \in Saved
  BY LenProperties, ElementOfSeq
<1>2. /\ Rest(w, 0) = <<>>
      /\ \A j \in 0 .. n : Rest(w, j) \in Saved
      /\ \A j \in 0 .. n - 1 : Rest(w, j + 1) = Cat(w[n - j], Rest(w, j))
  BY RestIs
<1> DEFINE P == {j \in Nat : j <= n => Len(Rest(w, j)) >= j}
<1>3. 0 \in P
  BY <1>2, Nothing
<1>4. ASSUME NEW j \in P, j + 1 <= n PROVE Len(Rest(w, j + 1)) >= j + 1
  <2>1. j \in Nat /\ j \in 0 .. n /\ j \in 0 .. n - 1 /\ n - j \in 1 .. n /\ j <= n
    BY <1>1, <1>4
  <2>2. Len(Rest(w, j)) >= j
    BY <1>4, <2>1
  <2> DEFINE a == w[n - j]
             b == Rest(w, j)
  <2>3. a \in Saved /\ b \in Saved /\ Len(a) >= 1
    BY <1>1, <1>2, <2>1
  <2>4. Rest(w, j + 1) = Cat(a, b)
    BY <1>2, <2>1
  <2> HIDE DEF a, b
  <2>5. Len(Cat(a, b)) = Len(a) + Len(b) /\ Len(a) \in Nat /\ Len(b) \in Nat
    BY <2>3, ConcatSaved DEF Cat
  <2>6. Len(b) >= j
    BY <2>2 DEF b
  <2> QED
    BY <2>1, <2>3, <2>4, <2>5, <2>6
<1>5. \A j \in P : j + 1 \in P
  BY <1>4
<1>6. P \in SUBSET Nat
  OBVIOUS
<1> HIDE DEF P
<1>7. P = Nat
  BY <1>3, <1>5, <1>6, Ind
<1> QED
  BY <1>1, <1>7 DEF P

\* What the loop of cgiReadEnvironment reads where entries have been written: the
\* first of them, and all when the file is whole.
LEMMA ReadsEntries ==
  ASSUME NEW es \in Seq(SavedEntries), \A i \in 1 .. Len(es) : Fitting(es[i]),
         NEW w, w = [i \in 1 .. Len(es) |-> Written(es[i])],
         NEW whole, NEW f, Part(f, Rest(w, Len(es)), whole)
  PROVE  LET x == ReadEntries(f)
         IN  /\ x.ok => IsPrefix(x.list, es)
             /\ whole => x.ok /\ x.list = es
<1> DEFINE n == Len(es)
           N == Len(f)
           turn == [r \in ReadState |-> ReadOneEntry(r)]
           step == [k \in 1 .. N |-> turn]
           start == [ok |-> TRUE, rest |-> f, list |-> <<>>]
           At(k) == IF k <= n THEN k ELSE n
           Going(x, j) == /\ x \in ReadState /\ x.ok /\ x.list = SubSeq(es, 1, j)
                          /\ Part(x.rest, Rest(w, n - j), whole)
           Ended(x) == /\ ~ whole /\ x \in ReadState
                       /\ x.ok => IsPrefix(x.list, es) /\ ReadString(x.rest) = Unread
           P == [k \in 0 .. N |-> {x \in ReadState : Going(x, At(k)) \/ Ended(x)}]
<1>1. ReadEntries(f) = Turns(start, N, step)
  BY DEF ReadEntries, Repeat, ReadState
<1>2. /\ f \in Saved /\ N \in Nat /\ n \in Nat /\ 0 \in 0 .. n
      /\ \A i \in 1 .. n : es[i] \in SavedEntries
  BY LenProperties, ElementOfSeq DEF Part, Cut, Saved
<1>3. /\ w \in Seq(Saved) /\ Len(w) = n
      /\ \A i \in 1 .. n : w[i] = Written(es[i]) /\ w[i] \in Saved /\ Len(w[i]) >= 1
  <2>1. \A i \in 1 .. n : Written(es[i]) \in Saved /\ Len(Written(es[i])) >= 1
    BY <1>2, WrittenIs, Nothing
  <2>2. w \in [1 .. n -> Saved]
    BY <2>1
  <2>3. w \in Seq(Saved)
    BY <1>2, <2>2, SeqDef
  <2>4. Len(w) = n
    BY <1>2, <2>2, <2>3, LenProperties
  <2> QED
    BY <2>1, <2>3, <2>4
<1>4. /\ Rest(w, 0) = <<>>
      /\ \A j \in 0 .. n : Rest(w, j) \in Saved
      /\ \A j \in 0 .. n - 1 : Rest(w, j + 1) = Cat(w[n - j], Rest(w, j))
  BY <1>3, RestIs
<1>5. start \in P[0]
  <2>1. start \in ReadState /\ start.ok /\ start.rest = f /\ start.list = <<>>
    BY <1>2 DEF ReadState
  <2>2. SubSeq(es, 1, 0) = <<>>
    BY <1>2, FirstPrefix
  <2>3. At(0) = 0 /\ n - 0 = n /\ 0 \in 0 .. N
    BY <1>2
  <2> HIDE DEF start, n
  <2>4. Going(start, 0)
    BY <2>1, <2>2, <2>3 DEF n
  <2> HIDE DEF Going, Ended, At
  <2> QED
    BY <2>1, <2>3, <2>4
<1> HIDE DEF n, N
<1>6. ASSUME NEW x, NEW j \in 0 .. n, Going(x, j)
      PROVE  LET q == ReadOneEntry(x)
             IN  Ended(q) \/ Going(q, IF j < n THEN j + 1 ELSE n)
  <2> DEFINE q == ReadOneEntry(x)
  <2>1. IsPrefix(SubSeq(es, 1, j), es)
        /\ (j < n => Append(SubSeq(es, 1, j), es[j + 1]) = SubSeq(es, 1, j + 1))
    BY FirstPrefix DEF n
  <2>2. CASE j < n
    <3> DEFINE m == j + 1
               i == n - m
               t == Rest(w, i)
    <3>1. /\ m \in 1 .. n /\ m \in 0 .. n /\ n - i = m /\ i + 1 = n - j
          /\ i \in 0 .. n - 1 /\ i \in 0 .. n
      BY <1>2, <2>2
    <3>2. es[m] \in SavedEntries /\ Fitting(es[m]) /\ t \in Saved
      BY <1>2, <1>4, <3>1 DEF n
    <3>3. Rest(w, n - j) = Written(es[m]) \o t
      <4>1. Rest(w, i + 1) = Cat(w[n - i], Rest(w, i))
        BY <1>4, <3>1
      <4> QED
        BY <1>3, <3>1, <4>1 DEF Cat
    <3>4. Part(x.rest, Written(es[m]) \o t, whole)
      BY <1>6, <3>3
    <3>5. SubSeq(es, 1, m) = Append(x.list, es[m]) /\ SubSeq(es, 1, m) \in Seq(SavedEntries)
      BY <1>6, <2>1, <2>2, <3>1, FirstIs DEF n
    <3> HIDE DEF m, i, t
    <3>6. \/ /\ q = [ok |-> TRUE, rest |-> q.rest, list |-> Append(x.list, es[m])]
             /\ Part(q.rest, t, whole)
          \/ ~ whole /\ q = x /\ ReadString(x.rest) = Unread
          \/ ~ whole /\ q \in ReadState /\ ~ q.ok
      BY <1>6, <3>2, <3>4, ReadsEntry
    <3> HIDE DEF q
    <3>7. CASE /\ q = [ok |-> TRUE, rest |-> q.rest, list |-> Append(x.list, es[m])]
               /\ Part(q.rest, t, whole)
      <4>1. q.rest \in Saved
        BY <3>7 DEF Part, Cut
      <4> DEFINE c == q.rest
                 l == Append(x.list, es[m])
      <4>2. l \in Seq(SavedEntries) /\ c \in Saved
        BY <3>5, <4>1
      <4>3. q = [ok |-> TRUE, rest |-> c, list |-> l]
        BY <3>7
      <4> HIDE DEF c, l
      <4>4. q \in ReadState /\ q.ok /\ q.list = l
        BY <4>2, <4>3 DEF ReadState
      <4>5. Going(q, m)
        BY <3>5, <3>7, <4>4 DEF l, t, i
      <4> HIDE DEF Going
      <4> QED
        BY <2>2, <4>5 DEF q, m
    <3>8. CASE ~ whole /\ q = x /\ ReadString(x.rest) = Unread
      <4>1. Ended(q)
        BY <1>6, <2>1, <3>8
      <4> HIDE DEF Ended
      <4> QED
        BY <4>1 DEF q
    <3>9. CASE ~ whole /\ q \in ReadState /\ ~ q.ok
      <4>1. Ended(q)
        BY <3>9
      <4> HIDE DEF Ended
      <4> QED
        BY <4>1 DEF q
    <3> QED
      BY <3>6, <3>7, <3>8, <3>9
  <2>3. CASE ~ j < n
    <3>1. j = n /\ n - j = 0
      BY <1>2, <2>3
    <3>2. Part(x.rest, <<>>, whole)
      BY <1>4, <1>6, <3>1
    <3>3. x.rest = <<>>
      <4>1. x.rest \in Saved /\ Len(x.rest) <= 0
        BY <3>2, Nothing DEF Part, Cut
      <4>2. Len(x.rest) \in Nat /\ x.rest \in Seq(Item)
        BY <4>1, LenProperties DEF Saved, Item
      <4> QED
        BY <4>1, <4>2, EmptySeq
    <3>4. q = x
      BY <1>6, <3>3, ReadsNothing, ReadsNoEntry
    <3>5. Going(q, n)
      BY <1>6, <3>1, <3>4
    <3> HIDE DEF Going
    <3> QED
      BY <2>3, <3>5 DEF q
  <2> QED
    BY <2>2, <2>3
<1>7. ASSUME NEW k \in 1 .. N, NEW x \in P[k - 1] PROVE step[k][x] \in P[k]
  <2> DEFINE q == ReadOneEntry(x)
             j == At(k - 1)
  <2>1. k - 1 \in 0 .. N /\ k \in 0 .. N /\ k \in Nat
    BY <1>2
  <2>2. x \in ReadState /\ (Going(x, j) \/ Ended(x))
    BY <2>1
  <2>3. step[k][x] = q
    BY <2>2
  <2>4. j \in 0 .. n /\ At(k) = IF j < n THEN j + 1 ELSE n
    BY <1>2, <2>1
  <2>5. q \in ReadState /\ (Going(q, At(k)) \/ Ended(q))
    <3>1. CASE Going(x, j)
      <4> HIDE DEF j, At
      <4>1. Ended(q) \/ Going(q, IF j < n THEN j + 1 ELSE n)
        BY <1>6, <2>4, <3>1
      <4> HIDE DEF q
      <4> QED
        BY <2>4, <4>1
    <3>2. CASE Ended(x)
      <4>1. q = x
        BY <3>2, ReadsNoEntry
      <4> HIDE DEF q
      <4> QED
        BY <3>2, <4>1
    <3> QED
      BY <2>2, <3>1, <3>2
  <2> HIDE DEF q, Going, Ended
  <2> QED
    BY <2>1, <2>3, <2>5
<1> HIDE DEF step, start
<1> DEFINE x == Turns(start, N, step)
<1>8. x \in P[N]
  <2> HIDE DEF P
  <2> QED
    BY <1>2, <1>5, <1>7, TurnsKeep
<1>9. x \in ReadState /\ (Going(x, At(N)) \/ Ended(x))
  <2> HIDE DEF Going, Ended, x
  <2> QED
    BY <1>2, <1>8
<1> HIDE DEF x
<1>10. At(N) \in 0 .. n /\ (whole => At(N) = n)
  <2>1. whole => N = Len(Rest(w, n))
    BY DEF Part, N, n
  <2>2. Len(Rest(w, n)) >= n
    BY <1>3, RestLong
  <2> QED
    BY <1>2, <2>1, <2>2
<1>11. x.ok => IsPrefix(x.list, es)
  <2>1. CASE Going(x, At(N))
    BY <1>10, <2>1, FirstPrefix DEF n
  <2>2. CASE Ended(x)
    BY <2>2
  <2> QED
    BY <1>9, <2>1, <2>2
<1>12. whole => x.ok /\ x.list = es
  <2> SUFFICES ASSUME whole PROVE x.ok /\ x.list = es
    OBVIOUS
  <2>1. ~ Ended(x)
    OBVIOUS
  <2>2. Going(x, n)
    BY <1>9, <1>10, <2>1
  <2>3. SubSeq(es, 1, n) = es
    BY <1>10, FirstPrefix DEF n
  <2> QED
    BY <2>2, <2>3
<1> QED
  BY <1>1, <1>11, <1>12 DEF x

-----------------------------------------------------------------------------
(* A form that is saved and read again                                     *)

\* Each entry's file is there.
FilesThere == \A i \in DOMAIN form : form[i].tfile > 0 => temp[form[i].tfile] \in Text

\* What goes to the file for an entry, as it is read again; unopened is the entry whose
\* file could not be opened.
SavedEntry(i, unopened) ==
  [attr |-> form[i].attr, value |-> CString(form[i].value), length |-> form[i].length,
   fileName |-> form[i].fileName, type |-> form[i].contentType,
   isFile |-> form[i].tfile > 0 /\ i # unopened,
   text |-> IF form[i].tfile > 0 /\ i # unopened THEN temp[form[i].tfile] ELSE <<>>]
SavedForm(unopened) == [i \in 1 .. Len(form) |-> SavedEntry(i, unopened)]

\* The entries of the form.
LEMMA Elements ==
  ASSUME form \in Seq(Entries)
  PROVE  /\ Len(form) \in Nat /\ DOMAIN form = 1 .. Len(form)
         /\ \A i \in DOMAIN form : form[i] \in Entries
BY LenProperties, ElementOfSeq

\* A file is saved under its own name when no other entry has it.
LEMMA FileOfIs ==
  ASSUME form \in Seq(Entries), Savable(FormView), NEW i \in DOMAIN form
  PROVE  FileOf(i) = form[i].tfile
<1> DEFINE S == {k \in DOMAIN form : form[k].attr = form[i].attr}
           j == Min(S)
<1>1. DOMAIN form \in SUBSET Nat /\ \A k \in DOMAIN form : form[k].tfile \in Nat
  BY Elements DEF Entries
<1>2. i \in S /\ S \in SUBSET Nat
  BY <1>1
<1>3. j \in S
  BY <1>2, MinIs
<1>4. FileOf(i) = form[j].tfile
  BY DEF FileOf
<1> HIDE DEF j
<1>5. /\ DOMAIN FormView = DOMAIN form
      /\ \A k \in DOMAIN form : FormView[k].isFile = (form[k].tfile > 0)
      /\ \A k \in DOMAIN form : FormView[k].attr = form[k].attr
  BY DEF FormView, View
<1>6. \A k \in DOMAIN form : form[k].tfile > 0 =>
        \A l \in DOMAIN form : form[l].attr = form[k].attr => k = l
  BY <1>5 DEF Savable
<1>7. CASE form[i].tfile > 0
  BY <1>3, <1>4, <1>6, <1>7
<1>8. CASE form[j].tfile > 0
  BY <1>3, <1>4, <1>6, <1>8
<1>9. CASE ~ form[i].tfile > 0 /\ ~ form[j].tfile > 0
  BY <1>1, <1>3, <1>4, <1>9
<1> QED
  BY <1>7, <1>8, <1>9

\* A C string is a text without a null.
LEMMA CStringIs ==
  ASSUME NEW s \in Text
  PROVE  CString(s) \in Text /\ CString(CString(s)) = CString(s)
<1>1. CString(s) \in Text /\ \A i \in 1 .. Len(CString(s)) : CString(s)[i] # 0
  BY UpToIs DEF CString
<1> DEFINE c == CString(s)
<1> HIDE DEF c
<1>2. CString(c) = c
  BY <1>1, UpToIs DEF CString, c
<1> QED
  BY <1>1, <1>2 DEF c

\* An entry of the form is written, and shown, as SavedEntry says; one without its file
\* keeps all that is not of the file.
LEMMA SavedEntryIs ==
  ASSUME form \in Seq(Entries), FilesThere, NEW i \in DOMAIN form, NEW unopened
  PROVE  LET x == SavedEntry(i, unopened)
             v == SavedView(x)
             w == FormView[i]
         IN  /\ x \in SavedEntries
             /\ v = w \/ (/\ i = unopened /\ w.isFile /\ ~ v.isFile
                          /\ v.attr = w.attr /\ v.fileName = w.fileName /\ v.type = w.type
                          /\ v.length = w.length)
             /\ Savable(FormView) => Fitting(x) /\ WriteEntry(i, unopened) = Written(x)
<1> DEFINE e == form[i]
           file == e.tfile > 0 /\ i # unopened
           text == IF file THEN temp[e.tfile] ELSE <<>>
           x == SavedEntry(i, unopened)
<1>1. /\ e.attr \in Text /\ e.value \in Text /\ e.length \in Nat /\ e.fileName \in Text
      /\ e.contentType \in Text /\ e.tfile \in Nat
  <2>1. e \in Entries
    BY Elements
  <2> HIDE DEF e
  <2> QED
    BY <2>1 DEF Entries
<1>2. text \in Text
  BY Nothing DEF FilesThere
<1>3. CString(e.value) \in Text /\ CString(CString(e.value)) = CString(e.value)
  BY <1>1, CStringIs
<1>4. x = [attr |-> e.attr, value |-> CString(e.value), length |-> e.length,
           fileName |-> e.fileName, type |-> e.contentType, isFile |-> file, text |-> text]
  BY DEF SavedEntry
<1>5. FormView[i] = [attr |-> e.attr, fileName |-> e.fileName, type |-> e.contentType,
                     length |-> e.length, isFile |-> e.tfile > 0,
                     content |-> IF e.tfile > 0 THEN temp[e.tfile] ELSE CString(e.value)]
  BY DEF FormView, View
<1> DEFINE v == CString(e.value)
<1>6. file \in BOOLEAN
  OBVIOUS
<1> HIDE DEF x, v
<1>7. x \in SavedEntries
  <2> HIDE DEF e, text, file
  <2> QED
    BY <1>1, <1>2, <1>3, <1>4, <1>6 DEF SavedEntries, e, v, file
<1> DEFINE shown == IF file THEN text ELSE v
<1>80. SavedView(x) = [attr |-> e.attr, fileName |-> e.fileName, type |-> e.contentType,
                       length |-> e.length, isFile |-> file, content |-> shown]
  <2>1. /\ x.attr = e.attr /\ x.value = v /\ x.length = e.length /\ x.fileName = e.fileName
        /\ x.type = e.contentType /\ x.isFile = file /\ x.text = text
    BY <1>4 DEF v
  <2>2. (IF x.isFile THEN x.text ELSE CString(x.value)) = shown
    BY <1>3, <2>1 DEF v
  <2> HIDE DEF file, text, shown
  <2> QED
    BY <2>1, <2>2 DEF SavedView
<1>8. \/ FormView[i] = SavedView(x)
      \/ /\ i = unopened /\ FormView[i].isFile /\ ~ SavedView(x).isFile
         /\ SavedView(x).attr = FormView[i].attr /\ SavedView(x).fileName = FormView[i].fileName
         /\ SavedView(x).type = FormView[i].type /\ SavedView(x).length = FormView[i].length
  <2>1. CASE ~ (i = unopened /\ e.tfile > 0)
    <3> DEFINE has == e.tfile > 0
               content == IF has THEN temp[e.tfile] ELSE CString(e.value)
    <3>1. file = has
      BY <2>1
    <3>2. content = shown
      BY <2>1 DEF v
    <3>3. FormView[i] = [attr |-> e.attr, fileName |-> e.fileName, type |-> e.contentType,
                         length |-> e.length, isFile |-> has, content |-> content]
      BY <1>5
    <3> HIDE DEF has, content, file, shown, text
    <3> QED
      BY <1>80, <3>1, <3>2, <3>3
  <2>2. CASE i = unopened /\ e.tfile > 0
    <3>1. FormView[i].isFile
      <4> DEFINE has == e.tfile > 0
                 content == IF has THEN temp[e.tfile] ELSE CString(e.value)
      <4>1. FormView[i] = [attr |-> e.attr, fileName |-> e.fileName, type |-> e.contentType,
                           length |-> e.length, isFile |-> has, content |-> content]
        BY <1>5
      <4>2. has
        BY <2>2
      <4> HIDE DEF has, content
      <4>3. FormView[i].isFile = has
        BY <4>1
      <4> QED
        BY <4>2, <4>3, Zenon
    <3>2. /\ FormView[i].attr = e.attr /\ FormView[i].fileName = e.fileName
          /\ FormView[i].type = e.contentType /\ FormView[i].length = e.length
      BY <1>5
    <3>3. file = FALSE
      BY <2>2
    <3>4. /\ SavedView(x).attr = e.attr /\ SavedView(x).fileName = e.fileName
          /\ SavedView(x).type = e.contentType /\ SavedView(x).length = e.length
          /\ SavedView(x).isFile = file
      <4> HIDE DEF file, shown
      <4> QED
        BY <1>80
    <3>5. ~ SavedView(x).isFile
      BY <3>3, <3>4, Zenon
    <3> QED
      BY <2>2, <3>1, <3>2, <3>4, <3>5
  <2> QED
    BY <2>1, <2>2
<1>9. ASSUME Savable(FormView) PROVE Fitting(x) /\ WriteEntry(i, unopened) = Written(x)
  <2>1. FileOf(i) = e.tfile
    BY <1>9, FileOfIs
  <2>2. /\ x.attr = e.attr /\ x.value = v /\ x.length = e.length /\ x.fileName = e.fileName
        /\ x.type = e.contentType /\ x.isFile = file /\ x.text = text
    BY <1>4 DEF v
  <2>3. e.tfile > 0 => e.length = Len(temp[e.tfile])
    <3>1. DOMAIN FormView = DOMAIN form
      BY DEF FormView
    <3>2. FormView[i].isFile = (e.tfile > 0) /\ FormView[i].length = e.length
          /\ (e.tfile > 0 => FormView[i].content = temp[e.tfile])
      BY <1>5
    <3> QED
      BY <1>9, <3>1, <3>2 DEF Savable
  <2>4. Fitting(x)
    BY <2>2, <2>3 DEF Fitting
  <2> DEFINE flagged == IF FileOf(i) > 0 /\ i # unopened THEN <<OneInt(1)>> \o Chars(temp[FileOf(i)])
                        ELSE <<OneInt(0)>>
  <2>5. flagged = Tailing(x)
    <3>1. CASE file
      BY <2>1, <2>2, <3>1 DEF Tailing, Flag
    <3>2. CASE ~ file
      <4>1. ~ x.isFile /\ x.text = <<>>
        BY <2>2, <3>2
      <4>2. Chars(x.text) = <<>>
        <5>1. Chars(x.text) \in Saved /\ Len(Chars(x.text)) = 0
          BY <4>1, Nothing, CharsAre
        <5> QED
          BY <5>1, EmptySeq DEF Saved
      <4>3. <<OneInt(0)>> \o <<>> = <<OneInt(0)>>
        <5>1. <<OneInt(0)>> \in Saved
          BY IntIs
        <5> QED
          BY <5>1, ConcatEmptySeq DEF Saved
      <4> QED
        BY <2>1, <3>2, <4>1, <4>2, <4>3 DEF Tailing, Flag
    <3> QED
      BY <3>1, <3>2
  <2> HIDE DEF flagged
  <2>6. WriteEntry(i, unopened) = WriteString(e.attr) \o WriteString(v) \o WriteString(e.fileName)
                          \o WriteString(e.contentType) \o <<OneInt(e.length)>> \o flagged
    BY DEF WriteEntry, flagged, v
  <2> QED
    BY <2>2, <2>4, <2>5, <2>6 DEF Written
<1> QED
  BY <1>7, <1>8, <1>9 DEF x

\* "CGIC"
LEMMA VersionIs == Version \in Text
BY DEF Version, Text

\* The saved environment as it is read: strings, an int, entries.
LEMMA RestoresEntries ==
  ASSUME request \in Request, form \in Seq(Entries), FilesThere, Savable(FormView),
         NEW strings \in [DOMAIN Env -> Text], NEW unopened,
         NEW whole, NEW f, Part(f, Environment(strings, unopened), whole)
  PROVE  LET r == Restored(f)
         IN  /\ r.ok => IsPrefix(r.list, SavedForm(unopened)) /\ Given(f) = strings
             /\ whole => r.ok /\ r.list = SavedForm(unopened)
<1> DEFINE SF == SavedForm(unopened)
           E  == Environment(strings, unopened)
           m  == Len(Env)
           we == [i \in 1 .. m |-> WriteString(strings[i])]
           n  == Len(form)
           w  == [i \in 1 .. Len(SF) |-> Written(SF[i])]
           one == <<OneInt(request.declared)>>
           T  == Cat(one, Rest(w, n))
           u  == [k \in 1 .. m + 1 |-> IF k = 1 THEN Version ELSE strings[k - 1]]
           g  == [k \in 0 .. m + 1 |-> IF k = 0 THEN E ELSE Cat(Rest(we, m + 1 - k), T)]
           x  == ReadStrings(f, m + 1)
<1>1. /\ m \in Nat /\ n \in Nat /\ DOMAIN form = 1 .. n /\ DOMAIN Env = 1 .. m
      /\ (\A i \in 1 .. m : strings[i] \in Text) /\ request.declared \in Nat
  BY CgicAssumption, Elements, LenProperties, ElementOfSeq
<1>2. /\ SF \in Seq(SavedEntries) /\ Len(SF) = n
      /\ \A i \in 1 .. n : /\ SF[i] = SavedEntry(i, unopened) /\ Fitting(SF[i])
                           /\ WriteEntry(i, unopened) = Written(SF[i])
                           /\ SF[i] \in SavedEntries
  <2>1. \A i \in 1 .. n : SavedEntry(i, unopened) \in SavedEntries /\ Fitting(SavedEntry(i, unopened))
                          /\ WriteEntry(i, unopened) = Written(SavedEntry(i, unopened))
    BY <1>1, SavedEntryIs
  <2>2. SF \in [1 .. n -> SavedEntries] /\ \A i \in 1 .. n : SF[i] = SavedEntry(i, unopened)
    BY <2>1 DEF SavedForm
  <2>3. SF \in Seq(SavedEntries)
    BY <1>1, <2>2, SeqDef
  <2>4. Len(SF) = n
    BY <1>1, <2>2, <2>3, LenProperties
  <2> QED
    BY <2>1, <2>2, <2>3, <2>4
<1>3. w \in Seq(Saved) /\ Len(w) = n /\ w = [i \in DOMAIN form |-> WriteEntry(i, unopened)]
  <2>1. w = [i \in 1 .. n |-> Written(SF[i])]
    BY <1>2
  <2>2. \A i \in 1 .. n : Written(SF[i]) \in Saved
    BY <1>2, WrittenIs, Nothing
  <2> HIDE DEF w
  <2>3. w \in [1 .. n -> Saved]
    BY <2>1, <2>2
  <2>4. w \in Seq(Saved)
    BY <1>1, <2>3, SeqDef
  <2>5. Len(w) = n
    BY <1>1, <2>3, <2>4, LenProperties
  <2>6. w = [i \in DOMAIN form |-> WriteEntry(i, unopened)]
    BY <1>1, <1>2, <2>1
  <2> QED
    BY <2>4, <2>5, <2>6
<1>4. we \in Seq(Saved) /\ Len(we) = m /\ we = [i \in DOMAIN Env |-> WriteString(strings[i])]
      /\ \A i \in 1 .. m : we[i] = WriteString(strings[i])
  <2>1. \A i \in 1 .. m : WriteString(strings[i]) \in Saved
    BY <1>1, StringIs
  <2>2. we \in [1 .. m -> Saved]
    BY <2>1
  <2>3. we = [i \in DOMAIN Env |-> WriteString(strings[i])]
    BY <1>1
  <2>4. \A i \in 1 .. m : we[i] = WriteString(strings[i])
    OBVIOUS
  <2> HIDE DEF we
  <2>5. we \in Seq(Saved)
    BY <1>1, <2>2, SeqDef
  <2>6. Len(we) = m
    BY <1>1, <2>2, <2>5, LenProperties
  <2> QED
    BY <2>3, <2>4, <2>5, <2>6
<1>5. one \in Saved
  BY <1>1, IntIs
<1> HIDE DEF w, we, one
<1>6. /\ \A j \in 0 .. n : Rest(w, j) \in Saved
      /\ FlattenSeq(w) = Rest(w, n) /\ n \in 0 .. n
  <2> HIDE DEF n
  <2>1. \A j \in 0 .. n : Rest(w, j) \in Saved
    BY <1>3, RestIs
  <2>2. FlattenSeq(w) = Rest(w, n)
    BY <1>3, FlattenIs
  <2> QED
    BY <1>1, <2>1, <2>2
<1>7. /\ Rest(we, 0) = <<>>
      /\ \A j \in 0 .. m : Rest(we, j) \in Saved
      /\ \A j \in 0 .. m - 1 : Rest(we, j + 1) = Cat(we[m - j], Rest(we, j))
      /\ FlattenSeq(we) = Rest(we, m)
  BY <1>4, RestIs, FlattenIs
<1>8. T \in Saved
  BY <1>5, <1>6, Joined
<1>9. WriteString(Version) \in Saved
  BY VersionIs, StringIs
<1>10. E = Cat(WriteString(Version), Cat(Rest(we, m), T))
  <2> DEFINE v == WriteString(Version)
             a == Rest(we, m)
             b == Rest(w, n)
  <2>1. E = Cat(Cat(Cat(v, a), one), b)
    BY <1>3, <1>4, <1>6, <1>7 DEF Environment, Cat, one
  <2>2. v \in Saved /\ a \in Saved /\ b \in Saved /\ one \in Saved
    BY <1>1, <1>5, <1>6, <1>7, <1>9
  <2> HIDE DEF v, a, b
  <2>3. Cat(v, a) \in Saved /\ Cat(one, b) \in Saved
    BY <2>2, Joined
  <2>4. Cat(Cat(Cat(v, a), one), b) = Cat(Cat(v, a), Cat(one, b))
    BY <2>2, <2>3, Assoc
  <2>5. Cat(Cat(v, a), Cat(one, b)) = Cat(v, Cat(a, Cat(one, b)))
    BY <2>2, <2>3, Assoc
  <2> QED
    BY <2>1, <2>4, <2>5 DEF v, a, b
<1> HIDE DEF T
<1>11. \A k \in 1 .. m + 1 : g[k] = Cat(Rest(we, m + 1 - k), T) /\ g[k] \in Saved
  <2> TAKE k \in 1 .. m + 1
  <2>1. k \in 0 .. m + 1 /\ k # 0 /\ m + 1 - k \in 0 .. m
    BY <1>1
  <2>2. g[k] = Cat(Rest(we, m + 1 - k), T)
    BY <2>1
  <2>3. Rest(we, m + 1 - k) \in Saved
    BY <1>7, <2>1
  <2> HIDE DEF g
  <2> QED
    BY <1>8, <2>2, <2>3, Joined
<1>12. g[0] = E
  BY <1>1
<1> HIDE DEF g
<1>13. ASSUME NEW k \in 1 .. m + 1
       PROVE  u[k] \in Text /\ g[k - 1] = Cat(WriteString(u[k]), g[k])
  <2>1. CASE k = 1
    <3>1. 1 \in 1 .. m + 1 /\ m + 1 - 1 = m
      BY <1>1
    <3>2. g[1] = Cat(Rest(we, m), T)
      BY <1>11, <3>1
    <3>3. g[0] = Cat(WriteString(Version), g[1])
      BY <1>10, <1>12, <3>2
    <3>4. u[k] = Version
      BY <2>1
    <3> QED
      BY <2>1, <3>3, <3>4, VersionIs
  <2>2. CASE k # 1
    <3> DEFINE i == k - 1
               j == m + 1 - k
    <3>1. i \in 1 .. m + 1 /\ i \in 1 .. m /\ m + 1 - i = j + 1 /\ j \in 0 .. m - 1
          /\ j \in 0 .. m /\ m - j = i
      BY <1>1, <2>2
    <3>2. g[i] = Cat(Rest(we, j + 1), T)
      BY <1>11, <3>1
    <3>3. Rest(we, j + 1) = Cat(WriteString(strings[i]), Rest(we, j))
      BY <1>4, <1>7, <3>1
    <3>4. strings[i] \in Text /\ WriteString(strings[i]) \in Saved /\ Rest(we, j) \in Saved
      BY <1>1, <1>7, <3>1, StringIs
    <3>5. g[k] = Cat(Rest(we, j), T)
      BY <1>11
    <3>7. u[k] = strings[i]
      BY <2>2
    <3> HIDE DEF i, j, u
    <3>6. g[i] = Cat(WriteString(strings[i]), g[k])
      BY <1>8, <3>2, <3>3, <3>4, <3>5, Assoc
    <3> QED
      BY <3>4, <3>6, <3>7 DEF i
  <2> QED
    BY <2>1, <2>2
<1>14. m + 1 \in Nat /\ \A k \in 0 .. m + 1 : g[k] \in Saved
  <2>1. g[0] \in Saved
    <3>1. 1 \in 1 .. m + 1
      BY <1>1
    <3>2. Cat(Rest(we, m), T) \in Saved
      <4>1. m \in 0 .. m
        BY <1>1
      <4> QED
        BY <1>7, <1>8, <4>1, Joined
    <3> QED
      BY <1>9, <1>10, <1>12, <3>2, Joined
  <2> QED
    BY <1>1, <1>11, <2>1
<1>15. \/ ~ whole /\ ~ x.ok
       \/ /\ x.ok /\ Part(x.rest, g[m + 1], whole)
          /\ Len(x.list) = m + 1 /\ \A i \in 1 .. m + 1 : x.list[i] = u[i]
  <2>1. Part(f, g[0], whole)
    BY <1>12
  <2> DEFINE k == m + 1
  <2>2. k \in Nat /\ Strung(u, g, k)
    BY <1>13, <1>14 DEF Strung
  <2> HIDE DEF k, u
  <2>3. StringsRead(ReadStrings(f, k), u, g, k, whole)
    BY <2>1, <2>2, ReadsStrings
  <2> QED
    BY <2>3 DEF k, StringsRead
<1>16. g[m + 1] = T
  <2>1. m + 1 \in 1 .. m + 1 /\ m + 1 - (m + 1) = 0
    BY <1>1
  <2>2. g[m + 1] = Cat(<<>>, T)
    BY <1>7, <1>11, <2>1
  <2>3. Cat(<<>>, T) = T
    BY <1>8, ConcatEmptySeq DEF Cat, Saved
  <2> QED
    BY <2>2, <2>3
<1>17. whole => f # Absent
  <2> SUFFICES ASSUME whole, f = <<>> PROVE FALSE
    BY DEF Absent
  <2>1. Len(E) = 0
    BY Nothing DEF Part
  <2>2. E \in Saved
    BY DEF Part, Cut
  <2>3. Len(WriteString(Version)) >= 1 /\ Len(WriteString(Version)) \in Nat
    BY VersionIs, StringIs
  <2> DEFINE v == WriteString(Version)
             z == Cat(Rest(we, m), T)
  <2>4. z \in Saved
    <3>1. m \in 0 .. m
      BY <1>1
    <3> QED
      BY <1>7, <1>8, <3>1, Joined
  <2>5. E = Cat(v, z)
    BY <1>10
  <2> HIDE DEF z
  <2>6. Len(Cat(v, z)) = Len(v) + Len(z) /\ Len(z) \in Nat
    BY <1>9, <2>4, ConcatSaved DEF Cat
  <2> QED
    BY <2>1, <2>3, <2>5, <2>6
<1>18. m + 1 = 1 + Len(Env)
  BY <1>1
<1> DEFINE q == ReadEntries(Tail(x.rest))
<1>19. Restored(f) = IF f # Absent /\ x.ok /\ x.rest # <<>>
                     THEN [ok |-> q.ok, list |-> q.list, strings |-> x.list]
                     ELSE [ok |-> FALSE, list |-> <<>>, strings |-> x.list]
  BY <1>18 DEF Restored
<1>22. Given(f) = [i \in DOMAIN Env |-> x.list[i + 1]]
  BY <1>19 DEF Given
<1>23. (\A i \in 1 .. m + 1 : x.list[i] = u[i]) => Given(f) = strings
  <2> SUFFICES ASSUME \A i \in 1 .. m + 1 : x.list[i] = u[i] PROVE Given(f) = strings
    OBVIOUS
  <2>1. \A i \in DOMAIN Env : x.list[i + 1] = strings[i]
    <3> TAKE i \in DOMAIN Env
    <3>1. i + 1 \in 1 .. m + 1 /\ i + 1 # 1 /\ i + 1 - 1 = i
      BY <1>1
    <3>2. u[i + 1] = strings[i]
      BY <3>1
    <3> HIDE DEF u, x
    <3> QED
      BY <3>1, <3>2
  <2>2. strings = [i \in DOMAIN Env |-> strings[i]]
    OBVIOUS
  <2> QED
    BY <1>22, <2>1, <2>2
<1> HIDE DEF x, u, q
<1>20. CASE ~ whole /\ ~ x.ok
  <2>1. ~ Restored(f).ok
    BY <1>19, <1>20
  <2> QED
    BY <1>20, <2>1
<1>21. CASE /\ x.ok /\ Part(x.rest, T, whole)
            /\ Len(x.list) = m + 1 /\ \A i \in 1 .. m + 1 : x.list[i] = u[i]
  <2> DEFINE h == x.rest
             e == Tail(h)
  <2>1. \/ ~ whole /\ h = <<>>
        \/ ReadInt(h).ok /\ Part(ReadInt(h).rest, Rest(w, n), whole)
    <3> DEFINE b == Rest(w, n)
    <3>1. b \in Saved /\ Part(h, <<OneInt(request.declared)>> \o b, whole)
      BY <1>6, <1>21 DEF T, Cat, one
    <3> HIDE DEF b, h
    <3>2. \/ ~ whole /\ h = <<>> /\ ReadInt(h) = Unread
          \/ /\ ReadInt(h).ok /\ ReadInt(h).v = request.declared
             /\ Part(ReadInt(h).rest, b, whole)
      BY <1>1, <3>1, PartReadsInt
    <3> QED
      BY <3>2 DEF b
  <2>2. CASE h = <<>>
    <3>1. ~ Restored(f).ok
      BY <1>19, <2>2
    <3>2. ~ ReadInt(h).ok
      BY <2>2 DEF ReadInt, Unread
    <3> QED
      BY <2>1, <3>1, <3>2
  <2>3. CASE h # <<>>
    <3>1. ReadInt(h).rest = e
      BY <2>3 DEF ReadInt
    <3>2. Part(e, Rest(w, n), whole)
      BY <2>1, <2>3, <3>1
    <3> HIDE DEF e
    <3>3. /\ ReadEntries(e).ok => IsPrefix(ReadEntries(e).list, SF)
          /\ whole => ReadEntries(e).ok /\ ReadEntries(e).list = SF
      <4> DEFINE es == SF
      <4>1. es \in Seq(SavedEntries) /\ (\A i \in 1 .. Len(es) : Fitting(es[i]))
            /\ w = [i \in 1 .. Len(es) |-> Written(es[i])] /\ Part(e, Rest(w, Len(es)), whole)
        BY <1>2, <3>2 DEF w
      <4> HIDE DEF es
      <4>2. /\ ReadEntries(e).ok => IsPrefix(ReadEntries(e).list, es)
            /\ whole => ReadEntries(e).ok /\ ReadEntries(e).list = es
        BY <4>1, ReadsEntries
      <4> QED
        BY <4>2 DEF es
    <3>4. f # Absent => /\ Restored(f).ok = ReadEntries(e).ok
                        /\ Restored(f).list = ReadEntries(e).list
      <4>1. q = ReadEntries(e)
        BY DEF q, e
      <4>2. f # Absent => Restored(f) = [ok |-> q.ok, list |-> q.list, strings |-> x.list]
        BY <1>19, <1>21, <2>3
      <4> QED
        BY <4>1, <4>2
    <3>5. f = Absent => ~ Restored(f).ok
      BY <1>19
    <3> QED
      BY <1>17, <1>21, <1>23, <3>3, <3>4, <3>5
  <2> QED
    BY <2>2, <2>3
<1> QED
  BY <1>15, <1>16, <1>20, <1>21

\* What the reading functions give, of any file. (cgiReadInt)
LEMMA ReadIntType ==
  ASSUME NEW f \in Saved
  PROVE  /\ ReadInt(f).ok \in BOOLEAN /\ ReadInt(f).v \in Nat /\ ReadInt(f).rest \in Saved
         /\ ~ ReadInt(f).ok => ReadInt(f) = Unread
<1>1. f \in Seq(Item) /\ Len(f) \in Nat
  BY LenProperties DEF Saved, Item
<1>2. CASE f = <<>>
  <2>1. ReadInt(f) = Unread
    BY <1>2 DEF ReadInt
  <2>2. Unread.ok = FALSE /\ Unread.v = 0 /\ Unread.rest = <<>>
    BY DEF Unread
  <2>3. Unread.ok \in BOOLEAN /\ Unread.v \in Nat /\ Unread.rest \in Saved
    <3>1. Unread.rest \in Saved
      BY <2>2, Nothing, Zenon
    <3>2. Unread.ok \in BOOLEAN
      BY <2>2, Zenon
    <3> QED
      BY <2>2, <3>1, <3>2
  <2> DEFINE r == ReadInt(f)
  <2> HIDE DEF r
  <2>4. r = Unread
    BY <2>1 DEF r
  <2> QED
    BY <2>3, <2>4 DEF r
<1>3. CASE f # <<>>
  <2> DEFINE n == IF f[1].int THEN f[1].v ELSE Len(f)
             t == Tail(f)
             r == ReadInt(f)
  <2>1. r = [ok |-> TRUE, v |-> n, rest |-> t]
    BY <1>3 DEF ReadInt
  <2>2. f[1] \in Item
    <3>1. 1 \in 1 .. Len(f)
      BY <1>1, <1>3, EmptySeq
    <3> QED
      BY <1>1, <3>1, ElementOfSeq
  <2>3. n \in Nat
    BY <1>1, <2>2 DEF Item
  <2>4. t \in Saved
    BY <1>1, <1>3, HeadTailProperties DEF Saved, Item
  <2> HIDE DEF n, t, r
  <2>5. r.ok = TRUE /\ r.v = n /\ r.rest = t
    BY <2>1
  <2> QED
    BY <2>3, <2>4, <2>5 DEF r
<1> QED
  BY <1>2, <1>3

\* The text of a piece of a file.
LEMMA TextOf ==
  ASSUME NEW f \in Saved, NEW n \in 0 .. Len(f)
  PROVE  [i \in 1 .. n |-> f[i].v] \in Text
<1>1. f \in Seq(Item) /\ Len(f) \in Nat
  BY LenProperties DEF Saved, Item
<1>2. n \in Nat /\ \A i \in 1 .. n : i \in 1 .. Len(f)
  BY <1>1
<1>3. \A i \in 1 .. n : f[i] \in Item
  BY <1>1, <1>2, ElementOfSeq
<1>4. [i \in 1 .. n |-> f[i].v] \in [1 .. n -> Nat]
  BY <1>3 DEF Item
<1> QED
  BY <1>2, <1>4, SeqDef DEF Text

\* (cgiReadString)
LEMMA ReadStringType ==
  ASSUME NEW f \in Saved
  PROVE  /\ ReadString(f).ok \in BOOLEAN /\ ReadString(f).rest \in Saved
         /\ ReadString(f).ok => ReadString(f).v \in Text
         /\ ~ ReadString(f).ok => ReadString(f) = Unread
<1> DEFINE n == ReadInt(f)
           m == n.rest
           k == n.v
           r == ReadString(f)
           t == [i \in 1 .. k |-> m[i].v]
           d == Drop(m, k)
<1>1. n.ok \in BOOLEAN /\ k \in Nat /\ m \in Saved
  BY ReadIntType
<1>2. r = IF n.ok /\ k <= Len(m) THEN [ok |-> TRUE, v |-> t, rest |-> d] ELSE Unread
  BY DEF ReadString
<1>3. Unread.ok = FALSE /\ Unread.rest = <<>>
  BY DEF Unread
<1>4. Len(m) \in Nat
  BY <1>1, LenProperties DEF Saved
<1> HIDE DEF n, m, k, r
<1>5. CASE n.ok /\ k <= Len(m)
  <2>1. d \in Saved
    BY <1>1, DropIs DEF Saved
  <2>2. k \in 0 .. Len(m)
    BY <1>1, <1>4, <1>5
  <2>3. t \in Text
    BY <1>1, <2>2, TextOf
  <2> HIDE DEF t, d
  <2>4. r.ok = TRUE /\ r.v = t /\ r.rest = d
    BY <1>2, <1>5
  <2> QED
    BY <2>1, <2>3, <2>4 DEF r
<1>6. CASE ~ (n.ok /\ k <= Len(m))
  <2>1. r = Unread
    BY <1>2, <1>6
  <2> QED
    BY <1>3, <2>1, Nothing DEF r
<1> QED
  BY <1>5, <1>6

\* One turn of the loop of cgiReadEnvironment, whatever the file holds.
LEMMA ReadOneEntryType ==
  ASSUME NEW r \in ReadState
  PROVE  ReadOneEntry(r) \in ReadState
<1> DEFINE A == ReadString(r.rest)
           V == ReadString(A.rest)
           N == ReadString(V.rest)
           T == ReadString(N.rest)
           S == ReadInt(T.rest)
           F == ReadInt(S.rest)
           n == IF F.v = 0 THEN 0 ELSE S.v
           text == [i \in 1 .. n |-> F.rest[i].v]
           flag == F.v # 0
           X == [attr |-> A.v, value |-> V.v, length |-> S.v, fileName |-> N.v,
                 type |-> T.v, isFile |-> flag, text |-> text]
           q == ReadOneEntry(r)
           failed == [r EXCEPT !.ok = FALSE]
           taken == [ok |-> TRUE, rest |-> Drop(F.rest, n), list |-> Append(r.list, X)]
<1>1. q = CASE ~ r.ok \/ ~ A.ok -> r
            [] r.ok /\ A.ok /\ F.ok /\ n <= Len(F.rest) -> taken
            [] r.ok /\ A.ok /\ ~ (F.ok /\ n <= Len(F.rest)) -> failed
  BY DEF ReadOneEntry
<1>2. failed \in ReadState /\ r.rest \in Saved /\ r.list \in Seq(SavedEntries) /\ r.ok \in BOOLEAN
  BY DEF ReadState
<1>3. A.rest \in Saved /\ (A.ok => A.v \in Text) /\ A.ok \in BOOLEAN
  BY <1>2, ReadStringType
<1>4. V.rest \in Saved /\ (V.ok => V.v \in Text) /\ (~ V.ok => V = Unread)
  BY <1>3, ReadStringType
<1>5. N.rest \in Saved /\ (N.ok => N.v \in Text) /\ (~ N.ok => N = Unread)
  BY <1>4, ReadStringType
<1>6. T.rest \in Saved /\ (T.ok => T.v \in Text) /\ (~ T.ok => T = Unread)
  BY <1>5, ReadStringType
<1>7. S.rest \in Saved /\ S.v \in Nat /\ (~ S.ok => S = Unread)
  BY <1>6, ReadIntType
<1>8. F.rest \in Saved /\ F.v \in Nat /\ F.ok \in BOOLEAN
  BY <1>7, ReadIntType
<1>9. ~ Unread.ok /\ Unread.rest = <<>>
  BY DEF Unread
<1>10. /\ V = Unread => N = Unread
       /\ N = Unread => T = Unread
       /\ T = Unread => S = Unread
       /\ S = Unread => F = Unread
  BY <1>9, ReadsNothing
<1> HIDE DEF A, V, N, T, S, F, q
<1>11. ASSUME r.ok, A.ok, F.ok, n <= Len(F.rest) PROVE taken \in ReadState
  <2>1. A.v \in Text /\ V.v \in Text /\ N.v \in Text /\ T.v \in Text
    BY <1>3, <1>4, <1>5, <1>6, <1>7, <1>9, <1>10, <1>11
  <2>2. Len(F.rest) \in Nat
    BY <1>8, LenProperties DEF Saved
  <2>3. n \in 0 .. Len(F.rest) /\ n \in Nat
    BY <1>7, <1>11, <2>2
  <2>4. text \in Text
    <3> HIDE DEF n
    <3> QED
      BY <1>8, <2>3, TextOf
  <2>5. flag \in BOOLEAN
    OBVIOUS
  <2> HIDE DEF text, flag, n
  <2>6. X \in SavedEntries
    BY <1>7, <2>1, <2>4, <2>5 DEF SavedEntries
  <2>7. Drop(F.rest, n) \in Saved
    BY <1>8, <2>3, DropIs DEF Saved
  <2> HIDE DEF X
  <2>8. Append(r.list, X) \in Seq(SavedEntries)
    BY <1>2, <2>6, AppendProperties
  <2> QED
    BY <2>7, <2>8 DEF ReadState
<1> HIDE DEF taken, failed, n
<1>12. q = r \/ q = failed \/ (r.ok /\ A.ok /\ F.ok /\ n <= Len(F.rest) /\ q = taken)
  BY <1>1, <1>2, <1>3
<1> QED
  BY <1>2, <1>11, <1>12 DEF q

\* What is read is a list of entries and one of strings, whatever the file holds, and
\* these are all there when it can be read to its end.
LEMMA RestoredType ==
  ASSUME NEW f \in Saved
  PROVE  LET r == Restored(f)
         IN  /\ r.list \in Seq(SavedEntries) /\ r.strings \in Seq(Text)
             /\ r.ok => Len(r.strings) = 1 + Len(Env)
<1>1. ASSUME NEW h \in Saved PROVE ReadEntries(h) \in ReadState
  <2> DEFINE N == Len(h)
             step == [k \in 1 .. N |-> [r \in ReadState |-> ReadOneEntry(r)]]
             start == [ok |-> TRUE, rest |-> h, list |-> <<>>]
  <2>1. ReadEntries(h) = Turns(start, N, step)
    BY DEF ReadEntries, Repeat, ReadState
  <2>2. start \in ReadState /\ N \in Nat
    BY LenProperties DEF ReadState, Saved
  <2>3. \A k \in 1 .. N, x \in ReadState : step[k][x] \in ReadState
    BY ReadOneEntryType
  <2> HIDE DEF start, step, N
  <2> QED
    BY <2>1, <2>2, <2>3, TurnsIn
<1>2. \A h : h \in Saved => ReadEntries(h).list \in Seq(SavedEntries)
  BY <1>1 DEF ReadState
<1> DEFINE x == ReadStrings(f, 1 + Len(Env))
           q == ReadEntries(Tail(x.rest))
<1>3. Restored(f) = IF f # Absent /\ x.ok /\ x.rest # <<>>
                    THEN [ok |-> q.ok, list |-> q.list, strings |-> x.list]
                    ELSE [ok |-> FALSE, list |-> <<>>, strings |-> x.list]
  BY DEF Restored
<1>4. x.rest \in Saved /\ x.list \in Seq(Text) /\ (x.ok => Len(x.list) = 1 + Len(Env))
  <2> DEFINE S == [ok : BOOLEAN, rest : Saved, list : Seq(Text)]
             n == 1 + Len(Env)
             turn == [r \in S |-> ReadOneString(r)]
             step == [k \in 1 .. n |-> turn]
             start == [ok |-> TRUE, rest |-> f, list |-> <<>>]
             P == [k \in 0 .. n |-> {r \in S : r.ok => Len(r.list) = k}]
  <2>1. ReadStrings(f, n) = Turns(start, n, step)
    BY DEF ReadStrings, Repeat
  <2>2. start \in P[0] /\ n \in Nat
    <3>1. n \in Nat /\ 0 \in 0 .. n
      BY CgicAssumption, LenProperties
    <3>2. start \in S /\ start.list = <<>>
      BY Nothing DEF Text
    <3>3. Len(start.list) = 0
      BY <3>2, Nothing
    <3> HIDE DEF start, n
    <3> QED
      BY <3>1, <3>2, <3>3
  <2>3. ASSUME NEW k \in 1 .. n, NEW r \in P[k - 1] PROVE step[k][r] \in P[k]
    <3> DEFINE s == ReadString(r.rest)
               failed == [r EXCEPT !.ok = FALSE]
               l == Append(r.list, s.v)
               taken == [ok |-> TRUE, rest |-> s.rest, list |-> l]
    <3>0. k - 1 \in 0 .. n /\ k \in 0 .. n /\ k \in Nat
      BY <2>2
    <3>1. r \in S /\ (r.ok => Len(r.list) = k - 1)
      BY <3>0
    <3>2. step[k][r] = IF r.ok /\ s.ok THEN taken ELSE failed
      BY <3>1 DEF ReadOneString
    <3>3. s.rest \in Saved /\ (s.ok => s.v \in Text) /\ s.ok \in BOOLEAN
      BY <3>1, ReadStringType
    <3> HIDE DEF s, step
    <3>4. failed \in S /\ ~ failed.ok
      BY <3>1
    <3>5. ASSUME r.ok, s.ok PROVE taken \in S /\ Len(taken.list) = k
      <4>1. l \in Seq(Text) /\ Len(l) = Len(r.list) + 1
        BY <3>1, <3>3, <3>5, AppendProperties
      <4> HIDE DEF l
      <4> QED
        BY <3>0, <3>1, <3>3, <3>5, <4>1
    <3> HIDE DEF taken, failed
    <3>6. step[k][r] \in S /\ (step[k][r].ok => Len(step[k][r].list) = k)
      BY <3>2, <3>4, <3>5
    <3> QED
      BY <3>0, <3>6
  <2> HIDE DEF start, step, n, P
  <2>5. Turns(start, n, step) \in P[n]
    BY <2>2, <2>3, TurnsKeep
  <2>6. Turns(start, n, step) \in {r \in S : r.ok => Len(r.list) = n}
    <3>1. n \in 0 .. n
      BY <2>2
    <3> QED
      BY <2>5, <3>1 DEF P
  <2> QED
    BY <2>1, <2>6 DEF n
<1> HIDE DEF x, q
<1>5. CASE f # Absent /\ x.ok /\ x.rest # <<>>
  <2>1. Tail(x.rest) \in Saved
    BY <1>4, <1>5, HeadTailProperties DEF Saved
  <2>2. q.list \in Seq(SavedEntries)
    BY <1>2, <2>1 DEF q
  <2> QED
    BY <1>3, <1>4, <1>5, <2>2
<1>6. CASE ~ (f # Absent /\ x.ok /\ x.rest # <<>>)
  <2>1. <<>> \in Seq(SavedEntries)
    BY EmptySeq
  <2>2. Restored(f) = [ok |-> FALSE, list |-> <<>>, strings |-> x.list]
    BY <1>3, <1>6
  <2> QED
    BY <1>4, <2>1, <2>2
<1> QED
  BY <1>5, <1>6

\* What is shown of entries.
LEMMA ViewsAre ==
  ASSUME NEW z \in Seq(SavedEntries)
  PROVE  Views(z) \in Seq(Shown) /\ Len(Views(z)) = Len(z)
<1>1. Len(z) \in Nat /\ \A i \in 1 .. Len(z) : z[i] \in SavedEntries
  BY LenProperties, ElementOfSeq
<1>2. Views(z) \in [1 .. Len(z) -> Shown]
  BY <1>1 DEF Views, Shown
<1> DEFINE y == Views(z)
           m == Len(z)
<1> HIDE DEF y, m
<1>3. y \in [1 .. m -> Shown] /\ m \in Nat
  BY <1>1, <1>2 DEF y, m
<1>4. y \in Seq(Shown)
  BY <1>3, SeqDef
<1>5. Len(y) = m
  BY <1>3, <1>4, LenProperties
<1> QED
  BY <1>4, <1>5 DEF y, m

\* A form whose files are there is shown as its entries are.
LEMMA FormViewTypes ==
  ASSUME form \in Seq(Entries), FilesThere
  PROVE  /\ FormView \in [1 .. Len(form) -> Shown] /\ FormView \in Seq(Shown)
         /\ Len(FormView) = Len(form)
<1> DEFINE n == Len(form)
<1>1. n \in Nat /\ DOMAIN form = 1 .. n
  BY Elements
<1>2. \A i \in 1 .. n : FormView[i] \in Shown
  <2> TAKE i \in 1 .. n
  <2> DEFINE x == SavedEntry(i, i + n + 1)
  <2>1. x \in SavedEntries /\ FormView[i] = SavedView(x)
    BY <1>1, SavedEntryIs
  <2> QED
    BY <2>1 DEF Shown
<1>3. FormView = [i \in 1 .. n |-> FormView[i]]
  BY <1>1 DEF FormView
<1> DEFINE y == FormView
<1> HIDE DEF n, y
<1>4. y \in [1 .. n -> Shown]
  BY <1>2, <1>3 DEF y
<1>5. y \in Seq(Shown)
  BY <1>1, <1>4, SeqDef
<1>6. Len(y) = n
  BY <1>1, <1>4, <1>5, LenProperties
<1> QED
  BY <1>4, <1>5, <1>6 DEF y, n

\* How an entry is shown whose file could not be opened when it was written.
Unfiled(i, unopened, v) ==
  LET w == FormView[i]
  IN  /\ i = unopened /\ w.isFile /\ ~ v.isFile
      /\ v.attr = w.attr /\ v.fileName = w.fileName /\ v.type = w.type /\ v.length = w.length

\* A form that is saved and read again is what it was as far as the file goes, and so are
\* the strings; but for the file that could not be opened.
THEOREM RoundTrip ==
  ASSUME request \in Request, form \in Seq(Entries), FilesThere, Savable(FormView),
         NEW strings \in [DOMAIN Env -> Text], NEW unopened,
         NEW whole, NEW f, Part(f, Environment(strings, unopened), whole)
  PROVE  LET r == Restored(f)
             v == Views(r.list)
         IN  /\ r.ok => /\ Given(f) = strings /\ Len(v) <= Len(FormView)
                        /\ \A i \in DOMAIN v : v[i] = FormView[i] \/ Unfiled(i, unopened, v[i])
             /\ whole => r.ok /\ Len(v) = Len(FormView)
<1> DEFINE SF == SavedForm(unopened)
           r == Restored(f)
           l == r.list
           v == Views(l)
           n == Len(form)
<1>1. /\ r.ok => IsPrefix(l, SF) /\ Given(f) = strings
      /\ whole => r.ok /\ l = SF
  BY RestoresEntries
<1>2. f \in Saved
  BY DEF Part, Cut
<1>3. l \in Seq(SavedEntries) /\ Len(l) \in Nat
  <2>1. l \in Seq(SavedEntries)
    BY <1>2, RestoredType
  <2> HIDE DEF l
  <2> QED
    BY <2>1, LenProperties
<1>4. n \in Nat /\ DOMAIN form = 1 .. n
  BY Elements
<1>5. /\ Len(FormView) = n
      /\ \A i \in 1 .. n : SavedEntry(i, unopened) \in SavedEntries
                         /\ \/ SavedView(SavedEntry(i, unopened)) = FormView[i]
                            \/ Unfiled(i, unopened, SavedView(SavedEntry(i, unopened)))
  <2>1. FormView \in [1 .. n -> Shown]
    BY <1>4, FormViewTypes
  <2>2. Len(FormView) = n
    <3> DEFINE y == FormView
    <3> HIDE DEF y, n
    <3>1. y \in Seq(Shown)
      BY <1>4, <2>1, SeqDef DEF y
    <3> QED
      BY <1>4, <2>1, <3>1, LenProperties DEF y
  <2> QED
    BY <1>4, <2>2, SavedEntryIs DEF Unfiled
<1>6. SF \in Seq(SavedEntries) /\ Len(SF) = n /\ \A i \in 1 .. n : SF[i] = SavedEntry(i, unopened)
  <2>1. SF \in [1 .. n -> SavedEntries] /\ \A i \in 1 .. n : SF[i] = SavedEntry(i, unopened)
    BY <1>5 DEF SavedForm
  <2> HIDE DEF SF, n
  <2>2. SF \in Seq(SavedEntries)
    BY <1>4, <2>1, SeqDef
  <2> QED
    BY <1>4, <2>1, <2>2, LenProperties
<1>7. v = [i \in 1 .. Len(l) |-> SavedView(l[i])]
  BY DEF Views
<1>8. Len(v) = Len(l) /\ DOMAIN v = 1 .. Len(l)
  <2> HIDE DEF l
  <2> QED
    BY <1>3, ViewsAre DEF Views
<1> HIDE DEF r, l, v, SF
<1>9. ASSUME IsPrefix(l, SF)
      PROVE  Len(l) <= n /\ \A i \in 1 .. Len(l) : l[i] = SF[i]
  <2> DEFINE m == Len(l)
  <2>1. m <= n /\ SubSeq(l, 1, m) = SubSeq(SF, 1, m)
    BY <1>6, <1>9 DEF IsPrefix
  <2>2. m \in 0 .. Len(SF) /\ m \in 0 .. Len(l)
    BY <1>3, <1>4, <1>6, <2>1
  <2> HIDE DEF m
  <2>3. \A i \in 1 .. m : l[i] = SF[i]
    BY <1>3, <1>6, <2>1, <2>2, FirstIs
  <2> QED
    BY <2>1, <2>3 DEF m
<1>10. ASSUME r.ok
       PROVE  /\ Given(f) = strings /\ Len(v) <= Len(FormView)
              /\ \A i \in DOMAIN v : v[i] = FormView[i] \/ Unfiled(i, unopened, v[i])
  <2>1. Len(l) <= n /\ \A i \in 1 .. Len(l) : l[i] = SF[i]
    BY <1>1, <1>9, <1>10
  <2>2. ASSUME NEW i \in 1 .. Len(l) PROVE v[i] = SavedView(SavedEntry(i, unopened)) /\ i \in 1 .. n
    BY <1>3, <1>4, <1>6, <1>7, <2>1
  <2> QED
    BY <1>1, <1>5, <1>8, <1>10, <2>1, <2>2
<1> QED
  BY <1>1, <1>5, <1>6, <1>8, <1>10 DEF r, l, v

-----------------------------------------------------------------------------
(* What the parser makes of its input                                      *)

\* The units of a text.
LEMMA TextIs ==
  ASSUME NEW s \in Text
  PROVE  s \in Seq(Nat) /\ Len(s) \in Nat /\ \A i \in 1 .. Len(s) : s[i] \in Nat
BY LenProperties, ElementOfSeq DEF Text

\* Texts are closed under what the parser does with them.
LEMMA Appended ==
  ASSUME NEW s \in Text, NEW c \in Nat
  PROVE  Append(s, c) \in Text
BY AppendProperties DEF Text

LEMMA JoinedText ==
  ASSUME NEW s \in Text, NEW t \in Text
  PROVE  s \o t \in Text
BY ConcatProperties DEF Text

LEMMA DropText ==
  ASSUME NEW s \in Text, NEW n \in Nat
  PROVE  Drop(s, n) \in Text
BY DropIs DEF Text

LEMMA FirstText ==
  ASSUME NEW s \in Text, NEW n \in 0 .. Len(s)
  PROVE  SubSeq(s, 1, n) \in Text
BY FirstIs DEF Text

\* (cgiUnescapeChars)
LEMMA HexIs ==
  ASSUME NEW c \in Nat
  PROVE  HexValue(c) \in Nat
<1>1. CASE c \in 48 .. 57
  BY <1>1 DEF HexValue
<1>2. CASE c \in 65 .. 70
  BY <1>2 DEF HexValue
<1>3. CASE c \in 97 .. 102
  BY <1>3 DEF HexValue
<1>4. CASE c \notin 48 .. 57 /\ c \notin 65 .. 70 /\ c \notin 97 .. 102
  BY <1>4 DEF HexValue
<1> QED
  BY <1>1, <1>2, <1>3, <1>4

LEMMA UnescapeStepType ==
  ASSUME NEW u \in Unescaping, NEW c \in Nat
  PROVE  UnescapeStep(u, c) \in Unescaping
<1>1. u.state \in {"rest", "first", "second"} /\ u.high \in Nat /\ u.out \in Text
  BY DEF Unescaping
<1>2. HexValue(c) * 16 \in Nat /\ (u.high + HexValue(c)) % 256 \in Nat /\ Space \in Nat
  <2>1. HexValue(c) \in Nat
    BY HexIs
  <2> QED
    BY <1>1, <2>1 DEF Space
<1> DEFINE h == HexValue(c) * 16
           m == (u.high + HexValue(c)) % 256
           a1 == Append(u.out, Space)
           a2 == Append(u.out, c)
           a3 == Append(u.out, m)
<1>3. a1 \in Text /\ a2 \in Text /\ a3 \in Text /\ h \in Nat
  BY <1>1, <1>2, Appended
<1> DEFINE q == UnescapeStep(u, c)
<1>4. \/ q = [u EXCEPT !.state = "first"]
      \/ q = [u EXCEPT !.out = a1]
      \/ q = [u EXCEPT !.out = a2]
      \/ q = [u EXCEPT !.high = h, !.state = "second"]
      \/ q = [u EXCEPT !.out = a3, !.state = "rest"]
  BY <1>1 DEF UnescapeStep
<1> HIDE DEF q, a1, a2, a3, h
<1> QED
  BY <1>3, <1>4 DEF Unescaping, q

\* What is decoded is a text.
LEMMA UnescapeType ==
  ASSUME NEW s \in Text
  PROVE  Unescape(s) \in Text
<1> DEFINE start == [state |-> "rest", high |-> 0, out |-> <<>>]
           n == Len(s)
           step == [k \in 1 .. n |-> [u \in Unescaping |-> UnescapeStep(u, s[k])]]
<1>1. n \in Nat /\ \A k \in 1 .. n : s[k] \in Nat
  BY TextIs
<1>2. start \in Unescaping
  BY Nothing DEF Unescaping
<1>3. \A k \in 1 .. n, u \in Unescaping : step[k][u] \in Unescaping
  BY <1>1, UnescapeStepType
<1>4. Unescape(s) = Turns(start, n, step).out
  BY DEF Unescape
<1> HIDE DEF start, n, step
<1>5. Turns(start, n, step) \in Unescaping
  BY <1>1, <1>2, <1>3, TurnsIn
<1> QED
  BY <1>4, <1>5 DEF Unescaping

\* What the parser of a query makes has no files. (cgiParseFormInput)
LEMMA ParsedType ==
  ASSUME NEW d \in Text
  PROVE  /\ ParseFormInput(d) \in Seq(Entries)
         /\ \A i \in DOMAIN ParseFormInput(d) :
              ParseFormInput(d)[i].tfile = 0 /\ ParseFormInput(d)[i].live
<1> DEFINE E == {e \in Entries : e.tfile = 0 /\ e.live}
           S == [rest : Text, form : Seq(E)]
           start == [rest |-> d, form |-> <<>>]
           n == Len(d)
           step == [k \in 1 .. n |-> [p \in Parsed |-> ParsePair(p)]]
<1>1. n \in Nat /\ start \in S
  BY TextIs, EmptySeq
<1>2. ASSUME NEW p \in S PROVE p \in Parsed /\ ParsePair(p) \in S
  <2>1. p.rest \in Text /\ p.form \in Seq(E) /\ p \in Parsed
    <3>1. p.form \in Seq(Entries)
      BY SeqMonotonic
    <3> QED
      BY <3>1 DEF Parsed
  <2> DEFINE name  == UpTo(p.rest, Eq)
             tail  == Drop(p.rest, Len(name) + 1)
             text  == UpTo(tail, Amp)
             attr  == CString(Unescape(name))
             value == CString(Unescape(text))
             rest  == Drop(tail, Len(text) + 1)
             e == [attr |-> attr, value |-> value, length |-> Len(value), fileName |-> <<>>,
                   contentType |-> <<>>, tfile |-> 0, live |-> TRUE]
  <2>2. name \in Text /\ Len(name) + 1 \in Nat
    <3>1. name \in Text
      BY <2>1, UpToIs
    <3> QED
      BY <3>1, TextIs
  <2>3. attr \in Text
    BY <2>2, UnescapeType, CStringIs
  <2>4. tail \in Text
    BY <2>1, <2>2, DropText
  <2> HIDE DEF name, attr, tail
  <2>5. text \in Text /\ Len(text) + 1 \in Nat
    <3>1. text \in Text
      BY <2>4, UpToIs
    <3> QED
      BY <3>1, TextIs
  <2>6. value \in Text /\ rest \in Text
    BY <2>4, <2>5, UnescapeType, CStringIs, DropText
  <2> HIDE DEF text, value
  <2>7. Len(value) \in Nat
    BY <2>6, TextIs
  <2> HIDE DEF rest
  <2>8. e \in E
    BY <2>3, <2>6, <2>7, Nothing DEF Entries
  <2>9. ParsePair(p) = p \/ ParsePair(p) = [rest |-> rest, form |-> Append(p.form, e)]
    BY DEF ParsePair, FormEntry, rest, value, text, tail, attr, name
  <2> HIDE DEF e, E
  <2>10. Append(p.form, e) \in Seq(E)
    BY <2>1, <2>8, AppendProperties
  <2> QED
    BY <2>1, <2>6, <2>9, <2>10
<1>3. ParseFormInput(d) = Turns(start, n, step).form
  BY DEF ParseFormInput, Repeat
<1>4. \A k \in 1 .. n, p \in S : step[k][p] \in S
  BY <1>2
<1> HIDE DEF start, n, step
<1>5. Turns(start, n, step) \in S
  <2> HIDE DEF S
  <2> QED
    BY <1>1, <1>4, TurnsIn
<1>6. ParseFormInput(d) \in Seq(E)
  BY <1>3, <1>5
<1> DEFINE f == ParseFormInput(d)
<1> HIDE DEF f
<1>7. f \in Seq(E) /\ f \in Seq(Entries)
  <2>1. f \in Seq(E)
    BY <1>6 DEF f
  <2> QED
    BY <2>1, SeqMonotonic
<1>8. \A i \in DOMAIN f : f[i] \in E
  BY <1>7, LenProperties, ElementOfSeq
<1> QED
  BY <1>7, <1>8 DEF f

\* The stream of a multipart body. (mpRead, mpPutBack)
LEMMA ReadType ==
  ASSUME NEW s \in Stream, NEW n \in Nat, NEW input \in Text, NEW declared \in Nat
  PROVE  MpRead(s, n, input, declared).s \in Stream /\ MpRead(s, n, input, declared).got \in Text
<1> DEFINE back == s.back
           again == Min({n, Len(back)})
           want == Min({n - again, declared - s.off})
           end == Min({s.pos + want, Len(input)})
           fresh == SubSeq(input, s.pos + 1, end)
           off == IF want = 0 THEN s.off ELSE s.off + again + Len(fresh)
           past == s.past \/ s.pos + want > declared
           b == Drop(back, again)
           got == SubSeq(back, 1, again) \o fresh
           r == MpRead(s, n, input, declared)
<1>1. s.pos \in Nat /\ back \in Text /\ s.off \in Int /\ s.past \in BOOLEAN
  BY DEF Stream
<1>2. Len(back) \in Nat /\ Len(input) \in Nat
  BY <1>1, TextIs
<1> HIDE DEF back
<1>3. again \in 0 .. Len(back) /\ again \in Nat
  <2>1. again = IF n <= Len(back) THEN n ELSE Len(back)
    BY <1>2, MinTwo
  <2> HIDE DEF again
  <2> QED
    BY <1>2, <2>1
<1> HIDE DEF again
<1>4. want \in Int
  <2>1. n - again \in Int /\ declared - s.off \in Int
    BY <1>1, <1>3
  <2> QED
    BY <2>1, MinTwo
<1> HIDE DEF want
<1>5. end \in Int /\ end <= Len(input)
  <2>1. s.pos + want \in Int /\ Len(input) \in Int
    BY <1>1, <1>2, <1>4
  <2>2. end = IF s.pos + want <= Len(input) THEN s.pos + want ELSE Len(input)
    BY <2>1, MinTwo
  <2> HIDE DEF end
  <2> QED
    BY <2>1, <2>2
<1> HIDE DEF end
<1>6. fresh \in Text
  <2>1. \A i \in s.pos + 1 .. end : input[i] \in Nat
    <3>1. \A i \in s.pos + 1 .. end : i \in 1 .. Len(input)
      BY <1>1, <1>2, <1>5
    <3> QED
      BY <3>1, TextIs
  <2>2. s.pos + 1 \in Int
    BY <1>1
  <2>3. input \in Seq(Nat)
    BY TextIs
  <2> QED
    BY <1>5, <2>1, <2>2, <2>3, SubSeqProperties DEF Text
<1> HIDE DEF fresh
<1>7. Len(fresh) \in Nat
  BY <1>6, TextIs
<1>8. off \in Int /\ s.pos + Len(fresh) \in Nat
  BY <1>1, <1>3, <1>7
<1>9. past \in BOOLEAN
  BY <1>1
<1>10. b \in Text
  BY <1>1, <1>3, DropText DEF back
<1>11. got \in Text
  BY <1>1, <1>3, <1>6, FirstText, JoinedText DEF back
<1>12. r = [got |-> got, s |-> [pos |-> s.pos + Len(fresh), back |-> b, off |-> off, past |-> past]]
  BY DEF MpRead, fresh, end, want, again, back
<1> HIDE DEF off, past, b, got, r
<1>13. r.s \in Stream /\ r.got \in Text
  BY <1>8, <1>9, <1>10, <1>11, <1>12 DEF Stream
<1> QED
  BY <1>13 DEF r

\* (mpPutBack)
LEMMA PutBackType ==
  ASSUME NEW s \in Stream, NEW data \in Text
  PROVE  MpPutBack(s, data) \in Stream
<1>1. s.back \in Text /\ s.off \in Int /\ Len(data) \in Nat
  BY TextIs DEF Stream
<1> DEFINE b == s.back \o data
           o == s.off - Len(data)
<1>2. b \in Text /\ o \in Int
  BY <1>1, JoinedText
<1>3. MpPutBack(s, data) = [s EXCEPT !.back = b, !.off = o]
  BY DEF MpPutBack
<1> HIDE DEF b, o
<1> QED
  BY <1>2, <1>3 DEF Stream

\* What is behind a piece of a text. (decomposeValue, readHeaderLine)
LEMMA AfterTypes ==
  ASSUME NEW s \in Text, NEW c
  PROVE  /\ From(s, c) \in Text
         /\ SkipSpace(s) \in Text
         /\ After(s, IsAlnum) \in Text
<1>1. From(s, c) \in Text
  <2>1. From(s, c) = Drop(s, Len(UpTo(s, c)))
    BY DEF From, After, UpTo
  <2>2. Len(UpTo(s, c)) \in Nat
    BY UpToIs, TextIs
  <2> QED
    BY <2>1, <2>2, DropText
<1>2. SkipSpace(s) \in Text
  <2>1. SkipSpace(s) = Drop(s, Len(Span(s, IsSpace)))
    BY DEF SkipSpace, After
  <2>2. Len(Span(s, IsSpace)) \in Nat
    BY SpanTypes, TextIs
  <2> QED
    BY <2>1, <2>2, DropText
<1>3. After(s, IsAlnum) \in Text
  <2>1. After(s, IsAlnum) = Drop(s, Len(Span(s, IsAlnum)))
    BY DEF After
  <2>2. Len(Span(s, IsAlnum)) \in Nat
    BY SpanTypes, TextIs
  <2> QED
    BY <2>1, <2>2, DropText
<1> QED
  BY <1>1, <1>2, <1>3

LEMMA TailText ==
  ASSUME NEW s \in Text, s # <<>>
  PROVE  Tail(s) \in Text /\ Head(s) \in Nat /\ s[1] \in Nat /\ <<s[1]>> \in Text
<1>1. s \in Seq(Nat)
  BY TextIs
<1>2. Tail(s) \in Text /\ Head(s) \in Nat
  BY <1>1, HeadTailProperties DEF Text
<1>3. s[1] \in Nat
  BY <1>1, EmptySeq, TextIs
<1> QED
  BY <1>2, <1>3 DEF Text

\* The value and what follows it. (decomposeValue)
LEMMA FieldType ==
  ASSUME NEW v \in Text
  PROVE  Field(v).value \in Text /\ Field(v).rest \in Text
<1> DEFINE t == Tail(v)
           a == UpTo(t, Quote)
           b == From(From(t, Quote), Semi)
           c == UpTo(v, Semi)
           d == From(v, Semi)
           quoted == StartsWith(v, Quote)
           f == Field(v)
<1>1. quoted => t \in Text
  BY TailText DEF StartsWith
<1>2. quoted => a \in Text /\ b \in Text
  <2> HIDE DEF t, quoted
  <2>1. quoted => a \in Text /\ From(t, Quote) \in Text
    BY <1>1, UpToIs, AfterTypes
  <2> QED
    BY <2>1, AfterTypes
<1>3. c \in Text /\ d \in Text
  BY UpToIs, AfterTypes
<1>4. f = IF quoted THEN [value |-> a, rest |-> b] ELSE [value |-> c, rest |-> d]
  BY DEF Field
<1> HIDE DEF quoted, a, b, c, d, f
<1>5. f.value \in Text /\ f.rest \in Text
  BY <1>2, <1>3, <1>4
<1> QED
  BY <1>5 DEF f

\* The parameters of a header. (decomposeValue)
LEMMA ArgumentsType ==
  ASSUME NEW v \in Text
  PROVE  Arguments(v) \in Parameters
<1> DEFINE S == [rest : Text, args : Parameters]
           none == [name |-> <<>>, fileName |-> <<>>, known |-> TRUE]
           start == [rest |-> v, args |-> none]
           n == Len(v)
           step == [k \in 1 .. n |-> [a \in S |-> Argument(a)]]
<1>1. n \in Nat /\ start \in S
  <2>1. none \in Parameters
    BY Nothing DEF Parameters
  <2> QED
    BY <2>1, TextIs
<1>2. ASSUME NEW a \in S PROVE Argument(a) \in S
  <2> DEFINE rest  == a.rest
             args  == a.args
             text  == SkipSpace(Tail(rest))
             name  == Span(text, IsAlnum)
             eq    == SkipSpace(After(text, IsAlnum))
             behind == SkipSpace(Tail(eq))
             field == Field(behind)
             value == field.value
             p == [args EXCEPT !.name = value]
             q == [args EXCEPT !.fileName = value]
             u == [args EXCEPT !.known = FALSE]
             goes == ~ (rest = <<>> \/ ~ args.known \/ ~ StartsWith(eq, Eq))
             args2 == IF name = <<NameWord>> THEN p ELSE IF name = <<FileWord>> THEN q ELSE u
  <2>1. rest \in Text /\ args \in Parameters
    OBVIOUS
  <2>2. Argument(a) = IF ~ goes THEN a ELSE [rest |-> field.rest, args |-> args2]
    BY DEF Argument
  <2> HIDE DEF rest, args
  <2>3. ASSUME goes PROVE field.rest \in Text /\ value \in Text
    <3>1. text \in Text
      BY <2>1, <2>3, TailText, AfterTypes
    <3> HIDE DEF text
    <3>2. eq \in Text
      BY <3>1, AfterTypes
    <3> HIDE DEF eq
    <3>3. eq # <<>>
      BY <2>3 DEF StartsWith
    <3>4. behind \in Text
      BY <3>2, <3>3, TailText, AfterTypes
    <3> HIDE DEF behind
    <3> QED
      BY <3>4, FieldType
  <2> HIDE DEF goes, field, text, name, eq
  <2>4. goes => args2 \in Parameters
    <3>1. goes => value \in Text
      BY <2>3
    <3> HIDE DEF value
    <3>2. goes => p \in Parameters /\ q \in Parameters /\ u \in Parameters
      BY <2>1, <3>1 DEF Parameters
    <3> HIDE DEF p, q, u
    <3> QED
      BY <3>2
  <2> HIDE DEF args2
  <2> QED
    BY <2>2, <2>3, <2>4
<1>3. \A k \in 1 .. n, a \in S : step[k][a] \in S
  BY <1>2
<1>4. Arguments(v) = Turns(start, n, step).args
  BY DEF Arguments, Repeat
<1> HIDE DEF start, n, step
<1>5. Turns(start, n, step) \in S
  <2> HIDE DEF S
  <2> QED
    BY <1>1, <1>3, TurnsIn
<1> QED
  BY <1>4, <1>5

LEMMA DecomposeType ==
  ASSUME NEW v \in Text
  PROVE  Decompose(v).main \in Text /\ Decompose(v).args \in Parameters
<1> DEFINE f == Field(SkipSpace(v))
<1>1. f.value \in Text /\ f.rest \in Text
  <2>1. SkipSpace(v) \in Text
    BY AfterTypes
  <2> QED
    BY <2>1, FieldType
<1>2. Decompose(v) = [main |-> f.value, args |-> Arguments(f.rest)]
  BY DEF Decompose
<1> HIDE DEF f
<1>3. Arguments(f.rest) \in Parameters
  BY <1>1, ArgumentsType
<1> QED
  BY <1>1, <1>2, <1>3

\* The blanks behind a colon. (readHeaderLine)
LEMMA SkipBlanksType ==
  ASSUME NEW s \in Stream, NEW input \in Text, NEW declared \in Nat
  PROVE  SkipBlanks(s, input, declared) \in Stream
<1> DEFINE n == Len(s.back) + Len(input) + 1
           start == [s |-> s, more |-> TRUE]
           step == [k \in 1 .. n |-> [t \in Blanks |-> SkipBlank(t, input, declared)]]
<1>1. n \in Nat /\ start \in Blanks
  <2>1. s.back \in Text
    BY DEF Stream
  <2>2. Len(s.back) \in Nat /\ Len(input) \in Nat
    BY <2>1, TextIs
  <2> QED
    BY <2>2 DEF Blanks
<1>2. ASSUME NEW t \in Blanks PROVE SkipBlank(t, input, declared) \in Blanks
  <2> DEFINE b == MpRead(t.s, 1, input, declared)
             put == MpPutBack(b.s, b.got)
             q == SkipBlank(t, input, declared)
  <2>1. t.s \in Stream /\ t.more \in BOOLEAN
    BY DEF Blanks
  <2>2. b.s \in Stream /\ b.got \in Text
    BY <2>1, ReadType
  <2>3. put \in Stream
    BY <2>2, PutBackType
  <2>4. \/ q = t \/ q = [s |-> b.s, more |-> FALSE] \/ q = [s |-> b.s, more |-> TRUE]
        \/ q = [s |-> put, more |-> FALSE]
    BY <2>1 DEF SkipBlank
  <2> HIDE DEF q, put, b
  <2>5. q \in Blanks
    <3>1. /\ [s |-> b.s, more |-> FALSE] \in Blanks /\ [s |-> b.s, more |-> TRUE] \in Blanks
          /\ [s |-> put, more |-> FALSE] \in Blanks
      BY <2>2, <2>3 DEF Blanks
    <3> QED
      BY <2>4, <3>1, Zenon
  <2> QED
    BY <2>5 DEF q
<1>3. \A k \in 1 .. n, t \in Blanks : step[k][t] \in Blanks
  BY <1>2
<1>4. SkipBlanks(s, input, declared) = Turns(start, n, step).s
  BY DEF SkipBlanks, Repeat
<1> HIDE DEF start, n, step
<1>5. Turns(start, n, step) \in Blanks
  BY <1>1, <1>3, TurnsIn
<1> QED
  BY <1>4, <1>5 DEF Blanks

\* One turn of the loop of readHeaderLine.
LEMMA HeaderUnitType ==
  ASSUME NEW line \in Lines, NEW input \in Text, NEW declared \in Nat
  PROVE  HeaderUnit(line, input, declared) \in Lines
<1> DEFINE r == MpRead(line.s, 1, input, declared)
           c == r.got[1]
           next == MpRead(r.s, 1, input, declared)
           put == MpPutBack(next.s, next.got)
           behind == IF next.got # <<>> /\ next.got[1] # LF THEN put ELSE next.s
           skipped == SkipBlanks(r.s, input, declared)
           value == Append(line.value, c)
           attr == Append(line.attr, c)
           q == HeaderUnit(line, input, declared)
<1>1. line.s \in Stream /\ line.attr \in Text /\ line.value \in Text
      /\ line.state \in {"reading", "end", "cut"}
  BY DEF Lines
<1>2. r.s \in Stream /\ r.got \in Text
  BY <1>1, ReadType
<1>3. r.got # <<>> => c \in Nat
  <2> HIDE DEF r
  <2> QED
    BY <1>2, TailText
<1>4. next.s \in Stream /\ next.got \in Text
  <2> HIDE DEF r
  <2> QED
    BY <1>2, ReadType
<1>5. skipped \in Stream
  <2> HIDE DEF r
  <2> QED
    BY <1>2, SkipBlanksType
<1>6. behind \in Stream
  <2> HIDE DEF next
  <2> QED
    BY <1>4, PutBackType
<1>7. r.got # <<>> => value \in Text /\ attr \in Text
  <2> HIDE DEF c
  <2> QED
    BY <1>1, <1>3, Appended
<1>8. \/ q = line
      \/ q = [line EXCEPT !.s = r.s, !.state = "cut"]
      \/ q = [line EXCEPT !.state = "end", !.s = behind]
      \/ q = [line EXCEPT !.s = r.s, !.state = "end"]
      \/ q = [line EXCEPT !.s = skipped, !.found = TRUE]
      \/ q = [line EXCEPT !.s = r.s]
      \/ r.got # <<>> /\ q = [line EXCEPT !.s = r.s, !.value = value]
      \/ r.got # <<>> /\ q = [line EXCEPT !.s = r.s, !.attr = attr]
  <2>1. q = CASE line.state # "reading" -> line
        [] line.state = "reading" /\ r.got = <<>> -> [line EXCEPT !.s = r.s, !.state = "cut"]
        [] line.state = "reading" /\ r.got # <<>> ->
             CASE c = CR -> [line EXCEPT !.state = "end", !.s = behind]
               [] c = LF -> [line EXCEPT !.s = r.s, !.state = "end"]
               [] c = Colon /\ line.attr # <<>> ->
                    [line EXCEPT !.s = skipped, !.found = TRUE]
               [] ~ IsNewline(c) /\ ~ (c = Colon /\ line.attr # <<>>) ->
                    IF line.found THEN [line EXCEPT !.s = r.s, !.value = value]
                    ELSE IF IsSpace(c) THEN [line EXCEPT !.s = r.s]
                    ELSE [line EXCEPT !.s = r.s, !.attr = attr]
    BY DEF HeaderUnit
  <2>2. IsNewline(c) <=> c = CR \/ c = LF
    BY DEF IsNewline
  <2> DEFINE l1 == [line EXCEPT !.s = r.s, !.state = "cut"]
             l2 == [line EXCEPT !.state = "end", !.s = behind]
             l3 == [line EXCEPT !.s = r.s, !.state = "end"]
             l4 == [line EXCEPT !.s = skipped, !.found = TRUE]
             l5 == [line EXCEPT !.s = r.s]
             l6 == [line EXCEPT !.s = r.s, !.value = value]
             l7 == [line EXCEPT !.s = r.s, !.attr = attr]
             empty == r.got = <<>>
  <2> HIDE DEF q, l1, l2, l3, l4, l5, l6, l7
  <2>3. \/ q = line \/ q = l1 \/ q = l2 \/ q = l3 \/ q = l4 \/ q = l5
        \/ (~ empty /\ q = l6) \/ (~ empty /\ q = l7)
    <3>1. q = CASE line.state # "reading" -> line
        [] line.state = "reading" /\ empty -> l1
        [] line.state = "reading" /\ ~ empty ->
             CASE c = CR -> l2
               [] c = LF -> l3
               [] c = Colon /\ line.attr # <<>> -> l4
               [] ~ IsNewline(c) /\ ~ (c = Colon /\ line.attr # <<>>) ->
                    IF line.found THEN l6 ELSE IF IsSpace(c) THEN l5 ELSE l7
      BY <2>1, Zenon DEF l1, l2, l3, l4, l5, l6, l7
    <3> HIDE DEF c, empty
    <3>2. CASE line.state # "reading"
      <4>1. q = line
        BY <3>1, <3>2
      <4> QED
        BY <4>1
    <3>3. CASE line.state = "reading" /\ empty
      <4>1. q = l1
        BY <3>1, <3>3
      <4> QED
        BY <4>1
    <3>4. CASE line.state = "reading" /\ ~ empty
      <4> DEFINE colon == c = Colon /\ line.attr # <<>>
                 inner == IF line.found THEN l6 ELSE IF IsSpace(c) THEN l5 ELSE l7
      <4>1. q = CASE c = CR -> l2 [] c = LF -> l3 [] colon -> l4
                  [] ~ IsNewline(c) /\ ~ colon -> inner
        BY <3>1, <3>4
      <4>2. inner \in {l5, l6, l7}
        OBVIOUS
      <4> HIDE DEF inner, colon
      <4>3. q \in {l2, l3, l4, inner}
        <5>1. CASE c = CR \/ c = LF \/ colon
          BY <4>1, <5>1
        <5>2. CASE ~ (c = CR \/ c = LF \/ colon)
          <6>1. ~ IsNewline(c) /\ ~ colon
            BY <2>2, <5>2
          <6> QED
            BY <4>1, <5>2, <6>1
        <5> QED
          BY <5>1, <5>2
      <4> QED
        BY <3>4, <4>2, <4>3
    <3> QED
      BY <3>2, <3>3, <3>4
  <2> QED
    BY <2>3 DEF l1, l2, l3, l4, l5, l6, l7
<1> HIDE DEF q, r, behind, skipped, value, attr, c
<1>9. q \in Lines
  BY <1>2, <1>5, <1>6, <1>7, <1>8 DEF Lines
<1> QED
  BY <1>9 DEF q

LEMMA HeaderLineType ==
  ASSUME NEW s \in Stream, NEW input \in Text, NEW declared \in Nat
  PROVE  /\ HeaderLine(s, input, declared).s \in Stream
         /\ HeaderLine(s, input, declared).value \in Text
<1> DEFINE n == Len(s.back) + Len(input) + 1
           start == [s |-> s, attr |-> <<>>, value |-> <<>>, found |-> FALSE, state |-> "reading"]
           step == [k \in 1 .. n |-> [line \in Lines |-> HeaderUnit(line, input, declared)]]
           end == Turns(start, n, step)
<1>1. n \in Nat /\ start \in Lines
  <2>1. s.back \in Text
    BY DEF Stream
  <2>2. Len(s.back) \in Nat /\ Len(input) \in Nat
    BY <2>1, TextIs
  <2> QED
    BY <2>2, Nothing DEF Lines
<1>2. \A k \in 1 .. n, line \in Lines : step[k][line] \in Lines
  BY HeaderUnitType
<1>3. /\ HeaderLine(s, input, declared).s = end.s
      /\ HeaderLine(s, input, declared).value = CString(end.value)
  BY DEF HeaderLine, Repeat
<1> HIDE DEF start, n, step
<1>4. end \in Lines
  BY <1>1, <1>2, TurnsIn
<1> HIDE DEF end
<1>5. end.s \in Stream /\ end.value \in Text
  BY <1>4 DEF Lines
<1> QED
  BY <1>3, <1>5, CStringIs

-----------------------------------------------------------------------------
(* What a script is told                                                   *)

\* A run of line feeds.
LEMMA LineFeeds ==
  ASSUME NEW s \in Text, NEW n \in Nat
  PROVE  /\ s \o [i \in 1 .. n |-> LF] \in Text
         /\ Len(s \o [i \in 1 .. n |-> LF]) = Len(s) + n
<1> DEFINE r == [i \in 1 .. n |-> LF]
<1>1. r \in [1 .. n -> Nat]
  BY DEF LF
<1>2. r \in Seq(Nat)
  BY <1>1, SeqDef
<1>3. Len(r) = n
  BY <1>1, <1>2, LenProperties
<1> HIDE DEF r
<1>4. s \o r \in Seq(Nat) /\ Len(s \o r) = Len(s) + n
  BY <1>2, <1>3, ConcatProperties DEF Text
<1> QED
  BY <1>4 DEF r, Text

\* The state of the loop of cgiFormEntryString with max places, after k of the L units
\* of a value: what is written and what is left of the room make max - 1; truncated is
\* said where the room is used up, and never while it is enough for the units to come
\* and for the CRs and LFs held back.
Places(max, L, k) ==
  {e \in Copying :
     /\ Len(e.out) + e.room = max - 1
     /\ e.truncated => e.stopped /\ e.room = 0 /\ max <= L
     /\ ~ e.stopped /\ max > L => e.room >= L - k + e.cr + e.lf}

LEMMA CopyStep ==
  ASSUME NEW max \in Nat \ {0}, NEW L \in Nat, NEW k \in 1 .. L + 1, NEW c \in Nat,
         k = L + 1 => c = 0, NEW e \in Places(max, L, k - 1)
  PROVE  EntryStringStep(e, c) \in Places(max, L, k)
<1> DEFINE add == IF e.newlines THEN Max({e.cr, e.lf}) ELSE 0
           lfs == Min({add, e.room})
           run == e.out \o [i \in 1 .. lfs |-> LF]
           flushed == [e EXCEPT !.out = @ \o [i \in 1 .. lfs |-> LF], !.room = @ - lfs,
                                !.cr = 0, !.lf = 0, !.truncated = @ \/ lfs < add]
<1>1. /\ e \in Copying
      /\ e.out \in Text /\ e.room \in Nat /\ e.cr \in Nat /\ e.lf \in Nat
      /\ e.newlines \in BOOLEAN /\ e.truncated \in BOOLEAN /\ e.stopped \in BOOLEAN
      /\ Len(e.out) \in Nat
  BY LenProperties DEF Places, Copying, Text
<1>2. /\ Len(e.out) + e.room = max - 1
      /\ e.truncated => e.stopped /\ e.room = 0 /\ max <= L
      /\ ~ e.stopped /\ max > L => e.room >= L - (k - 1) + e.cr + e.lf
  BY DEF Places
<1>3. add \in Nat /\ add <= e.cr + e.lf
  <2>1. Max({e.cr, e.lf}) = IF e.cr >= e.lf THEN e.cr ELSE e.lf
    BY <1>1, MaxTwo
  <2> QED
    BY <1>1, <2>1
<1>4. lfs \in Nat /\ lfs <= add /\ lfs <= e.room /\ (lfs < add => lfs = e.room)
  <2> HIDE DEF add
  <2>1. Min({add, e.room}) = IF add <= e.room THEN add ELSE e.room
    BY <1>1, <1>3, MinTwo
  <2> QED
    BY <1>1, <1>3, <2>1
<1>5. run \in Text /\ Len(run) = Len(e.out) + lfs
  <2> HIDE DEF lfs
  <2> QED
    BY <1>1, <1>4, LineFeeds
<1> DEFINE room == e.room - lfs
           cut == e.truncated \/ lfs < add
           one == Append(run, c)
<1>6. flushed = [e EXCEPT !.out = run, !.room = room, !.cr = 0, !.lf = 0, !.truncated = cut]
  OBVIOUS
<1>7. one \in Text /\ Len(one) = Len(run) + 1
  <2> HIDE DEF run
  <2> QED
    BY <1>5, AppendProperties DEF Text
<1> HIDE DEF add, lfs, run, one
<1>8. CASE e.stopped
  <2>1. EntryStringStep(e, c) = e
    BY <1>8 DEF EntryStringStep
  <2> QED
    BY <1>1, <1>2, <1>8, <2>1 DEF Places
<1>9. CASE ~ e.stopped /\ c = CR
  <2>1. k <= L
    BY <1>9 DEF CR
  <2>2. EntryStringStep(e, c) = [e EXCEPT !.cr = e.cr + 1]
    BY <1>9 DEF EntryStringStep, IsNewline, LF, CR
  <2> DEFINE q == [e EXCEPT !.cr = e.cr + 1]
  <2>3. q \in Copying
    BY <1>1 DEF Copying
  <2>4. q.out = e.out /\ q.room = e.room /\ q.cr = e.cr + 1 /\ q.lf = e.lf
        /\ q.truncated = e.truncated /\ q.stopped = e.stopped
    BY <1>1 DEF Copying
  <2>5. ~ e.truncated
    BY <1>2, <1>9
  <2>6. max > L => e.room >= L - k + (e.cr + e.lf + 1)
    <3> SUFFICES ASSUME max > L PROVE e.room >= L - k + (e.cr + e.lf + 1)
      OBVIOUS
    <3>1. e.room >= L - (k - 1) + e.cr + e.lf
      BY <1>2, <1>9
    <3> HIDE DEF q, flushed, cut, room
    <3> QED
      BY <1>1, <3>1
  <2> HIDE DEF q
  <2>7. q \in Places(max, L, k)
    <3>1. max > L => q.room >= L - k + q.cr + q.lf
      BY <1>1, <2>4, <2>6
    <3> QED
      BY <1>2, <2>3, <2>4, <2>5, <3>1 DEF Places
  <2> QED
    BY <2>2, <2>7 DEF q
<1>10. CASE ~ e.stopped /\ c = LF
  <2>1. k <= L /\ c # CR
    BY <1>10 DEF LF, CR
  <2>2. EntryStringStep(e, c) = [e EXCEPT !.lf = e.lf + 1]
    BY <1>10, <2>1 DEF EntryStringStep, IsNewline, LF, CR
  <2> DEFINE q == [e EXCEPT !.lf = e.lf + 1]
  <2>3. q \in Copying
    BY <1>1 DEF Copying
  <2>4. q.out = e.out /\ q.room = e.room /\ q.cr = e.cr /\ q.lf = e.lf + 1
        /\ q.truncated = e.truncated /\ q.stopped = e.stopped
    BY <1>1 DEF Copying
  <2>5. ~ e.truncated
    BY <1>2, <1>10
  <2>6. max > L => e.room >= L - k + (e.cr + e.lf + 1)
    <3> SUFFICES ASSUME max > L PROVE e.room >= L - k + (e.cr + e.lf + 1)
      OBVIOUS
    <3>1. e.room >= L - (k - 1) + e.cr + e.lf
      BY <1>2, <1>10
    <3> HIDE DEF q, flushed, cut, room
    <3> QED
      BY <1>1, <3>1
  <2> HIDE DEF q
  <2>7. q \in Places(max, L, k)
    <3>1. max > L => q.room >= L - k + q.cr + q.lf
      BY <1>1, <2>4, <2>6
    <3> QED
      BY <1>2, <2>3, <2>4, <2>5, <3>1 DEF Places
  <2> QED
    BY <2>2, <2>7 DEF q
<1> DEFINE f(out_, room_, cut_, stop_) ==
             [e EXCEPT !.out = out_, !.room = room_, !.cr = 0, !.lf = 0,
                       !.truncated = cut_, !.stopped = stop_]
<1>11. ASSUME NEW x \in Text, NEW r \in Nat, NEW t \in BOOLEAN, NEW s \in BOOLEAN
       PROVE  /\ f(x, r, t, s) \in Copying
              /\ f(x, r, t, s).out = x /\ f(x, r, t, s).room = r /\ f(x, r, t, s).cr = 0
              /\ f(x, r, t, s).lf = 0 /\ f(x, r, t, s).truncated = t /\ f(x, r, t, s).stopped = s
  BY <1>1, <1>11 DEF Copying
<1>12. /\ flushed = f(run, room, cut, e.stopped)
       /\ [flushed EXCEPT !.stopped = TRUE] = f(run, room, cut, TRUE)
       /\ [flushed EXCEPT !.truncated = TRUE, !.stopped = TRUE] = f(run, room, TRUE, TRUE)
       /\ [flushed EXCEPT !.out = Append(@, c), !.room = @ - 1] = f(one, room - 1, cut, e.stopped)
  BY <1>1, <1>6 DEF Copying, one
<1>13. cut \in BOOLEAN /\ room \in Nat
  BY <1>1, <1>4
<1>14. flushed.room = room
  <2>1. flushed = f(run, room, cut, e.stopped)
    BY <1>12
  <2> HIDE DEF f, cut, room, flushed
  <2> QED
    BY <1>1, <1>5, <1>11, <1>13, <2>1
<1>15. Len(run) + room = max - 1
  <2> HIDE DEF cut, flushed, f
  <2> QED
    BY <1>1, <1>2, <1>4, <1>5
<1>16. ASSUME ~ e.stopped PROVE cut => room = 0 /\ max <= L
  <2>1. ~ e.truncated
    BY <1>2, <1>16
  <2>2. cut => lfs < add
    BY <1>1, <2>1
  <2>3. lfs < add => room = 0
    BY <1>1, <1>4
  <2>4. ASSUME lfs < add, max > L PROVE FALSE
    <3>1. e.room >= L - (k - 1) + e.cr + e.lf
      BY <1>2, <1>16, <2>4
    <3> HIDE DEF cut, flushed, f, room
    <3> QED
      BY <1>1, <1>3, <1>4, <2>4, <3>1
  <2>5. lfs < add => max <= L
    BY <2>4
  <2> HIDE DEF cut, flushed, f, room
  <2> QED
    BY <2>2, <2>3, <2>5
<1>17. ASSUME ~ e.stopped, max > L PROVE room >= L - (k - 1)
  <2>1. e.room >= L - (k - 1) + e.cr + e.lf
    BY <1>2, <1>17
  <2> HIDE DEF cut, flushed, f
  <2> QED
    BY <1>1, <1>3, <1>4, <2>1
<1>18. ASSUME NEW x \in Text, NEW r \in Nat, NEW t \in BOOLEAN, NEW s \in BOOLEAN,
              Len(x) + r = max - 1, t => s /\ r = 0 /\ max <= L, ~ s /\ max > L => r >= L - k
       PROVE  f(x, r, t, s) \in Places(max, L, k)
  <2> DEFINE q == f(x, r, t, s)
  <2>1. /\ q \in Copying
        /\ q.out = x /\ q.room = r /\ q.cr = 0
        /\ q.lf = 0 /\ q.truncated = t /\ q.stopped = s
    BY <1>1, <1>18 DEF Copying
  <2> HIDE DEF q
  <2>2. q \in Places(max, L, k)
    BY <1>18, <2>1 DEF Places
  <2> QED
    BY <2>2 DEF q
<1>19. CASE ~ e.stopped /\ c = 0
  <2>1. EntryStringStep(e, c) = [flushed EXCEPT !.stopped = TRUE]
    BY <1>19 DEF EntryStringStep, IsNewline, CR, LF, add, lfs
  <2>2. EntryStringStep(e, c) = f(run, room, cut, TRUE)
    BY <1>12, <2>1
  <2>3. cut => room = 0 /\ max <= L
    BY <1>16, <1>19
  <2> HIDE DEF f, cut, room, flushed
  <2>4. f(run, room, cut, TRUE) \in Places(max, L, k)
    BY <1>5, <1>13, <1>15, <1>18, <2>3
  <2> QED
    BY <2>2, <2>4
<1>20. CASE ~ e.stopped /\ c # CR /\ c # LF /\ c # 0
  <2>1. EntryStringStep(e, c) =
          IF flushed.room = 0 THEN [flushed EXCEPT !.truncated = TRUE, !.stopped = TRUE]
          ELSE [flushed EXCEPT !.out = Append(@, c), !.room = @ - 1]
    BY <1>20 DEF EntryStringStep, IsNewline, CR, LF, add, lfs
  <2>2. k <= L
    BY <1>20
  <2>3. CASE room = 0
    <3>1. EntryStringStep(e, c) = f(run, room, TRUE, TRUE)
      BY <1>12, <1>14, <2>1, <2>3
    <3> HIDE DEF f, cut, room, flushed
    <3>2. max <= L
      BY <1>17, <1>20, <2>2, <2>3
    <3>3. f(run, room, TRUE, TRUE) \in Places(max, L, k)
      BY <1>5, <1>13, <1>15, <1>18, <2>3, <3>2
    <3> QED
      BY <3>1, <3>3
  <2>4. CASE room # 0
    <3>1. EntryStringStep(e, c) = f(one, room - 1, cut, e.stopped)
      BY <1>12, <1>14, <2>1, <2>4
    <3>2. ~ cut
      BY <1>16, <1>20, <2>4
    <3> HIDE DEF f, cut, room, flushed
    <3>3. room - 1 \in Nat /\ Len(one) + (room - 1) = max - 1
      BY <1>1, <1>4, <1>5, <1>7, <1>13, <1>15, <2>4
    <3>4. max > L => room - 1 >= L - k
      BY <1>13, <1>17, <1>20
    <3>5. f(one, room - 1, cut, e.stopped) \in Places(max, L, k)
      BY <1>1, <1>7, <1>13, <1>18, <3>2, <3>3, <3>4
    <3> QED
      BY <3>1, <3>5
  <2> QED
    BY <2>3, <2>4
<1> QED
  BY <1>1, <1>8, <1>9, <1>10, <1>19, <1>20

\* An answer fits its buffer of max characters with the null behind it; it is called
\* truncated only when it fills the buffer and the value has not fewer characters than
\* that: never with the space that cgiFormStringSpaceNeeded asks for.
\* (cgiFormEntryString, cgiFormStringSpaceNeeded)
THEOREM AnswersFit ==
  ASSUME NEW value \in Text, NEW max \in Nat \ {0}, NEW newlines \in BOOLEAN
  PROVE  LET r == EntryString(value, max, newlines)
         IN  /\ r.out \in Text /\ Len(r.out) <= max - 1
             /\ r.status = "truncated" => Len(r.out) = max - 1 /\ max <= Len(CString(value))
<1> DEFINE s == CString(value)
           L == Len(s)
           text == Append(s, 0)
           n == Len(text)
           start == [out |-> <<>>, room |-> max - 1, cr |-> 0, lf |-> 0, newlines |-> newlines,
                     truncated |-> FALSE, stopped |-> FALSE]
           step == [k \in 1 .. n |-> [e \in Copying |-> EntryStringStep(e, text[k])]]
           end == Turns(start, n, step)
           P == [k \in 0 .. n |-> Places(max, L, k)]
<1>1. EntryString(value, max, newlines) =
        [out |-> end.out, status |-> IF end.truncated THEN "truncated"
                                     ELSE IF end.out = <<>> THEN "empty" ELSE "success"]
  BY DEF EntryString, Copied
<1>2. s \in Text /\ L \in Nat
  BY CStringIs, LenProperties DEF Text
<1> HIDE DEF s
<1>3. n = L + 1 /\ text \in Text /\ text[n] = 0
  <2> HIDE DEF L
  <2>1. Len(text) = Len(s) + 1 /\ text \in Seq(Nat) /\ text[Len(s) + 1] = 0
    BY <1>2, AppendProperties DEF Text
  <2> QED
    BY <2>1 DEF L, Text
<1> HIDE DEF L, text
<1>4. n \in Nat /\ \A k \in 1 .. n : text[k] \in Nat
  BY <1>2, <1>3, TextIs
<1>5. start \in P[0]
  <2>1. start \in Copying /\ Len(start.out) = 0
    BY Nothing DEF Copying
  <2>2. P[0] = Places(max, L, 0)
    BY <1>4
  <2> QED
    BY <1>2, <2>1, <2>2 DEF Places
<1> HIDE DEF start
<1>6. \A k \in 1 .. n : \A x : x \in P[k - 1] => step[k][x] \in P[k]
  <2> TAKE k \in 1 .. n
  <2> TAKE x
  <2> HAVE x \in P[k - 1]
  <2>1. k - 1 \in 0 .. n /\ k \in 0 .. n /\ k \in 1 .. L + 1 /\ text[k] \in Nat
        /\ (k = L + 1 => text[k] = 0)
    BY <1>2, <1>3, <1>4
  <2>2. x \in Places(max, L, k - 1) /\ x \in Copying
    BY <2>1 DEF Places
  <2>3. step[k][x] = EntryStringStep(x, text[k])
    BY <2>2
  <2> HIDE DEF n
  <2>4. EntryStringStep(x, text[k]) \in Places(max, L, k)
    BY <1>2, <2>1, <2>2, CopyStep
  <2> QED
    BY <2>1, <2>3, <2>4
<1> HIDE DEF step, P, n
<1>7. end \in P[n]
  BY <1>4, <1>5, <1>6, TurnsKeep
<1> HIDE DEF end
<1>8. end \in Places(max, L, n)
  BY <1>4, <1>7 DEF P
<1>9. /\ end.out \in Text /\ end.room \in Nat /\ end.truncated \in BOOLEAN
      /\ Len(end.out) + end.room = max - 1 /\ Len(end.out) \in Nat
      /\ end.truncated => end.room = 0 /\ max <= L
  BY <1>8, LenProperties DEF Places, Copying, Text
<1> DEFINE r == EntryString(value, max, newlines)
<1>10. r.out = end.out /\ (r.status = "truncated" => end.truncated)
  BY <1>1, <1>9
<1> HIDE DEF r
<1> QED
  BY <1>9, <1>10 DEF L, s, r

\* What is escaped holds no markup: no "<" and no ">" is left, and no quote in a value.
\* (cgiHtmlEscapeData, cgiValueEscapeData)
THEOREM NoMarkup ==
  ASSUME NEW s \in Text
  PROVE  /\ HtmlEscape(s) \in Text /\ Range(HtmlEscape(s)) \cap {Lt, Gt} = {}
         /\ ValueEscape(s) \in Text /\ Quote \notin Range(ValueEscape(s))
<1> DEFINE n == Len(s)
           H == Nat \ {Lt, Gt}
           V == Nat \ {Quote}
           h == [i \in 1 .. n |-> IF s[i] \in {Lt, Gt, Amp} THEN Entity(s[i]) ELSE <<s[i]>>]
           v == [i \in 1 .. n |-> IF s[i] = Quote THEN Entity(Quote) ELSE <<s[i]>>]
<1>1. n \in Nat /\ \A i \in 1 .. n : s[i] \in Nat
  BY TextIs
<1>2. \A c \in {Lt, Gt, Amp} : Entity(c) \in Seq(H)
  <2>1. Entity(Lt) = <<Amp, 108, 116, Semi>> /\ Entity(Gt) = <<Amp, 103, 116, Semi>>
        /\ Entity(Amp) = <<Amp, 97, 109, 112, Semi>>
    BY DEF Entity, Lt, Gt, Amp, Quote
  <2>2. /\ Amp \in H /\ Semi \in H /\ 108 \in H /\ 116 \in H /\ 103 \in H
        /\ 97 \in H /\ 109 \in H /\ 112 \in H
    BY DEF Lt, Gt, Amp, Semi
  <2> HIDE DEF H
  <2>3. Entity(Lt) \in Seq(H) /\ Entity(Gt) \in Seq(H) /\ Entity(Amp) \in Seq(H)
    BY <2>1, <2>2
  <2> QED
    BY <2>3
<1>3. Entity(Quote) \in Seq(V)
  <2>1. Entity(Quote) = <<Amp, 35, 51, 52, Semi>>
    BY DEF Entity, Lt, Gt, Amp, Quote
  <2>2. Amp \in V /\ 35 \in V /\ 51 \in V /\ 52 \in V /\ Semi \in V
    BY DEF Quote, Amp, Semi
  <2> HIDE DEF V
  <2> QED
    BY <2>1, <2>2
<1>4. ASSUME NEW i \in 1 .. n PROVE h[i] \in Seq(H) /\ v[i] \in Seq(V)
  <2>1. ASSUME s[i] \notin {Lt, Gt, Amp} PROVE h[i] \in Seq(H)
    <3>1. s[i] \in H
      BY <1>1, <2>1
    <3> HIDE DEF H
    <3> QED
      BY <2>1, <3>1
  <2>2. ASSUME s[i] # Quote PROVE v[i] \in Seq(V)
    <3>1. s[i] \in V
      BY <1>1, <2>2
    <3> HIDE DEF V
    <3> QED
      BY <2>2, <3>1
  <2>3. s[i] \in {Lt, Gt, Amp} => h[i] \in Seq(H)
    BY <1>2
  <2>4. s[i] = Quote => v[i] \in Seq(V)
    BY <1>3
  <2> QED
    BY <2>1, <2>2, <2>3, <2>4
<1>5. h \in Seq(Seq(H)) /\ v \in Seq(Seq(V))
  <2>1. h \in [1 .. n -> Seq(H)] /\ v \in [1 .. n -> Seq(V)]
    BY <1>4
  <2> HIDE DEF h, v, H, V, n
  <2> QED
    BY <1>1, <2>1, SeqDef
<1>6. HtmlEscape(s) = FlattenSeq(h) /\ ValueEscape(s) = FlattenSeq(v)
  BY DEF HtmlEscape, ValueEscape
<1> HIDE DEF h, v
<1>7. HtmlEscape(s) \in Seq(H) /\ ValueEscape(s) \in Seq(V)
  <2> HIDE DEF H, V
  <2> QED
    BY <1>5, <1>6, FlattenIn
<1>8. ASSUME NEW S \in SUBSET Nat, NEW t \in Seq(S)
      PROVE  t \in Text /\ Range(t) \subseteq S
  <2>1. Len(t) \in Nat /\ (\A i \in 1 .. Len(t) : t[i] \in S) /\ DOMAIN t = 1 .. Len(t)
    BY LenProperties, ElementOfSeq
  <2>2. t = [i \in 1 .. Len(t) |-> t[i]]
    BY LenProperties
  <2>3. t \in [1 .. Len(t) -> Nat]
    BY <2>1, <2>2
  <2>4. t \in Text
    BY <2>1, <2>3, SeqDef DEF Text
  <2>5. Range(t) \subseteq S
    BY <2>1 DEF Range
  <2> QED
    BY <2>4, <2>5
<1>9. H \in SUBSET Nat /\ V \in SUBSET Nat
  OBVIOUS
<1>10. HtmlEscape(s) \in Text /\ Range(HtmlEscape(s)) \subseteq H
       /\ ValueEscape(s) \in Text /\ Range(ValueEscape(s)) \subseteq V
  <2> HIDE DEF H, V
  <2> QED
    BY <1>7, <1>8, <1>9
<1> QED
  BY <1>10

-----------------------------------------------------------------------------
(* The temporary files                                                     *)

\* mkstemp() makes a file that was not there.
LEMMA NewFile ==
  ASSUME IsFiniteSet(DOMAIN temp)
  PROVE  NewTempFile \in Nat \ {0} /\ NewTempFile \notin DOMAIN temp
<1> DEFINE n == Cardinality(DOMAIN temp)
           S == (1 .. n + 1) \ DOMAIN temp
<1>1. n \in Nat
  BY FS_CardinalityType
<1>2. IsFiniteSet(1 .. n + 1) /\ Cardinality(1 .. n + 1) = n + 1
  BY <1>1, FS_Interval
<1> HIDE DEF n
<1>3. ~ 1 .. n + 1 \subseteq DOMAIN temp
  <2> SUFFICES ASSUME 1 .. n + 1 \subseteq DOMAIN temp PROVE FALSE
    OBVIOUS
  <2>1. 1 .. n + 1 \in SUBSET (DOMAIN temp)
    OBVIOUS
  <2>2. Cardinality(1 .. n + 1) <= n
    BY <2>1, FS_Subset DEF n
  <2> QED
    BY <1>1, <1>2, <2>2
<1>4. S # {} /\ S \in SUBSET Nat
  BY <1>1, <1>3
<1>5. Min(S) \in S
  BY <1>4, MinIs
<1>6. NewTempFile = Min(S)
  BY DEF NewTempFile, n
<1> QED
  BY <1>1, <1>5, <1>6

\* Files are restored under numbers above those of the lost ones.
LEMMA Above ==
  ASSUME NEW S \in SUBSET (Nat \ {0}), \A x, y \in S : x = y
  PROVE  Max({0} \cup S) \in Nat /\ \A x \in S : x <= Max({0} \cup S)
<1>1. \E m \in {0} \cup S : \A x \in {0} \cup S : m >= x
  <2>1. CASE S = {}
    BY <2>1
  <2>2. CASE S # {}
    <3>1. PICK m \in S : TRUE
      BY <2>2
    <3>2. m \in Nat /\ m >= 0 /\ \A x \in S : x = m
      BY <3>1
    <3> QED
      BY <3>1, <3>2
  <2> QED
    BY <2>1, <2>2
<1> DEFINE b == Max({0} \cup S)
<1>2. b \in {0} \cup S /\ \A x \in {0} \cup S : b >= x
  BY <1>1 DEF Max
<1> HIDE DEF b
<1>3. b \in Nat /\ \A x \in S : x <= b
  BY <1>2
<1> QED
  BY <1>3 DEF b

-----------------------------------------------------------------------------
(* Each step keeps them                                                    *)

\* At the start there are no files.
LEMMA Started == Init => TempInv
<1> SUFFICES ASSUME Init PROVE TempInv
  OBVIOUS
<1>1. form = <<>> /\ DOMAIN form = {} /\ temp = <<>> /\ DOMAIN temp = {} /\ part = NoPart
  BY DEF Init
<1>2. EntriesInv /\ LostInv /\ PartInv
  BY <1>1 DEF Init, EntriesInv, LostInv, PartInv, Lost, Owned, NoPart, Reading
<1>3. ListInv
  <2>1. <<>> \in Seq(Range(form)) /\ IsFiniteSet({})
    BY FS_EmptySet, EmptySeq
  <2> QED
    BY <1>1, <2>1 DEF ListInv
<1> QED
  BY <1>2, <1>3 DEF TempInv

\* What a step does that leaves the list and the files alone.
LEMMA Untouched ==
  ASSUME TempInv, UNCHANGED <<form, temp>>, fault = "open" => fault' = "open",
         PartInv',
         \/ pc' \in Parsing /\ pc \in Parsing /\ pc' # "start"
         \/ pc' \notin Parsing,
         \/ pc' \in Reading /\ pc \in Reading /\ part'.tfile = part.tfile
         \/ pc \notin Reading
         \/ pc' \notin Reading /\ part.tfile \notin Lost
  PROVE  TempInv'
<1>1. Lost' = Lost
  BY DEF Lost, Owned
<1>2. EntriesInv'
  BY DEF TempInv, EntriesInv
<1>3. Lost \subseteq {part.tfile} /\ part.tfile \notin Lost => Lost = {}
  OBVIOUS
<1>4. LostInv'
  BY <1>1, <1>3 DEF TempInv, LostInv
<1>5. ListInv'
  BY DEF TempInv, ListInv
<1> QED
  BY <1>2, <1>4, <1>5 DEF TempInv

\* The list gets a form that has no files. (cgiParseFormInput)
LEMMA MainKeeps == ASSUME TypeInv, TempInv, Main PROVE TempInv'
<1>1. /\ pc = "start" /\ UNCHANGED <<part, temp>> /\ form = <<>> /\ IsFiniteSet(DOMAIN temp)
  BY DEF Main, parsing, files, TempInv, ListInv, Parsing
<1>2. DOMAIN temp \subseteq Nat \ {0} /\ DOMAIN temp = {} /\ Lost = DOMAIN temp
  <2>1. Lost = DOMAIN temp
    <3>1. DOMAIN form = {}
      BY <1>1
    <3> QED
      BY <3>1 DEF Lost, Owned
  <2>2. DOMAIN temp \subseteq Nat \ {0} /\ Lost \subseteq {}
    BY <1>1 DEF TempInv, LostInv, Parsing, Reading
  <2> QED
    BY <2>1, <2>2
<1>3. CASE pc' = "preamble" /\ UNCHANGED <<form, fault>>
  BY <1>1, <1>3, Untouched DEF Parsing, Reading, TempInv, PartInv
<1>4. CASE pc' \in {"main", "done"} /\ form' = form
  <2>1. PartInv'
    BY <1>1, <1>4 DEF TempInv, PartInv, Reading
  <2>2. EntriesInv' /\ LostInv'
    BY <1>1, <1>2, <1>4 DEF EntriesInv, LostInv, Lost, Owned, Parsing, Reading
  <2>3. ListInv'
    BY <1>4 DEF ListInv, Parsing
  <2> QED
    BY <2>1, <2>2, <2>3 DEF TempInv
<1>5. CASE pc' = "main" /\ form' = ParseFormInput(request.input)
  <2>1. \A i \in DOMAIN form' : form'[i].tfile = 0
    <3>1. request.input \in Text
      BY CgicAssumption DEF TypeInv
    <3> QED
      BY <1>5, <3>1, ParsedType
  <2>2. EntriesInv'
    BY <2>1 DEF EntriesInv
  <2>3. LostInv'
    BY <1>1, <1>2, <1>5 DEF LostInv, Lost, Parsing, Reading
  <2>4. PartInv' /\ ListInv'
    BY <1>1, <1>5 DEF TempInv, PartInv, ListInv, Parsing, Reading
  <2> QED
    BY <2>2, <2>3, <2>4 DEF TempInv
<1> QED
  BY <1>1, <1>3, <1>4, <1>5 DEF Main

\* The parser gives up: what is not of the list must be among the others. (main)
LEMMA GivesUp ==
  ASSUME TempInv, NEW others, GiveUp(others), fault' = "open" \/ Lost \subseteq others,
         DOMAIN part' = DOMAIN NoPart, part'.tfile \in Nat, part'.outf \in BOOLEAN
  PROVE  TempInv'
<1>1. form' = <<>> /\ DOMAIN form' = {} /\ pc' = "done" /\ DOMAIN temp' = Lost \ others
  BY DEF GiveUp, Without, Lost, Owned
<1>2. Lost' = Lost \ others
  BY <1>1 DEF Lost, Owned
<1>3. EntriesInv'
  BY <1>1 DEF EntriesInv
<1>4. LostInv'
  BY <1>1, <1>2 DEF TempInv, LostInv, Lost, Parsing, Reading
<1>5. PartInv' /\ ListInv'
  BY <1>1 DEF PartInv, ListInv, Parsing, Reading
<1> QED
  BY <1>3, <1>4, <1>5 DEF TempInv

\* A part's file is unlinked with it unless its fopen has failed.
LEMMA UnfinishedIsLost ==
  ASSUME TempInv, pc \in Reading PROVE fault = "open" \/ Lost \subseteq Unfinished
<1>1. Lost \subseteq {part.tfile} /\ 0 \notin Lost
  BY DEF TempInv, LostInv, Reading, Parsing, Lost
<1> QED
  BY <1>1 DEF TempInv, PartInv, Unfinished

\* The input ends where a boundary should be.
LEMMA NoBoundaryKeeps ==
  ASSUME TempInv, NoBoundary, UNCHANGED <<part, fault>>
  PROVE  TempInv'
<1>1. CASE pc \in {"preamble", "preambleEnd"} /\ pc' = "main" /\ UNCHANGED <<form, temp>>
  BY <1>1, Untouched DEF Parsing, Reading, TempInv, PartInv
<1>2. CASE pc \in {"body", "bodyEnd"} /\ GiveUp(Unfinished)
  BY <1>2, GivesUp, UnfinishedIsLost DEF Reading, TempInv, PartInv
<1> QED
  BY <1>1, <1>2 DEF NoBoundary

\* The body is not touched by the search for the boundary. (afterNextBoundary)
LEMMA BoundaryUnitKeeps == ASSUME TempInv, BoundaryUnit PROVE TempInv'
<1>1. pc \in {"preamble", "body"} /\ UNCHANGED <<part, fault>>
  BY DEF BoundaryUnit
<1>2. CASE NoBoundary
  BY <1>1, <1>2, NoBoundaryKeeps
<1>3. CASE /\ UNCHANGED <<form, temp>>
           /\ \/ pc' = pc
              \/ pc' = IF pc = "preamble" THEN "preambleEnd" ELSE "bodyEnd"
  BY <1>1, <1>3, Untouched DEF Parsing, Reading, TempInv, PartInv, Lost, Owned
<1> QED
  BY <1>2, <1>3 DEF BoundaryUnit

LEMMA BoundaryEndKeeps == ASSUME TempInv, BoundaryEnd PROVE TempInv'
<1>1. pc \in {"preambleEnd", "bodyEnd"} /\ UNCHANGED <<part, fault>>
  BY DEF BoundaryEnd
<1>2. CASE NoBoundary
  BY <1>1, <1>2, NoBoundaryKeeps
<1>3. CASE /\ UNCHANGED <<form, temp>>
           /\ pc' = IF pc = "preambleEnd" THEN "next" ELSE "link"
  BY <1>1, <1>3, Untouched DEF Parsing, Reading, TempInv, PartInv, Lost, Owned
<1> QED
  BY <1>2, <1>3 DEF BoundaryEnd

\* A new part has no file. (cgiParsePostMultipartInput)
LEMMA NextPartKeeps == ASSUME TempInv, NextPart PROVE TempInv'
<1>1. pc = "next" /\ part' = NoPart /\ UNCHANGED <<form, temp, fault>>
  BY DEF NextPart, files
<1>2. pc' \in {"main", "header"}
  BY DEF NextPart
<1>3. PartInv'
  BY <1>1, <1>2 DEF PartInv, NoPart, Reading
<1> QED
  BY <1>1, <1>2, <1>3, Untouched DEF Parsing, Reading

\* A header gives the part its names, not its file. (readHeaderLine, decomposeValue)
LEMMA HeaderKeeps == ASSUME TempInv, Header PROVE TempInv'
<1>1. pc = "header" /\ UNCHANGED <<form, temp, fault>>
  BY DEF Header, files
<1>2. pc' \in {"header", "crashed", "open", "next"}
  BY <1>1 DEF Header
<1>3. /\ DOMAIN part' = DOMAIN part /\ part'.tfile = part.tfile /\ part'.outf = part.outf
  <2>1. /\ DOMAIN part = {"value", "name", "fileName", "type", "tfile", "outf"}
    BY DEF TempInv, PartInv, NoPart
  <2> DEFINE h == HeaderLine(strm, request.input, request.declared)
             d == Decompose(h.value)
             p == [part EXCEPT !.value = d.main, !.name = d.args.name,
                               !.fileName = d.args.fileName]
             q == [part EXCEPT !.type = d.main]
  <2>2. part' = part \/ part' = p \/ part' = q
    BY DEF Header
  <2> HIDE DEF d
  <2>3. DOMAIN p = DOMAIN part /\ p.tfile = part.tfile /\ p.outf = part.outf
    BY <2>1
  <2>4. DOMAIN q = DOMAIN part /\ q.tfile = part.tfile /\ q.outf = part.outf
    BY <2>1
  <2> HIDE DEF p, q
  <2> QED
    BY <2>2, <2>3, <2>4
<1>4. PartInv'
  BY <1>1, <1>2, <1>3 DEF TempInv, PartInv, Reading
<1> QED
  BY <1>1, <1>2, <1>4, Untouched DEF Parsing, Reading

\* The new file is nobody's, and the part's from now on. (getTempFileName)
LEMMA OpenBodyKeeps == ASSUME TempInv, OpenBody PROVE TempInv'
<1>1. /\ pc = "open" /\ part.tfile = 0 /\ part.outf = FALSE /\ DOMAIN part = DOMAIN NoPart
      /\ form \in Seq(Range(form)) /\ IsFiniteSet(DOMAIN temp) /\ Lost = {}
  BY DEF OpenBody, TempInv, PartInv, ListInv, LostInv, Parsing, Reading
<1>2. CASE pc' = "body" /\ UNCHANGED <<part, form, temp, fault>>
  <2>1. PartInv'
    BY <1>1, <1>2 DEF TempInv, PartInv, Reading
  <2> QED
    BY <1>1, <1>2, <2>1, Untouched DEF Parsing, Reading
<1>3. CASE /\ pc' = "body" /\ temp' = With(temp, NewTempFile, <<>>) /\ UNCHANGED form
           /\ \/ UNCHANGED fault /\ part' = [part EXCEPT !.tfile = NewTempFile, !.outf = TRUE]
              \/ Fails("open") /\ part' = [part EXCEPT !.tfile = NewTempFile]
  <2> DEFINE id == NewTempFile
  <2>1. id \in Nat \ {0} /\ id \notin DOMAIN temp
    BY <1>1, NewFile
  <2> HIDE DEF id
  <2>2. DOMAIN temp' = DOMAIN temp \cup {id}
    BY <1>3 DEF With, id
  <2>3. id \notin Owned
    <3>1. \A i \in DOMAIN form : form[i].live
      BY <1>1 DEF TempInv, ListInv, Parsing
    <3> QED
      BY <2>1, <3>1 DEF TempInv, EntriesInv, Owned
  <2>4. Lost' = {id}
    BY <1>1, <1>3, <2>1, <2>2, <2>3 DEF Lost, Owned
  <2>5. /\ DOMAIN part' = DOMAIN NoPart /\ part'.tfile = id /\ part'.outf \in BOOLEAN
        /\ ~ part'.outf => fault' = "open"
    <3>1. DOMAIN part = {"value", "name", "fileName", "type", "tfile", "outf"}
      BY <1>1 DEF NoPart
    <3>2. CASE UNCHANGED fault /\ part' = [part EXCEPT !.tfile = id, !.outf = TRUE]
      BY <1>1, <3>1, <3>2
    <3>3. CASE fault' = "open" /\ part' = [part EXCEPT !.tfile = id]
      BY <1>1, <3>1, <3>3
    <3> QED
      BY <1>3, <3>2, <3>3 DEF id, Fails
  <2>6. EntriesInv'
    BY <1>3, <2>2 DEF TempInv, EntriesInv
  <2>7. LostInv'
    BY <1>3, <2>1, <2>2, <2>4, <2>5 DEF TempInv, LostInv, Reading
  <2>8. PartInv'
    BY <1>3, <2>1, <2>4, <2>5 DEF PartInv, Reading
  <2>9. ListInv'
    BY <1>1, <1>3, <2>2, FS_AddElement DEF TempInv, ListInv, Parsing
  <2> QED
    BY <2>6, <2>7, <2>8, <2>9 DEF TempInv
<1>4. CASE Fails("temp") /\ GiveUp({}) /\ UNCHANGED part
  BY <1>1, <1>4, GivesUp DEF TempInv, PartInv
<1> QED
  BY <1>2, <1>3, <1>4 DEF OpenBody

\* The entry takes the part's file over, or the file goes with it.
LEMMA LinkKeeps == ASSUME TempInv, Link PROVE TempInv'
<1> DEFINE f == part.tfile
<1>1. /\ pc = "link" /\ UNCHANGED part /\ f \in Nat
      /\ form \in Seq(Range(form)) /\ (\A i \in DOMAIN form : form[i].live)
      /\ IsFiniteSet(DOMAIN temp)
      /\ DOMAIN temp \subseteq Nat \ {0} /\ Lost \subseteq {f}
      /\ IF f = 0 THEN ~ part.outf ELSE f \in Lost /\ (~ part.outf => fault = "open")
  BY DEF Link, parsing, TempInv, PartInv, ListInv, LostInv, Parsing, Reading
<1>2. CASE Fails("alloc") /\ GiveUp(Unfinished)
  BY <1>1, <1>2, GivesUp, UnfinishedIsLost DEF Reading, Fails, TempInv, PartInv
<1>3. ASSUME NEW e, e.tfile = f, form' = Append(form, e)
      PROVE  /\ DOMAIN form' = DOMAIN form \cup {Len(form) + 1} /\ Len(form) + 1 \notin DOMAIN form
             /\ \A i \in DOMAIN form : form'[i] = form[i]
             /\ form'[Len(form) + 1] = e
             /\ form' \in Seq(Range(form'))
             /\ Owned' = Owned \cup {f}
  <2> DEFINE S == Range(form) \cup {e}
             n == Len(form)
  <2>1. form \in Seq(S)
    BY <1>1, SeqMonotonic
  <2>2. /\ form' \in Seq(S) /\ Len(form') = n + 1 /\ form'[n + 1] = e
        /\ \A i \in 1 .. n : form'[i] = form[i]
    BY <1>3, <2>1, AppendProperties
  <2>3. n \in Nat /\ DOMAIN form = 1 .. n /\ DOMAIN form' = 1 .. n + 1
    BY <2>1, <2>2, LenProperties
  <2> HIDE DEF n
  <2>4. DOMAIN form' = DOMAIN form \cup {n + 1} /\ n + 1 \notin DOMAIN form
    BY <2>3
  <2>5. \A i \in DOMAIN form : form'[i] = form[i]
    BY <2>2, <2>3
  <2>6. form' \in Seq(Range(form'))
    <3>1. form' \in [1 .. n + 1 -> S]
      BY <2>2, <2>3, LenProperties
    <3>2. form' \in [1 .. n + 1 -> Range(form')]
      BY <2>3, <3>1 DEF Range
    <3> QED
      BY <2>3, <3>2, SeqDef
  <2>7. Owned' = Owned \cup {f}
    BY <1>3, <2>2, <2>4, <2>5 DEF Owned
  <2> QED
    BY <2>2, <2>4, <2>5, <2>6, <2>7 DEF n
<1>4. f # 0 => f \notin Owned /\ f \in DOMAIN temp
  BY <1>1 DEF Lost
<1>5. ASSUME NEW e, e.tfile = f, form' = Append(form, e),
             \/ DOMAIN temp' = DOMAIN temp
             \/ DOMAIN temp' = DOMAIN temp \ {f} /\ ~ e.live
      PROVE  EntriesInv' /\ Lost' = {} /\ DOMAIN temp' \subseteq DOMAIN temp
  <2> DEFINE k == Len(form) + 1
  <2>1. /\ DOMAIN form' = DOMAIN form \cup {k} /\ k \notin DOMAIN form
        /\ (\A i \in DOMAIN form : form'[i] = form[i]) /\ form'[k] = e
        /\ Owned' = Owned \cup {f}
    BY <1>3, <1>5
  <2> HIDE DEF k
  <2>2. DOMAIN temp' \subseteq DOMAIN temp
    BY <1>5
  <2>3. Lost' = {}
    BY <1>1, <2>1, <2>2 DEF Lost
  <2>4. \A i \in DOMAIN form' : form'[i].tfile \in Nat
    BY <1>1, <1>5, <2>1 DEF TempInv, EntriesInv
  <2>5. ASSUME NEW i \in DOMAIN form', form'[i].live, form'[i].tfile > 0
        PROVE  /\ form'[i].tfile \in DOMAIN temp'
               /\ \A j \in DOMAIN form' : form'[j].tfile = form'[i].tfile => i = j
    <3>1. CASE i = k
      <4>1. f > 0 /\ f \in DOMAIN temp' /\ form'[i].tfile = f
        BY <1>1, <1>4, <1>5, <2>1, <2>5, <3>1
      <4>2. \A j \in DOMAIN form : form'[j].tfile # f
        BY <1>4, <2>1, <4>1 DEF Owned
      <4> QED
        BY <2>1, <3>1, <4>1, <4>2
    <3>2. CASE i \in DOMAIN form
      <4>1. /\ form[i].tfile \in DOMAIN temp /\ form[i].tfile > 0
            /\ \A j \in DOMAIN form : form[j].tfile = form[i].tfile => i = j
        BY <2>1, <2>5, <3>2 DEF TempInv, EntriesInv
      <4>2. form[i].tfile # f
        BY <1>1, <1>4, <3>2, <4>1 DEF Owned
      <4> QED
        BY <1>5, <2>1, <3>2, <4>1, <4>2
    <3> QED
      BY <2>1, <3>1, <3>2
  <2> QED
    BY <2>2, <2>3, <2>4, <2>5 DEF EntriesInv
<1>6. CASE /\ form' = Append(form, PartEntry) /\ pc' = "next"
           /\ temp' = temp \/ (part.outf /\ \E x : temp' = With(temp, f, x))
  <2>1. PartEntry.tfile = f /\ PartEntry.live
    BY DEF PartEntry, FormEntry
  <2>2. DOMAIN temp' = DOMAIN temp
    <3>1. part.outf => f \in DOMAIN temp
      BY <1>1, <1>4
    <3> QED
      BY <1>6, <3>1 DEF With
  <2>3. EntriesInv' /\ Lost' = {}
    BY <1>5, <1>6, <2>1, <2>2
  <2>4. LostInv'
    BY <1>1, <1>6, <2>2, <2>3 DEF LostInv
  <2>5. PartInv'
    BY <1>1, <1>6 DEF TempInv, PartInv, Reading
  <2>6. ListInv'
    <3>1. \A i \in DOMAIN form' : form'[i].live
      BY <1>1, <1>3, <1>6, <2>1
    <3>2. form' \in Seq(Range(form'))
      BY <1>3, <1>6, <2>1
    <3> QED
      BY <1>1, <1>6, <2>2, <3>1, <3>2 DEF ListInv
  <2> QED
    BY <2>3, <2>4, <2>5, <2>6 DEF TempInv
<1>7. CASE /\ form' = Append(form, [PartEntry EXCEPT !.live = FALSE]) /\ pc' = "return"
           /\ temp' = Without(temp, Unfinished) /\ Fails("alloc")
  <2> DEFINE e == [PartEntry EXCEPT !.live = FALSE]
  <2>1. e.tfile = f /\ ~ e.live
    BY DEF PartEntry, FormEntry
  <2>2. DOMAIN temp' = DOMAIN temp \/ DOMAIN temp' = DOMAIN temp \ {f}
    BY <1>7 DEF Without, Unfinished
  <2> HIDE DEF e
  <2>3. EntriesInv' /\ Lost' = {} /\ DOMAIN temp' \subseteq DOMAIN temp
    BY <1>5, <1>7, <2>1, <2>2 DEF e
  <2>4. LostInv'
    BY <1>1, <2>3 DEF LostInv
  <2>5. PartInv' /\ ListInv'
    BY <1>1, <1>7 DEF TempInv, PartInv, ListInv, Reading, Parsing
  <2> QED
    BY <2>3, <2>4, <2>5 DEF TempInv
<1> QED
  BY <1>2, <1>6, <1>7 DEF Link

\* What cgiReadEnvironment makes of the first n entries it reads, and the files there
\* are then beside the old ones.
BroughtForm(list, n, base) ==
  [i \in 1 .. n |->
     FormEntry(list[i].attr, list[i].value, list[i].length, list[i].fileName, list[i].type,
               IF list[i].isFile THEN base + i ELSE 0)]
BroughtFiles(list, n, base, old) ==
  LET ids == {base + i : i \in {k \in 1 .. n : list[k].isFile}}
  IN  [t \in DOMAIN old \cup ids |-> IF t \in ids THEN list[t - base].text ELSE old[t]]

\* What a restore of n entries does, and what is left after a refusal.
Brought(list, n) == /\ form' = BroughtForm(list, n, Base)
                    /\ temp' = BroughtFiles(list, n, Base, Old)
                    /\ env' = [strings |-> Given(saved), wild |-> {}, restored |-> TRUE]
                    /\ status' = "restored"
\* Restore and Refuse with the strings of the file.
Restoring(list, n) == Restore(Restored(saved).strings, list, n)
Refusing(n, files_) == Refuse(Restored(saved).strings, n, files_)
LEMMA RestoresThem == ASSUME NEW list, NEW n, Restoring(list, n) PROVE Brought(list, n)
BY DEF Restoring, Restore, Brought, BroughtForm, BroughtFiles, Given

\* An entry of the list whose temporary file has been cut, the n-th of its units first.
CutShort(list, i, n) == [list EXCEPT ![i].text = SubSeq(@, 1, n)]

\* The outcomes of cgiReadEnvironment.
LEMMA ReadCases ==
  ASSUME ReadEnvironment
  PROVE  /\ pc = "main" /\ UNCHANGED <<request, pc, strm, boffset, out, part, saved, kept>>
         /\ LET r == Restored(saved)
                l == r.list
                last == Len(r.strings)
            IN \/ r.ok /\ Brought(l, Len(l)) /\ fault' = fault
               \/ /\ r.ok /\ \E n \in 0 .. Len(l) - 1 : Brought(l, n)
                  /\ fault = "none" /\ fault' = "alloc"
               \/ /\ r.ok
                  /\ \E i \in DOMAIN l : /\ l[i].isFile
                                        /\ \E n \in 0 .. Len(l[i].text) - 1 :
                                             Brought(CutShort(l, i, n), Len(l))
                  /\ fault = "none" /\ fault' = "disk"
               \/ /\ \E n \in {0, last} \cup 0 .. last :
                       \/ Refusing(n, Old)
                       \/ Refusing(n, With(Old, Base + 1, <<>>)) /\ fault = "none" /\ fault' = "open"
                  /\ \/ ~ r.ok /\ fault' = fault
                     \/ fault = "none" /\ fault' # "none"
<1> DEFINE l == Restored(saved).list
           last == Len(Restored(saved).strings)
           good == Restored(saved).ok
           uploads == {i \in DOMAIN l : l[i].isFile}
<1>1. pc = "main" /\ UNCHANGED <<request, pc, strm, boffset, out, part, saved, kept>>
  BY DEF ReadEnvironment, parsing
<1>2. \/ good /\ Restoring(l, Len(l)) /\ fault' = fault
      \/ good /\ Fails("alloc") /\ \E n \in 0 .. Len(l) - 1 : Restoring(l, n)
      \/ /\ good /\ Fails("disk")
         /\ \E i \in uploads : \E n \in 0 .. Len(l[i].text) - 1 :
              Restoring([l EXCEPT ![i].text = SubSeq(@, 1, n)], Len(l))
      \/ ~ good /\ Refusing(last, Old) /\ fault' = fault
      \/ Fails("open") /\ Refusing(0, Old)
      \/ Fails("alloc") /\ \E n \in 0 .. last : Refusing(n, Old)
      \/ (Fails("temp") \/ Fails("disk")) /\ Refusing(last, Old)
      \/ Fails("open") /\ Refusing(last, With(Old, Base + 1, <<>>))
  BY DEF ReadEnvironment, Restoring, Refusing
<1>3. ASSUME NEW i, NEW n, NEW m, Restoring([l EXCEPT ![i].text = SubSeq(@, 1, n)], m)
      PROVE  Brought(CutShort(l, i, n), m)
  BY <1>3, RestoresThem DEF CutShort
<1>4. \A x : Fails(x) => fault = "none" /\ fault' = x
  BY DEF Fails
<1>5. \A i \in uploads : i \in DOMAIN l /\ l[i].isFile
  OBVIOUS
<1> DEFINE Short == \E n \in 0 .. Len(l) - 1 : Brought(l, n)
           Shorter == \E i \in DOMAIN l : /\ l[i].isFile
                                         /\ \E n \in 0 .. Len(l[i].text) - 1 :
                                              Brought(CutShort(l, i, n), Len(l))
           Other == Refusing(last, With(Old, Base + 1, <<>>)) /\ fault = "none" /\ fault' = "open"
           Left == \E n \in {0, last} \cup 0 .. last :
                     \/ Refusing(n, Old)
                     \/ Refusing(n, With(Old, Base + 1, <<>>)) /\ fault = "none" /\ fault' = "open"
<1>6. ASSUME NEW n, Refusing(n, Old), n \in {0, last} \cup 0 .. last PROVE Left
  BY <1>6
<1>7. Other => Left
  OBVIOUS
<1>8. (\E n \in 0 .. Len(l) - 1 : Restoring(l, n)) => Short
  BY RestoresThem
<1>9. (\E i \in uploads : \E n \in 0 .. Len(l[i].text) - 1 :
         Restoring([l EXCEPT ![i].text = SubSeq(@, 1, n)], Len(l))) => Shorter
  <2> SUFFICES ASSUME NEW i \in uploads, NEW n \in 0 .. Len(l[i].text) - 1,
                      Restoring([l EXCEPT ![i].text = SubSeq(@, 1, n)], Len(l))
               PROVE  Shorter
    OBVIOUS
  <2>1. Brought(CutShort(l, i, n), Len(l))
    BY <1>3
  <2> HIDE DEF uploads, l
  <2> QED
    BY <1>5, <2>1
<1>10. Restoring(l, Len(l)) => Brought(l, Len(l))
  BY RestoresThem
<1> DEFINE some == \E n \in 0 .. Len(l) - 1 : Restoring(l, n)
           cut == \E i \in uploads : \E n \in 0 .. Len(l[i].text) - 1 :
                    Restoring([l EXCEPT ![i].text = SubSeq(@, 1, n)], Len(l))
           all == Restoring(l, Len(l))
           early == \E n \in 0 .. last : Refusing(n, Old)
<1>11. early => Left
  BY <1>6
<1>12. (Refusing(last, Old) \/ Refusing(0, Old)) => Left
  BY <1>6
<1>13. \/ good /\ all /\ fault' = fault
       \/ good /\ Fails("alloc") /\ some
       \/ good /\ Fails("disk") /\ cut
       \/ ~ good /\ Refusing(last, Old) /\ fault' = fault
       \/ Fails("open") /\ Refusing(0, Old)
       \/ Fails("alloc") /\ early
       \/ (Fails("temp") \/ Fails("disk")) /\ Refusing(last, Old)
       \/ Fails("open") /\ Refusing(last, With(Old, Base + 1, <<>>))
  BY <1>2
<1> DEFINE whole == Brought(l, Len(l))
<1>14. /\ some => Short
       /\ cut => Shorter
       /\ all => whole
  BY <1>8, <1>9, <1>10
<1> HIDE DEF l, last, good, Short, Shorter, Left, some, cut, all, early, whole
<1>15. \/ good /\ whole /\ fault' = fault
       \/ good /\ Short /\ fault = "none" /\ fault' = "alloc"
       \/ good /\ Shorter /\ fault = "none" /\ fault' = "disk"
       \/ Left /\ ((~ good /\ fault' = fault) \/ (fault = "none" /\ fault' # "none"))
  BY <1>4, <1>7, <1>11, <1>12, <1>13, <1>14
<1> QED
  BY <1>1, <1>15 DEF l, last, good, Short, Shorter, Left, whole

\* The script saves; the list and the files stay. (cgiWriteEnvironment)
LEMMA WriteKeeps == ASSUME TempInv, WriteEnvironment PROVE TempInv'
<1>1. /\ pc = "main" /\ pc' \in {"main", "killed"} /\ UNCHANGED <<part, form, temp>>
      /\ fault = "open" => fault' = "open"
  BY DEF WriteEnvironment, parsing, Fails
<1> QED
  BY <1>1, Untouched DEF TempInv, PartInv, Parsing, Reading

\* What is restored has files of its own, and what was there before has none left.
\* (cgiReadEnvironment)
LEMMA ReadKeeps == ASSUME TempInv, ReadEnvironment PROVE TempInv'
<1> DEFINE base == Base
           old  == Old
           idIn(list, i)  == IF list[i].isFile THEN base + i ELSE 0
           idsOf(list, n) == {base + i : i \in {k \in 1 .. n : list[k].isFile}}
           Puts(list, n) ==
             /\ form' = [i \in 1 .. n |->
                           FormEntry(list[i].attr, list[i].value, list[i].length,
                                     list[i].fileName, list[i].type, idIn(list, i))]
             /\ temp' = [t \in DOMAIN old \cup idsOf(list, n) |->
                           IF t \in idsOf(list, n) THEN list[t - base].text ELSE old[t]]
<1>1. /\ pc = "main" /\ UNCHANGED <<pc, part>>
      /\ fault = "open" => fault' = "open"
  BY DEF ReadEnvironment, parsing, Fails
<1>2. \/ \E list, n : Puts(list, n)
      \/ form' = <<>> /\ temp' = old
      \/ fault = "none" /\ fault' = "open" /\ form' = <<>> /\ temp' = With(old, base + 1, <<>>)
  <2>1. ASSUME NEW list, NEW n, Brought(list, n) PROVE Puts(list, n)
    BY <2>1 DEF Brought, BroughtForm, BroughtFiles
  <2>2. ASSUME NEW n, NEW files_, Refusing(n, files_) PROVE form' = <<>> /\ temp' = files_
    BY <2>2 DEF Refusing, Refuse
  <2> HIDE DEF Puts
  <2> QED
    BY <2>1, <2>2, ReadCases
<1>3. /\ Lost \subseteq Nat \ {0} /\ (\A x, y \in Lost : x = y)
      /\ fault # "open" => Lost = {}
  BY <1>1 DEF TempInv, LostInv, Lost, Reading
<1>4. base \in Nat /\ \A x \in Lost : x <= base
  BY <1>3, Above DEF Base, Lost, Owned
<1>5. DOMAIN old = Lost
  BY DEF Without, Old, Lost, Owned
<1> HIDE DEF base, old
<1>6. PartInv' /\ ListInv'
  BY <1>1 DEF TempInv, PartInv, ListInv, Reading, Parsing
<1>7. CASE \E list, n : Puts(list, n)
  <2>1. PICK list, n : Puts(list, n)
    BY <1>7
  <2> DEFINE idOf(i) == idIn(list, i)
             ids(m)  == idsOf(list, m)
  <2>2. /\ DOMAIN form' = 1 .. n /\ \A i \in 1 .. n : form'[i].tfile = idOf(i)
    BY <2>1 DEF FormEntry
  <2>3. DOMAIN temp' = Lost \cup ids(n)
    BY <1>5, <2>1
  <2>4. \A i \in 1 .. n : i \in Nat /\ i > 0 /\ base + i \in Nat /\ base + i > base
    BY <1>4
  <2>5. \A i \in 1 .. n : idOf(i) \in Nat /\ (idOf(i) > 0 => idOf(i) \in ids(n))
    BY <2>4
  <2>6. \A i, j \in 1 .. n : idOf(i) > 0 /\ idOf(j) = idOf(i) => i = j
    BY <1>4, <2>4
  <2>7. EntriesInv'
    BY <2>2, <2>3, <2>5, <2>6 DEF EntriesInv
  <2>8. Owned' = {idOf(i) : i \in 1 .. n}
    BY <2>2 DEF Owned
  <2>9. ids(n) \subseteq Owned' /\ Owned' \cap Lost = {}
    BY <1>3, <1>4, <2>4, <2>8
  <2>10. Lost' = Lost
    BY <2>3, <2>9 DEF Lost
  <2>11. ids(n) \subseteq Nat \ {0}
    BY <1>4, <2>4
  <2>12. LostInv'
    BY <1>1, <1>3, <2>3, <2>10, <2>11 DEF LostInv, Reading, Parsing
  <2> QED
    BY <1>6, <2>7, <2>12 DEF TempInv
<1>8. CASE form' = <<>> /\ temp' = old
  <2>1. DOMAIN form' = {} /\ DOMAIN temp' = Lost
    BY <1>5, <1>8
  <2>2. EntriesInv' /\ Lost' = Lost
    BY <2>1 DEF EntriesInv, Lost, Owned
  <2>3. LostInv'
    BY <1>1, <1>3, <2>1, <2>2 DEF LostInv, Reading, Parsing
  <2> QED
    BY <1>6, <2>2, <2>3 DEF TempInv
<1>9. CASE fault = "none" /\ fault' = "open" /\ form' = <<>> /\ temp' = With(old, base + 1, <<>>)
  <2>1. Lost = {} /\ fault' = "open"
    BY <1>3, <1>9
  <2>2. DOMAIN form' = {} /\ DOMAIN temp' = {base + 1}
    BY <1>5, <1>9, <2>1 DEF With
  <2>3. EntriesInv' /\ Lost' = {base + 1}
    BY <2>2 DEF EntriesInv, Lost, Owned
  <2>4. LostInv'
    BY <1>1, <1>4, <2>1, <2>2, <2>3 DEF LostInv, Reading, Parsing
  <2> QED
    BY <1>6, <2>3, <2>4 DEF TempInv
<1> QED
  BY <1>2, <1>7, <1>8, <1>9

\* The list is freed, or the process dies over an entry that is gone. (cgiFreeResources)
LEMMA ReturnKeeps == ASSUME TempInv, Return PROVE TempInv'
<1>1. pc \in {"main", "return"} /\ UNCHANGED <<part, fault>>
  BY DEF Return, parsing
<1>2. CASE pc' = "crashed" /\ UNCHANGED <<form, temp>>
  BY <1>1, <1>2, Untouched DEF Parsing, Reading, TempInv, PartInv
<1>3. CASE form' = <<>> /\ temp' = Without(temp, Owned) /\ pc' = "done"
  <2>1. DOMAIN form' = {} /\ DOMAIN temp' = Lost
    BY <1>3 DEF Without, Lost
  <2>2. EntriesInv' /\ Lost' = Lost
    BY <2>1 DEF EntriesInv, Lost, Owned
  <2>3. LostInv'
    BY <1>1, <1>3, <2>1, <2>2 DEF TempInv, LostInv, Lost, Reading, Parsing
  <2>4. PartInv' /\ ListInv'
    BY <1>1, <1>3 DEF TempInv, PartInv, ListInv, Reading, Parsing
  <2> QED
    BY <2>2, <2>3, <2>4 DEF TempInv
<1> QED
  BY <1>2, <1>3 DEF Return, FreeResources, Owned

\* Another process starts without files.
LEMMA RerunKeeps == ASSUME TempInv, Rerun PROVE TempInv'
<1>1. /\ form' = <<>> /\ DOMAIN form' = {} /\ temp' = <<>> /\ DOMAIN temp' = {}
      /\ part' = NoPart /\ pc' = "main"
  BY DEF Rerun
<1> QED
  BY <1>1 DEF TempInv, EntriesInv, LostInv, PartInv, ListInv, Lost, Owned, NoPart, Reading, Parsing

-----------------------------------------------------------------------------
(* Each step keeps the types                                               *)

\* The files that stay, and those that are written, hold text.
LEMMA FilesAre ==
  ASSUME NEW files_, \A t \in DOMAIN files_ : files_[t] \in Text,
         NEW ids, NEW id, NEW text \in Text
  PROVE  /\ \A t \in DOMAIN Without(files_, ids) : Without(files_, ids)[t] \in Text
         /\ \A t \in DOMAIN With(files_, id, text) : With(files_, id, text)[t] \in Text
BY DEF Without, With

\* The boundary that is looked for is never empty.
LEMMA BoundaryIs ==
  ASSUME NEW p
  PROVE  LET w == (IF p = "preamble" THEN <<>> ELSE <<CR, LF>>) \o <<Dash, Dash>> \o Boundary
         IN  w \in Text /\ Len(w) \in Nat /\ Len(w) > 0
<1> DEFINE first == IF p = "preamble" THEN <<>> ELSE <<CR, LF>>
           two == <<Dash, Dash>>
           b == first \o two
           w == b \o Boundary
<1>1. first \in Seq(Nat) /\ two \in Seq(Nat) /\ Len(two) = 2
  BY EmptySeq DEF CR, LF, Dash
<1>2. Boundary \in Seq(Nat)
  BY CgicAssumption DEF Text
<1> HIDE DEF first, two
<1>3. Len(first) \in Nat /\ Len(Boundary) \in Nat
  BY <1>1, <1>2, LenProperties
<1>4. b \in Seq(Nat) /\ Len(b) = Len(first) + Len(two)
  BY <1>1, ConcatProperties
<1> HIDE DEF b
<1>5. w \in Seq(Nat) /\ Len(w) = Len(b) + Len(Boundary)
  BY <1>2, <1>4, ConcatProperties
<1> HIDE DEF w
<1>6. Len(w) \in Nat /\ Len(w) > 0
  BY <1>1, <1>3, <1>4, <1>5
<1> QED
  BY <1>5, <1>6 DEF w, b, first, two, Text

\* What Init and the parser's data are.
LEMMA FreshIs == Fresh \in Stream /\ NoPart \in Parts
BY Nothing DEF Fresh, Stream, NoPart, Parts

\* The request is one of those assumed.
LEMMA RequestIs ==
  ASSUME TypeInv
  PROVE  request.input \in Text /\ request.declared \in Nat
BY CgicAssumption DEF TypeInv

\* The types at the start.
LEMMA TypeStarted == Init => TypeInv
<1> SUFFICES ASSUME Init PROVE TypeInv
  OBVIOUS
<1>1. DOMAIN temp = {} /\ DOMAIN form = {}
  BY DEF Init
<1> QED
  BY <1>1, FreshIs, Nothing, EmptySeq DEF Init, TypeInv, Absent

\* The end of the input where a boundary should be.
LEMMA GaveUp ==
  ASSUME TypeInv, NEW others, GiveUp(others), UNCHANGED <<request, saved>>,
         strm' \in Stream, out' \in Text, part' \in Parts, boffset' \in Nat
  PROVE  TypeInv'
<1>1. form' = <<>> /\ DOMAIN form' = {} /\ pc' = "done"
  BY DEF GiveUp
<1>2. \A t \in DOMAIN temp' : temp'[t] \in Text
  BY FilesAre, Nothing DEF TypeInv, GiveUp
<1> QED
  BY <1>1, <1>2, EmptySeq DEF TypeInv

\* The input ends where a boundary should be.
LEMMA NoBoundaryTypes ==
  ASSUME TypeInv, NoBoundary, UNCHANGED <<request, saved, part, boffset, out>>, strm' \in Stream
  PROVE  TypeInv'
<1>1. CASE pc \in {"preamble", "preambleEnd"} /\ pc' = "main" /\ UNCHANGED <<form, temp>>
  BY <1>1 DEF TypeInv
<1>2. CASE GiveUp(Unfinished)
  BY <1>2, GaveUp DEF TypeInv
<1> QED
  BY <1>1, <1>2 DEF NoBoundary

\* The form of a query is a list of entries. (main, cgiParseFormInput)
LEMMA MainTypes == ASSUME TypeInv, Main PROVE TypeInv'
<1>1. pc = "start" /\ UNCHANGED <<request, strm, boffset, out, part, temp, saved>> /\ boffset = 0
  BY DEF Main, parsing, files, TypeInv
<1>2. CASE pc' = "preamble" /\ form' = form
  <2>1. 0 < Len(WorkingBoundary')
    BY BoundaryIs DEF WorkingBoundary
  <2> QED
    BY <1>1, <1>2, <2>1 DEF TypeInv
<1>3. CASE pc' \in {"main", "done"} /\ form' = form
  BY <1>1, <1>3 DEF TypeInv
<1>4. CASE pc' = "main" /\ form' = ParseFormInput(request.input)
  <2>1. form' \in Seq(Entries) /\ \A i \in DOMAIN form' : form'[i].live
    BY <1>4, RequestIs, ParsedType
  <2> QED
    BY <1>1, <1>4, <2>1 DEF TypeInv
<1> QED
  BY <1>2, <1>3, <1>4 DEF Main

\* What is read of the body. (mpRead)
LEMMA ReadTypes ==
  ASSUME TypeInv, NEW n \in Nat
  PROVE  Read(n).s \in Stream /\ Read(n).got \in Text
<1>1. strm \in Stream
  BY DEF TypeInv
<1> QED
  BY <1>1, RequestIs, ReadType DEF Read

\* What has been matched stays short of the boundary, so that there is a next unit to
\* compare with. (afterNextBoundary)
LEMMA BoundaryUnitTypes == ASSUME TypeInv, BoundaryUnit PROVE TypeInv'
<1> DEFINE r == Read(1)
           w == WorkingBoundary
           again == PutAgain(boffset)
           back == MpPutBack(MpPutBack(r.s, again), r.got)
           u == IF boffset > 0 THEN w[1] ELSE r.got[1]
<1>1. /\ pc \in {"preamble", "body"} /\ boffset \in Nat /\ boffset < Len(w)
      /\ UNCHANGED <<request, part, saved>>
  BY DEF TypeInv, BoundaryUnit
<1>2. r.s \in Stream /\ r.got \in Text
  BY ReadTypes
<1>3. w \in Text /\ Len(w) \in Nat /\ Len(w) > 0
  BY BoundaryIs DEF WorkingBoundary
<1>4. strm' = (IF r.got # <<>> /\ r.got[1] # w[boffset + 1] /\ boffset > 0 THEN back ELSE r.s)
  BY DEF BoundaryUnit
<1>5. \/ r.got = <<>> /\ NoBoundary /\ UNCHANGED <<boffset, out>>
      \/ /\ IF boffset + 1 = Len(w)
            THEN boffset' = 0 /\ pc' = IF pc = "preamble" THEN "preambleEnd" ELSE "bodyEnd"
            ELSE boffset' = boffset + 1 /\ UNCHANGED pc
         /\ UNCHANGED <<out, form, temp>>
      \/ /\ r.got # <<>>
         /\ out' = IF pc = "preamble" THEN <<>> ELSE Append(out, u)
         /\ boffset' = 0 /\ UNCHANGED <<pc, form, temp>>
  BY DEF BoundaryUnit
<1> HIDE DEF r, w
<1>6. again \in Text
  <2>1. w \in Seq(Nat) /\ \A i \in 2 .. boffset : w[i] \in Nat
    BY <1>1, <1>3, TextIs
  <2>2. SubSeq(w, 2, boffset) \in Seq(Nat)
    <3>1. 2 \in Int /\ boffset \in Int
      BY <1>1
    <3> QED
      BY <2>1, <3>1, SubSeqProperties
  <2> QED
    BY <2>2 DEF PutAgain, Text, w
<1>7. strm' \in Stream
  <2>1. back \in Stream
    <3> HIDE DEF again
    <3>1. MpPutBack(r.s, again) \in Stream
      BY <1>2, <1>6, PutBackType
    <3> QED
      BY <1>2, <3>1, PutBackType
  <2> HIDE DEF back
  <2> QED
    BY <1>2, <1>4, <2>1
<1>8. r.got # <<>> => u \in Nat
  <2>1. w[1] \in Nat
    BY <1>3, TextIs
  <2> QED
    BY <1>2, <2>1, TailText
<1>9. CASE NoBoundary /\ UNCHANGED <<boffset, out>>
  BY <1>1, <1>7, <1>9, NoBoundaryTypes
<1>10. CASE /\ IF boffset + 1 = Len(w)
               THEN boffset' = 0 /\ pc' = IF pc = "preamble" THEN "preambleEnd" ELSE "bodyEnd"
               ELSE boffset' = boffset + 1 /\ UNCHANGED pc
            /\ UNCHANGED <<out, form, temp>>
  <2>1. CASE boffset + 1 = Len(w)
    <3>1. boffset' = 0 /\ pc' \in {"preambleEnd", "bodyEnd"}
      BY <1>1, <1>10, <2>1
    <3> QED
      BY <1>1, <1>7, <1>10, <3>1 DEF TypeInv
  <2>2. CASE boffset + 1 # Len(w)
    <3>1. boffset' = boffset + 1 /\ boffset' \in Nat /\ boffset + 1 < Len(w) /\ pc' = pc
      BY <1>1, <1>3, <1>10, <2>2
    <3>2. WorkingBoundary' = w
      BY <3>1 DEF WorkingBoundary, w
    <3> QED
      BY <1>1, <1>7, <1>10, <3>1, <3>2 DEF TypeInv
  <2> QED
    BY <2>1, <2>2
<1>11. CASE /\ r.got # <<>>
            /\ out' = IF pc = "preamble" THEN <<>> ELSE Append(out, u)
            /\ boffset' = 0 /\ UNCHANGED <<pc, form, temp>>
  <2> HIDE DEF u
  <2>1. out' \in Text
    <3>1. out \in Text
      BY DEF TypeInv
    <3>2. Append(out, u) \in Text
      BY <1>8, <1>11, <3>1, Appended
    <3> QED
      BY <1>11, <3>2, Nothing
  <2>2. WorkingBoundary' = w
    BY <1>11 DEF WorkingBoundary, w
  <2> QED
    BY <1>1, <1>3, <1>7, <1>11, <2>1, <2>2 DEF TypeInv
<1> QED
  BY <1>5, <1>9, <1>10, <1>11

\* The boundary is behind. (afterNextBoundary)
LEMMA BoundaryEndTypes == ASSUME TypeInv, BoundaryEnd PROVE TypeInv'
<1> DEFINE r == Read(2)
<1>1. /\ pc \in {"preambleEnd", "bodyEnd"} /\ UNCHANGED <<request, boffset, out, part, saved>>
      /\ strm' = EndMark(r) /\ boffset = 0
  BY DEF BoundaryEnd, TypeInv
<1>2. r.s \in Stream /\ r.got \in Text
  BY ReadTypes
<1>3. \/ NoBoundary
      \/ /\ pc' = IF pc = "preambleEnd" THEN "next" ELSE "link"
         /\ UNCHANGED <<form, temp>>
  BY DEF BoundaryEnd
<1> HIDE DEF r
<1>4. strm' \in Stream
  BY <1>1, <1>2, PutBackType DEF EndMark
<1>5. CASE NoBoundary
  BY <1>1, <1>4, <1>5, NoBoundaryTypes
<1>6. CASE pc' \in {"next", "link"} /\ UNCHANGED <<form, temp>>
  BY <1>1, <1>4, <1>6 DEF TypeInv
<1> QED
  BY <1>3, <1>5, <1>6

LEMMA NextPartTypes == ASSUME TypeInv, NextPart PROVE TypeInv'
<1> DEFINE r == Read(2)
<1>1. /\ pc = "next" /\ pc' \in {"main", "header"} /\ part' = NoPart /\ out' = <<>>
      /\ UNCHANGED <<request, boffset, form, temp, saved>>
      /\ strm' = r.s \/ strm' = MpPutBack(r.s, r.got)
  BY DEF NextPart, files
<1>2. r.s \in Stream /\ r.got \in Text
  BY ReadTypes
<1> HIDE DEF r
<1>3. strm' \in Stream
  BY <1>1, <1>2, PutBackType
<1> QED
  BY <1>1, <1>3, FreshIs, Nothing DEF TypeInv

\* (readHeaderLine, decomposeValue)
LEMMA HeaderTypes == ASSUME TypeInv, Header PROVE TypeInv'
<1> DEFINE h == HeaderLine(strm, request.input, request.declared)
           d == Decompose(h.value)
           p == [part EXCEPT !.value = d.main, !.name = d.args.name, !.fileName = d.args.fileName]
           q == [part EXCEPT !.type = d.main]
<1>1. /\ pc = "header" /\ pc' \in {"header", "crashed", "open", "next"} /\ strm' = h.s
      /\ UNCHANGED <<request, boffset, out, form, temp, saved>>
      /\ part' = part \/ part' = p \/ part' = q
  <2>1. pc = "header"
    BY DEF Header
  <2> QED
    BY <2>1 DEF Header, files
<1>2. h.s \in Stream /\ h.value \in Text
  <2>1. strm \in Stream
    BY DEF TypeInv
  <2> QED
    BY <2>1, RequestIs, HeaderLineType
<1> HIDE DEF h
<1>3. d.main \in Text /\ d.args \in Parameters
  BY <1>2, DecomposeType
<1> HIDE DEF d
<1>4. part' \in Parts
  <2>1. part \in Parts
    BY DEF TypeInv
  <2>2. p \in Parts /\ q \in Parts
    BY <1>3, <2>1 DEF Parts, Parameters
  <2> HIDE DEF p, q
  <2> QED
    BY <1>1, <2>1, <2>2
<1>5. boffset = 0
  BY <1>1 DEF TypeInv
<1> QED
  BY <1>1, <1>2, <1>4, <1>5 DEF TypeInv

\* (getTempFileName)
LEMMA OpenBodyTypes == ASSUME TypeInv, TempInv, OpenBody PROVE TypeInv'
<1> DEFINE id == NewTempFile
<1>1. /\ pc = "open" /\ UNCHANGED <<request, strm, boffset, out, saved>> /\ boffset = 0
      /\ part \in Parts
  BY DEF OpenBody, TypeInv
<1>2. id \in Nat
  <2>1. IsFiniteSet(DOMAIN temp)
    BY <1>1 DEF TempInv, ListInv, Parsing
  <2> QED
    BY <2>1, NewFile
<1>3. \/ pc' = "body" /\ part' = part /\ UNCHANGED <<form, temp>>
      \/ /\ pc' = "body" /\ temp' = With(temp, id, <<>>) /\ form' = form
         /\ \/ part' = [part EXCEPT !.tfile = id, !.outf = TRUE]
            \/ part' = [part EXCEPT !.tfile = id]
      \/ GiveUp({}) /\ part' = part
  BY DEF OpenBody
<1>4. 0 < Len(WorkingBoundary')
  BY BoundaryIs DEF WorkingBoundary
<1> HIDE DEF id
<1>5. CASE pc' = "body" /\ part' = part /\ UNCHANGED <<form, temp>>
  BY <1>1, <1>4, <1>5 DEF TypeInv
<1>6. CASE /\ pc' = "body" /\ temp' = With(temp, id, <<>>) /\ form' = form
           /\ \/ part' = [part EXCEPT !.tfile = id, !.outf = TRUE]
              \/ part' = [part EXCEPT !.tfile = id]
  <2>1. part' \in Parts
    BY <1>1, <1>2, <1>6 DEF Parts
  <2>2. \A t \in DOMAIN temp' : temp'[t] \in Text
    BY <1>6, FilesAre, Nothing DEF TypeInv
  <2> QED
    BY <1>1, <1>4, <1>6, <2>1, <2>2 DEF TypeInv
<1>7. CASE GiveUp({}) /\ part' = part
  BY <1>1, <1>7, GaveUp DEF TypeInv
<1> QED
  BY <1>3, <1>5, <1>6, <1>7

\* An entry is in the list, alive unless an allocation has failed.
LEMMA LinkTypes == ASSUME TypeInv, Link PROVE TypeInv'
<1> DEFINE e == PartEntry
           gone == [e EXCEPT !.live = FALSE]
<1>1. /\ pc = "link" /\ UNCHANGED <<request, strm, boffset, out, part, saved>>
      /\ boffset = 0 /\ part \in Parts /\ out \in Text /\ form \in Seq(Entries)
      /\ \A i \in DOMAIN form : form[i].live
  BY DEF Link, parsing, TypeInv
<1>2. e \in Entries /\ e.live
  <2> DEFINE value == IF part.outf THEN <<>> ELSE out
             n == Len(out)
  <2>1. value \in Text /\ n \in Nat
    BY <1>1, Nothing, TextIs
  <2>2. e = [attr |-> part.name, value |-> value, length |-> n, fileName |-> part.fileName,
             contentType |-> part.type, tfile |-> part.tfile, live |-> TRUE]
    BY DEF PartEntry, FormEntry
  <2> HIDE DEF e, value, n
  <2> QED
    BY <1>1, <2>1, <2>2 DEF Parts, Entries
<1>3. \/ /\ form' = Append(form, e) /\ pc' = "next"
         /\ \/ temp' = temp \/ temp' = With(temp, part.tfile, out)
            \/ \E n \in 0 .. Len(out) - 1 : temp' = With(temp, part.tfile, SubSeq(out, 1, n))
      \/ GiveUp(Unfinished)
      \/ form' = Append(form, gone) /\ temp' = Without(temp, Unfinished) /\ pc' = "return"
  BY DEF Link
<1> HIDE DEF e
<1>4. gone \in Entries
  BY <1>2 DEF Entries
<1> HIDE DEF gone
<1>5. CASE /\ form' = Append(form, e) /\ pc' = "next"
           /\ \/ temp' = temp \/ temp' = With(temp, part.tfile, out)
            \/ \E n \in 0 .. Len(out) - 1 : temp' = With(temp, part.tfile, SubSeq(out, 1, n))
  <2>1. /\ form' \in Seq(Entries) /\ DOMAIN form' = 1 .. Len(form) + 1 /\ Len(form) \in Nat
        /\ form'[Len(form) + 1] = e
        /\ \A i \in 1 .. Len(form) : form'[i] = form[i]
    BY <1>1, <1>2, <1>5, AppendProperties, LenProperties
  <2>2. \A i \in DOMAIN form' : form'[i].live
    <3> TAKE i \in DOMAIN form'
    <3>1. i = Len(form) + 1 \/ i \in 1 .. Len(form)
      BY <2>1
    <3>2. DOMAIN form = 1 .. Len(form)
      BY <1>1, LenProperties
    <3> QED
      BY <1>1, <1>2, <2>1, <3>1, <3>2
  <2>3. \A t \in DOMAIN temp' : temp'[t] \in Text
    <3>1. \A n \in 0 .. Len(out) - 1 : SubSeq(out, 1, n) \in Text
      BY <1>1, FirstText
    <3> QED
      BY <1>1, <1>5, <3>1, FilesAre DEF TypeInv
  <2> QED
    BY <1>1, <1>5, <2>1, <2>2, <2>3 DEF TypeInv
<1>6. CASE GiveUp(Unfinished)
  BY <1>1, <1>6, GaveUp DEF TypeInv
<1>7. CASE form' = Append(form, gone) /\ temp' = Without(temp, Unfinished) /\ pc' = "return"
  <2>1. form' \in Seq(Entries)
    BY <1>1, <1>4, <1>7, AppendProperties
  <2>2. \A t \in DOMAIN temp' : temp'[t] \in Text
    BY <1>7, FilesAre, Nothing DEF TypeInv
  <2> QED
    BY <1>1, <1>7, <2>1, <2>2 DEF TypeInv
<1> QED
  BY <1>3, <1>5, <1>6, <1>7

\* Everything that is in the list when the script runs can be saved.
LEMMA AllThere ==
  ASSUME TypeInv, TempInv, pc = "main"
  PROVE  FilesThere
<1> SUFFICES ASSUME NEW i \in DOMAIN form, form[i].tfile > 0
             PROVE  temp[form[i].tfile] \in Text
  BY DEF FilesThere
<1>1. form[i].live
  BY DEF TypeInv
<1>2. form[i].tfile \in DOMAIN temp
  BY <1>1 DEF TempInv, EntriesInv
<1> QED
  BY <1>2 DEF TypeInv

\* The file that is written is one of ints and chars. (cgiWriteEnvironment)
LEMMA WriteEntryType ==
  ASSUME form \in Seq(Entries), FilesThere, NEW i \in DOMAIN form, NEW unopened
  PROVE  WriteEntry(i, unopened) \in Saved
<1> DEFINE e == form[i]
           S == {k \in DOMAIN form : form[k].attr = form[i].attr}
           j == Min(S)
           file == FileOf(i)
           flagged == IF file > 0 /\ i # unopened THEN <<OneInt(1)>> \o Chars(temp[file])
                      ELSE <<OneInt(0)>>
           a == WriteString(e.attr)
           b == WriteString(CString(e.value))
           c == WriteString(e.fileName)
           d == WriteString(e.contentType)
           l == <<OneInt(e.length)>>
<1>1. /\ e.attr \in Text /\ e.value \in Text /\ e.length \in Nat /\ e.fileName \in Text
      /\ e.contentType \in Text
  <2>1. e \in Entries
    BY Elements
  <2> HIDE DEF e
  <2> QED
    BY <2>1 DEF Entries
<1>2. file > 0 => temp[file] \in Text
  <2>1. i \in S /\ S \in SUBSET Nat
    BY Elements
  <2>2. j \in DOMAIN form
    <3>1. j \in S
      BY <2>1, MinIs
    <3> HIDE DEF j
    <3> QED
      BY <3>1
  <2>3. file = form[j].tfile
    BY DEF FileOf
  <2> HIDE DEF j, file
  <2> QED
    BY <2>2, <2>3 DEF FilesThere
<1>3. WriteEntry(i, unopened) = a \o b \o c \o d \o l \o flagged
  BY DEF WriteEntry
<1> HIDE DEF e, file
<1>4. flagged \in Saved
  <2>1. <<OneInt(0)>> \in Saved /\ <<OneInt(1)>> \in Saved
    BY IntIs
  <2>2. file > 0 => <<OneInt(1)>> \o Chars(temp[file]) \in Saved
    BY <1>2, <2>1, CharsAre, ConcatSaved
  <2> QED
    BY <2>1, <2>2
<1>5. a \in Saved /\ b \in Saved /\ c \in Saved /\ d \in Saved /\ l \in Saved
  BY <1>1, CStringIs, StringIs, IntIs
<1> HIDE DEF a, b, c, d, l, flagged
<1>6. a \o b \o c \o d \o l \o flagged \in Saved
  BY <1>4, <1>5, Larger
<1> QED
  BY <1>3, <1>6

\* The file is one of ints and chars, and there is something in it.
LEMMA EnvironmentType ==
  ASSUME TypeInv, FilesThere, NEW strings \in [DOMAIN Env -> Text], NEW unopened
  PROVE  /\ Environment(strings, unopened) \in Saved /\ Environment(strings, unopened) # Absent
         /\ Len(Environment(strings, unopened)) \in Nat
<1> DEFINE v == WriteString(Version)
           we == [i \in DOMAIN Env |-> WriteString(strings[i])]
           one == <<OneInt(request.declared)>>
           w == [i \in DOMAIN form |-> WriteEntry(i, unopened)]
           a == FlattenSeq(we)
           b == FlattenSeq(w)
           n == Len(form)
           m == Len(Env)
<1>1. form \in Seq(Entries) /\ n \in Nat /\ DOMAIN form = 1 .. n
  BY Elements DEF TypeInv
<1>2. m \in Nat /\ DOMAIN Env = 1 .. m /\ \A i \in 1 .. m : strings[i] \in Text
  BY CgicAssumption, LenProperties
<1>3. we \in [1 .. m -> Saved]
  BY <1>2, StringIs
<1>4. w \in [1 .. n -> Saved]
  BY <1>1, WriteEntryType
<1>5. we \in Seq(Saved) /\ w \in Seq(Saved)
  <2> HIDE DEF we, w, n, m
  <2> QED
    BY <1>1, <1>2, <1>3, <1>4, SeqDef
<1>6. v \in Saved /\ one \in Saved
  BY RequestIs, VersionIs, StringIs, IntIs
<1>7. a \in Saved /\ b \in Saved
  <2> HIDE DEF we, w
  <2> QED
    BY <1>5, FlattenIs
<1>8. Environment(strings, unopened) = v \o a \o one \o b
  BY DEF Environment
<1> HIDE DEF v, a, one, b
<1> DEFINE va == v \o a
           vo == va \o one
           f == vo \o b
<1>9. va \in Saved /\ Len(va) = Len(v) + Len(a) /\ Len(a) \in Nat
  BY <1>6, <1>7, ConcatSaved
<1> HIDE DEF va
<1>10. vo \in Saved /\ Len(vo) = Len(va) + Len(one) /\ Len(one) \in Nat
  BY <1>6, <1>9, ConcatSaved
<1> HIDE DEF vo
<1>11. f \in Saved /\ Len(f) = Len(vo) + Len(b) /\ Len(b) \in Nat
  BY <1>7, <1>10, ConcatSaved
<1> HIDE DEF f
<1>12. Len(v) \in Nat /\ Len(v) > 0
  <2>1. Len(v) = 1 + Len(Version) /\ Len(Version) \in Nat
    BY VersionIs, StringIs DEF v
  <2> QED
    BY <2>1
<1>13. Len(f) > 0
  BY <1>9, <1>10, <1>11, <1>12
<1>14. f # <<>>
  BY <1>13, Nothing
<1>15. Len(f) \in Nat
  BY <1>11, LenProperties DEF Saved
<1> QED
  BY <1>8, <1>11, <1>14, <1>15 DEF f, vo, va, Absent

\* The strings of a script are texts, those included that are freed. (cgiFreeResources)
LEMMA StringsAre ==
  ASSUME EnvInv
  PROVE  /\ \A s \in Strings : s \in [DOMAIN Env -> Text]
         /\ FreeStrings \in [strings : [DOMAIN Env -> Text], wild : SUBSET DOMAIN Env,
                             restored : BOOLEAN]
<1> DEFINE e == env
<1>1. /\ e.strings \in [DOMAIN Env -> Text] /\ e.wild \in SUBSET DOMAIN Env
      /\ e = [strings |-> e.strings, wild |-> e.wild, restored |-> e.restored]
  BY DEF EnvInv
<1>2. ASSUME NEW s \in Strings PROVE s \in [DOMAIN Env -> Text]
  <2>1. /\ s = [i \in DOMAIN Env |-> s[i]]
        /\ \A i \in DOMAIN Env : s[i] \in Garbage \/ s[i] = e.strings[i]
    BY DEF Strings
  <2>2. \A i \in DOMAIN Env : s[i] \in Text
    BY <1>1, <2>1, CgicAssumption
  <2> QED
    BY <2>1, <2>2
<1>3. e.wild \cup (DOMAIN Env \ {Len(Env)}) \in SUBSET DOMAIN Env
  BY <1>1
<1> DEFINE type == [strings : [DOMAIN Env -> Text], wild : SUBSET DOMAIN Env, restored : BOOLEAN]
<1>4. CASE e.restored
  <2> DEFINE wild == e.wild \cup (DOMAIN Env \ {Len(Env)})
  <2>1. FreeStrings = [env EXCEPT !.wild = wild, !.restored = FALSE]
    BY <1>4 DEF FreeStrings
  <2>2. wild \in SUBSET DOMAIN Env /\ env \in type
    BY <1>3 DEF EnvInv
  <2> HIDE DEF wild
  <2>3. FreeStrings \in type
    BY <2>1, <2>2
  <2> QED
    BY <1>2, <2>3
<1>5. CASE ~ e.restored
  <2>1. FreeStrings = env
    BY <1>5 DEF FreeStrings
  <2>2. FreeStrings \in type
    BY <2>1 DEF EnvInv
  <2> QED
    BY <1>2, <2>2
<1> QED
  BY <1>4, <1>5

\* What is written to the file: all of it, with the file of an entry that could be
\* opened or without, or the first part.
WrittenSo(strings, unopened, whole) ==
  /\ strings \in Strings
  /\ Part(saved', Environment(strings, unopened), whole)
  /\ kept'.view = FormView /\ kept'.strings = strings
  /\ unopened = 0 \/ fault' \in {"alloc", "open"}
  /\ kept'.whole /\ fault' # "disk" => whole
  /\ kept'.whole /\ saved' = Absent => fault' # "none"
LEMMA WriteCases ==
  ASSUME TypeInv, EnvInv, TempInv, WriteEnvironment
  PROVE  /\ pc = "main" /\ FilesThere
         /\ \/ \E strings, unopened, whole : WrittenSo(strings, unopened, whole)
            \/ saved' = Absent /\ kept' = kept /\ fault' = "disk"
            \/ saved' = saved /\ kept' = kept /\ fault = "none" /\ fault' = "open"
<1> DEFINE Told(strings, whole) ==
             kept' = [view |-> FormView, strings |-> strings, whole |-> whole]
<1>1. pc = "main" /\ FilesThere
  <2>1. pc = "main"
    BY DEF WriteEnvironment
  <2> QED
    BY <2>1, AllThere
<1>2. ASSUME NEW strings \in Strings, NEW unopened
      PROVE  LET E == Environment(strings, unopened)
             IN  /\ E # Absent /\ Part(E, E, TRUE)
                 /\ \A n \in 0 .. Len(E) - 1 : Part(SubSeq(E, 1, n), E, FALSE)
                 /\ \A n \in 1 .. Len(E) - 1 : n \in 0 .. Len(E) - 1
                                              /\ SubSeq(E, 1, n) # Absent
  <2> DEFINE E == Environment(strings, unopened)
  <2>1. E \in Saved /\ E # Absent /\ Len(E) \in Nat
    BY <1>1, StringsAre, EnvironmentType
  <2> HIDE DEF E
  <2>2. E \in Seq(Item) /\ Saved = Seq(Item)
    BY <2>1 DEF Saved, Item
  <2>3. Part(E, E, TRUE)
    BY <2>1, <2>2 DEF Part, Cut
  <2>4. ASSUME NEW n \in 0 .. Len(E) - 1
        PROVE  Part(SubSeq(E, 1, n), E, FALSE) /\ Len(SubSeq(E, 1, n)) = n
    <3> DEFINE f == SubSeq(E, 1, n)
    <3>1. n \in 0 .. Len(E)
      BY <2>1
    <3>2. f \in Saved /\ Len(f) = n /\ \A i \in 1 .. n : f[i] = E[i]
      BY <2>2, <3>1, FirstIs
    <3> HIDE DEF f
    <3>3. Part(f, E, FALSE)
      BY <2>1, <3>1, <3>2 DEF Part, Cut
    <3> QED
      BY <3>2, <3>3 DEF f
  <2>5. ASSUME NEW n \in 1 .. Len(E) - 1
        PROVE  n \in 0 .. Len(E) - 1 /\ SubSeq(E, 1, n) # Absent
    <3>1. n \in 0 .. Len(E) - 1 /\ n # 0
      BY <2>1
    <3>2. Len(SubSeq(E, 1, n)) # 0
      BY <2>4, <3>1
    <3> QED
      BY <3>1, <3>2, Nothing DEF Absent
  <2> QED
    BY <2>1, <2>3, <2>4, <2>5 DEF E
<1>3. \/ \E strings \in Strings :
           \/ saved' = Environment(strings, 0) /\ Told(strings, TRUE)
           \/ \E i : saved' = Environment(strings, i) /\ Told(strings, TRUE)
                     /\ fault' \in {"alloc", "open"}
           \/ \E n \in 0 .. Len(Environment(strings, 0)) - 1 :
                saved' = SubSeq(Environment(strings, 0), 1, n) /\ Told(strings, TRUE)
                /\ fault' = "disk"
           \/ \E n \in 1 .. Len(Environment(strings, 0)) - 1 :
                saved' = SubSeq(Environment(strings, 0), 1, n) /\ Told(strings, FALSE)
      \/ saved' = Absent /\ kept' = kept /\ fault' = "disk"
      \/ saved' = saved /\ kept' = kept /\ fault = "none" /\ fault' = "open"
  BY DEF WriteEnvironment, Fails
<1>4. ASSUME NEW strings, NEW whole, Told(strings, whole)
      PROVE  kept'.view = FormView /\ kept'.strings = strings /\ kept'.whole = whole
  BY <1>4
<1> HIDE DEF Told
<1>5. ASSUME NEW strings \in Strings, saved' = Environment(strings, 0), Told(strings, TRUE)
      PROVE  WrittenSo(strings, 0, TRUE)
  BY <1>2, <1>4, <1>5 DEF WrittenSo
<1>6. ASSUME NEW strings \in Strings, NEW i, saved' = Environment(strings, i),
             Told(strings, TRUE), fault' \in {"alloc", "open"}
      PROVE  WrittenSo(strings, i, TRUE)
  BY <1>2, <1>4, <1>6 DEF WrittenSo
<1>7. ASSUME NEW strings \in Strings, NEW n \in 0 .. Len(Environment(strings, 0)) - 1,
             saved' = SubSeq(Environment(strings, 0), 1, n), Told(strings, TRUE), fault' = "disk"
      PROVE  WrittenSo(strings, 0, FALSE)
  BY <1>2, <1>4, <1>7 DEF WrittenSo
<1>8. ASSUME NEW strings \in Strings, NEW n \in 1 .. Len(Environment(strings, 0)) - 1,
             saved' = SubSeq(Environment(strings, 0), 1, n), Told(strings, FALSE)
      PROVE  WrittenSo(strings, 0, FALSE)
  BY <1>2, <1>4, <1>8 DEF WrittenSo
<1> QED
  BY <1>1, <1>3, <1>5, <1>6, <1>7, <1>8

\* (cgiWriteEnvironment)
LEMMA WriteTypes == ASSUME TypeInv, EnvInv, TempInv, WriteEnvironment PROVE TypeInv'
<1>1. /\ pc = "main" /\ pc' \in {"main", "killed"}
      /\ UNCHANGED <<request, strm, boffset, out, part, form, temp>>
  BY DEF WriteEnvironment, parsing
<1>2. saved' \in Saved
  <2>1. \A strings, unopened, whole : WrittenSo(strings, unopened, whole) => saved' \in Saved
    BY DEF WrittenSo, Part, Cut
  <2> QED
    BY <2>1, WriteCases, Nothing DEF TypeInv, Absent
<1> QED
  BY <1>1, <1>2 DEF TypeInv

\* The script sees of them what the file has. (cgiReadEnvironment)
LEMMA BroughtIs ==
  ASSUME NEW list \in Seq(SavedEntries), NEW n \in 0 .. Len(list), NEW base \in Nat,
         NEW old, \A x \in DOMAIN old : old[x] \in Text
  PROVE  LET f == BroughtForm(list, n, base)
             t == BroughtFiles(list, n, base, old)
         IN  /\ f \in Seq(Entries) /\ \A i \in DOMAIN f : f[i].live
             /\ \A x \in DOMAIN t : t[x] \in Text
             /\ [i \in DOMAIN f |-> View(f[i], t)] = Views(SubSeq(list, 1, n))
<1> DEFINE f == BroughtForm(list, n, base)
           t == BroughtFiles(list, n, base, old)
           ids == {base + i : i \in {k \in 1 .. n : list[k].isFile}}
<1>0. /\ f = [i \in 1 .. n |->
                FormEntry(list[i].attr, list[i].value, list[i].length, list[i].fileName,
                          list[i].type, IF list[i].isFile THEN base + i ELSE 0)]
      /\ t = [x \in DOMAIN old \cup ids |-> IF x \in ids THEN list[x - base].text ELSE old[x]]
  BY DEF BroughtForm, BroughtFiles
<1> HIDE DEF f, t
<1>1. n \in Nat /\ Len(list) \in Nat /\ \A i \in 1 .. n : i \in 1 .. Len(list)
  BY LenProperties
<1>2. \A i \in 1 .. n : list[i] \in SavedEntries
  BY <1>1, ElementOfSeq
<1> DEFINE id(i) == IF list[i].isFile THEN base + i ELSE 0
<1>3. ASSUME NEW i \in 1 .. n
      PROVE  /\ f[i] \in Entries /\ f[i].live
             /\ View(f[i], t) = SavedView(list[i])
             /\ list[i].text \in Text
  <2> DEFINE e == list[i]
             tfile == id(i)
             g == f[i]
             file == tfile > 0
             content == IF file THEN t[tfile] ELSE CString(e.value)
  <2>1. /\ e.attr \in Text /\ e.value \in Text /\ e.length \in Nat /\ e.fileName \in Text
        /\ e.type \in Text /\ e.isFile \in BOOLEAN /\ e.text \in Text
    <3>1. e \in SavedEntries
      BY <1>2
    <3> HIDE DEF e
    <3> QED
      BY <3>1 DEF SavedEntries
  <2>2. tfile \in Nat /\ (e.isFile => tfile = base + i) /\ (~ e.isFile => tfile = 0)
        /\ (file <=> e.isFile)
    BY <1>1, <2>1
  <2>3. e.isFile => t[tfile] = e.text
    <3>1. ASSUME e.isFile PROVE t[tfile] = e.text
      <4>1. tfile = base + i /\ tfile \in ids
        BY <2>2, <3>1
      <4>2. tfile - base = i
        BY <1>1, <4>1
      <4>3. t[tfile] = list[tfile - base].text
        BY <1>0, <4>1
      <4> QED
        BY <4>2, <4>3
    <3> QED
      BY <3>1
  <2>4. g = [attr |-> e.attr, value |-> e.value, length |-> e.length, fileName |-> e.fileName,
             contentType |-> e.type, tfile |-> tfile, live |-> TRUE]
    BY <1>0 DEF FormEntry
  <2>5. View(g, t) = [attr |-> e.attr, fileName |-> e.fileName, type |-> e.type,
                      length |-> e.length, isFile |-> file, content |-> content]
    BY <2>4 DEF View
  <2> DEFINE shown == IF e.isFile THEN e.text ELSE CString(e.value)
  <2>6. SavedView(e) = [attr |-> e.attr, fileName |-> e.fileName, type |-> e.type,
                        length |-> e.length, isFile |-> e.isFile, content |-> shown]
    BY DEF SavedView
  <2>7. content = shown
    BY <2>2, <2>3
  <2>8. file = e.isFile
    <3> DEFINE x == e.isFile
    <3>1. x \in BOOLEAN /\ (file <=> x) /\ file \in BOOLEAN
      BY <2>1, <2>2
    <3> HIDE DEF x, file
    <3>2. x = file
      <4>1. CASE x = TRUE
        BY <3>1, <4>1, Zenon
      <4>2. CASE x = FALSE
        BY <3>1, <4>2, Zenon
      <4> QED
        BY <3>1, <4>1, <4>2
    <3> QED
      BY <3>2 DEF x
  <2> HIDE DEF e, g, tfile, file, content, shown
  <2>9. g \in Entries /\ g.live
    BY <2>1, <2>2, <2>4 DEF Entries
  <2>10. View(g, t) = SavedView(e)
    BY <2>5, <2>6, <2>7, <2>8
  <2> QED
    BY <2>1, <2>9, <2>10 DEF g, e
<1>4. DOMAIN f = 1 .. n
  BY <1>0
<1>5. f \in [1 .. n -> Entries]
  BY <1>0, <1>3
<1>6. f \in Seq(Entries)
  <2> HIDE DEF id
  <2> QED
    BY <1>1, <1>5, SeqDef
<1>7. \A x \in DOMAIN t : t[x] \in Text
  <2> TAKE x \in DOMAIN t
  <2>1. CASE x \in ids
    <3>1. PICK i \in 1 .. n : x = base + i
      BY <2>1
    <3>2. x - base = i
      BY <1>1, <3>1
    <3>3. t[x] = list[i].text
      BY <1>0, <2>1, <3>2
    <3> QED
      BY <1>3, <3>3
  <2>2. CASE x \notin ids
    BY <1>0, <2>2
  <2> QED
    BY <2>1, <2>2
<1>8. [i \in DOMAIN f |-> View(f[i], t)] = Views(SubSeq(list, 1, n))
  <2> DEFINE s == SubSeq(list, 1, n)
  <2>1. Len(s) = n /\ \A i \in 1 .. n : s[i] = list[i]
    BY FirstIs
  <2> HIDE DEF s
  <2>2. Views(s) = [i \in 1 .. n |-> SavedView(list[i])]
    BY <2>1 DEF Views
  <2>3. [i \in DOMAIN f |-> View(f[i], t)] = [i \in 1 .. n |-> SavedView(list[i])]
    BY <1>3, <1>4
  <2> QED
    BY <2>2, <2>3 DEF s
<1> QED
  BY <1>3, <1>4, <1>6, <1>7, <1>8 DEF f, t

\* They hold text, and it is a number.
LEMMA BaseIs ==
  ASSUME TypeInv, TempInv
  PROVE  Base \in Nat /\ \A t \in DOMAIN Old : Old[t] \in Text
<1>1. Lost \in SUBSET (Nat \ {0}) /\ \A x, y \in Lost : x = y
  BY DEF TempInv, LostInv, Lost
<1>2. Base \in Nat
  BY <1>1, Above DEF Base, Lost, Owned
<1>3. \A t \in DOMAIN Old : Old[t] \in Text
  BY FilesAre, Nothing DEF TypeInv, Old
<1> QED
  BY <1>2, <1>3

\* What is restored, the form as the script sees it included.
LEMMA RestoreBrings ==
  ASSUME TypeInv, TempInv, NEW list \in Seq(SavedEntries), NEW n \in 0 .. Len(list),
         Brought(list, n)
  PROVE  /\ form' \in Seq(Entries) /\ \A i \in DOMAIN form' : form'[i].live
         /\ \A t \in DOMAIN temp' : temp'[t] \in Text
         /\ FormView' = Views(SubSeq(list, 1, n))
<1> DEFINE b == Base
           o == Old
           f == BroughtForm(list, n, b)
           t == BroughtFiles(list, n, b, o)
<1>1. b \in Nat /\ \A x \in DOMAIN o : o[x] \in Text
  BY BaseIs
<1>2. form' = f /\ temp' = t
  BY DEF Brought
<1>3. FormView' = [i \in DOMAIN f |-> View(f[i], t)]
  BY <1>2 DEF FormView
<1> HIDE DEF b, o
<1>5. /\ f \in Seq(Entries) /\ \A i \in DOMAIN f : f[i].live
      /\ \A x \in DOMAIN t : t[x] \in Text
      /\ [i \in DOMAIN f |-> View(f[i], t)] = Views(SubSeq(list, 1, n))
  BY <1>1, BroughtIs
<1> QED
  BY <1>2, <1>3, <1>5

\* The list with one file cut is a list, and shows but the end of that file less.
LEMMA CutShortIs ==
  ASSUME NEW l \in Seq(SavedEntries), NEW i \in DOMAIN l, l[i].isFile,
         NEW n \in 0 .. Len(l[i].text) - 1
  PROVE  LET c == CutShort(l, i, n)
         IN  /\ c \in Seq(SavedEntries) /\ Len(c) = Len(l)
             /\ \A j \in 1 .. Len(l) : j # i => Views(c)[j] = Views(l)[j]
             /\ LET x == Views(c)[i]
                    y == Views(l)[i]
                IN  y.isFile /\ IsPrefix(x.content, y.content)
                    /\ x = [y EXCEPT !.content = x.content]
<1> DEFINE e == l[i]
           first == SubSeq(e.text, 1, n)
           g == [e EXCEPT !.text = first]
           c == CutShort(l, i, n)
           m == Len(l)
<1>1. m \in Nat /\ DOMAIN l = 1 .. m /\ \A j \in 1 .. m : l[j] \in SavedEntries
  BY LenProperties, ElementOfSeq
<1>2. /\ e \in SavedEntries /\ e.isFile
      /\ e.attr \in Text /\ e.value \in Text /\ e.length \in Nat /\ e.fileName \in Text
      /\ e.type \in Text /\ e.text \in Text
  <2>1. e \in SavedEntries
    BY <1>1
  <2> HIDE DEF e
  <2> QED
    BY <2>1 DEF SavedEntries, e
<1>3. first \in Text /\ IsPrefix(first, e.text)
  <2> DEFINE s == e.text
  <2>1. s \in Seq(Nat) /\ Len(s) \in Nat /\ n \in 0 .. Len(s) - 1
    BY <1>2, LenProperties DEF Text
  <2> HIDE DEF s
  <2>2. n \in 0 .. Len(s)
    BY <2>1
  <2>3. SubSeq(s, 1, n) \in Seq(Nat) /\ IsPrefix(SubSeq(s, 1, n), s)
    BY <2>1, <2>2, FirstIs, FirstPrefix
  <2> QED
    BY <2>3 DEF s, Text
<1> HIDE DEF first
<1>4. /\ g \in SavedEntries /\ g.isFile = e.isFile /\ g.text = first
      /\ g.attr = e.attr /\ g.value = e.value /\ g.length = e.length
      /\ g.fileName = e.fileName /\ g.type = e.type
  <2> HIDE DEF e
  <2> QED
    BY <1>2, <1>3 DEF SavedEntries
<1>5. c = [j \in 1 .. m |-> IF j = i THEN g ELSE l[j]]
  BY <1>1 DEF CutShort, first
<1> HIDE DEF c, g
<1>6. c \in [1 .. m -> SavedEntries]
  BY <1>1, <1>4, <1>5
<1>7. c \in Seq(SavedEntries) /\ Len(c) = m
  <2> HIDE DEF m
  <2>1. c \in Seq(SavedEntries)
    BY <1>1, <1>6, SeqDef
  <2> QED
    BY <1>1, <1>6, <2>1, LenProperties
<1>8. /\ \A j \in 1 .. m : Views(c)[j] = SavedView(c[j])
      /\ \A j \in 1 .. m : Views(l)[j] = SavedView(l[j])
  BY <1>7 DEF Views
<1>9. \A j \in 1 .. m : j # i => Views(c)[j] = Views(l)[j]
  BY <1>5, <1>8
<1>10. /\ SavedView(g) = [attr |-> e.attr, fileName |-> e.fileName, type |-> e.type,
                          length |-> e.length, isFile |-> e.isFile, content |-> first]
       /\ SavedView(e) = [attr |-> e.attr, fileName |-> e.fileName, type |-> e.type,
                          length |-> e.length, isFile |-> e.isFile, content |-> e.text]
  <2>1. g.isFile
    BY <1>2, <1>4
  <2> HIDE DEF e
  <2> QED
    BY <1>2, <1>4, <2>1 DEF SavedView
<1>11. Views(c)[i] = SavedView(g) /\ Views(l)[i] = SavedView(e)
  BY <1>1, <1>5, <1>8
<1> DEFINE x == SavedView(g)
           y == SavedView(e)
<1>12. y.isFile /\ IsPrefix(x.content, y.content) /\ x = [y EXCEPT !.content = x.content]
  <2> DEFINE With1(f, w) == [attr |-> e.attr, fileName |-> e.fileName, type |-> e.type,
                            length |-> e.length, isFile |-> f, content |-> w]
             Shows(w) == With1(e.isFile, w)
  <2>1. x = Shows(first) /\ y = Shows(e.text)
    BY <1>10
  <2>2. ASSUME NEW f, NEW u, NEW v
        PROVE  /\ With1(f, u).content = u /\ With1(f, u).isFile = f
               /\ With1(f, u) = [With1(f, v) EXCEPT !.content = u]
    <3> HIDE DEF e
    <3> QED
      OBVIOUS
  <2> HIDE DEF e, With1
  <2>3. x.content = first /\ y.content = e.text /\ x = [y EXCEPT !.content = first]
    BY <2>1, <2>2
  <2>4. y.isFile
    <3>1. ASSUME NEW d, d.isFile PROVE SavedView(d).isFile
      BY <3>1 DEF SavedView
    <3> QED
      BY <1>2, <3>1
  <2> QED
    BY <1>3, <2>3, <2>4
<1> HIDE DEF x, y
<1> QED
  BY <1>7, <1>9, <1>11, <1>12 DEF x, y, c, m

\* Each outcome leaves what a list of entries gives, or an empty form.
LEMMA ReadGives ==
  ASSUME TypeInv, TempInv, ReadEnvironment
  PROVE  \/ \E list \in Seq(SavedEntries) : \E n \in 0 .. Len(list) :
              Brought(list, n) /\ Restored(saved).ok
         \/ \E n \in 0 .. Len(Restored(saved).strings) :
              \/ Refusing(n, Old)
              \/ Refusing(n, With(Old, Base + 1, <<>>))
<1> DEFINE l == Restored(saved).list
           s == Restored(saved).strings
           good == Restored(saved).ok
<1>1. l \in Seq(SavedEntries) /\ s \in Seq(Text)
  BY RestoredType DEF TypeInv
<1> HIDE DEF l, s, good
<1>2. /\ Len(l) \in Nat /\ Len(l) \in 0 .. Len(l) /\ 0 \in 0 .. Len(s) /\ Len(s) \in 0 .. Len(s)
      /\ \A n \in 0 .. Len(l) - 1 : n \in 0 .. Len(l)
  <2>1. Len(l) \in Nat /\ Len(s) \in Nat
    BY <1>1, LenProperties
  <2> QED
    BY <2>1
<1>3. \/ good /\ Brought(l, Len(l))
      \/ good /\ \E n \in 0 .. Len(l) - 1 : Brought(l, n)
      \/ good /\ \E i \in DOMAIN l : l[i].isFile
               /\ \E n \in 0 .. Len(l[i].text) - 1 : Brought(CutShort(l, i, n), Len(l))
      \/ \E n \in {0, Len(s)} \cup 0 .. Len(s) :
           Refusing(n, Old) \/ Refusing(n, With(Old, Base + 1, <<>>))
  BY ReadCases DEF l, s, good
<1>4. CASE good /\ \E i \in DOMAIN l : l[i].isFile
             /\ \E n \in 0 .. Len(l[i].text) - 1 : Brought(CutShort(l, i, n), Len(l))
  <2>1. PICK i \in DOMAIN l : l[i].isFile
             /\ \E n \in 0 .. Len(l[i].text) - 1 : Brought(CutShort(l, i, n), Len(l))
    BY <1>4
  <2>2. PICK n \in 0 .. Len(l[i].text) - 1 : Brought(CutShort(l, i, n), Len(l))
    BY <2>1
  <2> DEFINE c == CutShort(l, i, n)
  <2>3. c \in Seq(SavedEntries) /\ Len(c) = Len(l)
    BY <1>1, <2>1, CutShortIs
  <2> HIDE DEF c
  <2>4. Len(l) \in 0 .. Len(c) /\ Brought(c, Len(l))
    BY <1>2, <2>2, <2>3 DEF c
  <2> QED
    BY <1>4, <2>3, <2>4 DEF good
<1>5. CASE good /\ Brought(l, Len(l))
  BY <1>1, <1>2, <1>5 DEF good
<1>6. CASE good /\ \E n \in 0 .. Len(l) - 1 : Brought(l, n)
  BY <1>1, <1>2, <1>6 DEF good
<1>7. CASE \E n \in {0, Len(s)} \cup 0 .. Len(s) :
             Refusing(n, Old) \/ Refusing(n, With(Old, Base + 1, <<>>))
  BY <1>2, <1>7 DEF s
<1> QED
  BY <1>3, <1>4, <1>5, <1>6, <1>7

\* (cgiReadEnvironment)
LEMMA ReadEnvironmentTypes ==
  ASSUME TypeInv, EnvInv, TempInv, ReadEnvironment
  PROVE  TypeInv' /\ EnvInv'
<1> DEFINE r == Restored(saved)
           s == r.strings
           type == [strings : [DOMAIN Env -> Text], wild : SUBSET DOMAIN Env, restored : BOOLEAN]
<1>1. pc = "main" /\ UNCHANGED <<request, pc, strm, boffset, out, part, saved, kept>>
  BY ReadCases
<1>2. /\ s \in Seq(Text) /\ Len(s) \in Nat
      /\ r.ok => Len(s) = 1 + Len(Env)
      /\ Len(Env) \in Nat /\ DOMAIN Env = 1 .. Len(Env)
  <2>1. s \in Seq(Text) /\ (r.ok => Len(s) = 1 + Len(Env))
    BY RestoredType DEF TypeInv
  <2>2. Len(Env) \in Nat /\ DOMAIN Env = 1 .. Len(Env)
    BY CgicAssumption, LenProperties
  <2> HIDE DEF s
  <2> QED
    BY <2>1, <2>2, LenProperties
<1>3. \A i \in 1 .. Len(s) : s[i] \in Text
  <2> HIDE DEF s
  <2> QED
    BY <1>2, ElementOfSeq
<1>4. CASE \E list \in Seq(SavedEntries) : \E n \in 0 .. Len(list) : Brought(list, n) /\ r.ok
  <2>0. PICK list \in Seq(SavedEntries) : \E n \in 0 .. Len(list) : Brought(list, n) /\ r.ok
    BY <1>4
  <2>1. PICK n \in 0 .. Len(list) : Brought(list, n) /\ r.ok
    BY <2>0
  <2>2. /\ form' \in Seq(Entries) /\ \A i \in DOMAIN form' : form'[i].live
        /\ \A t \in DOMAIN temp' : temp'[t] \in Text
    BY <2>1, RestoreBrings
  <2>3. \A i \in DOMAIN Env : s[i + 1] \in Text
    BY <1>2, <1>3, <2>1
  <2>4. Given(saved) \in [DOMAIN Env -> Text]
    BY <2>3 DEF Given
  <2>5. env' \in type
    <3>1. env' = [strings |-> Given(saved), wild |-> {}, restored |-> TRUE]
      BY <2>1 DEF Brought
    <3> QED
      BY <2>4, <3>1
  <2> QED
    BY <1>1, <2>2, <2>5 DEF TypeInv, EnvInv
<1>5. CASE \E n \in 0 .. Len(s) : Refusing(n, Old) \/ Refusing(n, With(Old, Base + 1, <<>>))
  <2>1. PICK n \in 0 .. Len(s) : Refusing(n, Old) \/ Refusing(n, With(Old, Base + 1, <<>>))
    BY <1>5
  <2>2. form' = <<>> /\ (temp' = Old \/ temp' = With(Old, Base + 1, <<>>))
    BY <2>1 DEF Refusing, Refuse
  <2>3. \A t \in DOMAIN temp' : temp'[t] \in Text
    BY <2>2, BaseIs, FilesAre, Nothing
  <2>4. DOMAIN form' = {} /\ form' \in Seq(Entries)
    BY <2>2, EmptySeq
  <2> DEFINE strings == [i \in DOMAIN Env |-> IF i < n THEN s[i + 1] ELSE env.strings[i]]
             free == FreeStrings
             wild == (free.wild \ 1 .. n) \cup ({n} \cap DOMAIN Env)
  <2>5. env' = [strings |-> strings, wild |-> wild, restored |-> FALSE]
    BY <2>1 DEF Refusing, Refuse
  <2>6. strings \in [DOMAIN Env -> Text]
    <3>1. env.strings \in [DOMAIN Env -> Text]
      BY DEF EnvInv
    <3>2. \A i \in DOMAIN Env : i < n => s[i + 1] \in Text
      BY <1>2, <1>3
    <3> QED
      BY <3>1, <3>2
  <2>7. wild \in SUBSET DOMAIN Env
    <3>1. free.wild \in SUBSET DOMAIN Env
      BY StringsAre
    <3> QED
      BY <3>1
  <2> HIDE DEF strings, wild
  <2>8. env' \in type
    BY <2>5, <2>6, <2>7
  <2> QED
    BY <1>1, <2>3, <2>4, <2>8 DEF TypeInv, EnvInv
<1> QED
  BY <1>4, <1>5, ReadGives

\* (cgiFreeResources)
LEMMA ReturnTypes == ASSUME TypeInv, Return PROVE TypeInv'
<1>1. /\ pc \in {"main", "return"} /\ UNCHANGED <<request, strm, boffset, out, part, saved>>
      /\ \/ pc' = "crashed" /\ UNCHANGED <<form, temp>>
         \/ form' = <<>> /\ temp' = Without(temp, Owned) /\ pc' = "done"
  BY DEF Return, parsing, FreeResources, Owned
<1>2. CASE pc' = "crashed" /\ UNCHANGED <<form, temp>>
  BY <1>1, <1>2 DEF TypeInv
<1>3. CASE form' = <<>> /\ temp' = Without(temp, Owned) /\ pc' = "done"
  <2>1. \A t \in DOMAIN temp' : temp'[t] \in Text
    BY <1>3, FilesAre, Nothing DEF TypeInv
  <2>2. DOMAIN form' = {} /\ form' \in Seq(Entries)
    BY <1>3, EmptySeq
  <2> QED
    BY <1>1, <1>3, <2>1, <2>2 DEF TypeInv
<1> QED
  BY <1>1, <1>2, <1>3

LEMMA RerunTypes == ASSUME TypeInv, Rerun PROVE TypeInv'
<1>1. /\ pc' = "main" /\ UNCHANGED <<request, saved>> /\ strm' = Fresh /\ boffset' = 0
      /\ out' = <<>> /\ part' = NoPart /\ form' = <<>> /\ temp' = <<>>
  BY DEF Rerun
<1>2. DOMAIN form' = {} /\ DOMAIN temp' = {}
  BY <1>1
<1> QED
  BY <1>1, <1>2, FreshIs, Nothing, EmptySeq DEF TypeInv

\* Only the environment calls, the end and a new process touch the strings.
LEMMA StringsKeep ==
  ASSUME EnvInv,
         \/ Main \/ BoundaryUnit \/ BoundaryEnd \/ NextPart \/ Header \/ OpenBody \/ Link
         \/ WriteEnvironment \/ Return \/ Rerun
  PROVE  EnvInv'
<1>1. CASE env' = env
  BY <1>1 DEF EnvInv
<1>2. CASE Return
  BY <1>2, StringsAre DEF Return, EnvInv
<1>3. CASE Rerun
  <2>1. OtherEnv \in [DOMAIN Env -> Text]
    BY CgicAssumption
  <2>2. env' = [strings |-> OtherEnv, wild |-> {}, restored |-> FALSE]
    BY <1>3 DEF Rerun, Getenv
  <2> QED
    BY <2>1, <2>2 DEF EnvInv
<1>4. CASE Main \/ BoundaryUnit \/ BoundaryEnd \/ NextPart \/ Header
  <2>1. env' = env
    BY <1>4 DEF Main, BoundaryUnit, BoundaryEnd, NextPart, Header
  <2> QED
    BY <1>1, <2>1
<1>5. CASE OpenBody \/ Link \/ WriteEnvironment
  <2>1. env' = env
    BY <1>5 DEF OpenBody, Link, WriteEnvironment
  <2> QED
    BY <1>1, <2>1
<1> QED
  BY <1>2, <1>3, <1>4, <1>5

-----------------------------------------------------------------------------
(* What was saved                                                          *)

\* Where there is no file nothing is restored.
LEMMA NothingRestored == ~ Restored(Absent).ok
BY DEF Restored

\* What one failed call may cost, by the call.
Costs(failed, was, view) ==
  /\ Len(view) <= Len(was)
  /\ \A i \in DOMAIN view :
       LET e == was[i]
           r == view[i]
       IN  \/ r = e
           \/ failed \in {"alloc", "open"} /\ e.isFile /\ ~ r.isFile
                /\ r.attr = e.attr /\ r.fileName = e.fileName /\ r.type = e.type
                /\ r.length = e.length
           \/ failed = "disk" /\ e.isFile /\ IsPrefix(r.content, e.content)
                /\ r = [e EXCEPT !.content = r.content]
  /\ \A i, j \in DOMAIN view : view[i] # was[i] /\ view[j] # was[j] => i = j
First(was, view) == Len(view) <= Len(was) /\ \A i \in DOMAIN view : view[i] = was[i]
LEMMA CostsAre ==
  ASSUME NEW was, NEW view
  PROVE  /\ Brings(was, view) <=> Costs(fault, was, view)
         /\ Costs("none", was, view) => First(was, view)
         /\ First(was, view) => \A x : Costs(x, was, view)
<1>1. Brings(was, view) <=> Costs(fault, was, view)
  BY DEF Brings, Survives, Costs
<1>2. Costs("none", was, view) => First(was, view)
  BY DEF Costs, First
<1>3. First(was, view) => \A x : Costs(x, was, view)
  BY DEF Costs, First
<1> QED
  BY <1>1, <1>2, <1>3

\* What the file gives, of what was written.
Gives(f, k, failed) ==
  /\ k.view \in Seq(Shown)
  /\ Savable(k.view) =>
       LET r == Restored(f)
       IN  /\ r.ok => Costs(failed, k.view, Views(r.list)) /\ Given(f) = k.strings
           /\ k.whole /\ f # Absent /\ failed # "disk" => r.ok /\ Len(Views(r.list)) = Len(k.view)
  /\ k.whole /\ f = Absent => failed # "none"
LEMMA GivesIs == (KeptInv <=> Gives(saved, kept, fault)) /\ (KeptInv' <=> Gives(saved', kept', fault'))
<1>1. KeptInv <=> Gives(saved, kept, fault)
  BY CostsAre DEF KeptInv, Gives
<1>2. KeptInv' <=> Gives(saved', kept', fault')
  <2> DEFINE f == saved
             k == kept
             x == fault
  <2>1. Brings(kept.view, Views(Restored(saved).list))'
        <=> Costs(fault', kept'.view, Views(Restored(saved').list))
    BY DEF Brings, Survives, Costs
  <2> QED
    BY <2>1 DEF KeptInv, Gives
<1> QED
  BY <1>1, <1>2

\* Nothing else touches the file.
LEMMA KeptStays ==
  ASSUME KeptInv, UNCHANGED <<saved, kept>>, fault = "none" \/ fault' = fault
  PROVE  KeptInv'
<1>1. Gives(saved, kept, fault)
  BY GivesIs
<1>2. Gives(saved, kept, fault')
  <2>1. Costs(fault, kept.view, Views(Restored(saved).list))
        => Costs(fault', kept.view, Views(Restored(saved).list))
    BY CostsAre
  <2> QED
    BY <1>1, <2>1 DEF Gives
<1> QED
  BY <1>2, GivesIs

\* Nothing has been saved at the start.
LEMMA KeptStarted == Init => KeptInv
<1> SUFFICES ASSUME Init PROVE KeptInv
  OBVIOUS
<1>1. kept.view = <<>> /\ ~ kept.whole /\ saved = Absent
  BY DEF Init
<1> QED
  BY <1>1, NothingRestored, EmptySeq DEF KeptInv

\* The whole file gives the form that was saved, a part of it the first of its entries,
\* and nothing is there when the write has failed. (cgiWriteEnvironment)
LEMMA WriteKept ==
  ASSUME TypeInv, EnvInv, TempInv, KeptInv, WriteEnvironment
  PROVE  KeptInv'
<1>1. pc = "main" /\ FilesThere /\ form \in Seq(Entries) /\ request \in Request
  BY WriteCases DEF TypeInv
<1>2. ASSUME NEW strings, NEW unopened, NEW whole, WrittenSo(strings, unopened, whole)
      PROVE  Gives(saved', kept', fault')
  <2> DEFINE V == FormView
             r == Restored(saved')
             v == Views(r.list)
  <2>1. /\ strings \in [DOMAIN Env -> Text]
        /\ Part(saved', Environment(strings, unopened), whole)
        /\ kept'.view = V /\ kept'.strings = strings
        /\ unopened = 0 \/ fault' \in {"alloc", "open"}
        /\ kept'.whole /\ fault' # "disk" => whole
        /\ kept'.whole /\ saved' = Absent => fault' # "none"
    BY <1>2, StringsAre DEF WrittenSo
  <2>2. V \in Seq(Shown)
    BY <1>1, FormViewTypes
  <2>3. ASSUME Savable(V)
        PROVE  /\ r.ok => Costs(fault', V, v) /\ Given(saved') = strings
               /\ whole => r.ok /\ Len(v) = Len(V)
    <3>1. /\ r.ok => /\ Given(saved') = strings /\ Len(v) <= Len(V)
                     /\ \A i \in DOMAIN v : v[i] = V[i] \/ Unfiled(i, unopened, v[i])
          /\ whole => r.ok /\ Len(v) = Len(V)
      BY <1>1, <2>1, <2>3, RoundTrip
    <3> HIDE DEF V, r, v
    <3>2. ASSUME r.ok PROVE Costs(fault', V, v)
      <4>1. Len(v) <= Len(V) /\ \A i \in DOMAIN v : v[i] = V[i] \/ Unfiled(i, unopened, v[i])
        BY <3>1, <3>2
      <4>2. ASSUME NEW i \in DOMAIN v, v[i] # V[i]
            PROVE  /\ i = unopened /\ V[i].isFile /\ ~ v[i].isFile
                   /\ v[i].attr = V[i].attr /\ v[i].fileName = V[i].fileName
                   /\ v[i].type = V[i].type /\ v[i].length = V[i].length
        BY <4>1, <4>2 DEF Unfiled, V
      <4>3. 0 \notin DOMAIN v
        BY DEF v, Views
      <4>4. \A i \in DOMAIN v : v[i] # V[i] => fault' \in {"alloc", "open"}
        BY <2>1, <4>2, <4>3
      <4> QED
        BY <4>1, <4>2, <4>4 DEF Costs
    <3> QED
      BY <3>1, <3>2
  <2> HIDE DEF V
  <2> QED
    BY <2>1, <2>2, <2>3 DEF Gives
<1>3. CASE saved' = Absent /\ kept' = kept /\ fault' = "disk"
  <2>1. ~ Restored(saved').ok
    BY <1>3, NothingRestored
  <2>2. kept.view \in Seq(Shown)
    BY DEF KeptInv
  <2>3. Gives(saved', kept', fault')
    BY <1>3, <2>1, <2>2 DEF Gives
  <2> QED
    BY <2>3, GivesIs
<1>4. CASE saved' = saved /\ kept' = kept /\ fault = "none" /\ fault' = "open"
  BY <1>4, KeptStays
<1> QED
  BY <1>2, <1>3, <1>4, WriteCases, GivesIs

\* What the script sees after a restore is what the file gives, and a refusal of a
\* whole file has its failure. (cgiReadEnvironment)
LEMMA ReadRestores ==
  ASSUME TypeInv, TempInv, KeptInv, ReadEnvironment
  PROVE  EnvRestored'
<1> DEFINE r == Restored(saved)
           l == r.list
           w == kept.view
<1>1. SUFFICES ASSUME Savable(w)
      PROVE  /\ status' = "restored" => Costs(fault', w, FormView') /\ env'.strings = kept.strings
             /\ status' = "restored" /\ kept.whole /\ fault' \notin {"alloc", "disk"}
                  => Len(FormView') = Len(w)
             /\ status' = "io" /\ kept.whole => fault' # "none"
  <2>1. kept' = kept
    BY ReadCases
  <2>2. Brings(kept.view, FormView)' <=> Costs(fault', kept'.view, FormView')
    BY DEF Brings, Survives, Costs
  <2> QED
    BY <2>1, <2>2 DEF EnvRestored
<1>2. /\ r.ok => Costs(fault, w, Views(l)) /\ Given(saved) = kept.strings
      /\ kept.whole /\ saved # Absent /\ fault # "disk" => r.ok /\ Len(Views(l)) = Len(w)
      /\ kept.whole /\ saved = Absent => fault # "none"
  BY <1>1, GivesIs DEF Gives
<1>3. r.ok => saved # Absent
  BY NothingRestored
<1>4. l \in Seq(SavedEntries) /\ Len(l) \in Nat /\ Len(Views(l)) = Len(l)
      /\ DOMAIN l = 1 .. Len(l)
  <2>1. l \in Seq(SavedEntries)
    BY RestoredType DEF TypeInv
  <2> HIDE DEF l
  <2> QED
    BY <2>1, LenProperties, ViewsAre
<1>5. ASSUME NEW list, NEW n, Brought(list, n)
      PROVE  status' = "restored" /\ env'.strings = Given(saved)
  BY <1>5 DEF Brought
<1> HIDE DEF l, w
<1>6. CASE r.ok /\ Brought(l, Len(l)) /\ fault' = fault
  <2>1. Len(l) \in 0 .. Len(l) /\ SubSeq(l, 1, Len(l)) = l
    BY <1>4, SubSeqFull
  <2>2. FormView' = Views(l)
    BY <1>4, <1>6, <2>1, RestoreBrings
  <2> QED
    BY <1>2, <1>3, <1>5, <1>6, <2>2
<1>7. CASE /\ r.ok /\ \E n \in 0 .. Len(l) - 1 : Brought(l, n)
           /\ fault = "none" /\ fault' = "alloc"
  <2>1. PICK n \in 0 .. Len(l) - 1 : Brought(l, n)
    BY <1>7
  <2> DEFINE s == SubSeq(l, 1, n)
  <2>2. n \in 0 .. Len(l)
    BY <1>4, <2>1
  <2>3. FormView' = Views(s)
    BY <1>4, <2>1, <2>2, RestoreBrings
  <2>4. First(w, Views(l))
    BY <1>2, <1>7, CostsAre
  <2>5. /\ s \in Seq(SavedEntries) /\ Len(s) = n /\ \A i \in 1 .. n : s[i] = l[i]
        /\ n <= Len(l) /\ \A i \in 1 .. n : i \in 1 .. Len(l)
    BY <1>4, <2>2, FirstIs
  <2> HIDE DEF s
  <2>6. /\ DOMAIN Views(s) = 1 .. n /\ \A i \in 1 .. n : Views(s)[i] = Views(l)[i]
        /\ DOMAIN Views(l) = 1 .. Len(l) /\ Len(Views(s)) = n
    BY <1>4, <2>5, ViewsAre DEF Views
  <2>7. Len(w) >= Len(l) /\ \A i \in 1 .. n : Views(s)[i] = w[i]
    BY <1>4, <2>4, <2>5, <2>6 DEF First
  <2>8. First(w, Views(s))
    <3>1. \A i \in DOMAIN Views(s) : Views(s)[i] = w[i]
      BY <2>6, <2>7
    <3>2. Len(Views(s)) <= Len(w)
      <4>1. Len(w) \in Nat
        BY LenProperties DEF KeptInv, w
      <4> QED
        BY <1>4, <2>5, <2>6, <2>7, <4>1
    <3> QED
      BY <3>1, <3>2 DEF First
  <2>9. Costs(fault', w, FormView')
    BY <2>3, <2>8, CostsAre
  <2> QED
    BY <1>2, <1>5, <1>7, <2>1, <2>9
<1>8. CASE /\ r.ok
           /\ \E i \in DOMAIN l : /\ l[i].isFile
                                 /\ \E n \in 0 .. Len(l[i].text) - 1 :
                                      Brought(CutShort(l, i, n), Len(l))
           /\ fault = "none" /\ fault' = "disk"
  <2>1. PICK i \in DOMAIN l : l[i].isFile
             /\ \E n \in 0 .. Len(l[i].text) - 1 : Brought(CutShort(l, i, n), Len(l))
    BY <1>8
  <2>2. PICK n \in 0 .. Len(l[i].text) - 1 : Brought(CutShort(l, i, n), Len(l))
    BY <2>1
  <2> DEFINE c == CutShort(l, i, n)
             v == Views(c)
             u == Views(l)
  <2>3. /\ c \in Seq(SavedEntries) /\ Len(c) = Len(l)
        /\ \A j \in 1 .. Len(l) : j # i => v[j] = u[j]
        /\ u[i].isFile /\ IsPrefix(v[i].content, u[i].content)
        /\ v[i] = [u[i] EXCEPT !.content = v[i].content]
    BY <1>4, <2>1, CutShortIs
  <2>4. FormView' = v
    <3>1. Len(c) \in 0 .. Len(c) /\ SubSeq(c, 1, Len(c)) = c
      <4> HIDE DEF c
      <4> QED
        BY <1>4, <2>3, SubSeqFull
    <3>2. Brought(c, Len(c))
      BY <2>2, <2>3
    <3> HIDE DEF c
    <3> QED
      BY <2>3, <3>1, <3>2, RestoreBrings
  <2>5. First(w, u)
    BY <1>2, <1>8, CostsAre
  <2>6. /\ DOMAIN v = 1 .. Len(l) /\ DOMAIN u = 1 .. Len(l) /\ Len(v) = Len(l) /\ Len(u) = Len(l)
    <3> HIDE DEF c
    <3> QED
      BY <1>4, <2>3, ViewsAre DEF Views
  <2> HIDE DEF u, v
  <2>7. /\ Len(v) <= Len(w) /\ w[i].isFile /\ IsPrefix(v[i].content, w[i].content)
        /\ v[i] = [w[i] EXCEPT !.content = v[i].content]
        /\ \A j \in DOMAIN v : j # i => v[j] = w[j]
    BY <1>4, <2>1, <2>3, <2>5, <2>6 DEF First
  <2>8. Costs("disk", w, v)
    BY <2>7 DEF Costs
  <2> QED
    BY <1>2, <1>5, <1>8, <2>2, <2>4, <2>8
<1>9. CASE /\ status' = "io"
           /\ (~ r.ok /\ fault' = fault) \/ fault' # "none"
  BY <1>2, <1>9
<1>10. \A n, files_ : Refusing(n, files_) => status' = "io"
  BY DEF Refusing, Refuse
<1> QED
  <2> DEFINE a == Brought(l, Len(l))
             b == \E n \in 0 .. Len(l) - 1 : Brought(l, n)
             c == \E i \in DOMAIN l : /\ l[i].isFile
                                     /\ \E n \in 0 .. Len(l[i].text) - 1 :
                                          Brought(CutShort(l, i, n), Len(l))
  <2>1. \/ r.ok /\ a /\ fault' = fault
        \/ r.ok /\ b /\ fault = "none" /\ fault' = "alloc"
        \/ r.ok /\ c /\ fault = "none" /\ fault' = "disk"
        \/ /\ \E n, files_ : Refusing(n, files_)
           /\ \/ ~ r.ok /\ fault' = fault
              \/ fault = "none" /\ fault' # "none"
    <3> HIDE DEF r
    <3> QED
      BY ReadCases DEF l, r
  <2> HIDE DEF r
  <2> QED
    BY <1>6, <1>7, <1>8, <1>9, <1>10, <2>1

-----------------------------------------------------------------------------
(* The theorems                                                            *)

\* A failure is not forgotten, and but for cgiWriteEnvironment nothing touches the file.
LEMMA OthersKeep ==
  ASSUME \/ Main \/ BoundaryUnit \/ BoundaryEnd \/ NextPart \/ Header \/ OpenBody \/ Link
         \/ ReadEnvironment \/ Return \/ Rerun
  PROVE  UNCHANGED <<saved, kept>> /\ (fault = "none" \/ fault' = fault)
<1>1. CASE Main
  BY <1>1 DEF Main, Fails, files, bounds
<1>2. CASE BoundaryUnit \/ BoundaryEnd \/ NextPart \/ Header
  BY <1>2 DEF BoundaryUnit, BoundaryEnd, NextPart, Header, files, bounds
<1>3. CASE OpenBody \/ Link
  BY <1>3 DEF OpenBody, Link, Fails, bounds
<1>4. CASE ReadEnvironment
  BY <1>4, ReadCases
<1>5. CASE Return \/ Rerun
  BY <1>5 DEF Return, Rerun, bounds
<1> QED
  BY <1>1, <1>2, <1>3, <1>4, <1>5

\* No other step says that it has restored anything.
LEMMA OthersSay ==
  ASSUME KeptInv, KeptInv',
         \/ Main \/ BoundaryUnit \/ BoundaryEnd \/ NextPart \/ Header \/ OpenBody \/ Link
         \/ WriteEnvironment \/ Return \/ Rerun
  PROVE  EnvRestored'
<1>1. pc' # "main" \/ status' \in {"parsed", "saved", "none"}
      \/ (status' = "io" /\ fault' # "none")
  <2>1. CASE Main
    BY <2>1 DEF Main
  <2>2. CASE BoundaryUnit
    BY <2>2 DEF BoundaryUnit, NoBoundary, GiveUp
  <2>3. CASE BoundaryEnd
    BY <2>3 DEF BoundaryEnd, NoBoundary, GiveUp
  <2>4. CASE NextPart \/ Header
    BY <2>4 DEF NextPart, Header
  <2>5. CASE OpenBody \/ Link
    BY <2>5 DEF OpenBody, Link, GiveUp
  <2>6. CASE WriteEnvironment
    BY <2>6 DEF WriteEnvironment, Fails
  <2>7. CASE Return \/ Rerun
    BY <2>7 DEF Return, FreeResources, Rerun
  <2> QED
    BY <2>1, <2>2, <2>3, <2>4, <2>5, <2>6, <2>7
<1> QED
  BY <1>1 DEF EnvRestored

\* The invariant holds at the start, and every step keeps it.
LEMMA InvStarted == Init => CgicInv
<1>1. Init => EnvRestored
  BY DEF Init, EnvRestored
<1>2. ASSUME Init PROVE EnvInv
  <2>1. Env \in [DOMAIN Env -> Text]
    <3>1. Env \in [1 .. Len(Env) -> Text] /\ DOMAIN Env = 1 .. Len(Env)
      BY CgicAssumption, ElementOfSeq, LenProperties, SeqDef
    <3> QED
      BY <3>1
  <2>2. env = [strings |-> Env, wild |-> {}, restored |-> FALSE]
    BY <1>2 DEF Init, Getenv
  <2> QED
    BY <2>1, <2>2 DEF EnvInv
<1> QED
  BY <1>1, <1>2, TypeStarted, Started, KeptStarted DEF CgicInv

LEMMA Step == CgicInv /\ [Next]_vars => CgicInv'
<1> SUFFICES ASSUME CgicInv, [Next]_vars PROVE CgicInv'
  OBVIOUS
<1>1. TypeInv /\ EnvInv /\ TempInv /\ KeptInv /\ EnvRestored
  BY DEF CgicInv
<1>2. CASE UNCHANGED vars
  <2>1. TypeInv'
    BY <1>1, <1>2 DEF vars, parsing, files, TypeInv, WorkingBoundary
  <2>2. TempInv'
    BY <1>1, <1>2
    DEF vars, parsing, files, TempInv, EntriesInv, LostInv, PartInv, ListInv, Lost, Owned
  <2>3. KeptInv'
    BY <1>1, <1>2, KeptStays DEF vars, files, bounds
  <2>4. EnvRestored'
    BY <1>1, <1>2 DEF vars, files, bounds, EnvRestored, FormView, View, Brings, Survives
  <2>5. EnvInv'
    BY <1>1, <1>2 DEF vars, EnvInv
  <2> QED
    BY <2>1, <2>2, <2>3, <2>4, <2>5 DEF CgicInv
<1>3. CASE Next
  <2>1. TypeInv'
    BY <1>1, <1>3, MainTypes, BoundaryUnitTypes, BoundaryEndTypes, NextPartTypes, HeaderTypes,
       OpenBodyTypes, LinkTypes, WriteTypes, ReadEnvironmentTypes, ReturnTypes, RerunTypes DEF Next
  <2>2. TempInv'
    BY <1>1, <1>3, MainKeeps, BoundaryUnitKeeps, BoundaryEndKeeps, NextPartKeeps, HeaderKeeps,
       OpenBodyKeeps, LinkKeeps, WriteKeeps, ReadKeeps, ReturnKeeps, RerunKeeps DEF Next
  <2>3. KeptInv'
    BY <1>1, <1>3, WriteKept, OthersKeep, KeptStays DEF Next
  <2>4. EnvRestored'
    BY <1>1, <1>3, <2>3, ReadRestores, OthersSay DEF Next
  <2>5. EnvInv'
    BY <1>1, <1>3, StringsKeep, ReadEnvironmentTypes DEF Next
  <2> QED
    BY <2>1, <2>2, <2>3, <2>4, <2>5 DEF CgicInv
<1> QED
  BY <1>2, <1>3

\* No temporary file is lost, whatever is sent and whichever call fails, but the one
\* whose fopen has failed. (getTempFileName, cgiParsePostMultipartInput,
\* cgiReadEnvironment, cgiFreeResources)
THEOREM NoFileLost == Spec => []TempFilesOwned
<1>1. CgicInv => TempFilesOwned
  <2> SUFFICES ASSUME TempInv PROVE TempFilesOwned
    BY DEF CgicInv
  <2>1. fault # "open" => Lost \subseteq IF pc \in Reading THEN {part.tfile} ELSE {}
    BY DEF TempInv, LostInv
  <2> QED
    BY <2>1 DEF TempInv, EntriesInv, TempFilesOwned, Lost, Owned, Reading
<1> QED
  BY <1>1, InvStarted, Step, PTL DEF Spec

\* Every variable has its type, the strings a script has are texts whatever has been freed
\* or read, and the search for a boundary always has a next unit of it to compare with.
\* (main, cgiParsePostMultipartInput, afterNextBoundary, cgiFreeResources)
THEOREM TypesKept == Spec => [](TypeInv /\ EnvInv)
<1>1. CgicInv => TypeInv /\ EnvInv
  BY DEF CgicInv
<1> QED
  BY <1>1, InvStarted, Step, PTL DEF Spec

\* What a script restores is what it had saved, strings included, in another process too:
\* of a file that a killed process has cut the first entries, of one that is said to be
\* saved all of them.  The one call that fails may cost the file of one entry or the end
\* of it, a failed allocation also the last entries, a full disk the end of what was saved;
\* without a failure nothing that is said to be saved is refused.
\* (cgiWriteEnvironment, cgiReadEnvironment)
THEOREM EnvironmentRestored == Spec => []EnvRestored
<1>1. CgicInv => EnvRestored
  BY DEF CgicInv
<1> QED
  BY <1>1, InvStarted, Step, PTL DEF Spec
=============================================================================
