---------------------------- MODULE LibraryProofs ----------------------------
(***************************************************************************)
(* Theorems about four of the libraries, for every value of their          *)
(* constants: the bitmaps of select.c are sets, the variable lists of      *)
(* ctemplate.c stay trees, the accounts of dao.c keep their friends, and   *)
(* the packets of tlv.c come back.                                         *)
(***************************************************************************)
EXTENDS DescriptorSets, VarTree, Accounts, Tlv, FiniteSetTheorems, SequenceTheorems, TLAPS

(* select.c *)

\* A number that is the size of no array.
Inside(fd) == \A c \in 0 .. MaxCapacity : fd # c * FD_SETSIZE

\* The two sets agree on the numbers that count, which maxfd is never below.
SetsInv ==
  /\ capacity \in 0 .. MaxCapacity /\ maxfd \in Nat
  /\ bits \in [Set -> SUBSET Fd] /\ asked \in [Set -> SUBSET Fd]
  /\ \A set \in Set, fd \in Fd :
       /\ fd \in bits[set] => fd < capacity * FD_SETSIZE /\ fd <= maxfd
       /\ Inside(fd) => (fd \in bits[set] <=> fd \in asked[set])

LEMMA SetsInit == MarksInit => SetsInv
BY SetsAssumption DEF MarksInit, SetsInv, Empty, Fd

\* select_zero leaves nothing: with no arrays there was nothing.
LEMMA ZeroKeeps == ASSUME SetsInv, select_zero PROVE SetsInv'
<1>1. CASE capacity = 0
  <2>1. ASSUME NEW set \in Set PROVE bits[set] = {}
    <3>1. \A fd \in Fd : fd \in bits[set] => fd < 0
      BY <1>1, SetsAssumption DEF SetsInv
    <3> QED
      BY <3>1 DEF SetsInv, Fd
  <2> QED
    BY <1>1, <2>1, SetsAssumption DEF SetsInv, select_zero, Empty, Fd, Inside
<1>2. CASE capacity # 0
  BY <1>2, SetsAssumption DEF SetsInv, select_zero, Empty, Fd, Inside
<1> QED
  BY <1>1, <1>2

\* select_add: what fits is set, and what does not fit is the size of the array.
LEMMA AddKeeps ==
  ASSUME SetsInv, NEW set \in Set, NEW fd \in Fd, select_add(set, fd)
  PROVE  SetsInv'
<1>1. PICK d \in Grown(capacity, fd) :
        /\ capacity' = d
        /\ bits' = [bits EXCEPT ![set] = IF fd < d * FD_SETSIZE THEN @ \cup {fd} ELSE @]
        /\ maxfd' = IF fd > maxfd THEN fd ELSE maxfd
        /\ asked' = [asked EXCEPT ![set] = @ \cup {fd}]
  BY DEF select_add, Kept
<1> DEFINE limit == d * FD_SETSIZE
<1>2. d \in 0 .. MaxCapacity /\ limit >= fd
  BY <1>1, SetsAssumption DEF Grown, Doubled, SetsInv
<1>3. limit \in Nat /\ capacity * FD_SETSIZE \in Nat
  BY <1>2, SetsAssumption DEF SetsInv
<1>4. capacity * FD_SETSIZE <= limit
  <2>1. capacity <= d
    BY <1>1, SetsAssumption DEF Grown, Doubled, SetsInv
  <2> QED
    BY <2>1, <1>2, SetsAssumption DEF SetsInv
<1>5. fd < limit \/ ~ Inside(fd)
  <2>1. Inside(fd) => fd # limit
    BY <1>2 DEF Inside
  <2> QED
    BY <2>1, <1>2, <1>3 DEF Fd
<1> HIDE DEF limit
<1>6. capacity' \in 0 .. MaxCapacity /\ maxfd' \in Nat /\ maxfd' >= fd /\ maxfd' >= maxfd
  BY <1>1, <1>2, SetsAssumption DEF SetsInv, Fd
<1>7. /\ bits' \in [Set -> SUBSET Fd] /\ asked' \in [Set -> SUBSET Fd]
      /\ \A s \in Set : bits'[s] = IF s = set /\ fd < limit THEN bits[s] \cup {fd} ELSE bits[s]
      /\ \A s \in Set : asked'[s] = IF s = set THEN asked[s] \cup {fd} ELSE asked[s]
  BY <1>1 DEF SetsInv, limit
<1>8. ASSUME NEW s \in Set, NEW f \in Fd
      PROVE  /\ f \in bits'[s] => f < capacity' * FD_SETSIZE /\ f <= maxfd'
             /\ Inside(f) => (f \in bits'[s] <=> f \in asked'[s])
  <2>1. capacity' * FD_SETSIZE = limit
    BY <1>1 DEF limit
  <2>2. /\ f \in bits[s] => f < capacity * FD_SETSIZE /\ f <= maxfd
        /\ Inside(f) => (f \in bits[s] <=> f \in asked[s])
    BY DEF SetsInv
  <2>3. f \in bits'[s] => f < limit /\ f <= maxfd'
    BY <1>3, <1>4, <1>6, <1>7, <2>2, SetsAssumption DEF SetsInv, Fd
  <2>4. Inside(f) => (f \in bits'[s] <=> f \in asked'[s])
    BY <1>5, <1>7, <2>2
  <2> QED
    BY <2>1, <2>3, <2>4
<1> QED
  BY <1>6, <1>7, <1>8 DEF SetsInv, Inside

\* select() takes the same marks from both.
LEMMA WaitKeeps ==
  ASSUME SetsInv, NEW ready, Wait(ready) PROVE SetsInv'
BY SetsAssumption DEF SetsInv, Wait, Inside

\* What select_has answers is what was added and is ready, for every FD_SETSIZE; the
\* numbers at the end of an array are left out. (select_add, select_grow, select_zero)
THEOREM MarksThm == MarksSpec => []MarksExact
<1>1. MarksInit => SetsInv
  BY SetsInit
<1>2. SetsInv /\ [MarksNext]_marksVars => SetsInv'
  <2> SUFFICES ASSUME SetsInv, [MarksNext]_marksVars PROVE SetsInv'
    OBVIOUS
  <2>1. CASE UNCHANGED marksVars
    BY <2>1 DEF marksVars, SetsInv
  <2> QED
    BY <2>1, ZeroKeeps, AddKeeps, WaitKeeps DEF MarksNext
<1>3. SetsInv => MarksExact
  BY DEF SetsInv, MarksExact, select_has, Inside
<1> QED
  BY <1>1, <1>2, <1>3, PTL DEF MarksSpec
-----------------------------------------------------------------------------
(* ctemplate.c: the variable lists *)

Typed == /\ live \subseteq Node
         /\ parent \in [Node -> SUBSET Node]
         /\ members \in [Node -> Seq(Node)]

TreeInv == Typed /\ Forest /\ OwnedOnce

\* A new first member.
LEMMA Prepended ==
  ASSUME NEW S, NEW s \in Seq(S), NEW x \in S
  PROVE  LET m == <<x>> \o s
         IN  /\ m \in Seq(S)
             /\ DOMAIN m = 1 .. Len(s) + 1
             /\ m[1] = x
             /\ \A i \in 1 .. Len(s) : m[i + 1] = s[i]
OBVIOUS

\* A member more, at either end, that was not there.
OneMore(m, s, x) ==
  /\ \A n \in Node : (\E i \in DOMAIN m : m[i] = n)
                       <=> n = x \/ (\E i \in DOMAIN s : s[i] = n)
  /\ \A i, j \in DOMAIN m : m[i] = m[j] => i = j

LEMMA OneMoreMember ==
  ASSUME NEW s \in Seq(Node), NEW x \in Node,
         ~ \E i \in DOMAIN s : s[i] = x,
         \A i, j \in DOMAIN s : s[i] = s[j] => i = j
  PROVE  OneMore(<<x>> \o s, s, x) /\ OneMore(Append(s, x), s, x)
<1>1. OneMore(<<x>> \o s, s, x)
  <2> DEFINE m == <<x>> \o s
  <2>1. /\ DOMAIN m = 1 .. Len(s) + 1 /\ m[1] = x
        /\ \A i \in 1 .. Len(s) : m[i + 1] = s[i]
    BY Prepended
  <2>2. DOMAIN s = 1 .. Len(s) /\ Len(s) \in Nat
    OBVIOUS
  <2> HIDE DEF m
  <2>3. \A i \in DOMAIN m : i = 1 \/ (i - 1 \in DOMAIN s /\ m[i] = s[i - 1])
    <3> SUFFICES ASSUME NEW i \in DOMAIN m, i # 1
        PROVE  i - 1 \in DOMAIN s /\ m[i] = s[i - 1]
      OBVIOUS
    <3>1. i - 1 \in 1 .. Len(s)
      BY <2>1, <2>2
    <3>2. m[(i - 1) + 1] = s[i - 1] /\ (i - 1) + 1 = i
      BY <3>1, <2>1
    <3> QED
      BY <3>1, <3>2, <2>2
  <2>4. \A i \in DOMAIN s : i + 1 \in DOMAIN m /\ m[i + 1] = s[i]
    BY <2>1, <2>2
  <2>5. 1 \in DOMAIN m
    BY <2>1, <2>2
  <2>6. ASSUME NEW n \in Node
        PROVE  (\E i \in DOMAIN m : m[i] = n) <=> n = x \/ (\E i \in DOMAIN s : s[i] = n)
    <3>1. ASSUME NEW i \in DOMAIN m, m[i] = n
          PROVE  n = x \/ (\E k \in DOMAIN s : s[k] = n)
      <4>1. CASE i = 1
        BY <4>1, <3>1, <2>1
      <4>2. CASE i - 1 \in DOMAIN s /\ m[i] = s[i - 1]
        BY <4>2, <3>1
      <4> QED
        BY <4>1, <4>2, <2>3
    <3>2. n = x => \E i \in DOMAIN m : m[i] = n
      BY <2>1, <2>5
    <3>3. ASSUME NEW i \in DOMAIN s, s[i] = n
          PROVE  \E k \in DOMAIN m : m[k] = n
      BY <3>3, <2>4
    <3> QED
      BY <3>1, <3>2, <3>3
  <2>7. ASSUME NEW i \in DOMAIN m, NEW j \in DOMAIN m, m[i] = m[j]
        PROVE  i = j
    <3>1. CASE i = 1 \/ j = 1
      BY <3>1, <2>1, <2>3, <2>7
    <3>2. CASE i # 1 /\ j # 1
      BY <3>2, <2>1, <2>2, <2>3, <2>7
    <3> QED
      BY <3>1, <3>2
  <2> QED
    BY <2>6, <2>7 DEF OneMore, m
<1>2. OneMore(Append(s, x), s, x)
  <2> DEFINE m == Append(s, x)
  <2>1. /\ DOMAIN m = 1 .. Len(s) + 1 /\ m[Len(s) + 1] = x
        /\ DOMAIN s = 1 .. Len(s) /\ Len(s) \in Nat
        /\ \A i \in 1 .. Len(s) : m[i] = s[i]
    OBVIOUS
  <2> HIDE DEF m
  <2>2. \A i \in DOMAIN m : i = Len(s) + 1 \/ (i \in DOMAIN s /\ m[i] = s[i])
    BY <2>1
  <2>3. Len(s) + 1 \in DOMAIN m /\ \A i \in DOMAIN s : i \in DOMAIN m /\ m[i] = s[i]
    BY <2>1
  <2>4. \A n \in Node : (\E i \in DOMAIN m : m[i] = n)
                             <=> n = x \/ (\E i \in DOMAIN s : s[i] = n)
    BY <2>1, <2>2, <2>3
  <2>5. ASSUME NEW i \in DOMAIN m, NEW j \in DOMAIN m, m[i] = m[j]
        PROVE  i = j
    BY <2>1, <2>2, <2>5
  <2> QED
    BY <2>4, <2>5 DEF OneMore, m
<1> QED
  BY <1>1, <1>2

\* A link to a node that is not below closes no circle.
LEMMA LinkKeepsForest ==
  ASSUME Typed, Forest, NEW x \in Node, NEW y \in Node,
         x \notin Ancestors(y),
         parent' = [parent EXCEPT ![x] = {y}]
  PROVE  Forest'
<1>1. PICK A \in SUBSET Node : y \in A /\ Closed(A) /\ x \notin A
  BY DEF Ancestors
<1> SUFFICES ASSUME NEW S \in SUBSET Node, S # {}
    PROVE  \E n \in S : parent'[n] \cap S = {}
  BY DEF Forest
<1>2. CASE S \cap A # {}
  <2>1. PICK n \in S \cap A : parent[n] \cap (S \cap A) = {}
    BY <1>2 DEF Forest
  <2>2. parent'[n] = parent[n] /\ parent[n] \subseteq A
    BY <1>1 DEF Typed, Closed
  <2> QED
    BY <2>1, <2>2
<1>3. CASE S \cap A = {}
  <2>1. y \notin S
    BY <1>1, <1>3
  <2>2. PICK n \in S : parent[n] \cap S = {}
    BY DEF Forest
  <2>3. parent'[n] = IF n = x THEN {y} ELSE parent[n]
    BY DEF Typed
  <2> QED
    BY <2>1, <2>2, <2>3
<1> QED
  BY <1>2, <1>3

\* The two ends of a new link agree.
LEMMA LinkKeepsOwned ==
  ASSUME Typed, OwnedOnce, NEW x \in live, NEW y \in Node,
         parent[x] = {}, x \notin Ancestors(y),
         NEW m \in Seq(Node), OneMore(m, members[y], x),
         live' = live \cup {y},
         parent' = [parent EXCEPT ![x] = {y}],
         members' = [members EXCEPT ![y] = m]
  PROVE  OwnedOnce'
<1>1. x \in Node /\ x # y
  BY DEF Typed, Ancestors
<1> SUFFICES ASSUME NEW n \in Node
    PROVE  /\ parent'[n] = {} \/ \E p \in live' : parent'[n] = {p}
           /\ \A p \in Node : p \in parent'[n] <=>
                                \E i \in DOMAIN members'[p] : members'[p][i] = n
           /\ \A i, j \in DOMAIN members'[n] : members'[n][i] = members'[n][j] => i = j
           /\ n \notin live' => parent'[n] = {} /\ members'[n] = <<>>
  BY DEF OwnedOnce
<1>2. parent'[n] = IF n = x THEN {y} ELSE parent[n]
  BY DEF Typed
<1>3. \A p \in Node : members'[p] = IF p = y THEN m ELSE members[p]
  BY DEF Typed
<1>4. /\ parent[n] = {} \/ \E p \in live : parent[n] = {p}
      /\ \A p \in Node : p \in parent[n] <=> \E i \in DOMAIN members[p] : members[p][i] = n
      /\ \A i, j \in DOMAIN members[n] : members[n][i] = members[n][j] => i = j
      /\ n \notin live => parent[n] = {} /\ members[n] = <<>>
  BY DEF OwnedOnce
<1>5. ASSUME NEW p \in Node
      PROVE  p \in parent'[n] <=> \E i \in DOMAIN members'[p] : members'[p][i] = n
  <2>1. (\E i \in DOMAIN m : m[i] = n) <=> n = x \/ (\E i \in DOMAIN members[y] : members[y][i] = n)
    BY DEF OneMore
  <2> QED
    BY <1>1, <1>2, <1>3, <1>4, <2>1
<1>6. \A i, j \in DOMAIN members'[n] : members'[n][i] = members'[n][j] => i = j
  BY <1>3, <1>4 DEF OneMore
<1>7. parent'[n] = {} \/ \E p \in live' : parent'[n] = {p}
  BY <1>2, <1>4
<1>8. n \notin live' => parent'[n] = {} /\ members'[n] = <<>>
  BY <1>2, <1>3, <1>4
<1> QED
  BY <1>5, <1>6, <1>7, <1>8

\* What is freed with v is v, and what is in something freed.
LEMMA FreedTogether ==
  ASSUME Typed, OwnedOnce, NEW v \in Node, parent[v] = {}
  PROVE  \A n \in Node, p \in Node :
           p \in parent[n] => (n \in Below(v) <=> p \in Below(v))
<1> SUFFICES ASSUME NEW n \in Node, NEW p \in Node, p \in parent[n]
    PROVE  n \in Below(v) <=> p \in Below(v)
  OBVIOUS
<1>1. /\ parent[n] = {p}
      /\ \A q \in Node : q \in parent[n] <=> \E i \in DOMAIN members[q] : members[q][i] = n
  BY DEF OwnedOnce
<1>2. ASSUME p \in Below(v) PROVE n \in Below(v)
  <2> SUFFICES ASSUME NEW S \in SUBSET Node, v \in S, Holds(S) PROVE n \in S
    BY DEF Below
  <2>1. p \in S
    BY <1>2 DEF Below
  <2> QED
    BY <2>1, <1>1 DEF Holds
<1>3. ASSUME n \in Below(v), p \notin Below(v) PROVE FALSE
  <2>1. PICK S \in SUBSET Node : v \in S /\ Holds(S) /\ p \notin S
    BY <1>3 DEF Below
  <2>2. Holds(S \ {n})
    <3> SUFFICES ASSUME NEW q \in S \ {n}, NEW i \in DOMAIN members[q], members[q][i] = n
        PROVE  FALSE
      BY <2>1 DEF Holds
    <3> QED
      BY <1>1, <2>1
  <2>3. n # v
    BY <1>1
  <2> QED
    BY <1>3, <2>1, <2>2, <2>3 DEF Below
<1> QED
  BY <1>2, <1>3

\* However a script builds and frees its lists, no list comes to hold itself, and each
\* node has one owner, which agrees. (TMPL_add_var, TMPL_add_loop, TMPL_add_varlist,
\* TMPL_free_varlist)
LEMMA TreeInvariant == TreeSpec => []TreeInv
<1>1. TreeInit => TreeInv
  BY DEF TreeInit, TreeInv, Typed, Forest, OwnedOnce
<1>2. TreeInv /\ [TreeNext]_treeVars => TreeInv'
  <2> SUFFICES ASSUME TreeInv, [TreeNext]_treeVars PROVE TreeInv'
    OBVIOUS
  <2>t. Typed /\ Forest /\ OwnedOnce
    BY DEF TreeInv
  <2>n. Varlist \subseteq Node /\ Loop \subseteq Node
    BY DEF Node
  <2>1. ASSUME NEW v \in Varlist, live' = live \cup {v}, parent' = parent, members' = members
        PROVE  TreeInv'
    <3>1. Typed'
      BY <2>1, <2>t, <2>n DEF Typed
    <3>2. Forest'
      BY <2>1, <2>t DEF Forest
    <3>3. OwnedOnce'
      BY <2>1, <2>t DEF OwnedOnce
    <3> QED
      BY <3>1, <3>2, <3>3 DEF TreeInv
  <2>2. ASSUME NEW v \in Varlist, NEW l \in Loop, AddLoop(v, l)
        PROVE  TreeInv'
    <3> DEFINE m == <<l>> \o members[v]
    <3>1. m \in Seq(Node) /\ members' = [members EXCEPT ![v] = m]
      BY <2>2, <2>t, <2>n, Prepended DEF AddLoop, Typed
    <3>2. OneMore(m, members[v], l)
      <4>1. /\ members[v] \in Seq(Node)
            /\ ~ \E i \in DOMAIN members[v] : members[v][i] = l
            /\ \A i, j \in DOMAIN members[v] : members[v][i] = members[v][j] => i = j
        <5>1. members[v] \in Seq(Node)
          BY <2>t, <2>n DEF Typed
        <5>2. ~ \E i \in DOMAIN members[v] : members[v][i] = l
          BY <2>2, <2>t, <2>n DEF AddLoop, OwnedOnce
        <5>3. \A i, j \in DOMAIN members[v] : members[v][i] = members[v][j] => i = j
          BY <2>t, <2>n DEF OwnedOnce
        <5> QED
          BY <5>1, <5>2, <5>3
      <4> QED
        BY <4>1, <2>n, OneMoreMember
    <3> HIDE DEF m
    <3>3. OwnedOnce'
      BY <2>2, <2>t, <2>n, <3>1, <3>2, LinkKeepsOwned DEF AddLoop
    <3>4. Forest'
      BY <2>2, <2>t, <2>n, LinkKeepsForest DEF AddLoop
    <3>5. Typed'
      BY <2>2, <2>t, <2>n, <3>1 DEF AddLoop, Typed
    <3> QED
      BY <3>3, <3>4, <3>5 DEF TreeInv
  <2>3. ASSUME NEW v \in Varlist, NEW l \in Loop, AddVarlist(l, v)
        PROVE  TreeInv'
    <3> DEFINE m == Append(members[l], v)
    <3>1. m \in Seq(Node) /\ members' = [members EXCEPT ![l] = m]
      BY <2>3, <2>t, <2>n DEF AddVarlist, Typed
    <3>2. OneMore(m, members[l], v)
      <4>1. /\ members[l] \in Seq(Node)
            /\ ~ \E i \in DOMAIN members[l] : members[l][i] = v
            /\ \A i, j \in DOMAIN members[l] : members[l][i] = members[l][j] => i = j
        <5>1. members[l] \in Seq(Node)
          BY <2>t, <2>n DEF Typed
        <5>2. ~ \E i \in DOMAIN members[l] : members[l][i] = v
          BY <2>3, <2>t, <2>n DEF AddVarlist, OwnedOnce
        <5>3. \A i, j \in DOMAIN members[l] : members[l][i] = members[l][j] => i = j
          BY <2>t, <2>n DEF OwnedOnce
        <5> QED
          BY <5>1, <5>2, <5>3
      <4> QED
        BY <4>1, <2>n, OneMoreMember
    <3> HIDE DEF m
    <3>3. OwnedOnce'
      BY <2>3, <2>t, <2>n, <3>1, <3>2, LinkKeepsOwned DEF AddVarlist
    <3>4. Forest'
      BY <2>3, <2>t, <2>n, LinkKeepsForest DEF AddVarlist
    <3>5. Typed'
      BY <2>3, <2>t, <2>n, <3>1 DEF AddVarlist, Typed
    <3> QED
      BY <3>3, <3>4, <3>5 DEF TreeInv
  <2>4. ASSUME NEW v \in Varlist, FreeVarlist(v)
        PROVE  TreeInv'
    <3>1. /\ \A n \in Node : parent'[n] = IF n \in Below(v) THEN {} ELSE parent[n]
          /\ \A n \in Node : members'[n] = IF n \in Below(v) THEN <<>> ELSE members[n]
          /\ live' = live \ Below(v)
      BY <2>4 DEF FreeVarlist
    <3>2. Typed'
      BY <2>4, <2>t DEF FreeVarlist, Typed
    <3>3. Forest'
      BY <2>t, <3>1 DEF Forest
    <3>4. \A n \in Node, p \in Node :
            p \in parent[n] => (n \in Below(v) <=> p \in Below(v))
      BY <2>4, <2>t, <2>n, FreedTogether DEF FreeVarlist
    <3>5. ASSUME NEW n \in Node
          PROVE  /\ parent'[n] = {} \/ \E p \in live' : parent'[n] = {p}
                 /\ \A p \in Node : p \in parent'[n] <=>
                                      \E i \in DOMAIN members'[p] : members'[p][i] = n
                 /\ \A i, j \in DOMAIN members'[n] : members'[n][i] = members'[n][j] => i = j
                 /\ n \notin live' => parent'[n] = {} /\ members'[n] = <<>>
      <4>1. /\ parent[n] = {} \/ \E p \in live : parent[n] = {p}
            /\ \A p \in Node : p \in parent[n] <=>
                                 \E i \in DOMAIN members[p] : members[p][i] = n
            /\ \A i, j \in DOMAIN members[n] : members[n][i] = members[n][j] => i = j
            /\ n \notin live => parent[n] = {} /\ members[n] = <<>>
        BY <2>t DEF OwnedOnce
      <4>2. parent'[n] = {} \/ \E p \in live' : parent'[n] = {p}
        BY <4>1, <3>1, <3>4, <2>t DEF Typed
      <4>3. ASSUME NEW p \in Node
            PROVE  p \in parent'[n] <=> \E i \in DOMAIN members'[p] : members'[p][i] = n
        BY <4>1, <3>1, <3>4
      <4>4. \A i, j \in DOMAIN members'[n] : members'[n][i] = members'[n][j] => i = j
        BY <4>1, <3>1
      <4>5. n \notin live' => parent'[n] = {} /\ members'[n] = <<>>
        BY <4>1, <3>1
      <4> QED
        BY <4>2, <4>3, <4>4, <4>5
    <3> QED
      BY <3>2, <3>3, <3>5 DEF TreeInv, OwnedOnce
  <2>5. CASE UNCHANGED treeVars
    <3> parent' = parent /\ members' = members /\ live' = live
      BY <2>5 DEF treeVars
    <3>1. Typed'
      BY <2>t DEF Typed
    <3>2. Forest'
      BY <2>t DEF Forest
    <3>3. OwnedOnce'
      BY <2>t DEF OwnedOnce
    <3> QED
      BY <3>1, <3>2, <3>3 DEF TreeInv
  <2> QED
    BY <2>1, <2>2, <2>3, <2>4, <2>5 DEF TreeNext, AddVar
<1> QED
  BY <1>1, <1>2, PTL DEF TreeSpec

\* No list comes to hold itself. (TMPL_add_loop, TMPL_add_varlist)
THEOREM ForestThm == TreeSpec => []Forest
BY TreeInvariant, PTL DEF TreeInv

\* Each node has one owner, which agrees, and nothing points to freed memory.
\* (TMPL_add_loop, TMPL_add_varlist, TMPL_free_varlist)
THEOREM OwnedOnceThm == TreeSpec => []OwnedOnce
BY TreeInvariant, PTL DEF TreeInv
-----------------------------------------------------------------------------
(* dao.c *)

Row == [name : Name, password : Password, ip : Ip]

\* Memberids are given out once, so that each belongs to the account of its number.
MembersInv ==
  /\ lastid \in Nat /\ accounts = lastid
  /\ DOMAIN member \subseteq 1 .. lastid
  /\ \A id \in DOMAIN member : member[id] \in Row
  /\ \A i, j \in DOMAIN member : member[i].name = member[j].name => i = j
  /\ who = [id \in DOMAIN member |-> id]

\* A call between its two statements has its arguments and its connection.
LoginInv ==
  /\ DOMAIN login = Process
  /\ \A p \in Process : login[p] # Idle => login[p].ip \in Ip /\ conn[p].open

AnswersInv ==
  /\ DOMAIN answer = Process
  /\ \A p \in Process : \A a \in answer[p].friends : <<answer[p].account, a>> \in Befriended

\* A statement is kept, and a connection left, only where a call has spoilt it; what a
\* process opens next is another one.
Conns == [opened : Nat, open : BOOLEAN, kept : BOOLEAN, left : SUBSET Nat]
ConnsInv ==
  /\ conn \in [Process -> Conns] /\ DOMAIN spoilt = Process
  /\ \A p \in Process :
       /\ conn[p].kept => conn[p].open /\ conn[p].opened \in spoilt[p]
       /\ conn[p].left \subseteq spoilt[p]

\* What a call has answered is of one account.
LEMMA Answered ==
  ASSUME AnswersInv, NEW p \in Process, NEW rc, NEW account, NEW friends,
         \A a \in friends : <<account, a>> \in Befriended,
         Answers(p, rc, account, friends)
  PROVE  AnswersInv'
BY DEF Answers, AnswersInv

\* A call that succeeds finalizes, and a call that keeps its statement spoils the
\* connection.
LEMMA KeepsConns ==
  ASSUME ConnsInv, NEW p \in Process,
         \/ Finalized(p) /\ (spoilt' = spoilt \/ spoilt' = Marked(p))
         \/ Unfinalized(p) /\ conn[p].open /\ spoilt' = Marked(p)
  PROVE  ConnsInv'
<1>1. \A q \in Process : spoilt[q] \subseteq spoilt'[q] /\ DOMAIN spoilt' = Process
  BY DEF ConnsInv, Marked
<1>2. CASE Finalized(p)
  <2>1. conn' = conn
    BY <1>2 DEF Finalized
  <2> QED
    BY <1>1, <2>1 DEF ConnsInv
<1>3. CASE Unfinalized(p) /\ conn[p].open /\ spoilt' = Marked(p)
  <2>1. conn' = [conn EXCEPT ![p].kept = TRUE] /\ conn[p] \in Conns
    BY <1>3 DEF Unfinalized, ConnsInv
  <2>2. /\ conn' \in [Process -> Conns] /\ conn'[p].opened = conn[p].opened
        /\ conn'[p].left = conn[p].left /\ conn'[p].open
        /\ \A q \in Process : q # p => conn'[q] = conn[q]
    BY <1>3, <2>1 DEF ConnsInv, Conns
  <2>3. conn[p].opened \in spoilt'[p]
    BY <1>3 DEF Marked, ConnsInv
  <2> QED
    BY <1>1, <2>2, <2>3 DEF ConnsInv
<1> QED
  BY <1>2, <1>3

\* What the outcomes of a call do to the connection, and to what it answers.
LEMMA Outcomes ==
  ASSUME AnswersInv, ConnsInv, NEW p \in Process, conn[p].open,
         \/ FailsPrepare(p) \/ FailsStep(p) \/ FailsBusy(p)
         \/ Returns(p, 0) /\ Finalized(p)
         \/ Returns(p, 1) /\ Unfinalized(p)
         \/ Answers(p, 0, 0, {}) /\ spoilt' = Marked(p) /\ Unfinalized(p)
  PROVE  AnswersInv' /\ ConnsInv'
<1>1. /\ \E rc : Answers(p, rc, 0, {})
      /\ \/ Finalized(p) /\ (spoilt' = spoilt \/ spoilt' = Marked(p))
         \/ Unfinalized(p) /\ spoilt' = Marked(p)
  BY DEF FailsPrepare, FailsStep, FailsBusy, Returns
<1> QED
  BY <1>1, Answered, KeepsConns

LEMMA IpKeeps ==
  ASSUME MembersInv, NEW name, NEW ip \in Ip, member' = WithIp(name, ip),
         UNCHANGED <<lastid, who, accounts>>
  PROVE  MembersInv'
<1>1. DOMAIN member' = DOMAIN member
  BY DEF WithIp
<1>2. \A id \in DOMAIN member : member'[id] \in Row /\ member'[id].name = member[id].name
  BY DEF WithIp, MembersInv, Row
<1> QED
  BY <1>1, <1>2 DEF MembersInv

\* The next memberid is nobody's.
LEMMA AddKeepsMembers ==
  ASSUME MembersInv, NEW p \in Process, NEW row \in Row, Ids(row.name) = {},
         member' = [id \in DOMAIN member \cup {NextId} |->
                      IF id = NextId THEN row ELSE member[id]],
         who' = [id \in DOMAIN member' |-> IF id = NextId THEN accounts + 1 ELSE who[id]],
         lastid' = NextId, accounts' = accounts + 1
  PROVE  MembersInv'
<1>1. lastid \in Nat /\ NextId = lastid + 1 /\ accounts = lastid
  BY DEF MembersInv, NextId
<1>2. DOMAIN member' = DOMAIN member \cup {NextId} /\ NextId \notin DOMAIN member
      /\ DOMAIN member' \subseteq 1 .. lastid'
  BY <1>1 DEF MembersInv
<1>3. /\ member'[NextId] = row /\ \A id \in DOMAIN member : member'[id] = member[id]
      /\ \A id \in DOMAIN member : member[id].name # row.name
  BY <1>2 DEF Ids
<1>4. \A i, j \in DOMAIN member' : member'[i].name = member'[j].name => i = j
  BY <1>2, <1>3 DEF MembersInv
<1>5. who' = [id \in DOMAIN member' |-> id]
  BY <1>1, <1>2 DEF MembersInv
<1>6. \A id \in DOMAIN member' : member'[id] \in Row
  BY <1>2, <1>3 DEF MembersInv
<1>7. lastid' \in Nat /\ accounts' = lastid'
  BY <1>1
<1> QED
  BY <1>2, <1>4, <1>5, <1>6, <1>7 DEF MembersInv

\* The rows of tbl_friend that a name finds begin with its account's number.
LEMMA FriendsAreOwn ==
  ASSUME MembersInv, NEW name,
         NEW a \in {who[id] : id \in FriendsOf(name)}
  PROVE  <<Account(name), a>> \in Befriended
<1>1. PICK f \in friend : f[1] \in Ids(name) /\ f[2] \in DOMAIN member /\ a = who[f[2]]
  BY DEF FriendsOf
<1>2. a = f[2]
  BY <1>1 DEF MembersInv
<1>3. \A i \in Ids(name) : i = f[1]
  BY <1>1 DEF Ids, MembersInv
<1>4. Account(name) = f[1]
  BY <1>1, <1>3 DEF Account, MembersInv, Ids
<1>5. f = <<f[1], f[2]>> /\ f \in Befriended
  BY DaoAssumption DEF friend
<1> QED
  BY <1>2, <1>4, <1>5

DaoInv == MembersInv /\ LoginInv /\ AnswersInv /\ ConnsInv

LEMMA DaoStart == DaoInit => DaoInv
<1> SUFFICES ASSUME DaoInit PROVE DaoInv
  OBVIOUS
<1>1. MembersInv
  BY DaoAssumption DEF DaoInit, MembersInv, Row
<1>2. LoginInv /\ AnswersInv
  BY DEF DaoInit, LoginInv, AnswersInv
<1>3. ConnsInv
  BY DEF DaoInit, ConnsInv, Conns
<1> QED
  BY <1>1, <1>2, <1>3 DEF DaoInv

LEMMA DaoStep == DaoInv /\ [DaoNext]_daoVars => DaoInv'
<1> SUFFICES ASSUME DaoInv, [DaoNext]_daoVars PROVE DaoInv'
  OBVIOUS
<1>1. MembersInv /\ LoginInv /\ AnswersInv /\ ConnsInv
  BY DEF DaoInv
<1>2. UNCHANGED table => MembersInv'
  BY <1>1 DEF table, MembersInv
<1>3. UNCHANGED login /\ (\A q \in Process : conn'[q].open = conn[q].open) => LoginInv'
  BY <1>1 DEF LoginInv
<1>4. UNCHANGED answer => AnswersInv'
  BY <1>1 DEF AnswersInv
<1>5. CASE UNCHANGED daoVars
  <2>1. UNCHANGED <<conn, spoilt>> /\ UNCHANGED table /\ UNCHANGED login /\ UNCHANGED answer
    BY <1>5 DEF daoVars, table
  <2>2. ConnsInv'
    BY <1>1, <2>1 DEF ConnsInv
  <2> QED
    BY <1>2, <1>3, <1>4, <2>1, <2>2 DEF DaoInv
<1>6. \A p \in Process : Finalized(p) \/ Unfinalized(p) =>
        \A q \in Process : conn'[q].open = conn[q].open
  BY <1>1 DEF Finalized, Unfinalized, ConnsInv, Conns
<1>7. ASSUME NEW p \in Process, Ready(p), UNCHANGED login, MembersInv',
             \/ FailsPrepare(p) \/ FailsStep(p) \/ FailsBusy(p)
             \/ Returns(p, 0) /\ Finalized(p)
             \/ Answers(p, 0, 0, {}) /\ spoilt' = Marked(p) /\ Unfinalized(p)
      PROVE  DaoInv'
  <2>1. AnswersInv' /\ ConnsInv'
    BY <1>1, <1>7, Outcomes DEF Ready
  <2>2. Finalized(p) \/ Unfinalized(p)
    BY <1>7 DEF FailsPrepare, FailsStep, FailsBusy
  <2> QED
    BY <1>3, <1>6, <1>7, <2>1, <2>2 DEF DaoInv
<1>8. ASSUME NEW p \in Process, Ready(p), UNCHANGED login,
             FailsPrepare(p) \/ FailsStep(p) \/ FailsBusy(p)
      PROVE  DaoInv'
  <2>1. MembersInv'
    BY <1>2, <1>8 DEF FailsPrepare, FailsStep, FailsBusy
  <2> QED
    BY <1>7, <1>8, <2>1
<1>9. ASSUME NEW p \in Process, dao_init(p) PROVE DaoInv'
  <2> DEFINE n == conn[p].opened + 1
             r == [conn[p] EXCEPT !.opened = n, !.open = TRUE]
  <2>1. conn[p] \in Conns /\ conn \in [Process -> Conns]
    BY <1>1 DEF ConnsInv
  <2>2. /\ conn' = [conn EXCEPT ![p] = r] /\ ~ conn[p].open /\ login[p] = Idle
        /\ UNCHANGED table /\ UNCHANGED login /\ UNCHANGED answer /\ UNCHANGED spoilt
    BY <1>9, <2>1 DEF dao_init, table, Conns
  <2> n \in Nat
    BY <2>1 DEF Conns
  <2> HIDE DEF n
  <2>3. r \in Conns /\ r.left = conn[p].left /\ r.kept = conn[p].kept
    BY <2>1 DEF Conns
  <2> HIDE DEF r
  <2>4. /\ conn' \in [Process -> Conns] /\ conn'[p] = r
        /\ \A q \in Process : q # p => conn'[q] = conn[q]
    BY <2>1, <2>2, <2>3
  <2>5. ConnsInv'
    BY <1>1, <2>2, <2>3, <2>4 DEF ConnsInv
  <2>6. LoginInv'
    BY <1>1, <2>2, <2>4 DEF LoginInv
  <2> QED
    BY <1>2, <1>4, <2>2, <2>5, <2>6 DEF DaoInv
<1>10. ASSUME NEW p \in Process, dao_deinit(p) PROVE DaoInv'
  <2> DEFINE left == IF conn[p].kept THEN conn[p].left \cup {conn[p].opened} ELSE conn[p].left
             r == [conn[p] EXCEPT !.open = FALSE, !.kept = FALSE, !.left = left]
  <2>1. conn[p] \in Conns /\ conn \in [Process -> Conns]
    BY <1>1 DEF ConnsInv
  <2>2. /\ conn' = [conn EXCEPT ![p] = r] /\ login[p] = Idle
        /\ UNCHANGED table /\ UNCHANGED login /\ UNCHANGED answer /\ UNCHANGED spoilt
    BY <1>10, <2>1 DEF dao_deinit, Ready, table, Conns
  <2>3. left \in SUBSET Nat /\ left \subseteq spoilt[p]
    BY <1>1, <2>1 DEF ConnsInv, Conns
  <2> HIDE DEF left
  <2>4. r \in Conns /\ r.left = left /\ ~ r.kept
    BY <2>1, <2>3 DEF Conns
  <2> HIDE DEF r
  <2>5. /\ conn' \in [Process -> Conns] /\ conn'[p] = r
        /\ \A q \in Process : q # p => conn'[q] = conn[q]
    BY <2>1, <2>2, <2>4
  <2>6. ConnsInv'
    BY <1>1, <2>2, <2>3, <2>4, <2>5 DEF ConnsInv
  <2>7. LoginInv'
    BY <1>1, <2>2, <2>5 DEF LoginInv
  <2> QED
    BY <1>2, <1>4, <2>2, <2>6, <2>7 DEF DaoInv
<1>11. ASSUME NEW p \in Process, LoginUpdate(p) PROVE DaoInv'
  <2>1. login[p] # Idle /\ login' = [login EXCEPT ![p] = Idle] /\ conn[p].open
    BY <1>1, <1>11 DEF LoginUpdate, LoginInv
  <2>2. /\ \/ FailsBusy(p)
           \/ Returns(p, 0) /\ Finalized(p)
           \/ Returns(p, 1) /\ Unfinalized(p)
        /\ UNCHANGED table \/ /\ member' = WithIp(login[p].name, login[p].ip)
                              /\ UNCHANGED <<lastid, who, accounts>>
    BY <1>11 DEF LoginUpdate, FailsBusy, FailsPrepare, FailsStep
  <2>3. MembersInv'
    BY <1>1, <1>2, <2>1, <2>2, IpKeeps DEF LoginInv
  <2>4. \A q \in Process : conn'[q].open = conn[q].open
    BY <1>6, <2>2 DEF FailsBusy, FailsPrepare, FailsStep
  <2>5. LoginInv'
    BY <1>1, <2>1, <2>4 DEF LoginInv
  <2>6. AnswersInv' /\ ConnsInv'
    BY <1>1, <2>1, <2>2, Outcomes
  <2> QED
    BY <2>3, <2>5, <2>6 DEF DaoInv
<1>12. ASSUME NEW p \in Process, dao_add_friend(p) PROVE DaoInv'
  BY <1>8, <1>12 DEF dao_add_friend
<1>13. ASSUME NEW p \in Process, NEW name \in Name, dao_get_onemb(p, name) PROVE DaoInv'
  BY <1>2, <1>7, <1>8, <1>13 DEF dao_get_onemb
<1>14. ASSUME NEW p \in Process, NEW name \in Name, dao_delete_member(p, name) PROVE DaoInv'
  <2>1. CASE FailsBusy(p)
    BY <1>8, <1>14, <2>1 DEF dao_delete_member
  <2>2. CASE /\ member' = [id \in DOMAIN member \ Ids(name) |-> member[id]]
             /\ who' = [id \in DOMAIN member' |-> who[id]]
             /\ Answers(p, 0, 0, {}) /\ spoilt' = Marked(p) /\ Unfinalized(p)
             /\ UNCHANGED <<lastid, accounts>>
    <3>1. DOMAIN member' \subseteq DOMAIN member
          /\ \A id \in DOMAIN member' : member'[id] = member[id]
      BY <2>2
    <3>2. who' = [id \in DOMAIN member' |-> id]
      BY <1>1, <2>2, <3>1 DEF MembersInv
    <3>3. MembersInv'
      BY <1>1, <2>2, <3>1, <3>2 DEF MembersInv
    <3> QED
      BY <1>7, <1>14, <2>2, <3>3 DEF dao_delete_member
  <2> QED
    BY <1>14, <2>1, <2>2 DEF dao_delete_member
<1>15. ASSUME NEW p \in Process, NEW name \in Name, dao_get_friends(p, name) PROVE DaoInv'
  <2>1. CASE /\ Answers(p, 0, Account(name), {who[id] : id \in FriendsOf(name)})
             /\ Finalized(p) /\ UNCHANGED <<table, spoilt>>
    <3>1. AnswersInv'
      BY <1>1, <2>1, FriendsAreOwn, Answered
    <3>2. ConnsInv'
      BY <1>1, <2>1, KeepsConns
    <3> QED
      BY <1>2, <1>3, <1>6, <1>15, <2>1, <3>1, <3>2 DEF dao_get_friends, DaoInv
  <2>2. CASE Returns(p, 0) /\ Finalized(p) /\ UNCHANGED table
    BY <1>2, <1>7, <1>15, <2>2 DEF dao_get_friends
  <2>3. CASE FailsPrepare(p) \/ FailsStep(p)
    BY <1>8, <1>15, <2>3 DEF dao_get_friends
  <2> QED
    BY <1>15, <2>1, <2>2, <2>3 DEF dao_get_friends
<1>16. ASSUME NEW p \in Process, NEW name \in Name, NEW other \in Name,
              dao_delete_contact(p, name, other)
       PROVE  DaoInv'
  BY <1>8, <1>16 DEF dao_delete_contact
<1>17. ASSUME NEW p \in Process, NEW name \in Name, NEW ip \in Ip, dao_logout(p, name, ip)
       PROVE  DaoInv'
  BY <1>1, <1>7, <1>8, <1>17, IpKeeps DEF dao_logout
<1>18. ASSUME NEW p \in Process, NEW name \in Name, NEW ip \in Ip, NEW password \in Password,
              dao_login(p, name, password, ip)
       PROVE  DaoInv'
  <2>1. CASE FailsPrepare(p) /\ UNCHANGED login
    BY <1>8, <1>18, <2>1 DEF dao_login
  <2>2. CASE /\ UNCHANGED <<table, conn, answer, spoilt>>
             /\ \E found : login' = [login EXCEPT ![p] = [name |-> name, ip |-> ip,
                                                          found |-> found]]
    <3>1. LoginInv'
      BY <1>1, <1>18, <2>2 DEF LoginInv, dao_login, Ready
    <3>2. ConnsInv'
      BY <1>1, <2>2 DEF ConnsInv
    <3> QED
      BY <1>2, <1>4, <2>2, <3>1, <3>2 DEF DaoInv
  <2> QED
    BY <1>18, <2>1, <2>2 DEF dao_login
<1>19. ASSUME NEW p \in Process, NEW row \in Row, dao_add_member(p, row) PROVE DaoInv'
  <2>1. CASE FailsStep(p) \/ FailsBusy(p)
    BY <1>8, <1>19, <2>1 DEF dao_add_member
  <2>2. CASE Ids(row.name) = {} /\ Returns(p, 0) /\ Finalized(p)
             /\ member' = [id \in DOMAIN member \cup {NextId} |->
                             IF id = NextId THEN row ELSE member[id]]
             /\ who' = [id \in DOMAIN member' |-> IF id = NextId THEN accounts + 1 ELSE who[id]]
             /\ lastid' = NextId /\ accounts' = accounts + 1
    <3>1. MembersInv'
      BY <1>1, <2>2, AddKeepsMembers
    <3> QED
      BY <1>7, <1>19, <2>2, <3>1 DEF dao_add_member
  <2> QED
    BY <1>19, <2>1, <2>2 DEF dao_add_member
<1>20. \A name \in Name, password \in Password, ip \in Ip :
         [name |-> name, password |-> password, ip |-> ip] \in Row
  BY DEF Row
<1> QED
  BY <1>5, <1>9, <1>10, <1>11, <1>12, <1>13, <1>14, <1>15, <1>16, <1>17, <1>18, <1>19, <1>20
  DEF DaoNext

\* Whatever accounts are made and deleted, by any number of processes, an account is
\* shown the friends it was given itself. (dao_add_member, dao_delete_member,
\* dao_get_friends, schema.sqlite.sql)
THEOREM FriendsThm == DaoSpec => []OwnFriends
<1>1. DaoInv => OwnFriends
  <2> SUFFICES ASSUME DaoInv PROVE OwnFriends
    OBVIOUS
  <2>1. ASSUME NEW name \in Name PROVE Cardinality(Ids(name)) <= 1
    <3>1. CASE Ids(name) = {}
      BY <3>1, FS_EmptySet
    <3>2. CASE Ids(name) # {}
      <4>1. PICK i : i \in Ids(name)
        BY <3>2
      <4>2. Ids(name) = {i}
        BY <4>1 DEF Ids, DaoInv, MembersInv
      <4> QED
        BY <4>2, FS_Singleton
    <3> QED
      BY <3>1, <3>2
  <2> QED
    BY <2>1 DEF DaoInv, AnswersInv, OwnFriends
<1> QED
  BY <1>1, DaoStart, DaoStep, PTL DEF DaoSpec

\* A process leaves open only connections on which a call of its own has returned an error
\* or deleted a member, however often it connects and whatever the others do.
\* (the dao_ functions)
THEOREM ClosesThm == DaoSpec => []ClosesClean
<1>1. DaoInv => ClosesClean
  BY DEF DaoInv, ConnsInv, ClosesClean
<1> QED
  BY <1>1, DaoStart, DaoStep, PTL DEF DaoSpec
-----------------------------------------------------------------------------
(* tlv.c *)

\* Two bytes make the number again.
LEMMA Halves ==
  ASSUME NEW x \in Short
  PROVE  /\ Len(Htons(x)) = 2 /\ Htons(x) \in Seq(Nat)
         /\ Htons(x)[1] * 256 + Htons(x)[2] = x
<1>1. x \in Nat
  BY DEF Short
<1>2. x \div 256 \in Nat /\ x % 256 \in Nat /\ (x \div 256) * 256 + (x % 256) = x
  BY <1>1
<1> QED
  BY <1>2 DEF Htons

\* What stands where in one sequence after the other.
LEMMA Joined ==
  ASSUME NEW s \in Seq(Nat), NEW t \in Seq(Nat)
  PROVE  /\ s \o t \in Seq(Nat) /\ Len(s \o t) = Len(s) + Len(t)
         /\ \A i \in 1 .. Len(s) : (s \o t)[i] = s[i]
         /\ \A i \in 1 .. Len(t) : (s \o t)[Len(s) + i] = t[i]
<1>1. Len(s) \in Nat /\ Len(t) \in Nat
  BY LenProperties
<1>2. /\ s \o t \in Seq(Nat) /\ Len(s \o t) = Len(s) + Len(t)
      /\ \A i \in 1 .. Len(s) + Len(t) :
           (s \o t)[i] = IF i <= Len(s) THEN s[i] ELSE t[i - Len(s)]
  BY ConcatProperties
<1>3. \A i \in 1 .. Len(s) : i \in 1 .. Len(s) + Len(t) /\ i <= Len(s)
  BY <1>1
<1>4. \A i \in 1 .. Len(t) :
        /\ Len(s) + i \in 1 .. Len(s) + Len(t) /\ ~ Len(s) + i <= Len(s)
        /\ Len(s) + i - Len(s) = i
  BY <1>1
<1> DEFINE q == s \o t
<1>5. /\ \A i \in 1 .. Len(s) + Len(t) : q[i] = IF i <= Len(s) THEN s[i] ELSE t[i - Len(s)]
  BY <1>2
<1> HIDE DEF q
<1>6. \A i \in 1 .. Len(s) : q[i] = s[i]
  BY <1>3, <1>5
<1>7. \A i \in 1 .. Len(t) : q[Len(s) + i] = t[i]
  <2> SUFFICES ASSUME NEW i \in 1 .. Len(t) PROVE q[Len(s) + i] = t[i]
    OBVIOUS
  <2> DEFINE j == Len(s) + i
  <2>1. j \in 1 .. Len(s) + Len(t) /\ ~ j <= Len(s) /\ j - Len(s) = i
    BY <1>4
  <2> HIDE DEF j
  <2>2. q[j] = t[i]
    BY <1>5, <2>1
  <2> QED
    BY <2>2 DEF j
<1> QED
  BY <1>2, <1>6, <1>7 DEF q

\* What stands where in the packet of a value v.
LEMMA Layout ==
  ASSUME NEW a \in Short, NEW b \in Short, NEW c \in Short, NEW v \in Seq(Nat)
  PROVE  LET q == Htons(a) \o Htons(b) \o Htons(c) \o v
         IN  /\ q \in Seq(Nat) /\ Len(q) = HeaderSize + Len(v)
             /\ Ntohs(q, 1) = a /\ Ntohs(q, 3) = b /\ Ntohs(q, 5) = c
             /\ \A i \in 1 .. Len(v) : q[HeaderSize + i] = v[i]
<1> DEFINE A == Htons(a)
           B == Htons(b)
           C == Htons(c)
           q2 == A \o B
           q3 == q2 \o C
           q == q3 \o v
<1>1. /\ Len(A) = 2 /\ A \in Seq(Nat) /\ A[1] * 256 + A[2] = a
      /\ Len(B) = 2 /\ B \in Seq(Nat) /\ B[1] * 256 + B[2] = b
      /\ Len(C) = 2 /\ C \in Seq(Nat) /\ C[1] * 256 + C[2] = c
  BY Halves
<1> HIDE DEF A, B, C
<1>2. /\ q2 \in Seq(Nat) /\ Len(q2) = 4
      /\ q2[1] = A[1] /\ q2[2] = A[2] /\ q2[3] = B[1] /\ q2[4] = B[2]
  <2>1. /\ q2 \in Seq(Nat) /\ Len(q2) = Len(A) + Len(B)
        /\ \A i \in 1 .. Len(A) : q2[i] = A[i]
        /\ \A i \in 1 .. Len(B) : q2[Len(A) + i] = B[i]
    BY <1>1, Joined
  <2> HIDE DEF q2
  <2>2. 1 \in 1 .. 2 /\ 2 \in 1 .. 2 /\ 2 + 1 = 3 /\ 2 + 2 = 4
    OBVIOUS
  <2> QED
    BY <1>1, <2>1, <2>2
<1> HIDE DEF q2
<1>3. /\ q3 \in Seq(Nat) /\ Len(q3) = 6
      /\ q3[1] = A[1] /\ q3[2] = A[2] /\ q3[3] = B[1] /\ q3[4] = B[2]
      /\ q3[5] = C[1] /\ q3[6] = C[2]
  <2>1. /\ q3 \in Seq(Nat) /\ Len(q3) = Len(q2) + Len(C)
        /\ \A i \in 1 .. Len(q2) : q3[i] = q2[i]
        /\ \A i \in 1 .. Len(C) : q3[Len(q2) + i] = C[i]
    BY <1>1, <1>2, Joined
  <2> HIDE DEF q3
  <2>2. /\ 1 \in 1 .. 2 /\ 2 \in 1 .. 2 /\ 4 + 1 = 5 /\ 4 + 2 = 6
        /\ 1 \in 1 .. 4 /\ 2 \in 1 .. 4 /\ 3 \in 1 .. 4 /\ 4 \in 1 .. 4
    OBVIOUS
  <2> QED
    BY <1>1, <1>2, <2>1, <2>2
<1> HIDE DEF q3
<1>4. /\ q \in Seq(Nat) /\ Len(q) = 6 + Len(v) /\ \A i \in 1 .. 6 : q[i] = q3[i]
      /\ \A i \in 1 .. Len(v) : q[6 + i] = v[i]
  <2>1. /\ q \in Seq(Nat) /\ Len(q) = Len(q3) + Len(v)
        /\ \A i \in 1 .. Len(q3) : q[i] = q3[i]
        /\ \A i \in 1 .. Len(v) : q[Len(q3) + i] = v[i]
    BY <1>3, Joined
  <2> HIDE DEF q
  <2> QED
    BY <1>3, <2>1
<1> HIDE DEF q
<1>5. /\ q[1] = A[1] /\ q[2] = A[2] /\ q[3] = B[1] /\ q[4] = B[2]
      /\ q[5] = C[1] /\ q[6] = C[2]
  <2>1. \A i \in {1, 2, 3, 4, 5, 6} : i \in 1 .. 6
    OBVIOUS
  <2> QED
    BY <1>3, <1>4, <2>1
<1>6. Ntohs(q, 1) = a /\ Ntohs(q, 3) = b /\ Ntohs(q, 5) = c
  BY <1>1, <1>5 DEF Ntohs
<1> QED
  BY <1>4, <1>6 DEF q, q3, q2, A, B, C, HeaderSize

\* The bytes of a value, from the highest on when it is a number.
LEMMA PackedIs ==
  ASSUME NEW type, NEW value \in Seq(0 .. 255), Fits(type, Len(value), Len(value))
  PROVE  /\ Packed(type, value) \in Seq(Nat)
         /\ type = TLV_TYPE_BYTES => Packed(type, value) = value
         /\ type \in IntTypes => /\ Width(type) \in Nat
                                 /\ Len(Packed(type, value)) = Width(type)
                                 /\ Width(type) <= Len(value)
                                 /\ \A i \in 1 .. Width(type) :
                                      Packed(type, value)[i] = value[Width(type) + 1 - i]
<1>0. value \in Seq(Nat)
  <2>1. 0 .. 255 \subseteq Nat
    OBVIOUS
  <2> QED
    BY <2>1, SeqMonotonic
<1>1. CASE type = TLV_TYPE_BYTES
  <2>1. type \notin IntTypes
    BY <1>1 DEF IntTypes, TLV_TYPE_BYTES
  <2> QED
    BY <1>0, <1>1, <2>1 DEF Packed
<1>2. CASE type # TLV_TYPE_BYTES
  <2> DEFINE w == Width(type)
             u == SubSeq(value, 1, w)
  <2>1. type \in IntTypes /\ w <= Len(value)
    BY <1>2 DEF Fits
  <2>2. w \in {1, 2, 4}
    BY <2>1 DEF IntTypes, Width
  <2> HIDE DEF w
  <2>3. /\ u \in Seq(Nat) /\ Len(u) = w /\ \A i \in 1 .. w : u[i] = value[i] /\ u[i] \in Nat
    <3>1. \A i \in 1 .. Len(value) : value[i] \in Nat
      BY <1>0, ElementOfSeq
    <3>2. /\ Len(value) \in Nat /\ w \in Nat /\ 1 <= w /\ w - 1 + 1 = w
          /\ \A i \in 1 .. w : i \in 1 .. Len(value) /\ 1 + i - 1 = i
      BY <2>1, <2>2, LenProperties
    <3>3. \A i \in 1 .. w : value[i] \in Nat
      BY <3>1, <3>2
    <3>4. /\ u \in Seq(Nat) /\ Len(u) = w
          /\ \A i \in 1 .. w : u[i] = value[i]
      BY <3>2, <3>3, SubSeqProperties
    <3> QED
      BY <3>3, <3>4
  <2>4. Packed(type, value) = Reverse(u)
    BY <1>2 DEF Packed, w
  <2> HIDE DEF u
  <2>5. Reverse(u) = [i \in 1 .. w |-> u[w + 1 - i]]
    BY <2>2, <2>3 DEF Reverse
  <2>6. \A i \in 1 .. w : w + 1 - i \in 1 .. w
    BY <2>2
  <2>7. Reverse(u) \in Seq(Nat) /\ Len(Reverse(u)) = w
    BY <2>2, <2>3, <2>5, <2>6
  <2>8. \A i \in 1 .. w : Reverse(u)[i] = value[w + 1 - i]
    BY <2>3, <2>5, <2>6
  <2> QED
    BY <1>2, <2>1, <2>2, <2>4, <2>7, <2>8 DEF w
<1> QED
  BY <1>1, <1>2

\* The packet of t.
PacketOf(t) == Header(t) \o Packed(t.type, t.value)

PacketsInv ==
  /\ tlv \in Tlvs /\ phase \in {"new", "packed", "refused", "done", "failed"}
  /\ phase \in {"packed", "done", "failed"} =>
       packet = PacketOf(tlv) /\ Fits(tlv.type, Len(tlv.value), Len(tlv.value))
  /\ phase \in {"done", "failed"} /\ sz >= tlv_get_packed_size(tlv) =>
       (phase = "done" <=> tlv.type = TLV_TYPE_BYTES)
  /\ phase = "done" =>
       /\ sz >= Len(tlv.value)
       /\ \/ unpacked = tlv
          \/ sz < tlv_get_packed_size(tlv) /\ Undefined \in ToSet(unpacked.value)

LEMMA TlvIs ==
  ASSUME NEW t \in Tlvs
  PROVE  /\ t = [id |-> t.id, type |-> t.type, value |-> t.value]
         /\ t.id \in Short /\ t.type \in Short /\ t.value \in Seq(0 .. 255)
         /\ Len(t.value) \in Short /\ Len(t.value) \in Nat
         /\ tlv_get_packed_size(t) = 6 + Len(t.value)
<1>1. t \in [id : Short, type : Short, value : Seq(0 .. 255)] /\ Len(t.value) \in Short
  BY TlvAssumption
<1>2. t.value \in Seq(0 .. 255) /\ Len(t.value) \in Nat
  BY <1>1, LenProperties
<1>3. t = [id |-> t.id, type |-> t.type, value |-> t.value]
  BY <1>1
<1>4. t.id \in Short /\ t.type \in Short
  BY <1>1
<1> QED
  BY <1>1, <1>2, <1>3, <1>4 DEF tlv_get_packed_size, HeaderSize

LEMMA PacketIs ==
  ASSUME NEW t \in Tlvs, Fits(t.type, Len(t.value), Len(t.value))
  PROVE  LET q == PacketOf(t)
             v == Packed(t.type, t.value)
         IN  /\ q \in Seq(Nat) /\ Len(q) = 6 + Len(v)
             /\ Ntohs(q, 1) = t.id /\ Ntohs(q, 3) = t.type /\ Ntohs(q, 5) = Len(t.value)
             /\ \A i \in 1 .. Len(v) : q[6 + i] = v[i]
<1>1. Packed(t.type, t.value) \in Seq(Nat)
  BY TlvIs, PackedIs
<1> QED
  BY <1>1, TlvIs, Layout DEF PacketOf, Header, HeaderSize

LEMMA PackKeeps ==
  ASSUME PacketsInv, NEW n \in Sizes, tlv_pack(n) PROVE PacketsInv'
<1>1. phase = "new" /\ tlv' = tlv /\ tlv \in Tlvs
  BY DEF tlv_pack, PacketsInv
<1>2. tlv_get_packed_size(tlv) - HeaderSize = Len(tlv.value)
  BY <1>1, TlvIs DEF HeaderSize
<1>3. \/ /\ phase' = "packed" /\ packet' = PacketOf(tlv)
         /\ Fits(tlv.type, Len(tlv.value), Len(tlv.value))
      \/ phase' = "refused"
  BY <1>1, <1>2 DEF tlv_pack, PacketOf, PacketsInv
<1> QED
  BY <1>1, <1>3 DEF PacketsInv

LEMMA UnpackKeeps ==
  ASSUME PacketsInv, NEW n \in Sizes, tlv_unpack(n) PROVE PacketsInv'
<1> DEFINE at(p) == IF p <= Len(packet) /\ p <= n THEN packet[p] ELSE Undefined
           length == Len(tlv.value)
           w == [i \in 1 .. length |-> at(HeaderSize + i)]
<1>1. /\ tlv \in Tlvs /\ packet = PacketOf(tlv) /\ Fits(tlv.type, length, length)
      /\ phase = "packed"
  BY DEF tlv_unpack, PacketsInv
<1>2. Ntohs(packet, 1) = tlv.id /\ Ntohs(packet, 3) = tlv.type /\ Ntohs(packet, 5) = length
  BY <1>1, PacketIs
<1>3. /\ n >= 6 /\ sz' = n /\ UNCHANGED <<tlv, packet>>
      /\ IF length <= n /\ Unpacks(tlv.type, length)
         THEN /\ phase' = "done"
              /\ unpacked' = [id |-> tlv.id, type |-> tlv.type, value |-> Packed(tlv.type, w)]
         ELSE phase' = "failed" /\ UNCHANGED unpacked
  BY <1>2 DEF tlv_unpack, HeaderSize
<1>4. n \in Nat /\ length \in Nat /\ tlv_get_packed_size(tlv) = 6 + length
  BY <1>1, TlvAssumption, TlvIs
\* Numbers are given no room.
<1>5. Unpacks(tlv.type, length) <=> tlv.type = TLV_TYPE_BYTES
  <2>1. tlv.type \in IntTypes => ~ Width(tlv.type) <= 0 /\ tlv.type # TLV_TYPE_BYTES
    BY DEF IntTypes, Width, TLV_TYPE_BYTES
  <2> QED
    BY <1>4, <2>1 DEF Unpacks, Fits
<1>6. CASE length <= n /\ tlv.type = TLV_TYPE_BYTES
  <2>1. phase' = "done" /\ unpacked' = [id |-> tlv.id, type |-> tlv.type, value |-> w]
    BY <1>3, <1>5, <1>6 DEF Packed
  <2>2. /\ Len(packet) = 6 + length
        /\ \A i \in 1 .. length : packet[6 + i] = tlv.value[i]
    BY <1>1, <1>6, PacketIs, PackedIs, TlvIs
  <2>3. CASE n >= 6 + length
    <3>1. \A i \in 1 .. length : at(HeaderSize + i) = tlv.value[i]
      BY <1>4, <2>2, <2>3 DEF HeaderSize
    <3>2. w = tlv.value
      BY <1>1, <3>1, TlvIs
    <3>3. unpacked' = tlv
      BY <1>1, <2>1, <3>2, TlvIs
    <3> QED
      BY <1>1, <1>3, <1>6, <2>1, <3>3 DEF PacketsInv
  <2>4. CASE ~ n >= 6 + length
    <3>1. length \in 1 .. length /\ at(HeaderSize + length) = Undefined
      BY <1>3, <1>4, <2>2, <2>4 DEF HeaderSize
    <3>2. w[length] = Undefined /\ DOMAIN w = 1 .. length
      BY <3>1
    <3>3. Undefined \in ToSet(w)
      BY <3>1, <3>2 DEF ToSet
    <3> HIDE DEF w
    <3>4. unpacked'.value = w
      BY <2>1
    <3> QED
      BY <1>1, <1>3, <1>4, <1>6, <2>1, <2>4, <3>3, <3>4 DEF PacketsInv
  <2> QED
    BY <2>3, <2>4
<1>7. CASE ~ (length <= n /\ tlv.type = TLV_TYPE_BYTES)
  <2>1. phase' = "failed"
    BY <1>3, <1>5, <1>7
  <2>2. n >= 6 + length => tlv.type # TLV_TYPE_BYTES
    BY <1>4, <1>7
  <2> QED
    BY <1>1, <1>3, <1>4, <2>1, <2>2 DEF PacketsInv
<1> QED
  BY <1>6, <1>7

\* What is packed is the header and the value, high byte first, and comes back when it is
\* bytes and all of it is there, for every length a uint16_t can hold. (tlv_pack,
\* tlv_unpack)
THEOREM RoundTripThm == PacketsSpec => []RoundTrip
<1>1. PacketsInit => PacketsInv
  BY DEF PacketsInit, PacketsInv
<1>2. PacketsInv /\ [PacketsNext]_packetsVars => PacketsInv'
  <2> SUFFICES ASSUME PacketsInv, [PacketsNext]_packetsVars PROVE PacketsInv'
    OBVIOUS
  <2>1. CASE UNCHANGED packetsVars
    BY <2>1 DEF packetsVars, PacketsInv
  <2> QED
    BY <2>1, PackKeeps, UnpackKeeps DEF PacketsNext
<1>3. PacketsInv => RoundTrip
  <2> SUFFICES ASSUME PacketsInv PROVE RoundTrip
    OBVIOUS
  <2>1. ASSUME phase \in {"packed", "done", "failed"}
        PROVE  /\ Len(packet) <= tlv_get_packed_size(tlv)
               /\ tlv.type \in IntTypes =>
                    \A i \in 1 .. Width(tlv.type) :
                       packet[HeaderSize + i] = tlv.value[Width(tlv.type) + 1 - i]
    <3> DEFINE v == Packed(tlv.type, tlv.value)
    <3>1. /\ tlv \in Tlvs /\ packet = PacketOf(tlv)
          /\ Fits(tlv.type, Len(tlv.value), Len(tlv.value))
      BY <2>1 DEF PacketsInv
    <3>2. Len(packet) = 6 + Len(v) /\ \A i \in 1 .. Len(v) : packet[6 + i] = v[i]
      BY <3>1, PacketIs
    <3>3. /\ tlv.type = TLV_TYPE_BYTES => v = tlv.value
          /\ tlv.type \in IntTypes =>
               /\ Width(tlv.type) \in Nat /\ Len(v) = Width(tlv.type)
               /\ Width(tlv.type) <= Len(tlv.value)
               /\ \A i \in 1 .. Width(tlv.type) : v[i] = tlv.value[Width(tlv.type) + 1 - i]
      BY <3>1, PackedIs, TlvIs
    <3>4. tlv.type = TLV_TYPE_BYTES \/ tlv.type \in IntTypes
      BY <3>1 DEF Fits
    <3>5. Len(tlv.value) \in Nat /\ tlv_get_packed_size(tlv) = 6 + Len(tlv.value)
      BY <3>1, TlvIs
    <3> HIDE DEF v
    <3>6. Len(packet) <= tlv_get_packed_size(tlv)
      BY <3>2, <3>3, <3>4, <3>5
    <3> QED
      BY <3>2, <3>3, <3>6 DEF HeaderSize
  <2> QED
    BY <2>1 DEF PacketsInv, RoundTrip
<1> QED
  BY <1>1, <1>2, <1>3, PTL DEF PacketsSpec
==============================================================================
