----------------------------- MODULE HttpdProofs -----------------------------
(***************************************************************************)
(* Theorems about Httpd for any connections, requests, descriptors and     *)
(* sizes of buffers and pipes.                                             *)
(***************************************************************************)
EXTENDS Httpd, FiniteSetTheorems, SequenceTheorems, WellFoundedInduction, TLAPS

Places == {"select", "expire", "aborted"}
Parts == {"remote", "local", "out", "in", "check"}
Count == 0 .. BufSize

ConnRec == [rfd : Fd \cup {Nil}, rread : Count, rwritten : Nat,
            lr : Fd \cup {Nil}, lw : Fd \cup {Nil}, lread : Count, lwritten : Nat,
            gotrequest : BOOLEAN, gotreply : BOOLEAN, cgimode : BOOLEAN,
            ntotal : Nat, nexpected : Nat]
Uses == {"sock", "file", "out", "in", "leaked"}

TypeInv ==
  /\ client \in [Conn -> {"new", "waiting", "open", "closed"}]
  /\ ask \in [Conn -> Request]
  /\ sent \in [Conn -> Nat]
  /\ status \in [Conn -> Nat]
  /\ script \in [Conn -> {"none", "running", "exited"}]
  /\ made \in [Conn -> Nat] /\ outq \in [Conn -> Nat] /\ inq \in [Conn -> Nat]
  /\ fed \in [Conn -> Nat]
  /\ fds \in [Fd -> {Free} \cup Conn \X Uses]
  /\ conn \in [Conn -> ConnRec]
  /\ conns \in Seq(Conn) /\ todo \in Seq(Conn)
  /\ overdue \in SUBSET Conn
  /\ rset \in SUBSET Fd /\ wset \in SUBSET Fd
  /\ at \in Places \cup Parts

\* No connection is twice on a list.
Distinct(s) == \A i, j \in DOMAIN s : s[i] = s[j] => i = j

\* The list, and what is left of a pass over it: a connection whose client has gone
\* stays on the list only until the pass gets to it.
ListInv ==
  /\ Distinct(conns) /\ Distinct(todo)
  /\ ToSet(todo) \subseteq ToSet(conns)
  /\ at \in Parts => todo # <<>>
  /\ at \in {"select", "expire"} => todo = <<>>
  /\ \A c \in Conn : client[c] \in {"new", "waiting"} => c \notin ToSet(conns)
  /\ \A c \in ToSet(conns) : conn[c].rfd # Nil \/ c \in ToSet(todo)

\* What c holds, as d says, is open in files and its own.
Owns(c, d, files) ==
  /\ d.rfd # Nil => files[d.rfd] = <<c, "sock">>
  /\ d.lr # Nil => files[d.lr] = <<c, IF d.cgimode THEN "out" ELSE "file">>
  /\ d.lw # Nil => files[d.lw] = <<c, "in">>

\* Before its request has been read a connection has no local end, and nothing has gone
\* out; only a script has an input.
Shape(d) ==
  /\ ~ d.gotrequest =>
       /\ d.lr = Nil /\ ~ d.cgimode /\ ~ d.gotreply
       /\ d.lread = 0 /\ d.lwritten = 0 /\ d.rwritten = 0 /\ d.ntotal = d.rread
  /\ d.lr = Nil \/ ~ d.cgimode => d.lw = Nil

\* No status line has been sent for d.
Silent(d) == ~ d.gotrequest \/ (d.cgimode /\ ~ d.gotreply /\ (d.lr # Nil \/ d.lread > 0))

\* The script of d, which serves r, has been given n units.
FedBy(d, r, n) ==
  /\ ~ d.gotrequest => n = 0
  /\ d.gotrequest => d.nexpected = r.head + r.body
  /\ d.cgimode /\ d.lr # Nil =>
       /\ d.ntotal = r.head + n + (d.rread - d.rwritten)
       /\ d.lw = Nil => n = r.body

\* A client that may still be sent a status line has had none.
ConnInv(c) ==
  /\ Owns(c, conn[c], fds)
  /\ Shape(conn[c])
  /\ c \notin ToSet(conns) => conn[c] = NewConn
  /\ status[c] <= 1
  /\ client[c] \in {"new", "waiting"} \/ (c \in ToSet(conns) /\ Silent(conn[c]))
       => status[c] = 0
  /\ FedBy(conn[c], ask[c], fed[c])

\* What is marked in rs of d can be read without overrunning its buffers.
Room(d, rs) ==
  /\ d.rfd \in rs => d.rread < BufSize
  /\ d.lr \in rs => d.lread < BufSize

\* The mark that led a pass where it is, and those it has still to ask for.
MarkInv ==
  /\ at = "remote" => k.rfd \in rset /\ k.rread < BufSize
  /\ at \in {"remote", "local"} /\ k.lr \in rset => k.lread < BufSize
  /\ at = "local" => k.lr \in rset
  /\ at = "out" => k.rfd \in wset
  /\ at = "in" => k.lw \in wset
  /\ \A i \in 2 .. Len(todo) : at \in Parts => Room(conn[todo[i]], rset)

IInv == TypeInv /\ ListInv /\ (\A c \in Conn : ConnInv(c)) /\ MarkInv
-----------------------------------------------------------------------------
(* Numbers, names and sequences *)

LEMMA Numbers ==
  /\ Fd \subseteq Nat /\ Nil \notin Fd /\ Nil = 0
  /\ BufSize \in Nat /\ BufSize > 0 /\ CgiHead \in Nat /\ CgiHead > 0
  /\ FileLen \in Nat /\ PipeSize \in Nat
  /\ \A r \in Request : /\ r.head \in Nat /\ r.head > 0 /\ r.body \in Nat /\ r.total \in Nat
                        /\ r.kind \in {"file", "cgi", "error"}
BY HttpdAssumption DEF Nil, Requests

LEMMA TagsApart ==
  /\ \A c, e, x, y : <<c, x>> = <<e, y>> <=> c = e /\ x = y
  /\ \A c, x : Free # <<c, x>>
BY DEF Free

\* A set of natural numbers has a least element, which Min chooses.
LEMMA MinIs ==
  ASSUME NEW S \in SUBSET Nat, S # {} PROVE Min(S) \in S /\ \A n \in S : Min(S) <= n
<1> DEFINE R == OpToRel(<, Nat)
<1>1. IsWellFoundedOn(R, Nat)
  BY NatLessThanWellFounded
<1>2. \A m, n \in Nat : m < n => <<m, n>> \in R
  BY DEF OpToRel
<1> HIDE DEF R
<1>3. \E m \in S : \A n \in S : <<n, m>> \notin R
  BY <1>1, WFMin
<1>4. \A m, n \in S : <<n, m>> \notin R => m <= n
  BY <1>2
<1>5. \E m \in S : \A n \in S : m <= n
  BY <1>3, <1>4
<1> QED
  BY <1>5 DEF Min

LEMMA MinOfTwo ==
  ASSUME NEW a \in Nat, NEW b \in Nat
  PROVE  /\ Min({a, b}) \in {a, b} /\ Min({a, b}) <= a /\ Min({a, b}) <= b
BY MinIs

\* The place a pass goes to is one whose question is answered by yes.
LEMMA FirstIs ==
  ASSUME NEW i \in 1 .. 5, NEW d, NEW rs, NEW ws
  PROVE  LET p == First(i, d, rs, ws)
         IN  /\ p \in Parts
             /\ p = "remote" => i = 1 /\ d.rfd \in rs
             /\ p = "local" => i <= 2 /\ d.lr \in rs
             /\ p = "out" => d.rfd \in ws
             /\ p = "in" => d.lw \in ws
<1> DEFINE asked == [remote |-> d.rfd \in rs, local |-> d.lr \in rs,
                     out |-> d.rfd \in ws, in |-> d.lw \in ws, check |-> TRUE]
           S == {j \in i .. 5 : asked[Stages[j]]}
           m == Min(S)
<1>1. Stages[1] = "remote" /\ Stages[2] = "local" /\ Stages[3] = "out"
      /\ Stages[4] = "in" /\ Stages[5] = "check"
  BY DEF Stages
<1>2. 5 \in S /\ S \in SUBSET Nat
  BY <1>1
<1> HIDE DEF S
<1>3. m \in S
  BY <1>2, MinIs
<1>4. m \in i .. 5 /\ asked[Stages[m]]
  BY <1>3 DEF S
<1>5. First(i, d, rs, ws) = Stages[m]
  BY DEF First, S
<1> HIDE DEF m
<1>5a. m = 1 \/ m = 2 \/ m = 3 \/ m = 4 \/ m = 5
  BY <1>4
<1>5b. /\ asked["remote"] <=> d.rfd \in rs
       /\ asked["local"] <=> d.lr \in rs
       /\ asked["out"] <=> d.rfd \in ws
       /\ asked["in"] <=> d.lw \in ws
  OBVIOUS
<1> HIDE DEF asked
<1>6. /\ m = 1 => i = 1 /\ d.rfd \in rs /\ First(i, d, rs, ws) = "remote"
      /\ m = 2 => i <= 2 /\ d.lr \in rs /\ First(i, d, rs, ws) = "local"
      /\ m = 3 => d.rfd \in ws /\ First(i, d, rs, ws) = "out"
      /\ m = 4 => d.lw \in ws /\ First(i, d, rs, ws) = "in"
      /\ m = 5 => First(i, d, rs, ws) = "check"
  BY <1>1, <1>4, <1>5, <1>5a, <1>5b
<1> QED
  BY <1>5a, <1>6 DEF Parts

LEMMA InSet == \A q, x : x \in ToSet(q) <=> \E i \in DOMAIN q : q[i] = x
BY DEF ToSet

\* What the operations on the list of connections do to it.
LEMMA Appended ==
  ASSUME NEW s \in Seq(Conn), Distinct(s), NEW c \in Conn \ ToSet(s)
  PROVE  /\ Append(s, c) \in Seq(Conn) /\ Distinct(Append(s, c))
         /\ ToSet(Append(s, c)) = ToSet(s) \cup {c}
         /\ Append(s, c) # <<>>
<1> DEFINE t == Append(s, c)
<1>1. /\ t \in Seq(Conn) /\ Len(t) = Len(s) + 1 /\ Len(s) \in Nat
      /\ DOMAIN t = 1 .. Len(s) + 1 /\ DOMAIN s = 1 .. Len(s)
      /\ \A i \in 1 .. Len(s) : t[i] = s[i]
      /\ t[Len(s) + 1] = c
  OBVIOUS
<1> HIDE DEF t
<1>2. \A i \in 1 .. Len(s) + 1 : i \in 1 .. Len(s) \/ i = Len(s) + 1
  BY <1>1
<1>3. \A i \in 1 .. Len(s) : i \in 1 .. Len(s) + 1 /\ s[i] # c
  BY <1>1, InSet
<1>4. Distinct(t)
  BY <1>1, <1>2, <1>3 DEF Distinct
<1>5. ToSet(t) = ToSet(s) \cup {c}
  <2>1. ASSUME NEW x \in ToSet(t) PROVE x \in ToSet(s) \cup {c}
    <3>1. PICK i \in DOMAIN t : t[i] = x
      BY InSet
    <3>2. i \in 1 .. Len(s) => x \in ToSet(s)
      BY <1>1, <3>1, InSet
    <3>3. i = Len(s) + 1 => x = c
      BY <1>1, <3>1
    <3>4. i \in 1 .. Len(s) \/ i = Len(s) + 1
      BY <1>1, <1>2
    <3> QED
      BY <3>2, <3>3, <3>4
  <2>2. \A x : x \in ToSet(s) => x \in ToSet(t)
    BY <1>1, <1>3, InSet
  <2>3. Len(s) + 1 \in DOMAIN t
    BY <1>1
  <2>4. c \in ToSet(t)
    <3>1. t[Len(s) + 1] = c
      BY <1>1
    <3> QED
      BY <2>3, <3>1, InSet
  <2> QED
    BY <2>1, <2>2, <2>4
<1>6. t # <<>>
  BY <1>1
<1> QED
  BY <1>1, <1>4, <1>5, <1>6 DEF t

LEMMA Passed ==
  ASSUME NEW s \in Seq(Conn), Distinct(s), s # <<>>
  PROVE  /\ Tail(s) \in Seq(Conn) /\ Distinct(Tail(s))
         /\ Head(s) \in ToSet(s) /\ Head(s) \in Conn /\ Head(s) = s[1]
         /\ ToSet(Tail(s)) = ToSet(s) \ {Head(s)}
         /\ Len(Tail(s)) = Len(s) - 1 /\ Len(s) \in Nat /\ Len(s) >= 1
         /\ \A i \in 1 .. Len(s) - 1 : Tail(s)[i] = s[i + 1]
<1> DEFINE t == Tail(s)
<1>1. /\ t \in Seq(Conn) /\ Len(s) \in Nat /\ Len(s) >= 1 /\ Len(t) = Len(s) - 1
      /\ DOMAIN t = 1 .. Len(s) - 1 /\ DOMAIN s = 1 .. Len(s)
      /\ \A i \in 1 .. Len(s) - 1 : t[i] = s[i + 1]
      /\ Head(s) = s[1] /\ Head(s) \in Conn
  OBVIOUS
<1> HIDE DEF t
<1>2. \A i \in 1 .. Len(s) - 1 : i + 1 \in 1 .. Len(s) /\ i + 1 # 1 /\ i \in Int
  BY <1>1
<1>3. Distinct(t)
  <2> SUFFICES ASSUME NEW i \in 1 .. Len(s) - 1, NEW j \in 1 .. Len(s) - 1, t[i] = t[j]
               PROVE  i = j
    BY <1>1 DEF Distinct
  <2>1. s[i + 1] = s[j + 1]
    BY <1>1
  <2>2. i + 1 = j + 1
    BY <1>1, <1>2, <2>1 DEF Distinct
  <2> QED
    BY <1>2, <2>2
<1>4. 1 \in 1 .. Len(s)
  BY <1>1
<1>5. \A x : x \in ToSet(t) => x \in ToSet(s) /\ x # s[1]
  <2> SUFFICES ASSUME NEW i \in 1 .. Len(s) - 1 PROVE t[i] \in ToSet(s) /\ t[i] # s[1]
    BY <1>1, InSet
  <2> QED
    BY <1>1, <1>2, <1>4, InSet DEF Distinct
<1>6. \A x : x \in ToSet(s) /\ x # s[1] => x \in ToSet(t)
  <2> SUFFICES ASSUME NEW i \in 1 .. Len(s), s[i] # s[1] PROVE s[i] \in ToSet(t)
    BY <1>1, InSet
  <2>1. i - 1 \in 1 .. Len(s) - 1 /\ (i - 1) + 1 = i
    BY <1>1
  <2>2. t[i - 1] = s[i]
    BY <1>1, <2>1
  <2> QED
    BY <1>1, <2>1, <2>2, InSet
<1>7. Head(s) \in ToSet(s)
  BY <1>1, <1>4, InSet
<1> QED
  BY <1>1, <1>3, <1>5, <1>6, <1>7 DEF t

LEMMA Removed ==
  ASSUME NEW s \in Seq(Conn), Distinct(s), NEW i \in DOMAIN s
  PROVE  /\ RemoveAt(s, i) \in Seq(Conn) /\ Distinct(RemoveAt(s, i))
         /\ ToSet(RemoveAt(s, i)) = ToSet(s) \ {s[i]}
<1> DEFINE t == RemoveAt(s, i)
           From(j) == IF j < i THEN j ELSE j + 1
<1>1. Len(s) \in Nat /\ DOMAIN s = 1 .. Len(s) /\ i \in 1 .. Len(s)
  OBVIOUS
<1>2. /\ SubSeq(s, 1, i - 1) \in Seq(Conn) /\ Len(SubSeq(s, 1, i - 1)) = i - 1
      /\ SubSeq(s, i + 1, Len(s)) \in Seq(Conn) /\ Len(SubSeq(s, i + 1, Len(s))) = Len(s) - i
      /\ \A j \in 1 .. i - 1 : SubSeq(s, 1, i - 1)[j] = s[j]
      /\ \A j \in 1 .. Len(s) - i : SubSeq(s, i + 1, Len(s))[j] = s[i + j]
  <2>1. /\ i - 1 \in Int /\ i + 1 \in Int /\ Len(s) \in Int
        /\ \A j \in 1 .. i - 1 : s[j] \in Conn /\ 1 + j - 1 = j
        /\ \A j \in i + 1 .. Len(s) : s[j] \in Conn
        /\ (IF 1 <= i - 1 THEN i - 1 - 1 + 1 ELSE 0) = i - 1 /\ i - 1 - 1 + 1 = i - 1
        /\ (IF i + 1 <= Len(s) THEN Len(s) - (i + 1) + 1 ELSE 0) = Len(s) - i
        /\ Len(s) - (i + 1) + 1 = Len(s) - i
        /\ \A j \in 1 .. Len(s) - i : (i + 1) + j - 1 = i + j
    BY <1>1
  <2>2. /\ SubSeq(s, 1, i - 1) \in Seq(Conn) /\ Len(SubSeq(s, 1, i - 1)) = i - 1
        /\ \A j \in 1 .. i - 1 : SubSeq(s, 1, i - 1)[j] = s[j]
    BY <2>1, SubSeqProperties
  <2>3. /\ SubSeq(s, i + 1, Len(s)) \in Seq(Conn) /\ Len(SubSeq(s, i + 1, Len(s))) = Len(s) - i
        /\ \A j \in 1 .. Len(s) - i : SubSeq(s, i + 1, Len(s))[j] = s[i + j]
    BY <2>1, SubSeqProperties
  <2> QED
    BY <2>2, <2>3
<1>3. /\ t \in Seq(Conn) /\ Len(t) = Len(s) - 1 /\ DOMAIN t = 1 .. Len(s) - 1
      /\ \A j \in 1 .. Len(s) - 1 : t[j] = s[From(j)]
  <2>1. \A j \in 1 .. Len(s) - 1 :
          /\ j < i => j \in 1 .. i - 1
          /\ ~ j < i => j - (i - 1) \in 1 .. Len(s) - i /\ i + (j - (i - 1)) = j + 1
          /\ j \in 1 .. (i - 1) + (Len(s) - i)
    BY <1>1
  <2> DEFINE a == SubSeq(s, 1, i - 1)
             b == SubSeq(s, i + 1, Len(s))
  <2>2. t = a \o b
    BY DEF RemoveAt
  <2>3. /\ a \in Seq(Conn) /\ Len(a) = i - 1 /\ b \in Seq(Conn) /\ Len(b) = Len(s) - i
        /\ \A j \in 1 .. i - 1 : a[j] = s[j]
        /\ \A j \in 1 .. Len(s) - i : b[j] = s[i + j]
    BY <1>2
  <2> HIDE DEF a, b, t
  <2>4. /\ t \in Seq(Conn) /\ Len(t) = Len(a) + Len(b)
        /\ \A j \in 1 .. Len(a) + Len(b) :
             t[j] = IF j <= Len(a) THEN a[j] ELSE b[j - Len(a)]
    BY <2>2, <2>3, ConcatProperties
  <2>5. /\ Len(a) + Len(b) = Len(s) - 1
        /\ \A j \in 1 .. Len(s) - 1 : j <= Len(a) <=> j < i
    BY <1>1, <2>3
  <2>6. t \in Seq(Conn) /\ Len(t) = Len(s) - 1 /\ DOMAIN t = 1 .. Len(s) - 1
    BY <2>4, <2>5
  <2>7. ASSUME NEW j \in 1 .. Len(s) - 1 PROVE t[j] = s[From(j)]
    <3>1. CASE j < i
      BY <2>1, <2>3, <2>4, <2>5, <3>1
    <3>2. CASE ~ j < i
      <4>1. t[j] = b[j - (i - 1)]
        BY <2>3, <2>4, <2>5, <3>2
      <4> QED
        BY <2>1, <2>3, <3>2, <4>1
    <3> QED
      BY <3>1, <3>2
  <2> QED
    BY <2>6, <2>7
<1> HIDE DEF t
<1>4. \A j \in 1 .. Len(s) - 1 : From(j) \in 1 .. Len(s) /\ From(j) # i
  BY <1>1
<1>5. \A j, m \in 1 .. Len(s) - 1 : From(j) = From(m) => j = m
  BY <1>1
<1>6. \A n \in 1 .. Len(s) : n # i => \E j \in 1 .. Len(s) - 1 : From(j) = n
  <2> SUFFICES ASSUME NEW n \in 1 .. Len(s), n # i
               PROVE  \E j \in 1 .. Len(s) - 1 : From(j) = n
    OBVIOUS
  <2>1. CASE n < i
    <3>1. n \in 1 .. Len(s) - 1 /\ From(n) = n
      BY <1>1, <2>1
    <3> QED
      BY <3>1
  <2>2. CASE n > i
    <3>1. n - 1 \in 1 .. Len(s) - 1 /\ From(n - 1) = n
      BY <1>1, <2>2
    <3> QED
      BY <3>1
  <2> QED
    BY <1>1, <2>1, <2>2
<1> HIDE DEF From
<1>7. Distinct(t)
  <2> SUFFICES ASSUME NEW j \in 1 .. Len(s) - 1, NEW m \in 1 .. Len(s) - 1, t[j] = t[m]
               PROVE  j = m
    BY <1>3 DEF Distinct
  <2>1. From(j) = From(m)
    BY <1>1, <1>3, <1>4 DEF Distinct
  <2> QED
    BY <1>5, <2>1
<1>8. ASSUME NEW x \in ToSet(t) PROVE x \in ToSet(s) /\ x # s[i]
  <2>1. PICK j \in 1 .. Len(s) - 1 : t[j] = x
    BY <1>3, InSet
  <2>2. s[From(j)] = x /\ From(j) \in 1 .. Len(s) /\ From(j) # i
    BY <1>3, <1>4, <2>1
  <2> QED
    BY <1>1, <2>2, InSet DEF Distinct
<1>9. ASSUME NEW x \in ToSet(s), x # s[i] PROVE x \in ToSet(t)
  <2>1. PICK n \in 1 .. Len(s) : s[n] = x
    BY <1>1, InSet
  <2>1a. n # i
    BY <1>9, <2>1
  <2>2. PICK j \in 1 .. Len(s) - 1 : From(j) = n
    BY <1>6, <2>1a
  <2> QED
    BY <1>3, <2>1, <2>2, InSet
<1> QED
  BY <1>3, <1>7, <1>8, <1>9 DEF t
-----------------------------------------------------------------------------
(* Steps that leave a connection alone *)

\* Descriptors of one connection differ from each other, and from another's.
LEMMA Apart ==
  ASSUME TypeInv, NEW c \in Conn, ConnInv(c), NEW e \in Conn, ConnInv(e)
  PROVE  /\ \A f \in Held(conn[c]) : f \in Fd /\ fds[f] # Free
         /\ c # e => Held(conn[c]) \cap Held(conn[e]) = {}
         /\ conn[c].rfd # Nil => conn[c].rfd # conn[e].lr /\ conn[c].rfd # conn[e].lw
         /\ conn[c].lr # Nil => conn[c].lr # conn[e].lw
<1>1. conn[c] \in ConnRec /\ conn[e] \in ConnRec
  BY DEF TypeInv
<1>2. Owns(c, conn[c], fds) /\ Owns(e, conn[e], fds)
  BY DEF ConnInv
<1>3. \A f \in Held(conn[c]) : f \in Fd /\ fds[f] # Free
  BY <1>1, <1>2, TagsApart DEF Held, Owns, ConnRec
<1>4. ASSUME c # e, NEW f \in Held(conn[c]) PROVE f \notin Held(conn[e])
  <2>1. \E x : fds[f] = <<c, x>>
    BY <1>2 DEF Held, Owns
  <2>2. f \in Held(conn[e]) => \E x : fds[f] = <<e, x>>
    BY <1>2 DEF Held, Owns
  <2> QED
    BY <1>4, <2>1, <2>2, TagsApart
<1>5. conn[c].rfd # Nil => conn[c].rfd # conn[e].lr /\ conn[c].rfd # conn[e].lw
  BY <1>2, TagsApart DEF Owns
<1>6. conn[c].lr # Nil => conn[c].lr # conn[e].lw
  BY <1>2, TagsApart DEF Owns
<1> QED
  BY <1>3, <1>4, <1>5, <1>6

LEMMA Untouched ==
  ASSUME NEW c \in Conn, ConnInv(c), ask' = ask, client'[c] = client[c],
         conn'[c] = conn[c], status'[c] = status[c], fed'[c] = fed[c],
         c \in ToSet(conns') <=> c \in ToSet(conns),
         \A f \in Held(conn[c]) : fds'[f] = fds[f]
  PROVE  ConnInv(c)'
<1>1. Owns(c, conn[c], fds')
  BY DEF ConnInv, Owns, Held
<1> QED
  BY <1>1 DEF ConnInv

\* A step of the environment.
LEMMA Outside ==
  ASSUME IInv, TypeInv', UNCHANGED <<ask, status, fed, fds, conn, conns, rset, wset, at, todo>>,
         \A c \in Conn : client'[c] \in {"new", "waiting"} => client[c] \in {"new", "waiting"}
  PROVE  IInv'
<1>1. ListInv'
  BY DEF IInv, ListInv
<1>2. ASSUME NEW c \in Conn PROVE ConnInv(c)'
  BY DEF IInv, ConnInv
<1>3. MarkInv'
  BY DEF IInv, MarkInv, cur, k
<1> QED
  BY <1>1, <1>2, <1>3 DEF IInv
-----------------------------------------------------------------------------
(* A visit of a connection *)

\* What holds of the connection a pass is at.
LEMMA Visited ==
  ASSUME IInv, at \in Parts
  PROVE  /\ cur \in Conn /\ cur \in ToSet(conns) /\ k = conn[cur] /\ k \in ConnRec
         /\ ConnInv(cur) /\ client[cur] \notin {"new", "waiting"}
         /\ todo \in Seq(Conn) /\ todo # <<>> /\ Distinct(todo)
         /\ cur = todo[1] /\ Len(todo) \in Nat /\ Len(todo) >= 1
         /\ \A i \in 2 .. Len(todo) : todo[i] \in Conn /\ todo[i] # cur
<1>1. todo \in Seq(Conn) /\ todo # <<>> /\ Distinct(todo)
  BY DEF IInv, TypeInv, ListInv
<1>2. /\ cur \in Conn /\ cur \in ToSet(todo) /\ cur = todo[1]
      /\ Len(todo) \in Nat /\ Len(todo) >= 1
  BY <1>1, Passed DEF cur
<1>3. \A i \in 2 .. Len(todo) : todo[i] \in Conn /\ todo[i] # cur
  <2> SUFFICES ASSUME NEW i \in 2 .. Len(todo) PROVE todo[i] \in Conn /\ todo[i] # todo[1]
    BY <1>2
  <2>1. i \in DOMAIN todo /\ 1 \in DOMAIN todo /\ i # 1 /\ todo[i] \in Conn
    BY <1>1, <1>2
  <2> QED
    BY <1>1, <2>1 DEF Distinct
<1>4. cur \in ToSet(conns)
  BY <1>2 DEF IInv, ListInv
<1>5. client[cur] \notin {"new", "waiting"}
  BY <1>2, <1>4 DEF IInv, ListInv
<1>6. k = conn[cur] /\ k \in ConnRec /\ ConnInv(cur)
  BY <1>2 DEF IInv, TypeInv, k
<1> QED
  BY <1>1, <1>2, <1>3, <1>4, <1>5, <1>6

\* The descriptors that a step neither closes nor opens stay as they were.
LEMMA Kept ==
  ASSUME NEW d, NEW closed, NEW opened, Becomes(d, closed, opened),
         DOMAIN opened \subseteq FreeFds, NEW f \in Fd, fds[f] # Free, f \notin closed
  PROVE  fds'[f] = fds[f]
BY DEF Becomes, FreeFds

\* The types of the variables a step of a pass may change besides the server's.
VisitTypes ==
  /\ sent \in [Conn -> Nat] /\ status \in [Conn -> Nat]
  /\ script \in [Conn -> {"none", "running", "exited"}]
  /\ made \in [Conn -> Nat] /\ outq \in [Conn -> Nat] /\ inq \in [Conn -> Nat]
  /\ fed \in [Conn -> Nat]
  /\ overdue \in SUBSET Conn

\* What a step of a pass may do to the connection it is at.
LEMMA Step ==
  ASSUME IInv, at \in Parts,
         NEW d \in ConnRec, NEW closed \in SUBSET {k.rfd, k.lr, k.lw}, NEW opened,
         Becomes(d, closed, opened), DOMAIN opened \subseteq FreeFds,
         \A f \in DOMAIN opened : opened[f] \in Conn \X Uses,
         NEW i \in 2 .. 5, NEW marked \in SUBSET Fd, OnTo(i, marked),
         client' = client, ask' = ask, VisitTypes',
         \A c \in Conn \ {cur} : status'[c] = status[c] /\ fed'[c] = fed[c],
         Owns(cur, d, fds'), Shape(d), FedBy(d, ask[cur], fed'[cur]),
         status'[cur] <= 1, Silent(d) => status'[cur] = 0,
         i <= 2 /\ d.lr \in rset => d.lread < BufSize
  PROVE  IInv'
<1>1. /\ cur \in Conn /\ cur \in ToSet(conns) /\ k = conn[cur] /\ k \in ConnRec
      /\ ConnInv(cur) /\ client[cur] \notin {"new", "waiting"}
      /\ todo \in Seq(Conn) /\ todo # <<>> /\ cur = todo[1]
      /\ \A j \in 2 .. Len(todo) : todo[j] \in Conn /\ todo[j] # cur
  BY Visited
<1>2. conn' = [conn EXCEPT ![cur] = d] /\ conn'[cur] = d
      /\ \A c \in Conn \ {cur} : conn'[c] = conn[c]
  BY <1>1 DEF Becomes, IInv, TypeInv
<1>3. conns' = conns /\ todo' = todo /\ rset' = rset /\ cur' = cur /\ k' = d
  BY <1>2 DEF OnTo, cur, k
<1>4. /\ at' \in Parts /\ at' # "remote"
      /\ at' = "local" => i <= 2 /\ d.lr \in rset
      /\ at' = "out" => d.rfd \in wset'
      /\ at' = "in" => d.lw \in wset'
  <2>1. at' = First(i, d, rset, wset') /\ i \in 1 .. 5 /\ i # 1
    BY <1>2 DEF OnTo
  <2> QED
    BY <2>1, FirstIs
<1>5. TypeInv'
  <2>1. conn' \in [Conn -> ConnRec]
    BY <1>1, <1>2 DEF IInv, TypeInv
  <2>2. fds' \in [Fd -> {Free} \cup Conn \X Uses]
    BY DEF Becomes, IInv, TypeInv
  <2>3. wset' \in SUBSET Fd
    BY DEF OnTo, IInv, TypeInv
  <2> QED
    BY <1>3, <1>4, <2>1, <2>2, <2>3 DEF IInv, TypeInv, VisitTypes
<1>6. ListInv'
  <2>1. at' \notin {"select", "expire"}
    BY <1>4 DEF Parts
  <2>2. cur \in ToSet(todo)
    BY <1>1, Passed DEF IInv, ListInv, cur
  <2>3. \A c \in ToSet(conns) : c \in Conn
    BY InSet DEF IInv, TypeInv
  <2> QED
    BY <1>1, <1>2, <1>3, <2>1, <2>2, <2>3 DEF IInv, ListInv
<1>7. ASSUME NEW c \in Conn PROVE ConnInv(c)'
  <2>1. CASE c = cur
    BY <1>1, <1>2, <1>3, <2>1 DEF ConnInv
  <2>2. CASE c # cur
    <3>1. ConnInv(c) /\ TypeInv
      BY DEF IInv
    <3>2. \A f \in Held(conn[c]) : f \in Fd /\ fds[f] # Free
      BY <3>1, Apart
    <3>3. \A f \in Held(conn[c]) : f \notin Held(conn[cur])
      BY <1>1, <2>2, <3>1, Apart
    <3>4. \A f \in Held(conn[c]) : f \notin closed
      BY <1>1, <3>3 DEF Held
    <3>5. \A f \in Held(conn[c]) : fds'[f] = fds[f]
      BY <3>2, <3>4, Kept
    <3> QED
      BY <1>2, <1>3, <2>2, <3>1, <3>5, Untouched
  <2> QED
    BY <2>1, <2>2
<1>8. MarkInv'
  <2>1. \A j \in 2 .. Len(todo) : Room(conn'[todo[j]], rset)
    BY <1>1, <1>2 DEF IInv, MarkInv
  <2> QED
    BY <1>3, <1>4, <2>1 DEF MarkInv
<1> QED
  BY <1>5, <1>6, <1>7, <1>8 DEF IInv
\* d keeps the descriptors it has, besides closed.
Stays(d, closed) ==
  /\ d.rfd # Nil => d.rfd = k.rfd /\ d.rfd \notin closed
  /\ d.lr # Nil => d.lr = k.lr /\ d.lr \notin closed /\ d.cgimode = k.cgimode
  /\ d.lw # Nil => d.lw = k.lw /\ d.lw \notin closed

\* A step that opens nothing.
LEMMA Closing ==
  ASSUME IInv, at \in Parts,
         NEW d \in ConnRec, NEW closed \in SUBSET {k.rfd, k.lr, k.lw},
         Becomes(d, closed, <<>>), Stays(d, closed),
         NEW i \in 2 .. 5, NEW marked \in SUBSET Fd, OnTo(i, marked),
         client' = client, ask' = ask, VisitTypes',
         \A c \in Conn \ {cur} : status'[c] = status[c] /\ fed'[c] = fed[c],
         Shape(d), FedBy(d, ask[cur], fed'[cur]),
         status'[cur] <= 1, Silent(d) => status'[cur] = 0,
         i <= 2 /\ d.lr \in rset => d.lread < BufSize
  PROVE  IInv'
<1>1. cur \in Conn /\ k = conn[cur] /\ ConnInv(cur)
  BY Visited
<1>2. DOMAIN <<>> = {}
  OBVIOUS
<1>3. \A f \in Held(k) : f \in Fd /\ fds[f] # Free
  BY <1>1, Apart DEF IInv
<1>4. ASSUME NEW f \in Held(k), f \notin closed PROVE fds'[f] = fds[f]
  BY <1>2, <1>3, <1>4, Kept
<1>5. Owns(cur, d, fds')
  BY <1>1, <1>4 DEF Owns, ConnInv, Stays, Held
<1> QED
  BY <1>2, <1>5, Step

-----------------------------------------------------------------------------
(* The initial states, and the actions one after another *)

LEMMA InitIInv == Init => IInv
<1> SUFFICES ASSUME Init PROVE IInv
  OBVIOUS
<1>1. NewConn \in ConnRec
  BY Numbers DEF NewConn, ConnRec, Count
<1>2. TypeInv
  BY <1>1 DEF Init, TypeInv, Places
<1>3. ToSet(conns) = {} /\ conns = <<>> /\ todo = <<>> /\ at = "select"
  BY InSet DEF Init
<1>4. ListInv
  BY <1>3 DEF ListInv, Distinct, Init, Parts
<1>5. ASSUME NEW c \in Conn PROVE ConnInv(c)
  <2>1. /\ conn[c] = NewConn /\ fed[c] = 0 /\ status[c] = 0
    BY DEF Init
  <2> QED
    BY <1>3, <2>1 DEF ConnInv, Owns, Shape, FedBy, NewConn
<1>6. MarkInv
  BY <1>3 DEF MarkInv, Parts
<1> QED
  BY <1>2, <1>4, <1>5, <1>6 DEF IInv

LEMMA OutsideSteps ==
  ASSUME IInv, NEW c \in Conn,
         \/ Connect(c) \/ ClientSend(c) \/ ClientClose(c)
         \/ ScriptRead(c) \/ ScriptWrite(c) \/ ScriptExit(c) \/ TimePasses(c)
  PROVE  IInv'
<1>1. TypeInv
  BY DEF IInv
<1>2. CASE Connect(c)
  <2>1. TypeInv'
    BY <1>1, <1>2 DEF Connect, TypeInv, server, clients, scripts, pipes
  <2> QED
    BY <1>1, <1>2, <2>1, Outside DEF Connect, server, clients, scripts, pipes, TypeInv
<1>3. CASE ClientSend(c)
  <2>0. sent' \in [Conn -> Nat]
    BY <1>1, <1>3 DEF ClientSend, TypeInv
  <2>1. TypeInv'
    BY <1>1, <1>3, <2>0 DEF ClientSend, TypeInv, server, clients, scripts, pipes
  <2> QED
    BY <1>3, <2>1, Outside DEF ClientSend, server, clients, scripts, pipes
<1>4. CASE ClientClose(c)
  <2>1. TypeInv'
    BY <1>1, <1>4 DEF ClientClose, TypeInv, server, clients, scripts, pipes
  <2> QED
    BY <1>1, <1>4, <2>1, Outside DEF ClientClose, server, clients, scripts, pipes, TypeInv
<1>5. CASE ScriptRead(c)
  <2>0. inq' \in [Conn -> Nat]
    BY <1>1, <1>5 DEF ScriptRead, TypeInv
  <2>1. TypeInv'
    BY <1>1, <1>5, <2>0 DEF ScriptRead, TypeInv, server, clients, scripts, pipes
  <2> QED
    BY <1>5, <2>1, Outside DEF ScriptRead, server, clients, scripts, pipes
<1>6. CASE ScriptWrite(c)
  <2>0. outq' \in [Conn -> Nat] /\ made' \in [Conn -> Nat]
    BY <1>1, <1>6 DEF ScriptWrite, TypeInv
  <2>1. TypeInv'
    BY <1>1, <1>6, <2>0 DEF ScriptWrite, TypeInv, server, clients, scripts, pipes
  <2> QED
    BY <1>6, <2>1, Outside DEF ScriptWrite, server, clients, scripts, pipes
<1>7. CASE ScriptExit(c)
  <2>1. TypeInv'
    BY <1>1, <1>7 DEF ScriptExit, TypeInv, server, clients, scripts, pipes
  <2> QED
    BY <1>7, <2>1, Outside DEF ScriptExit, server, clients, scripts, pipes
<1>8. CASE TimePasses(c)
  <2>1. TypeInv'
    BY <1>1, <1>8 DEF TimePasses, TypeInv, server, clients, scripts, pipes
  <2> QED
    BY <1>8, <2>1, Outside DEF TimePasses, server, clients, scripts, pipes
<1> QED
  BY <1>2, <1>3, <1>4, <1>5, <1>6, <1>7, <1>8

LEMMA RemoteEndsStep == IInv /\ RemoteEnds => IInv'
<1> SUFFICES ASSUME IInv, RemoteEnds PROVE IInv'
  OBVIOUS
<1> DEFINE d == CloseRemote(k)
<1>1. at \in Parts /\ at = "remote"
  BY DEF RemoteEnds, Parts
<1>2. cur \in Conn /\ k = conn[cur] /\ k \in ConnRec /\ ConnInv(cur)
      /\ cur \in ToSet(conns)
  BY <1>1, Visited
<1>3. /\ d \in ConnRec /\ d.rfd = Nil /\ d.lr = k.lr /\ d.lw = k.lw
      /\ d.cgimode = k.cgimode /\ d.gotrequest = k.gotrequest /\ d.gotreply = k.gotreply
      /\ d.lread = k.lread /\ d.lwritten = k.lwritten /\ d.rread = k.rread
      /\ d.rwritten = k.rwritten /\ d.ntotal = k.ntotal /\ d.nexpected = k.nexpected
  BY <1>2 DEF CloseRemote, ConnRec
<1>4. Becomes(d, {k.rfd}, <<>>) /\ OnTo(2, {})
  BY DEF RemoteEnds
<1>5. Stays(d, {k.rfd})
  BY <1>2, <1>3, Apart DEF Stays, IInv
<1>6. Shape(d) /\ FedBy(d, ask[cur], fed[cur]) /\ Silent(d) = Silent(k)
  BY <1>2, <1>3 DEF ConnInv, Shape, FedBy, Silent
<1>7. status[cur] <= 1 /\ (Silent(k) => status[cur] = 0)
  BY <1>2 DEF ConnInv
<1>8. d.lr \in rset => d.lread < BufSize
  BY <1>1, <1>3 DEF IInv, MarkInv
<1>9. VisitTypes' /\ client' = client /\ ask' = ask /\ status' = status /\ fed' = fed
  BY <1>2 DEF RemoteEnds, Heard, VisitTypes, clients, scripts, pipes, IInv, TypeInv
<1>10. 2 \in 2 .. 5 /\ {} \in SUBSET Fd /\ {k.rfd} \in SUBSET {k.rfd, k.lr, k.lw}
  OBVIOUS
<1> HIDE DEF d
<1> QED
  BY <1>1, <1>3, <1>4, <1>5, <1>6, <1>7, <1>8, <1>9, <1>10, Closing

\* A step of the local end, after which reply() may send a status line.
LEMMA Replied ==
  ASSUME IInv, at \in Parts,
         NEW e \in ConnRec, NEW closed \in SUBSET {k.rfd, k.lr, k.lw},
         Reply(e, closed), Stays(e, closed), OnTo(3, ToClient(conn'[cur])),
         Shape(e), FedBy(e, ask[cur], fed[cur]), e.gotrequest,
         e.cgimode /\ ~ e.gotreply /\ e.lread > 0 => Silent(k),
         Silent(e) => Silent(k),
         UNCHANGED <<client, ask, sent, script, inq, fed>>,
         outq' \in [Conn -> Nat], made' \in [Conn -> Nat], overdue' \in SUBSET Conn
  PROVE  IInv'
<1>1. cur \in Conn /\ cur \in ToSet(conns) /\ k = conn[cur] /\ ConnInv(cur)
  BY Visited
<1>2. status[cur] <= 1 /\ (Silent(k) => status[cur] = 0) /\ status[cur] \in Nat
  BY <1>1 DEF ConnInv, IInv, TypeInv
<1>3. 3 \in 2 .. 5 /\ ~ 3 <= 2
  OBVIOUS
<1>4. CASE e.cgimode /\ ~ e.gotreply /\ e.lread >= CgiHead
  <2> DEFINE d == [e EXCEPT !.gotreply = TRUE]
  <2>1. Becomes(d, closed, <<>>) /\ status' = [status EXCEPT ![cur] = @ + 1]
    BY <1>4 DEF Reply, SendsStatus
  <2>2. /\ d \in ConnRec /\ d.lread = e.lread /\ d.gotrequest = e.gotrequest
        /\ d.rfd = e.rfd /\ d.lr = e.lr /\ d.lw = e.lw /\ d.cgimode = e.cgimode
        /\ d.gotreply = TRUE /\ d.rread = e.rread /\ d.rwritten = e.rwritten
        /\ d.lwritten = e.lwritten /\ d.ntotal = e.ntotal /\ d.nexpected = e.nexpected
    BY DEF ConnRec
  <2> HIDE DEF d
  <2>3. conn'[cur] = d /\ ToClient(d) \in SUBSET Fd
    BY <1>1, <2>1, <2>2 DEF Becomes, IInv, TypeInv, ToClient, ConnRec
  <2>4. Stays(d, closed) /\ Shape(d) /\ FedBy(d, ask[cur], fed[cur]) /\ ~ Silent(d)
    BY <2>2 DEF Stays, Shape, FedBy, Silent
  <2>5. Silent(k)
    BY <1>4, Numbers DEF ConnRec, Count
  <2>6. /\ status' \in [Conn -> Nat] /\ status'[cur] = 1
        /\ \A c \in Conn \ {cur} : status'[c] = status[c]
    BY <1>1, <1>2, <2>1, <2>5 DEF IInv, TypeInv
  <2>7. VisitTypes'
    BY <2>6 DEF VisitTypes, IInv, TypeInv
  <2>8. OnTo(3, ToClient(d))
    BY <2>3
  <2> QED
    BY <1>3, <2>1, <2>2, <2>3, <2>4, <2>6, <2>7, <2>8, Closing
<1>5. CASE ~ (e.cgimode /\ ~ e.gotreply /\ e.lread >= CgiHead)
  <2>1. Becomes(e, closed, <<>>) /\ status' = status
    BY <1>5 DEF Reply
  <2>2. conn'[cur] = e /\ ToClient(e) \in SUBSET Fd
    BY <1>1, <2>1 DEF Becomes, IInv, TypeInv, ToClient, ConnRec
  <2>3. VisitTypes'
    BY <2>1 DEF VisitTypes, IInv, TypeInv
  <2>4. OnTo(3, ToClient(e))
    BY <2>2
  <2> QED
    BY <1>2, <1>3, <2>1, <2>2, <2>3, <2>4, Closing
<1> QED
  BY <1>4, <1>5

LEMMA PullLocalStep == IInv /\ PullLocal => IInv'
<1> SUFFICES ASSUME IInv, PullLocal PROVE IInv'
  OBVIOUS
<1> DEFINE n == Min({Left, BufSize - k.lread})
           e == [k EXCEPT !.lread = @ + n]
<1>1. at \in Parts /\ at = "local" /\ Left > 0
  BY DEF PullLocal, Parts
<1>2. cur \in Conn /\ k = conn[cur] /\ k \in ConnRec /\ ConnInv(cur)
  BY <1>1, Visited
<1>3. k.lr # Nil /\ k.lread < BufSize /\ k.gotrequest
  BY <1>1, <1>2, Numbers DEF IInv, MarkInv, TypeInv, ConnInv, Shape
<1>4. /\ n \in Nat /\ n <= Left /\ n <= BufSize - k.lread /\ k.lread \in Nat
      /\ k.lread + n \in Count /\ n > 0
  <2>1. /\ k.lread \in Nat /\ k.lread < BufSize /\ BufSize \in Nat
    BY <1>2, <1>3, Numbers DEF ConnRec, Count
  <2>2. outq[cur] \in Nat /\ made[cur] \in Nat /\ FileLen \in Nat
    BY <1>2, Numbers DEF IInv, TypeInv
  <2>3. Left \in Nat
    BY <1>1, <2>2 DEF Left
  <2>4. BufSize - k.lread \in Nat /\ BufSize - k.lread > 0
    BY <2>1
  <2> HIDE DEF Left
  <2>5. n \in {Left, BufSize - k.lread} /\ n <= Left /\ n <= BufSize - k.lread
    BY <2>3, <2>4, MinOfTwo
  <2> HIDE DEF n
  <2> QED
    BY <1>1, <2>1, <2>3, <2>4, <2>5 DEF Count
<1> HIDE DEF n
<1>5. /\ e \in ConnRec /\ e.lread = k.lread + n /\ e.gotrequest = k.gotrequest
      /\ e.rfd = k.rfd /\ e.lr = k.lr /\ e.lw = k.lw /\ e.cgimode = k.cgimode
      /\ e.gotreply = k.gotreply /\ e.rread = k.rread /\ e.rwritten = k.rwritten
      /\ e.lwritten = k.lwritten /\ e.ntotal = k.ntotal /\ e.nexpected = k.nexpected
  BY <1>2, <1>4 DEF ConnRec
<1>6. /\ Reply(e, {})
      /\ IF k.cgimode THEN outq' = [outq EXCEPT ![cur] = @ - n] /\ UNCHANGED made
         ELSE made' = [made EXCEPT ![cur] = @ + n] /\ UNCHANGED outq
      /\ Heard /\ OnTo(3, ToClient(conn'[cur]))
      /\ UNCHANGED <<client, ask, sent, script, inq, fed>>
  BY DEF PullLocal, n, clients
<1> HIDE DEF e
<1>7. /\ outq' \in [Conn -> Nat] /\ made' \in [Conn -> Nat]
      /\ overdue' \in SUBSET Conn
  <2>1. k.cgimode => outq[cur] - n \in Nat
    BY <1>2, <1>4 DEF IInv, TypeInv, Left
  <2>2. made[cur] + n \in Nat
    BY <1>2, <1>4 DEF IInv, TypeInv
  <2> QED
    BY <1>2, <1>6, <2>1, <2>2 DEF IInv, TypeInv, Heard
<1>8. Shape(k) /\ FedBy(k, ask[cur], fed[cur])
  BY <1>2 DEF ConnInv
<1>9. /\ Stays(e, {}) /\ Shape(e) /\ FedBy(e, ask[cur], fed[cur]) /\ e.gotrequest
      /\ e.cgimode /\ ~ e.gotreply => Silent(k)
      /\ Silent(e) => Silent(k)
  BY <1>3, <1>5, <1>8 DEF Stays, Shape, FedBy, Silent
<1>10. {} \in SUBSET {k.rfd, k.lr, k.lw}
  OBVIOUS
<1> QED
  BY <1>1, <1>5, <1>6, <1>7, <1>9, <1>10, Replied

LEMMA LocalEndsStep == IInv /\ LocalEnds => IInv'
<1> SUFFICES ASSUME IInv, LocalEnds PROVE IInv'
  OBVIOUS
<1> DEFINE e == CloseLocal(k)
<1>1. at \in Parts /\ at = "local"
  BY DEF LocalEnds, Parts
<1>2. cur \in Conn /\ k = conn[cur] /\ k \in ConnRec /\ ConnInv(cur)
  BY <1>1, Visited
<1>3. k.lr # Nil /\ k.gotrequest
  BY <1>1, <1>2, Numbers DEF IInv, MarkInv, TypeInv, ConnInv, Shape
<1>4. /\ e \in ConnRec /\ e.lread = k.lread /\ e.gotrequest = k.gotrequest
      /\ e.rfd = k.rfd /\ e.lr = Nil /\ e.lw = Nil /\ e.cgimode = k.cgimode
      /\ e.gotreply = k.gotreply /\ e.rread = k.rread /\ e.rwritten = k.rwritten
      /\ e.lwritten = k.lwritten /\ e.ntotal = k.ntotal /\ e.nexpected = k.nexpected
  BY <1>2 DEF ConnRec, CloseLocal
<1>5. /\ Reply(e, {k.lr, k.lw}) /\ Heard /\ OnTo(3, ToClient(conn'[cur]))
      /\ UNCHANGED <<client, ask, sent, script, made, outq, inq, fed>>
  BY DEF LocalEnds, clients, scripts, pipes
<1> HIDE DEF e
<1>6. outq' \in [Conn -> Nat] /\ made' \in [Conn -> Nat] /\ overdue' \in SUBSET Conn
  BY <1>5 DEF Heard, IInv, TypeInv
<1>7. Shape(k) /\ FedBy(k, ask[cur], fed[cur])
  BY <1>2 DEF ConnInv
<1>8. k.rfd # Nil => k.rfd \notin {k.lr, k.lw}
  BY <1>2, Apart DEF IInv
<1>9. /\ Stays(e, {k.lr, k.lw}) /\ Shape(e) /\ FedBy(e, ask[cur], fed[cur])
      /\ e.gotrequest
      /\ e.cgimode /\ ~ e.gotreply => Silent(k)
      /\ Silent(e) => Silent(k)
  BY <1>3, <1>4, <1>7, <1>8 DEF Stays, Shape, FedBy, Silent
<1>10. {k.lr, k.lw} \in SUBSET {k.rfd, k.lr, k.lw}
  OBVIOUS
<1> QED
  BY <1>1, <1>4, <1>5, <1>6, <1>9, <1>10, Replied

LEMMA PushOutStep == IInv /\ PushOut => IInv'
<1> SUFFICES ASSUME IInv, PushOut PROVE IInv'
  OBVIOUS
<1>1. at \in Parts /\ at = "out"
  BY DEF PushOut, Parts
<1>2. cur \in Conn /\ cur \in ToSet(conns) /\ k = conn[cur] /\ k \in ConnRec
      /\ ConnInv(cur)
  BY <1>1, Visited
<1>3. /\ OnTo(4, {}) /\ client' = client /\ ask' = ask /\ status' = status /\ fed' = fed
      /\ VisitTypes'
  BY DEF PushOut, clients, scripts, pipes, VisitTypes, IInv, TypeInv
<1>4. status[cur] <= 1 /\ (Silent(k) => status[cur] = 0)
      /\ Shape(k) /\ FedBy(k, ask[cur], fed[cur])
  BY <1>2 DEF ConnInv
<1>5. 4 \in 2 .. 5 /\ {} \in SUBSET Fd /\ ~ 4 <= 2
      /\ {} \in SUBSET {k.rfd, k.lr, k.lw} /\ {k.rfd} \in SUBSET {k.rfd, k.lr, k.lw}
  OBVIOUS
<1>6. ASSUME NEW n \in 0 .. k.lread - k.lwritten,
             LET b == Pushed(k.lread, k.lwritten, n)
             IN  Becomes([k EXCEPT !.lread = b[1], !.lwritten = b[2]], {}, <<>>)
      PROVE  IInv'
  <2> DEFINE b == Pushed(k.lread, k.lwritten, n)
             d == [k EXCEPT !.lread = b[1], !.lwritten = b[2]]
  <2>1. /\ b[1] \in {0, k.lread} /\ b[2] \in Nat
        /\ k.lread = 0 /\ k.lwritten = 0 => b[1] = 0 /\ b[2] = 0
    BY <1>2 DEF Pushed, ConnRec, Count
  <2>1a. b[1] \in Count
    BY <1>2, <2>1, Numbers DEF ConnRec, Count
  <2>2. Becomes(d, {}, <<>>)
    BY <1>6
  <2> HIDE DEF b
  <2>3. /\ d \in ConnRec /\ d.lread = b[1] /\ d.gotrequest = k.gotrequest
        /\ d.rfd = k.rfd /\ d.lr = k.lr /\ d.lw = k.lw /\ d.cgimode = k.cgimode
        /\ d.gotreply = k.gotreply /\ d.rread = k.rread /\ d.rwritten = k.rwritten
        /\ d.lwritten = b[2] /\ d.ntotal = k.ntotal /\ d.nexpected = k.nexpected
    BY <1>2, <2>1, <2>1a DEF ConnRec
  <2> HIDE DEF d
  <2>4. Stays(d, {}) /\ Shape(d) /\ FedBy(d, ask[cur], fed[cur])
    BY <1>4, <2>1, <2>3 DEF Stays, Shape, FedBy
  <2>5. Silent(d) => Silent(k)
    BY <2>1, <2>3 DEF Silent
  <2> QED
    BY <1>1, <1>3, <1>4, <1>5, <2>2, <2>3, <2>4, <2>5, Closing
<1>7. ASSUME Becomes(CloseRemote(k), {k.rfd}, <<>>) PROVE IInv'
  <2> DEFINE d == CloseRemote(k)
  <2>1. /\ d \in ConnRec /\ d.rfd = Nil /\ d.lr = k.lr /\ d.lw = k.lw
        /\ d.cgimode = k.cgimode /\ d.gotrequest = k.gotrequest /\ d.gotreply = k.gotreply
        /\ d.lread = k.lread /\ d.lwritten = k.lwritten /\ d.rread = k.rread
        /\ d.rwritten = k.rwritten /\ d.ntotal = k.ntotal /\ d.nexpected = k.nexpected
    BY <1>2 DEF CloseRemote, ConnRec
  <2>2. Becomes(d, {k.rfd}, <<>>)
    BY <1>7
  <2> HIDE DEF d
  <2>3. Stays(d, {k.rfd})
    BY <1>2, <2>1, Apart DEF Stays, IInv
  <2>4. Shape(d) /\ FedBy(d, ask[cur], fed[cur]) /\ Silent(d) = Silent(k)
    BY <1>4, <2>1 DEF Shape, FedBy, Silent
  <2> QED
    BY <1>1, <1>3, <1>4, <1>5, <2>1, <2>2, <2>3, <2>4, Closing
<1> QED
  BY <1>6, <1>7 DEF PushOut

LEMMA PushInStep == IInv /\ PushIn => IInv'
<1> SUFFICES ASSUME IInv, PushIn PROVE IInv'
  OBVIOUS
<1> DEFINE b == Pushed(k.rread, k.rwritten, Pending)
           e == [k EXCEPT !.rread = b[1], !.rwritten = b[2]]
<1>1. at \in Parts /\ at = "in" /\ Pending > 0
  BY DEF PushIn, Parts
<1>2. cur \in Conn /\ cur \in ToSet(conns) /\ k = conn[cur] /\ k \in ConnRec
      /\ ConnInv(cur)
  BY <1>1, Visited
<1>3. status[cur] <= 1 /\ (Silent(k) => status[cur] = 0)
      /\ Shape(k) /\ FedBy(k, ask[cur], fed[cur])
  BY <1>2 DEF ConnInv
<1>4. k.lw # Nil /\ k.lr # Nil /\ k.gotrequest /\ k.cgimode
  BY <1>1, <1>3, Numbers DEF IInv, MarkInv, TypeInv, Shape
<1>5. /\ k.rread \in Nat /\ k.rwritten \in Nat /\ k.rread = k.rwritten + Pending
      /\ Pending \in Nat
  BY <1>1, <1>2, Numbers DEF ConnRec, Count, Pending
<1>6. b[1] = 0 /\ b[2] = 0 /\ 0 \in Count /\ 0 \in Nat
  BY <1>5, Numbers DEF Pushed, Count
<1>7. /\ IF AllGiven(e) THEN Becomes([e EXCEPT !.lw = Nil], {k.lw}, <<>>)
                        ELSE Becomes(e, {}, <<>>)
      /\ inq' = [inq EXCEPT ![cur] = @ + Pending]
      /\ fed' = [fed EXCEPT ![cur] = @ + Pending]
      /\ OnTo(5, {})
      /\ UNCHANGED <<client, ask, sent, status, script, made, outq, overdue>>
  BY DEF PushIn, clients, scripts
<1> HIDE DEF b
<1>8. /\ e \in ConnRec /\ e.rread = 0 /\ e.rwritten = 0 /\ e.gotrequest = k.gotrequest
      /\ e.rfd = k.rfd /\ e.lr = k.lr /\ e.lw = k.lw /\ e.cgimode = k.cgimode
      /\ e.gotreply = k.gotreply /\ e.lread = k.lread /\ e.lwritten = k.lwritten
      /\ e.ntotal = k.ntotal /\ e.nexpected = k.nexpected
  BY <1>2, <1>6 DEF ConnRec
<1> HIDE DEF e
<1>9. /\ fed[cur] \in Nat /\ fed'[cur] = fed[cur] + Pending
      /\ \A c \in Conn \ {cur} : fed'[c] = fed[c]
      /\ VisitTypes'
  <2>1. fed \in [Conn -> Nat] /\ inq \in [Conn -> Nat] /\ fed[cur] \in Nat /\ inq[cur] \in Nat
    BY <1>2 DEF IInv, TypeInv
  <2>2. fed[cur] + Pending \in Nat /\ inq[cur] + Pending \in Nat
    BY <1>5, <2>1
  <2>3. fed' \in [Conn -> Nat] /\ inq' \in [Conn -> Nat]
    BY <1>7, <2>1, <2>2
  <2>4. VisitTypes'
    BY <1>7, <2>3 DEF IInv, TypeInv, VisitTypes
  <2> QED
    BY <1>2, <1>7, <2>1, <2>4
<1>10. /\ ask[cur].head \in Nat /\ ask[cur].body \in Nat
       /\ k.ntotal = ask[cur].head + fed'[cur]
       /\ k.nexpected = ask[cur].head + ask[cur].body
  <2>1. ask[cur].head \in Nat /\ ask[cur].body \in Nat
    BY <1>2, Numbers DEF IInv, TypeInv
  <2>2. k.ntotal = ask[cur].head + fed[cur] + (k.rread - k.rwritten)
        /\ k.nexpected = ask[cur].head + ask[cur].body
    BY <1>3, <1>4 DEF FedBy
  <2> QED
    BY <1>5, <1>9, <2>1, <2>2
<1>11. 5 \in 2 .. 5 /\ {} \in SUBSET Fd /\ ~ 5 <= 2
       /\ {} \in SUBSET {k.rfd, k.lr, k.lw} /\ {k.lw} \in SUBSET {k.rfd, k.lr, k.lw}
  OBVIOUS
<1>12. CASE AllGiven(e)
  <2> DEFINE d == [e EXCEPT !.lw = Nil]
  <2>1. Becomes(d, {k.lw}, <<>>)
    BY <1>7, <1>12
  <2>2. /\ d \in ConnRec /\ d.rread = 0 /\ d.rwritten = 0 /\ d.gotrequest = k.gotrequest
        /\ d.rfd = k.rfd /\ d.lr = k.lr /\ d.lw = Nil /\ d.cgimode = k.cgimode
        /\ d.gotreply = k.gotreply /\ d.lread = k.lread /\ d.lwritten = k.lwritten
        /\ d.ntotal = k.ntotal /\ d.nexpected = k.nexpected
    BY <1>8 DEF ConnRec
  <2>3. fed'[cur] = ask[cur].body
    <3>1. k.ntotal = k.nexpected
      BY <1>8, <1>12 DEF AllGiven
    <3>2. fed'[cur] \in Nat
      BY <1>2, <1>9 DEF VisitTypes
    <3> QED
      BY <1>10, <3>1, <3>2
  <2> HIDE DEF d
  <2>4. Stays(d, {k.lw})
    BY <1>2, <1>4, <2>2, Apart DEF Stays, IInv
  <2>5. Shape(d) /\ FedBy(d, ask[cur], fed'[cur]) /\ (Silent(d) => Silent(k))
    BY <1>4, <1>10, <2>2, <2>3 DEF Shape, FedBy, Silent
  <2> QED
    BY <1>1, <1>3, <1>7, <1>9, <1>11, <2>1, <2>2, <2>4, <2>5, Closing
<1>13. CASE ~ AllGiven(e)
  <2>1. Becomes(e, {}, <<>>)
    BY <1>7, <1>13
  <2>2. Stays(e, {})
    BY <1>8 DEF Stays
  <2>3. Shape(e) /\ FedBy(e, ask[cur], fed'[cur]) /\ (Silent(e) => Silent(k))
    <3>1. fed'[cur] \in Nat /\ e.rread - e.rwritten = 0
      BY <1>2, <1>8, <1>9 DEF VisitTypes
    <3>2. e.ntotal = ask[cur].head + fed'[cur] + (e.rread - e.rwritten)
      BY <1>8, <1>10, <3>1
    <3> QED
      BY <1>4, <1>8, <1>10, <3>2 DEF Shape, FedBy, Silent
  <2> QED
    BY <1>1, <1>3, <1>7, <1>8, <1>9, <1>11, <2>1, <2>2, <2>3, Closing
<1> QED
  BY <1>12, <1>13

LEMMA PushInFailsStep == IInv /\ PushInFails => IInv'
<1> SUFFICES ASSUME IInv, PushInFails PROVE IInv'
  OBVIOUS
<1> DEFINE d == CloseLocal(k)
<1>1. at \in Parts /\ at = "in"
  BY DEF PushInFails, Parts
<1>2. cur \in Conn /\ cur \in ToSet(conns) /\ k = conn[cur] /\ k \in ConnRec
      /\ ConnInv(cur)
  BY <1>1, Visited
<1>3. status[cur] <= 1 /\ (Silent(k) => status[cur] = 0)
      /\ Shape(k) /\ FedBy(k, ask[cur], fed[cur])
  BY <1>2 DEF ConnInv
<1>4. k.lr # Nil /\ k.gotrequest
  BY <1>1, <1>3, Numbers DEF IInv, MarkInv, TypeInv, Shape
<1>5. /\ d \in ConnRec /\ d.lread = k.lread /\ d.gotrequest = k.gotrequest
      /\ d.rfd = k.rfd /\ d.lr = Nil /\ d.lw = Nil /\ d.cgimode = k.cgimode
      /\ d.gotreply = k.gotreply /\ d.rread = k.rread /\ d.rwritten = k.rwritten
      /\ d.lwritten = k.lwritten /\ d.ntotal = k.ntotal /\ d.nexpected = k.nexpected
  BY <1>2 DEF ConnRec, CloseLocal
<1>6. Becomes(d, {k.lr, k.lw}, <<>>) /\ OnTo(5, {})
  BY DEF PushInFails
<1> HIDE DEF d
<1>7. /\ client' = client /\ ask' = ask /\ status' = status /\ fed' = fed /\ VisitTypes'
  BY DEF PushInFails, clients, scripts, pipes, VisitTypes, IInv, TypeInv
<1>8. Stays(d, {k.lr, k.lw})
  BY <1>2, <1>5, Apart DEF Stays, IInv
<1>9. Shape(d) /\ FedBy(d, ask[cur], fed[cur]) /\ (Silent(d) => Silent(k))
  BY <1>3, <1>4, <1>5 DEF Shape, FedBy, Silent
<1>10. 5 \in 2 .. 5 /\ {} \in SUBSET Fd /\ ~ 5 <= 2
       /\ {k.lr, k.lw} \in SUBSET {k.rfd, k.lr, k.lw}
  OBVIOUS
<1> QED
  BY <1>1, <1>3, <1>5, <1>6, <1>7, <1>8, <1>9, <1>10, Closing

LEMMA PushInAbortsStep == IInv /\ PushInAborts => IInv'
<1> SUFFICES ASSUME IInv, PushInAborts PROVE IInv'
  OBVIOUS
<1>1. at' = "aborted" /\ UNCHANGED <<client, ask, sent, status, script, made, outq, inq, fed,
                                     fds, conn, conns, overdue, rset, wset, todo>>
  BY DEF PushInAborts, clients, scripts, pipes
<1>2. TypeInv'
  BY <1>1 DEF IInv, TypeInv, Places
<1>3. ListInv'
  BY <1>1 DEF IInv, ListInv, Parts
<1>4. ASSUME NEW c \in Conn PROVE ConnInv(c)'
  BY <1>1 DEF IInv, ConnInv
<1>5. MarkInv'
  BY <1>1 DEF MarkInv, Parts
<1> QED
  BY <1>2, <1>3, <1>4, <1>5 DEF IInv

\* What a request that has arrived finds, and what its answer leaves alone.
Asked(e) ==
  /\ e \in ConnRec /\ e.rfd = k.rfd /\ e.lr = Nil /\ e.lw = Nil
  /\ e.gotrequest /\ ~ e.gotreply /\ e.lread = 0 /\ e.lwritten = 0
  /\ e.rwritten = ask[cur].head /\ e.ntotal = e.rread
  /\ e.nexpected = ask[cur].head + ask[cur].body

Answering ==
  /\ OnTo(2, ToScript(conn'[cur]))
  /\ UNCHANGED <<client, ask, sent, made, outq, inq, fed>>
  /\ overdue' \in SUBSET Conn

LEMMA SendErrStep ==
  ASSUME IInv, at \in Parts, Silent(k), Answering, NEW e, Asked(e),
         NEW leaked \in SUBSET FreeFds, SendErr(e, leaked)
  PROVE  IInv'
<1> DEFINE d == Closed(e)
           opened == [f \in leaked |-> <<cur, "leaked">>]
<1>1. cur \in Conn /\ cur \in ToSet(conns) /\ k = conn[cur] /\ ConnInv(cur) /\ k \in ConnRec
  BY Visited
<1>2. /\ d \in ConnRec /\ d.rfd = Nil /\ d.lr = Nil /\ d.lw = Nil /\ d.gotrequest
      /\ d.lread = 0 /\ d.nexpected = ask[cur].head + ask[cur].body
  BY DEF Asked, Closed, CloseLocal, CloseRemote, ConnRec
<1>3. /\ Becomes(d, Held(e), opened) /\ status' = [status EXCEPT ![cur] = @ + 1]
      /\ script' = script
  BY DEF SendErr, SendsStatus
<1> HIDE DEF d
<1>4. /\ status \in [Conn -> Nat] /\ status[cur] = 0
  BY <1>1 DEF ConnInv, IInv, TypeInv
<1>5. /\ status' \in [Conn -> Nat] /\ status'[cur] = 1
      /\ \A c \in Conn \ {cur} : status'[c] = status[c] /\ fed'[c] = fed[c]
  BY <1>1, <1>3, <1>4 DEF Answering
<1>6. VisitTypes' /\ client' = client /\ ask' = ask
  BY <1>3, <1>5 DEF VisitTypes, Answering, IInv, TypeInv
<1>7. Held(e) \in SUBSET {k.rfd, k.lr, k.lw}
  BY DEF Held, Asked
<1>8. DOMAIN opened \subseteq FreeFds /\ \A f \in DOMAIN opened : opened[f] \in Conn \X Uses
  BY <1>1 DEF Uses
<1> HIDE DEF opened
<1>9. Owns(cur, d, fds') /\ Shape(d) /\ FedBy(d, ask[cur], fed'[cur]) /\ ~ Silent(d)
  BY <1>2 DEF Owns, Shape, FedBy, Silent
<1>10. conn'[cur] = d
  BY <1>1, <1>3 DEF Becomes, IInv, TypeInv
<1>11. ToScript(d) \in SUBSET Fd /\ OnTo(2, ToScript(d)) /\ 2 \in 2 .. 5
  BY <1>2, <1>10 DEF ToScript, Answering
<1>12. d.lr \notin rset
  BY <1>2, Numbers DEF IInv, TypeInv
<1>13. /\ status'[cur] <= 1 /\ (Silent(d) => status'[cur] = 0)
       /\ 2 <= 2 /\ d.lr \in rset => d.lread < BufSize
  BY <1>5, <1>9, <1>12
<1> QED
  BY <1>2, <1>3, <1>5, <1>6, <1>7, <1>8, <1>9, <1>11, <1>13, Step

LEMMA ServeFileStep ==
  ASSUME IInv, at \in Parts, Silent(k), Answering, NEW e, Asked(e), ~ e.cgimode, ServeFile(e)
  PROVE  IInv'
<1>1. CASE FreeFds = {}
  <2>1. SendErr(e, {}) /\ {} \in SUBSET FreeFds
    BY <1>1 DEF ServeFile
  <2> QED
    BY <2>1, SendErrStep
<1>2. CASE FreeFds # {}
  <2> DEFINE f == Min(FreeFds)
             d == [e EXCEPT !.lr = f]
             opened == [g \in {f} |-> <<cur, "file">>]
  <2>1. cur \in Conn /\ cur \in ToSet(conns) /\ k = conn[cur] /\ ConnInv(cur)
        /\ k \in ConnRec
    BY Visited
  <2>2. f \in FreeFds /\ f \in Fd /\ f # Nil
    BY <1>2, MinIs, Numbers DEF FreeFds
  <2>3. /\ Becomes(d, {}, opened) /\ status' = [status EXCEPT ![cur] = @ + 1]
        /\ script' = script
    BY <1>2 DEF ServeFile, SendsStatus
  <2> HIDE DEF f
  <2>4. /\ d \in ConnRec /\ d.rfd = k.rfd /\ d.lr = f /\ d.lw = Nil /\ d.gotrequest
        /\ ~ d.cgimode
        /\ d.lread = 0 /\ d.nexpected = ask[cur].head + ask[cur].body
    BY <2>2 DEF Asked, ConnRec
  <2> HIDE DEF d
  <2>5. /\ status \in [Conn -> Nat] /\ status[cur] = 0
    BY <2>1 DEF ConnInv, IInv, TypeInv
  <2>6. /\ status' \in [Conn -> Nat] /\ status'[cur] = 1
        /\ \A c \in Conn \ {cur} : status'[c] = status[c] /\ fed'[c] = fed[c]
    BY <2>1, <2>3, <2>5 DEF Answering
  <2>7. VisitTypes' /\ client' = client /\ ask' = ask
    BY <2>3, <2>6 DEF VisitTypes, Answering, IInv, TypeInv
  <2>8. /\ DOMAIN opened \subseteq FreeFds /\ {} \in SUBSET {k.rfd, k.lr, k.lw}
        /\ f \in DOMAIN opened /\ opened[f] = <<cur, "file">>
        /\ \A g \in DOMAIN opened : opened[g] \in Conn \X Uses
    BY <2>1, <2>2 DEF Uses
  <2> HIDE DEF opened
  <2>9. d.rfd # Nil => fds'[d.rfd] = <<cur, "sock">>
    <3> SUFFICES ASSUME k.rfd # Nil PROVE fds'[k.rfd] = <<cur, "sock">>
      BY <2>4
    <3>1. k.rfd \in Fd /\ fds[k.rfd] = <<cur, "sock">>
      BY <2>1 DEF ConnInv, Owns, ConnRec
    <3> QED
      BY <2>3, <2>8, <3>1, Kept, TagsApart
  <2>10. fds'[f] = <<cur, "file">>
    BY <2>2, <2>3, <2>8 DEF Becomes
  <2>11. Owns(cur, d, fds') /\ Shape(d) /\ FedBy(d, ask[cur], fed'[cur]) /\ ~ Silent(d)
    BY <2>4, <2>9, <2>10 DEF Owns, Shape, FedBy, Silent
  <2>12. conn'[cur] = d
    BY <2>1, <2>3 DEF Becomes, IInv, TypeInv
  <2>13. ToScript(d) \in SUBSET Fd /\ OnTo(2, ToScript(d)) /\ 2 \in 2 .. 5
    BY <2>4, <2>12 DEF ToScript, Answering
  <2>14. d.lread < BufSize
    BY <2>4, Numbers
  <2> QED
    BY <2>3, <2>4, <2>6, <2>7, <2>8, <2>11, <2>13, <2>14, Step
<1> QED
  BY <1>1, <1>2

\* Of four descriptors the least and the greatest differ.
LEMMA EndsDiffer ==
  ASSUME NEW S \in SUBSET Nat, Cardinality(S) = 4, NEW r \in S, NEW w \in S,
         \A f \in S : r <= f /\ f <= w
  PROVE  r # w
<1> SUFFICES ASSUME r = w PROVE FALSE
  OBVIOUS
<1>1. \A f \in S : f = r
  <2> SUFFICES ASSUME NEW f \in S PROVE f = r
    OBVIOUS
  <2>1. f \in Nat /\ r \in Nat /\ r <= f /\ f <= r
    OBVIOUS
  <2> QED
    BY <2>1
<1>2. S = {r}
  BY <1>1
<1> QED
  BY <1>2, FS_Singleton

LEMMA SpawnCgiStep ==
  ASSUME IInv, at \in Parts, Silent(k), Answering, NEW e0, Asked(e0), fed[cur] = 0,
         SpawnCgi(e0)
  PROVE  IInv'
<1> DEFINE e == [e0 EXCEPT !.cgimode = TRUE]
<1>1. Asked(e) /\ e.cgimode
  BY DEF Asked, ConnRec
<1>2. \A m : \A S \in Lowest(m) : S \in SUBSET FreeFds
  BY DEF Lowest
<1>3. ASSUME NEW leaked \in SUBSET FreeFds, SendErr(e, leaked) PROVE IInv'
  BY <1>1, <1>3, SendErrStep
<1>4. ASSUME NEW S \in Lowest(4), NEW r \in S, NEW w \in S,
             \A f \in S : r <= f /\ f <= w,
             Becomes([e EXCEPT !.lr = r, !.lw = w], {},
                     [f \in {r, w} |-> <<cur, IF f = r THEN "out" ELSE "in">>]),
             script' = [script EXCEPT ![cur] = "running"], status' = status
      PROVE  IInv'
  <2> DEFINE d == [e EXCEPT !.lr = r, !.lw = w]
             opened == [f \in {r, w} |-> <<cur, IF f = r THEN "out" ELSE "in">>]
  <2>1. cur \in Conn /\ cur \in ToSet(conns) /\ k = conn[cur] /\ ConnInv(cur)
        /\ k \in ConnRec
    BY Visited
  <2>2. r \in FreeFds /\ w \in FreeFds /\ r \in Fd /\ w \in Fd /\ r # Nil /\ w # Nil
    BY <1>2, Numbers DEF FreeFds
  <2>3. r # w
    <3>1. S \in SUBSET Nat /\ Cardinality(S) = 4
      BY Numbers DEF Lowest, FreeFds
    <3> QED
      BY <1>4, <3>1, EndsDiffer
  <2>4. Becomes(d, {}, opened)
    BY <1>4
  <2>5. /\ d \in ConnRec /\ d.rfd = k.rfd /\ d.lr = r /\ d.lw = w /\ d.gotrequest
        /\ d.cgimode /\ d.lread = 0 /\ d.nexpected = ask[cur].head + ask[cur].body
        /\ d.ntotal = d.rread /\ d.rwritten = ask[cur].head
    BY <1>1, <2>2 DEF Asked, ConnRec
  <2> HIDE DEF e, d
  <2>6. status \in [Conn -> Nat] /\ status[cur] = 0
    BY <2>1 DEF ConnInv, IInv, TypeInv
  <2>7. script' \in [Conn -> {"none", "running", "exited"}]
    BY <1>4, <2>1 DEF IInv, TypeInv
  <2>8. VisitTypes' /\ client' = client /\ ask' = ask /\ fed' = fed
    BY <1>4, <2>7 DEF VisitTypes, Answering, IInv, TypeInv
  <2>9. /\ DOMAIN opened \subseteq FreeFds /\ {} \in SUBSET {k.rfd, k.lr, k.lw}
        /\ r \in DOMAIN opened /\ opened[r] = <<cur, "out">>
        /\ w \in DOMAIN opened /\ opened[w] = <<cur, "in">>
        /\ \A g \in DOMAIN opened : opened[g] \in Conn \X Uses
    BY <2>1, <2>2, <2>3 DEF Uses
  <2> HIDE DEF opened
  <2>10. d.rfd # Nil => fds'[d.rfd] = <<cur, "sock">>
    <3> SUFFICES ASSUME k.rfd # Nil PROVE fds'[k.rfd] = <<cur, "sock">>
      BY <2>5
    <3>1. k.rfd \in Fd /\ fds[k.rfd] = <<cur, "sock">>
      BY <2>1 DEF ConnInv, Owns, ConnRec
    <3> QED
      BY <2>4, <2>9, <3>1, Kept, TagsApart
  <2>11. fds'[r] = <<cur, "out">> /\ fds'[w] = <<cur, "in">>
    BY <2>2, <2>4, <2>9 DEF Becomes
  <2>12. Owns(cur, d, fds')
    BY <2>5, <2>10, <2>11 DEF Owns
  <2>13. ask[cur].head \in Nat /\ d.rread \in Nat
    BY <2>1, <2>5, Numbers DEF IInv, TypeInv, ConnRec, Count
  <2>14. d.ntotal = ask[cur].head + 0 + (d.rread - d.rwritten)
    BY <2>5, <2>13
  <2>15. Shape(d) /\ FedBy(d, ask[cur], fed'[cur])
    BY <2>2, <2>5, <2>8, <2>14 DEF Shape, FedBy
  <2>16. conn'[cur] = d
    BY <2>1, <2>4 DEF Becomes, IInv, TypeInv
  <2>17. ToScript(d) \in SUBSET Fd /\ OnTo(2, ToScript(d)) /\ 2 \in 2 .. 5
    BY <2>2, <2>5, <2>16 DEF ToScript, Answering
  <2>18. /\ status'[cur] <= 1 /\ (Silent(d) => status'[cur] = 0)
         /\ 2 <= 2 /\ d.lr \in rset => d.lread < BufSize
         /\ \A c \in Conn \ {cur} : status'[c] = status[c] /\ fed'[c] = fed[c]
    BY <1>4, <2>5, <2>6, <2>8, Numbers
  <2> QED
    BY <2>4, <2>5, <2>8, <2>9, <2>12, <2>15, <2>17, <2>18, Step
<1>5. {} \in SUBSET FreeFds
  OBVIOUS
<1> QED
  BY <1>2, <1>3, <1>4, <1>5 DEF SpawnCgi

LEMMA PullRemoteStep == IInv /\ PullRemote => IInv'
<1> SUFFICES ASSUME IInv, PullRemote PROVE IInv'
  OBVIOUS
<1> DEFINE n == Min({Arrived(cur), BufSize - k.rread})
           d == [k EXCEPT !.rread = @ + n, !.ntotal = @ + n]
           r == ask[cur]
           e == [d EXCEPT !.gotrequest = TRUE, !.rwritten = BodyStart(r),
                          !.nexpected = r.head + r.body]
<1>1. at \in Parts /\ at = "remote" /\ Arrived(cur) > 0
  BY DEF PullRemote, Parts
<1>2. cur \in Conn /\ cur \in ToSet(conns) /\ k = conn[cur] /\ k \in ConnRec
      /\ ConnInv(cur)
  BY <1>1, Visited
<1>3. k.rread < BufSize /\ (k.lr \in rset => k.lread < BufSize)
  BY <1>1 DEF IInv, MarkInv
<1>4. n \in Nat /\ k.rread \in Nat /\ k.rread + n \in Count /\ k.ntotal \in Nat
      /\ k.rwritten \in Nat
  <2>1. k.rread \in Nat /\ BufSize \in Nat /\ k.ntotal \in Nat /\ k.rwritten \in Nat
    BY <1>2, Numbers DEF ConnRec, Count
  <2>2. Arrived(cur) \in Nat
    <3>1. sent[cur] \in Nat
      BY <1>2 DEF IInv, TypeInv
    <3> QED
      BY <1>1, <1>2, <2>1, <3>1 DEF Arrived
  <2>3. BufSize - k.rread \in Nat
    BY <1>3, <2>1
  <2>4. n \in {Arrived(cur), BufSize - k.rread} /\ n <= BufSize - k.rread
    BY <2>2, <2>3, MinOfTwo
  <2> HIDE DEF n
  <2> QED
    BY <2>1, <2>2, <2>3, <2>4 DEF Count
<1>5. /\ IF k.gotrequest THEN Becomes(d, {}, <<>>) /\ UNCHANGED <<status, script>>
         ELSE Handle(d)
      /\ Heard /\ OnTo(2, ToScript(conn'[cur]))
      /\ UNCHANGED <<client, ask, sent, made, outq, inq, fed>>
  BY DEF PullRemote, clients, pipes
<1> HIDE DEF n
<1>6. k.ntotal + n \in Nat
  BY <1>4
<1>7. /\ d \in ConnRec /\ d.rread = k.rread + n /\ d.ntotal = k.ntotal + n
      /\ d.rfd = k.rfd /\ d.lr = k.lr /\ d.lw = k.lw /\ d.rwritten = k.rwritten
      /\ d.cgimode = k.cgimode /\ d.gotrequest = k.gotrequest /\ d.gotreply = k.gotreply
      /\ d.lread = k.lread /\ d.lwritten = k.lwritten /\ d.nexpected = k.nexpected
  BY <1>2, <1>4, <1>6 DEF ConnRec
<1>8. /\ r.head \in Nat /\ r.body \in Nat /\ r.kind \in {"file", "cgi", "error"}
  BY <1>2, Numbers DEF IInv, TypeInv
<1>9. status[cur] <= 1 /\ (Silent(k) => status[cur] = 0)
      /\ Shape(k) /\ FedBy(k, r, fed[cur]) /\ fed[cur] \in Nat
  BY <1>2 DEF ConnInv, IInv, TypeInv
<1>10. Answering
  BY <1>5 DEF Answering, Heard, IInv, TypeInv
\* a step that only takes what has arrived
<1>11. ASSUME Becomes(d, {}, <<>>), UNCHANGED <<status, script>> PROVE IInv'
  <2>1. conn'[cur] = d
    BY <1>2, <1>11 DEF Becomes, IInv, TypeInv
  <2>2. Becomes(d, {}, <<>>) /\ status' = status /\ script' = script
    BY <1>11
  <2> HIDE DEF d
  <2>3. ToScript(d) \in SUBSET Fd /\ OnTo(2, ToScript(d)) /\ 2 \in 2 .. 5
        /\ {} \in SUBSET {k.rfd, k.lr, k.lw}
    <3>1. OnTo(2, ToScript(d))
      BY <1>10, <2>1 DEF Answering
    <3>2. ToScript(d) \in SUBSET Fd
      BY <1>7 DEF ToScript, ConnRec
    <3> QED
      BY <3>1, <3>2
  <2>4. d.rread - d.rwritten = (k.rread - k.rwritten) + n
    BY <1>4, <1>7
  <2>5. Stays(d, {}) /\ Shape(d) /\ Silent(d) = Silent(k)
    BY <1>7, <1>9 DEF Stays, Shape, Silent
  <2>6. k.cgimode /\ k.lr # Nil => d.ntotal = r.head + fed[cur] + (d.rread - d.rwritten)
    <3> SUFFICES ASSUME k.cgimode, k.lr # Nil
                 PROVE  d.ntotal = r.head + fed[cur] + (d.rread - d.rwritten)
      OBVIOUS
    <3>1. k.ntotal = r.head + fed[cur] + (k.rread - k.rwritten)
      BY <1>9 DEF FedBy
    <3>2. k.rread - k.rwritten \in Int
      BY <1>4
    <3> QED
      BY <1>4, <1>7, <1>8, <1>9, <2>4, <3>1, <3>2
  <2>7. FedBy(d, r, fed[cur])
    BY <1>7, <1>9, <2>6 DEF FedBy
  <2>8. VisitTypes' /\ client' = client /\ ask' = ask /\ fed' = fed
    BY <1>10, <2>2 DEF VisitTypes, Answering, IInv, TypeInv
  <2>9. 2 <= 2 /\ d.lr \in rset => d.lread < BufSize
    BY <1>3, <1>7
  <2> QED
    BY <1>1, <1>7, <1>9, <2>2, <2>3, <2>5, <2>7, <2>8, <2>9, Closing
<1>12. CASE k.gotrequest
  BY <1>5, <1>11, <1>12
<1>13. CASE ~ k.gotrequest
  <2>1. Handle(d)
    BY <1>5, <1>13
  <2>2. Silent(k) /\ fed[cur] = 0
    BY <1>9, <1>13 DEF Silent, FedBy
  <2>3. Asked(e) /\ ~ e.cgimode
    <3>1. r.head + r.body \in Nat /\ BodyStart(r) = r.head
      BY <1>8 DEF BodyStart
    <3>2. k.ntotal = k.rread /\ k.lread = 0 /\ k.lwritten = 0 /\ k.lr = Nil /\ k.lw = Nil
          /\ ~ k.cgimode /\ ~ k.gotreply
      BY <1>9, <1>13 DEF Shape
    <3> HIDE DEF d
    <3>3. /\ e \in ConnRec /\ e.rfd = d.rfd /\ e.lr = d.lr /\ e.lw = d.lw /\ e.gotrequest
          /\ e.cgimode = d.cgimode /\ e.gotreply = d.gotreply /\ e.lread = d.lread
          /\ e.lwritten = d.lwritten /\ e.rwritten = r.head /\ e.ntotal = d.ntotal
          /\ e.rread = d.rread /\ e.nexpected = r.head + r.body
      BY <1>7, <1>8, <3>1 DEF ConnRec
    <3> QED
      BY <1>7, <3>2, <3>3 DEF Asked
  <2>4. CASE ~ Parsed(d, r)
    BY <1>11, <2>1, <2>4 DEF Handle
  <2>5. CASE Parsed(d, r) /\ r.kind = "error"
    <3>1. SendErr(e, {})
      BY <2>1, <2>5 DEF Handle
    <3> QED
      BY <1>1, <1>10, <2>2, <2>3, <3>1, SendErrStep
  <2>6. CASE Parsed(d, r) /\ r.kind = "file"
    <3>1. ServeFile(e)
      BY <2>1, <2>6 DEF Handle
    <3> QED
      BY <1>1, <1>10, <2>2, <2>3, <3>1, ServeFileStep
  <2>7. CASE Parsed(d, r) /\ r.kind = "cgi"
    <3>1. SpawnCgi(e)
      BY <2>1, <2>7 DEF Handle
    <3> QED
      BY <1>1, <1>10, <2>2, <2>3, <3>1, SpawnCgiStep
  <2> QED
    BY <1>8, <2>4, <2>5, <2>6, <2>7
<1> QED
  BY <1>12, <1>13
-----------------------------------------------------------------------------
(* select(), and the end of a connection *)

\* What select() marks for reading has room in its buffer: the number of a mark is
\* that of one connection and of one of its ends.
LEMMA MarksHaveRoom ==
  ASSUME IInv, NEW rs, rs = UNION {ReadReady(e) : e \in ToSet(conns)},
         NEW c \in ToSet(conns)
  PROVE  Room(conn[c], rs)
<1>1. \A e \in ToSet(conns) : e \in Conn /\ ConnInv(e) /\ conn[e] \in ConnRec
  BY InSet DEF IInv, TypeInv
<1>2. ASSUME NEW f \in rs
      PROVE  /\ f # Nil
             /\ \E e \in ToSet(conns) : \/ f = conn[e].rfd /\ conn[e].rread < BufSize
                                        \/ f = conn[e].lr /\ conn[e].lread < BufSize
  BY DEF ReadReady
<1>3. ASSUME conn[c].rfd \in rs PROVE conn[c].rread < BufSize
  <2>1. PICK e \in ToSet(conns) : \/ conn[c].rfd = conn[e].rfd /\ conn[e].rread < BufSize
                                  \/ conn[c].rfd = conn[e].lr /\ conn[e].lread < BufSize
    BY <1>2, <1>3
  <2>2. conn[c].rfd # Nil
    BY <1>2, <1>3
  <2>3. conn[c].rfd # conn[e].lr
    BY <1>1, <2>2, Apart DEF IInv
  <2>4. c = e
    BY <1>1, <2>1, <2>2, <2>3, Apart DEF IInv, Held
  <2> QED
    BY <2>1, <2>3, <2>4
<1>4. ASSUME conn[c].lr \in rs PROVE conn[c].lread < BufSize
  <2>1. PICK e \in ToSet(conns) : \/ conn[c].lr = conn[e].rfd /\ conn[e].rread < BufSize
                                  \/ conn[c].lr = conn[e].lr /\ conn[e].lread < BufSize
    BY <1>2, <1>4
  <2>2. conn[c].lr # Nil
    BY <1>2, <1>4
  <2>3. conn[c].lr # conn[e].rfd
    BY <1>1, <2>2, Apart DEF IInv
  <2>4. c = e
    BY <1>1, <2>1, <2>2, <2>3, Apart DEF IInv, Held
  <2> QED
    BY <2>1, <2>3, <2>4
<1> QED
  BY <1>3, <1>4 DEF Room

LEMMA SelectStep == IInv /\ Select => IInv'
<1> SUFFICES ASSUME IInv, Select PROVE IInv'
  OBVIOUS
<1>1. /\ todo' \in Seq(Conn) /\ Distinct(todo') /\ conns' = todo'
      /\ conn' \in [Conn -> ConnRec]
      /\ client' \in [Conn -> {"new", "waiting", "open", "closed"}]
      /\ fds' \in [Fd -> {Free} \cup Conn \X Uses]
      /\ \A c \in Conn : client'[c] \in {"new", "waiting"} => c \notin ToSet(conns')
      /\ \A c \in Conn : ConnInv(c)'
      /\ \A c \in ToSet(conns') : Room(conn'[c], rset')
  <2>1. /\ ask' = ask /\ status' = status /\ fed' = fed
        /\ rset' = UNION {ReadReady(c) : c \in ToSet(conns)}
    BY DEF Select, pipes
  <2>2. \A c \in ToSet(conns) : Room(conn[c], rset')
    BY <2>1, MarksHaveRoom
  <2>3. CASE Waiting = {} \/ FreeFds = {}
    <3>1. todo' = conns /\ conns' = conns /\ UNCHANGED <<client, fds, conn>>
      BY <2>3 DEF Select
    <3>2. ASSUME NEW c \in Conn PROVE ConnInv(c)'
      BY <2>1, <3>1 DEF IInv, ConnInv
    <3> QED
      BY <2>2, <3>1, <3>2 DEF IInv, TypeInv, ListInv
  <2>4. CASE ~ (Waiting = {} \/ FreeFds = {})
    <3> DEFINE f == Min(FreeFds)
    <3>1. PICK c \in Waiting : /\ client' = [client EXCEPT ![c] = "open"]
                               /\ fds' = [fds EXCEPT ![f] = <<c, "sock">>]
                               /\ conn' = [conn EXCEPT ![c].rfd = f]
                               /\ todo' = Append(conns, c) /\ conns' = todo'
      BY <2>4 DEF Select, Accept
    <3>2. f \in Fd /\ fds[f] = Free /\ f # Nil
      BY <2>4, MinIs, Numbers DEF FreeFds
    <3> HIDE DEF f
    <3>3. c \in Conn /\ client[c] = "waiting" /\ c \notin ToSet(conns) /\ ConnInv(c)
      BY DEF Waiting, IInv, ListInv
    <3>4. conns \in Seq(Conn) /\ Distinct(conns)
      BY DEF IInv, TypeInv, ListInv
    <3>5. /\ todo' \in Seq(Conn) /\ Distinct(todo') /\ ToSet(conns') = ToSet(conns) \cup {c}
      BY <3>1, <3>3, <3>4, Appended
    <3>6. conn[c] = NewConn
      BY <3>3 DEF ConnInv
    <3> DEFINE d == [NewConn EXCEPT !.rfd = f]
    <3>7. /\ conn' = [conn EXCEPT ![c] = d] /\ conn \in [Conn -> ConnRec]
      BY <3>1, <3>6 DEF IInv, TypeInv
    <3>8. /\ d.rfd = f /\ d.rread = 0 /\ d.rwritten = 0 /\ d.lr = Nil /\ d.lw = Nil
          /\ d.lread = 0 /\ d.lwritten = 0 /\ ~ d.gotrequest /\ ~ d.gotreply /\ ~ d.cgimode
          /\ d.ntotal = 0
      BY DEF NewConn
    <3>9. d \in ConnRec
      <4>1. NewConn \in ConnRec
        BY Numbers DEF NewConn, ConnRec, Count
      <4> QED
        BY <3>2, <4>1 DEF ConnRec
    <3> HIDE DEF d
    <3>10. conn' \in [Conn -> ConnRec] /\ conn'[c] = d
           /\ \A e \in Conn \ {c} : conn'[e] = conn[e]
      BY <3>3, <3>7, <3>9
    <3>11. /\ fds' \in [Fd -> {Free} \cup Conn \X Uses] /\ fds'[f] = <<c, "sock">>
           /\ \A g \in Fd \ {f} : fds'[g] = fds[g]
      BY <3>1, <3>2, <3>3 DEF IInv, TypeInv, Uses
    <3>12. /\ client' \in [Conn -> {"new", "waiting", "open", "closed"}]
           /\ client'[c] = "open" /\ \A e \in Conn \ {c} : client'[e] = client[e]
      BY <3>1, <3>3 DEF IInv, TypeInv
    <3>13. ConnInv(c)'
      <4>1. status[c] = 0 /\ fed[c] = 0
        BY <3>3, <3>6 DEF ConnInv, FedBy, NewConn
      <4>2. Owns(c, d, fds') /\ Shape(d) /\ FedBy(d, ask[c], fed[c])
        BY <3>2, <3>8, <3>11, <4>1 DEF Owns, Shape, FedBy
      <4> QED
        BY <2>1, <3>3, <3>5, <3>10, <4>1, <4>2 DEF ConnInv
    <3>14. ASSUME NEW e \in Conn, e # c PROVE ConnInv(e)'
      <4>1. ConnInv(e) /\ TypeInv
        BY DEF IInv
      <4>2. \A g \in Held(conn[e]) : g \in Fd /\ g # f
        BY <3>2, <4>1, Apart
      <4>3. \A g \in Held(conn[e]) : fds'[g] = fds[g]
        BY <3>11, <4>2
      <4> QED
        BY <2>1, <3>5, <3>10, <3>12, <3>14, <4>1, <4>3, Untouched
    <3>15. \A e \in Conn : client'[e] \in {"new", "waiting"} => e \notin ToSet(conns')
      BY <3>5, <3>12 DEF IInv, ListInv
    <3>16. rset' \in SUBSET Fd
      <4>1. \A e \in ToSet(conns) : e \in Conn
        BY InSet DEF IInv, TypeInv
      <4> QED
        BY <2>1, <4>1 DEF ReadReady, IInv, TypeInv, ConnRec
    <3>17. Room(d, rset')
      BY <3>8, Numbers DEF Room
    <3>18. \A e \in ToSet(conns') : Room(conn'[e], rset')
      <4>1. \A e \in ToSet(conns) : e \in Conn /\ e # c
        BY <3>3, InSet DEF IInv, TypeInv
      <4> QED
        BY <2>2, <3>5, <3>10, <3>17, <4>1
    <3> QED
      BY <3>1, <3>5, <3>10, <3>11, <3>12, <3>13, <3>14, <3>15, <3>18
  <2> QED
    BY <2>3, <2>4
<1>2. /\ at' = IF todo' = <<>> THEN "expire" ELSE First(1, conn'[Head(todo')], rset', wset')
      /\ UNCHANGED <<ask, sent, status, script, made, outq, inq, fed, overdue>>
  BY DEF Select, scripts, pipes
<1>3. rset' \in SUBSET Fd /\ wset' \in SUBSET Fd
  <2>1. \A e \in ToSet(conns) : e \in Conn /\ conn[e] \in ConnRec
    BY InSet DEF IInv, TypeInv
  <2>2. \A e \in ToSet(conns) : ReadReady(e) \subseteq Fd
    BY <2>1 DEF ReadReady, ConnRec
  <2>3. \A e \in ToSet(conns) : WriteReady(e).sock \subseteq Fd /\ WriteReady(e).pipe \subseteq Fd
    BY <2>1 DEF WriteReady, ConnRec
  <2>4. rset' = UNION {ReadReady(e) : e \in ToSet(conns)}
        /\ \E socks \in SUBSET UNION {WriteReady(e).sock : e \in ToSet(conns)} :
             wset' = socks \cup UNION {WriteReady(e).pipe : e \in ToSet(conns)}
    BY DEF Select
  <2>5. UNION {ReadReady(e) : e \in ToSet(conns)} \subseteq Fd
    BY <2>2
  <2>6. UNION {WriteReady(e).sock : e \in ToSet(conns)} \subseteq Fd
    BY <2>3
  <2>7. UNION {WriteReady(e).pipe : e \in ToSet(conns)} \subseteq Fd
    BY <2>3
  <2> QED
    BY <2>4, <2>5, <2>6, <2>7
<1>4. todo' # <<>> => /\ Head(todo') \in ToSet(todo') /\ Head(todo') = todo'[1]
  BY <1>1, Passed
<1>5. /\ todo' = <<>> => at' = "expire"
      /\ todo' # <<>> => /\ at' \in Parts
                         /\ at' = "remote" => k'.rfd \in rset'
                         /\ at' = "local" => k'.lr \in rset'
                         /\ at' = "out" => k'.rfd \in wset'
                         /\ at' = "in" => k'.lw \in wset'
  <2>1. k' = conn'[Head(todo')] /\ 1 \in 1 .. 5
    BY DEF k, cur
  <2> QED
    BY <1>2, <2>1, FirstIs
<1>6. TypeInv'
  BY <1>1, <1>2, <1>3, <1>5 DEF IInv, TypeInv, Places
<1>7. ListInv'
  BY <1>1, <1>5 DEF ListInv, Parts
<1>8. MarkInv'
  <2>1. todo' # <<>> => Room(k', rset')
    BY <1>1, <1>4 DEF k, cur
  <2>2. \A i \in 2 .. Len(todo') : Room(conn'[todo'[i]], rset')
    <3> SUFFICES ASSUME NEW i \in 2 .. Len(todo') PROVE todo'[i] \in ToSet(conns')
      BY <1>1
    <3>1. i \in DOMAIN todo'
      BY <1>1
    <3> QED
      BY <1>1, <3>1, InSet
  <2>3. at' \in Parts => todo' # <<>>
    BY <1>5 DEF Parts
  <2> QED
    BY <1>5, <2>1, <2>2, <2>3 DEF MarkInv, Room, Parts
<1> QED
  BY <1>1, <1>6, <1>7, <1>8 DEF IInv

\* Disconnect(c) takes c off the list, and leaves it as it was before its client
\* came, but for the status lines it has been sent.
LEMMA Disconnected ==
  ASSUME IInv, NEW c \in Conn, Disconnect(c), UNCHANGED <<client, ask>>
  PROVE  /\ c \in ToSet(conns)
         /\ conns' \in Seq(Conn) /\ Distinct(conns')
         /\ ToSet(conns') = ToSet(conns) \ {c}
         /\ conn' \in [Conn -> ConnRec] /\ \A e \in Conn \ {c} : conn'[e] = conn[e]
         /\ fds' \in [Fd -> {Free} \cup Conn \X Uses]
         /\ status' \in [Conn -> Nat] /\ fed' \in [Conn -> Nat] /\ made' \in [Conn -> Nat]
         /\ outq' \in [Conn -> Nat] /\ inq' \in [Conn -> Nat]
         /\ overdue' \in SUBSET Conn
         /\ \A e \in Conn : ConnInv(e)'
<1>1. TypeInv /\ ConnInv(c)
  BY DEF IInv
<1>2. PICK i \in DOMAIN conns : conns[i] = c /\ conns' = RemoveAt(conns, i)
  BY DEF Disconnect
<1>3. c \in ToSet(conns)
  BY <1>2, InSet
<1>4. /\ conns' \in Seq(Conn) /\ Distinct(conns') /\ ToSet(conns') = ToSet(conns) \ {c}
  BY <1>1, <1>2, Removed DEF IInv, ListInv, TypeInv
<1>5. /\ conn' = [conn EXCEPT ![c] = NewConn]
      /\ fds' = [f \in Fd |-> IF f \in Held(conn[c]) THEN Free ELSE fds[f]]
      /\ status' = IF Premature(conn[c]) /\ conn[c].rfd # Nil
                   THEN [status EXCEPT ![c] = @ + 1] ELSE status
      /\ overdue' = overdue \ {c}
      /\ made' = [made EXCEPT ![c] = 0] /\ fed' = [fed EXCEPT ![c] = 0]
      /\ outq' = [outq EXCEPT ![c] = 0] /\ inq' = [inq EXCEPT ![c] = 0]
  BY DEF Disconnect
<1>6. NewConn \in ConnRec
  BY Numbers DEF NewConn, ConnRec, Count
<1>7. /\ conn' \in [Conn -> ConnRec] /\ conn'[c] = NewConn
      /\ \A e \in Conn \ {c} : conn'[e] = conn[e]
  BY <1>1, <1>5, <1>6 DEF TypeInv
<1>8. /\ fds' \in [Fd -> {Free} \cup Conn \X Uses]
  BY <1>1, <1>5 DEF TypeInv
<1>9. /\ status[c] \in Nat /\ status[c] <= 1
      /\ Silent(conn[c]) => status[c] = 0
  BY <1>1, <1>3 DEF ConnInv, TypeInv
<1>10. /\ status' \in [Conn -> Nat] /\ status'[c] <= 1
       /\ \A e \in Conn \ {c} : status'[e] = status[e]
  <2>1. CASE Premature(conn[c]) /\ conn[c].rfd # Nil
    <3>1. status' = [status EXCEPT ![c] = @ + 1] /\ status[c] = 0
      BY <1>5, <1>9, <2>1 DEF Premature, Silent
    <3> QED
      BY <1>1, <3>1 DEF TypeInv
  <2>2. CASE ~ (Premature(conn[c]) /\ conn[c].rfd # Nil)
    BY <1>1, <1>5, <1>9, <2>2 DEF TypeInv
  <2> QED
    BY <2>1, <2>2
<1>11. /\ fed' \in [Conn -> Nat] /\ fed'[c] = 0 /\ \A e \in Conn \ {c} : fed'[e] = fed[e]
       /\ made' \in [Conn -> Nat] /\ outq' \in [Conn -> Nat] /\ inq' \in [Conn -> Nat]
       /\ overdue' \in SUBSET Conn
  BY <1>1, <1>5 DEF TypeInv
<1>12. ConnInv(c)'
  <2>1. /\ Owns(c, NewConn, fds') /\ Shape(NewConn) /\ FedBy(NewConn, ask[c], 0)
    BY DEF Owns, Shape, FedBy, NewConn
  <2>2. client[c] \notin {"new", "waiting"}
    BY <1>3 DEF IInv, ListInv
  <2> QED
    BY <1>4, <1>7, <1>10, <1>11, <2>1, <2>2 DEF ConnInv
<1>13. ASSUME NEW e \in Conn, e # c PROVE ConnInv(e)'
  <2>1. ConnInv(e)
    BY DEF IInv
  <2>2. \A f \in Held(conn[e]) : f \in Fd /\ f \notin Held(conn[c])
    BY <1>1, <1>13, <2>1, Apart
  <2>3. \A f \in Held(conn[e]) : fds'[f] = fds[f]
    BY <1>5, <2>2
  <2> QED
    BY <1>4, <1>7, <1>10, <1>11, <1>13, <2>1, <2>3, Untouched
<1> QED
  BY <1>3, <1>4, <1>7, <1>8, <1>10, <1>11, <1>12, <1>13

LEMMA CheckStep == IInv /\ Check => IInv'
<1> SUFFICES ASSUME IInv, Check PROVE IInv'
  OBVIOUS
<1>1. at \in Parts
  BY DEF Check, Parts
<1>2. /\ cur \in Conn /\ cur \in ToSet(conns) /\ k = conn[cur]
      /\ todo \in Seq(Conn) /\ todo # <<>> /\ Distinct(todo)
  BY <1>1, Visited
<1>3. /\ todo' = Tail(todo)
      /\ at' = IF todo' = <<>> THEN "expire" ELSE First(1, conn[Head(todo')], rset, wset)
      /\ UNCHANGED <<client, ask, sent, script, rset, wset>>
  BY DEF Check, clients
<1>4. /\ todo' \in Seq(Conn) /\ Distinct(todo') /\ ToSet(todo') = ToSet(todo) \ {cur}
      /\ Len(todo') = Len(todo) - 1 /\ Len(todo) \in Nat
      /\ \A i \in 1 .. Len(todo) - 1 : todo'[i] = todo[i + 1]
  BY <1>2, <1>3, Passed DEF cur
<1>5. /\ conns' \in Seq(Conn) /\ Distinct(conns') /\ conn' \in [Conn -> ConnRec]
      /\ ToSet(conns') \subseteq ToSet(conns) /\ ToSet(conns) \ {cur} \subseteq ToSet(conns')
      /\ cur \in ToSet(conns') => conn'[cur].rfd # Nil
      /\ \A e \in Conn \ {cur} : conn'[e] = conn[e]
      /\ fds' \in [Fd -> {Free} \cup Conn \X Uses]
      /\ status' \in [Conn -> Nat] /\ fed' \in [Conn -> Nat] /\ made' \in [Conn -> Nat]
      /\ outq' \in [Conn -> Nat] /\ inq' \in [Conn -> Nat]
      /\ overdue' \in SUBSET Conn
      /\ \A e \in Conn : ConnInv(e)'
  <2>1. CASE Over(k)
    <3>1. Disconnect(cur) /\ UNCHANGED <<client, ask>>
      BY <1>3, <2>1 DEF Check
    <3> QED
      BY <1>2, <3>1, Disconnected
  <2>2. CASE ~ Over(k)
    <3>1. UNCHANGED <<client, ask, status, fds, conn, conns, overdue, made, outq, inq, fed>>
      BY <1>3, <2>2 DEF Check, pipes
    <3>2. conn[cur].rfd # Nil
      BY <1>2, <2>2 DEF Over
    <3>3. ASSUME NEW e \in Conn PROVE ConnInv(e)'
      BY <3>1 DEF IInv, ConnInv
    <3> QED
      BY <3>1, <3>2, <3>3 DEF IInv, TypeInv, ListInv
  <2> QED
    BY <2>1, <2>2
<1>6. todo' # <<>> => /\ Head(todo') \in ToSet(todo') /\ Head(todo') \in Conn
                      /\ Head(todo') # cur /\ Head(todo') = todo'[1]
                      /\ 1 \in 1 .. Len(todo) - 1
  BY <1>4, Passed
<1>7. todo' # <<>> => k' = conn[Head(todo')]
  BY <1>5, <1>6 DEF k, cur
<1>8. /\ todo' = <<>> => at' = "expire"
      /\ todo' # <<>> => /\ at' \in Parts
                         /\ at' = "remote" => k'.rfd \in rset
                         /\ at' = "local" => k'.lr \in rset
                         /\ at' = "out" => k'.rfd \in wset
                         /\ at' = "in" => k'.lw \in wset
  <2>1. 1 \in 1 .. 5
    OBVIOUS
  <2> QED
    BY <1>3, <1>7, <2>1, FirstIs
<1>9. TypeInv'
  BY <1>3, <1>4, <1>5, <1>8 DEF IInv, TypeInv, Places
<1>10. ListInv'
  <2>1. \A c \in ToSet(conns) : c \in Conn
    BY InSet DEF IInv, TypeInv
  <2>2. ToSet(todo') \subseteq ToSet(conns')
    BY <1>4, <1>5 DEF IInv, ListInv
  <2>3. \A c \in Conn : client'[c] \in {"new", "waiting"} => c \notin ToSet(conns')
    BY <1>3, <1>5 DEF IInv, ListInv
  <2>4. ASSUME NEW c \in ToSet(conns') PROVE conn'[c].rfd # Nil \/ c \in ToSet(todo')
    <3>1. CASE c = cur
      BY <1>5, <3>1
    <3>2. CASE c # cur
      <4>1. c \in ToSet(conns) /\ c \in Conn
        BY <1>5, <2>1
      <4>2. conn[c].rfd # Nil \/ c \in ToSet(todo)
        BY <4>1 DEF IInv, ListInv
      <4> QED
        BY <1>4, <1>5, <3>2, <4>1, <4>2
    <3> QED
      BY <3>1, <3>2
  <2> QED
    BY <1>4, <1>5, <1>8, <2>2, <2>3, <2>4 DEF ListInv, Parts
<1>11. MarkInv'
  <2>1. \A i \in 1 .. Len(todo') : /\ Room(conn'[todo'[i]], rset)
    <3> SUFFICES ASSUME NEW i \in 1 .. Len(todo') PROVE Room(conn'[todo'[i]], rset)
      OBVIOUS
    <3>1. /\ todo'[i] = todo[i + 1] /\ i + 1 \in 2 .. Len(todo)
      BY <1>4
    <3>2. todo[i + 1] \in Conn /\ todo[i + 1] # cur
      BY <1>1, <3>1, Visited
    <3>3. Room(conn[todo[i + 1]], rset)
      BY <1>1, <3>1 DEF IInv, MarkInv
    <3> QED
      BY <1>5, <3>1, <3>2, <3>3
  <2>2. todo' # <<>> => Room(k', rset)
    <3>1. todo' # <<>> => k' = conn'[todo'[1]] /\ 1 \in 1 .. Len(todo')
      BY <1>4, <1>6 DEF k, cur
    <3> QED
      BY <2>1, <3>1
  <2>3. at' \in Parts => todo' # <<>>
    BY <1>8 DEF Parts
  <2>4. \A i \in 2 .. Len(todo') : Room(conn'[todo'[i]], rset)
    BY <1>4, <2>1
  <2> QED
    BY <1>3, <1>8, <2>2, <2>3, <2>4 DEF MarkInv, Room, Parts
<1> QED
  BY <1>5, <1>9, <1>10, <1>11 DEF IInv

LEMMA ExpireStep ==
  ASSUME IInv, NEW c \in Conn, Expire(c)
  PROVE  IInv'
<1>1. /\ at = "expire" /\ at' = "expire" /\ todo' = todo /\ Disconnect(c)
      /\ UNCHANGED <<client, ask, sent, script, rset, wset>>
  BY DEF Expire, clients
<1>2. /\ conns' \in Seq(Conn) /\ Distinct(conns')
      /\ ToSet(conns') = ToSet(conns) \ {c}
      /\ conn' \in [Conn -> ConnRec] /\ \A e \in Conn \ {c} : conn'[e] = conn[e]
      /\ fds' \in [Fd -> {Free} \cup Conn \X Uses]
      /\ status' \in [Conn -> Nat] /\ fed' \in [Conn -> Nat] /\ made' \in [Conn -> Nat]
      /\ outq' \in [Conn -> Nat] /\ inq' \in [Conn -> Nat]
      /\ overdue' \in SUBSET Conn
      /\ \A e \in Conn : ConnInv(e)'
  BY <1>1, Disconnected
<1>3. todo = <<>> /\ ToSet(todo) = {}
  BY <1>1, InSet DEF IInv, ListInv
<1>4. TypeInv'
  BY <1>1, <1>2 DEF IInv, TypeInv, Places
<1>5. ListInv'
  <2>1. \A e \in ToSet(conns) : e \in Conn
    BY InSet DEF IInv, TypeInv
  <2> QED
    BY <1>1, <1>2, <1>3, <2>1 DEF IInv, ListInv, Parts
<1>6. MarkInv'
  BY <1>1 DEF MarkInv, Parts
<1> QED
  BY <1>2, <1>4, <1>5, <1>6 DEF IInv

LEMMA AgainStep == IInv /\ Again => IInv'
<1> SUFFICES ASSUME IInv, Again PROVE IInv'
  OBVIOUS
<1>1. /\ at = "expire" /\ at' = "select" /\ rset' = {} /\ wset' = {}
      /\ UNCHANGED <<client, ask, sent, status, script, made, outq, inq, fed, fds, conn,
                     conns, overdue, todo>>
  BY DEF Again, clients, scripts, pipes
<1>2. TypeInv'
  BY <1>1 DEF IInv, TypeInv, Places
<1>3. ListInv'
  BY <1>1 DEF IInv, ListInv, Parts
<1>4. ASSUME NEW c \in Conn PROVE ConnInv(c)'
  BY <1>1 DEF IInv, ConnInv
<1>5. MarkInv'
  BY <1>1 DEF MarkInv, Parts
<1> QED
  BY <1>2, <1>3, <1>4, <1>5 DEF IInv

LEMMA StutterStep == IInv /\ UNCHANGED vars => IInv'
<1> SUFFICES ASSUME IInv, UNCHANGED vars PROVE IInv'
  OBVIOUS
<1>1. UNCHANGED <<client, ask, sent, status, script, made, outq, inq, fed, fds, conn,
                  conns, overdue, rset, wset, at, todo>>
  BY DEF vars, clients, scripts, pipes
<1>2. TypeInv'
  BY <1>1 DEF IInv, TypeInv
<1> QED
  BY <1>1, <1>2, Outside

\* Every step of the program preserves the invariant.
THEOREM Inductive == IInv /\ [Next]_vars => IInv'
<1> SUFFICES ASSUME IInv, [Next]_vars PROVE IInv'
  OBVIOUS
<1>1. ASSUME NEW c \in Conn,
             \/ Connect(c) \/ ClientSend(c) \/ ClientClose(c)
             \/ ScriptRead(c) \/ ScriptWrite(c) \/ ScriptExit(c) \/ TimePasses(c)
      PROVE  IInv'
  BY <1>1, OutsideSteps
<1>2. ASSUME NEW c \in Conn, Expire(c) PROVE IInv'
  BY <1>2, ExpireStep
<1>3. CASE Select
  BY <1>3, SelectStep
<1>4. CASE Visit
  BY <1>4, PullRemoteStep, RemoteEndsStep, PullLocalStep, LocalEndsStep, PushOutStep,
     PushInStep, PushInFailsStep, PushInAbortsStep DEF Visit
<1>5. CASE Check
  BY <1>5, CheckStep
<1>6. CASE Again
  BY <1>6, AgainStep
<1>7. CASE UNCHANGED vars
  BY <1>7, StutterStep
<1> QED
  BY <1>1, <1>2, <1>3, <1>4, <1>5, <1>6, <1>7 DEF Next
-----------------------------------------------------------------------------
(* The theorems *)

\* In every reachable state the variables have their types, the list of connections
\* and what is left of a pass over it agree, and a mark that a pass still asks for is
\* one for which there is room.
THEOREM Invariance == Spec => []IInv
<1>1. Init => IInv
  BY InitIInv
<1> QED
  BY <1>1, Inductive, PTL DEF Spec

\* httpd.c:811-843,1759-1776: the server never uses, through a connection, a
\* descriptor that has been closed and given to another, in whatever order the pass
\* closes and opens them.
THEOREM DescriptorsOwned == Spec => []OwnDescriptors
<1>1. IInv => OwnDescriptors
  <2> SUFFICES ASSUME IInv, NEW c \in ToSet(conns)
               PROVE  Owns(c, conn[c], fds)
    BY DEF OwnDescriptors, Owns
  <2> QED
    BY InSet DEF IInv, TypeInv, ConnInv
<1> QED
  BY <1>1, Invariance, PTL

\* httpd.c:1757,1553-1554: the asserts of the main loop and of pull never fail, though
\* the marks are asked for by number after some have been closed and opened again.
THEOREM AssertsHold == Spec => []LoopAssertsHold
<1>1. IInv => LoopAssertsHold
  <2> SUFFICES ASSUME IInv PROVE LoopAssertsHold
    OBVIOUS
  <2>1. at = "select" => \A c \in ToSet(conns) : conn[c].rfd # Nil
    BY InSet DEF IInv, ListInv
  <2>2. (at = "remote" => k.rread < BufSize) /\ (at = "local" => k.lread < BufSize)
    BY DEF IInv, MarkInv
  <2> QED
    BY <2>1, <2>2 DEF LoopAssertsHold
<1> QED
  BY <1>1, Invariance, PTL

\* httpd.c:887-910,1126-1165,1615-1620: no client is sent two status lines, one by the
\* script's answer or the file's headers and another by an error or at the end.
THEOREM StatusOnce == Spec => []OneStatus
<1>1. IInv => OneStatus
  BY DEF IInv, ConnInv, OneStatus
<1> QED
  BY <1>1, Invariance, PTL

\* httpd.c:1448-1450,1831-1838: whatever the client sends, at once or in pieces, the
\* script is given the body from its first unit on, and the pipe to it is closed early
\* only after all of it.
THEOREM BodyFed == Spec => []ScriptFed
<1>1. IInv => ScriptFed
  <2> SUFFICES ASSUME IInv, NEW c \in ToSet(conns), conn[c].cgimode, conn[c].lr # Nil
               PROVE  /\ conn[c].ntotal = ask[c].head + fed[c] + (conn[c].rread - conn[c].rwritten)
                      /\ conn[c].lw = Nil => fed[c] = ask[c].body
    BY DEF ScriptFed
  <2>1. c \in Conn
    BY InSet DEF IInv, TypeInv
  <2> QED
    BY <2>1 DEF IInv, ConnInv, FedBy
<1> QED
  BY <1>1, Invariance, PTL

==============================================================================
