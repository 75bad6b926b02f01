-------------------------- MODULE ThreadPoolProofs --------------------------
(***************************************************************************)
(* thread_win.c for every size of the pool and every number of jobs: no    *)
(* job is lost, repeated or overtaken, and "average mode" is even.         *)
(***************************************************************************)
EXTENDS ThreadPool, SequenceTheorems, TLAPS

\* What a thread's local variable can hold.
Datum == Job \cup {NULL}

LEMMA Regroup ==
  ASSUME NEW a \in Seq(Datum), NEW b \in Seq(Datum), NEW c \in Seq(Datum)
  PROVE  a \o (b \o c) = (a \o b) \o c
BY ConcatAssociative, SMTT(30)

LEMMA AppendRight ==
  ASSUME NEW a \in Seq(Datum), NEW b \in Seq(Datum), NEW x \in Datum
  PROVE  Append(a \o b, x) = a \o Append(b, x)
<1>1. a \o b \in Seq(Datum) /\ <<x>> \in Seq(Datum)
  BY ConcatProperties
<1>2. Append(a \o b, x) = (a \o b) \o <<x>> /\ Append(b, x) = b \o <<x>>
  BY <1>1, AppendIsConcat
<1> QED
  BY <1>1, <1>2, Regroup

LEMMA HeadFirst ==
  ASSUME NEW d \in Seq(Datum), NEW q \in Seq(Datum), q # <<>>
  PROVE  d \o q = (d \o <<Head(q)>>) \o Tail(q)
<1> DEFINE h == <<Head(q)>>
           r == Tail(q)
<1>1. /\ h \in Seq(Datum) /\ Len(h) = 1 /\ h[1] = q[1]
      /\ r \in Seq(Datum) /\ Len(r) = Len(q) - 1
      /\ \A k \in 1 .. Len(r) : r[k] = q[k + 1]
  BY HeadTailProperties
<1> HIDE DEF h, r
<1>2. /\ h \o r \in Seq(Datum) /\ Len(h \o r) = Len(q)
      /\ \A k \in 1 .. Len(q) : (h \o r)[k] = IF k <= 1 THEN h[k] ELSE r[k - 1]
  <2>1. /\ h \o r \in Seq(Datum) /\ Len(h \o r) = Len(h) + Len(r)
        /\ \A k \in 1 .. Len(h) + Len(r) :
             (h \o r)[k] = IF k <= Len(h) THEN h[k] ELSE r[k - Len(h)]
    <3>1. h \in Seq(Datum) /\ r \in Seq(Datum)
      BY <1>1
    <3> QED
      BY <3>1, ConcatProperties
  <2>2. Len(h) + Len(r) = Len(q)
    BY <1>1, LenProperties
  <2> QED
    BY <1>1, <2>1, <2>2
<1>3. ASSUME NEW k \in 1 .. Len(q) PROVE (h \o r)[k] = q[k]
  <2>1. Len(q) \in Nat
    BY LenProperties
  <2>2. CASE k = 1
    BY <1>1, <1>2, <2>2
  <2>3. CASE k # 1
    <3>1. k - 1 \in 1 .. Len(r) /\ (k - 1) + 1 = k /\ ~ (k <= 1)
      BY <1>1, <2>1, <2>3
    <3>2. (h \o r)[k] = r[k - 1] /\ r[k - 1] = q[(k - 1) + 1]
      BY <1>1, <1>2, <3>1
    <3> QED
      BY <3>1, <3>2
  <2> QED
    BY <2>2, <2>3
<1>4. q = h \o r
  <2>1. \A k \in 1 .. Len(h \o r) : (h \o r)[k] = q[k]
    BY <1>2, <1>3
  <2> QED
    BY <1>2, <2>1, SeqEqual
<1>5. d \o (h \o r) = (d \o h) \o r
  <2>1. h \in Seq(Datum) /\ r \in Seq(Datum)
    BY <1>1
  <2> QED
    BY <2>1, Regroup, Zenon
<1> QED
  BY <1>4, <1>5 DEF h, r

-----------------------------------------------------------------------------
Labels == {"loop", "deq", "task", "to_idle", "reset", "wait", "to_busy"}

\* Every step keeps the types; the threads never leave their loop.
LEMMA NextType == TypeOK /\ [Next]_vars => TypeOK'
<1> SUFFICES ASSUME TypeOK, [Next]_vars PROVE TypeOK'
  OBVIOUS
<1> USE PoolAssumption DEF TypeOK, Thread, Job
<1>1. CASE Dispatch
  BY <1>1 DEF Dispatch, pool, worker
<1>2. CASE Scan
  <2>1. at' \in {"scan", "enq"} /\ i' \in 0 .. PoolSize /\ n' \in Thread /\ job \in Job
    <3>1. at = "scan" /\ i \in 0 .. PoolSize /\ i < PoolSize /\ n' = i /\ job \in Job
      BY <1>2 DEF Scan
    <3>2. (at' = "enq" /\ i' = i) \/ (at' = at /\ i' = i + 1)
      BY <1>2 DEF Scan
    <3> QED
      BY <3>1, <3>2
  <2>2. UNCHANGED <<pool, worker, job, given, done, picks>>
    BY <1>2 DEF Scan
  <2> QED
    BY <2>1, <2>2 DEF pool, worker
<1>3. CASE Average
  <2>1. Turn \in Thread /\ CounterAfter \in 0 .. PoolSize
    BY DEF Turn, CounterAfter
  <2>2. picks' \in [Thread -> Nat]
    BY <1>3 DEF Average
  <2> QED
    BY <1>3, <2>1, <2>2 DEF Average, worker
<1>4. CASE Enq
  <2>1. queue' \in [Thread -> Seq(Job)] /\ given' \in [Thread -> Seq(Job)]
    BY <1>4 DEF Enq
  <2> QED
    BY <1>4, <2>1, SMTT(30) DEF Enq, worker
<1>5. CASE EnqFails \/ Test
  BY <1>5 DEF EnqFails, Test, pool, worker
<1>6. CASE Set
  BY <1>6 DEF Set, worker
<1>7. ASSUME NEW t \in Thread, Work(t) PROVE TypeOK'
  <2>1. CASE Loop(t)
    <3>1. pc' = [pc EXCEPT ![t] = "deq"]
      BY <2>1 DEF Loop, Goto
    <3>2. UNCHANGED <<pool, data, dispatcher, given, done, picks>>
      BY <2>1 DEF Loop
    <3> QED
      BY <3>1, <3>2 DEF pool, dispatcher
  <2>2. CASE Deq(t)
    <3>1. CASE queue[t] # <<>>
      <4>1. Head(queue[t]) \in Job /\ Tail(queue[t]) \in Seq(Job)
        <5>1. queue[t] \in Seq(Job)
          OBVIOUS
        <5> QED
          BY <3>1, <5>1, HeadTailProperties
      <4>2. /\ data' = [data EXCEPT ![t] = Head(queue[t])]
            /\ queue' = [queue EXCEPT ![t] = Tail(queue[t])]
            /\ pc' = [pc EXCEPT ![t] = "task"]
            /\ UNCHANGED <<stat, event, counter, status, at, i, n, job, given, done, picks>>
        BY <2>2, <3>1 DEF Deq, Goto, dispatcher
      <4>3. /\ data' \in [Thread -> Job \cup {NULL}] /\ queue' \in [Thread -> Seq(Job)]
            /\ pc' \in [Thread -> Labels]
        BY <4>1, <4>2 DEF Labels
      <4> QED
        BY <4>2, <4>3 DEF Labels
    <3>2. CASE queue[t] = <<>>
      BY <2>2, <3>2 DEF Deq, Goto, dispatcher
    <3> QED
      BY <3>1, <3>2
  <2>3. CASE Task(t)
    <3>1. /\ done' = [done EXCEPT ![t] = Append(done[t], data[t])]
          /\ pc' = [pc EXCEPT ![t] = "loop"]
          /\ UNCHANGED <<pool, data, dispatcher, given, picks>>
      BY <2>3 DEF Task, Goto
    <3>2. Append(done[t], data[t]) \in Seq(Job \cup {NULL})
      <4>1. done[t] \in Seq(Job \cup {NULL}) /\ data[t] \in Job \cup {NULL}
        OBVIOUS
      <4> QED
        BY <4>1, AppendProperties
    <3>3. done' \in [Thread -> Seq(Job \cup {NULL})] /\ pc' \in [Thread -> Labels]
      BY <3>1, <3>2 DEF Labels
    <3> QED
      BY <3>1, <3>3 DEF pool, dispatcher, Labels
  <2>4. CASE ToIdle(t)
    BY <2>4 DEF ToIdle, Goto, dispatcher
  <2>5. CASE Reset(t)
    BY <2>5 DEF Reset, Goto, dispatcher
  <2>6. CASE Wake(t)
    BY <2>6 DEF Wake, Goto, pool, dispatcher
  <2>7. CASE ToBusy(t)
    BY <2>7 DEF ToBusy, WokenAt, Goto, dispatcher
  <2> QED
    BY <1>7, <2>1, <2>2, <2>3, <2>4, <2>5, <2>6, <2>7 DEF Work
<1>8. CASE UNCHANGED vars
  BY <1>8 DEF vars, pool, worker, dispatcher
<1> QED
  BY <1>1, <1>2, <1>3, <1>4, <1>5, <1>6, <1>7, <1>8 DEF Next, Dispatching

\* The types, and that every index is one of a thread, whatever the size of the pool.
THEOREM TypeCorrect == Spec => []TypeOK
<1>1. Init => TypeOK
  BY PoolAssumption DEF Init, TypeOK, Thread, Job
<1> QED
  BY <1>1, NextType, PTL DEF Spec

-----------------------------------------------------------------------------
\* What one thread's three sequences are made of.
LEMMA Parts ==
  ASSUME TypeOK, NEW t \in Thread
  PROVE  /\ given[t] \in Seq(Datum) /\ done[t] \in Seq(Datum) /\ queue[t] \in Seq(Datum)
         /\ InHand(t) \in Seq(Datum) /\ done[t] \o InHand(t) \in Seq(Datum)
<1>1. /\ given[t] \in Seq(Datum) /\ done[t] \in Seq(Datum) /\ queue[t] \in Seq(Datum)
      /\ data[t] \in Datum
  BY DEF TypeOK, Datum
<1>2. InHand(t) \in Seq(Datum)
  BY <1>1 DEF InHand
<1> QED
  BY <1>1, <1>2, ConcatProperties

\* Every step keeps the accounts of every thread.
LEMMA NextOnce == TypeOK /\ EachJobOnce /\ [Next]_vars => EachJobOnce'
<1> SUFFICES ASSUME TypeOK, EachJobOnce, [Next]_vars, NEW u \in Thread
             PROVE  given'[u] = done'[u] \o InHand(u)' \o queue'[u]
  BY DEF EachJobOnce
<1>1. /\ given[u] = done[u] \o InHand(u) \o queue[u]
      /\ given[u] \in Seq(Datum) /\ done[u] \in Seq(Datum) /\ queue[u] \in Seq(Datum)
      /\ InHand(u) \in Seq(Datum) /\ done[u] \o InHand(u) \in Seq(Datum)
  BY Parts DEF EachJobOnce
<1>2. ASSUME UNCHANGED <<given, done, queue>>, InHand(u)' = InHand(u)
      PROVE  given'[u] = done'[u] \o InHand(u)' \o queue'[u]
  BY <1>1, <1>2
<1>3. CASE Dispatch \/ Scan \/ Average \/ EnqFails \/ Test \/ Set
  <2>1. UNCHANGED <<given, done, queue>> /\ InHand(u)' = InHand(u)
    BY <1>3 DEF Dispatch, Scan, Average, EnqFails, Test, Set, pool, worker, InHand
  <2> QED
    BY <1>2, <2>1
<1>4. CASE Enq
  <2>1. /\ job \in Datum /\ InHand(u)' = InHand(u) /\ done' = done
        /\ queue'[u] = IF u = n THEN Append(queue[u], job) ELSE queue[u]
        /\ given'[u] = IF u = n THEN Append(given[u], job) ELSE given[u]
    BY <1>4 DEF Enq, TypeOK, Datum, worker, InHand
  <2>2. Append((done[u] \o InHand(u)) \o queue[u], job)
          = (done[u] \o InHand(u)) \o Append(queue[u], job)
    BY <1>1, <2>1, AppendRight
  <2> QED
    BY <1>1, <2>1, <2>2
<1>5. ASSUME NEW t \in Thread, Loop(t) \/ ToIdle(t) \/ Reset(t) \/ Wake(t) \/ ToBusy(t)
      PROVE  given'[u] = done'[u] \o InHand(u)' \o queue'[u]
  <2>1. UNCHANGED <<given, done, queue>> /\ InHand(u)' = InHand(u)
    BY <1>5 DEF Loop, ToIdle, Reset, Wake, ToBusy, WokenAt, Goto, pool, InHand, TypeOK
  <2> QED
    BY <1>2, <2>1
<1>6. ASSUME NEW t \in Thread, Deq(t)
      PROVE  given'[u] = done'[u] \o InHand(u)' \o queue'[u]
  <2>1. CASE u # t \/ queue[t] = <<>>
    <3>1. queue' = queue \/ u # t
      BY <1>6, <2>1 DEF Deq
    <3>2. given' = given /\ done' = done /\ queue'[u] = queue[u] /\ InHand(u)' = InHand(u)
      BY <1>6, <2>1, <3>1 DEF Deq, Goto, InHand, TypeOK
    <3> QED
      BY <1>1, <3>2
  <2>2. CASE u = t /\ queue[t] # <<>>
    <3>1. /\ given' = given /\ done' = done /\ queue'[u] = Tail(queue[u])
          /\ InHand(u) = <<>> /\ InHand(u)' = <<Head(queue[u])>>
      BY <1>6, <2>2 DEF Deq, Goto, InHand, TypeOK
    <3>2. done[u] \o queue[u] = (done[u] \o <<Head(queue[u])>>) \o Tail(queue[u])
      BY <1>1, <2>2, HeadFirst
    <3>3. given[u] = done[u] \o queue[u]
      BY <1>1, <3>1, ConcatEmptySeq
    <3> QED
      BY <3>1, <3>2, <3>3
  <2> QED
    BY <2>1, <2>2
<1>7. ASSUME NEW t \in Thread, Task(t)
      PROVE  given'[u] = done'[u] \o InHand(u)' \o queue'[u]
  <2>1. CASE u # t
    <3>1. given' = given /\ done'[u] = done[u] /\ queue' = queue /\ InHand(u)' = InHand(u)
      BY <1>7, <2>1 DEF Task, Goto, InHand, TypeOK, pool
    <3> QED
      BY <1>1, <3>1
  <2>2. CASE u = t
    <3>1. /\ given' = given /\ done'[u] = Append(done[u], data[u]) /\ queue' = queue
          /\ InHand(u) = <<data[u]>> /\ InHand(u)' = <<>> /\ data[u] \in Datum
      BY <1>7, <2>2 DEF Task, Goto, InHand, TypeOK, pool, Datum
    <3>2. done'[u] = done[u] \o InHand(u)
      BY <1>1, <3>1, AppendIsConcat
    <3>3. done'[u] \o InHand(u)' = done[u] \o InHand(u)
      BY <1>1, <3>1, <3>2, ConcatEmptySeq
    <3> QED
      BY <1>1, <3>1, <3>3
  <2> QED
    BY <2>1, <2>2
<1>8. CASE UNCHANGED vars
  <2>1. UNCHANGED <<given, done, queue>> /\ InHand(u)' = InHand(u)
    BY <1>8 DEF vars, pool, worker, InHand
  <2> QED
    BY <1>2, <2>1
<1> QED
  BY <1>3, <1>4, <1>5, <1>6, <1>7, <1>8 DEF Next, Dispatching, Work

\* Whatever the interleaving of dispatching, sleeping and waking, every thread calls
\* task() once with each job it was given, in order, and with nothing else.
THEOREM OncePerJob == Spec => []EachJobOnce
<1>1. Init => EachJobOnce
  <2> SUFFICES ASSUME Init PROVE EachJobOnce
    OBVIOUS
  <2>1. \A t \in Thread : given[t] = <<>> /\ done[t] = <<>> /\ InHand(t) = <<>>
                            /\ queue[t] = <<>>
    BY DEF Init, InHand
  <2>2. <<>> \o <<>> \o <<>> = <<>>
    BY ConcatEmptySeq, EmptySeq
  <2> QED
    BY <2>1, <2>2 DEF EachJobOnce
<1> QED
  BY <1>1, NextOnce, TypeCorrect, PTL DEF Spec

-----------------------------------------------------------------------------
\* The threads before pool->counter have been chosen once more than the others.
EvenInv == \E b \in Nat : \A t \in Thread : picks[t] = IF t < counter THEN b + 1 ELSE b

\* "Average mode" keeps it so, and nothing else touches it.
LEMMA NextEven == TypeOK /\ EvenInv /\ [Next]_vars => EvenInv'
<1> SUFFICES ASSUME TypeOK, EvenInv, [Next]_vars PROVE EvenInv'
  OBVIOUS
<1>1. CASE Average
  <2>1. PICK b \in Nat : \A t \in Thread : picks[t] = IF t < counter THEN b + 1 ELSE b
    BY DEF EvenInv
  <2>2. /\ counter' = Turn + 1 /\ PoolSize \in Nat \ {0} /\ counter \in 0 .. PoolSize
        /\ \A t \in Thread : picks'[t] = IF t = Turn THEN picks[t] + 1 ELSE picks[t]
    BY <1>1, PoolAssumption DEF Average, CounterAfter, TypeOK
  <2>3. CASE counter = PoolSize
    <3>1. Turn = 0 /\ counter' = 1
      BY <2>2, <2>3 DEF Turn
    <3>2. \A t \in Thread : picks'[t] = IF t < 1 THEN (b + 1) + 1 ELSE b + 1
      BY <2>1, <2>2, <2>3, <3>1 DEF Thread
    <3> QED
      BY <3>1, <3>2 DEF EvenInv
  <2>4. CASE counter < PoolSize
    <3>1. Turn = counter /\ counter' = counter + 1
      BY <2>2, <2>4 DEF Turn
    <3>2. \A t \in Thread : picks'[t] = IF t < counter + 1 THEN b + 1 ELSE b
      BY <2>1, <2>2, <2>4, <3>1 DEF Thread
    <3> QED
      BY <3>1, <3>2 DEF EvenInv
  <2> QED
    BY <2>2, <2>3, <2>4
<1>2. CASE UNCHANGED <<picks, counter>>
  BY <1>2 DEF EvenInv
<1>3. Average \/ UNCHANGED <<picks, counter>>
  BY DEF Next, Dispatching, Dispatch, Scan, Enq, EnqFails, Test, Set, Work, Loop, Deq,
         Task, ToIdle, Reset, Wake, ToBusy, pool, vars
<1> QED
  BY <1>1, <1>2, <1>3

\* "Average mode" never chooses a thread twice more often than another one.
THEOREM EvenlyChosen == Spec => []Even
<1>1. Init => EvenInv
  <2> SUFFICES ASSUME Init PROVE EvenInv
    OBVIOUS
  <2>1. \A t \in Thread : picks[t] = IF t < counter THEN 0 + 1 ELSE 0
    BY PoolAssumption DEF Init, Thread
  <2> QED
    BY <2>1 DEF EvenInv
<1>2. EvenInv => Even
  <2> SUFFICES ASSUME EvenInv PROVE Even
    OBVIOUS
  <2>1. PICK b \in Nat : \A t \in Thread : picks[t] = IF t < counter THEN b + 1 ELSE b
    BY DEF EvenInv
  <2>2. \A t \in Thread : picks[t] \in {b, b + 1}
    BY <2>1
  <2> QED
    BY <2>2 DEF Even
<1> QED
  BY <1>1, <1>2, NextEven, TypeCorrect, PTL DEF Spec
=============================================================================
