----------------------------- MODULE ThreadPool -----------------------------
(***************************************************************************)
(* thread_win.c: a pool of threads with a lock-free queue and a manual-    *)
(* reset event each.  One thread of the program dispatches; the pool's own *)
(* threads sleep on their events for at most MAX_IDLE_LIFE.                *)
(*                                                                         *)
(* Each queue has one producer and one consumer; an lfq_enq or an lfq_deq  *)
(* is one step here, which is what Lfq implements.                         *)
(***************************************************************************)
EXTENDS Integers, Sequences

CONSTANTS PoolSize,  \* thread_pool_new(size), at most MAX_THR_NUM
          MaxJobs,   \* bound: how many jobs are dispatched
          NULL       \* the null pointer

ASSUME PoolAssumption == /\ PoolSize \in Nat \ {0}
                         /\ MaxJobs \in Nat
                         /\ NULL \notin Nat

Thread == 0 .. PoolSize - 1
Job == 1 .. MaxJobs     \* numbered in the order of their dispatch

VARIABLES
  \* thread_t and thread_pool
  stat,    \* thread->stat
  event,   \* is thread->event set?
  queue,   \* thread->queue
  counter, \* pool->counter
  status,  \* pool->status
  \* thread_pool_process
  pc,      \* where each thread is
  data,    \* its local `data'
  \* thread_pool_dispatch
  at,      \* where the dispatching thread is
  i, n,    \* its locals
  job,     \* the last job dispatched
  \* History variables: no action reads them.
  given,   \* the jobs each thread has been given, in order
  done,    \* what each thread has called task() with, in order
  picks    \* how often "average mode" has chosen each thread

pool == <<stat, event, queue, counter, status>>
worker == <<pc, data>>
dispatcher == <<at, i, n, job>>
vars == <<pool, worker, dispatcher, given, done, picks>>

\* thread_pool_new and thread_pool_start
Init ==
  /\ stat = [t \in Thread |-> "IDLE"]
  /\ event = [t \in Thread |-> FALSE]
  /\ queue = [t \in Thread |-> <<>>]
  /\ counter = 0
  /\ status = 1
  /\ pc = [t \in Thread |-> "loop"]
  /\ data = [t \in Thread |-> NULL]
  /\ at = "idle" /\ i = 0 /\ n = 0 /\ job = 0
  /\ given = [t \in Thread |-> <<>>]
  /\ done = [t \in Thread |-> <<>>]
  /\ picks = [t \in Thread |-> 0]
-----------------------------------------------------------------------------
(* thread_pool_dispatch *)

Dispatch ==
  /\ at = "idle" /\ job < MaxJobs
  /\ job' = job + 1
  /\ at' = "scan" /\ i' = 0
  /\ UNCHANGED <<pool, worker, n, given, done, picks>>

\* AT_CAS(pool->threads[i].stat, IDLE, IDLE)
Scan ==
  /\ at = "scan" /\ i < PoolSize
  /\ n' = i
  /\ \/ stat[i] = "IDLE" /\ at' = "enq" /\ UNCHANGED i
     \/ stat[i] # "IDLE" /\ i' = i + 1 /\ UNCHANGED at
  /\ UNCHANGED <<pool, worker, job, given, done, picks>>

\* The index "average mode" starts from.
WrapsLate == IF counter > PoolSize THEN 0 ELSE counter   \* mutant: > for >=
Turn == IF counter >= PoolSize THEN 0 ELSE counter

\* What it leaves in pool->counter.
StaysPut == Turn   \* mutant: counter, not counter++
CounterAfter == Turn + 1

\* All threads are busy.
Average ==
  /\ at = "scan" /\ i = PoolSize
  /\ n' = Turn
  /\ counter' = CounterAfter
  /\ picks' = [t \in Thread |-> IF t = Turn THEN picks[t] + 1 ELSE picks[t]]
  /\ at' = "enq"
  /\ UNCHANGED <<stat, event, queue, status, worker, i, job, given, done>>

\* lfq_enq(thread->queue, data)
Enq ==
  /\ at = "enq"
  /\ queue' = [queue EXCEPT ![n] = Append(@, job)]
  /\ given' = [given EXCEPT ![n] = Append(@, job)]
  /\ at' = "test"
  /\ UNCHANGED <<stat, event, counter, status, worker, i, n, job, done, picks>>

\* lfq_enq is out of memory: the job is dropped.
EnqFails ==
  /\ at = "enq"
  /\ at' = "idle"
  /\ UNCHANGED <<pool, worker, i, n, job, given, done, picks>>

\* AT_CAS(thread->stat, IDLE, IDLE)
Test ==
  /\ at = "test"
  /\ at' = IF stat[n] = "IDLE" THEN "set" ELSE "idle"
  /\ UNCHANGED <<pool, worker, i, n, job, given, done, picks>>

\* SetEvent(thread->event)
Set ==
  /\ at = "set"
  /\ event' = [event EXCEPT ![n] = TRUE]
  /\ at' = "idle"
  /\ UNCHANGED <<stat, queue, counter, status, worker, i, n, job, given, done,
                 picks>>

Dispatching == Scan \/ Average \/ Enq \/ EnqFails \/ Test \/ Set
-----------------------------------------------------------------------------
(* thread_pool_process *)

Goto(t, l) == pc' = [pc EXCEPT ![t] = l]

\* while (thread->parent->status)
Loop(t) ==
  /\ pc[t] = "loop"
  /\ Goto(t, IF status # 0 THEN "deq" ELSE "exit")
  /\ UNCHANGED <<pool, data, dispatcher, given, done, picks>>

\* (data = lfq_deq(myq)) == NULL
Deq(t) ==
  /\ pc[t] = "deq"
  /\ \/ /\ queue[t] # <<>>
        /\ data' = [data EXCEPT ![t] = Head(queue[t])]
        /\ queue' = [queue EXCEPT ![t] = Tail(@)]
        /\ Goto(t, "task")
     \/ /\ queue[t] = <<>>
        /\ data' = [data EXCEPT ![t] = NULL]
        /\ Goto(t, "to_idle")
        /\ UNCHANGED queue
  /\ UNCHANGED <<stat, event, counter, status, dispatcher, given, done, picks>>

\* thread->parent->task(data)
Task(t) ==
  /\ pc[t] = "task"
  /\ done' = [done EXCEPT ![t] = Append(@, data[t])]
  /\ Goto(t, "loop")
  /\ UNCHANGED <<pool, data, dispatcher, given, picks>>

\* AT_CAS(thread->stat, BUSY, IDLE)
ToIdle(t) ==
  /\ pc[t] = "to_idle"
  /\ stat' = [stat EXCEPT ![t] = "IDLE"]
  /\ Goto(t, "reset")
  /\ UNCHANGED <<event, queue, counter, status, data, dispatcher, given, done,
                 picks>>

\* ResetEvent(thread->event)
Reset(t) ==
  /\ pc[t] = "reset"
  /\ event' = [event EXCEPT ![t] = FALSE]
  /\ Goto(t, "wait")
  /\ UNCHANGED <<stat, queue, counter, status, data, dispatcher, given, done,
                 picks>>

\* WaitForSingleObject(thread->event, MAX_IDLE_LIFE) returns because the event is set,
\* and leaves it set, or because the time is up: the code does not ask which.
Wake(t) ==
  /\ pc[t] = "wait"
  /\ Goto(t, "to_busy")
  /\ UNCHANGED <<pool, data, dispatcher, given, done, picks>>

\* Where the thread goes on.
FallsThrough == "task"     \* mutant: no goto out
SleepsAgain == "to_idle"   \* mutant: the label out is below lfq_deq
WokenAt == "deq"

\* AT_CAS(thread->stat, IDLE, BUSY); goto out, past the test of the status
ToBusy(t) ==
  /\ pc[t] = "to_busy"
  /\ stat' = [stat EXCEPT ![t] = "BUSY"]
  /\ Goto(t, WokenAt)
  /\ UNCHANGED <<event, queue, counter, status, data, dispatcher, given, done,
                 picks>>

Work(t) == Loop(t) \/ Deq(t) \/ Task(t) \/ ToIdle(t) \/ Reset(t) \/ Wake(t) \/ ToBusy(t)
-----------------------------------------------------------------------------
Next == Dispatch \/ Dispatching \/ \E t \in Thread : Work(t)

Spec == Init /\ [][Next]_vars

\* Windows schedules every thread, task() returns, and a wait ends when its time
\* is up.
FairSpec == Spec /\ WF_vars(Dispatching) /\ \A t \in Thread : WF_vars(Work(t))
-----------------------------------------------------------------------------
TypeOK ==
  /\ stat \in [Thread -> {"IDLE", "BUSY"}]
  /\ event \in [Thread -> BOOLEAN]
  /\ queue \in [Thread -> Seq(Job)]
  /\ counter \in 0 .. PoolSize
  /\ status = 1
  /\ pc \in [Thread -> {"loop", "deq", "task", "to_idle", "reset", "wait", "to_busy"}]
  /\ data \in [Thread -> Job \cup {NULL}]
  /\ at \in {"idle", "scan", "enq", "test", "set"}
  /\ i \in 0 .. PoolSize /\ n \in Thread /\ job \in 0 .. MaxJobs
  /\ at # "idle" => job \in Job
  /\ given \in [Thread -> Seq(Job)] /\ done \in [Thread -> Seq(Job \cup {NULL})]
  /\ picks \in [Thread -> Nat]

InHand(t) == IF pc[t] = "task" THEN <<data[t]>> ELSE <<>>

\* thread_win.c:18-37,120: whatever the interleaving of sleeping, waking and
\* dispatching, a thread calls task() with exactly the jobs it was given, each
\* once and in the order of their dispatch; the rest is in its queue.
EachJobOnce == \A t \in Thread : given[t] = done[t] \o InHand(t) \o queue[t]

\* thread_win.c:109-115: "average mode" serves all threads evenly.
Even == \A t, u \in Thread : picks[t] <= picks[u] + 1

\* thread_win.c:20-31,120-124: a job whose wake-up was lost (the dispatcher saw BUSY
\* just before the thread went to sleep, or set the event just before the thread
\* reset it) is run all the same.
JobsRun == \A j \in Job, t \in Thread :
  (\E k \in DOMAIN given[t] : given[t][k] = j) ~>
  (\E k \in DOMAIN done[t] : done[t][k] = j)
=============================================================================
