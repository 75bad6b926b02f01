-------------------------------- MODULE Lfq --------------------------------
(***************************************************************************)
(* lfq.c: the compare-and-swap queue.  A singly linked list of nodes whose *)
(* first node is a dummy; lfq->head and lfq->tail point into it.  Every    *)
(* thread runs lfq_enq and lfq_deq one shared access at a time; AT_CAS is  *)
(* one atomic step with a full barrier (atomic.h), so memory is            *)
(* sequentially consistent here.                                           *)
(***************************************************************************)
EXTENDS Integers, Sequences, FiniteSets

CONSTANTS Thread,   \* the threads that share the queue
          Value,    \* the non-NULL pointers they enqueue
          Node,     \* the addresses lfq->_malloc can return (bounds the run)
          NULL,     \* the null pointer
          OK, FAIL, \* the return codes 0 and -1 of lfq_enq
          SizeMod   \* 2^w, w the width of size_t (kept small)

ASSUME LfqAssumption ==
  /\ NULL \notin Value \cup Node \cup Thread
  /\ Node # {}
  /\ SizeMod \in Nat \ {0}

VARIABLES
  head, tail,   \* lfq->head, lfq->tail
  next, value,  \* the two fields of every node
  size,         \* lfq->size
  allocated,    \* the nodes malloc has handed out
  pc,           \* where each thread is
  node,         \* lfq_enq's local `node'
  ltail,        \* lfq_enq's local `tail'
  lhead, lnext, \* lfq_deq's locals `head' and `next'
  result,       \* what each thread's last call returned
  drain,        \* the thread inside lfq_deinit, or NULL
  \* History variables: no action reads them.
  chain,          \* every node ever linked, in the order of the links
  headAt, tailAt  \* the places of lfq->head and lfq->tail in chain

shared == <<head, tail, next, value, size, allocated>>
locals == <<pc, node, ltail, lhead, lnext, result, drain>>
history == <<chain, headAt, tailAt>>
vars == <<shared, locals, history>>

Goto(t, l) == pc' = [pc EXCEPT ![t] = l]

\* lfq_init_mf: one dummy node, which head and tail share
Init ==
  /\ head \in Node
  /\ tail = head
  /\ next = [n \in Node |-> NULL]
  /\ value = [n \in Node |-> NULL]
  /\ size = 0
  /\ allocated = {head}
  /\ pc = [t \in Thread |-> "idle"]
  /\ node = [t \in Thread |-> NULL]
  /\ ltail = [t \in Thread |-> NULL]
  /\ lhead = [t \in Thread |-> NULL]
  /\ lnext = [t \in Thread |-> NULL]
  /\ result = [t \in Thread |-> NULL]
  /\ drain = NULL
  /\ chain = <<head>>
  /\ headAt = 1
  /\ tailAt = 1
-----------------------------------------------------------------------------
(* lfq_enq *)

\* The node is allocated and filled in before anyone can see it.
EnqAlloc(t, v, n) ==
  /\ pc[t] = "idle" /\ drain = NULL
  /\ n \notin allocated
  /\ allocated' = allocated \cup {n}
  /\ value' = [value EXCEPT ![n] = v]
  /\ next' = [next EXCEPT ![n] = NULL]
  /\ node' = [node EXCEPT ![t] = n]
  /\ Goto(t, "enq_load")
  /\ UNCHANGED <<head, tail, size, ltail, lhead, lnext, result, drain, history>>

\* _malloc returns NULL: lfq_enq gives up before touching the queue.
EnqFail(t) ==
  /\ pc[t] = "idle" /\ drain = NULL
  /\ result' = [result EXCEPT ![t] = FAIL]
  /\ UNCHANGED <<shared, pc, node, ltail, lhead, lnext, drain, history>>

\* tail = lfq->tail
EnqLoad(t) ==
  /\ pc[t] = "enq_load"
  /\ ltail' = [ltail EXCEPT ![t] = tail]
  /\ Goto(t, "enq_link")
  /\ UNCHANGED <<shared, node, lhead, lnext, result, drain, history>>

\* Where the loop of lfq_enq begins again: it reads lfq->tail anew.
KeepsOldTail == "enq_link"   \* mutant: the load is outside the loop
EnqRetry == "enq_load"

\* What the first CAS tests.
LinksAnyway(t) == TRUE   \* mutant: a store in place of the CAS
LastNode(t) == next[ltail[t]] = NULL

\* AT_CAS(tail->next, NULL, node)
EnqLink(t) ==
  /\ pc[t] = "enq_link"
  /\ \/ /\ LastNode(t)
        /\ next' = [next EXCEPT ![ltail[t]] = node[t]]
        /\ chain' = Append(chain, node[t])
        /\ Goto(t, "enq_swing")
     \/ /\ ~ LastNode(t)
        /\ Goto(t, EnqRetry)
        /\ UNCHANGED <<next, chain>>
  /\ UNCHANGED <<head, tail, value, size, allocated, node, ltail, lhead, lnext,
                 result, drain, headAt, tailAt>>

\* AT_CAS(lfq->tail, tail, node): on failure the loop would link the node again
EnqSwing(t) ==
  /\ pc[t] = "enq_swing"
  /\ \/ /\ tail = ltail[t]
        /\ tail' = node[t]
        /\ tailAt' = tailAt + 1
        /\ Goto(t, "enq_count")
     \/ /\ tail # ltail[t]
        /\ Goto(t, EnqRetry)
        /\ UNCHANGED <<tail, tailAt>>
  /\ UNCHANGED <<head, next, value, size, allocated, node, ltail, lhead, lnext,
                 result, drain, chain, headAt>>

\* Atomic addition to lfq->size, an unsigned number.
SizeUnbounded(d) == size + d   \* mutant: a signed counter
SizeClamped(d) ==   \* mutant: never below zero
  IF size + d < 0 THEN 0 ELSE (size + d) % SizeMod
SizePlus(d) == (size + d) % SizeMod

\* AT_AAF(lfq->size, 1); return 0: the locals go out of scope
EnqCount(t) ==
  /\ pc[t] = "enq_count"
  /\ size' = SizePlus(1)
  /\ result' = [result EXCEPT ![t] = OK]
  /\ node' = [node EXCEPT ![t] = NULL]
  /\ ltail' = [ltail EXCEPT ![t] = NULL]
  /\ Goto(t, "idle")
  /\ UNCHANGED <<head, tail, next, value, allocated, lhead, lnext, drain,
                 history>>
-----------------------------------------------------------------------------
(* lfq_deq *)

DeqCall(t) ==
  /\ pc[t] = "idle" /\ drain = NULL
  /\ Goto(t, "deq_load")
  /\ UNCHANGED <<shared, node, ltail, lhead, lnext, result, drain, history>>

\* head = lfq->head
DeqLoad(t) ==
  /\ pc[t] = "deq_load"
  /\ lhead' = [lhead EXCEPT ![t] = head]
  /\ Goto(t, "deq_recheck")
  /\ UNCHANGED <<shared, node, ltail, lnext, result, drain, history>>

\* What the CASes on lfq->head test.
StoresAnyway(t) == TRUE   \* mutant: a store in place of the CAS
HeadUnmoved(t) == head = lhead[t]

\* AT_CAS(lfq->head, head, head)
DeqRecheck(t) ==
  /\ pc[t] = "deq_recheck"
  /\ Goto(t, IF HeadUnmoved(t) THEN "deq_next" ELSE "deq_load")
  /\ UNCHANGED <<shared, node, ltail, lhead, lnext, result, drain, history>>

\* next = head->next
DeqNext(t) ==
  /\ pc[t] = "deq_next"
  /\ lnext' = [lnext EXCEPT ![t] = next[lhead[t]]]
  /\ Goto(t, "deq_test")
  /\ UNCHANGED <<shared, node, ltail, lhead, result, drain, history>>

\* The loop of lfq_deinit goes on until lfq_deq gives it NULL.
DrainsOnce(val) == "deinit_reset"   \* mutant: one lfq_deq, no loop
DrainLoop(val) == IF val = NULL THEN "deinit_reset" ELSE "deq_load"

\* Where a finished lfq_deq returns to: its caller, or lfq_deinit
AfterDeq(t, val) ==
  /\ result' = [result EXCEPT ![t] = val]
  /\ lhead' = [lhead EXCEPT ![t] = NULL]
  /\ lnext' = [lnext EXCEPT ![t] = NULL]
  /\ Goto(t, IF drain = t THEN DrainLoop(val) ELSE "idle")

\* AT_CAS(lfq->tail, head, head)
IgnoresTail(t) == FALSE       \* mutant: the test is left out
TailAtHead(t) == tail = lhead[t]

\* The tests of next on either side of it: an empty queue is left at once; a node
\* linked but not yet behind lfq->tail is waited for; otherwise it may be taken.
DeqTest(t) ==
  /\ pc[t] = "deq_test"
  /\ \/ /\ lnext[t] = NULL
        /\ AfterDeq(t, NULL)
     \/ /\ lnext[t] # NULL
        /\ Goto(t, IF TailAtHead(t) THEN "deq_load" ELSE "deq_swap")
        /\ UNCHANGED <<lhead, lnext, result>>
  /\ UNCHANGED <<shared, node, ltail, drain, history>>

\* val = next->value (written once, before the node was linked) and
\* AT_CAS(lfq->head, head, next); the old dummy is not freed
DeqSwap(t) ==
  /\ pc[t] = "deq_swap"
  /\ \/ /\ HeadUnmoved(t)
        /\ head' = lnext[t]
        /\ headAt' = headAt + 1
        /\ result' = [result EXCEPT ![t] = value[lnext[t]]]
        /\ Goto(t, "deq_count")
     \/ /\ ~ HeadUnmoved(t)
        /\ Goto(t, "deq_load")
        /\ UNCHANGED <<head, headAt, result>>
  /\ UNCHANGED <<tail, next, value, size, allocated, node, ltail, lhead, lnext,
                 drain, chain, tailAt>>

\* AT_FAS(lfq->size, 1)
DeqCount(t) ==
  /\ pc[t] = "deq_count"
  /\ size' = SizePlus(-1)
  /\ AfterDeq(t, result[t])
  /\ UNCHANGED <<head, tail, next, value, allocated, node, ltail, drain, history>>
-----------------------------------------------------------------------------
(* lfq_deinit: its callers have joined every other thread (lfq_test.c) *)

DeinitCall(t) ==
  /\ drain = NULL
  /\ \A u \in Thread : pc[u] = "idle"
  /\ drain' = t
  /\ Goto(t, "deq_load")
  /\ UNCHANGED <<shared, node, ltail, lhead, lnext, result, history>>

DeinitReset(t) ==
  /\ pc[t] = "deinit_reset"
  /\ size' = 0
  /\ drain' = NULL
  /\ Goto(t, "idle")
  /\ UNCHANGED <<head, tail, next, value, allocated, node, ltail, lhead, lnext,
                 result, history>>
-----------------------------------------------------------------------------
\* The calls are the environment's; the rest of each call is the thread's.
Calls(t) == \/ \E v \in Value, n \in Node : EnqAlloc(t, v, n)
            \/ EnqFail(t)
            \/ DeqCall(t)
            \/ DeinitCall(t)

Step(t) == \/ EnqLoad(t) \/ EnqLink(t) \/ EnqSwing(t) \/ EnqCount(t)
           \/ DeqLoad(t) \/ DeqRecheck(t) \/ DeqNext(t) \/ DeqTest(t)
           \/ DeqSwap(t) \/ DeqCount(t)
           \/ DeinitReset(t)

Next == \E t \in Thread : Calls(t) \/ Step(t)

Spec == Init /\ [][Next]_vars

\* A thread that has called in is scheduled again and again.
FairSpec == Spec /\ \A t \in Thread : WF_vars(Step(t))
-----------------------------------------------------------------------------
Labels == {"idle", "enq_load", "enq_link", "enq_swing", "enq_count",
           "deq_load", "deq_recheck", "deq_next", "deq_test", "deq_swap",
           "deq_count", "deinit_reset"}

\* Every variable holds a value of its C type.
TypeOK ==
  /\ head \in Node /\ tail \in Node
  /\ next \in [Node -> Node \cup {NULL}]
  /\ value \in [Node -> Value \cup {NULL}]
  /\ size \in 0 .. SizeMod - 1
  /\ allocated \subseteq Node
  /\ pc \in [Thread -> Labels]
  /\ node \in [Thread -> Node \cup {NULL}]
  /\ ltail \in [Thread -> Node \cup {NULL}]
  /\ lhead \in [Thread -> Node \cup {NULL}]
  /\ lnext \in [Thread -> Node \cup {NULL}]
  /\ result \in [Thread -> Value \cup {NULL, OK, FAIL}]
  /\ drain \in Thread \cup {NULL}
  /\ chain \in Seq(Node)
  /\ headAt \in Nat /\ tailAt \in Nat

\* lfq.c:71-76: once a thread's first CAS has linked its node, its second CAS
\* cannot fail, so the loop never links the same node twice.
SwingSucceeds == \A t \in Thread : pc[t] = "enq_swing" => tail = ltail[t]

\* lfq.c:91: lfq->head never moves past lfq->tail, although the two are moved by
\* different threads with no common lock.
HeadNotPastTail ==
  /\ headAt <= tailAt
  /\ head = chain[headAt] /\ tail = chain[tailAt]

Swinging(t) == pc[t] = "enq_swing"
EnqBegun(t) == pc[t] \in {"enq_load", "enq_link"}
HoldsHead(t) == pc[t] \in {"deq_recheck", "deq_next", "deq_test", "deq_swap"}

\* The nodes linked so far form one list without a cycle.
ChainInv ==
  /\ chain # <<>>
  /\ \A i, j \in 1 .. Len(chain) : chain[i] = chain[j] => i = j
  /\ \A i \in 1 .. Len(chain) :
       /\ chain[i] \in allocated
       /\ i < Len(chain) => next[chain[i]] = chain[i + 1]
       /\ i = Len(chain) => next[chain[i]] = NULL
       /\ i > 1 => value[chain[i]] \in Value

EndsInv ==
  /\ headAt \in 1 .. tailAt
  /\ tailAt \in 1 .. Len(chain)
  /\ head = chain[headAt]
  /\ tail = chain[tailAt]

\* At most one thread is between its two CASes, and it alone can move tail.
SwingInv ==
  /\ \A t \in Thread : Swinging(t) =>
       /\ tailAt = Len(chain) - 1
       /\ ltail[t] = chain[tailAt]
       /\ node[t] = chain[Len(chain)]
       /\ \A u \in Thread : Swinging(u) => u = t
  /\ (\A t \in Thread : ~ Swinging(t)) => tailAt = Len(chain)

\* A node not yet linked belongs to one thread.
PrivateInv ==
  \A t \in Thread : EnqBegun(t) =>
    /\ node[t] \in allocated
    /\ value[node[t]] \in Value
    /\ next[node[t]] = NULL
    /\ \A i \in 1 .. Len(chain) : chain[i] # node[t]
    /\ \A u \in Thread : EnqBegun(u) /\ node[u] = node[t] => u = t

\* What the locals point to, however long ago they were read.
LtailInv ==
  \A t \in Thread : pc[t] = "enq_link" =>
    \E i \in 1 .. tailAt : ltail[t] = chain[i]

LheadInv ==
  \A t \in Thread : HoldsHead(t) =>
    \E i \in 1 .. headAt :
      /\ lhead[t] = chain[i]
      /\ pc[t] \in {"deq_test", "deq_swap"} /\ lnext[t] # NULL =>
           i < Len(chain) /\ lnext[t] = chain[i + 1]
      /\ pc[t] = "deq_swap" => lnext[t] # NULL /\ i < tailAt

\* lfq.c:71-76, 91 and 99 together: the list is well formed, its two ends are in
\* order, and every pointer a thread holds is still the one it needs.
ListInv ==
  ChainInv /\ EndsInv /\ SwingInv /\ PrivateInv /\ LtailInv /\ LheadInv

Linked == {t \in Thread : pc[t] \in {"enq_swing", "enq_count"}}
Unlinked == {t \in Thread : pc[t] = "deq_count"}

\* lfq.c:79,111: size lags behind the list by exactly the calls that have
\* changed the list and not yet the counter; it may wrap below zero meanwhile,
\* and is exact whenever no such call is in progress (lfq_test.c:66).
SizeAccounted ==
  size = (Len(chain) - headAt - Cardinality(Linked) + Cardinality(Unlinked))
           % SizeMod

\* lfq.c:121-127: when lfq_deinit is about to reset size, the queue is empty.
DeinitLeavesEmpty ==
  \A t \in Thread : pc[t] = "deinit_reset" => headAt = Len(chain) /\ size = 0

\* lfq.c: every call returns.  (With finitely many nodes only finitely many
\* enqueues compete; with endless competition a single call can starve.)
CallsReturn == \A t \in Thread : pc[t] # "idle" ~> pc[t] = "idle"
-----------------------------------------------------------------------------
(* The refinement.  An enqueue takes effect when its first CAS links the node;
   a dequeue when its last CAS moves head, or, on an empty queue, already when
   it reads a NULL next pointer.                                             *)

AbsItems == [i \in 1 .. Len(chain) - headAt |-> value[chain[headAt + i]]]

DeqBegun(t) == \/ pc[t] \in {"deq_load", "deq_recheck", "deq_next", "deq_swap"}
               \/ pc[t] = "deq_test" /\ lnext[t] # NULL
FoundEmpty(t) == pc[t] = "deq_test" /\ lnext[t] = NULL

PendingOf(t) ==
  IF EnqBegun(t) THEN [op |-> "enq", val |-> value[node[t]]]
  ELSE [op |-> IF DeqBegun(t) THEN "deq" ELSE "none", val |-> NULL]

ResultOf(t) == IF pc[t] \in {"enq_swing", "enq_count"} THEN OK
               ELSE IF FoundEmpty(t) THEN NULL ELSE result[t]

AbsPending == [t \in Thread |-> PendingOf(t)]
AbsResult == [t \in Thread |-> ResultOf(t)]

Fifo == INSTANCE FifoQueue
          WITH items <- AbsItems, pending <- AbsPending, result <- AbsResult

\* lfq.h: the queue is a linearizable first-in first-out queue.
ImplementsFifo == Fifo!Spec
=============================================================================
