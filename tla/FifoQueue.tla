----------------------------- MODULE FifoQueue -----------------------------
(***************************************************************************)
(* What lfq.h promises its callers: one first-in first-out queue shared by *)
(* threads, on which every call takes effect in a single step somewhere    *)
(* between its start and its return.  Lfq is shown to implement it.        *)
(***************************************************************************)
EXTENDS Sequences

CONSTANTS Thread,   \* the threads that call the queue
          Value,    \* the pointers they enqueue
          NULL,     \* lfq_deq's answer for an empty queue
          OK, FAIL  \* lfq_enq's answers 0 and -1

VARIABLES items,    \* the queue, oldest value first
          pending,  \* what each thread has asked for and not yet obtained
          result    \* what each thread's last call gave it

vars == <<items, pending, result>>

NoCall == [op |-> "none", val |-> NULL]
DeqCall == [op |-> "deq", val |-> NULL]
EnqCall(v) == [op |-> "enq", val |-> v]

Init == /\ items = <<>>
        /\ pending = [t \in Thread |-> NoCall]
        /\ result = [t \in Thread |-> NULL]

Call(t, c) == /\ pending[t] = NoCall
              /\ pending' = [pending EXCEPT ![t] = c]
              /\ UNCHANGED <<items, result>>

Answer(t, r) == /\ pending' = [pending EXCEPT ![t] = NoCall]
                /\ result' = [result EXCEPT ![t] = r]

\* lfq_enq: the value goes to the back
Put(t) == /\ pending[t].op = "enq"
          /\ items' = Append(items, pending[t].val)
          /\ Answer(t, OK)

\* lfq_enq without memory for a node: no effect
Refuse(t) == /\ pending[t] = NoCall
             /\ Answer(t, FAIL)
             /\ UNCHANGED items

\* lfq_deq: the value at the front, or NULL when there is none
Take(t) == /\ pending[t].op = "deq"
           /\ \/ /\ items = <<>>
                 /\ Answer(t, NULL)
                 /\ UNCHANGED items
              \/ /\ items # <<>>
                 /\ items' = Tail(items)
                 /\ Answer(t, Head(items))

Next == \E t \in Thread : \/ \E v \in Value : Call(t, EnqCall(v))
                          \/ Call(t, DeqCall)
                          \/ Put(t)
                          \/ Refuse(t)
                          \/ Take(t)

Spec == Init /\ [][Next]_vars
=============================================================================
