----------------------------- MODULE LfqProofs -----------------------------
(***************************************************************************)
(* Theorems about Lfq for any threads, values, nodes and size width.       *)
(***************************************************************************)
EXTENDS Lfq, FiniteSetTheorems, SequenceTheorems, TLAPS

IInv == TypeOK /\ ListInv

\* The tests and results the actions are written with are always expanded.
USE DEF LastNode, EnqRetry, SizePlus, HeadUnmoved, DrainLoop, TailAtHead

\* The memory a local of an idle call may touch is never NULL.
LEMMA NullApart == NULL \notin Value /\ NULL \notin Node /\ NULL \notin Thread
BY LfqAssumption

-----------------------------------------------------------------------------
(* Types *)

\* lfq_init_mf gives every field a value of its type.
LEMMA InitType == Init => TypeOK
BY LfqAssumption DEF Init, TypeOK, Labels

\* The steps of lfq_enq keep the types.
LEMMA EnqType ==
  ASSUME IInv, NEW t \in Thread,
         \/ \E v \in Value, n \in Node : EnqAlloc(t, v, n)
         \/ EnqFail(t) \/ EnqLoad(t) \/ EnqLink(t) \/ EnqSwing(t) \/ EnqCount(t)
  PROVE  TypeOK'
<1> USE DEF IInv
<1>1. CASE \E v \in Value, n \in Node : EnqAlloc(t, v, n)
  BY <1>1 DEF EnqAlloc, TypeOK, Goto, Labels, history
<1>2. CASE EnqFail(t)
  BY <1>2 DEF EnqFail, TypeOK, shared, history
<1>3. CASE EnqLoad(t)
  BY <1>3 DEF EnqLoad, TypeOK, Goto, Labels, shared, history
<1>4. CASE EnqLink(t)
  <2>1. node[t] \in Node
    BY <1>4 DEF EnqLink, ListInv, PrivateInv, EnqBegun, TypeOK
  <2>2. next' \in [Node -> Node \cup {NULL}]
    BY <1>4, <2>1 DEF EnqLink, TypeOK
  <2>3. Append(chain, node[t]) \in Seq(Node)
    BY <2>1 DEF TypeOK
  <2>4. chain' \in Seq(Node)
    BY <1>4, <2>3 DEF EnqLink, TypeOK
  <2> QED
    BY <1>4, <2>2, <2>4 DEF EnqLink, TypeOK, Goto, Labels
<1>5. CASE EnqSwing(t)
  <2>1. node[t] \in Node
    BY <1>5 DEF EnqSwing, ListInv, SwingInv, ChainInv, Swinging, TypeOK
  <2> QED
    BY <1>5, <2>1 DEF EnqSwing, TypeOK, Goto, Labels
<1>6. CASE EnqCount(t)
  BY <1>6, LfqAssumption DEF EnqCount, TypeOK, Goto, Labels, history
<1> QED
  BY <1>1, <1>2, <1>3, <1>4, <1>5, <1>6

\* The steps of lfq_deq and lfq_deinit keep the types.
LEMMA DeqType ==
  ASSUME IInv, NEW t \in Thread,
         \/ DeqCall(t) \/ DeqLoad(t) \/ DeqRecheck(t) \/ DeqNext(t)
         \/ DeqTest(t) \/ DeqSwap(t) \/ DeqCount(t)
         \/ DeinitCall(t) \/ DeinitReset(t)
  PROVE  TypeOK'
<1> USE DEF IInv
<1>1. CASE DeqCall(t)
  BY <1>1 DEF DeqCall, TypeOK, Goto, Labels, shared, history
<1>2. CASE DeqLoad(t)
  BY <1>2 DEF DeqLoad, TypeOK, Goto, Labels, shared, history
<1>3. CASE DeqRecheck(t)
  BY <1>3 DEF DeqRecheck, TypeOK, Goto, Labels, shared, history
<1>4. CASE DeqNext(t)
  <2>1. lhead[t] \in Node
    BY <1>4 DEF DeqNext, ListInv, LheadInv, EndsInv, HoldsHead, TypeOK
  <2> QED
    BY <1>4, <2>1 DEF DeqNext, TypeOK, Goto, Labels, shared, history
<1>5. CASE DeqTest(t)
  BY <1>5 DEF DeqTest, AfterDeq, TypeOK, Goto, Labels, shared, history
<1>6. CASE DeqSwap(t)
  <2>1. lnext[t] \in Node
    BY <1>6 DEF DeqSwap, ListInv, LheadInv, EndsInv, HoldsHead, TypeOK
  <2> QED
    BY <1>6, <2>1 DEF DeqSwap, TypeOK, Goto, Labels
<1>7. CASE DeqCount(t)
  BY <1>7, LfqAssumption DEF DeqCount, AfterDeq, TypeOK, Goto, Labels, history
<1>8. CASE DeinitCall(t)
  BY <1>8 DEF DeinitCall, TypeOK, Goto, Labels, shared, history
<1>9. CASE DeinitReset(t)
  BY <1>9, LfqAssumption DEF DeinitReset, TypeOK, Goto, Labels, history
<1> QED
  BY <1>1, <1>2, <1>3, <1>4, <1>5, <1>6, <1>7, <1>8, <1>9

\* Every step, and every stuttering step, keeps the types.
LEMMA NextType == IInv /\ [Next]_vars => TypeOK'
<1> SUFFICES ASSUME IInv, [Next]_vars PROVE TypeOK'
  OBVIOUS
<1>1. ASSUME NEW t \in Thread, Calls(t) \/ Step(t) PROVE TypeOK'
  BY <1>1, EnqType, DeqType DEF Calls, Step
<1>2. CASE UNCHANGED vars
  BY <1>2 DEF vars, shared, locals, history, IInv, TypeOK
<1> QED
  BY <1>1, <1>2 DEF Next

-----------------------------------------------------------------------------
(* The list *)

\* lfq_init_mf builds a well formed list of one dummy.
LEMMA InitList == Init => ListInv
BY LfqAssumption DEF Init, ListInv, ChainInv, EndsInv, SwingInv, PrivateInv,
     LtailInv, LheadInv, Swinging, EnqBegun, HoldsHead

\* A new node is nobody else's and not in the list.
LEMMA EnqAllocList ==
  ASSUME IInv, NEW t \in Thread, NEW v \in Value, NEW n \in Node,
         EnqAlloc(t, v, n)
  PROVE  ListInv'
<1> USE DEF IInv, ListInv, EnqAlloc, Goto, history, TypeOK
<1>1. ChainInv'
  BY DEF ChainInv
<1>2. EndsInv'
  BY DEF EndsInv
<1>3. SwingInv'
  BY DEF SwingInv, Swinging
<1>4. PrivateInv'
  <2> SUFFICES ASSUME NEW u \in Thread, EnqBegun(u)'
               PROVE  /\ node'[u] \in allocated'
                      /\ value'[node'[u]] \in Value
                      /\ next'[node'[u]] = NULL
                      /\ \A i \in 1 .. Len(chain) : chain[i] # node'[u]
                      /\ \A w \in Thread : EnqBegun(w)' /\ node'[w] = node'[u] => w = u
    BY DEF PrivateInv
  <2>1. CASE u = t
    BY <2>1 DEF PrivateInv, EnqBegun, ChainInv
  <2>2. CASE u # t
    BY <2>2 DEF PrivateInv, EnqBegun
  <2> QED
    BY <2>1, <2>2
<1>5. LtailInv'
  BY DEF LtailInv
<1>6. LheadInv'
  BY DEF LheadInv, HoldsHead
<1> QED
  BY <1>1, <1>2, <1>3, <1>4, <1>5, <1>6

\* Reading lfq->tail yields a node of the list.
LEMMA EnqLoadList ==
  ASSUME IInv, NEW t \in Thread, EnqLoad(t) PROVE ListInv'
<1> USE DEF IInv, ListInv, EnqLoad, Goto, shared, history, TypeOK
<1>1. ChainInv' /\ EndsInv'
  BY DEF ChainInv, EndsInv
<1>2. SwingInv'
  BY DEF SwingInv, Swinging
<1>3. PrivateInv'
  BY DEF PrivateInv, EnqBegun
<1>4. LtailInv'
  BY DEF LtailInv, EndsInv
<1>5. LheadInv'
  BY DEF LheadInv, HoldsHead
<1> QED
  BY <1>1, <1>2, <1>3, <1>4, <1>5

\* The first CAS succeeds only on the last node, and only while no other thread
\* is about to swing lfq->tail: the new node becomes the last one.
LEMMA EnqLinkList ==
  ASSUME IInv, NEW t \in Thread, EnqLink(t) PROVE ListInv'
<1> USE DEF IInv, TypeOK
<1>1. CASE next[ltail[t]] # NULL
  <2> USE <1>1 DEF ListInv, EnqLink, Goto
  <2>1. ChainInv' /\ EndsInv'
    BY DEF ChainInv, EndsInv
  <2>2. SwingInv' /\ PrivateInv'
    BY DEF SwingInv, Swinging, PrivateInv, EnqBegun
  <2>3. LtailInv' /\ LheadInv'
    BY DEF LtailInv, LheadInv, HoldsHead
  <2> QED
    BY <2>1, <2>2, <2>3
<1>2. CASE next[ltail[t]] = NULL
  <2> DEFINE n == node[t]
             L == Len(chain)
  <2>0. /\ pc[t] = "enq_link" /\ EnqBegun(t)
        /\ next' = [next EXCEPT ![ltail[t]] = n]
        /\ chain' = Append(chain, n)
        /\ pc' = [pc EXCEPT ![t] = "enq_swing"]
        /\ UNCHANGED <<head, tail, value, allocated, node, ltail, lhead, lnext,
                       headAt, tailAt>>
    BY <1>2 DEF EnqLink, Goto, EnqBegun
  <2>1. /\ n \in Node /\ n \in allocated /\ value[n] \in Value
        /\ next[n] = NULL /\ \A i \in 1 .. L : chain[i] # n
    BY <2>0 DEF ListInv, PrivateInv
  <2>2. tailAt = L /\ ltail[t] = chain[L] /\ L \in Nat \ {0}
    <3>1. L \in Nat /\ tailAt \in 1 .. L
      BY DEF ListInv, EndsInv
    <3>2. PICK i \in 1 .. tailAt : ltail[t] = chain[i]
      BY <2>0 DEF ListInv, LtailInv
    <3>3. i = L
      <4>1. SUFFICES ASSUME i < L PROVE FALSE
        BY <3>1
      <4>2. chain[i + 1] \in Node
        BY <3>1, <4>1
      <4> QED
        BY <1>2, <3>1, <3>2, <4>1, <4>2, LfqAssumption DEF ListInv, ChainInv
    <3> QED
      BY <3>1, <3>2, <3>3
  <2>3. \A u \in Thread : ~ Swinging(u)
    BY <2>2 DEF ListInv, SwingInv
  <2>4. /\ Len(chain') = L + 1
        /\ \A i \in 1 .. L : chain'[i] = chain[i]
        /\ chain'[L + 1] = n
    BY <2>0, <2>1, <2>2
  <2>5. \A i \in 1 .. L : i < L => next'[chain[i]] = chain[i + 1]
    BY <2>0, <2>2 DEF ListInv, ChainInv
  <2>6. next'[chain[L]] = n /\ next'[n] = NULL
    BY <2>0, <2>1, <2>2
  <2>7. ChainInv'
    <3>1. chain' # <<>>
      BY <2>4
    <3>2. \A i, j \in 1 .. L + 1 : chain'[i] = chain'[j] => i = j
      BY <2>1, <2>4 DEF ListInv, ChainInv
    <3>3. ASSUME NEW i \in 1 .. L + 1
          PROVE  /\ chain'[i] \in allocated
                 /\ i < L + 1 => next'[chain'[i]] = chain'[i + 1]
                 /\ i = L + 1 => next'[chain'[i]] = NULL
                 /\ i > 1 => value[chain'[i]] \in Value
      <4>1. CASE i = L + 1
        BY <2>1, <2>2, <2>4, <2>6, <4>1
      <4>2. CASE i = L
        BY <2>2, <2>4, <2>6, <4>2 DEF ListInv, ChainInv
      <4>3. CASE i \in 1 .. L - 1
        BY <2>2, <2>4, <2>5, <4>3 DEF ListInv, ChainInv
      <4> QED
        BY <2>2, <4>1, <4>2, <4>3
    <3> QED
      BY <3>1, <3>2, <3>3, <2>0, <2>4 DEF ChainInv
  <2>8. EndsInv'
    BY <2>0, <2>4, <2>2 DEF ListInv, EndsInv
  <2>9. SwingInv'
    BY <2>0, <2>2, <2>3, <2>4 DEF SwingInv, Swinging
  <2>10. PrivateInv'
    BY <2>0, <2>1, <2>2, <2>4 DEF ListInv, PrivateInv, EnqBegun, ChainInv
  <2>11. LtailInv'
    BY <2>0, <2>2, <2>4 DEF ListInv, LtailInv
  <2>12. LheadInv'
    <3> SUFFICES ASSUME NEW u \in Thread, HoldsHead(u)'
                 PROVE  \E i \in 1 .. headAt :
                          /\ lhead[u] = chain'[i]
                          /\ pc'[u] \in {"deq_test", "deq_swap"} /\ lnext[u] # NULL =>
                               i < L + 1 /\ lnext[u] = chain'[i + 1]
                          /\ pc'[u] = "deq_swap" => lnext[u] # NULL /\ i < tailAt
      BY <2>0, <2>4 DEF LheadInv
    <3>1. HoldsHead(u) /\ pc'[u] = pc[u]
      BY <2>0 DEF HoldsHead
    <3>2. PICK i \in 1 .. headAt :
            /\ lhead[u] = chain[i]
            /\ pc[u] \in {"deq_test", "deq_swap"} /\ lnext[u] # NULL =>
                 i < L /\ lnext[u] = chain[i + 1]
            /\ pc[u] = "deq_swap" => lnext[u] # NULL /\ i < tailAt
      BY <3>1 DEF ListInv, LheadInv
    <3>3. i \in 1 .. L /\ headAt \in 1 .. L
      BY <2>2 DEF ListInv, EndsInv
    <3> QED
      BY <2>2, <2>4, <3>1, <3>2, <3>3
  <2> QED
    BY <2>7, <2>8, <2>9, <2>10, <2>11, <2>12 DEF ListInv
<1> QED
  BY <1>1, <1>2

\* The second CAS finds lfq->tail where this thread left it.
LEMMA EnqSwingList ==
  ASSUME IInv, NEW t \in Thread, EnqSwing(t) PROVE ListInv'
<1> USE DEF IInv, TypeOK
<1>1. /\ Swinging(t) /\ tailAt = Len(chain) - 1 /\ tail = ltail[t]
      /\ node[t] = chain[Len(chain)] /\ Len(chain) \in Nat
      /\ \A u \in Thread : Swinging(u) => u = t
  BY DEF ListInv, EnqSwing, Swinging, SwingInv, EndsInv
<1>2. /\ tail' = chain[Len(chain)] /\ tailAt' = Len(chain)
      /\ pc' = [pc EXCEPT ![t] = "enq_count"]
      /\ UNCHANGED <<head, next, value, allocated, node, ltail, lhead, lnext,
                     chain, headAt>>
  BY <1>1 DEF EnqSwing, Goto
<1>3. ChainInv'
  BY <1>2 DEF ListInv, ChainInv
<1>4. EndsInv'
  BY <1>1, <1>2 DEF ListInv, EndsInv
<1>5. SwingInv'
  BY <1>1, <1>2 DEF SwingInv, Swinging
<1>6. PrivateInv'
  BY <1>2 DEF ListInv, PrivateInv, EnqBegun
<1>7. LtailInv'
  BY <1>1, <1>2 DEF ListInv, LtailInv, EndsInv
<1>8. LheadInv'
  BY <1>1, <1>2 DEF ListInv, LheadInv, HoldsHead, EndsInv
<1> QED
  BY <1>3, <1>4, <1>5, <1>6, <1>7, <1>8 DEF ListInv

\* Steps that touch no pointer, of the list or of a thread's own, except by
\* leaving a call or entering one.
LEMMA IdleList ==
  ASSUME IInv, NEW t \in Thread,
         EnqFail(t) \/ EnqCount(t) \/ DeqCall(t) \/ DeqCount(t)
           \/ DeinitCall(t) \/ DeinitReset(t)
  PROVE  ListInv'
<1> USE DEF IInv, TypeOK, ListInv
<1>1. /\ UNCHANGED <<head, tail, next, value, allocated, chain, headAt, tailAt>>
      /\ pc[t] \in {"idle", "enq_count", "deq_count", "deinit_reset"}
      /\ \E l \in {"idle", "deq_load", "deinit_reset"} :
           pc' = [pc EXCEPT ![t] = l]
      /\ \A u \in Thread \ {t} :
           /\ node'[u] = node[u] /\ ltail'[u] = ltail[u]
           /\ lhead'[u] = lhead[u] /\ lnext'[u] = lnext[u]
  <2>1. CASE EnqFail(t)
    <3> pc' = [pc EXCEPT ![t] = "idle"]
      BY <2>1 DEF EnqFail
    <3> QED
      BY <2>1 DEF EnqFail, shared, history
  <2>2. CASE EnqCount(t)
    BY <2>2 DEF EnqCount, Goto, history
  <2>3. CASE DeqCall(t) \/ DeinitCall(t)
    BY <2>3 DEF DeqCall, DeinitCall, Goto, shared, history
  <2>4. CASE DeqCount(t)
    BY <2>4 DEF DeqCount, AfterDeq, Goto, history
  <2>5. CASE DeinitReset(t)
    BY <2>5 DEF DeinitReset, Goto, history
  <2> QED
    BY <2>1, <2>2, <2>3, <2>4, <2>5
<1>2. ChainInv' /\ EndsInv'
  BY <1>1 DEF ChainInv, EndsInv
<1>3. SwingInv'
  BY <1>1 DEF SwingInv, Swinging
<1>4. PrivateInv'
  BY <1>1 DEF PrivateInv, EnqBegun
<1>5. LtailInv' /\ LheadInv'
  <2>1. \A u \in Thread : pc'[u] = "enq_link" \/ HoldsHead(u)' =>
                            u # t /\ pc'[u] = pc[u]
    BY <1>1 DEF HoldsHead
  <2>2. LtailInv'
    BY <1>1, <2>1 DEF LtailInv
  <2>3. LheadInv'
    BY <1>1, <2>1 DEF LheadInv, HoldsHead
  <2> QED
    BY <2>2, <2>3
<1> QED
  BY <1>2, <1>3, <1>4, <1>5

\* The reads of lfq_deq yield nodes of the list, next to one another; a node
\* whose successor is behind lfq->tail may be taken.
LEMMA DeqReadList ==
  ASSUME IInv, NEW t \in Thread,
         DeqLoad(t) \/ DeqRecheck(t) \/ DeqNext(t) \/ DeqTest(t)
  PROVE  ListInv'
<1> USE DEF IInv, TypeOK
<1>1. /\ UNCHANGED <<head, tail, next, value, allocated, node, ltail, chain,
                     headAt, tailAt>>
      /\ pc[t] \in {"deq_load", "deq_recheck", "deq_next", "deq_test"}
      /\ \E l \in {"deq_load", "deq_recheck", "deq_next", "deq_test",
                   "deq_swap", "idle", "deinit_reset"} :
           pc' = [pc EXCEPT ![t] = l]
      /\ \A u \in Thread \ {t} : lhead'[u] = lhead[u] /\ lnext'[u] = lnext[u]
  <2>1. CASE DeqLoad(t) \/ DeqRecheck(t) \/ DeqNext(t)
    BY <2>1 DEF DeqLoad, DeqRecheck, DeqNext, Goto, shared, history
  <2>2. CASE DeqTest(t)
    BY <2>2 DEF DeqTest, AfterDeq, Goto, shared, history
  <2> QED
    BY <2>1, <2>2
<1>2. ChainInv' /\ EndsInv'
  BY <1>1 DEF ListInv, ChainInv, EndsInv
<1>3. SwingInv'
  BY <1>1 DEF ListInv, SwingInv, Swinging
<1>4. PrivateInv'
  BY <1>1 DEF ListInv, PrivateInv, EnqBegun
<1>5. LtailInv'
  BY <1>1 DEF ListInv, LtailInv
<1>6. LheadInv'
  <2> SUFFICES ASSUME NEW u \in Thread, HoldsHead(u)'
               PROVE  \E i \in 1 .. headAt :
                        /\ lhead'[u] = chain[i]
                        /\ pc'[u] \in {"deq_test", "deq_swap"} /\ lnext'[u] # NULL =>
                             i < Len(chain) /\ lnext'[u] = chain[i + 1]
                        /\ pc'[u] = "deq_swap" => lnext'[u] # NULL /\ i < tailAt
    BY <1>1 DEF LheadInv
  <2>1. CASE u # t
    BY <1>1, <2>1 DEF ListInv, LheadInv, HoldsHead
  <2>2. CASE u = t /\ DeqLoad(t)
    BY <1>1, <2>2 DEF ListInv, EndsInv, DeqLoad, Goto
  <2>3. CASE u = t /\ DeqRecheck(t)
    BY <1>1, <2>3 DEF ListInv, LheadInv, HoldsHead, DeqRecheck, Goto
  <2>4. CASE u = t /\ DeqNext(t)
    <3>1. PICK i \in 1 .. headAt : lhead[t] = chain[i]
      BY <2>4 DEF ListInv, LheadInv, HoldsHead, DeqNext
    <3>2. i \in 1 .. Len(chain) /\ Len(chain) \in Nat
      BY DEF ListInv, EndsInv
    <3>3. lnext'[t] = next[chain[i]] /\ lhead' = lhead /\ pc'[t] = "deq_test"
      BY <2>4, <3>1 DEF DeqNext, Goto
    <3>4. lnext'[t] # NULL => i < Len(chain) /\ lnext'[t] = chain[i + 1]
      BY <3>2, <3>3 DEF ListInv, ChainInv
    <3> QED
      BY <2>4, <3>1, <3>3, <3>4
  <2>5. CASE u = t /\ DeqTest(t)
    <3>1. /\ pc[t] = "deq_test" /\ pc'[t] = "deq_swap"
          /\ lnext[t] # NULL /\ tail # lhead[t]
          /\ lhead' = lhead /\ lnext' = lnext
      BY <2>5 DEF DeqTest, AfterDeq, Goto, HoldsHead
    <3>2. PICK i \in 1 .. headAt : /\ lhead[t] = chain[i]
                                  /\ i < Len(chain) /\ lnext[t] = chain[i + 1]
      BY <3>1 DEF ListInv, LheadInv, HoldsHead
    <3>3. i < tailAt
      BY <3>1, <3>2 DEF ListInv, EndsInv
    <3> QED
      BY <2>5, <3>1, <3>2, <3>3
  <2> QED
    BY <2>1, <2>2, <2>3, <2>4, <2>5
<1> QED
  BY <1>2, <1>3, <1>4, <1>5, <1>6 DEF ListInv

\* A successful last CAS moves lfq->head to the next node of the list, still at
\* or before lfq->tail.
LEMMA DeqSwapList ==
  ASSUME IInv, NEW t \in Thread, DeqSwap(t) PROVE ListInv'
<1> USE DEF IInv, TypeOK
<1>1. PICK i \in 1 .. headAt :
        /\ lhead[t] = chain[i] /\ i < Len(chain) /\ lnext[t] = chain[i + 1]
        /\ i < tailAt
  BY DEF DeqSwap, ListInv, LheadInv, HoldsHead
<1>2. /\ UNCHANGED <<tail, next, value, allocated, node, ltail, lhead, lnext,
                     chain, tailAt>>
      /\ pc[t] = "deq_swap"
      /\ \E l \in {"deq_count", "deq_load"} : pc' = [pc EXCEPT ![t] = l]
  BY DEF DeqSwap, Goto
<1>3. EndsInv' /\ headAt' \in Nat /\ headAt <= headAt'
  <2>1. CASE head = lhead[t]
    <3>1. i = headAt
      <4>1. headAt \in 1 .. Len(chain) /\ i \in 1 .. Len(chain)
        BY <1>1 DEF ListInv, EndsInv
      <4>2. chain[i] = chain[headAt]
        BY <1>1, <2>1 DEF ListInv, EndsInv
      <4> QED
        BY <4>1, <4>2 DEF ListInv, ChainInv
    <3> QED
      BY <1>1, <1>2, <2>1, <3>1 DEF ListInv, EndsInv, DeqSwap
  <2>2. CASE head # lhead[t]
    BY <1>2, <2>2 DEF ListInv, EndsInv, DeqSwap
  <2> QED
    BY <2>1, <2>2
<1>4. ChainInv'
  BY <1>2 DEF ListInv, ChainInv
<1>5. SwingInv'
  BY <1>2 DEF ListInv, SwingInv, Swinging
<1>6. PrivateInv' /\ LtailInv'
  BY <1>2 DEF ListInv, PrivateInv, EnqBegun, LtailInv
<1>7. LheadInv'
  BY <1>2, <1>3 DEF ListInv, LheadInv, HoldsHead
<1> QED
  BY <1>3, <1>4, <1>5, <1>6, <1>7 DEF ListInv

\* Every step, and every stuttering step, keeps the list well formed.
LEMMA NextList == IInv /\ [Next]_vars => ListInv'
<1> SUFFICES ASSUME IInv, [Next]_vars PROVE ListInv'
  OBVIOUS
<1>1. ASSUME NEW t \in Thread, Calls(t) \/ Step(t) PROVE ListInv'
  BY <1>1, EnqAllocList, EnqLoadList, EnqLinkList, EnqSwingList, IdleList,
     DeqReadList, DeqSwapList DEF Calls, Step
<1>2. CASE UNCHANGED vars
  BY <1>2 DEF vars, shared, locals, history, IInv, ListInv, ChainInv, EndsInv,
     SwingInv, PrivateInv, LtailInv, LheadInv, Swinging, EnqBegun, HoldsHead
<1> QED
  BY <1>1, <1>2 DEF Next

-----------------------------------------------------------------------------
(* Theorems *)

\* The inductive invariant holds of every reachable state.
LEMMA Inductive == Spec => []IInv
<1>1. Init => IInv
  BY InitType, InitList DEF IInv
<1>2. IInv /\ [Next]_vars => IInv'
  BY NextType, NextList DEF IInv
<1> QED
  BY <1>1, <1>2, PTL DEF Spec

\* Every field and local of the queue keeps its C type, whatever the number of
\* threads, nodes and values.
THEOREM TypeCorrect == Spec => []TypeOK
BY Inductive, PTL DEF IInv

\* The list of lfq.c stays well formed under every interleaving.
THEOREM ListCorrect == Spec => []ListInv
BY Inductive, PTL DEF IInv

\* lfq.c:71: the second CAS of lfq_enq never fails, so "never be here" is true
\* and no node is linked twice.
THEOREM SecondCasSucceeds == Spec => []SwingSucceeds
<1>1. IInv => SwingSucceeds
  BY DEF IInv, ListInv, SwingInv, EndsInv, Swinging, SwingSucceeds
<1> QED
  BY <1>1, Inductive, PTL

\* lfq.c:91: lfq->head never passes lfq->tail.
THEOREM HeadBehindTail == Spec => []HeadNotPastTail
<1>1. IInv => HeadNotPastTail
  BY DEF IInv, ListInv, EndsInv, HeadNotPastTail, TypeOK
<1> QED
  BY <1>1, Inductive, PTL

-----------------------------------------------------------------------------
(* The refinement *)

Cell == Value \cup {NULL}

ItemsTyped ==
  /\ AbsItems \in Seq(Cell)
  /\ Len(AbsItems) = Len(chain) - headAt
  /\ \A i \in 1 .. Len(chain) - headAt : AbsItems[i] = value[chain[headAt + i]]

\* The abstract queue is a sequence of the values behind the dummy.
LEMMA ItemsType == IInv => ItemsTyped
<1> SUFFICES ASSUME IInv PROVE ItemsTyped
  OBVIOUS
<1> DEFINE k == Len(chain) - headAt
<1>1. k \in Nat /\ Len(chain) \in Nat /\ headAt \in 1 .. Len(chain)
  BY DEF IInv, TypeOK, ListInv, EndsInv
<1>2. \A i \in 1 .. k : headAt + i \in 1 .. Len(chain)
  BY <1>1
<1>3. \A i \in 1 .. k : chain[headAt + i] \in Node
  BY <1>2 DEF IInv, TypeOK
<1>4. \A i \in 1 .. k : value[chain[headAt + i]] \in Cell
  BY <1>3 DEF IInv, TypeOK, Cell
<1> HIDE DEF k
<1>5. AbsItems = [i \in 1 .. k |-> value[chain[headAt + i]]]
  BY DEF AbsItems, k
<1>6. AbsItems \in Seq(Cell) /\ Len(AbsItems) = k
  BY <1>1, <1>4, <1>5
<1> QED
  BY <1>5, <1>6 DEF k, ItemsTyped

\* An operation that links nothing and takes nothing leaves the abstract queue
\* alone.
LEMMA ItemsKept ==
  ASSUME IInv, UNCHANGED <<chain, headAt>>,
         \A i \in 2 .. Len(chain) : value'[chain[i]] = value[chain[i]]
  PROVE  AbsItems' = AbsItems
<1>1. headAt \in 1 .. Len(chain) /\ Len(chain) \in Nat
  BY DEF IInv, TypeOK, ListInv, EndsInv
<1>2. \A i \in 1 .. Len(chain) - headAt :
        value'[chain[headAt + i]] = value[chain[headAt + i]]
  BY <1>1
<1> QED
  BY <1>2 DEF AbsItems

\* Linking a node appends its value.
LEMMA ItemsAppended ==
  ASSUME IInv, IInv', NEW n \in Node, chain' = Append(chain, n),
         UNCHANGED <<headAt, value>>
  PROVE  AbsItems' = Append(AbsItems, value[n])
<1> DEFINE k == Len(chain) - headAt
           new == Append(AbsItems, value[n])
<1>1. /\ k \in Nat /\ headAt \in Nat /\ Len(chain) \in Nat
      /\ chain \in Seq(Node) /\ value[n] \in Cell
      /\ AbsItems \in Seq(Cell) /\ Len(AbsItems) = k
  BY ItemsType DEF ItemsTyped, IInv, TypeOK, ListInv, EndsInv, Cell
<1>2. /\ Len(chain') = Len(chain) + 1
      /\ chain'[Len(chain) + 1] = n
      /\ \A i \in 1 .. Len(chain) : chain'[i] = chain[i]
  BY <1>1
<1>3. new \in Seq(Cell) /\ Len(new) = k + 1
  BY <1>1
<1>4. AbsItems' \in Seq(Cell) /\ Len(AbsItems') = k + 1
  <2>1. ItemsTyped'
    BY ItemsType, PTL
  <2> QED
    BY <2>1, <1>1, <1>2 DEF ItemsTyped
<1>5. ASSUME NEW i \in 1 .. k + 1 PROVE AbsItems'[i] = new[i]
  <2>1. AbsItems'[i] = value[chain'[headAt + i]]
    BY <1>1, <1>2 DEF AbsItems
  <2>2. CASE i = k + 1
    BY <1>1, <1>2, <2>1, <2>2
  <2>3. CASE i \in 1 .. k
    <3>1. new[i] = AbsItems[i]
      BY <1>1, <2>3
    <3>2. AbsItems[i] = value[chain[headAt + i]]
      BY <2>3, ItemsType DEF ItemsTyped
    <3>3. chain'[headAt + i] = chain[headAt + i]
      BY <1>1, <1>2, <2>3
    <3> QED
      BY <2>1, <3>1, <3>2, <3>3
  <2>4. i = k + 1 \/ i \in 1 .. k
    BY <1>1
  <2> HIDE DEF new, k
  <2> QED
    BY <2>2, <2>3, <2>4
<1> HIDE DEF new
<1> QED
  BY <1>3, <1>4, <1>5, SeqEqual DEF new

\* Moving lfq->head takes the front value away.
LEMMA ItemsTaken ==
  ASSUME IInv, IInv', headAt < Len(chain), headAt' = headAt + 1,
         UNCHANGED <<chain, value>>
  PROVE  /\ AbsItems # <<>>
         /\ Head(AbsItems) = value[chain[headAt + 1]]
         /\ AbsItems' = Tail(AbsItems)
<1> DEFINE k == Len(chain) - headAt
           rest == Tail(AbsItems)
<1>1. /\ k \in Nat \ {0} /\ headAt \in Nat /\ Len(chain) \in Nat
      /\ AbsItems \in Seq(Cell) /\ Len(AbsItems) = k
      /\ \A i \in 1 .. k : AbsItems[i] = value[chain[headAt + i]]
  BY ItemsType DEF ItemsTyped, IInv, TypeOK, ListInv, EndsInv
<1>2. AbsItems # <<>> /\ Head(AbsItems) = AbsItems[1]
  BY <1>1
<1>3. rest \in Seq(Cell) /\ Len(rest) = k - 1
  BY <1>1, <1>2
<1>4. AbsItems' \in Seq(Cell) /\ Len(AbsItems') = k - 1
  <2>1. ItemsTyped'
    BY ItemsType, PTL
  <2> QED
    BY <2>1, <1>1 DEF ItemsTyped
<1>5. ASSUME NEW i \in 1 .. k - 1 PROVE AbsItems'[i] = rest[i]
  <2>1. AbsItems'[i] = value[chain[(headAt + 1) + i]]
    BY <1>1 DEF AbsItems
  <2>2. rest[i] = AbsItems[i + 1]
    BY <1>1, <1>2
  <2>3. AbsItems[i + 1] = value[chain[headAt + (i + 1)]]
    BY <1>1
  <2> QED
    BY <1>1, <2>1, <2>2, <2>3
<1> HIDE DEF rest
<1>6. AbsItems' = rest
  BY <1>3, <1>4, <1>5, SeqEqual
<1> QED
  BY <1>1, <1>2, <1>6 DEF rest

\* What a step of thread t leaves alone of the other threads.
Frame(t) ==
  \A u \in Thread \ {t} :
    /\ pc'[u] = pc[u] /\ node'[u] = node[u] /\ lnext'[u] = lnext[u]
    /\ result'[u] = result[u]
    /\ EnqBegun(u) => value'[node[u]] = value[node[u]]

\* Every step of thread t leaves the others' calls and results alone.
LEMMA FrameHolds ==
  ASSUME IInv, NEW t \in Thread, Calls(t) \/ Step(t) PROVE Frame(t)
<1> USE DEF IInv, TypeOK, Frame, Goto, shared, history
<1>1. ASSUME NEW v \in Value, NEW n \in Node, EnqAlloc(t, v, n) PROVE Frame(t)
  BY <1>1 DEF EnqAlloc, ListInv, PrivateInv
<1>2. CASE EnqFail(t) \/ DeqCall(t) \/ DeinitCall(t)
  BY <1>2 DEF EnqFail, DeqCall, DeinitCall
<1>3. CASE EnqLoad(t) \/ EnqLink(t) \/ EnqSwing(t) \/ EnqCount(t)
  BY <1>3 DEF EnqLoad, EnqLink, EnqSwing, EnqCount
<1>4. CASE DeqLoad(t) \/ DeqRecheck(t) \/ DeqNext(t) \/ DeqSwap(t)
  BY <1>4 DEF DeqLoad, DeqRecheck, DeqNext, DeqSwap
<1>5. CASE DeqTest(t) \/ DeqCount(t) \/ DeinitReset(t)
  BY <1>5 DEF DeqTest, DeqCount, AfterDeq, DeinitReset
<1> QED
  BY <1>1, <1>2, <1>3, <1>4, <1>5 DEF Calls, Step

\* So only that thread's abstract call and result can change.
LEMMA AbsChange ==
  ASSUME NEW t \in Thread, Frame(t)
  PROVE  /\ AbsPending' = [AbsPending EXCEPT ![t] = PendingOf(t)']
         /\ AbsResult' = [AbsResult EXCEPT ![t] = ResultOf(t)']
         /\ PendingOf(t)' = PendingOf(t) => AbsPending' = AbsPending
         /\ ResultOf(t)' = ResultOf(t) => AbsResult' = AbsResult
<1>1. \A u \in Thread \ {t} : PendingOf(u)' = PendingOf(u)
  BY DEF Frame, PendingOf, EnqBegun, DeqBegun
<1>2. \A u \in Thread \ {t} : ResultOf(u)' = ResultOf(u)
  BY DEF Frame, ResultOf, FoundEmpty
<1> QED
  BY <1>1, <1>2 DEF AbsPending, AbsResult

\* A step that leaves this thread's call and result alone too, and the list, is
\* a stuttering step of the abstract queue.
LEMMA AbsStutter ==
  ASSUME IInv, NEW t \in Thread, Frame(t), UNCHANGED <<chain, headAt, value>>,
         PendingOf(t)' = PendingOf(t), ResultOf(t)' = ResultOf(t)
  PROVE  UNCHANGED Fifo!vars
<1>1. AbsItems' = AbsItems
  BY ItemsKept
<1>2. AbsPending' = AbsPending /\ AbsResult' = AbsResult
  BY AbsChange
<1> QED
  BY <1>1, <1>2 DEF Fifo!vars

\* The steps that the caller cannot see.
LEMMA HiddenSteps ==
  ASSUME IInv, NEW t \in Thread, Frame(t),
         \/ EnqLoad(t) \/ EnqSwing(t) \/ EnqCount(t) \/ DeqLoad(t)
         \/ DeqRecheck(t) \/ DeqTest(t) \/ DeinitReset(t)
         \/ EnqLink(t) /\ next[ltail[t]] # NULL
         \/ DeqNext(t) /\ next[lhead[t]] # NULL
         \/ DeqSwap(t) /\ head # lhead[t]
  PROVE  UNCHANGED Fifo!vars
<1> USE DEF IInv, TypeOK, PendingOf, ResultOf, EnqBegun, DeqBegun, FoundEmpty,
            Goto, shared, history
<1>1. CASE EnqLoad(t)
  BY <1>1, AbsStutter DEF EnqLoad
<1>2. CASE EnqSwing(t)
  <2>1. tail = ltail[t]
    BY <1>2 DEF EnqSwing, ListInv, SwingInv, EndsInv, Swinging
  <2> QED
    BY <1>2, <2>1, AbsStutter DEF EnqSwing
<1>3. CASE EnqCount(t)
  BY <1>3, AbsStutter DEF EnqCount
<1>4. CASE DeqLoad(t) \/ DeqRecheck(t)
  BY <1>4, AbsStutter DEF DeqLoad, DeqRecheck
<1>5. CASE DeqTest(t)
  BY <1>5, AbsStutter DEF DeqTest, AfterDeq
<1>6. CASE DeinitReset(t)
  BY <1>6, AbsStutter DEF DeinitReset
<1>7. CASE EnqLink(t) /\ next[ltail[t]] # NULL
  BY <1>7, AbsStutter DEF EnqLink
<1>8. CASE DeqNext(t) /\ next[lhead[t]] # NULL
  BY <1>8, AbsStutter DEF DeqNext
<1>9. CASE DeqSwap(t) /\ head # lhead[t]
  BY <1>9, AbsStutter DEF DeqSwap
<1> QED
  BY <1>1, <1>2, <1>3, <1>4, <1>5, <1>6, <1>7, <1>8, <1>9

\* A call begins, or is refused for want of memory.
LEMMA BeginningSteps ==
  ASSUME IInv, NEW t \in Thread, Frame(t),
         \/ \E v \in Value, n \in Node : EnqAlloc(t, v, n)
         \/ EnqFail(t) \/ DeqCall(t) \/ DeinitCall(t) \/ DeqCount(t)
  PROVE  Fifo!Next \/ UNCHANGED Fifo!vars
<1> USE DEF IInv, TypeOK, PendingOf, ResultOf, EnqBegun, DeqBegun, FoundEmpty,
            Goto, shared, history
<1>0. AbsPending[t] = PendingOf(t) /\ AbsResult[t] = ResultOf(t)
  BY DEF AbsPending, AbsResult
<1>1. ASSUME NEW v \in Value, NEW n \in Node, EnqAlloc(t, v, n)
      PROVE  Fifo!Call(t, Fifo!EnqCall(v))
  <2>1. AbsItems' = AbsItems
    BY <1>1, ItemsKept DEF EnqAlloc, ListInv, ChainInv
  <2>2. PendingOf(t)' = Fifo!EnqCall(v) /\ ResultOf(t)' = ResultOf(t)
    BY <1>1 DEF EnqAlloc, Fifo!EnqCall
  <2>3. AbsPending[t] = Fifo!NoCall
    BY <1>0, <1>1 DEF EnqAlloc, Fifo!NoCall
  <2>4. AbsResult' = AbsResult
    BY <2>2, AbsChange
  <2> QED
    BY <2>1, <2>2, <2>3, <2>4, AbsChange DEF Fifo!Call
<1>2. CASE EnqFail(t)
  <2>1. AbsItems' = AbsItems
    BY <1>2, ItemsKept DEF EnqFail
  <2>2. PendingOf(t)' = Fifo!NoCall /\ ResultOf(t)' = FAIL
    BY <1>2 DEF EnqFail, Fifo!NoCall
  <2>3. AbsPending[t] = Fifo!NoCall
    BY <1>0, <1>2 DEF EnqFail, Fifo!NoCall
  <2>4. Fifo!Refuse(t)
    BY <2>1, <2>2, <2>3, AbsChange DEF Fifo!Refuse, Fifo!Answer
  <2> QED
    BY <2>4 DEF Fifo!Next
<1>3. CASE DeqCall(t) \/ DeinitCall(t) \/ DeqCount(t)
  <2>1. AbsItems' = AbsItems
    BY <1>3, ItemsKept DEF DeqCall, DeinitCall, DeqCount
  <2>2. ResultOf(t)' = ResultOf(t)
    BY <1>3 DEF DeqCall, DeinitCall, DeqCount, AfterDeq
  <2>3. AbsPending[t] = Fifo!NoCall
    BY <1>0, <1>3 DEF DeqCall, DeinitCall, DeqCount, Fifo!NoCall
  <2>4. AbsResult' = AbsResult
    BY <2>2, AbsChange
  <2>5. PendingOf(t)' = Fifo!DeqCall \/ PendingOf(t)' = Fifo!NoCall
    BY <1>3 DEF DeqCall, DeinitCall, DeqCount, AfterDeq, Fifo!DeqCall, Fifo!NoCall
  <2>6. CASE PendingOf(t)' = Fifo!DeqCall
    <3>1. Fifo!Call(t, Fifo!DeqCall)
      BY <2>1, <2>3, <2>4, <2>6, AbsChange DEF Fifo!Call
    <3> QED
      BY <3>1 DEF Fifo!Next
  <2>7. CASE PendingOf(t)' = Fifo!NoCall
    <3>1. AbsPending' = AbsPending
      <4> HIDE DEF PendingOf, ResultOf, EnqBegun, DeqBegun, FoundEmpty
      <4> QED
        BY <1>0, <2>3, <2>7, AbsChange
    <3> QED
      BY <2>1, <2>4, <3>1 DEF Fifo!vars
  <2> QED
    BY <2>5, <2>6, <2>7
<1> QED
  BY <1>1, <1>2, <1>3 DEF Fifo!Next

\* The first CAS of lfq_enq is where the value joins the queue.
LEMMA PutStep ==
  ASSUME IInv, IInv', NEW t \in Thread, Frame(t), EnqLink(t), next[ltail[t]] = NULL
  PROVE  Fifo!Put(t)
<1> USE DEF PendingOf, ResultOf, EnqBegun, DeqBegun, FoundEmpty
<1>0. AbsPending[t] = PendingOf(t)
  BY DEF AbsPending
<1>1. /\ pc[t] = "enq_link" /\ pc'[t] = "enq_swing" /\ node[t] \in Node
      /\ chain' = Append(chain, node[t]) /\ UNCHANGED <<headAt, value>>
  BY DEF EnqLink, Goto, IInv, TypeOK, ListInv, PrivateInv
<1>2. AbsItems' = Append(AbsItems, value[node[t]])
  BY <1>1, ItemsAppended
<1>3. AbsPending[t].op = "enq" /\ AbsPending[t].val = value[node[t]]
  BY <1>0, <1>1
<1>4. PendingOf(t)' = Fifo!NoCall /\ ResultOf(t)' = OK
  BY <1>1 DEF Fifo!NoCall
<1> QED
  BY <1>2, <1>3, <1>4, AbsChange DEF Fifo!Put, Fifo!Answer

\* lfq_deq takes effect when it reads a NULL next pointer, for then the dummy it
\* holds is still the first and the last node, or else when its last CAS moves
\* lfq->head.
LEMMA TakeStep ==
  ASSUME IInv, IInv', NEW t \in Thread, Frame(t),
         \/ DeqNext(t) /\ next[lhead[t]] = NULL
         \/ DeqSwap(t) /\ head = lhead[t]
  PROVE  Fifo!Take(t)
<1> USE DEF PendingOf, ResultOf, EnqBegun, DeqBegun, FoundEmpty
<1>0. AbsPending[t] = PendingOf(t)
  BY DEF AbsPending
<1>1. CASE DeqNext(t) /\ next[lhead[t]] = NULL
  <2>1. /\ pc[t] = "deq_next" /\ pc'[t] = "deq_test" /\ lnext'[t] = NULL
        /\ UNCHANGED <<chain, headAt, value>>
    BY <1>1 DEF DeqNext, Goto, shared, history, IInv, TypeOK
  <2>2. PICK i \in 1 .. headAt : lhead[t] = chain[i]
    BY <2>1 DEF IInv, ListInv, LheadInv, HoldsHead
  <2>3. headAt \in 1 .. Len(chain) /\ Len(chain) \in Nat
    BY DEF IInv, TypeOK, ListInv, EndsInv
  <2>4. i = Len(chain)
    <3>1. SUFFICES ASSUME i < Len(chain) PROVE FALSE
      BY <2>3
    <3>2. i \in 1 .. Len(chain) /\ i + 1 \in 1 .. Len(chain)
      BY <2>3, <3>1
    <3>3. chain[i + 1] \in Node /\ next[chain[i]] = chain[i + 1]
      BY <3>1, <3>2 DEF IInv, TypeOK, ListInv, ChainInv
    <3> QED
      BY <1>1, <2>2, <3>3, LfqAssumption
  <2>5. AbsItems = <<>>
    <3>1. AbsItems \in Seq(Cell) /\ Len(AbsItems) = 0
      BY <2>3, <2>4, ItemsType DEF ItemsTyped
    <3> QED
      BY <3>1, EmptySeq
  <2>6. AbsItems' = AbsItems
    BY <2>1, ItemsKept
  <2>7. PendingOf(t)' = Fifo!NoCall /\ ResultOf(t)' = NULL
    BY <2>1 DEF Fifo!NoCall
  <2>8. AbsPending[t].op = "deq"
    BY <1>0, <2>1
  <2> HIDE DEF PendingOf, ResultOf, EnqBegun, DeqBegun, FoundEmpty
  <2> QED
    BY <2>5, <2>6, <2>7, <2>8, AbsChange DEF Fifo!Take, Fifo!Answer
<1>2. CASE DeqSwap(t) /\ head = lhead[t]
  <2>1. /\ pc[t] = "deq_swap" /\ pc'[t] = "deq_count"
        /\ headAt' = headAt + 1 /\ UNCHANGED <<chain, value>>
        /\ result'[t] = value[lnext[t]]
    BY <1>2 DEF DeqSwap, Goto, IInv, TypeOK
  <2>2. PICK i \in 1 .. headAt :
          lhead[t] = chain[i] /\ i < Len(chain) /\ lnext[t] = chain[i + 1]
    BY <2>1 DEF IInv, ListInv, LheadInv, HoldsHead
  <2>3. headAt \in 1 .. Len(chain) /\ Len(chain) \in Nat /\ i \in 1 .. Len(chain)
    BY DEF IInv, TypeOK, ListInv, EndsInv
  <2>4. chain[i] = chain[headAt]
    BY <1>2, <2>2 DEF IInv, ListInv, EndsInv
  <2>5. i = headAt
    BY <2>3, <2>4 DEF IInv, ListInv, ChainInv
  <2>6. /\ AbsItems # <<>> /\ Head(AbsItems) = value[lnext[t]]
        /\ AbsItems' = Tail(AbsItems)
    BY <2>1, <2>2, <2>5, ItemsTaken
  <2>7. PendingOf(t)' = Fifo!NoCall /\ ResultOf(t)' = value[lnext[t]]
    BY <2>1 DEF Fifo!NoCall
  <2>8. AbsPending[t].op = "deq"
    BY <1>0, <2>1
  <2> HIDE DEF PendingOf, ResultOf, EnqBegun, DeqBegun, FoundEmpty
  <2> QED
    BY <2>6, <2>7, <2>8, AbsChange DEF Fifo!Take, Fifo!Answer
<1> QED
  BY <1>1, <1>2

\* lfq.c implements FifoQueue: under every interleaving of any number of threads
\* its calls look as if each took effect at one moment on a first-in first-out
\* queue.
THEOREM Linearizable == Spec => ImplementsFifo
<1>1. Init => Fifo!Init
  <2> SUFFICES ASSUME Init PROVE Fifo!Init
    OBVIOUS
  <2>1. AbsItems = <<>>
    <3>1. Init => ItemsTyped
      BY InitType, InitList, ItemsType DEF IInv
    <3> QED
      BY <3>1, EmptySeq DEF ItemsTyped, Init
  <2>2. AbsPending = [t \in Thread |-> Fifo!NoCall]
    BY DEF Init, AbsPending, PendingOf, EnqBegun, DeqBegun, Fifo!NoCall
  <2>3. AbsResult = [t \in Thread |-> NULL]
    BY DEF Init, AbsResult, ResultOf, FoundEmpty
  <2> QED
    BY <2>1, <2>2, <2>3 DEF Fifo!Init
<1>2. IInv /\ IInv' /\ [Next]_vars => [Fifo!Next]_(Fifo!vars)
  <2> SUFFICES ASSUME IInv, IInv', [Next]_vars
               PROVE  Fifo!Next \/ UNCHANGED Fifo!vars
    OBVIOUS
  <2>1. ASSUME NEW t \in Thread, Calls(t) \/ Step(t)
        PROVE  Fifo!Next \/ UNCHANGED Fifo!vars
    <3>1. Frame(t)
      BY <2>1, FrameHolds
    <3>2. CASE Calls(t) \/ DeqCount(t)
      BY <3>1, <3>2, BeginningSteps DEF Calls
    <3>3. CASE EnqLink(t) /\ next[ltail[t]] = NULL
      BY <3>1, <3>3, PutStep DEF Fifo!Next
    <3>4. CASE \/ DeqNext(t) /\ next[lhead[t]] = NULL
               \/ DeqSwap(t) /\ head = lhead[t]
      BY <3>1, <3>4, TakeStep DEF Fifo!Next
    <3> QED
      BY <2>1, <3>1, <3>2, <3>3, <3>4, HiddenSteps DEF Step
  <2>2. CASE UNCHANGED vars
    BY <2>2 DEF vars, shared, locals, history, Fifo!vars, AbsItems, AbsPending,
         AbsResult, PendingOf, ResultOf, EnqBegun, DeqBegun, FoundEmpty
  <2> QED
    BY <2>1, <2>2 DEF Next
<1> QED
  BY <1>1, <1>2, Inductive, PTL DEF Spec, ImplementsFifo, Fifo!Spec
-----------------------------------------------------------------------------
(* Remainders *)

\* Every number is a multiple of M and a remainder.
LEMMA DivMod ==
  ASSUME NEW a \in Int, NEW M \in Nat \ {0}
  PROVE  a \div M \in Int /\ a % M \in 0 .. M - 1 /\ a = M * (a \div M) + (a % M)
OBVIOUS

LEMMA Mult ==
  ASSUME NEW d \in Nat, d >= 1, NEW M \in Nat \ {0} PROVE M * d >= M
OBVIOUS

LEMMA Dist == \A M, p, q \in Int : M * p - M * q = M * (p - q)
OBVIOUS

\* ... and in one way only.
LEMMA ModIs ==
  ASSUME NEW M \in Nat \ {0}, NEW q \in Int, NEW r \in 0 .. M - 1
  PROVE  (M * q + r) % M = r
<1> DEFINE a == M * q + r
           p == a \div M
           s == a % M
<1>1. a \in Int
  OBVIOUS
<1>2. p \in Int /\ s \in 0 .. M - 1 /\ a = M * p + s
  BY <1>1, DivMod
<1>3. M * (p - q) = r - s /\ M * (q - p) = s - r
  <2>1. M * p + s = M * q + r
    BY <1>2
  <2> HIDE DEF p, s, a
  <2>2. M * p \in Int /\ M * q \in Int /\ M * (p - q) = M * p - M * q /\ M * (q - p) = M * q - M * p
    BY <1>2, Dist
  <2> QED
    BY <1>2, <2>1, <2>2
<1> HIDE DEF p, s, a
<1>4. ~ (p - q >= 1)
  <2> SUFFICES ASSUME p - q >= 1 PROVE FALSE
    OBVIOUS
  <2>1. M * (p - q) >= M
    BY <1>2, Mult
  <2> QED
    BY <1>2, <1>3, <2>1
<1>5. ~ (q - p >= 1)
  <2> SUFFICES ASSUME q - p >= 1 PROVE FALSE
    OBVIOUS
  <2>1. M * (q - p) >= M
    BY <1>2, Mult
  <2> QED
    BY <1>2, <1>3, <2>1
<1>6. p = q
  BY <1>2, <1>4, <1>5
<1>7. s = r
  BY <1>2, <1>3, <1>6
<1> QED
  BY <1>7 DEF s, a

\* Adding to a counter of SizeMod values keeps the remainder.
LEMMA ModPlus ==
  ASSUME NEW M \in Nat \ {0}, NEW a \in Int, NEW d \in Int
  PROVE  ((a % M) + d) % M = (a + d) % M
<1> DEFINE q == a \div M
           x == (a % M) + d
           p == x \div M
           r == x % M
<1>1. q \in Int /\ a % M \in Int /\ a = M * q + (a % M)
  BY DivMod
<1>2. p \in Int /\ r \in 0 .. M - 1 /\ x = M * p + r
  BY <1>1, DivMod
<1>3. a + d = M * q + (M * p + r)
  BY <1>1, <1>2
<1> HIDE DEF p, q, r
<1>4. M * q \in Int /\ M * p \in Int /\ M * q + M * p = M * (q + p)
  BY <1>1, <1>2
<1>5. a + d = M * (q + p) + r
  BY <1>2, <1>3, <1>4
<1>6. (M * (q + p) + r) % M = r
  <2>1. q + p \in Int
    BY <1>1, <1>2
  <2> QED
    BY <1>2, <2>1, ModIs
<1> QED
  BY <1>5, <1>6 DEF r
-----------------------------------------------------------------------------
(* lfq_deinit is alone *)

\* One step changes the place of one thread.
LEMMA OtherPlaces ==
  ASSUME IInv, NEW t \in Thread, Calls(t) \/ Step(t), NEW u \in Thread \ {t}
  PROVE  pc'[u] = pc[u]
<1>1. pc' = pc \/ \E l \in Labels : pc' = [pc EXCEPT ![t] = l]
  <2>1. pc' \in [Thread -> Labels]
    BY EnqType, DeqType DEF Calls, Step, TypeOK
  <2>2. pc' = pc \/ \E l : pc' = [pc EXCEPT ![t] = l]
    BY DEF Calls, Step, EnqAlloc, EnqFail, DeqCall, DeinitCall, EnqLoad, EnqLink, EnqSwing,
           EnqCount, DeqLoad, DeqRecheck, DeqNext, DeqTest, DeqSwap, DeqCount, DeinitReset,
           AfterDeq, Goto
  <2> QED
    BY <2>1, <2>2 DEF IInv, TypeOK
<1> QED
  BY <1>1 DEF IInv, TypeOK

\* While lfq_deinit runs nobody else does, so that the queue stays as it found it.
DrainInv ==
  \A t \in Thread :
    /\ pc[t] = "deinit_reset" => drain = t /\ headAt = Len(chain)
    /\ pc[t] = "deq_count" => result[t] \in Value
    /\ drain = t =>
         /\ \A u \in Thread \ {t} : pc[u] = "idle"
         /\ pc[t] \in {"deq_load", "deq_recheck", "deq_next", "deq_test", "deq_swap",
                       "deq_count", "deinit_reset"}
         /\ HoldsHead(t) => lhead[t] = head
         /\ pc[t] = "deq_test" /\ lnext[t] = NULL => headAt = Len(chain)

\* Only the thread inside lfq_deinit moves while there is one.
LEMMA DrainAlone ==
  ASSUME IInv, DrainInv, NEW t \in Thread, Calls(t) \/ Step(t), drain # NULL
  PROVE  drain = t
<1>1. drain \in Thread
  BY DEF IInv, TypeOK
<1>2. pc[t] # "idle"
  BY DEF Calls, Step, EnqAlloc, EnqFail, DeqCall, DeinitCall, EnqLoad, EnqLink, EnqSwing,
         EnqCount, DeqLoad, DeqRecheck, DeqNext, DeqTest, DeqSwap, DeqCount, DeinitReset
<1> QED
  BY <1>1, <1>2 DEF DrainInv

LEMMA DrainKept ==
  ASSUME IInv, DrainInv, NEW t \in Thread, Calls(t) \/ Step(t) PROVE DrainInv'
<1> USE DEF IInv
<1>1. CASE \E v \in Value, n \in Node : EnqAlloc(t, v, n)
  BY <1>1, NullApart DEF EnqAlloc, DrainInv, HoldsHead, TypeOK, Goto, history
<1>2. CASE EnqFail(t)
  BY <1>2, NullApart DEF EnqFail, DrainInv, HoldsHead, TypeOK, shared, history
<1>3. CASE DeqCall(t)
  BY <1>3, NullApart DEF DeqCall, DrainInv, HoldsHead, TypeOK, Goto, shared, history
<1>4. CASE DeinitCall(t)
  BY <1>4 DEF DeinitCall, DrainInv, HoldsHead, TypeOK, Goto, shared, history
<1>5. ASSUME EnqLoad(t) \/ EnqLink(t) \/ EnqSwing(t) \/ EnqCount(t) PROVE DrainInv'
  <2>1. drain = NULL
    BY <1>5, DrainAlone DEF DrainInv, EnqLoad, EnqLink, EnqSwing, EnqCount, Step
  <2>2. \A u \in Thread : pc[u] # "deinit_reset" /\ drain # u
    BY <2>1, NullApart DEF DrainInv
  <2>3. drain' = drain /\ pc'[t] \notin {"deinit_reset", "deq_count"}
    <3>1. t \in Thread /\ pc \in [Thread -> Labels]
      BY DEF TypeOK
    <3>2. CASE EnqLoad(t)
      BY <3>1, <3>2 DEF EnqLoad, Goto, history
    <3>3. CASE EnqLink(t)
      BY <3>1, <3>3 DEF EnqLink, EnqRetry, Goto
    <3>4. CASE EnqSwing(t)
      BY <3>1, <3>4 DEF EnqSwing, EnqRetry, Goto
    <3>5. CASE EnqCount(t)
      BY <3>1, <3>5 DEF EnqCount, Goto, history
    <3> QED
      BY <1>5, <3>2, <3>3, <3>4, <3>5
  <2>4. \A u \in Thread \ {t} : pc'[u] = pc[u] /\ result'[u] = result[u]
    <3>1. \A u \in Thread \ {t} : result'[u] = result[u]
      BY <1>5 DEF EnqLoad, EnqLink, EnqSwing, EnqCount, TypeOK
    <3> QED
      BY <3>1, OtherPlaces
  <2> QED
    BY <2>1, <2>2, <2>3, <2>4 DEF DrainInv
<1>6. CASE DeqLoad(t)
  BY <1>6 DEF DeqLoad, DrainInv, HoldsHead, TypeOK, Goto, shared, history
<1>7. CASE DeqRecheck(t)
  BY <1>7 DEF DeqRecheck, DrainInv, HoldsHead, TypeOK, Goto, shared, history
<1>8. CASE DeqNext(t)
  <2>1. next[head] = NULL => headAt = Len(chain)
    <3>1. headAt \in 1 .. Len(chain) /\ head = chain[headAt] /\ chain \in Seq(Node)
      BY DEF ListInv, EndsInv, TypeOK
    <3>2. headAt < Len(chain) => headAt + 1 \in 1 .. Len(chain) /\ next[head] = chain[headAt + 1]
      BY <3>1 DEF ListInv, ChainInv
    <3> QED
      BY <3>1, <3>2, NullApart
  <2> QED
    BY <1>8, <2>1 DEF DeqNext, DrainInv, HoldsHead, TypeOK, Goto, shared, history
<1>9. CASE DeqTest(t)
  <2>1. UNCHANGED <<head, drain, chain, headAt>> /\ pc[t] = "deq_test"
    BY <1>9 DEF DeqTest, shared, history
  <2>2. \A u \in Thread \ {t} : /\ pc'[u] = pc[u] /\ result'[u] = result[u]
                                /\ lhead'[u] = lhead[u] /\ lnext'[u] = lnext[u]
    <3>1. \A u \in Thread \ {t} : /\ result'[u] = result[u]
                                  /\ lhead'[u] = lhead[u] /\ lnext'[u] = lnext[u]
      BY <1>9 DEF DeqTest, AfterDeq, TypeOK
    <3> QED
      BY <3>1, OtherPlaces
  <2>3. \/ lnext[t] = NULL /\ pc'[t] = (IF drain = t THEN "deinit_reset" ELSE "idle")
        \/ pc'[t] \in {"deq_load", "deq_swap"} /\ lhead'[t] = lhead[t]
    <3>1. t \in Thread /\ pc \in [Thread -> Labels]
      BY DEF TypeOK
    <3>2. CASE lnext[t] = NULL /\ AfterDeq(t, NULL)
      BY <3>1, <3>2 DEF AfterDeq, DrainLoop, Goto
    <3>3. CASE Goto(t, IF TailAtHead(t) THEN "deq_load" ELSE "deq_swap") /\ UNCHANGED lhead
      BY <3>1, <3>3 DEF Goto
    <3> QED
      BY <1>9, <3>2, <3>3 DEF DeqTest
  <2> QED
    BY <2>1, <2>2, <2>3 DEF DrainInv, HoldsHead
<1>10. CASE DeqSwap(t)
  <2>1. value[lnext[t]] \in Value
    <3>1. PICK i \in 1 .. headAt : lnext[t] = chain[i + 1] /\ i < Len(chain)
      BY <1>10 DEF DeqSwap, ListInv, LheadInv, HoldsHead
    <3>2. i + 1 \in 1 .. Len(chain) /\ i + 1 > 1
      BY <3>1 DEF TypeOK
    <3> QED
      BY <3>1, <3>2 DEF ListInv, ChainInv
  <2> QED
    BY <1>10, <2>1 DEF DeqSwap, DrainInv, HoldsHead, TypeOK, Goto
<1>11. CASE DeqCount(t)
  <2>1. UNCHANGED <<head, drain, chain, headAt>> /\ pc[t] = "deq_count"
    BY <1>11 DEF DeqCount, history
  <2>2. \A u \in Thread \ {t} : /\ pc'[u] = pc[u] /\ result'[u] = result[u]
                                /\ lhead'[u] = lhead[u] /\ lnext'[u] = lnext[u]
    <3>1. \A u \in Thread \ {t} : /\ result'[u] = result[u]
                                  /\ lhead'[u] = lhead[u] /\ lnext'[u] = lnext[u]
      BY <1>11 DEF DeqCount, AfterDeq, TypeOK
    <3> QED
      BY <3>1, OtherPlaces
  <2>3. result[t] # NULL
    BY <2>1, NullApart DEF DrainInv
  <2>4. pc'[t] = IF drain = t THEN "deq_load" ELSE "idle"
    <3>1. t \in Thread /\ pc \in [Thread -> Labels]
      BY DEF TypeOK
    <3> QED
      BY <1>11, <2>3, <3>1 DEF DeqCount, AfterDeq, DrainLoop, Goto
  <2> QED
    BY <2>1, <2>2, <2>4 DEF DrainInv, HoldsHead
<1>12. CASE DeinitReset(t)
  BY <1>12, NullApart DEF DeinitReset, DrainInv, HoldsHead, TypeOK, Goto, history
<1> QED
  BY <1>1, <1>2, <1>3, <1>4, <1>5, <1>6, <1>7, <1>8, <1>9, <1>10, <1>11, <1>12 DEF Calls, Step
-----------------------------------------------------------------------------
(* lfq->size *)

\* The calls under way are finitely many, whatever the number of threads.
CountInv ==
  /\ IsFiniteSet(Linked) /\ IsFiniteSet(Unlinked)
  /\ SizeAccounted

\* What the step of one thread does to the calls under way.
LEMMA LinkedChange ==
  ASSUME IInv, CountInv, NEW t \in Thread, Calls(t) \/ Step(t)
  PROVE  /\ IsFiniteSet(Linked') /\ IsFiniteSet(Unlinked')
         /\ Cardinality(Linked) \in Int /\ Cardinality(Unlinked) \in Int
         /\ (t \in Linked <=> t \in Linked') => Linked' = Linked
         /\ t \notin Linked /\ t \in Linked' => Cardinality(Linked') = Cardinality(Linked) + 1
         /\ t \in Linked /\ t \notin Linked' => Cardinality(Linked') = Cardinality(Linked) - 1
         /\ (t \in Unlinked <=> t \in Unlinked') => Unlinked' = Unlinked
         /\ t \notin Unlinked /\ t \in Unlinked'
              => Cardinality(Unlinked') = Cardinality(Unlinked) + 1
         /\ t \in Unlinked /\ t \notin Unlinked'
              => Cardinality(Unlinked') = Cardinality(Unlinked) - 1
<1>1. \/ Linked' = Linked /\ (t \in Linked <=> t \in Linked')
      \/ t \notin Linked /\ t \in Linked' /\ Linked' = Linked \cup {t}
      \/ t \in Linked /\ t \notin Linked' /\ Linked' = Linked \ {t}
  BY OtherPlaces DEF Linked
<1>2. \/ Unlinked' = Unlinked /\ (t \in Unlinked <=> t \in Unlinked')
      \/ t \notin Unlinked /\ t \in Unlinked' /\ Unlinked' = Unlinked \cup {t}
      \/ t \in Unlinked /\ t \notin Unlinked' /\ Unlinked' = Unlinked \ {t}
  BY OtherPlaces DEF Unlinked
<1>3. \A S : IsFiniteSet(S) =>
        /\ Cardinality(S) \in Nat /\ IsFiniteSet(S \cup {t}) /\ IsFiniteSet(S \ {t})
        /\ t \notin S => Cardinality(S \cup {t}) = Cardinality(S) + 1
        /\ t \in S => Cardinality(S \ {t}) = Cardinality(S) - 1
  BY FS_CardinalityType, FS_AddElement, FS_RemoveElement
<1>4. IsFiniteSet(Linked) /\ IsFiniteSet(Unlinked)
  BY DEF CountInv
<1> HIDE DEF Linked, Unlinked
<1>5. /\ IsFiniteSet(Linked') /\ Cardinality(Linked) \in Nat
      /\ (t \in Linked <=> t \in Linked') => Linked' = Linked
      /\ t \notin Linked /\ t \in Linked' => Cardinality(Linked') = Cardinality(Linked) + 1
      /\ t \in Linked /\ t \notin Linked' => Cardinality(Linked') = Cardinality(Linked) - 1
  BY <1>1, <1>3, <1>4
<1>6. /\ IsFiniteSet(Unlinked') /\ Cardinality(Unlinked) \in Nat
      /\ (t \in Unlinked <=> t \in Unlinked') => Unlinked' = Unlinked
      /\ t \notin Unlinked /\ t \in Unlinked'
           => Cardinality(Unlinked') = Cardinality(Unlinked) + 1
      /\ t \in Unlinked /\ t \notin Unlinked'
           => Cardinality(Unlinked') = Cardinality(Unlinked) - 1
  BY <1>2, <1>3, <1>4
<1> QED
  BY <1>5, <1>6

\* size counts what the calls under way have not yet counted.
LEMMA CountKept ==
  ASSUME IInv, DrainInv, CountInv, NEW t \in Thread, Calls(t) \/ Step(t)
  PROVE  CountInv'
<1> DEFINE D == Len(chain) - headAt - Cardinality(Linked) + Cardinality(Unlinked)
<1>1. /\ size = D % SizeMod /\ D \in Int /\ SizeMod \in Nat \ {0}
      /\ IsFiniteSet(Linked') /\ IsFiniteSet(Unlinked')
  <2>1. Len(chain) \in Int /\ headAt \in Int
    BY DEF IInv, TypeOK
  <2> QED
    BY <2>1, LinkedChange, LfqAssumption DEF CountInv, SizeAccounted
<1>2. SUFFICES SizeAccounted'
  BY <1>1 DEF CountInv
<1>3. ASSUME UNCHANGED <<size, chain, headAt>>, t \in Linked <=> t \in Linked',
             t \in Unlinked <=> t \in Unlinked'
      PROVE  SizeAccounted'
  BY <1>3, LinkedChange DEF CountInv, SizeAccounted
<1>4. ASSUME D' = D, size' = size PROVE SizeAccounted'
  BY <1>1, <1>4 DEF SizeAccounted
<1>5. ASSUME NEW d \in Int, D' = D + d, size' = (size + d) % SizeMod PROVE SizeAccounted'
  BY <1>1, <1>5, ModPlus DEF SizeAccounted
<1>6. (t \in Linked <=> pc[t] \in {"enq_swing", "enq_count"})
      /\ (t \in Linked' <=> pc'[t] \in {"enq_swing", "enq_count"})
      /\ (t \in Unlinked <=> pc[t] = "deq_count") /\ (t \in Unlinked' <=> pc'[t] = "deq_count")
  BY DEF Linked, Unlinked
<1>7. t \in Thread /\ pc \in [Thread -> Labels]
  BY DEF IInv, TypeOK
<1>8. CASE \/ \E v \in Value, n \in Node : EnqAlloc(t, v, n)
           \/ EnqFail(t) \/ DeqCall(t) \/ DeinitCall(t) \/ EnqLoad(t)
           \/ DeqLoad(t) \/ DeqRecheck(t) \/ DeqNext(t)
  <2>1. UNCHANGED <<size, chain, headAt>>
    BY <1>8 DEF EnqAlloc, EnqFail, DeqCall, DeinitCall, EnqLoad, DeqLoad, DeqRecheck,
                DeqNext, shared, history
  <2>2. pc[t] \notin {"enq_swing", "enq_count", "deq_count"}
    BY <1>8 DEF EnqAlloc, EnqFail, DeqCall, DeinitCall, EnqLoad, DeqLoad, DeqRecheck, DeqNext
  <2>3. pc'[t] \notin {"enq_swing", "enq_count", "deq_count"}
    BY <1>7, <1>8, <2>2 DEF EnqAlloc, EnqFail, DeqCall, DeinitCall, EnqLoad, DeqLoad,
                            DeqRecheck, DeqNext, Goto
  <2> QED
    BY <1>3, <1>6, <2>1, <2>2, <2>3
<1>9. CASE EnqLink(t)
  <2>1. UNCHANGED <<size, headAt>> /\ pc[t] = "enq_link"
    BY <1>9 DEF EnqLink
  <2>2. CASE chain' = Append(chain, node[t]) /\ Goto(t, "enq_swing")
    <3>1. pc'[t] = "enq_swing"
      BY <1>7, <2>2 DEF Goto
    <3>2. Cardinality(Linked') = Cardinality(Linked) + 1
          /\ Cardinality(Unlinked') = Cardinality(Unlinked)
      BY <1>6, <2>1, <3>1, LinkedChange
    <3>3. Len(chain') = Len(chain) + 1 /\ Len(chain) \in Int /\ headAt \in Int
      BY <2>2 DEF IInv, TypeOK
    <3>4. D' = D
      BY <2>1, <3>2, <3>3, LinkedChange
    <3> QED
      BY <1>4, <2>1, <3>4
  <2>3. CASE UNCHANGED chain /\ Goto(t, EnqRetry)
    <3>1. pc'[t] = "enq_load"
      BY <1>7, <2>3 DEF Goto, EnqRetry
    <3> QED
      BY <1>3, <1>6, <2>1, <2>3, <3>1
  <2> QED
    BY <1>9, <2>2, <2>3 DEF EnqLink
<1>10. CASE EnqSwing(t)
  <2>1. UNCHANGED <<size, chain, headAt>> /\ pc[t] = "enq_swing" /\ tail = ltail[t]
    BY <1>10 DEF EnqSwing, IInv, ListInv, EndsInv, SwingInv, Swinging
  <2>2. pc'[t] = "enq_count"
    BY <1>7, <1>10, <2>1 DEF EnqSwing, Goto
  <2> QED
    BY <1>3, <1>6, <2>1, <2>2
<1>11. CASE EnqCount(t)
  <2>1. UNCHANGED <<chain, headAt>> /\ pc[t] = "enq_count" /\ size' = (size + 1) % SizeMod
    BY <1>11 DEF EnqCount, SizePlus, history
  <2>2. pc'[t] = "idle"
    BY <1>7, <1>11 DEF EnqCount, Goto
  <2>3. Cardinality(Linked') = Cardinality(Linked) - 1
        /\ Cardinality(Unlinked') = Cardinality(Unlinked)
    BY <1>6, <2>1, <2>2, LinkedChange
  <2>4. D' = D + 1
    BY <2>1, <2>3, LinkedChange DEF IInv, TypeOK
  <2> QED
    BY <1>5, <2>1, <2>4
<1>12. CASE DeqTest(t)
  <2>1. UNCHANGED <<size, chain, headAt>> /\ pc[t] = "deq_test"
    BY <1>12 DEF DeqTest, shared, history
  <2>2. pc'[t] \in {"deinit_reset", "idle", "deq_load", "deq_swap"}
    BY <1>7, <1>12 DEF DeqTest, AfterDeq, DrainLoop, Goto
  <2> QED
    BY <1>3, <1>6, <2>1, <2>2
<1>13. CASE DeqSwap(t)
  <2>1. UNCHANGED <<size, chain>> /\ pc[t] = "deq_swap"
    BY <1>13 DEF DeqSwap
  <2>2. CASE headAt' = headAt + 1 /\ Goto(t, "deq_count")
    <3>1. pc'[t] = "deq_count"
      BY <1>7, <2>2 DEF Goto
    <3>2. Cardinality(Linked') = Cardinality(Linked)
          /\ Cardinality(Unlinked') = Cardinality(Unlinked) + 1
      BY <1>6, <2>1, <3>1, LinkedChange
    <3>3. D' = D
      BY <2>1, <2>2, <3>2, LinkedChange DEF IInv, TypeOK
    <3> QED
      BY <1>4, <2>1, <3>3
  <2>3. CASE UNCHANGED headAt /\ Goto(t, "deq_load")
    <3>1. pc'[t] = "deq_load"
      BY <1>7, <2>3 DEF Goto
    <3> QED
      BY <1>3, <1>6, <2>1, <2>3, <3>1
  <2> QED
    BY <1>13, <2>2, <2>3 DEF DeqSwap
<1>14. CASE DeqCount(t)
  <2>1. UNCHANGED <<chain, headAt>> /\ pc[t] = "deq_count" /\ size' = (size + -1) % SizeMod
    BY <1>14 DEF DeqCount, SizePlus, history
  <2>2. pc'[t] \in {"deinit_reset", "idle", "deq_load"}
    BY <1>7, <1>14 DEF DeqCount, AfterDeq, DrainLoop, Goto
  <2>3. Cardinality(Linked') = Cardinality(Linked)
        /\ Cardinality(Unlinked') = Cardinality(Unlinked) - 1
    BY <1>6, <2>1, <2>2, LinkedChange
  <2>4. D' = D + -1
    BY <2>1, <2>3, LinkedChange DEF IInv, TypeOK
  <2> QED
    BY <1>5, <2>1, <2>4
<1>15. CASE DeinitReset(t)
  <2>1. UNCHANGED <<chain, headAt>> /\ pc[t] = "deinit_reset" /\ size' = 0
    BY <1>15 DEF DeinitReset, history
  <2>2. pc'[t] = "idle"
    BY <1>7, <1>15 DEF DeinitReset, Goto
  <2>3. \A u \in Thread : pc'[u] = "idle"
    BY <2>1, <2>2, OtherPlaces DEF DrainInv
  <2>4. Linked' = {} /\ Unlinked' = {}
    BY <2>3 DEF Linked, Unlinked
  <2>5. headAt' = Len(chain') /\ Len(chain) \in Nat
    BY <2>1 DEF DrainInv, IInv, TypeOK
  <2>6. Cardinality(Linked') = 0 /\ Cardinality(Unlinked') = 0
    BY <2>4, FS_EmptySet
  <2>7. D' = 0
    BY <2>1, <2>5, <2>6
  <2>8. 0 % SizeMod = 0
    BY <1>1
  <2> QED
    BY <2>1, <2>7, <2>8 DEF SizeAccounted
<1> QED
  BY <1>8, <1>9, <1>10, <1>11, <1>12, <1>13, <1>14, <1>15 DEF Calls, Step

\* The invariant of SizeAccounted and DeinitLeavesEmpty.
SizeInv == IInv /\ DrainInv /\ CountInv

LEMMA SizeInductive == Spec => []SizeInv
<1>1. Init => SizeInv
  <2> SUFFICES ASSUME Init PROVE SizeInv
    OBVIOUS
  <2>1. IInv
    BY InitType, InitList DEF IInv
  <2>2. DrainInv
    BY NullApart DEF Init, DrainInv, HoldsHead
  <2>3. Linked = {} /\ Unlinked = {}
    BY DEF Init, Linked, Unlinked
  <2>4. IsFiniteSet(Linked) /\ IsFiniteSet(Unlinked)
        /\ Cardinality(Linked) = 0 /\ Cardinality(Unlinked) = 0
    BY <2>3, FS_EmptySet
  <2>5. Len(chain) = 1 /\ headAt = 1 /\ size = 0
    BY DEF Init
  <2>6. 0 % SizeMod = 0
    BY LfqAssumption
  <2> QED
    BY <2>1, <2>2, <2>4, <2>5, <2>6 DEF SizeInv, CountInv, SizeAccounted
<1>2. SizeInv /\ IInv' /\ [Next]_vars => SizeInv'
  <2> SUFFICES ASSUME SizeInv, IInv', [Next]_vars PROVE DrainInv' /\ CountInv'
    BY DEF SizeInv
  <2>1. CASE Next
    BY <2>1, DrainKept, CountKept DEF Next, SizeInv
  <2>2. CASE UNCHANGED vars
    BY <2>2 DEF vars, shared, locals, history, SizeInv, DrainInv, HoldsHead, CountInv,
                SizeAccounted, Linked, Unlinked
  <2> QED
    BY <2>1, <2>2
<1> QED
  BY <1>1, <1>2, Inductive, PTL DEF Spec

\* lfq.c:79,111: size is the length of the list, corrected by the calls that have
\* changed the list and not yet counted it, modulo its width.
THEOREM SizeCounts == Spec => []SizeAccounted
<1>1. SizeInv => SizeAccounted
  BY DEF SizeInv, CountInv
<1> QED
  BY <1>1, SizeInductive, PTL

\* lfq.c:121-127: what lfq_deinit leaves behind is an empty queue whose counter is
\* already 0.
THEOREM DeinitEmpties == Spec => []DeinitLeavesEmpty
<1>1. SizeInv => DeinitLeavesEmpty
  <2> SUFFICES ASSUME SizeInv, NEW t \in Thread, pc[t] = "deinit_reset"
               PROVE  headAt = Len(chain) /\ size = 0
    BY DEF DeinitLeavesEmpty
  <2>1. headAt = Len(chain) /\ \A u \in Thread : pc[u] \in {"idle", "deinit_reset"}
    BY DEF SizeInv, DrainInv
  <2>2. Linked = {} /\ Unlinked = {}
    BY <2>1 DEF Linked, Unlinked
  <2>3. Cardinality(Linked) = 0 /\ Cardinality(Unlinked) = 0
    BY <2>2, FS_EmptySet
  <2>4. Len(chain) \in Nat
    BY DEF SizeInv, IInv, TypeOK
  <2>5. size = 0 % SizeMod
    BY <2>1, <2>3, <2>4 DEF SizeInv, CountInv, SizeAccounted
  <2> QED
    BY <2>1, <2>5, LfqAssumption
<1> QED
  BY <1>1, SizeInductive, PTL
=============================================================================
