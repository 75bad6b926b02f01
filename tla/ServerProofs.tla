---------------------------- MODULE ServerProofs ----------------------------
(***************************************************************************)
(* The safety of the master and its workers, for any number of workers,    *)
(* connections, descriptors and messages.                                  *)
(***************************************************************************)
EXTENDS Server, FiniteSetTheorems, WellFoundedInduction, TLAPS

Fixed == PipeFds \cup {ListenFd}
After(f) == IF f = ListenFd THEN PipeFd(NumWorkers - 1)
            ELSE IF f = PipeFd(0) THEN Nil ELSE f - 2

\* The listener and the pairs stay open, and stay at the end of the list.
FixedInv ==
  \A f \in Fd : /\ owner[f] = "listener" <=> f = ListenFd
                /\ owner[f] = "pipe" <=> f \in PipeFds
                /\ state[f] = "LISTENING" <=> f = ListenFd
                /\ state[f] = "PIPERECV" <=> f \in PipeFds
                /\ f \in Fixed => next[f] = After(f)

\* A pair with a mark has a job until the loop has passed it.
MarkedInv ==
  phase = "handle" => \A w \in Worker :
    PipeFd(w) \in ready /\ (cur \in PipeFds => PipeFd(w) <= cur) => toMaster[w] # <<>>

\* From the first accept on, the loop is at the end of the list.
LateInv == reopened # {} /\ phase = "handle" => cur \in Fixed

\* A connection is new, or waits once, or has a descriptor, or is gone.
ConnInv ==
  /\ \A i, j \in DOMAIN backlog : backlog[i] = backlog[j] => i = j
  /\ \A i \in DOMAIN backlog :
       client[backlog[i]] # "new" /\ \A f \in Fd : owner[f] # backlog[i]
  /\ \A f \in Fd : owner[f] \in Conn => client[owner[f]] # "new"

MasterInv == TypeOK /\ FixedInv /\ MarkedInv /\ LateInv /\ ConnInv /\ DescriptorsTracked

-----------------------------------------------------------------------------
\* What is left when the front of a queue is taken.
LEMMA FrontTaken ==
  ASSUME NEW S, NEW s \in Seq(S), s # <<>>
  PROVE  /\ Head(s) \in S /\ Tail(s) \in Seq(S) /\ Head(s) = s[1]
         /\ Len(Tail(s)) = Len(s) - 1
         /\ \A i \in DOMAIN Tail(s) : i + 1 \in DOMAIN s /\ Tail(s)[i] = s[i + 1]
OBVIOUS

LEMMA Elements ==
  ASSUME NEW S, NEW s \in Seq(S)
  PROVE  Len(s) \in Nat /\ \A i \in DOMAIN s : s[i] \in S /\ i \in Nat /\ 1 <= i /\ i <= Len(s)
OBVIOUS

\* The numbers of the pairs and of the listener.
LEMMA Numbers ==
  /\ Nil \notin Fd /\ ListenFd \in Fd \ PipeFds /\ PipeFds \subseteq Fd
  /\ \A w \in Worker : PipeFd(w) \in PipeFds /\ (PipeFd(w) - 3) \div 2 = w
  /\ \A f \in PipeFds : After(f) = Nil \/ (After(f) \in PipeFds /\ After(f) = f - 2)
  /\ After(ListenFd) \in PipeFds
  /\ NoJob.seq = 0
<1>1. \A w \in Worker : PipeFd(w) \in Fd /\ PipeFd(w) # 4 /\ (PipeFd(w) - 3) \div 2 = w
  BY ServerAssumption DEF Worker, PipeFd, Fd
<1>2. NumWorkers - 1 \in Worker /\ 0 \in Worker
  BY ServerAssumption DEF Worker
<1>3. ASSUME NEW w \in Worker, w # 0 PROVE w - 1 \in Worker /\ PipeFd(w) - 2 = PipeFd(w - 1)
  BY <1>3, ServerAssumption DEF Worker, PipeFd
<1>4. \A f \in PipeFds : After(f) = Nil \/ (After(f) \in PipeFds /\ After(f) = f - 2)
  <2> SUFFICES ASSUME NEW w \in Worker, w # 0
               PROVE  After(PipeFd(w)) \in PipeFds /\ After(PipeFd(w)) = PipeFd(w) - 2
    BY <1>1, <1>2 DEF PipeFds, After, ListenFd
  <2>1. PipeFd(w) # PipeFd(0) /\ PipeFd(w) # 4
    BY <1>1, ServerAssumption DEF PipeFd, Worker
  <2> QED
    BY <2>1, <1>3 DEF PipeFds, After, ListenFd
<1> QED
  BY <1>1, <1>2, <1>4, ServerAssumption DEF PipeFds, After, ListenFd, Fd, Nil, NoJob

LEMMA InitMaster == Init => MasterInv
<1> SUFFICES ASSUME Init PROVE MasterInv
  OBVIOUS
<1>1. FixedInv
  <2>1. \A f \in Fd : f \in Fixed => next[f] = After(f)
    BY Numbers DEF Init, Fixed, After, PipeFds
  <2> QED
    BY <2>1, Numbers DEF Init, FixedInv
<1>2. TypeOK
  <2>1. next \in [Fd -> Fd \cup {Nil}]
    <3> SUFFICES ASSUME NEW f \in PipeFds, f # PipeFd(0) PROVE f - 2 \in Fd
      BY Numbers DEF Init, After
    <3> QED
      BY Numbers DEF After, Fd, Nil
  <2> QED
    BY <2>1, Numbers, ServerAssumption DEF Init, TypeOK, Jobs, CloseSeq
<1>3. MarkedInv /\ LateInv /\ ConnInv
  BY ServerAssumption DEF Init, MarkedInv, LateInv, ConnInv
<1>4. DescriptorsTracked
  BY ServerAssumption, Numbers DEF Init, DescriptorsTracked
<1> QED
  BY <1>1, <1>2, <1>3, <1>4 DEF MasterInv

\* Advance, which most steps of the master end with.
LEMMA AdvanceType ==
  ASSUME TypeOK, phase = "handle", Advance
  PROVE  /\ phase' \in {"update", "handle"} /\ cur' \in Fd \cup {Nil}
         /\ phase' = "handle" => cur' \in Fd
         /\ ready' = ready
BY DEF TypeOK, Advance

LEMMA ClientsKeepType ==
  ASSUME TypeOK, NEW c \in Conn, Connect(c) \/ ClientSend(c) \/ ClientClose(c)
  PROVE  TypeOK'
<1>1. CASE Connect(c)
  <2>1. Append(backlog, c) \in Seq(Conn)
    BY DEF TypeOK
  <2>2. backlog' \in Seq(Conn) /\ client' \in [Conn -> {"new", "open", "closed"}]
    BY <1>1, <2>1 DEF TypeOK, Connect
  <2> QED
    BY <1>1, <2>2 DEF TypeOK, Connect, streams, loop, pairs
<1>2. CASE ClientSend(c)
  <2>1. sent[c] + 1 \in 1 .. MaxMsgs
    BY <1>2, ServerAssumption DEF TypeOK, ClientSend
  <2> QED
    BY <1>2, <2>1 DEF TypeOK, ClientSend, streams, loop, pairs
<1>3. CASE ClientClose(c)
  BY <1>3 DEF TypeOK, ClientClose, streams, loop, pairs
<1> QED
  BY <1>1, <1>2, <1>3

LEMMA WorkersKeepType ==
  ASSUME TypeOK, NEW w \in Worker, WorkerRead(w) \/ WorkerSend(w)
  PROVE  TypeOK'
<1>1. CASE WorkerRead(w)
  <2>1. toWorker[w] \in Seq(Jobs) /\ toWorker[w] # <<>> /\ Len(toWorker[w]) <= PipeCap
    BY <1>1 DEF TypeOK, WorkerRead
  <2>2. /\ Head(toWorker[w]) \in Jobs /\ Tail(toWorker[w]) \in Seq(Jobs)
        /\ Len(Tail(toWorker[w])) <= PipeCap
    BY <2>1, ServerAssumption
  <2>3. toWorker' \in [Worker -> Seq(Jobs)] /\ \A v \in Worker : Len(toWorker'[v]) <= PipeCap
    BY <1>1, <2>2 DEF TypeOK, WorkerRead
  <2>4. job' \in [Worker -> Jobs \cup {NoJob}]
    BY <1>1, <2>2 DEF TypeOK, WorkerRead
  <2>5. handled' \in [Conn -> Seq(1 .. CloseSeq)]
    <3>1. Head(toWorker[w]).conn \in Conn /\ Head(toWorker[w]).seq \in 1 .. CloseSeq
      BY <2>2 DEF Jobs
    <3> QED
      BY <1>1, <3>1 DEF TypeOK, WorkerRead
  <2> QED
    BY <1>1, <2>3, <2>4, <2>5 DEF TypeOK, WorkerRead, clients, streams, loop
<1>2. CASE WorkerSend(w)
  <2>1. job[w] \in Jobs
    BY <1>2 DEF TypeOK, WorkerSend
  <2>2. job' \in [Worker -> Jobs \cup {NoJob}]
    BY <1>2 DEF TypeOK, WorkerSend
  <2>3. toMaster' \in [Worker -> Seq(Jobs)] /\ \A v \in Worker : Len(toMaster'[v]) <= PipeCap
    <3>1. ASSUME NEW u \in Worker, Len(toMaster[u]) < PipeCap,
                 toMaster' = [toMaster EXCEPT ![u] = Append(@, job[w])]
          PROVE  /\ toMaster' \in [Worker -> Seq(Jobs)]
                 /\ \A v \in Worker : Len(toMaster'[v]) <= PipeCap
      <4>1. /\ Append(toMaster[u], job[w]) \in Seq(Jobs)
            /\ Len(Append(toMaster[u], job[w])) <= PipeCap
        BY <2>1, <3>1, ServerAssumption DEF TypeOK
      <4> QED
        BY <3>1, <4>1 DEF TypeOK
    <3>2. \A x \in Worker : (OwnEnd(x) - 4) \div 2 = x
      BY DEF OwnEnd, Worker
    <3> QED
      BY <1>2, <3>1, <3>2 DEF TypeOK, WorkerSend, Holds
  <2> QED
    BY <1>2, <2>2, <2>3 DEF TypeOK, WorkerSend, clients, streams, loop
<1> QED
  BY <1>1, <1>2

-----------------------------------------------------------------------------
\* What process_pool_dispatch puts on a pair is a job, and fits.
LEMMA DispatchType ==
  ASSUME TypeOK, NEW fd \in Fd, NEW seq \in 1 .. CloseSeq, owner[fd] \in Conn,
         Dispatch(fd, seq)
  PROVE  /\ WorkerOf(fd) \in Worker
         /\ toWorker' \in [Worker -> Seq(Jobs)]
         /\ \A w \in Worker : Len(toWorker'[w]) <= PipeCap
<1>1. WorkerOf(fd) \in Worker
  BY ServerAssumption DEF WorkerOf, Worker, Fd
<1> DEFINE j == [fd |-> fd, conn |-> owner[fd], seq |-> seq]
           w == WorkerOf(fd)
<1>2. j \in Jobs
  BY DEF Jobs
<1> HIDE DEF j
<1>3. CASE Len(toWorker[w]) < PipeCap
  <2>1. Append(toWorker[w], j) \in Seq(Jobs) /\ Len(Append(toWorker[w], j)) <= PipeCap
    BY <1>1, <1>2, <1>3, ServerAssumption DEF TypeOK
  <2>2. toWorker' = [toWorker EXCEPT ![w] = Append(@, j)]
    BY <1>3 DEF Dispatch, j
  <2> QED
    BY <1>1, <2>1, <2>2 DEF TypeOK
<1>4. CASE ~ (Len(toWorker[w]) < PipeCap)
  BY <1>1, <1>4 DEF Dispatch, TypeOK
<1> QED
  BY <1>1, <1>3, <1>4

LEMMA MasterKeepsType ==
  ASSUME MasterInv, Master PROVE TypeOK'
<1> USE DEF MasterInv
<1>1. ASSUME NEW f \in Fd, Destroy(f) PROVE TypeOK'
  <2>1. next' \in [Fd -> Fd \cup {Nil}] /\ ds_stream' \in Fd \cup {Nil} /\ stream_count' \in Int
    BY <1>1 DEF TypeOK, Destroy, CountLess
  <2> QED
    BY <1>1, <2>1 DEF TypeOK, Destroy, clients, loop, pairs
<1>2. CASE Select
  <2>1. cur' \in Fd
    <3> SUFFICES ds_stream # Nil
      BY <1>2 DEF Select, TypeOK
    <3>1. PICK f \in Fd : f \in Listed
      BY <1>2 DEF Select, Listed
    <3>2. ~ (ds_stream = Nil)
      <4> SUFFICES ASSUME ds_stream = Nil PROVE FALSE
        OBVIOUS
      <4>1. {Nil} \in SUBSET (Fd \cup {Nil}) /\ ds_stream \in {Nil} /\ Onward({Nil})
        BY DEF Onward
      <4>2. f \in {Nil}
        BY <3>1, <4>1 DEF Listed
      <4> QED
        BY <4>2, Numbers
    <3> QED
      BY <3>2
  <2> QED
    BY <1>2, <2>1 DEF TypeOK, Select, clients, streams, pairs
<1>3. CASE Hang
  BY <1>3 DEF TypeOK, Hang, clients, streams, pairs
<1>4. CASE Skip
  <2>1. phase = "handle" /\ Advance
    BY <1>4 DEF Skip
  <2> QED
    BY <1>4, <2>1, AdvanceType DEF TypeOK, Skip, clients, streams, pairs
<1>5. CASE Accept
  <2>1. backlog # <<>> /\ Head(backlog) \in Conn /\ Tail(backlog) \in Seq(Conn)
    BY <1>5 DEF Accept, TypeOK
  <2>2. PICK fd \in FreeFds : /\ owner' = [owner EXCEPT ![fd] = Head(backlog)]
                              /\ state' = [state EXCEPT ![fd] = "CONNECTED"]
                              /\ StreamNew(fd)
    BY <1>5 DEF Accept
  <2>3. fd \in Fd
    BY DEF FreeFds
  <2>4. next' \in [Fd -> Fd \cup {Nil}] /\ ds_stream' \in Fd /\ stream_count' \in Int
    BY <2>2, <2>3 DEF StreamNew, TypeOK
  <2>5. /\ owner' \in [Fd -> Conn \cup {"listener", "pipe", "free"}]
        /\ state' \in [Fd -> {"CLOSED", "CONNECTED", "LISTENING", "PIPERECV"}]
    BY <2>1, <2>2, <2>3 DEF TypeOK
  <2> QED
    BY <1>5, <2>1, <2>4, <2>5 DEF TypeOK, Accept, loop, pairs
<1>6. CASE AcceptFails
  BY <1>6 DEF TypeOK, AcceptFails, Handles, clients, streams, pairs
<1>7. CASE AcceptDone
  <2>1. phase = "handle" /\ Advance
    BY <1>7 DEF AcceptDone, Handles
  <2> QED
    BY <1>7, <2>1, AdvanceType DEF TypeOK, AcceptDone, clients, streams, pairs
<1>8. ASSUME Receiving PROVE cur \in Fd /\ owner[cur] \in Conn
  BY <1>8 DEF Receiving, Handles, TypeOK, DescriptorsTracked
<1>9. CASE Receive
  <2> DEFINE c == owner[cur]
  <2>1. Receiving /\ c \in Conn /\ cur \in Fd /\ inbox[c] # <<>> /\ Dispatch(cur, Head(inbox[c]))
    BY <1>8, <1>9 DEF Receive
  <2>2. Head(inbox[c]) \in 1 .. CloseSeq /\ Tail(inbox[c]) \in Seq(1 .. MaxMsgs)
    <3>1. inbox[c] \in Seq(1 .. MaxMsgs)
      BY <2>1 DEF TypeOK
    <3>2. Head(inbox[c]) \in 1 .. MaxMsgs /\ Tail(inbox[c]) \in Seq(1 .. MaxMsgs)
      BY <2>1, <3>1, FrontTaken
    <3> QED
      BY <3>2, ServerAssumption DEF CloseSeq
  <2>3. inbox' \in [Conn -> Seq(1 .. MaxMsgs)]
    BY <1>9, <2>1, <2>2 DEF TypeOK, Receive
  <2>4. toWorker' \in [Worker -> Seq(Jobs)] /\ \A w \in Worker : Len(toWorker'[w]) <= PipeCap
    BY <2>1, <2>2, DispatchType
  <2> QED
    BY <1>9, <2>3, <2>4 DEF TypeOK, Receive, streams, loop
<1>10. CASE ReceiveClose
  <2>1. /\ Receiving /\ owner[cur] \in Conn /\ cur \in Fd /\ Dispatch(cur, CloseSeq)
        /\ phase = "handle" /\ Advance
    BY <1>8, <1>10 DEF ReceiveClose, Receiving, Handles
  <2>2. CloseSeq \in 1 .. CloseSeq
    BY ServerAssumption DEF CloseSeq
  <2>3. toWorker' \in [Worker -> Seq(Jobs)] /\ \A w \in Worker : Len(toWorker'[w]) <= PipeCap
    BY <2>1, <2>2, DispatchType
  <2>4. /\ owner' \in [Fd -> Conn \cup {"listener", "pipe", "free"}]
        /\ state' \in [Fd -> {"CLOSED", "CONNECTED", "LISTENING", "PIPERECV"}]
    BY <1>10, <2>1 DEF TypeOK, ReceiveClose, Released
  <2> QED
    BY <1>10, <2>1, <2>3, <2>4, AdvanceType DEF TypeOK, ReceiveClose, clients
<1>11. CASE ReceiveDone
  <2>1. phase = "handle" /\ Advance
    BY <1>11 DEF ReceiveDone, Receiving, Handles
  <2> QED
    BY <1>11, <2>1, AdvanceType DEF TypeOK, ReceiveDone, clients, streams, pairs
<1>12. CASE SendData
  <2> DEFINE w == (cur - 3) \div 2
             j == Head(toMaster[w])
  <2>1. phase = "handle" /\ Advance /\ cur \in ready /\ cur \in PipeFds
    BY <1>12 DEF SendData, Handles, TypeOK, FixedInv
  <2>2. PICK v \in Worker : cur = PipeFd(v)
    BY <2>1 DEF PipeFds
  <2>3. w = v /\ toMaster[v] # <<>>
    <3>1. cur <= cur
      BY <2>1 DEF TypeOK, Fd
    <3> QED
      BY <2>1, <2>2, <3>1, Numbers DEF MarkedInv
  <2>4. j \in Jobs /\ Tail(toMaster[w]) \in Seq(Jobs) /\ Len(Tail(toMaster[w])) <= PipeCap
    BY <2>3, ServerAssumption DEF TypeOK
  <2>5. toMaster' \in [Worker -> Seq(Jobs)] /\ \A u \in Worker : Len(toMaster'[u]) <= PipeCap
    BY <1>12, <2>3, <2>4 DEF TypeOK, SendData
  <2>6. replies' \in [Conn -> Seq(Jobs)]
    <3>1. ASSUME NEW c \in Conn PROVE [replies EXCEPT ![c] = Append(@, j)] \in [Conn -> Seq(Jobs)]
      <4>1. Append(replies[c], j) \in Seq(Jobs)
        BY <2>4 DEF TypeOK
      <4> QED
        BY <4>1 DEF TypeOK
    <3>2. \/ replies' = replies
          \/ \E c \in Conn : replies' = [replies EXCEPT ![c] = Append(@, j)]
      BY <1>12 DEF SendData
    <3> QED
      BY <3>1, <3>2 DEF TypeOK
  <2> QED
    BY <1>12, <2>1, <2>5, <2>6, AdvanceType DEF TypeOK, SendData, clients, streams
<1> QED
  BY <1>1, <1>2, <1>3, <1>4, <1>5, <1>6, <1>7, <1>9, <1>10, <1>11, <1>12 DEF Master

-----------------------------------------------------------------------------
Step == Next \/ UNCHANGED vars

\* Everything but a destruction, an accept and a close leaves the descriptors
\* and the list alone.
LEMMA Quiet ==
  ASSUME Step
  PROVE  \/ \E f \in Fd : Destroy(f)
         \/ Accept
         \/ ReceiveClose
         \/ UNCHANGED <<owner, state, next, ds_stream, stream_count, reopened, relinked>>
         \/ Select
BY DEF Step, Next, Master, Connect, ClientSend, ClientClose, Hang, Skip, AcceptFails,
       AcceptDone, Receive, ReceiveDone, SendData, WorkerRead, WorkerSend, vars, streams

\* The descriptor accept() gets was free, and the stream at it was closed.
LEMMA AcceptFacts ==
  ASSUME MasterInv, Accept
  PROVE  /\ phase = "handle" /\ cur = ListenFd
         /\ backlog # <<>> /\ Head(backlog) \in Conn /\ Head(backlog) = backlog[1]
         /\ \E fd \in Fd : /\ owner[fd] = "free" /\ fd \notin Fixed
                           /\ state[fd] = "CLOSED"
                           /\ owner' = [owner EXCEPT ![fd] = Head(backlog)]
                           /\ state' = [state EXCEPT ![fd] = "CONNECTED"]
                           /\ StreamNew(fd)
<1>1. phase = "handle" /\ cur = ListenFd /\ backlog # <<>>
  BY DEF MasterInv, Accept, Handles, TypeOK, FixedInv
<1>2. Head(backlog) \in Conn /\ Head(backlog) = backlog[1]
  BY <1>1, FrontTaken DEF MasterInv, TypeOK
<1>3. PICK fd \in FreeFds : /\ owner' = [owner EXCEPT ![fd] = Head(backlog)]
                            /\ state' = [state EXCEPT ![fd] = "CONNECTED"]
                            /\ StreamNew(fd)
  BY DEF Accept
<1>4. fd \in Fd /\ owner[fd] = "free"
  BY DEF FreeFds
<1>5. fd \notin Fixed
  BY <1>4 DEF MasterInv, FixedInv, Fixed
<1>6. state[fd] = "CLOSED"
  BY <1>4, <1>5, ServerAssumption DEF MasterInv, TypeOK, FixedInv, DescriptorsTracked, Fixed
<1> QED
  BY <1>1, <1>2, <1>3, <1>4, <1>5, <1>6

\* The descriptor that is closed is a connection's.
LEMMA CloseFacts ==
  ASSUME MasterInv, ReceiveClose
  PROVE  /\ phase = "handle" /\ cur \in Fd /\ cur \notin Fixed /\ owner[cur] \in Conn
         /\ state[cur] = "CONNECTED"
         /\ owner' = [owner EXCEPT ![cur] = "free"]
         /\ state' = [state EXCEPT ![cur] = "CLOSED"]
         /\ Advance
<1>1. phase = "handle" /\ cur \in Fd /\ state[cur] = "CONNECTED" /\ Advance
  BY DEF MasterInv, ReceiveClose, Receiving, Handles, TypeOK
<1> QED
  BY <1>1 DEF MasterInv, ReceiveClose, Released, FixedInv, Fixed, DescriptorsTracked

LEMMA FixedKept == ASSUME MasterInv, Step PROVE FixedInv'
<1>1. ASSUME NEW f \in Fd, Destroy(f) PROVE FixedInv'
  <2>1. f \notin Fixed
    BY <1>1 DEF Destroy, MasterInv, FixedInv, Fixed
  <2>2. ASSUME NEW g \in Fd, g \in Fixed PROVE next'[g] = next[g]
    <3>1. next[g] # f
      BY <2>1, <2>2, Numbers DEF MasterInv, FixedInv, Fixed
    <3> QED
      BY <1>1, <2>1, <2>2, <3>1 DEF Destroy
  <2> QED
    BY <1>1, <2>2 DEF Destroy, MasterInv, FixedInv
<1>2. CASE Accept
  <2>1. PICK fd \in Fd : /\ fd \notin Fixed /\ Head(backlog) \in Conn
                         /\ owner' = [owner EXCEPT ![fd] = Head(backlog)]
                         /\ state' = [state EXCEPT ![fd] = "CONNECTED"]
                         /\ StreamNew(fd)
    BY <1>2, AcceptFacts
  <2> QED
    BY <2>1, ServerAssumption DEF MasterInv, FixedInv, Fixed, StreamNew, TypeOK
<1>3. CASE ReceiveClose
  BY <1>3, CloseFacts DEF MasterInv, FixedInv, Fixed, ReceiveClose, TypeOK
<1>4. CASE UNCHANGED <<owner, state, next>>
  BY <1>4 DEF MasterInv, FixedInv
<1>5. CASE Select
  BY <1>5, <1>4 DEF Select, streams
<1> QED
  BY <1>1, <1>2, <1>3, <1>4, <1>5, Quiet

LEMMA TrackedKept == ASSUME MasterInv, Step PROVE DescriptorsTracked'
<1>1. ASSUME NEW f \in Fd, Destroy(f) PROVE DescriptorsTracked'
  BY <1>1 DEF Destroy, MasterInv, DescriptorsTracked
<1>2. CASE Accept
  <2>1. PICK fd \in Fd : /\ owner' = [owner EXCEPT ![fd] = Head(backlog)]
                         /\ state' = [state EXCEPT ![fd] = "CONNECTED"]
    BY <1>2, AcceptFacts
  <2>2. PICK c \in Conn : c = Head(backlog) /\ \A f \in Fd : owner[f] # c
    <3>1. 1 \in DOMAIN backlog
      BY <1>2, AcceptFacts DEF MasterInv, TypeOK
    <3> QED
      BY <1>2, <3>1, AcceptFacts DEF MasterInv, ConnInv
  <2>3. owner'[fd] = c /\ state'[fd] = "CONNECTED"
    BY <2>1, <2>2 DEF MasterInv, TypeOK
  <2>4. \A f \in Fd \ {fd} : owner'[f] = owner[f] /\ state'[f] = state[f]
    BY <2>1 DEF MasterInv, TypeOK
  <2> QED
    BY <2>2, <2>3, <2>4 DEF MasterInv, DescriptorsTracked
<1>3. CASE ReceiveClose
  <2>1. owner'[cur] = "free" /\ "free" \notin Conn /\ state'[cur] = "CLOSED"
    BY <1>3, CloseFacts, ServerAssumption DEF MasterInv, TypeOK
  <2>2. \A f \in Fd \ {cur} : owner'[f] = owner[f] /\ state'[f] = state[f]
    BY <1>3, CloseFacts DEF MasterInv, TypeOK
  <2> QED
    BY <2>1, <2>2 DEF MasterInv, DescriptorsTracked
<1>4. CASE UNCHANGED <<owner, state, next>>
  BY <1>4 DEF MasterInv, DescriptorsTracked
<1>5. CASE Select
  BY <1>5, <1>4 DEF Select, streams
<1> QED
  BY <1>1, <1>2, <1>3, <1>4, <1>5, Quiet

\* The loop moves on by one: down the fixed end of the list once it is there.
LEMMA AdvanceFixed ==
  ASSUME MasterInv, phase = "handle", Advance, phase' = "handle", cur \in Fixed
  PROVE  cur' \in PipeFds /\ (cur \in PipeFds => cur' = cur - 2)
<1>1. cur' = After(cur) /\ cur' # Nil
  BY DEF Advance, MasterInv, FixedInv, TypeOK
<1> QED
  BY <1>1, Numbers DEF Fixed

LEMMA LateKept == ASSUME MasterInv, Step PROVE LateInv'
<1> SUFFICES ASSUME reopened' # {}, phase' = "handle" PROVE cur' \in Fixed
  BY DEF LateInv
<1>1. CASE Accept
  BY <1>1, AcceptFacts DEF Accept, Fixed, loop
<1>2. CASE phase = "handle" /\ reopened' = reopened /\ Advance
  BY <1>2, AdvanceFixed DEF MasterInv, LateInv, Fixed
<1>3. CASE UNCHANGED <<phase, cur, reopened>>
  BY <1>3 DEF MasterInv, LateInv
<1>4. ~ (Select \/ Hang \/ AcceptFails)
  BY DEF Select, Hang, AcceptFails
<1>5. \/ Accept \/ Select \/ Hang \/ AcceptFails
      \/ phase = "handle" /\ reopened' = reopened /\ Advance
      \/ UNCHANGED <<phase, cur, reopened>>
  BY DEF Step, Next, Master, Connect, ClientSend, ClientClose, Destroy, Skip, AcceptDone,
         Receive, ReceiveClose, ReceiveDone, Receiving, Handles, SendData, WorkerRead,
         WorkerSend, vars, loop
<1> QED
  BY <1>1, <1>2, <1>3, <1>4, <1>5

\* Nobody takes a job off a pair on the master's side but SendData.
LEMMA ToMasterGrows ==
  ASSUME MasterInv, Step, ~ SendData, NEW w \in Worker, toMaster[w] # <<>>
  PROVE  toMaster'[w] # <<>>
<1>1. CASE UNCHANGED toMaster
  BY <1>1
<1>2. ASSUME NEW v, NEW j, v \in Worker, toMaster' = [toMaster EXCEPT ![v] = Append(@, j)]
      PROVE  toMaster'[w] # <<>>
  <2>1. toMaster[v] \in Seq(Jobs)
    BY <1>2 DEF MasterInv, TypeOK
  <2>2. Append(toMaster[v], j) # <<>>
    BY <2>1
  <2> QED
    BY <1>2, <2>2 DEF MasterInv, TypeOK
<1>3. ASSUME NEW u \in Worker, WorkerSend(u) PROVE toMaster'[w] # <<>>
  <2>1. \A x \in Worker : (OwnEnd(x) - 4) \div 2 = x
    BY DEF OwnEnd, Worker
  <2>2. \/ UNCHANGED toMaster
        \/ \E v \in Worker, j \in {job[u]} : toMaster' = [toMaster EXCEPT ![v] = Append(@, j)]
    BY <1>3, <2>1 DEF WorkerSend, Holds
  <2> QED
    BY <1>1, <1>2, <2>2
<1>4. UNCHANGED toMaster \/ \E u \in Worker : WorkerSend(u)
  BY DEF Step, Next, Master, Connect, ClientSend, ClientClose, Destroy, Select, Hang, Skip,
         Accept, AcceptFails, AcceptDone, Receive, ReceiveClose, ReceiveDone, WorkerRead,
         vars, pairs
<1> QED
  BY <1>1, <1>3, <1>4

LEMMA MarkedKept == ASSUME MasterInv, Step PROVE MarkedInv'
<1> SUFFICES ASSUME phase' = "handle", NEW w \in Worker, PipeFd(w) \in ready',
                    cur' \in PipeFds => PipeFd(w) <= cur'
             PROVE  toMaster'[w] # <<>>
  BY DEF MarkedInv
<1>1. CASE Select
  <2>1. owner[PipeFd(w)] = "pipe" /\ (PipeFd(w) - 3) \div 2 = w
    BY Numbers DEF MasterInv, FixedInv
  <2>2. Readable(PipeFd(w))
    BY <1>1 DEF Select
  <2>3. toMaster[w] # <<>>
    BY <2>1, <2>2, ServerAssumption DEF Readable
  <2> QED
    BY <1>1, <2>3 DEF Select, pairs
<1>2. ASSUME phase = "handle", ready' = ready, Advance
      PROVE  toMaster[w] # <<>> /\ cur # PipeFd(w)
  <2>1. cur \in PipeFds => PipeFd(w) <= cur - 2
    BY <1>2, AdvanceFixed DEF Fixed
  <2>2. cur \in Int
    BY DEF MasterInv, TypeOK, Fd, Nil
  <2>3. PipeFd(w) \in PipeFds /\ PipeFd(w) \in Int
    BY Numbers DEF PipeFd, Worker
  <2>4. cur \in PipeFds => PipeFd(w) <= cur /\ cur # PipeFd(w)
    BY <2>1, <2>2, <2>3
  <2> QED
    BY <1>2, <2>3, <2>4 DEF MasterInv, MarkedInv
<1>3. CASE SendData
  <2>1. phase = "handle" /\ ready' = ready /\ Advance /\ cur \in PipeFds
    BY <1>3 DEF SendData, Handles, Advance, MasterInv, TypeOK, FixedInv
  <2>2. PICK v \in Worker : cur = PipeFd(v) /\ (cur - 3) \div 2 = v
    BY <2>1, Numbers DEF PipeFds
  <2>3. v # w /\ toMaster[w] # <<>>
    BY <1>2, <2>1, <2>2
  <2> QED
    BY <1>3, <2>2, <2>3 DEF SendData, MasterInv, TypeOK
<1>4. CASE phase = "handle" /\ ready' = ready /\ Advance /\ ~ SendData
  BY <1>2, <1>4, ToMasterGrows
<1>5. CASE UNCHANGED <<phase, cur, ready>> /\ ~ SendData
  BY <1>5, ToMasterGrows DEF MasterInv, MarkedInv
<1>6. ~ (Hang \/ AcceptFails)
  BY DEF Hang, AcceptFails
<1>7. \/ Select \/ SendData \/ Hang \/ AcceptFails
      \/ phase = "handle" /\ ready' = ready /\ Advance
      \/ UNCHANGED <<phase, cur, ready>>
  BY DEF Step, Next, Master, Connect, ClientSend, ClientClose, Destroy, Skip, AcceptDone,
         Accept, Receive, ReceiveClose, ReceiveDone, Receiving, Handles, Advance, WorkerRead,
         WorkerSend, vars, loop
<1> QED
  BY <1>1, <1>3, <1>4, <1>5, <1>6, <1>7

\* The client of a connection that has been opened is never "new" again.
LEMMA ClientNew ==
  ASSUME MasterInv, Step, NEW c \in Conn, client[c] # "new" PROVE client'[c] # "new"
<1>1. \/ UNCHANGED client
      \/ \E d \in Conn : \E how \in {"open", "closed"} : client' = [client EXCEPT ![d] = how]
  BY DEF Step, Next, Master, Connect, ClientSend, ClientClose, Destroy, Select, Hang, Skip,
         Accept, AcceptFails, AcceptDone, Receive, ReceiveClose, ReceiveDone, SendData,
         WorkerRead, WorkerSend, vars, clients
<1> QED
  BY <1>1 DEF MasterInv, TypeOK

LEMMA ConnKept == ASSUME MasterInv, Step PROVE ConnInv'
<1>1. CASE Accept
  <2>1. PICK fd \in Fd : owner' = [owner EXCEPT ![fd] = Head(backlog)]
    BY <1>1, AcceptFacts
  <2>2. backlog # <<>> /\ Head(backlog) \in Conn /\ Head(backlog) = backlog[1]
    BY <1>1, AcceptFacts
  <2>3. backlog' = Tail(backlog) /\ client' = client
    BY <1>1 DEF Accept
  <2>4. \A i \in DOMAIN backlog' : /\ i + 1 \in DOMAIN backlog /\ i + 1 # 1
                                   /\ backlog'[i] = backlog[i + 1]
    <3>1. backlog \in Seq(Conn)
      BY DEF MasterInv, TypeOK
    <3>2. \A i \in DOMAIN Tail(backlog) : i + 1 # 1
      BY <2>2, <3>1
    <3> QED
      BY <2>2, <2>3, <3>1, <3>2, FrontTaken
  <2>5. 1 \in DOMAIN backlog
    BY <2>2 DEF MasterInv, TypeOK
  <2>6. \A i, j \in DOMAIN backlog' : backlog'[i] = backlog'[j] => i = j
    <3> SUFFICES ASSUME NEW i \in DOMAIN backlog', NEW j \in DOMAIN backlog',
                        backlog'[i] = backlog'[j]
                 PROVE  i = j
      OBVIOUS
    <3>1. i + 1 = j + 1
      BY <2>4 DEF MasterInv, ConnInv
    <3>2. DOMAIN Tail(backlog) \subseteq Int
      BY <2>2 DEF MasterInv, TypeOK
    <3> QED
      BY <2>3, <3>1, <3>2
  <2>7. ASSUME NEW i \in DOMAIN backlog'
        PROVE  client'[backlog'[i]] # "new" /\ \A f \in Fd : owner'[f] # backlog'[i]
    <3>1. backlog'[i] # Head(backlog) /\ \A f \in Fd : owner[f] # backlog'[i]
      BY <2>2, <2>4, <2>5, <2>7 DEF MasterInv, ConnInv
    <3>2. client[backlog'[i]] # "new"
      BY <2>4, <2>7 DEF MasterInv, ConnInv
    <3> QED
      BY <2>1, <2>3, <3>1, <3>2 DEF MasterInv, TypeOK
  <2>8. ASSUME NEW f \in Fd, owner'[f] \in Conn PROVE client'[owner'[f]] # "new"
    <3>1. client[Head(backlog)] # "new"
      BY <2>2, <2>5 DEF MasterInv, ConnInv
    <3> QED
      BY <2>1, <2>3, <2>8, <3>1 DEF MasterInv, ConnInv, TypeOK
  <2> QED
    BY <2>6, <2>7, <2>8 DEF ConnInv
<1>2. ASSUME NEW c \in Conn, Connect(c) PROVE ConnInv'
  <2>1. backlog \in Seq(Conn) /\ backlog' = Append(backlog, c) /\ client[c] = "new"
        /\ owner' = owner /\ client'[c] = "open"
    BY <1>2 DEF MasterInv, TypeOK, Connect
  <2>2. /\ DOMAIN backlog' = DOMAIN backlog \cup {Len(backlog) + 1}
        /\ Len(backlog) + 1 \notin DOMAIN backlog
        /\ \A i \in DOMAIN backlog : backlog'[i] = backlog[i] /\ backlog[i] \in Conn
        /\ backlog'[Len(backlog) + 1] = c
    BY <2>1
  <2>3. (\A f \in Fd : owner[f] # c) /\ \A i \in DOMAIN backlog : backlog[i] # c
    BY <2>1 DEF MasterInv, ConnInv
  <2>4. \A d \in Conn : client[d] # "new" => client'[d] # "new"
    BY <1>2, ClientNew DEF Step, Next
  <2> QED
    BY <2>1, <2>2, <2>3, <2>4 DEF MasterInv, ConnInv
<1>3. CASE /\ backlog' = backlog
           /\ \A f \in Fd : owner'[f] = owner[f] \/ owner'[f] = "free"
  <2>1. \A i \in DOMAIN backlog : backlog[i] \in Conn
    BY DEF MasterInv, TypeOK
  <2>2. "free" \notin Conn
    BY ServerAssumption
  <2> QED
    BY <1>3, <2>1, <2>2, ClientNew DEF MasterInv, ConnInv
<1>4. CASE ReceiveClose
  <2>1. backlog' = backlog
    BY <1>4 DEF ReceiveClose, clients
  <2> QED
    BY <1>3, <1>4, <2>1, CloseFacts DEF MasterInv, TypeOK
<1>5. CASE UNCHANGED <<backlog, owner>>
  BY <1>3, <1>5
<1>6. \/ Accept \/ ReceiveClose \/ UNCHANGED <<backlog, owner>>
      \/ \E c \in Conn : Connect(c)
  BY DEF Step, Next, Master, ClientSend, ClientClose, Destroy, Select, Hang, Skip,
         AcceptFails, AcceptDone, Receive, ReceiveDone, SendData, WorkerRead, WorkerSend,
         vars, clients
<1> QED
  BY <1>1, <1>2, <1>4, <1>5, <1>6

LEMMA TypeKept == ASSUME MasterInv, Step PROVE TypeOK'
<1>1. CASE UNCHANGED vars
  BY <1>1 DEF MasterInv, TypeOK, vars, clients, streams, loop, pairs
<1> QED
  BY <1>1, MasterKeepsType, ClientsKeepType, WorkersKeepType DEF Step, Next, MasterInv

LEMMA MasterInvariant == Spec => []MasterInv
<1>1. MasterInv /\ [Next]_vars => MasterInv'
  <2> SUFFICES ASSUME MasterInv, Step PROVE MasterInv'
    BY DEF Step
  <2> QED
    BY TypeKept, FixedKept, MarkedKept, LateKept, ConnKept, TrackedKept DEF MasterInv
<1> QED
  BY <1>1, InitMaster, PTL DEF Spec

\* Every variable has its type, whatever the clients, the loop and the workers do:
\* no step indexes a list slot, a pair or a queue that is not there (server.c:60-110,
\* 112-180, 289-345).
THEOREM TypeCorrect == Spec => []TypeOK
BY MasterInvariant, PTL DEF MasterInv

\* server.c:145-186: the sockets of clients that are open are those of the CONNECTED
\* streams, one each: none is lost and none is closed under a stream.
THEOREM DescriptorsTrackedThm == Spec => []DescriptorsTracked
BY MasterInvariant, PTL DEF MasterInv

\* server.c:86-87,336-342: the mark select() left for the former owner of a descriptor
\* is never taken for a mark of the stream that was accepted on it since.
THEOREM MarkIsOwnThm == Spec => []MarkIsOwn
<1>1. MasterInv => MarkIsOwn
  BY DEF MasterInv, LateInv, FixedInv, Fixed, MarkIsOwn, Receiving, Handles, TypeOK
<1> QED
  BY <1>1, MasterInvariant, PTL

-----------------------------------------------------------------------------
(* The order of the jobs *)

\* The messages of c that have left its inbox and were not dropped.
Passed(c, n) == \/ \E k \in DOMAIN handled[c] : handled[c][k] = n
                \/ \E w \in Worker : \E i \in DOMAIN toWorker[w] :
                     toWorker[w][i].conn = c /\ toWorker[w][i].seq = n

\* The master has closed c: nothing follows its EVENT_CLOSE.
Gone(c) == /\ client[c] = "closed" /\ inbox[c] = <<>>
           /\ \A f \in Fd : owner[f] # c
           /\ \A i \in DOMAIN backlog : backlog[i] # c

\* The jobs of a connection are at one worker, the one of its descriptor, ...
PlaceInv ==
  /\ \A w, v \in Worker : \A i \in DOMAIN toWorker[w], k \in DOMAIN toWorker[v] :
       toWorker[w][i].conn = toWorker[v][k].conn => w = v
  /\ \A w \in Worker : \A i \in DOMAIN toWorker[w] : \A f \in Fd :
       owner[f] = toWorker[w][i].conn => WorkerOf(f) = w

\* ... in the order they were sent, after those the worker has read, ...
QueueInv ==
  \A w \in Worker : \A i \in DOMAIN toWorker[w] :
    /\ \A k \in DOMAIN toWorker[w] :
         i < k /\ toWorker[w][i].conn = toWorker[w][k].conn
           => toWorker[w][i].seq < toWorker[w][k].seq
    /\ \A k \in DOMAIN handled[toWorker[w][i].conn] :
         handled[toWorker[w][i].conn][k] < toWorker[w][i].seq

\* ... and before those the master has not received.
InboxInv ==
  \A c \in Conn : \A i \in DOMAIN inbox[c] :
    /\ inbox[c][i] <= sent[c]
    /\ \A k \in DOMAIN inbox[c] : i < k => inbox[c][i] < inbox[c][k]

PassedInv ==
  \A c \in Conn : \A n \in 1 .. CloseSeq : Passed(c, n) =>
    /\ \A i \in DOMAIN inbox[c] : n < inbox[c][i]
    /\ n <= sent[c] \/ Gone(c)
    /\ client[c] # "new" /\ \A i \in DOMAIN backlog : backlog[i] # c

OrderInv == JobsInOrder /\ PlaceInv /\ QueueInv /\ InboxInv /\ PassedInv

LEMMA JobFacts ==
  ASSUME MasterInv, NEW w \in Worker, NEW i \in DOMAIN toWorker[w]
  PROVE  /\ toWorker[w][i].conn \in Conn /\ toWorker[w][i].seq \in 1 .. CloseSeq
         /\ i \in Nat /\ 1 <= i /\ i <= Len(toWorker[w])
<1>1. toWorker[w] \in Seq(Jobs)
  BY DEF MasterInv, TypeOK
<1>2. toWorker[w][i] \in Jobs /\ i \in 1 .. Len(toWorker[w])
  BY <1>1
<1> QED
  BY <1>1, <1>2 DEF Jobs

\* A job goes behind the others of its pair, or is dropped.
LEMMA Behind ==
  ASSUME MasterInv, NEW fd \in Fd, NEW seq \in 1 .. CloseSeq, Dispatch(fd, seq),
         NEW w \in Worker, NEW i \in DOMAIN toWorker'[w]
  PROVE  \/ i \in DOMAIN toWorker[w] /\ toWorker'[w][i] = toWorker[w][i]
         \/ /\ w = WorkerOf(fd) /\ i = Len(toWorker[w]) + 1
            /\ toWorker'[w][i].conn = owner[fd] /\ toWorker'[w][i].seq = seq
<1> DEFINE j == [fd |-> fd, conn |-> owner[fd], seq |-> seq]
<1>1. j.conn = owner[fd] /\ j.seq = seq
  OBVIOUS
<1> HIDE DEF j
<1>2. toWorker' = toWorker \/ toWorker' = [toWorker EXCEPT ![WorkerOf(fd)] = Append(@, j)]
  BY DEF Dispatch, j
<1>3. toWorker[w] \in Seq(Jobs)
  BY DEF MasterInv, TypeOK
<1>4. toWorker'[w] = toWorker[w] \/ (w = WorkerOf(fd) /\ toWorker'[w] = Append(toWorker[w], j))
  BY <1>2 DEF MasterInv, TypeOK
<1>5. \/ i \in DOMAIN toWorker[w] /\ toWorker'[w][i] = toWorker[w][i]
      \/ w = WorkerOf(fd) /\ i = Len(toWorker[w]) + 1 /\ toWorker'[w][i] = j
  BY <1>3, <1>4
<1> QED
  BY <1>1, <1>5

LEMMA Enqueued ==
  ASSUME MasterInv, OrderInv, NEW fd \in Fd, NEW seq \in 1 .. CloseSeq,
         owner[fd] \in Conn, Dispatch(fd, seq), handled' = handled,
         \A n \in 1 .. CloseSeq : Passed(owner[fd], n) => n < seq,
         \A f \in Fd : owner'[f] = owner[f] \/ owner'[f] = "free"
  PROVE  /\ JobsInOrder' /\ PlaceInv' /\ QueueInv'
         /\ \A d \in Conn, n \in 1 .. CloseSeq :
              Passed(d, n)' => Passed(d, n) \/ (d = owner[fd] /\ n = seq)
<1> DEFINE c == owner[fd]
           u == WorkerOf(fd)
<1>1. \A w \in Worker : \A i \in DOMAIN toWorker'[w] :
        \/ i \in DOMAIN toWorker[w] /\ toWorker'[w][i] = toWorker[w][i]
        \/ /\ w = u /\ i = Len(toWorker[w]) + 1
           /\ toWorker'[w][i].conn = c /\ toWorker'[w][i].seq = seq
  BY Behind
<1>2. \A w \in Worker : \A i \in DOMAIN toWorker[w] :
        toWorker[w][i].conn = c => w = u /\ toWorker[w][i].seq < seq
  BY JobFacts DEF OrderInv, PlaceInv, Passed
<1>3. \A k \in DOMAIN handled[c] : handled[c][k] < seq
  <2>1. \A k \in DOMAIN handled[c] : handled[c][k] \in 1 .. CloseSeq
    <3>1. handled[c] \in Seq(1 .. CloseSeq)
      BY DEF MasterInv, TypeOK
    <3> QED
      BY <3>1, Elements
  <2> QED
    BY <2>1 DEF Passed
<1>4. PlaceInv'
  <2>1. \A w, v \in Worker : \A i \in DOMAIN toWorker'[w], k \in DOMAIN toWorker'[v] :
          toWorker'[w][i].conn = toWorker'[v][k].conn => w = v
    BY <1>1, <1>2 DEF OrderInv, PlaceInv
  <2>2. ASSUME NEW w \in Worker, NEW i \in DOMAIN toWorker'[w], NEW f \in Fd,
               owner'[f] = toWorker'[w][i].conn
        PROVE  WorkerOf(f) = w
    <3>1. toWorker'[w][i].conn \in Conn
      BY <1>1, <2>2, JobFacts
    <3>2. owner[f] = toWorker'[w][i].conn
      BY <2>2, <3>1, ServerAssumption
    <3>3. CASE i \in DOMAIN toWorker[w] /\ toWorker'[w][i] = toWorker[w][i]
      BY <3>2, <3>3 DEF OrderInv, PlaceInv
    <3>4. CASE w = u /\ toWorker'[w][i].conn = c
      BY <3>2, <3>4 DEF MasterInv, DescriptorsTracked
    <3> QED
      BY <1>1, <3>3, <3>4
  <2> QED
    BY <2>1, <2>2 DEF PlaceInv, WorkerOf
<1>5. QueueInv'
  <2> SUFFICES ASSUME NEW w \in Worker, NEW i \in DOMAIN toWorker'[w]
               PROVE  /\ \A k \in DOMAIN toWorker'[w] :
                           i < k /\ toWorker'[w][i].conn = toWorker'[w][k].conn
                             => toWorker'[w][i].seq < toWorker'[w][k].seq
                      /\ \A k \in DOMAIN handled[toWorker'[w][i].conn] :
                           handled[toWorker'[w][i].conn][k] < toWorker'[w][i].seq
    BY DEF QueueInv
  <2>1. ASSUME NEW k \in DOMAIN toWorker'[w], i < k,
               toWorker'[w][i].conn = toWorker'[w][k].conn
        PROVE  toWorker'[w][i].seq < toWorker'[w][k].seq
    <3>1. CASE i \in DOMAIN toWorker[w] /\ k \in DOMAIN toWorker[w]
      <4>1. i # Len(toWorker[w]) + 1 /\ k # Len(toWorker[w]) + 1
        BY <3>1, JobFacts
      <4> QED
        BY <1>1, <2>1, <3>1, <4>1 DEF OrderInv, QueueInv
    <3>2. CASE i \in DOMAIN toWorker[w] /\ k \notin DOMAIN toWorker[w]
      <4>1. i # Len(toWorker[w]) + 1
        BY <3>2, JobFacts
      <4> QED
        BY <1>1, <1>2, <2>1, <3>2, <4>1
    <3>3. CASE i \notin DOMAIN toWorker[w] /\ k \in DOMAIN toWorker[w]
      <4>1. i = Len(toWorker[w]) + 1
        BY <1>1, <3>3
      <4> QED
        BY <2>1, <3>3, <4>1, JobFacts
    <3>4. CASE i \notin DOMAIN toWorker[w] /\ k \notin DOMAIN toWorker[w]
      <4>1. i = Len(toWorker[w]) + 1 /\ k = i
        BY <1>1, <3>4
      <4>2. Len(toWorker[w]) \in Nat
        BY DEF MasterInv, TypeOK
      <4> QED
        BY <2>1, <4>1, <4>2
    <3> QED
      BY <3>1, <3>2, <3>3, <3>4
  <2>2. ASSUME NEW k \in DOMAIN handled[toWorker'[w][i].conn]
        PROVE  handled[toWorker'[w][i].conn][k] < toWorker'[w][i].seq
    BY <1>1, <1>3, <2>2 DEF OrderInv, QueueInv
  <2> QED
    BY <2>1, <2>2
<1>6. ASSUME NEW d \in Conn, NEW n \in 1 .. CloseSeq, Passed(d, n)'
      PROVE  Passed(d, n) \/ (d = c /\ n = seq)
  BY <1>1, <1>6 DEF Passed
<1> QED
  BY <1>4, <1>5, <1>6 DEF OrderInv, JobsInOrder

\* A worker reads its jobs from the front.
LEMMA ReadOrder ==
  ASSUME MasterInv, OrderInv, NEW w \in Worker, WorkerRead(w)
  PROVE  /\ JobsInOrder' /\ PlaceInv' /\ QueueInv'
         /\ \A d \in Conn, n \in 1 .. CloseSeq : Passed(d, n)' => Passed(d, n)
<1> DEFINE j == toWorker[w][1]
<1>1. toWorker[w] \in Seq(Jobs) /\ toWorker[w] # <<>> /\ 1 \in DOMAIN toWorker[w]
  BY DEF MasterInv, TypeOK, WorkerRead
<1>2. j = Head(toWorker[w]) /\ j.conn \in Conn
  <2>1. j \in Jobs /\ j = Head(toWorker[w])
    BY <1>1
  <2> QED
    BY <2>1 DEF Jobs
<1>3. \A i \in DOMAIN Tail(toWorker[w]) :
        i + 1 \in DOMAIN toWorker[w] /\ Tail(toWorker[w])[i] = toWorker[w][i + 1]
  BY <1>1, FrontTaken
<1>4. toWorker'[w] = Tail(toWorker[w]) /\ \A v \in Worker \ {w} : toWorker'[v] = toWorker[v]
  BY DEF MasterInv, TypeOK, WorkerRead
<1>5. DOMAIN Tail(toWorker[w]) \subseteq Nat \ {0}
  BY <1>1
<1>6. \A i \in DOMAIN toWorker'[w] : /\ i + 1 \in DOMAIN toWorker[w] /\ 1 < i + 1
                                     /\ toWorker'[w][i] = toWorker[w][i + 1]
  BY <1>3, <1>4, <1>5
<1>7. handled' = [handled EXCEPT ![j.conn] = Append(@, j.seq)] /\ owner' = owner
  BY <1>2 DEF WorkerRead
<1>8. ASSUME NEW c \in Conn, NEW k \in DOMAIN handled'[c]
      PROVE  \/ k \in DOMAIN handled[c] /\ handled'[c][k] = handled[c][k]
             \/ c = j.conn /\ k = Len(handled[c]) + 1 /\ handled'[c][k] = j.seq
  <2>1. handled[c] \in Seq(1 .. CloseSeq)
    BY DEF MasterInv, TypeOK
  <2>2. handled'[c] = handled[c] \/ (c = j.conn /\ handled'[c] = Append(handled[c], j.seq))
    BY <1>7 DEF MasterInv, TypeOK
  <2> QED
    BY <2>1, <2>2
<1> HIDE DEF j
<1>9. \A c \in Conn : \A k \in DOMAIN handled[c] : k \in Nat /\ k <= Len(handled[c])
                                                 /\ Len(handled[c]) \in Nat
  BY Elements DEF MasterInv, TypeOK
<1>10. \A k \in DOMAIN handled[j.conn] : handled[j.conn][k] < j.seq
  BY <1>1 DEF OrderInv, QueueInv, j
<1>11. JobsInOrder'
  <2> SUFFICES ASSUME NEW c \in Conn, NEW i \in DOMAIN handled'[c], NEW k \in DOMAIN handled'[c],
                      i < k
               PROVE  handled'[c][i] < handled'[c][k]
    BY DEF JobsInOrder
  <2>1. CASE i \in DOMAIN handled[c] /\ k \in DOMAIN handled[c]
    <3>1. i # Len(handled[c]) + 1 /\ k # Len(handled[c]) + 1
      BY <1>9, <2>1
    <3> QED
      BY <1>8, <2>1, <3>1 DEF OrderInv, JobsInOrder
  <2>2. CASE i \in DOMAIN handled[c] /\ k \notin DOMAIN handled[c]
    <3>1. i # Len(handled[c]) + 1
      BY <1>9, <2>2
    <3> QED
      BY <1>8, <1>10, <2>2, <3>1
  <2>3. CASE i \notin DOMAIN handled[c]
    <3>1. i = Len(handled[c]) + 1 /\ Len(handled[c]) \in Nat
      BY <1>8, <2>3 DEF MasterInv, TypeOK
    <3>2. k \notin DOMAIN handled[c]
      BY <1>9, <3>1
    <3> QED
      BY <1>8, <3>1, <3>2
  <2> QED
    BY <2>1, <2>2, <2>3
<1>12. \A v \in Worker : \A i \in DOMAIN toWorker'[v] : \E k \in DOMAIN toWorker[v] :
         toWorker'[v][i] = toWorker[v][k] /\ (v = w => k = i + 1) /\ (v # w => k = i)
  BY <1>4, <1>6
<1>13. PlaceInv'
  <2>1. \A v, u \in Worker : \A i \in DOMAIN toWorker'[v], k \in DOMAIN toWorker'[u] :
          toWorker'[v][i].conn = toWorker'[u][k].conn => v = u
    BY <1>12 DEF OrderInv, PlaceInv
  <2>2. \A v \in Worker : \A i \in DOMAIN toWorker'[v] : \A f \in Fd :
          owner'[f] = toWorker'[v][i].conn => WorkerOf(f) = v
    BY <1>7, <1>12 DEF OrderInv, PlaceInv
  <2> QED
    BY <2>1, <2>2 DEF PlaceInv, WorkerOf
<1>14. QueueInv'
  <2> SUFFICES ASSUME NEW v \in Worker, NEW i \in DOMAIN toWorker'[v]
               PROVE  /\ \A k \in DOMAIN toWorker'[v] :
                           i < k /\ toWorker'[v][i].conn = toWorker'[v][k].conn
                             => toWorker'[v][i].seq < toWorker'[v][k].seq
                      /\ \A k \in DOMAIN handled'[toWorker'[v][i].conn] :
                           handled'[toWorker'[v][i].conn][k] < toWorker'[v][i].seq
    BY DEF QueueInv
  <2>1. PICK a \in DOMAIN toWorker[v] :
          toWorker'[v][i] = toWorker[v][a] /\ (v = w => a = i + 1) /\ (v # w => a = i)
    BY <1>12
  <2>2. toWorker[v][a].conn \in Conn /\ a \in Nat
    BY JobFacts
  <2>3. ASSUME NEW k \in DOMAIN toWorker'[v], i < k,
               toWorker'[v][i].conn = toWorker'[v][k].conn
        PROVE  toWorker'[v][i].seq < toWorker'[v][k].seq
    <3>1. PICK b \in DOMAIN toWorker[v] :
            toWorker'[v][k] = toWorker[v][b] /\ (v = w => b = k + 1) /\ (v # w => b = k)
      BY <1>12
    <3>2. i \in Nat /\ k \in Nat
      <4>1. toWorker'[v] \in Seq(Jobs)
        BY TypeKept DEF Step, Next, TypeOK
      <4> QED
        BY <2>3, <4>1, Elements
    <3>3. a < b
      BY <2>1, <2>3, <3>1, <3>2
    <3> QED
      BY <2>1, <2>3, <3>1, <3>3 DEF OrderInv, QueueInv
  <2>4. ASSUME NEW k \in DOMAIN handled'[toWorker[v][a].conn]
        PROVE  handled'[toWorker[v][a].conn][k] < toWorker[v][a].seq
    <3>1. CASE /\ k \in DOMAIN handled[toWorker[v][a].conn]
               /\ handled'[toWorker[v][a].conn][k] = handled[toWorker[v][a].conn][k]
      BY <3>1 DEF OrderInv, QueueInv
    <3>2. CASE toWorker[v][a].conn = j.conn /\ handled'[toWorker[v][a].conn][k] = j.seq
      <4>1. v = w
        BY <1>1, <3>2 DEF OrderInv, PlaceInv, j
      <4>2. 1 < a
        BY <1>6, <2>1, <4>1
      <4> QED
        BY <1>1, <3>2, <4>1, <4>2 DEF OrderInv, QueueInv, j
    <3> QED
      BY <1>8, <2>2, <2>4, <3>1, <3>2
  <2> QED
    BY <2>1, <2>3, <2>4
<1>15. ASSUME NEW d \in Conn, NEW n \in 1 .. CloseSeq, Passed(d, n)' PROVE Passed(d, n)
  BY <1>1, <1>8, <1>12, <1>15 DEF Passed, j
<1> QED
  BY <1>11, <1>13, <1>14, <1>15

LEMMA InitOrder == Init => OrderInv
BY DEF Init, OrderInv, JobsInOrder, PlaceInv, QueueInv, InboxInv, PassedInv, Passed

\* A connection that has a descriptor is not new, does not wait, and is not gone.
LEMMA OwnedFacts ==
  ASSUME MasterInv, NEW f \in Fd, owner[f] \in Conn
  PROVE  /\ client[owner[f]] # "new" /\ ~ Gone(owner[f])
         /\ \A i \in DOMAIN backlog : backlog[i] # owner[f]
BY DEF MasterInv, ConnInv, Gone

LEMMA ReceiveOrder == ASSUME MasterInv, OrderInv, Receive PROVE OrderInv'
<1> DEFINE c == owner[cur]
           h == inbox[c][1]
<1>1. cur \in Fd /\ c \in Conn /\ inbox[c] # <<>>
  BY DEF Receive, Receiving, Handles, MasterInv, TypeOK, DescriptorsTracked
<1>2. inbox[c] \in Seq(1 .. MaxMsgs)
  BY <1>1 DEF MasterInv, TypeOK
<1>3. Head(inbox[c]) = h /\ h \in 1 .. MaxMsgs /\ 1 \in DOMAIN inbox[c]
  <2>1. \A S : \A s \in Seq(S) : s # <<>> => 1 \in DOMAIN s
    OBVIOUS
  <2>2. Head(inbox[c]) = h /\ Head(inbox[c]) \in 1 .. MaxMsgs
    BY <1>1, <1>2, FrontTaken
  <2> QED
    BY <1>1, <1>2, <2>1, <2>2
<1>4. h \in 1 .. CloseSeq
  BY <1>3, ServerAssumption DEF CloseSeq
<1>5. Dispatch(cur, h)
  BY <1>3 DEF Receive
<1>6. /\ UNCHANGED <<client, sent, backlog, owner, handled>>
      /\ inbox' = [inbox EXCEPT ![c] = Tail(@)]
  BY DEF Receive
<1>7. \A i \in DOMAIN inbox'[c] : i + 1 \in DOMAIN inbox[c] /\ inbox'[c][i] = inbox[c][i + 1]
                                /\ i \in Nat /\ 1 <= i
  <2>1. inbox'[c] = Tail(inbox[c]) /\ Tail(inbox[c]) \in Seq(1 .. MaxMsgs)
    BY <1>1, <1>2, <1>6, FrontTaken DEF MasterInv, TypeOK
  <2> QED
    BY <1>1, <1>2, <2>1, FrontTaken, Elements
<1>8. \A d \in Conn \ {c} : inbox'[d] = inbox[d]
  BY <1>6 DEF MasterInv, TypeOK
<1> HIDE DEF h, c
<1>9. \A n \in 1 .. CloseSeq : Passed(c, n) => n < h
  BY <1>1, <1>3 DEF OrderInv, PassedInv, h
<1>10. /\ JobsInOrder' /\ PlaceInv' /\ QueueInv'
       /\ \A d \in Conn, n \in 1 .. CloseSeq : Passed(d, n)' => Passed(d, n) \/ (d = c /\ n = h)
  BY <1>1, <1>4, <1>5, <1>6, <1>9, Enqueued DEF c
<1>11. InboxInv'
  <2> SUFFICES ASSUME NEW d \in Conn, NEW i \in DOMAIN inbox'[d]
               PROVE  /\ inbox'[d][i] <= sent[d]
                      /\ \A k \in DOMAIN inbox'[d] : i < k => inbox'[d][i] < inbox'[d][k]
    BY <1>6 DEF InboxInv
  <2>1. CASE d # c
    BY <1>8, <2>1 DEF OrderInv, InboxInv
  <2>2. CASE d = c
    BY <1>7, <2>2 DEF OrderInv, InboxInv
  <2> QED
    BY <2>1, <2>2
<1>12. PassedInv'
  <2> SUFFICES ASSUME NEW d \in Conn, NEW n \in 1 .. CloseSeq,
                      Passed(d, n) \/ (d = c /\ n = h)
               PROVE  /\ \A i \in DOMAIN inbox'[d] : n < inbox'[d][i]
                      /\ n <= sent[d] \/ Gone(d)'
                      /\ client[d] # "new" /\ \A i \in DOMAIN backlog : backlog[i] # d
    BY <1>6, <1>10 DEF PassedInv
  <2>1. CASE Passed(d, n)
    <3>1. \A i \in DOMAIN inbox'[d] : n < inbox'[d][i]
      BY <1>7, <1>8, <2>1 DEF OrderInv, PassedInv
    <3>2. Gone(d) => Gone(d)'
      BY <1>1, <1>6, <1>8 DEF Gone, c
    <3> QED
      BY <2>1, <3>1, <3>2 DEF OrderInv, PassedInv
  <2>2. CASE d = c /\ n = h
    <3>1. \A i \in DOMAIN inbox'[c] : h < inbox'[c][i]
      <4>1. \A i \in DOMAIN inbox[c] : 1 < i => h < inbox[c][i]
        BY <1>1, <1>3 DEF OrderInv, InboxInv, h
      <4> QED
        BY <1>7, <4>1
    <3>2. h <= sent[c]
      BY <1>1, <1>3 DEF OrderInv, InboxInv, h
    <3> QED
      BY <1>1, <2>2, <3>1, <3>2, OwnedFacts DEF c
  <2> QED
    BY <2>1, <2>2
<1> QED
  BY <1>10, <1>11, <1>12 DEF OrderInv

LEMMA CloseOrder == ASSUME MasterInv, OrderInv, ReceiveClose PROVE OrderInv'
<1>0. PICK c \in Conn : c = owner[cur]
  BY CloseFacts
<1>1. /\ cur \in Fd /\ owner[cur] = c /\ owner' = [owner EXCEPT ![cur] = "free"]
      /\ Dispatch(cur, CloseSeq) /\ inbox[c] = <<>> /\ client[c] = "closed"
      /\ UNCHANGED <<client, sent, inbox, backlog, handled>>
  BY <1>0, CloseFacts DEF ReceiveClose, clients
<1>2. \A f \in Fd : owner'[f] = owner[f] \/ owner'[f] = "free"
  BY <1>1 DEF MasterInv, TypeOK
<1>3. CloseSeq \in 1 .. CloseSeq /\ \A d \in Conn : sent[d] < CloseSeq /\ sent[d] \in Int
  BY ServerAssumption DEF CloseSeq, MasterInv, TypeOK
<1>4. \A n \in 1 .. CloseSeq : Passed(c, n) => n < CloseSeq
  <2>1. \A n \in 1 .. CloseSeq : Passed(c, n) => n <= sent[c]
    BY <1>1, OwnedFacts DEF OrderInv, PassedInv
  <2> QED
    BY <1>1, <1>3, <2>1
<1>5. /\ JobsInOrder' /\ PlaceInv' /\ QueueInv'
      /\ \A d \in Conn, n \in 1 .. CloseSeq :
           Passed(d, n)' => Passed(d, n) \/ (d = c /\ n = CloseSeq)
  BY <1>1, <1>2, <1>3, <1>4, Enqueued
<1>6. InboxInv'
  BY <1>1 DEF OrderInv, InboxInv
<1>7. \A d \in Conn : Gone(d) => Gone(d)'
  BY <1>1, <1>2, ServerAssumption DEF Gone
<1>8. Gone(c)'
  <2>1. \A f \in Fd : owner'[f] # c
    BY <1>1, ServerAssumption DEF MasterInv, TypeOK, DescriptorsTracked
  <2> QED
    BY <1>1, <2>1, OwnedFacts DEF Gone
<1>9. PassedInv'
  <2> SUFFICES ASSUME NEW d \in Conn, NEW n \in 1 .. CloseSeq,
                      Passed(d, n) \/ (d = c /\ n = CloseSeq)
               PROVE  /\ \A i \in DOMAIN inbox[d] : n < inbox[d][i]
                      /\ n <= sent[d] \/ Gone(d)'
                      /\ client[d] # "new" /\ \A i \in DOMAIN backlog : backlog[i] # d
    BY <1>1, <1>5 DEF PassedInv
  <2>1. CASE Passed(d, n)
    BY <1>7, <2>1 DEF OrderInv, PassedInv
  <2>2. CASE d = c /\ n = CloseSeq
    BY <1>1, <1>8, <2>2, OwnedFacts
  <2> QED
    BY <2>1, <2>2
<1> QED
  BY <1>5, <1>6, <1>9 DEF OrderInv

\* The jobs and what the workers have read do not change.
JobsKept == UNCHANGED <<toWorker, handled>>

LEMMA SameJobs ==
  ASSUME JobsKept, OrderInv
  PROVE  /\ JobsInOrder' /\ QueueInv' /\ \A d, n : Passed(d, n)' => Passed(d, n)
         /\ owner' = owner => PlaceInv'
BY DEF JobsKept, OrderInv, JobsInOrder, QueueInv, Passed, PlaceInv, WorkerOf

LEMMA AcceptOrder == ASSUME MasterInv, OrderInv, Accept PROVE OrderInv'
<1>1. PICK fd \in Fd : owner' = [owner EXCEPT ![fd] = Head(backlog)]
  BY AcceptFacts
<1>2. PICK c \in Conn : c = Head(backlog) /\ 1 \in DOMAIN backlog /\ c = backlog[1]
  BY AcceptFacts DEF MasterInv, TypeOK
<1>3. JobsKept /\ UNCHANGED <<client, sent, inbox>> /\ backlog' = Tail(backlog)
  BY DEF Accept, JobsKept, pairs
<1>4. \A i \in DOMAIN backlog' : i + 1 \in DOMAIN backlog /\ backlog'[i] = backlog[i + 1]
  BY <1>3, AcceptFacts, FrontTaken DEF MasterInv, TypeOK
<1>5. \A n \in 1 .. CloseSeq : ~ Passed(c, n)
  BY <1>2 DEF OrderInv, PassedInv
<1>6. PlaceInv'
  <2> SUFFICES ASSUME NEW w \in Worker, NEW i \in DOMAIN toWorker[w], NEW f \in Fd,
                      owner'[f] = toWorker[w][i].conn
               PROVE  WorkerOf(f) = w
    BY <1>3 DEF OrderInv, PlaceInv, JobsKept, WorkerOf
  <2>1. toWorker[w][i].conn # c
    BY <1>5, JobFacts DEF Passed
  <2>2. owner[f] = toWorker[w][i].conn
    BY <1>1, <1>2, <2>1 DEF MasterInv, TypeOK
  <2> QED
    BY <2>2 DEF OrderInv, PlaceInv
<1>7. \A d \in Conn : Gone(d) => Gone(d)'
  BY <1>1, <1>2, <1>3, <1>4 DEF Gone, MasterInv, TypeOK
<1>8. InboxInv' /\ PassedInv'
  BY <1>3, <1>4, <1>7, SameJobs DEF OrderInv, InboxInv, PassedInv
<1> QED
  BY <1>3, <1>6, <1>8, SameJobs DEF OrderInv

LEMMA ClientsOrder ==
  ASSUME MasterInv, OrderInv, NEW c \in Conn, Connect(c) \/ ClientSend(c) \/ ClientClose(c)
  PROVE  OrderInv'
<1>1. JobsKept /\ owner' = owner
  BY DEF Connect, ClientSend, ClientClose, JobsKept, pairs
<1>2. CASE Connect(c)
  <2>1. /\ client[c] = "new" /\ backlog' = Append(backlog, c) /\ backlog \in Seq(Conn)
        /\ client' = [client EXCEPT ![c] = "open"] /\ UNCHANGED <<sent, inbox>>
    BY <1>2 DEF Connect, MasterInv, TypeOK
  <2>2. \A i \in DOMAIN backlog' :
          (i \in DOMAIN backlog /\ backlog'[i] = backlog[i]) \/ backlog'[i] = c
    BY <2>1
  <2>3. \A d \in Conn \ {c} : client'[d] = client[d]
    BY <2>1 DEF MasterInv, TypeOK
  <2>4. ~ Gone(c) /\ \A n \in 1 .. CloseSeq : ~ Passed(c, n)
    BY <2>1 DEF Gone, OrderInv, PassedInv
  <2>5. \A d \in Conn : Gone(d) => Gone(d)'
    BY <1>1, <2>1, <2>2, <2>3, <2>4 DEF Gone
  <2>6. PassedInv'
    BY <1>1, <2>1, <2>2, <2>3, <2>4, <2>5, SameJobs DEF OrderInv, PassedInv
  <2> QED
    BY <1>1, <2>1, <2>6, SameJobs DEF OrderInv, InboxInv
<1>3. CASE ClientSend(c)
  <2>1. /\ UNCHANGED <<client, backlog>> /\ client[c] = "open"
        /\ sent' = [sent EXCEPT ![c] = @ + 1] /\ inbox[c] \in Seq(1 .. MaxMsgs)
        /\ inbox' = [inbox EXCEPT ![c] = Append(@, sent[c] + 1)]
    BY <1>3 DEF ClientSend, MasterInv, TypeOK
  <2>2. /\ sent'[c] = sent[c] + 1 /\ inbox'[c] = Append(inbox[c], sent[c] + 1)
        /\ \A d \in Conn \ {c} : sent'[d] = sent[d] /\ inbox'[d] = inbox[d]
        /\ \A d \in Conn : sent[d] \in Nat
    BY <2>1 DEF MasterInv, TypeOK
  <2>3. /\ Len(inbox[c]) \in Nat
        /\ \A i \in DOMAIN inbox[c] : i \in Nat /\ i <= Len(inbox[c])
                                      /\ inbox[c][i] \in 1 .. MaxMsgs
    BY <2>1, Elements
  <2>4. \A i \in DOMAIN inbox'[c] :
          \/ i \in DOMAIN inbox[c] /\ inbox'[c][i] = inbox[c][i]
          \/ i = Len(inbox[c]) + 1 /\ inbox'[c][i] = sent[c] + 1
    BY <2>1, <2>2
  <2>5. \A i \in DOMAIN inbox[c] : inbox[c][i] < sent[c] + 1
    BY <2>2, <2>3 DEF OrderInv, InboxInv
  <2>6. InboxInv'
    <3> SUFFICES ASSUME NEW d \in Conn, NEW i \in DOMAIN inbox'[d]
                 PROVE  /\ inbox'[d][i] <= sent'[d]
                        /\ \A k \in DOMAIN inbox'[d] : i < k => inbox'[d][i] < inbox'[d][k]
      BY DEF InboxInv
    <3>1. CASE d # c
      BY <2>2, <3>1 DEF OrderInv, InboxInv
    <3>2. CASE d = c /\ i \in DOMAIN inbox[c]
      <4>1. inbox'[c][i] = inbox[c][i] /\ inbox[c][i] \in Int
        BY <2>3, <2>4, <3>2
      <4> QED
        <5>1. inbox[c][i] <= sent[c] /\ \A k \in DOMAIN inbox[c] : i < k => inbox[c][i] < inbox[c][k]
          BY <3>2 DEF OrderInv, InboxInv
        <5>2. \A k \in DOMAIN inbox'[c] : i < k => inbox'[c][i] < inbox'[c][k]
          BY <2>4, <2>5, <3>2, <4>1, <5>1
        <5>3. inbox'[c][i] <= sent'[c]
          <6>1. sent'[c] = sent[c] + 1 /\ sent[c] \in Nat
            BY <2>2
          <6> QED
            BY <4>1, <5>1, <6>1
        <5> QED
          BY <3>2, <5>2, <5>3
    <3>3. CASE d = c /\ i \notin DOMAIN inbox[c]
      <4>1. i = Len(inbox[c]) + 1 /\ inbox'[c][i] = sent[c] + 1
        BY <2>4, <3>3
      <4>2. \A k \in DOMAIN inbox'[c] : ~ (i < k)
        BY <2>3, <2>4, <4>1
      <4> QED
        BY <2>2, <3>3, <4>1, <4>2
    <3> QED
      BY <3>1, <3>2, <3>3
  <2>7. \A d \in Conn : Gone(d) => d # c /\ Gone(d)'
    BY <1>1, <2>1, <2>2 DEF Gone
  <2>8. PassedInv'
    <3> SUFFICES ASSUME NEW d \in Conn, NEW n \in 1 .. CloseSeq, Passed(d, n)
                 PROVE  /\ \A i \in DOMAIN inbox'[d] : n < inbox'[d][i]
                        /\ n <= sent'[d] \/ Gone(d)'
                        /\ client[d] # "new" /\ \A i \in DOMAIN backlog : backlog[i] # d
      BY <1>1, <2>1, SameJobs DEF PassedInv
    <3>1. /\ \A i \in DOMAIN inbox[d] : n < inbox[d][i]
          /\ n <= sent[d] \/ Gone(d)
          /\ client[d] # "new" /\ \A i \in DOMAIN backlog : backlog[i] # d
      BY DEF OrderInv, PassedInv
    <3>2. CASE d # c
      BY <2>2, <2>7, <3>1, <3>2
    <3>3. CASE d = c
      <4>1. n <= sent[c] /\ sent[c] \in Nat
        BY <2>2, <2>7, <3>1, <3>3
      <4>2. \A i \in DOMAIN inbox'[c] : n < inbox'[c][i]
        BY <2>4, <3>1, <3>3, <4>1
      <4>3. n <= sent'[c]
        BY <2>2, <4>1
      <4> QED
        BY <3>1, <3>3, <4>2, <4>3
    <3> QED
      BY <3>2, <3>3
  <2> QED
    BY <1>1, <2>6, <2>8, SameJobs DEF OrderInv
<1>4. CASE ClientClose(c)
  <2>1. /\ client' = [client EXCEPT ![c] = "closed"] /\ UNCHANGED <<sent, inbox, backlog>>
    BY <1>4 DEF ClientClose
  <2>2. \A d \in Conn : (client[d] # "new" => client'[d] # "new")
                        /\ (client[d] = "closed" => client'[d] = "closed")
    BY <2>1 DEF MasterInv, TypeOK
  <2>3. \A d \in Conn : Gone(d) => Gone(d)'
    BY <1>1, <2>1, <2>2 DEF Gone
  <2>4. PassedInv'
    BY <2>1, <2>2, <2>3, <1>1, SameJobs DEF OrderInv, PassedInv
  <2> QED
    BY <1>1, <2>1, <2>4, SameJobs DEF OrderInv, InboxInv
<1> QED
  BY <1>2, <1>3, <1>4

LEMMA OrderKept == ASSUME MasterInv, OrderInv, Step PROVE OrderInv'
<1>1. ASSUME NEW w \in Worker, WorkerRead(w) PROVE OrderInv'
  <2>1. UNCHANGED <<client, sent, inbox, backlog, owner>>
    BY <1>1 DEF WorkerRead, clients
  <2>2. InboxInv' /\ PassedInv'
    BY <1>1, <2>1, ReadOrder DEF OrderInv, InboxInv, PassedInv, Gone
  <2> QED
    BY <1>1, <2>2, ReadOrder DEF OrderInv
<1>2. CASE UNCHANGED <<client, sent, inbox, backlog, owner, toWorker, handled>>
  <2>1. JobsKept
    BY <1>2 DEF JobsKept
  <2>2. InboxInv' /\ PassedInv'
    BY <1>2, <2>1, SameJobs DEF OrderInv, InboxInv, PassedInv, Gone
  <2> QED
    BY <1>2, <2>1, <2>2, SameJobs DEF OrderInv
<1>3. \/ \E c \in Conn : Connect(c) \/ ClientSend(c) \/ ClientClose(c)
      \/ Accept \/ Receive \/ ReceiveClose
      \/ \E w \in Worker : WorkerRead(w)
      \/ UNCHANGED <<client, sent, inbox, backlog, owner, toWorker, handled>>
  BY DEF Step, Next, Master, Destroy, Select, Hang, Skip, AcceptFails, AcceptDone,
         ReceiveDone, SendData, WorkerSend, vars, clients, pairs
<1> QED
  BY <1>1, <1>2, <1>3, AcceptOrder, ReceiveOrder, CloseOrder, ClientsOrder

\* server.c:289, process.c:289: the workers read what a connection has sent in the
\* order it was sent, with its EVENT_CLOSE last, whatever is dropped on the way and
\* whoever has the descriptor by then.
THEOREM JobsInOrderThm == Spec => []JobsInOrder
<1>1. MasterInv /\ MasterInv' /\ OrderInv /\ [Next]_vars => OrderInv'
  BY OrderKept DEF Step
<1> QED
  BY <1>1, InitOrder, MasterInvariant, PTL DEF Spec, OrderInv

-----------------------------------------------------------------------------
(* The list of streams *)

\* A set of natural numbers has a least element.
LEMMA Least ==
  ASSUME NEW S \in SUBSET Nat, S # {} PROVE \E m \in S : \A n \in S : m <= n
<1> DEFINE R == OpToRel(<, Nat)
<1>1. IsWellFoundedOn(R, Nat)
  BY NatLessThanWellFounded
<1>2. \A m, n \in Nat : m < n => <<m, n>> \in R
  BY DEF OpToRel
<1> HIDE DEF R
<1>3. \E m \in S : \A n \in S : <<n, m>> \notin R
  BY <1>1, WFMin
<1>4. \A m, n \in S : <<n, m>> \notin R => m <= n
  BY <1>2
<1> QED
  BY <1>3, <1>4

\* The list with links nx and head hd, and what it is for it to end.
Links == [Fd -> Fd \cup {Nil}]
Closed(nx, T) == \A f \in T \ {Nil} : nx[f] \in T
ListOf(nx, hd) ==
  {f \in Fd : \A T \in SUBSET (Fd \cup {Nil}) : hd \in T /\ Closed(nx, T) => f \in T}
Loops(nx, hd) == \E T \in SUBSET Fd : hd \in T /\ Closed(nx, T)

\* A list ends when some rank goes down from each stream to the next.
Ranked(nx, hd, r) ==
  /\ r \in [Fd \cup {Nil} -> Nat]
  /\ \A f \in ListOf(nx, hd) : r[nx[f]] < r[f]

LEMMA ListIs ==
  /\ Listed = ListOf(next, ds_stream) /\ (Endless <=> Loops(next, ds_stream))
  /\ Listed' = ListOf(next', ds_stream') /\ (Endless' <=> Loops(next', ds_stream'))
<1>1. Listed = ListOf(next, ds_stream) /\ (Endless <=> Loops(next, ds_stream))
  BY DEF Listed, ListOf, Endless, Loops, Onward, Closed
<1>2. Listed' = ListOf(next', ds_stream') /\ (Endless' <=> Loops(next', ds_stream'))
  BY DEF Listed, ListOf, Endless, Loops, Onward, Closed
<1> QED
  BY <1>1, <1>2

LEMMA ListFacts ==
  ASSUME NEW nx \in Links, NEW hd \in Fd \cup {Nil}
  PROVE  /\ ListOf(nx, hd) \subseteq Fd
         /\ hd \in ListOf(nx, hd) \cup {Nil}
         /\ \A f \in ListOf(nx, hd) : nx[f] \in ListOf(nx, hd) \cup {Nil}
         /\ \A T \in SUBSET (Fd \cup {Nil}) : hd \in T /\ Closed(nx, T) => ListOf(nx, hd) \subseteq T
<1>1. ASSUME NEW f \in ListOf(nx, hd) PROVE nx[f] \in ListOf(nx, hd) \cup {Nil}
  <2>1. f \in Fd /\ f # Nil /\ nx[f] \in Fd \cup {Nil}
    BY Numbers DEF ListOf, Links
  <2>2. \A T \in SUBSET (Fd \cup {Nil}) : hd \in T /\ Closed(nx, T) => nx[f] \in T
    BY <2>1 DEF ListOf, Closed
  <2> QED
    BY <2>1, <2>2 DEF ListOf
<1> QED
  BY <1>1 DEF ListOf

LEMMA RankedEnds ==
  ASSUME NEW nx \in Links, NEW hd \in Fd \cup {Nil}, NEW r, Ranked(nx, hd, r)
  PROVE  ~ Loops(nx, hd)
<1> SUFFICES ASSUME NEW T \in SUBSET Fd, hd \in T, Closed(nx, T) PROVE FALSE
  BY DEF Loops
<1> DEFINE U == T \cap ListOf(nx, hd)
           S == {r[f] : f \in U}
<1>1. hd \in U
  BY ListFacts, Numbers
<1>2. S \in SUBSET Nat /\ S # {}
  BY <1>1 DEF Ranked
<1>3. PICK f \in U : \A g \in U : r[f] <= r[g]
  <2>1. PICK m \in S : \A n \in S : m <= n
    <3> HIDE DEF S
    <3> QED
      BY <1>2, Least
  <2> QED
    BY <2>1
<1>4. nx[f] \in U /\ r[nx[f]] < r[f]
  BY ListFacts, Numbers DEF Closed, Ranked
<1>5. r[f] \in Nat /\ r[nx[f]] \in Nat
  BY <1>3, <1>4 DEF Ranked
<1> QED
  BY <1>3, <1>4, <1>5

\* A stream that is not in the list goes to the front of it.
LEMMA PutFirst ==
  ASSUME NEW nx \in Links, NEW hd \in Fd \cup {Nil}, NEW fd \in Fd, fd \notin ListOf(nx, hd)
  PROVE  ListOf([nx EXCEPT ![fd] = hd], fd) = ListOf(nx, hd) \cup {fd}
<1> DEFINE nx2 == [nx EXCEPT ![fd] = hd]
           L == ListOf(nx, hd)
<1>1. nx2 \in Links /\ nx2[fd] = hd /\ (\A g \in Fd \ {fd} : nx2[g] = nx[g]) /\ fd # Nil
  BY Numbers DEF Links
<1> HIDE DEF nx2
<1>2. ListOf(nx2, fd) \subseteq L \cup {fd}
  <2>1. Closed(nx2, L \cup {fd, Nil})
    BY <1>1, ListFacts DEF Closed
  <2>2. L \cup {fd, Nil} \in SUBSET (Fd \cup {Nil})
    BY ListFacts
  <2>3. ListOf(nx2, fd) \subseteq L \cup {fd, Nil}
    BY <1>1, <2>1, <2>2, ListFacts
  <2> QED
    BY <2>3, Numbers DEF ListOf
<1>3. L \cup {fd} \subseteq ListOf(nx2, fd)
  <2> SUFFICES ASSUME NEW T \in SUBSET (Fd \cup {Nil}), fd \in T, Closed(nx2, T)
               PROVE  L \subseteq T
    BY ListFacts DEF ListOf
  <2> DEFINE T2 == (T \cap L) \cup {Nil}
  <2>1. hd \in T2
    BY <1>1, ListFacts DEF Closed
  <2>2. Closed(nx, T2)
    BY <1>1, ListFacts DEF Closed
  <2>3. L \subseteq T2
    BY <2>1, <2>2, ListFacts
  <2> QED
    BY <2>3, ListFacts, Numbers
<1> QED
  BY <1>2, <1>3 DEF nx2

\* stream_destroy takes one stream, and no other, out of a list that ends.
LEMMA TakeOut ==
  ASSUME NEW nx \in Links, NEW hd \in Fd \cup {Nil}, NEW r, Ranked(nx, hd, r),
         NEW f \in ListOf(nx, hd), NEW nx2 \in Links, NEW hd2,
         nx2 = [g \in Fd |-> IF g = f THEN Nil ELSE IF nx[g] = f THEN nx[f] ELSE nx[g]],
         hd2 = IF hd = f THEN nx[f] ELSE hd
  PROVE  ListOf(nx2, hd2) = ListOf(nx, hd) \ {f} /\ Ranked(nx2, hd2, r)
<1> DEFINE L == ListOf(nx, hd)
<1>1. f \in Fd /\ f # Nil /\ nx[f] # f /\ nx[f] \in L \cup {Nil} /\ hd2 \in Fd \cup {Nil}
  <2>1. f \in Fd /\ nx[f] \in L \cup {Nil} /\ r[nx[f]] < r[f]
    BY ListFacts DEF Ranked
  <2>2. r[f] \in Nat
    BY <2>1 DEF Ranked
  <2>3. nx[f] # f
    BY <2>1, <2>2
  <2> QED
    BY <2>1, <2>3, ListFacts, Numbers
<1>2. \A g \in Fd \ {f} : nx2[g] = IF nx[g] = f THEN nx[f] ELSE nx[g]
  OBVIOUS
<1>3. ListOf(nx2, hd2) \subseteq L \ {f}
  <2> DEFINE T == (L \ {f}) \cup {Nil}
  <2>1. T \in SUBSET (Fd \cup {Nil}) /\ hd2 \in T
    BY <1>1, ListFacts
  <2>2. Closed(nx2, T)
    BY <1>1, <1>2, ListFacts DEF Closed
  <2>3. ListOf(nx2, hd2) \subseteq T
    BY <1>1, <2>1, <2>2, ListFacts
  <2> QED
    BY <2>3, Numbers DEF ListOf
<1>4. L \ {f} \subseteq ListOf(nx2, hd2)
  <2> SUFFICES ASSUME NEW T \in SUBSET (Fd \cup {Nil}), hd2 \in T, Closed(nx2, T)
               PROVE  L \ {f} \subseteq T
    BY ListFacts DEF ListOf
  <2> DEFINE B == (T \cap (L \ {f})) \cup {Nil}
  <2>1. CASE nx[f] \in T
    <3>1. hd \in B \cup {f}
      BY <1>1, ListFacts
    <3>2. Closed(nx, B \cup {f})
      BY <1>1, <1>2, <2>1, ListFacts DEF Closed
    <3>3. B \cup {f} \in SUBSET (Fd \cup {Nil})
      BY <1>1
    <3>4. L \subseteq B \cup {f}
      BY <3>1, <3>2, <3>3, ListFacts
    <3> QED
      BY <3>4, ListFacts, Numbers
  <2>2. CASE nx[f] \notin T
    <3>1. hd \in B
      BY <1>1, <2>2, ListFacts
    <3>2. Closed(nx, B)
      BY <1>1, <1>2, <2>2, ListFacts DEF Closed
    <3>3. L \subseteq B
      BY <3>1, <3>2, ListFacts
    <3> QED
      BY <1>1, <3>3
  <2> QED
    BY <2>1, <2>2
<1>5. ASSUME NEW g \in L \ {f} PROVE r[nx2[g]] < r[g]
  <2>1. g \in Fd /\ r[nx[g]] < r[g] /\ r[nx[f]] < r[f]
    BY ListFacts DEF Ranked
  <2>2. r[g] \in Nat /\ r[f] \in Nat /\ r[nx[g]] \in Nat /\ r[nx[f]] \in Nat
    BY <1>1, <2>1, ListFacts DEF Ranked
  <2> QED
    BY <1>2, <2>1, <2>2
<1> QED
  BY <1>3, <1>4, <1>5 DEF Ranked

ListInv ==
  ~ relinked =>
    /\ \E r : Ranked(next, ds_stream, r)
    /\ stream_count = Cardinality(Listed)
    /\ {f \in Fd : state[f] # "CLOSED"} \subseteq Listed

LEMMA TypeLinks == TypeOK => next \in Links /\ ds_stream \in Fd \cup {Nil}
BY DEF TypeOK, Links

LEMMA ListedFinite == IsFiniteSet(Listed)
<1>1. IsFiniteSet(Fd)
  BY FS_Interval, ServerAssumption DEF Fd
<1> QED
  BY <1>1, FS_Subset DEF Listed

\* At the start the list is that of the listener and the pairs.
LEMMA InitListed == Init => Listed = Fixed /\ Cardinality(Fixed) = NumWorkers + 1
<1> SUFFICES ASSUME Init PROVE Listed = Fixed /\ Cardinality(Fixed) = NumWorkers + 1
  OBVIOUS
<1>1. next \in Links /\ ds_stream = ListenFd /\ \A f \in Fixed : next[f] = After(f)
  <2>1. TypeOK /\ FixedInv /\ ds_stream = ListenFd
    BY InitMaster DEF MasterInv, Init
  <2>2. \A f \in Fixed : f \in Fd
    BY Numbers DEF Fixed
  <2> QED
    BY <2>1, <2>2, TypeLinks DEF FixedInv
<1>2. Listed \subseteq Fixed
  <2>1. Closed(next, Fixed \cup {Nil})
    BY <1>1, Numbers DEF Closed, Fixed
  <2>2. Fixed \cup {Nil} \in SUBSET (Fd \cup {Nil}) /\ ds_stream \in Fixed \cup {Nil}
    BY <1>1, Numbers DEF Fixed
  <2> QED
    BY <1>1, <2>1, <2>2, ListFacts, ListIs, Numbers DEF ListOf
<1>3. Fixed \subseteq Listed
  <2> SUFFICES ASSUME NEW T \in SUBSET (Fd \cup {Nil}), ListenFd \in T, Closed(next, T)
               PROVE  PipeFds \subseteq T
    BY <1>1, ListIs, Numbers DEF ListOf, Fixed
  <2> DEFINE S == {v \in Nat : NumWorkers - 1 - v \in Worker /\ PipeFd(NumWorkers - 1 - v) \notin T}
  <2>1. S = {}
    <3> SUFFICES ASSUME S # {} PROVE FALSE
      OBVIOUS
    <3>1. PICK m \in S : \A n \in S : m <= n
      <4>1. S \in SUBSET Nat
        OBVIOUS
      <4> HIDE DEF S
      <4> QED
        BY <4>1, Least
    <3> DEFINE w == NumWorkers - 1 - m
    <3>2. m \in Nat /\ w \in Worker /\ PipeFd(w) \notin T
      BY <3>1
    <3>3. CASE m = 0
      <4>1. PipeFd(NumWorkers - 1) \in T
        BY <1>1, Numbers DEF Closed, Fixed, After
      <4>2. w = NumWorkers - 1
        BY <3>3, ServerAssumption
      <4> QED
        BY <3>2, <4>1, <4>2
    <3>4. CASE m # 0
      <4>1. m - 1 \in Nat /\ ~ (m <= m - 1)
        BY <3>2, <3>4
      <4>2. NumWorkers - 1 - (m - 1) = w + 1
        BY <3>2, ServerAssumption
      <4>3. w + 1 \in Worker
        BY <3>2, <3>4, ServerAssumption DEF Worker
      <4>4. PipeFd(w + 1) \in T
        BY <3>1, <4>1, <4>2, <4>3
      <4>5. PipeFd(w + 1) # PipeFd(0) /\ PipeFd(w + 1) - 2 = PipeFd(w)
        BY <3>2, ServerAssumption DEF PipeFd, Worker
      <4>6. next[PipeFd(w + 1)] = PipeFd(w) /\ PipeFd(w + 1) # Nil
        BY <1>1, <4>3, <4>5, Numbers DEF Fixed, After
      <4> QED
        BY <3>2, <4>4, <4>6 DEF Closed
    <3> QED
      BY <3>3, <3>4
  <2>2. ASSUME NEW w \in Worker PROVE PipeFd(w) \in T
    <3>1. NumWorkers - 1 - w \in Nat /\ NumWorkers - 1 - (NumWorkers - 1 - w) = w
      BY ServerAssumption DEF Worker
    <3> QED
      BY <2>1, <3>1
  <2> QED
    BY <2>2 DEF PipeFds
<1>4. Cardinality(Fixed) = NumWorkers + 1
  <2>1. IsFiniteSet(Worker) /\ Cardinality(Worker) = NumWorkers
    BY FS_Interval, ServerAssumption DEF Worker
  <2> DEFINE F == [w \in Worker |-> PipeFd(w)]
  <2>2. F \in Bijection(Worker, PipeFds)
    <3>1. F \in [Worker -> PipeFds]
      BY DEF PipeFds
    <3>2. \A v, w \in Worker : F[v] = F[w] => v = w
      BY DEF PipeFd, Worker
    <3>3. \A f \in PipeFds : \E w \in Worker : F[w] = f
      BY DEF PipeFds
    <3> QED
      BY <3>1, <3>2, <3>3 DEF Bijection, Injection, IsInjective, Surjection
  <2>3. IsFiniteSet(PipeFds) /\ Cardinality(PipeFds) = NumWorkers
    <3>1. ExistsBijection(Worker, PipeFds)
      BY <2>2 DEF ExistsBijection
    <3> QED
      BY <2>1, <3>1, FS_Bijection
  <2> QED
    BY <2>3, FS_AddElement, Numbers DEF Fixed
<1> QED
  BY <1>2, <1>3, <1>4

LEMMA InitList == Init => ListInv
<1> SUFFICES ASSUME Init PROVE ListInv
  OBVIOUS
<1>1. Listed = Fixed /\ Cardinality(Fixed) = NumWorkers + 1
  BY InitListed
<1> DEFINE r == [f \in Fd \cup {Nil} |-> IF f = ListenFd THEN FdLimit ELSE f]
<1>2. r \in [Fd \cup {Nil} -> Nat]
  BY ServerAssumption DEF Fd, Nil
<1>3. ASSUME NEW f \in Fixed PROVE r[next[f]] < r[f]
  <2>1. next[f] = After(f)
    BY <1>3, InitMaster, Numbers DEF MasterInv, FixedInv, Fixed
  <2>2. \A g \in PipeFds : r[g] = g /\ g \in Nat /\ 0 < g /\ g < FdLimit
    BY Numbers, ServerAssumption DEF Fd
  <2>3. r[Nil] = 0
    BY DEF Nil, ListenFd
  <2>4. CASE f = ListenFd
    BY <2>1, <2>2, <2>4, Numbers
  <2>5. CASE f \in PipeFds
    <3>1. next[f] = Nil \/ (next[f] \in PipeFds /\ next[f] = f - 2)
      BY <2>1, <2>5, Numbers
    <3> QED
      BY <2>2, <2>3, <2>5, <3>1
  <2> QED
    BY <2>4, <2>5 DEF Fixed
<1>4. Ranked(next, ds_stream, r)
  BY <1>1, <1>2, <1>3, ListIs DEF Ranked
<1>5. {f \in Fd : state[f] # "CLOSED"} \subseteq Fixed
  BY DEF Init, Fixed
<1> QED
  BY <1>1, <1>4, <1>5 DEF ListInv, Init

LEMMA ListKept == ASSUME MasterInv, ListInv, Step PROVE ListInv'
<1> SUFFICES ASSUME ~ relinked' PROVE ListInv'
  BY DEF ListInv
<1>0. next \in Links /\ ds_stream \in Fd \cup {Nil} /\ next' \in Links
  BY TypeKept, TypeLinks DEF MasterInv, TypeOK, Links
<1>1. CASE UNCHANGED <<next, ds_stream, stream_count, relinked>>
           /\ \A f \in Fd : state'[f] = state[f] \/ state'[f] = "CLOSED"
  <2>1. Listed' = Listed
    BY <1>1, ListIs
  <2> QED
    BY <1>1, <2>1 DEF ListInv
<1>2. ASSUME NEW f \in Fd, Destroy(f) PROVE ListInv'
  <2>1. /\ f \in Listed /\ state[f] = "CLOSED" /\ ~ relinked
        /\ next' = [g \in Fd |-> IF g = f THEN Nil ELSE IF next[g] = f THEN next[f] ELSE next[g]]
        /\ ds_stream' = IF ds_stream = f THEN next[f] ELSE ds_stream
        /\ stream_count' = stream_count - 1 /\ state' = state
    BY <1>2 DEF Destroy, CountLess
  <2>2. PICK r : Ranked(next, ds_stream, r)
    BY <2>1 DEF ListInv
  <2>3. Listed' = Listed \ {f} /\ Ranked(next', ds_stream', r)
    BY <1>0, <2>1, <2>2, ListIs, TakeOut
  <2>4. Cardinality(Listed \ {f}) = Cardinality(Listed) - 1
    BY <2>1, ListedFinite, FS_RemoveElement
  <2> QED
    BY <2>1, <2>3, <2>4 DEF ListInv
<1>3. CASE Accept
  <2>1. PICK fd \in Fd : state' = [state EXCEPT ![fd] = "CONNECTED"] /\ StreamNew(fd)
    BY <1>3, AcceptFacts
  <2>2. /\ ~ relinked /\ fd \notin Listed /\ next' = [next EXCEPT ![fd] = ds_stream]
        /\ ds_stream' = fd /\ stream_count' = stream_count + 1
    BY <2>1 DEF StreamNew
  <2>3. PICK r : Ranked(next, ds_stream, r)
    BY <2>2 DEF ListInv
  <2>4. Listed' = Listed \cup {fd}
    <3>1. fd \notin ListOf(next, ds_stream)
      BY <2>2, ListIs
    <3>2. ListOf([next EXCEPT ![fd] = ds_stream], fd) = ListOf(next, ds_stream) \cup {fd}
      BY <1>0, <3>1, PutFirst
    <3> QED
      BY <2>2, <3>2, ListIs
  <2>5. Cardinality(Listed \cup {fd}) = Cardinality(Listed) + 1
    BY <2>2, ListedFinite, FS_AddElement
  <2> DEFINE r2 == [r EXCEPT ![fd] = r[ds_stream] + 1]
  <2>6. r \in [Fd \cup {Nil} -> Nat] /\ \A f \in Listed : r[next[f]] < r[f]
    BY <2>3, ListIs DEF Ranked
  <2>7. r2 \in [Fd \cup {Nil} -> Nat]
    BY <1>0, <2>6
  <2>8. ASSUME NEW f \in Listed \cup {fd} PROVE r2[next'[f]] < r2[f]
    <3>1. CASE f = fd
      <4>1. next'[f] = ds_stream /\ ds_stream # fd
        BY <1>0, <2>2, <3>1, ListFacts, ListIs, Numbers DEF Links
      <4>2. r2[ds_stream] = r[ds_stream] /\ r2[f] = r[ds_stream] + 1 /\ r[ds_stream] \in Nat
        BY <1>0, <2>6, <3>1, <4>1
      <4> QED
        BY <4>1, <4>2
    <3>2. CASE f \in Listed
      <4>1. f \in Fd /\ f # fd /\ next'[f] = next[f] /\ next[f] # fd /\ next[f] \in Fd \cup {Nil}
        BY <1>0, <2>2, <3>2, ListFacts, ListIs, Numbers DEF Links
      <4> QED
        BY <2>6, <3>2, <4>1
    <3> QED
      BY <2>8, <3>1, <3>2
  <2>9. Ranked(next', ds_stream', r2)
    BY <2>4, <2>7, <2>8, ListIs DEF Ranked
  <2>10. {f \in Fd : state'[f] # "CLOSED"} \subseteq Listed'
    BY <2>1, <2>2, <2>4 DEF ListInv, MasterInv, TypeOK
  <2> QED
    BY <2>2, <2>4, <2>5, <2>9, <2>10 DEF ListInv
<1>4. CASE ReceiveClose
  BY <1>1, <1>4, CloseFacts DEF ReceiveClose, MasterInv, TypeOK
<1>5. CASE Select
  BY <1>1, <1>5 DEF Select, streams
<1> QED
  BY <1>1, <1>2, <1>3, <1>4, <1>5, Quiet

\* server.c:85-88,118-123: as long as no stream was put into the list a second time,
\* the list ends, stream_count is its length, and no open stream is missing from it.
THEOREM ListSoundThm == Spec => []ListSound
<1>1. MasterInv /\ ListInv => ListSound
  BY RankedEnds, ListIs, TypeLinks DEF MasterInv, ListInv, ListSound
<1>2. MasterInv /\ ListInv /\ [Next]_vars => ListInv'
  BY ListKept DEF Step
<1> QED
  BY <1>1, <1>2, InitList, MasterInvariant, PTL DEF Spec
=============================================================================
