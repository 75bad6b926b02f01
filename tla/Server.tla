------------------------------- MODULE Server -------------------------------
(***************************************************************************)
(* server.c, with the part of process.c it runs on: one master process     *)
(* that multiplexes its clients with select(), and NumWorkers worker       *)
(* processes behind one datagram socket pair each.  The master reads what  *)
(* clients send and hands it to a worker as a job; the worker sends the    *)
(* job on; the master forwards what arrives on a pair to the client named  *)
(* in the job.                                                             *)
(*                                                                         *)
(* Descriptors are numbers, given out lowest first as the kernel does: a   *)
(* closed client's number, and its slot in stream_list, go to the next     *)
(* client.                                                                 *)
(***************************************************************************)
EXTENDS Integers, Sequences, FiniteSets, FiniteSetsExt, SequencesExt

CONSTANTS NumWorkers, \* process_pool_new(3)
          FdLimit,    \* RLIMIT_NOFILE: descriptors are 0 .. FdLimit - 1
          Conn,       \* the connections clients may open
          MaxMsgs,    \* bound: messages a client sends on one connection
          PipeCap     \* bound: jobs one direction of a socket pair can hold

\* stream_list has max_fds = 65536 slots, so FdLimit never exceeds it here and
\* every descriptor has a slot.
ASSUME ServerAssumption ==
  /\ NumWorkers \in Nat \ {0}
  /\ FdLimit \in Nat /\ FdLimit >= 2 * NumWorkers + 3
  /\ MaxMsgs \in Nat \ {0}
  /\ PipeCap \in Nat \ {0}
  /\ IsFiniteSet(Conn)
  /\ Conn \cap {"listener", "pipe", "free"} = {}

Worker == 0 .. NumWorkers - 1
Fd == 3 .. FdLimit - 1
Nil == 0   \* the NULL pointer between streams, which are named by their slot

PipeFd(w) == 3 + 2 * w            \* the master's end, pipes[w].pipe[0]
OwnEnd(w) == 4 + 2 * w            \* the worker's end, pipes[w].pipe[1]
PipeFds == {PipeFd(w) : w \in Worker}
ListenFd == 4                     \* the first number the master closed again

CloseSeq == MaxMsgs + 1           \* stands for EVENT_CLOSE, after every message

VARIABLES
  \* clients
  client,    \* "new", "open" or "closed", as the client sees it
  sent,      \* how many messages it has sent
  inbox,     \* its messages that the master has not received
  replies,   \* what it has been sent: the jobs the replies come from
  backlog,   \* connections waiting for accept()
  \* the master process
  owner,     \* what each of its descriptors is open on
  state,     \* stream_list[fd].state
  next,      \* stream_list[fd].next
  ds_stream, \* the head of the list of streams
  stream_count,
  phase,     \* "update", "handle", "hung" or "aborted"
  cur,       \* the stream that server_update is handling
  ready,     \* the descriptors select() has marked
  \* the pairs and the workers
  toWorker, toMaster,  \* the jobs waiting in each direction of each pair
  job,                 \* the job a worker has read and not yet sent on
  \* History variables: no action reads them.
  handled,   \* the messages of each connection in the order workers read them
  reopened,  \* the descriptors accepted since the last select()
  relinked   \* has a stream been put into the list while it was still in it?

clients == <<client, sent, inbox, backlog>>
streams == <<state, next, ds_stream, stream_count>>
loop == <<phase, cur, ready>>
pairs == <<toWorker, toMaster, job, handled>>
vars == <<clients, replies, owner, streams, loop, pairs, reopened, relinked>>

NoJob == [fd |-> 0, conn |-> 0, seq |-> 0]
Jobs == [fd : Fd, conn : Conn, seq : 1 .. CloseSeq]
-----------------------------------------------------------------------------
(* The list of streams *)

\* What no step along the list leads out of.
Onward(T) == \A f \in T \ {Nil} : next[f] \in T
Listed == LET whole == {T \in SUBSET (Fd \cup {Nil}) : ds_stream \in T /\ Onward(T)}
          IN  {f \in Fd : \A T \in whole : f \in T}
Endless == \E T \in SUBSET Fd : ds_stream \in T /\ Onward(T)

AdvanceBlindly ==   \* mutant: the end of the list is not seen
  /\ cur' = next[cur]
  /\ UNCHANGED <<phase, ready>>

AdvanceToNew ==   \* mutant: a new stream that has a mark is handled in the same pass
  /\ cur' = IF ds_stream \in reopened \cap ready THEN ds_stream ELSE next[cur]
  /\ phase' = IF cur' = Nil THEN "update" ELSE "handle"
  /\ UNCHANGED ready

\* s = s->next; at the end of the list server_update returns
Advance ==
  /\ cur' = next[cur]
  /\ phase' = IF next[cur] = Nil THEN "update" ELSE "handle"
  /\ UNCHANGED ready

\* stream_new: the slot of fd goes to the front of the list.
StreamNew(fd) ==
  /\ next' = [next EXCEPT ![fd] = ds_stream]
  /\ ds_stream' = fd
  /\ stream_count' = stream_count + 1
  /\ relinked' = (relinked \/ fd \in Listed)
-----------------------------------------------------------------------------
(* server_init and server_listen: the three pipes, then the listener *)
Init ==
  /\ client = [c \in Conn |-> "new"]
  /\ sent = [c \in Conn |-> 0]
  /\ inbox = [c \in Conn |-> <<>>]
  /\ replies = [c \in Conn |-> <<>>]
  /\ backlog = <<>>
  /\ owner = [f \in Fd |-> IF f = ListenFd THEN "listener"
                           ELSE IF f \in PipeFds THEN "pipe" ELSE "free"]
  /\ state = [f \in Fd |-> IF f = ListenFd THEN "LISTENING"
                           ELSE IF f \in PipeFds THEN "PIPERECV" ELSE "CLOSED"]
  /\ next = [f \in Fd |-> IF f = ListenFd THEN PipeFd(NumWorkers - 1)
                          ELSE IF f \in PipeFds \ {PipeFd(0)} THEN f - 2 ELSE Nil]
  /\ ds_stream = ListenFd
  /\ stream_count = NumWorkers + 1
  /\ phase = "update" /\ cur = Nil /\ ready = {}
  /\ toWorker = [w \in Worker |-> <<>>]
  /\ toMaster = [w \in Worker |-> <<>>]
  /\ job = [w \in Worker |-> NoJob]
  /\ handled = [c \in Conn |-> <<>>]
  /\ reopened = {}
  /\ relinked = FALSE
-----------------------------------------------------------------------------
(* The clients (client_test.c): the environment *)

Connect(c) ==
  /\ client[c] = "new"
  /\ client' = [client EXCEPT ![c] = "open"]
  /\ backlog' = Append(backlog, c)
  /\ UNCHANGED <<sent, inbox, replies, owner, streams, loop, pairs, reopened,
                 relinked>>

ClientSend(c) ==
  /\ client[c] = "open" /\ sent[c] < MaxMsgs
  /\ sent' = [sent EXCEPT ![c] = @ + 1]
  /\ inbox' = [inbox EXCEPT ![c] = Append(@, sent[c] + 1)]
  /\ UNCHANGED <<client, backlog, replies, owner, streams, loop, pairs, reopened,
                 relinked>>

ClientClose(c) ==
  /\ client[c] = "open"
  /\ client' = [client EXCEPT ![c] = "closed"]
  /\ UNCHANGED <<sent, inbox, backlog, replies, owner, streams, loop, pairs,
                 reopened, relinked>>
-----------------------------------------------------------------------------
(* server_update *)

Readable(f) ==
  CASE owner[f] = "listener" -> backlog # <<>>
    [] owner[f] = "pipe" -> toMaster[(f - 3) \div 2] # <<>>
    [] owner[f] \in Conn -> inbox[owner[f]] # <<>> \/ client[owner[f]] = "closed"
    [] OTHER -> FALSE

KeepsCount == stream_count   \* mutant: stream_destroy forgets the count
CountLess == stream_count - 1

\* destory_closed_stream, one stream_destroy after another
Destroy(f) ==
  /\ phase = "update" /\ state[f] = "CLOSED"
  /\ f \in Listed /\ ~ Endless
  /\ next' = [g \in Fd |-> IF g = f THEN Nil
                           ELSE IF next[g] = f THEN next[f] ELSE next[g]]
  /\ ds_stream' = IF ds_stream = f THEN next[f] ELSE ds_stream
  /\ stream_count' = CountLess
  /\ UNCHANGED <<clients, replies, owner, state, loop, pairs, reopened, relinked>>

\* select() waits for one of the streams, or for update_timeout, which changes nothing.
Select ==
  /\ phase = "update"
  /\ \A f \in Listed : state[f] # "CLOSED"
  /\ ready' = {f \in Listed : Readable(f)}
  /\ ready' # {} /\ ~ Endless
  /\ cur' = ds_stream
  /\ phase' = "handle"
  /\ reopened' = {}
  /\ UNCHANGED <<clients, replies, owner, streams, pairs, relinked>>

\* The list has become a ring: the while loop over it never ends.
Hang ==
  /\ phase = "update" /\ Endless
  /\ phase' = "hung"
  /\ UNCHANGED <<clients, replies, owner, streams, cur, ready, pairs, reopened,
                 relinked>>

\* The stream the loop is at has a mark of select(), or is passed over.
Handles(what) == phase = "handle" /\ state[cur] = what /\ cur \in ready

Skip ==
  /\ phase = "handle" /\ ~ (state[cur] # "CLOSED" /\ cur \in ready)
  /\ Advance
  /\ UNCHANGED <<clients, replies, owner, streams, pairs, reopened, relinked>>

FreeFds == {f \in Fd : owner[f] = "free"}

\* stream_accept_connection, one accept() after another
Accept ==
  /\ Handles("LISTENING")
  /\ backlog # <<>>
  /\ \E fd \in FreeFds :
         /\ \A f \in FreeFds : fd <= f
         /\ owner' = [owner EXCEPT ![fd] = Head(backlog)]
         /\ state' = [state EXCEPT ![fd] = "CONNECTED"]
         /\ StreamNew(fd)
         /\ reopened' = reopened \cup {fd}
  /\ backlog' = Tail(backlog)
  /\ UNCHANGED <<client, sent, inbox, replies, loop, pairs>>

\* accept() fails, and not with EWOULDBLOCK: INVALID_SOCKET reaches the assert
\* of stream_new.
AcceptFails ==
  /\ Handles("LISTENING")
  /\ backlog # <<>> /\ FreeFds = {}
  /\ phase' = "aborted"
  /\ UNCHANGED <<clients, replies, owner, streams, cur, ready, pairs, reopened,
                 relinked>>

\* EWOULDBLOCK: no more waiting sockets
AcceptDone ==
  /\ Handles("LISTENING") /\ backlog = <<>>
  /\ Advance
  /\ UNCHANGED <<clients, replies, owner, streams, pairs, reopened, relinked>>

\* process_pool_dispatch: a job that finds the pair full is logged and dropped.
LeastLoaded(fd) ==   \* mutant: the worker with the shortest queue
  CHOOSE w \in Worker : \A v \in Worker : Len(toWorker[w]) <= Len(toWorker[v])
WorkerOf(fd) == fd % NumWorkers

Dispatch(fd, seq) ==
  LET w == WorkerOf(fd)
      j == [fd |-> fd, conn |-> owner[fd], seq |-> seq]
  IN  toWorker' = IF Len(toWorker[w]) < PipeCap
                  THEN [toWorker EXCEPT ![w] = Append(@, j)] ELSE toWorker

Receiving == Handles("CONNECTED")

\* stream_received_data: one recv() after another
Receive ==
  /\ Receiving
  /\ LET c == owner[cur]
     IN  /\ inbox[c] # <<>>
         /\ Dispatch(cur, Head(inbox[c]))
         /\ inbox' = [inbox EXCEPT ![c] = Tail(@)]
  /\ UNCHANGED <<client, sent, backlog, replies, owner, streams, loop, toMaster,
                 job, handled, reopened, relinked>>

\* recv() returns 0: EVENT_CLOSE for the worker, then stream_close
KeepsOpen(fd) == owner   \* mutant: stream_close does not close the socket
Released(fd) == [owner EXCEPT ![fd] = "free"]

ReceiveClose ==
  /\ Receiving
  /\ inbox[owner[cur]] = <<>> /\ client[owner[cur]] = "closed"
  /\ Dispatch(cur, CloseSeq)
  /\ state' = [state EXCEPT ![cur] = "CLOSED"]
  /\ owner' = Released(cur)
  /\ Advance
  /\ UNCHANGED <<clients, replies, next, ds_stream, stream_count, toMaster, job,
                 handled, reopened, relinked>>

\* EWOULDBLOCK: no more data
ReceiveDone ==
  /\ Receiving
  /\ inbox[owner[cur]] = <<>> /\ client[owner[cur]] = "open"
  /\ Advance
  /\ UNCHANGED <<clients, replies, owner, streams, pairs, reopened, relinked>>

\* stream_send_data: one job, sent to whatever client has its descriptor now
SendData ==
  /\ Handles("PIPERECV")
  /\ LET w == (cur - 3) \div 2
         j == Head(toMaster[w])
         c == owner[j.fd]
     IN  /\ replies' = IF c \in Conn /\ client[c] = "open"
                       THEN [replies EXCEPT ![c] = Append(@, j)] ELSE replies
         /\ toMaster' = [toMaster EXCEPT ![w] = Tail(@)]
  /\ Advance
  /\ UNCHANGED <<clients, owner, streams, toWorker, job, handled, reopened,
                 relinked>>

Master == \/ \E f \in Fd : Destroy(f)
          \/ Select \/ Hang \/ Skip
          \/ Accept \/ AcceptFails \/ AcceptDone
          \/ Receive \/ ReceiveClose \/ ReceiveDone
          \/ SendData
-----------------------------------------------------------------------------
(* worker_process *)

WorkerRead(w) ==
  /\ job[w] = NoJob /\ toWorker[w] # <<>>
  /\ LET j == Head(toWorker[w])
     IN  /\ job' = [job EXCEPT ![w] = j]
         /\ handled' = [handled EXCEPT ![j.conn] = Append(@, j.seq)]
  /\ toWorker' = [toWorker EXCEPT ![w] = Tail(@)]
  /\ UNCHANGED <<clients, replies, owner, streams, loop, toMaster, reopened,
                 relinked>>

\* The worker's own descriptors: its end of its pair, and both ends of the pairs
\* after it, which the manager still held when it forked the worker.  fd is
\* never the other end of one of those: they are the master's PipeFds.
\* spawn also closes the numbers in the workers' fields that are not set yet, which hold
\* none of these here.
Holds(w, fd) == \E v \in Worker : v >= w /\ fd = OwnEnd(v)

\* send(jobs.fd, ...): the number is the master's, the table is the worker's.
WorkerSend(w) ==
  /\ job[w] # NoJob
  /\ \/ /\ Holds(w, job[w].fd)
        /\ LET v == (job[w].fd - 4) \div 2
           IN  /\ Len(toMaster[v]) < PipeCap
               /\ toMaster' = [toMaster EXCEPT ![v] = Append(@, job[w])]
     \/ /\ ~ Holds(w, job[w].fd)   \* EBADF, logged
        /\ UNCHANGED toMaster
  /\ job' = [job EXCEPT ![w] = NoJob]
  /\ UNCHANGED <<clients, replies, owner, streams, loop, toWorker, handled,
                 reopened, relinked>>
-----------------------------------------------------------------------------
Next == \/ \E c \in Conn : Connect(c) \/ ClientSend(c) \/ ClientClose(c)
        \/ Master
        \/ \E w \in Worker : WorkerRead(w) \/ WorkerSend(w)

Spec == Init /\ [][Next]_vars

\* The kernel runs the master and the workers; the clients do as they like.
FairSpec == /\ Spec
            /\ WF_vars(Master)
            /\ \A w \in Worker : WF_vars(WorkerRead(w)) /\ WF_vars(WorkerSend(w))
-----------------------------------------------------------------------------
TypeOK ==
  /\ client \in [Conn -> {"new", "open", "closed"}]
  /\ sent \in [Conn -> 0 .. MaxMsgs]
  /\ inbox \in [Conn -> Seq(1 .. MaxMsgs)]
  /\ replies \in [Conn -> Seq(Jobs)]
  /\ handled \in [Conn -> Seq(1 .. CloseSeq)]
  /\ backlog \in Seq(Conn)
  /\ owner \in [Fd -> Conn \cup {"listener", "pipe", "free"}]
  /\ state \in [Fd -> {"CLOSED", "CONNECTED", "LISTENING", "PIPERECV"}]
  /\ next \in [Fd -> Fd \cup {Nil}]
  /\ ds_stream \in Fd \cup {Nil}
  /\ stream_count \in Int
  /\ phase \in {"update", "handle", "hung", "aborted"}
  /\ cur \in Fd \cup {Nil}
  /\ phase = "handle" => cur \in Fd
  /\ toWorker \in [Worker -> Seq(Jobs)] /\ toMaster \in [Worker -> Seq(Jobs)]
  /\ job \in [Worker -> Jobs \cup {NoJob}]
  /\ \A w \in Worker : Len(toWorker[w]) <= PipeCap /\ Len(toMaster[w]) <= PipeCap

\* server.c:145-186: the client sockets that are open are exactly those of the
\* CONNECTED streams, and no connection has two.
DescriptorsTracked ==
  /\ \A f \in Fd : owner[f] \in Conn <=> state[f] = "CONNECTED"
  /\ \A f, g \in Fd : owner[f] = owner[g] /\ owner[f] \in Conn => f = g

\* server.c:289, process.c:289: what a connection sends reaches the workers in the
\* order it was sent, with its EVENT_CLOSE last, although jobs may be dropped and
\* the descriptor may already be another client's.
JobsInOrder ==
  \A c \in Conn : \A i, j \in DOMAIN handled[c] :
    i < j => handled[c][i] < handled[c][j]

\* server.c:86-87,336-342: a stream accepted in the middle of a pass is not visited
\* in that pass, so the mark that select() left for the former owner of its
\* descriptor is never taken for its own.
MarkIsOwn == Receiving => cur \notin reopened

\* server.c:85-88,118-123: as long as no stream was linked a second time the list
\* ends, stream_count is its length, and it holds every stream that is open.
ListSound ==
  ~ relinked =>
    /\ ~ Endless
    /\ LET whole == Listed
       IN  /\ stream_count = Cardinality(whole)
           /\ {f \in Fd : state[f] # "CLOSED"} \subseteq whole

Stopped == phase \in {"hung", "aborted"}

\* server.c:112-165: a client that goes away is noticed: its descriptor is given
\* back, unless the master has stopped.
CloseNoticed ==
  \A c \in Conn : client[c] = "closed" ~>
                    \/ Stopped
                    \/ c \notin {owner[f] : f \in Fd} \cup ToSet(backlog)

Answered(c) == \E i \in DOMAIN replies[c] : replies[c][i].conn = c

\* client_test.c:51-56: a client that sends a message and waits gets an answer,
\* unless the master has stopped.
ClientAnswered ==
  \A c \in Conn : sent[c] > 0 ~> Answered(c) \/ client[c] = "closed" \/ Stopped
=============================================================================
