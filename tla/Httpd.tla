------------------------------- MODULE Httpd --------------------------------
(***************************************************************************)
(* httpd.c without SSL, as built for Unix: one process that multiplexes    *)
(* its connections with select().  A connection has a remote end, the      *)
(* client's socket, and a local end, which is the file it asked for or the *)
(* two pipes of a CGI script; what is read at one end is written to the    *)
(* other through a buffer each way.                                        *)
(*                                                                         *)
(* Descriptors are numbers, given out lowest first.  The sets that select  *)
(* has filled are used, by number, through the whole pass over the         *)
(* connections, while the pass closes descriptors and opens others.        *)
(*                                                                         *)
(* Data is counted in units, BufSize of which fill a buffer.               *)
(***************************************************************************)
EXTENDS Integers, Sequences, FiniteSets, FiniteSetsExt, SequencesExt

CONSTANTS Conn,      \* the connections clients may open
          Request,   \* what a client may send: see Requests
          Fd,        \* the descriptors the process may open besides lsn
          BufSize,   \* sizeof(io->buf)
          FileLen,   \* units in a file
          CgiHead,   \* units of a script's headers
          MaxOut,    \* bound: units a script writes
          PipeSize   \* units a pipe can hold

\* kind: what the URL names, after handle() has looked at it; head and body: the
\* units of the request line with the headers, and of Content-Length; total: how
\* many the client sends, the next request of an eager client included.
Requests == [kind : {"file", "cgi", "error"}, head : Nat \ {0}, body : Nat, total : Nat]

ASSUME HttpdAssumption ==
  /\ IsFiniteSet(Conn) /\ IsFiniteSet(Fd) /\ Fd \subseteq Nat \ {0}
  /\ Request \subseteq Requests
  /\ BufSize \in Nat \ {0} /\ PipeSize \in Nat \ {0} /\ CgiHead \in Nat \ {0}
  /\ FileLen \in Nat /\ MaxOut \in Nat

Nil == 0   \* the -1 of a descriptor that is not open

VARIABLES
  \* clients
  client,    \* "new", "waiting" for accept(), "open" or "closed"
  ask,       \* the request of each client
  sent,      \* units it has sent
  status,    \* status lines it has been sent
  \* CGI scripts
  script,    \* "none", "running" or "exited"
  made,      \* units the script has written
  outq, inq, \* units in the pipe from it, and to it
  fed,       \* units it has been given
  \* the server
  fds,       \* what each descriptor is open on
  conn,      \* struct conn
  conns,     \* the list of connections
  overdue,   \* the connections whose expire is over when select() returns
  rset, wset,
  at,        \* where main() is
  todo       \* the connections of this pass that are left

clients == <<client, ask, sent>>
scripts == <<script, made>>
pipes == <<outq, inq, fed>>
vars == <<clients, status, scripts, pipes, fds, conn, conns, overdue, rset, wset,
          at, todo>>

NewConn == [rfd |-> Nil, rread |-> 0, rwritten |-> 0,
            lr |-> Nil, lw |-> Nil, lread |-> 0, lwritten |-> 0,
            gotrequest |-> FALSE, gotreply |-> FALSE, cgimode |-> FALSE,
            ntotal |-> 0, nexpected |-> 0]

Free == <<>>
FreeFds == {f \in Fd : fds[f] = Free}
cur == Head(todo)
k == conn[cur]      \* the connection of this step
-----------------------------------------------------------------------------
Init ==
  /\ client = [c \in Conn |-> "new"]
  /\ ask \in [Conn -> Request]
  /\ sent = [c \in Conn |-> 0]
  /\ status = [c \in Conn |-> 0]
  /\ script = [c \in Conn |-> "none"]
  /\ made = [c \in Conn |-> 0]
  /\ outq = [c \in Conn |-> 0] /\ inq = [c \in Conn |-> 0]
  /\ fed = [c \in Conn |-> 0]
  /\ fds = [f \in Fd |-> Free]
  /\ conn = [c \in Conn |-> NewConn]
  /\ conns = <<>>
  /\ overdue = {} /\ rset = {} /\ wset = {}
  /\ at = "select" /\ todo = <<>>

server == <<fds, conn, conns, overdue, rset, wset, at, todo>>
-----------------------------------------------------------------------------
(* The clients and the scripts: the environment.  What they do once the server  *)
(* has disconnected them makes no difference to it.                             *)

Connect(c) ==
  /\ client[c] = "new"
  /\ client' = [client EXCEPT ![c] = "waiting"]
  /\ UNCHANGED <<ask, sent, status, scripts, pipes, server>>

ClientSend(c) ==
  /\ client[c] = "open" /\ c \in ToSet(conns) /\ sent[c] < ask[c].total
  /\ sent' = [sent EXCEPT ![c] = @ + 1]
  /\ UNCHANGED <<client, ask, status, scripts, pipes, server>>

ClientClose(c) ==
  /\ client[c] = "open" /\ c \in ToSet(conns)
  /\ client' = [client EXCEPT ![c] = "closed"]
  /\ UNCHANGED <<ask, sent, status, scripts, pipes, server>>

Runs(c) == script[c] = "running" /\ conn[c].lr # Nil

ScriptRead(c) ==
  /\ Runs(c) /\ inq[c] > 0
  /\ inq' = [inq EXCEPT ![c] = @ - 1]
  /\ UNCHANGED <<clients, status, scripts, outq, fed, server>>

ScriptWrite(c) ==
  /\ Runs(c) /\ outq[c] < PipeSize /\ made[c] < MaxOut
  /\ outq' = [outq EXCEPT ![c] = @ + 1]
  /\ made' = [made EXCEPT ![c] = @ + 1]
  /\ UNCHANGED <<clients, status, script, inq, fed, server>>

ScriptExit(c) ==
  /\ Runs(c)
  /\ script' = [script EXCEPT ![c] = "exited"]
  /\ UNCHANGED <<clients, status, made, pipes, server>>

\* Nothing has been heard of c for ttl seconds.  main() takes the time when select()
\* returns, so that a time that is over during a pass counts from the next one.
TimePasses(c) ==
  /\ at = "select" /\ c \in ToSet(conns) \ overdue
  /\ overdue' = overdue \cup {c}
  /\ UNCHANGED <<clients, status, scripts, pipes, fds, conn, conns, rset, wset, at,
                 todo>>
-----------------------------------------------------------------------------
(* select() and Accept() *)

Arrived(c) == sent[c] - conn[c].ntotal   \* units in the socket of c

ReadReady(c) ==
  LET d == conn[c]
  IN  {f \in {d.rfd} \ {Nil} : d.rread < BufSize /\ (Arrived(c) > 0 \/ client[c] = "closed")}
        \cup
      {f \in {d.lr} \ {Nil} : d.lread < BufSize
                                /\ (script[c] = "running" => outq[c] > 0)}

\* A socket is writable as its client likes.
WriteReady(c) ==
  LET d == conn[c]
  IN  [sock |-> {f \in {d.rfd} \ {Nil} : d.lwritten < d.lread
                                           /\ (d.cgimode => d.gotreply)},
       pipe |-> {f \in {d.lw} \ {Nil} : d.rwritten < d.rread
                                          /\ (script[c] = "running" => inq[c] < PipeSize)}]

\* main() asks for d in this order; it gets to where the answer is yes.
Stages == <<"remote", "local", "out", "in", "check">>
First(i, d, rs, ws) ==
  LET asked == [remote |-> d.rfd \in rs, local |-> d.lr \in rs,
                out |-> d.rfd \in ws, in |-> d.lw \in ws, check |-> TRUE]
  IN  Stages[Min({j \in i .. 5 : asked[Stages[j]]})]

Waiting == {c \in Conn : client[c] = "waiting"}

\* The connection gets the lowest number that is free, and comes last in the list.
Accept(c) ==
  /\ client' = [client EXCEPT ![c] = "open"]
  /\ fds' = [fds EXCEPT ![Min(FreeFds)] = <<c, "sock">>]
  /\ conn' = [conn EXCEPT ![c].rfd = Min(FreeFds)]
  /\ todo' = Append(conns, c)

Select ==
  /\ at = "select"
  /\ \E socks \in SUBSET UNION {WriteReady(c).sock : c \in ToSet(conns)} :
       /\ rset' = UNION {ReadReady(c) : c \in ToSet(conns)}
       /\ wset' = socks \cup UNION {WriteReady(c).pipe : c \in ToSet(conns)}
       /\ rset' \cup wset' # {} \/ Waiting # {}
  /\ IF Waiting = {} \/ FreeFds = {}   \* accept() may fail: nothing is done
     THEN todo' = conns /\ UNCHANGED <<client, fds, conn>>
     ELSE \E c \in Waiting : Accept(c)
  /\ conns' = todo'
  /\ at' = IF todo' = <<>> THEN "expire"
           ELSE First(1, conn'[Head(todo')], rset', wset')
  /\ UNCHANGED <<ask, sent, status, scripts, pipes, overdue>>
-----------------------------------------------------------------------------
(* The parts of a pass over one connection.  d is the connection as a handler   *)
(* has changed it so far; numbers are closed and opened in fds.                 *)

Held(d) == {d.rfd, d.lr, d.lw} \ {Nil}

\* The step ends with d, its files closed and opened.
Becomes(d, closed, opened) ==
  /\ conn' = [conn EXCEPT ![cur] = d]
  /\ fds' = [f \in Fd |-> IF f \in DOMAIN opened THEN opened[f]
                          ELSE IF f \in closed THEN Free ELSE fds[f]]

\* closeiobuf(&c->remote), closeiobuf(&c->local), closeconn(c)
CloseRemote(d) == [d EXCEPT !.rfd = Nil]
KeepsNumbers(d) == [d EXCEPT !.lw = Nil]   \* mutant: fdread is not set to -1
CloseLocal(d) == [d EXCEPT !.lr = Nil, !.lw = Nil]
Closed(d) == CloseLocal(CloseRemote(d))

\* ADDWRITE(&c->remote, &c->local) and ADDWRITE(&c->local, &c->remote)
ToScript(d) == IF d.rwritten < d.rread THEN {d.lw} \ {Nil} ELSE {}
ToClient(d) == IF (d.cgimode => d.gotreply) /\ d.lwritten < d.lread
               THEN {d.rfd} \ {Nil} ELSE {}

SendsStatus == status' = [status EXCEPT ![cur] = @ + 1]

\* senderr(c, ...): it also closes the connection.
SendErr(d, leaked) ==
  /\ SendsStatus
  /\ Becomes(Closed(d), Held(d), [f \in leaked |-> <<cur, "leaked">>])
  /\ UNCHANGED script
-----------------------------------------------------------------------------
(* handle, of a request that has arrived *)

\* open and sendheaders
ServeFile(d) ==
  IF FreeFds = {} THEN SendErr(d, {})
  ELSE LET f == Min(FreeFds)
       IN  /\ SendsStatus
           /\ Becomes([d EXCEPT !.lr = f], {}, [g \in {f} |-> <<cur, "file">>])
           /\ UNCHANGED script

\* The n descriptors that are opened next.
Lowest(n) == {S \in SUBSET FreeFds :
                Cardinality(S) = n /\ \A f \in S, g \in FreeFds \ S : f < g}

\* spawncgi and redirect: two pipes take four descriptors, of which the server
\* keeps the first and the last.  When the second pipe or fork() fails, those it
\* has already are not closed.
SpawnCgi(d0) ==
  LET d == [d0 EXCEPT !.cgimode = TRUE]
  IN  \/ /\ \E S \in Lowest(4) : \E r, w \in S :
              /\ \A f \in S : r <= f /\ f <= w
              /\ Becomes([d EXCEPT !.lr = r, !.lw = w], {},
                         [f \in {r, w} |-> <<cur, IF f = r THEN "out" ELSE "in">>])
         /\ script' = [script EXCEPT ![cur] = "running"]
         /\ UNCHANGED status
      \/ \E S \in Lowest(4) : SendErr(d, S)   \* fork()
      \/ Lowest(4) = {} /\ \E S \in Lowest(2) : SendErr(d, S)
      \/ Lowest(2) = {} /\ SendErr(d, {})

\* The body starts where the headers end.
FromStart(r) == 0   \* mutant: nwritten is left alone
BodyStart(r) == r.head

\* htparse finds the empty line that ends the headers of r in the buffer of d; it
\* returns -1 when the bytes that are there end before it, whatever its state.
Parsed(d, r) == d.rread >= r.head

Handle(d) ==
  LET r == ask[cur]
      e == [d EXCEPT !.gotrequest = TRUE, !.rwritten = BodyStart(r),
                     !.nexpected = r.head + r.body]
  IN  CASE ~ Parsed(d, r) -> Becomes(d, {}, <<>>) /\ UNCHANGED <<status, script>>
        [] Parsed(d, r) /\ r.kind = "error" -> SendErr(e, {})
        [] Parsed(d, r) /\ r.kind = "file"  -> ServeFile(e)
        [] Parsed(d, r) /\ r.kind = "cgi"   -> SpawnCgi(e)
-----------------------------------------------------------------------------
(* The pass *)

\* The step is over, and the next is asked for as it leaves things.
OnTo(i, marked) ==
  /\ wset' = wset \cup marked
  /\ at' = First(i, conn'[cur], rset, wset')
  /\ UNCHANGED <<conns, todo, rset>>

Heard == overdue' = overdue \ {cur}    \* c->expire = now + ttl

\* pull(&c->remote): recv() takes what has arrived and fits.
PullRemote ==
  /\ at = "remote" /\ Arrived(cur) > 0
  /\ LET n == Min({Arrived(cur), BufSize - k.rread})
         d == [k EXCEPT !.rread = @ + n, !.ntotal = @ + n]
     IN  IF k.gotrequest
         THEN Becomes(d, {}, <<>>) /\ UNCHANGED <<status, script>>
         ELSE Handle(d)
  /\ Heard /\ OnTo(2, ToScript(conn'[cur]))
  /\ UNCHANGED <<clients, made, pipes>>

\* recv() returns 0.
RemoteEnds ==
  /\ at = "remote" /\ Arrived(cur) = 0
  /\ Becomes(CloseRemote(k), {k.rfd}, <<>>)
  /\ Heard /\ OnTo(2, {})
  /\ UNCHANGED <<clients, status, scripts, pipes>>

\* What the local end has: a file is read whole; a pipe that is empty while the
\* script runs has nothing, and read() waits.
Left == IF k.cgimode THEN outq[cur] ELSE FileLen - made[cur]

\* reply(c), after pull(&c->local): the first line of the answer of a script whose
\* headers are complete.
Reply(d, closed) ==
  IF d.cgimode /\ ~ d.gotreply /\ d.lread >= CgiHead
  THEN Becomes([d EXCEPT !.gotreply = TRUE], closed, <<>>) /\ SendsStatus
  ELSE Becomes(d, closed, <<>>) /\ UNCHANGED status

PullLocal ==
  /\ at = "local" /\ Left > 0
  /\ LET n == Min({Left, BufSize - k.lread})
     IN  /\ Reply([k EXCEPT !.lread = @ + n], {})
         /\ IF k.cgimode
            THEN outq' = [outq EXCEPT ![cur] = @ - n] /\ UNCHANGED made
            ELSE made' = [made EXCEPT ![cur] = @ + n] /\ UNCHANGED outq
  /\ Heard /\ OnTo(3, ToClient(conn'[cur]))
  /\ UNCHANGED <<clients, script, inq, fed>>

\* read() returns 0: the file is over, or the script has gone.
LocalEnds ==
  /\ at = "local" /\ Left = 0
  /\ k.cgimode => script[cur] = "exited"
  /\ Reply(CloseLocal(k), {k.lr, k.lw})
  /\ Heard /\ OnTo(3, ToClient(conn'[cur]))
  /\ UNCHANGED <<clients, scripts, pipes>>

\* What push leaves in a buffer from which n more units have gone.
Pushed(read, written, n) ==
  IF written + n = read THEN <<0, 0>> ELSE <<read, written + n>>

\* push(&c->local, &c->remote): as much as the socket takes, which is nothing when
\* the mark came from ADDWRITE.  The client may have gone.
PushOut ==
  /\ at = "out"
  /\ \/ \E n \in 0 .. k.lread - k.lwritten :
          LET b == Pushed(k.lread, k.lwritten, n)
          IN  Becomes([k EXCEPT !.lread = b[1], !.lwritten = b[2]], {}, <<>>)
     \/ client[cur] = "closed" /\ Becomes(CloseRemote(k), {k.rfd}, <<>>)
  /\ OnTo(4, {})
  /\ UNCHANGED <<clients, status, scripts, pipes, overdue>>

Pending == k.rread - k.rwritten

\* The script has been given what the request announced.
AllGiven(d) == d.ntotal = d.nexpected /\ d.rread = d.rwritten

\* push(&c->remote, &c->local): write() to a pipe waits until all is in.
PushIn ==
  /\ at = "in" /\ Pending > 0
  /\ script[cur] = "running" /\ inq[cur] + Pending <= PipeSize
  /\ LET b == Pushed(k.rread, k.rwritten, Pending)
         d == [k EXCEPT !.rread = b[1], !.rwritten = b[2]]
     IN  IF AllGiven(d) THEN Becomes([d EXCEPT !.lw = Nil], {k.lw}, <<>>)
                        ELSE Becomes(d, {}, <<>>)
  /\ inq' = [inq EXCEPT ![cur] = @ + Pending]
  /\ fed' = [fed EXCEPT ![cur] = @ + Pending]
  /\ OnTo(5, {})
  /\ UNCHANGED <<clients, status, scripts, outq, overdue>>

\* EPIPE
PushInFails ==
  /\ at = "in" /\ Pending > 0 /\ script[cur] = "exited"
  /\ Becomes(CloseLocal(k), {k.lr, k.lw}, <<>>)
  /\ OnTo(5, {})
  /\ UNCHANGED <<clients, status, scripts, pipes, overdue>>

\* assert(buflen > 0)
PushInAborts ==
  /\ at = "in" /\ Pending <= 0
  /\ at' = "aborted"
  /\ UNCHANGED <<clients, status, scripts, pipes, fds, conn, conns, overdue, rset, wset,
                 todo>>
-----------------------------------------------------------------------------
(* disconnect *)

\* A 500 is owed to the client.
AnyOutput(d) == d.cgimode /\ d.lread > 0   \* mutant: gotreply is not looked at
Premature(d) == d.cgimode /\ ~ d.gotreply /\ d.lread > 0

\* What the pipes of c hold is lost.
Disconnect(c) ==
  /\ status' = IF Premature(conn[c]) /\ conn[c].rfd # Nil
               THEN [status EXCEPT ![c] = @ + 1] ELSE status
  /\ fds' = [f \in Fd |-> IF f \in Held(conn[c]) THEN Free ELSE fds[f]]
  /\ conn' = [conn EXCEPT ![c] = NewConn]
  /\ \E i \in DOMAIN conns : conns[i] = c /\ conns' = RemoveAt(conns, i)
  /\ overdue' = overdue \ {c}
  /\ made' = [made EXCEPT ![c] = 0]
  /\ outq' = [outq EXCEPT ![c] = 0] /\ inq' = [inq EXCEPT ![c] = 0]
  /\ fed' = [fed EXCEPT ![c] = 0]

LocalOver(d) == d.gotrequest /\ d.lr = Nil   \* mutant: the remote end is forgotten
Over(d) == d.rfd = Nil \/ (d.gotrequest /\ d.lr = Nil)

Check ==
  /\ at = "check"
  /\ IF Over(k) THEN Disconnect(cur)
     ELSE UNCHANGED <<status, fds, conn, conns, overdue, made, pipes>>
  /\ todo' = Tail(todo)
  /\ at' = IF todo' = <<>> THEN "expire" ELSE First(1, conn[Head(todo')], rset, wset)
  /\ UNCHANGED <<clients, script, rset, wset>>

\* "Handle timed out connections", one after another
Expire(c) ==
  /\ at = "expire" /\ c \in overdue
  /\ Disconnect(c)
  /\ UNCHANGED <<clients, script, rset, wset, at, todo>>

Again ==
  /\ at = "expire" /\ overdue = {}
  /\ at' = "select"
  /\ rset' = {} /\ wset' = {}
  /\ UNCHANGED <<clients, status, scripts, pipes, fds, conn, conns, overdue, todo>>

Visit == \/ PullRemote \/ RemoteEnds
         \/ PullLocal \/ LocalEnds
         \/ PushOut
         \/ PushIn \/ PushInFails \/ PushInAborts

Next == \/ \E c \in Conn : \/ Connect(c) \/ ClientSend(c) \/ ClientClose(c)
                           \/ ScriptRead(c) \/ ScriptWrite(c) \/ ScriptExit(c)
                           \/ TimePasses(c) \/ Expire(c)
        \/ Select \/ Visit \/ Check \/ Again

Spec == Init /\ [][Next]_vars
-----------------------------------------------------------------------------
\* httpd.c:811-843,1759-1776: a descriptor a connection holds is open, and on its
\* own socket, file or pipe: never on what has since been opened for another.
OwnDescriptors ==
  \A c \in ToSet(conns) : LET d == conn[c]
    IN  /\ d.rfd # Nil => fds[d.rfd] = <<c, "sock">>
        /\ d.lr # Nil => fds[d.lr] = <<c, IF d.cgimode THEN "out" ELSE "file">>
        /\ d.lw # Nil => fds[d.lw] = <<c, "in">>

\* httpd.c:1757,1553-1554: the asserts of the loop and of pull hold, whatever number
\* a mark was left for.
LoopAssertsHold ==
  /\ at = "select" => \A c \in ToSet(conns) : conn[c].rfd # Nil
  /\ at = "remote" => k.rread < BufSize
  /\ at = "local" => k.lread < BufSize

\* httpd.c:887-910,1126-1165,1615-1620: a client gets one status line, whichever of
\* sendheaders, reply and senderr it comes from.
OneStatus == \A c \in Conn : status[c] <= 1

\* httpd.c:1448-1450,1831-1838: a script is given the body and nothing of the
\* headers, and its input is closed early only after the whole body.
ScriptFed ==
  \A c \in ToSet(conns) : LET d == conn[c]
    IN  d.cgimode /\ d.lr # Nil =>
          /\ d.ntotal = ask[c].head + fed[c] + (d.rread - d.rwritten)
          /\ d.lw = Nil => fed[c] = ask[c].body

\* httpd.c:922: the assert of push holds.
PushHasData == at # "aborted"
=============================================================================
