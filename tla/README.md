# Dpst: models, checks and proofs

Dpst is a network dispatcher in C. A master process accepts clients and hands what
they send to worker processes that a manager keeps alive, over a handful of data
structures of its own (a lock-free queue, a ring buffer, growing descriptor sets, a TLV
packer). Beside it stand an HTTP server with its CGI scripts, the library those
scripts parse forms with, a template language for their pages, an account database
and a thread pool for Windows. This directory holds TLA+ models of that code, TLC
configurations that check them on small instances, and TLAPS proofs of the main results
for every instance.

    tlc -workers 2 -config LfqSafety.cfg MCLfq      # a run (all are in PROJECT.json)
    tlapm LfqProofs.tla                             # a proof

## 1. The parts of the system

| part | source | state | operations | talks to |
|---|---|---|---|---|
| master event loop | `server.c` | `stream_list[]` by descriptor, list `ds_stream`, `stream_count`, `select_set` | `stream_new/close/destroy`, `server_update` (select, accept, receive, forward) | process pool (jobs), `select.c`, `buffer.c` |
| process pool | `process.c/h` | pairs of sockets, pids, each worker's job | `process_pool_new/start/dispatch`, `worker_process` | the master (socket pairs), the kernel |
| manager | `process.c` | the table of pids and its copy, `n`, `ctx.reloading`, `ctx.whether_reload` | `manager_process`, `spawn`, the handler of SIGUSR1 | the workers (wait, fork, kill) |
| shared arena | `process.c`, `utils.c` | `ptr`, `ptr_offset`, `ptr_lock` | `set/get/unset` | nobody after start-up |
| lock-free queue | `lfq.c`, `atomic.h` | list of nodes, `head`, `tail`, `size` | `lfq_init/enq/deq/size/deinit` | thread pool |
| thread pool (Windows) | `thread_win.c/h` | per thread `stat`, `queue`, `event`; `status`, round robin `counter` | `thread_pool_new/dispatch/end`, `thread_worker` | lock-free queue |
| ring buffer | `buffer.c` | `data`, `rdi`, `wri` | `buf_write/read/clear` | streams |
| descriptor sets | `select.c` | `capacity`, `maxfd`, three arrays of `fd_set` | `select_zero/add/has` | master event loop |
| TLV packets | `tlv.c/h` | a packet | `tlv_pack`, `tlv_unpack` | - |
| accounts | `dao.c/h`, `schema.sqlite.sql` | tables member and friend; of each process a connection and its statements | `dao_login`, `dao_add_member`, ... | SQLite |
| HTTP server | `httpd.c` | connections with two I/O buffers, CGI children | `Accept`, `pull`, `push`, `handle`, `disconnect` | sockets, files, CGI |
| CGI library | `scripts/cgic.c` | the stream of the request, the list of form entries, temporary files, the saved environment | `main`, `cgiParse...`, `cgiForm...`, `cgiCookie...`, `cgiWrite/ReadEnvironment` | the HTTP server (its pipes), the script |
| variable lists | `scripts/ctemplate.c` | lists and loops with parent pointers | `TMPL_add_var/loop/varlist`, `TMPL_free_varlist` | the script |
| templates | `scripts/ctemplate.c` | scanner with one tag of lookahead, tree, output | `TMPL_write` | variable lists, files |
| helpers | `utils.c`, `pipe.c`, `vec.h`, `debug.h`, `platform.h` | - | sockets, mmap allocation, pipes, vector | all |
| generated | `IM.Instant.pb-c.c` | | | nobody |

### What is hard about them

* **Concurrency.** Threads race on `lfq_t` with compare-and-swap only. The master, the
  manager and the workers are processes that share socket pairs. Pool threads sleep
  on events that other threads set. A signal handler writes what the manager reads.
  Scripts of one server open one database.
* **Reuse.** The kernel gives out the lowest free descriptor, and the master and the HTTP
  server index everything by descriptor: what was read, marked or sent for one client
  may meet the next one. The database gives out numbers that rows elsewhere refer to.
* **Failure.** accept() without descriptors, a full socket pair, a signal between two
  steps, a worker that dies, a form that is cut, a file that cannot be opened, an
  allocation that fails half-way through a list, a process killed while it saves.
* **Boundaries.** A ring of `sz + 1` cells, descriptor sets grown in steps of
  `FD_SETSIZE`, an unsigned counter changed after the list it counts, a boundary
  that begins inside a false match of itself, an answer that fits exactly.

`PROJECT.json` lists every hazard at its line, with the properties that cover it or
the reason none does.

### What makes each part correct

* **Lock-free queue**: it is a FIFO queue whatever the interleaving; the pointer a thread
  read is still good when its CAS succeeds; every call returns.
* **Thread pool**: each job is run once, by its thread, in order, even when a wake-up
  is lost; the round robin is even.
* **Ring buffer**: what is read is what was written, in order, and a refused call
  changes nothing.
* **Master and workers**: open sockets and streams agree; a mark of select() is taken
  only by the descriptor it was made for; jobs keep their order; a client that goes is
  noticed; an answer reaches the client that asked.
* **Manager**: no place stays empty, and an undisturbed reload ends with every worker told.
* **Descriptor sets**: what is answered is what was added and is ready.
* **TLV**: unpacking undoes packing, and nothing is made of a packet that is too short.
* **Accounts**: a name is one account and sees its own friends; a connection closes
  unless one of the calls made on it failed or deleted a member.
* **HTTP server**: no connection touches a descriptor of another; one status line for
  each client; a script gets its body from the first byte and to the end; the asserts hold.
* **CGI library**: the form is what the client sent, or there is none; no temporary file
  is lost; what is restored is what was saved, but for what a failed call costs; answers
  agree with the form, however little room they get.
* **Variable lists**: they stay trees, each node with one owner, so that walks and frees
  end. **Templates**: the parser accepts what is well nested, and the output is what
  the template says.

## 2. Modules

| module | models | state and actions |
|---|---|---|
| `FifoQueue` | what `lfq.c` promises | a sequence; put at the end, take from the front, find empty |
| `Lfq`, `MCLfq` | `lfq.c`, `atomic.h` | the nodes, `head`, `tail`, `size`, and for each thread its place and its local variables. One action for each access to shared memory (`EnqLink` is a CAS, `EnqCount` the fetch-and-add); `Deinit...` once no other call runs |
| `Server`, `MCServer` | `server.c`, and dispatch and workers of `process.c` | `stream_list` and its links, the kernel's descriptor table, the marks of select(), both directions of each pair, each worker's job. `Destroy` (one stream_destroy of `destory_closed_stream`), `Select`, and while the loop goes down the list `Skip` or one action for each accept(), recv() or send() |
| `Manager` | `manager_process` of `process.c` | the two tables of pids, the variables `pid` and `n`, the flags of `ctx`, the processes. One action for each statement between which the handler (`Sigusr1`) or the end of a worker (`End`) may come |
| `ByteQueue` | what `buffer.c` promises | a bounded sequence of bytes |
| `RingBuffer` | `buffer.c` | `data`, `rdi`, `wri`; one action per function, with what it returns |
| `ThreadPool` | `thread_win.c` | for each thread `stat`, `event`, `queue` and its place; the dispatcher's place. One action per statement that touches what both sides use. `queue` is the sequence `FifoQueue` promises |
| `DescriptorSets` | `select.c` | `capacity`, `maxfd`, the bits of each set; one action per function, and select() itself |
| `Tlv` | `tlv.c` | a value, its packet, what a buffer of some size gives back |
| `Accounts` | `dao.c`, `schema.sqlite.sql` | the rows of tbl_member, the next number, of each process its connection and the statement it has kept. One action per `dao_` function; `dao_login`, which sends two statements, is two |
| `Httpd`, `MCHttpd` | `httpd.c` on Unix | descriptors with what each is open on, the connections with the counters of both buffers and their flags, the marks of select(), scripts and pipes. `Select` is the head of the loop with `Accept`; then one action for each of the questions the loop asks of a connection, with the handler it calls |
| `CgiForm` | the computing part of `cgic.c` | operators: URL decoding, entries, answers, cookies, the stream with its putback |
| `Cgic`, `MCCgic` | `cgic.c` as a program | the stream, the match of the boundary, the part being read, the list, temporary files, the strings of the environment (which of them are freed or half read) and the saved file. One action per unit of the boundary search, per header and per part, `WriteEnvironment`, `ReadEnvironment`, the end of the process and the next one |
| `VarTree` | the variable lists of `ctemplate.c` | parent pointers, members, variables; one action per function |
| `Template`, `MCTemplate` | `TMPL_write` of `ctemplate.c` | operators for the scanner, the recursive parser and the walk; actions `Parse` and `Output` |
| `MCLibrary` | | `RingBuffer`, `VarTree`, `DescriptorSets`, `Tlv`, `Accounts` and `Template` side by side; a behaviour exercises one of them |
| `...Proofs` | | the theorems on `Lfq`, `Server`, `ThreadPool`, `RingBuffer`, `Manager`, `Httpd`, `Cgic`; `LibraryProofs` has those on `DescriptorSets`, `VarTree`, `Accounts` and `Tlv` |

`Lfq` stands under `ThreadPool`: the pool's queues are `FifoQueue`s because `Lfq` is shown
to implement one. `Server` composes the master with the workers over their pairs; `Cgic` is
built on the operators of `CgiForm`. Functions that call nothing else of the system and are
called from one place at a time have no interleavings to compose, hence `MCLibrary`.

Abstractions worth knowing:

* *Server.* One recv() takes one message, and a message is its number. Descriptors stay
  below the size of `stream_list`. The time limit of select() changes nothing and is a
  stutter. The workers' table is what fork() leaves them (`Holds`): their own end and
  those the manager still held. `spawn` closes `workers[i].pipe_fd` of every other worker
  (`process.c:117-120`); of the workers after its own the field is not set yet, and not
  initialised either unless it is the first. What such a close() does to the worker's table
  is left out: the memory is taken to hold no number the worker has a use for, as the
  zeros of a fresh heap do, which close the standard input. Clients take what
  they are sent. Variables called history variables are read by properties only.
* *Manager.* A pid is given out once. An entry of the copy that was never filled
  (`Nobody`) is uninitialised memory: kill() may refuse it, reach a stranger, or, if it is
  0, end the manager and its group. `server_status` is 0 or 1 at the start, though nothing
  in the repository sets it to 1; with 0 no worker is ever replaced.
* *Httpd.* Data is counted in units. The text of a request is reduced to what `handle`
  decides from it: its headers' length, `Content-Length`, and whether it names a file, a
  script or an error. A socket takes any part of what is pushed; a pipe blocks, as
  those made by `redirect` do, so the step waits. `closeiobuf` closes the number of a
  socket twice in a row; the second close fails and is left out. A script that has been
  disconnected is not followed further. Time is the set of connections whose expiry is over;
  the end of the loop disconnects them one after another, in any order.
* *Cgic.* Text is a sequence of units: bytes, and words no function looks into. Buffers
  of 1024 bytes are long enough for every name and header. At most one call of the
  system fails in a behaviour (`fault`): an allocation, mkstemp(), fopen() or a full disk,
  which stays full for the rest of the call. Where the code looks, the call fails; where it
  does not, it goes on as the code does: `cgiWriteEnvironment` reports success although
  `cgiFormFileOpen` could not open an upload (`cgic.c:1988`) or its last fclose() could not
  write everything (1995), and so does `cgiReadEnvironment` when a temporary file is cut at
  its fclose() (2186) or the name of an entry cannot be allocated (2124). A process may be
  killed while it writes the environment, in a call that has met no failure of the system;
  reads of a local file do not fail. After a failed
  `cgiReadEnvironment` the strings of the environment are freed or half read: a script may
  write them again, with anything in them (`Garbage`), or die of it. The two strings of
  the instance stand for those that `cgiFreeResources` frees and for `cgiCookie`, which it
  does not. The temporary file name that
  `cgiReadEnvironment` leaves unwritten for an entry without a file (`cgic.c:2195`) is taken
  as no name. The next run of a script is another process with the same files.
* *Template.* A template is a sequence of pieces: a unit of text, a tag that is well formed
  or not, a comment or the beginning of one. How a tag is spelt is left out.
  Format functions and `.../` in the names of included files are left out.
* *Accounts.* A statement is one step of the database; preparing it and stepping it may fail
  when another process is connected. Connections are counted in each process, and `spoilt`, a
  history variable set from what calls return, names those on which a call failed or
  deleted a member; whether a statement was finalized is kept apart from it in `conn`. That the
  database cannot be opened ends a process and is left out. Rows of tbl_friend are what the table is made with. The fields of a
  member that nothing looks at are left out.
* *DescriptorSets.* A descriptor equal to a multiple of `FD_SETSIZE` is written one bit past
  the array; that bit is not part of the set. The first descriptor added is not 0, for which
  no array would be made (`select.c:45`). *Tlv.* What lies beyond a packet is one
  value, `Undefined`.
* *Lfq.* Memory is sequentially consistent, as `__sync_*` makes it around each CAS. Dequeued
  nodes are never freed, as in the code, so an address is given out once. `size` is
  counted modulo `SizeMod`. `chain`, `headAt` and `tailAt` are history variables.
* *ThreadPool.* `WaitForSingleObject` returns when the event is set or after
  `MAX_IDLE_LIFE`, at any time as far as the model goes.

## 3. Runs

| run | instance | shows |
|---|---|---|
| `LfqSafety` | 3 threads, 2 values, 3 nodes | type and list invariants, the swing of the tail cannot fail, head never passes tail, the counter differs from the list by the calls under way, `lfq_deinit` leaves nothing behind, and the queue implements `FifoQueue` |
| `LfqLive` | 2 threads, 3 nodes | every call returns |
| `ServerSafety` | 2 workers, 3 clients, 2 descriptors for them | sockets and streams agree, marks are taken by their own descriptors, jobs in order, the list is sound until a stream is linked twice |
| `ServerLive` | 2 workers, 2 clients | a client that leaves is noticed |
| `ServerAnswer` | the same | *violated*: an answer may never come |
| `RingBufferWhole` | 3 bytes in 4 cells | *violated*: what was written can be read back in one call |
| `ThreadPool` | 2 threads, 3 jobs | no job lost, repeated or overtaken; the round robin is even; every job is run |
| `Manager` | 3 workers, 6 processes, 2 signals | no place stays empty; a reload that is not disturbed ends |
| `Httpd` | 2 connections, 5 descriptors, buffers of 2 units | descriptors are never crossed, asserts of loop and `pull`, one status line, scripts get their body from its start to its end |
| `HttpdPush` | the same | *violated*: the assert of `push` |
| `Cgic` | forms of one to three entries, both encodings, cut anywhere; the scripts of some of them save and restore, 3 calls in each of 2 processes; one fault | the form is the one sent, temporary files are owned, the environment comes back, the parser stays in the body, answers and cookies agree |
| `Library` | ring of 4 cells; 3 lists and 2 loops; bitmaps grown twice; packets of five types in buffers of 0 to 12 bytes; 2 processes on 2 names with 2 connections between them; every template of up to 4 pieces, and loops in loops | each library keeps its promise, the ring by refinement of `ByteQueue` |

The violated properties quote the repository; `PROJECT.json` names the lines under
"findings". In short: a worker answers on a descriptor number of another process;
`buf_read` counts the bytes of a wrapped ring one short; `push` can be called for a
request without a body and stops the HTTP server.

More that the models show of the code, for which the repository says nothing to hold
against it:

* a stream closed and accepted in the same pass is linked into the list twice, which
  then has no end (`ListSound` is stated up to there);
* an answer that comes late goes to the client that has the number by then;
* a reload that begins with a signal outside wait() goes through a copy of the table that
  has not been filled; it is filled only when wait() fails;
* `unpack_value` gives numbers no room, so they pack and never unpack;
* a descriptor that is a multiple of `FD_SETSIZE` may be written and not found;
* `dao_add_friend` and `dao_delete_contact` send statements that cannot be prepared, and
  `dao_delete_member` never finalizes its own, so that `sqlite3_close` refuses;
* `cgiWriteEnvironment` says that it has saved a form whose upload it could not open, or of which
  a full disk has cut the end; what `cgiReadEnvironment` then restores lacks that file or
  those entries (`EnvRestored` says that this is all that can be lost);
* after a `cgiReadEnvironment` that has failed, `cgiWriteEnvironment` writes strings that are
  freed;
* `TMPL_write` asks for access to a file it was given no name of when it is passed a string,
  and `readFile` closes a null pointer when it cannot open its file.

**Why the bounds are enough.** Each is the smallest instance where the hazards meet. Three
threads on the queue let one be stopped between its CASes while two race over what it
left; with two enqueues the tail lags, is passed by head's reader and caught up. Three
clients over two descriptors meet both reuse and the limit. Two threads and three jobs wrap
the round robin and lose a wake-up in both ways. Two signals meet a reload at every step,
and six pids let each of three workers be replaced once. A ring of four cells is met by
every pair of indices and every block from empty to too large. Five descriptors hold two
HTTP connections but not two scripts, unless one connection closes what the other opens. The
boundary of a form has two bytes, so the delimiter has six, and bodies hold every piece of
it before it; each form is cut after every byte. Three lists and two loops close every
circle that could be closed. Two loops inside each other tell a break of one level from
a break of two. What does not depend on the bounds is proved (section 5). Symmetry is
used only where no liveness is checked.

Deadlock is checked for the queue and the pool. Elsewhere the system may stop: clients of
`Server` and `Httpd` are finite; a script ends; the manager waits for workers that run on, or
is over; a packet ends when it is unpacked or refused, a template when it is written.

## 4. Fairness

* `Lfq`: weak fairness of each thread's steps: the operating system runs every thread.
  A CAS that fails may fail again only if another thread's succeeded, and enqueues
  are bounded by the nodes of the instance. That a call returns while others compete
  without end is not claimed, and not true.
* `Server`: weak fairness of the master as a whole and of each worker. The master is a
  loop and has one step to take at a time; clients owe nothing.
* `ThreadPool`: weak fairness of the dispatcher and of each thread. That a wait ends is fair
  because the code gives it a time limit, without which `JobsRun` is false.
* `Manager`: weak fairness of the manager's own step, and of the end of a worker that has
  been told (SIGTERM has its default action in a worker). Nothing is assumed of signals or
  of workers that end by themselves.

## 5. Proofs

All are checked by `tlapm`, for every value of the constants allowed by the named assumptions
(`LfqAssumption` and the like), which TLC evaluates on each run.

* **`LfqProofs`**. That the swing of the tail succeeds is not inductive: one must know
  that the nodes linked so far are one list without a cycle (`ChainInv`), where its ends are
  (`EndsInv`), that one thread at most is between its two CASes (`SwingInv`), that a
  node not yet linked belongs to one thread (`PrivateInv`), and what a stale pointer still
  points to (`LtailInv`, `LheadInv`). Their conjunction is `ListInv`, and
  `IInv == TypeOK /\ ListInv` is inductive; the proof has one lemma for each action that moves
  something. From it follow `SwingSucceeds`, `HeadNotPastTail` and, with lemmas on what
  linking a node and moving head do to the mapped sequence, `Linearizable`: the queue implements
  `FifoQueue`.
  `SizeInv` adds two parts: while `lfq_deinit` runs nobody else does, and what its last
  `lfq_deq` saw is still so (`DrainInv`); and `SizeAccounted` itself, with the finiteness of
  the sets it counts. The arithmetic modulo the width of `size_t` is `ModPlus`, proved from the
  uniqueness of quotient and remainder (`ModIs`). `SizeCounts` and `DeinitEmpties` follow.
* **`RingBufferProofs`**. `Implements`: every behaviour of the ring is one of `ByteQueue`
  under the refinement mapping that reads the cells from `rdi` to `wri`. `Counting` relates the
  code's index arithmetic to the number of readable bytes; `WriteEffect` and `ReadEffect` say
  what a call does to the mapped sequence.
* **`ThreadPoolProofs`**. `EachJobOnce` is inductive with `TypeOK` (what a thread has
  been given is what it has done, what it holds and what is queued). `Even` needs the
  position of the counter as well: threads before it have been picked once more than those
  after it.
* **`ServerProofs`**. Three inductive invariants, one on top of the other.
  `MasterInv` is `TypeOK` and `DescriptorsTracked` with what they rest on: the listener and
  the pairs stay open and stay at the end of the list (`FixedInv`), a pair with a mark has a
  job until the loop has passed it (`MarkedInv`), from the first accept on the loop is on that
  fixed end (`LateInv`), and a connection waits, is open or is gone (`ConnInv`). `MarkIsOwn`
  follows from `LateInv`: where a client is received from, nothing has been accepted yet.
  `OrderInv` is `JobsInOrder` with where the jobs of a connection are (`PlaceInv`: one
  worker has them all) and how those read, queued and not yet received follow each other;
  it needs that a connection whose EVENT_CLOSE is queued sends nothing any more (`Gone`).
  `ListInv` gives `ListSound`: the list ends because some rank of the streams goes down along
  it. `PutFirst` and `TakeOut` say what an accept and a destruction do to the set of
  streams listed; that a rank cannot go down for ever is `Least`, from the library's
  well-foundedness of the natural numbers.
* **`LibraryProofs`**, in four parts. *`select.c`*: `SetsInv` ties bits to what was asked
  for, away from the multiples of `FD_SETSIZE`; growing keeps it because the bits stay and the
  limit only moves up. *`ctemplate.c`*: `Forest` and `OwnedOnce` are inductive only together,
  with the types (`TreeInv`). `Forest` says that every set of nodes has one with nothing of the
  set above it, which needs no induction over paths: a link to a node that is not among the
  ancestors keeps it because the descendants of the new node form such a set
  (`LinkKeepsForest`). `FreedTogether` shows that what is freed with a list is what is inside
  it. *`dao.c`*: `MembersInv` says that names are unique and that a memberid
  is the number of the account that has it; the second holds only because autoincrement never
  gives one out again, and it is why `OwnFriends` survives rows of tbl_friend whose members
  are gone. `ConnsInv` carries `ClosesClean` with the types of the connections: `Outcomes` goes
  through the ways a call can end, and shows of each that what it leaves in `conn` and what its
  return code adds to `spoilt` are about the same connection, the one that is open
  (`LoginInv` says that it is still open between the two statements of `dao_login`). *`tlv.c`*: `PacketsInv` says that a packet is the one of its value;
  `Layout` says what stands at which byte of it and `Halves` that two bytes make the number
  again, which is where the assumption is used that numbers and lengths are of 16 bits, as the
  fields of `tlv_t` are.
* **`ManagerProofs`**. `WorkersKept` holds where the manager waits; the invariant
  `Filled` says of every other place whose entry may be the one that is being replaced.
* **`HttpdProofs`**. `OwnDescriptors`, `LoopAssertsHold`, `OneStatus` and `ScriptFed` follow
  from one invariant. `ListInv` relates the list to what is left of a pass; `ConnInv` says of
  each connection what it holds (`Owns`), what it may be before and after its request
  (`Shape`), whether a status line is still owed (`Silent`) and how the counters of both
  ends add up (`FedBy`); `MarkInv` says that a mark a pass will still ask for is one for which
  there is room. A stale mark cannot overrun a buffer for two reasons: a number marked by
  select() belongs to one end of one connection (`MarksHaveRoom`, from `Apart`), and whoever gets
  it again in the same pass has empty buffers. `Step` and `Closing` say once what a
  handler may do to the connection it is at without touching another; each action
  then is one lemma about the record it leaves.

* **`CgicProofs`**. The inductive invariant is `CgicInv`: `TypeInv`, `EnvInv`, `TempInv`,
  `KeptInv` and `EnvRestored` itself.
  *The files.* `TempFilesOwned` alone is not inductive: on the error paths it matters
  what the part being read holds. `PartInv` says that its file is not of the list yet and is
  open unless fopen has failed, so that what an error path unlinks (`Unfinished`) is
  what would be lost; `LostInv` says that nothing else is lost and, even after a failed fopen,
  one file at most, which is why files can be restored above its number; `EntriesInv`
  that each entry has its file to itself.
  *The saved environment.* `KeptInv` relates the file to what was saved: it still gives the strings and
  the entries, or the first of them when the writer was killed or the disk full, or all with
  one file missing when that file could not be opened (`Gives`, `Costs`).
  `WriteKept` says so of a write, from `RoundTrip`, a
  statement about the two functions alone: the file is a concatenation of pieces (`FlattenIs`),
  each reading function takes the piece that the writing one has put there (`ReadsInt`,
  `ReadsString`, `ReadsEntry`), and of a file that was cut (`Part`) it takes the same or fails
  and leaves the list as it is. `ReadRestores` adds what the read itself may cost: the last
  entries, or the end of one file (`CutShort`). There is only one failure in a behaviour, and
  that is why a read that loses something has a file before it that has lost nothing. `EnvInv`
  says that what the strings may be is always texts. That entries find their own file needs `Savable`: files are
  saved by the entry's name, and a file whose fopen failed is saved empty
  with the length that was read.
  *The types.* `TypeInv` makes these functions apply: whatever the input, what the parser
  takes out of it are texts, and the boundary search stays within the boundary.
  *Loops.* The functions of `cgic.c` are loops, written with `Turns`: its recursive function
  is shown to exist (`TurnsEq`), and `TurnsKeep` turns an invariant of a loop into what
  holds after it. The induction in them is `Ind`, on a set of numbers and from the
  well-foundedness of the naturals, as the induction theorems of the library
  take an operator. `AnswersFit` is one more such loop: what is written and what is left of
  the room make max - 1, and the room is enough for the units to come and for the CRs and LFs
  held back as long as the buffer is larger than the value. `NoMarkup` follows from what
  joining texts can yield (`FlattenIn`).
  *Assumptions.* `CgicAssumption`: requests are records of texts of one of the four kinds,
  the boundary and the strings of the environment are texts, the boundary without blanks.

Only model-checked:

* liveness (`CallsReturn`, `CloseNoticed`, `JobsRun`, `ReloadEnds`): no backend does fairness
  or ENABLED;
* `FormAsSent`, `StaysInBody` and `CookiesFound` of `Cgic`: they are about what a
  browser sends. That encoding is made by `MCCgic`; for requests of arbitrary text they need
  not hold;
* `AnswersAgree`: that an answer is the value with its bursts normalised, and that escaped text
  reads back, compares recursive functions over texts with each other; of its parts, that
  answers fit and that markup is gone are proved. The list of a name's entries is a
  `SelectSeq`, which the provers do not expand;
* `ParseAgrees` and `WalkAgrees` of `Template`: the parser and its reference are recursive
  over texts and trees.

## 6. Not modelled

* *Shared arena.* `process_pool_new` calls `set` once, before any fork; `get` and `unset` have
  no caller. There is no behaviour of the program to model.
* *Protocol.* `IM.Instant.pb-c.c` is generated, and nothing calls it.
* *Helpers.* One system call each; what matters of `listen_s0`, `listen_s1` and `blockmode` is
  in `Server`.
* *Scripts.* `sample.cgi.c` prints a page; `helper.c` does not compile.
* *Of modelled parts.* SSL and Windows branches of `httpd.c`; `cgic.c`'s output of headers and
  cookies, floating-point answers and debugging; format functions and file names of
  `ctemplate.c`; failed allocations outside `cgic.c` and `dao_get_friends`; the friends of a member from the 21st on,
  where `dao_get_friends` counts its growing array in bytes; messages and logs everywhere.
