------------------------------ MODULE Manager ------------------------------
(***************************************************************************)
(* manager_process of process.c: it waits for a worker to end, puts        *)
(* another in its place, and on SIGUSR1 ends the workers one by one.  The  *)
(* handler of the signal runs between any two of its steps.                *)
(***************************************************************************)
EXTENDS Integers, Sequences, FiniteSets

CONSTANTS Slots,         \* pool->num_workers
          MaxPid,        \* bound: processes forked
          MaxSignals,    \* bound: SIGUSR1
          ServerStatus   \* what server_status may be: process_pool_new sets 0, nothing else does

Slot == 0 .. Slots - 1
Pid == 1 .. MaxPid
Nobody == 0   \* what an entry of a table holds that was never filled

ASSUME ManagerAssumption ==
  Slots \in Nat /\ MaxPid \in Nat /\ Slots <= MaxPid /\ MaxSignals \in Nat

VARIABLES status,       \* pool->server_status
          table, copy,  \* the pids of pool->workers and of the manager's copy
          at,           \* the manager: "wait", "failed", "respawn", "clean", "kill", "over"
          pid, n,       \* its variables
          reloading, whether_reload,  \* of ctx
          process,      \* each pid: "none", "alive", "told" (SIGTERM), "zombie", "gone"
          signals,      \* how many SIGUSR1 have come
          trouble       \* history: a fork failed, or a worker ended by itself

vars == <<status, table, copy, at, pid, n, reloading, whether_reload, process, signals, trouble>>
mine == <<table, copy, pid, n>>

Init == /\ status \in ServerStatus
        /\ table = [i \in Slot |-> i + 1] /\ copy = [i \in Slot |-> Nobody]
        /\ at = "wait" /\ pid = 0 /\ n = 0
        /\ reloading = FALSE /\ whether_reload = FALSE
        /\ process = [p \in Pid |-> IF p <= Slots THEN "alive" ELSE "none"]
        /\ signals = 0 /\ trouble = {}

Child(p) == process[p] \in {"alive", "told", "zombie"}

\* sigusr1.  Whether wait() ends when it comes is the system's choice, since the handler
\* is set by signal().
Sigusr1 ==
  /\ signals < MaxSignals /\ signals' = signals + 1
  /\ reloading' = TRUE /\ whether_reload' = FALSE
  /\ \/ UNCHANGED <<at, pid>>
     \/ at = "wait" /\ at' = "failed" /\ pid' = -1
  /\ UNCHANGED <<status, table, copy, n, process, trouble>>

\* A worker ends, by SIGTERM or by itself.
End(p) ==
  /\ process[p] \in {"alive", "told"}
  /\ process' = [process EXCEPT ![p] = "zombie"]
  /\ trouble' = IF process[p] = "alive" THEN trouble \cup {"crash"} ELSE trouble
  /\ UNCHANGED <<status, mine, at, reloading, whether_reload, signals>>

Wait ==
  /\ at = "wait"
  /\ \/ \E p \in Pid : /\ process[p] = "zombie"
                       /\ process' = [process EXCEPT ![p] = "gone"]
                       /\ pid' = p /\ at' = "respawn"
     \/ /\ \A p \in Pid : ~ Child(p)
        /\ pid' = -1 /\ at' = "failed" /\ UNCHANGED process
  /\ UNCHANGED <<status, table, copy, n, reloading, whether_reload, signals, trouble>>

\* The table the reload goes through is a copy, made when wait() fails.
Failed ==
  /\ at = "failed"
  /\ IF reloading /\ ~ whether_reload
     THEN copy' = table /\ whether_reload' = TRUE /\ at' = "clean"
     ELSE at' = "respawn" /\ UNCHANGED <<copy, whether_reload>>
  /\ UNCHANGED <<status, table, pid, n, reloading, process, signals, trouble>>

\* mutant: no worker is replaced during a reload
ReplacesLater == status = 1 /\ ~ reloading /\ \E i \in Slot : table[i] = pid
Replaces == status = 1 /\ \E i \in Slot : table[i] = pid

Respawn ==
  /\ at = "respawn" /\ at' = "clean"
  /\ \/ ~ Replaces /\ UNCHANGED <<table, process, trouble>>
     \/ Replaces /\ trouble' = trouble \cup {"fork"} /\ UNCHANGED <<table, process>>
     \/ \E p \in Pid :
          /\ Replaces
          /\ process[p] = "none" /\ \A q \in 1 .. p - 1 : process[q] # "none"
          /\ table' = [i \in Slot |-> IF table[i] = pid THEN p ELSE table[i]]
          /\ process' = [process EXCEPT ![p] = "alive"]
          /\ UNCHANGED trouble
  /\ UNCHANGED <<status, copy, pid, n, reloading, whether_reload, signals>>

Clean ==
  /\ at = "clean"
  /\ at' = IF ~ reloading THEN "wait" ELSE IF n >= Slots THEN "end" ELSE "kill"
  /\ UNCHANGED <<status, mine, reloading, whether_reload, process, signals, trouble>>

ReloadOver ==
  /\ at = "end" /\ at' = "wait"
  /\ reloading' = FALSE /\ n' = 0
  /\ UNCHANGED <<status, table, copy, pid, whether_reload, process, signals, trouble>>

\* mutant: the branches are swapped
NextSwapped(sent) == IF sent THEN n ELSE n + 1
NextTurn(sent) == IF sent THEN n + 1 ELSE n

\* An entry that was never filled is any number: kill() may refuse it, send the signal
\* to a stranger, or to the manager and all its group.
Kill ==
  /\ at = "kill"
  /\ \/ /\ copy[n] # Nobody
        /\ at' = "wait"
        /\ n' = NextTurn(Child(copy[n]))
        /\ process' = [process EXCEPT ![copy[n]] = IF @ = "alive" THEN "told" ELSE @]
     \/ /\ copy[n] = Nobody
        /\ \/ at' = "wait" /\ n' \in {n, n + 1}
           \/ at' = "over" /\ UNCHANGED n
        /\ UNCHANGED process
  /\ UNCHANGED <<status, table, copy, pid, reloading, whether_reload, signals, trouble>>

Step == Wait \/ Failed \/ Respawn \/ Clean \/ ReloadOver \/ Kill
Next == Sigusr1 \/ (\E p \in Pid : End(p)) \/ Step

\* The manager runs, and a worker that is told to end does.
Fairness == WF_vars(Step) /\ \A p \in Pid : WF_vars(process[p] = "told" /\ End(p))

Spec == Init /\ [][Next]_vars /\ Fairness

-----------------------------------------------------------------------------
\* While server_status is 1 the manager never waits with a place whose worker it has
\* buried and not replaced, in a reload or out of it and whatever signals come, unless
\* a fork failed. (manager_process, spawn)
WorkersKept ==
  at = "wait" /\ status = 1 /\ "fork" \notin trouble => \A i \in Slot : Child(table[i])

\* A reload that has its copy of the table comes to an end, and then each worker of
\* the copy has been told; unless a worker ends by itself, a fork fails or another
\* SIGUSR1 comes. (manager_process)
Undisturbed == trouble = {} /\ signals <= 1
ReloadEnds ==
  (reloading /\ whether_reload) ~>
    (~ Undisturbed \/ (~ reloading /\ \A i \in Slot : copy[i] # Nobody /\ process[copy[i]] \in {"zombie", "gone"}))
=============================================================================
