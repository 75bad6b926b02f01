--------------------------- MODULE ManagerProofs ---------------------------
(***************************************************************************)
(* The manager keeps the places of its pool filled, for any number of      *)
(* workers, forks and signals.                                             *)
(***************************************************************************)
EXTENDS Manager, TLAPS

States == {"none", "alive", "told", "zombie", "gone"}

Typed == /\ status \in ServerStatus
         /\ table \in [Slot -> Pid]
         /\ copy \in [Slot -> Pid \cup {Nobody}]
         /\ pid \in Pid \cup {0, -1}
         /\ process \in [Pid -> States]

\* The only worker the table still names and the system does not is the one wait() has
\* just returned.
Filled == status = 1 /\ "fork" \notin trouble =>
            \A i \in Slot : Child(table[i]) \/ (at = "respawn" /\ table[i] = pid)

ManagerInv == Typed /\ Filled

\* What ends, or is told to, is still there.
LEMMA StillThere ==
  ASSUME NEW p \in Pid, process \in [Pid -> States], NEW state \in {"told", "zombie"},
         process' = [process EXCEPT ![p] = state], Child(p)
  PROVE  process' \in [Pid -> States] /\ \A q \in Pid : Child(q) => Child(q)'
BY DEF Child, States

\* While server_status is 1 no place is left empty but after a failed fork. (spawn,
\* manager_process)
THEOREM WorkersKeptThm == Spec => []WorkersKept
<1>1. Init => ManagerInv
  BY ManagerAssumption
     DEF Init, ManagerInv, Typed, Filled, Child, States, Slot, Pid, Nobody
<1>2. ManagerInv /\ [Next]_vars => ManagerInv'
  <2> SUFFICES ASSUME ManagerInv, [Next]_vars PROVE ManagerInv'
    OBVIOUS
  <2>t. Typed /\ Filled
    BY DEF ManagerInv
  <2>1. CASE Sigusr1
    BY <2>1, <2>t DEF Sigusr1, ManagerInv, Typed, Filled, Child
  <2>2. ASSUME NEW p \in Pid, End(p) PROVE ManagerInv'
    <3>1. process' = [process EXCEPT ![p] = "zombie"] /\ Child(p)
      BY <2>2 DEF End, Child
    <3>2. process' \in [Pid -> States] /\ \A q \in Pid : Child(q) => Child(q)'
      BY <3>1, <2>t, StillThere DEF Typed
    <3>3. /\ UNCHANGED <<status, table, copy, pid, at>>
          /\ "fork" \in trouble => "fork" \in trouble'
      BY <2>2 DEF End, mine
    <3>4. Typed'
      BY <3>2, <3>3, <2>t DEF Typed
    <3>5. Filled'
      BY <3>2, <3>3, <2>t DEF Filled, Typed, Child
    <3> QED
      BY <3>4, <3>5 DEF ManagerInv
  <2>3. CASE Wait
    <3>1. CASE UNCHANGED process
      BY <3>1, <2>3, <2>t DEF Wait, ManagerInv, Typed, Filled, Child
    <3>2. ASSUME NEW p \in Pid, process[p] = "zombie",
                 process' = [process EXCEPT ![p] = "gone"], pid' = p, at' = "respawn"
          PROVE  ManagerInv'
      <4>1. \A q \in Pid : Child(q) => Child(q)' \/ q = p
        BY <3>2, <2>t DEF Child, Typed, States
      <4>2. UNCHANGED <<status, table, copy, trouble>> /\ at = "wait"
        BY <2>3 DEF Wait
      <4>3. Typed'
        BY <3>2, <4>2, <2>t DEF Typed, States
      <4>4. Filled'
        BY <3>2, <4>1, <4>2, <2>t DEF Filled, Typed, Child
      <4> QED
        BY <4>3, <4>4 DEF ManagerInv
    <3> QED
      BY <3>1, <3>2, <2>3 DEF Wait
  <2>4. CASE Failed
    BY <2>4, <2>t DEF Failed, ManagerInv, Typed, Filled, Child
  <2>5. CASE Respawn
    <3>1. CASE ~ Replaces
      BY <3>1, <2>5, <2>t DEF Respawn, Replaces, ManagerInv, Typed, Filled, Child
    <3>2. CASE trouble' = trouble \cup {"fork"} /\ UNCHANGED <<table, process>>
      BY <3>2, <2>5, <2>t DEF Respawn, ManagerInv, Typed, Filled, Child
    <3>3. ASSUME NEW p \in Pid, process[p] = "none",
                 table' = [i \in Slot |-> IF table[i] = pid THEN p ELSE table[i]],
                 process' = [process EXCEPT ![p] = "alive"], UNCHANGED trouble
          PROVE  ManagerInv'
      <4>1. \A q \in Pid : Child(q) => Child(q)'
        BY <3>3, <2>t DEF Child, Typed, States
      <4>2. Child(p)'
        BY <3>3, <2>t DEF Child, Typed
      <4>3. UNCHANGED <<status, copy, pid>> /\ at = "respawn"
        BY <2>5 DEF Respawn
      <4>4. Typed'
        BY <3>3, <4>3, <2>t DEF Typed, States
      <4>5. Filled'
        BY <3>3, <4>1, <4>2, <4>3, <2>t DEF Filled, Typed, Child
      <4> QED
        BY <4>4, <4>5 DEF ManagerInv
    <3> QED
      BY <3>1, <3>2, <3>3, <2>5 DEF Respawn
  <2>6. CASE Clean
    BY <2>6, <2>t DEF Clean, mine, ManagerInv, Typed, Filled, Child
  <2>7. CASE ReloadOver
    BY <2>7, <2>t DEF ReloadOver, ManagerInv, Typed, Filled, Child
  <2>8. CASE Kill
    <3>1. UNCHANGED <<status, table, copy, pid, trouble>> /\ at = "kill"
      BY <2>8 DEF Kill
    <3>2. process' \in [Pid -> States] /\ \A q \in Pid : Child(q) => Child(q)'
      BY <2>8, <2>t DEF Kill, Typed, States, Child
    <3>3. Typed'
      BY <3>1, <3>2, <2>t DEF Typed
    <3>4. Filled'
      BY <3>1, <3>2, <2>t DEF Filled, Typed, Child
    <3> QED
      BY <3>3, <3>4 DEF ManagerInv
  <2>9. CASE UNCHANGED vars
    BY <2>9, <2>t DEF vars, ManagerInv, Typed, Filled, Child
  <2> QED
    BY <2>1, <2>2, <2>3, <2>4, <2>5, <2>6, <2>7, <2>8, <2>9 DEF Next, Step
<1>3. ManagerInv => WorkersKept
  BY DEF ManagerInv, Filled, WorkersKept
<1> QED
  BY <1>1, <1>2, <1>3, PTL DEF Spec
=============================================================================
