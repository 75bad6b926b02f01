------------------------------ MODULE VarTree ------------------------------
(***************************************************************************)
(* The variable lists and loops of ctemplate.c a script builds for         *)
(* TMPL_write: a list holds variables and loops, a loop holds lists.       *)
(* What a function declines to do is a step that changes nothing.          *)
(***************************************************************************)
EXTENDS Integers, Sequences, SequencesExt

CONSTANTS Varlist, Loop,  \* what malloc may return, for either struct
          Var,            \* names of variables
          MaxVars         \* bound: variables in a list

Node == Varlist \cup Loop

VARIABLES live,       \* what is allocated
          parent,     \* {}, a null pointer, or the set of the one node above
          members,    \* the loops of a list, from varlist->loop; the lists of a loop
          variables   \* the variables of a list, from varlist->var

treeVars == <<live, parent, members, variables>>

TreeInit ==
  /\ live = {}
  /\ parent = [n \in Node |-> {}]
  /\ members = [n \in Node |-> <<>>]
  /\ variables = [v \in Varlist |-> <<>>]

Closed(S) == \A n \in S : parent[n] \subseteq S

\* mutant: only the node just above is looked at
AncestorsNear(n) == parent[n]
\* What the walk from n up the parent pointers comes to.
Ancestors(n) == {a \in Node : \A S \in SUBSET Node : n \in S /\ Closed(S) => a \in S}

\* What TMPL_free_varlist(v) frees, down the members.
Holds(S) == \A n \in S : \A i \in DOMAIN members[n] : members[n][i] \in S
Below(v) == {n \in Node : \A S \in SUBSET Node : v \in S /\ Holds(S) => n \in S}

\* v is not live when the call passes NULL: the list is made.
AddVar(v, names) ==
  /\ Len(variables[v]) + Len(names) <= MaxVars
  /\ live' = live \cup {v}
  /\ variables' = [variables EXCEPT ![v] = Reverse(names) \o @]
  /\ UNCHANGED <<parent, members>>

\* mutant: the test whether the loop has a list already is missing
AddLoopAgain(v, l) ==
  /\ l \in live /\ l \notin Ancestors(v)
  /\ live' = live \cup {v}
  /\ parent' = [parent EXCEPT ![l] = {v}]
  /\ members' = [members EXCEPT ![v] = <<l>> \o @]
  /\ UNCHANGED variables
AddLoop(v, l) ==
  /\ l \in live
  /\ parent[l] = {}
  /\ l \notin Ancestors(v)
  /\ live' = live \cup {v}
  /\ parent' = [parent EXCEPT ![l] = {v}]
  /\ members' = [members EXCEPT ![v] = <<l>> \o @]
  /\ UNCHANGED variables

AddVarlist(l, v) ==
  /\ v \in live
  /\ parent[v] = {}
  /\ v \notin Ancestors(l)
  /\ live' = live \cup {l}
  /\ parent' = [parent EXCEPT ![v] = {l}]
  /\ members' = [members EXCEPT ![l] = Append(@, v)]
  /\ UNCHANGED variables

\* The script frees a list it has given to no loop.
FreeVarlist(v) ==
  /\ v \in live
  /\ parent[v] = {}
  /\ live' = live \ Below(v)
  /\ parent' = [n \in Node |-> IF n \in Below(v) THEN {} ELSE parent[n]]
  /\ members' = [n \in Node |-> IF n \in Below(v) THEN <<>> ELSE members[n]]
  /\ variables' = [n \in Varlist |-> IF n \in Below(v) THEN <<>> ELSE variables[n]]

TreeNext ==
  \/ \E v \in Varlist, names \in BoundedSeq(Var, MaxVars) : AddVar(v, names)
  \/ \E v \in Varlist, l \in Loop : AddLoop(v, l) \/ AddVarlist(l, v)
  \/ \E v \in Varlist : FreeVarlist(v)

TreeSpec == TreeInit /\ [][TreeNext]_treeVars

-----------------------------------------------------------------------------
\* However lists and loops are put together, none comes to hold itself: in every set
\* of nodes there is one with nothing of the set above it.  findloop, TMPL_free_varlist
\* and the walks of TMPL_add_loop and TMPL_add_varlist end because of it.
Forest == \A S \in SUBSET Node : S # {} => \E n \in S : parent[n] \cap S = {}

\* A node is in what is above it, once, and in nothing else, and nothing points to
\* freed memory: so TMPL_free_varlist frees each node once and leaves none behind.
OwnedOnce ==
  \A n \in Node :
    /\ parent[n] = {} \/ \E p \in live : parent[n] = {p}
    /\ \A p \in Node :
         p \in parent[n] <=> \E i \in DOMAIN members[p] : members[p][i] = n
    /\ \A i, j \in DOMAIN members[n] : members[n][i] = members[n][j] => i = j
    /\ n \notin live => parent[n] = {} /\ members[n] = <<>>
=============================================================================
