------------------------------- MODULE MCLfq -------------------------------
(* Model values for Lfq: the nodes, and the values, are interchangeable, and so are the threads. *)
EXTENDS Lfq, TLC

MCSymmetry == Permutations(Node) \cup Permutations(Thread) \cup Permutations(Value)
=============================================================================
