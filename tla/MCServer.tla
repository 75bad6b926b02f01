------------------------------ MODULE MCServer ------------------------------
(* Model values for Server: the connections are interchangeable. *)
EXTENDS Server, TLC

MCSymmetry == Permutations(Conn)
=============================================================================
