------------------------------ MODULE MCHttpd -------------------------------
(* Model values for Httpd. *)
EXTENDS Httpd, TLC

MCRequest == {[kind |-> "file",  head |-> 2, body |-> 0, total |-> 2],
              [kind |-> "cgi",   head |-> 1, body |-> 0, total |-> 1],
              [kind |-> "cgi",   head |-> 1, body |-> 1, total |-> 3],
              [kind |-> "error", head |-> 1, body |-> 0, total |-> 1]}
MCFd == 4 .. 8
MCSymmetry == Permutations(Conn)
=============================================================================
