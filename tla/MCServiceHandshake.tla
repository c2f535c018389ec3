-------------------------- MODULE MCServiceHandshake --------------------------
(* An instance of ServiceHandshake for TLC: two threads in one host, one in another. *)
EXTENDS ServiceHandshake

CONSTANTS h1, h2, t1, t2, t3

MCHostOf(t) == IF t = t3 THEN h2 ELSE h1

=============================================================================
