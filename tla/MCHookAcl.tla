----------------------------- MODULE MCHookAcl -----------------------------
(* Small instances of HookAcl for TLC. *)
EXTENDS HookAcl

CONSTANTS c, t  \* the two threads

\* Lists that are empty, shorter, full, overlapping and too long, with and without a zero.
MCRequests == {<<>>, <<t>>, <<ZERO>>, <<c, t>>, <<t, ZERO, c>>}

============================================================================
