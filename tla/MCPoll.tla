------------------------------- MODULE MCPoll -------------------------------
(* Instances of Poll for TLC: two threads of mail and two process ids.     *)
EXTENDS Poll

CONSTANTS t1, t2, p1, p2

Threads == {t1, t2}
Pids == {p1, p2}
OnePid == {p1}

=============================================================================
