--------------------------- MODULE MCQueryLoader ---------------------------
(* Instances of QueryLoader for TLC: what the database holds of a thread   *)
(* is unread or archived, and queries ask for unread mail or for all mail. *)
EXTENDS QueryLoader

CONSTANTS t1, t2, unread, archived

Threads == {t1, t2}
Values == {unread, archived}
OneQuery == {{unread}}
TwoQueries == {{unread}, Values}

=============================================================================
