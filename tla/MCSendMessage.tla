---------------------------- MODULE MCSendMessage ----------------------------
(* An instance of SendMessage for TLC: two attempts, a delay of a second.  *)
EXTENDS SendMessage

Attempts == 2
Seconds == 1

=============================================================================
