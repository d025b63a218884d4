---------------------------- MODULE MCTagActions ----------------------------
(* Instances of TagActions for TLC: a thread of two messages, two tags.    *)
EXTENDS TagActions

CONSTANTS t1

Threads == {t1}
Messages == {1, 2}
OneThread == [m \in Messages |-> t1]
Tags == {1, 2}
Diffs == {<<{1}, {}>>, <<{}, {1}>>}

\* One message has the tag 2, the other none.
MCInit == Init /\ db = [m \in Messages |-> IF m = 1 THEN {2} ELSE {}]
MCSpec == MCInit /\ [][Next]_vars
MCFairSpec == MCSpec /\ WF_vars(Worker) /\ WF_vars(Emitter) /\ WF_vars(PollTells)

=============================================================================
