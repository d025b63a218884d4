------------------------------ MODULE MCDbLock ------------------------------
(* Instances of DbLock for TLC: the GUI, a loader and the action worker.   *)
EXTENDS DbLock

CONSTANTS gui, loader, worker

AllThreads == {gui, loader, worker}
JustWorker == {worker}
TwoWriters == {gui, worker}


=============================================================================
