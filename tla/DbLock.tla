------------------------------- MODULE DbLock -------------------------------
(***************************************************************************)
(* How threads open and close the notmuch database (src/src/db.cc).        *)
(*                                                                         *)
(* A read-write Db keeps the mutex db_open for as long as it lives; a      *)
(* read-only Db takes it only to count itself in read_only_dbs_open and to *)
(* count itself out.  A writer that finds readers waits on the condition   *)
(* variable dbs_open.  After the lock the Xapian database is opened, in a  *)
(* loop that retries while another program (notmuch new) holds it.         *)
(*                                                                         *)
(* One action per step a thread can be preempted after.  pc[t] names the   *)
(* next step of thread t; it has at most one Db at a time (the comment in  *)
(* db.hh forbids to nest a read-write one).                                *)
(***************************************************************************)
EXTENDS Integers, FiniteSets

CONSTANTS
  Thread,          \* threads that use the database
  Writer,          \* those of them that open it read-write
  NoThread,        \* the mutex is free
  db_open_delay,   \* added to the waiting time by a failed attempt
  db_open_timeout  \* no further attempt once the waiting time exceeds it

ASSUME ThreadAssumption ==
  /\ IsFiniteSet(Thread)
  /\ Writer \subseteq Thread
  /\ NoThread \notin Thread

ASSUME TimeAssumption ==
  /\ db_open_delay \in Nat \ {0}
  /\ db_open_timeout \in Nat

VARIABLES
  pc,                  \* what each thread does next
  db_open,             \* owner of the mutex
  read_only_dbs_open,  \* the counter of read-only databases
  notified,            \* waiters of dbs_open that were notified since
  need_db,             \* does the thread open a database, or only lock it
  time,                \* time waited in the open loop
  external             \* another program is writing to the database

vars == <<pc, db_open, read_only_dbs_open, notified, need_db, time, external>>

RWHeld == {"rw_open", "rw", "rw_release"}
ROHeld == {"ro_open", "ro", "ro_release"}
PC == {"idle", "rw_enter", "rw_wait", "rw_notify", "ro_enter", "ro_notify"}
        \cup RWHeld \cup ROHeld

\* Threads that count as readers and as writers.
Readers == {t \in Thread : pc[t] \in ROHeld}
Writers == {t \in Thread : pc[t] \in RWHeld}

Goto(t, from, to) ==
  /\ pc[t] = from
  /\ pc' = [pc EXCEPT ![t] = to]

-----------------------------------------------------------------------------
Init ==
  /\ pc = [t \in Thread |-> "idle"]
  /\ db_open = NoThread
  /\ read_only_dbs_open = 0
  /\ notified = {}
  /\ need_db = [t \in Thread |-> TRUE]
  /\ time = [t \in Thread |-> 0]
  /\ external = FALSE

\* Db (DATABASE_READ_WRITE), or acquire_rw_lock alone for an action that runs
\* an external program.
WantRW(t, need) ==
  /\ t \in Writer
  /\ Goto(t, "idle", "rw_enter")
  /\ need_db' = [need_db EXCEPT ![t] = need]
  /\ time' = [time EXCEPT ![t] = 0]
  /\ UNCHANGED <<db_open, read_only_dbs_open, notified, external>>

WantRO(t, need) ==
  /\ Goto(t, "idle", "ro_enter")
  /\ need_db' = [need_db EXCEPT ![t] = need]
  /\ time' = [time EXCEPT ![t] = 0]
  /\ UNCHANGED <<db_open, read_only_dbs_open, notified, external>>

AfterRW(t) == IF need_db[t] THEN "rw_open" ELSE "rw"
AfterRO(t) == IF need_db[t] THEN "ro_open" ELSE "ro"

\* dbs_open.wait (rwl, count == 0) with the mutex just taken: keep it when
\* there is no reader, give it back and sleep otherwise.
TakeOrSleep(t) ==
  \/ /\ read_only_dbs_open = 0
     /\ db_open' = t
     /\ pc' = [pc EXCEPT ![t] = AfterRW(t)]
  \/ /\ read_only_dbs_open # 0
     /\ pc' = [pc EXCEPT ![t] = "rw_wait"]
     /\ UNCHANGED db_open

\* acquire_rw_lock: lock db_open and look at the counter.
LockRW(t) ==
  /\ pc[t] = "rw_enter"
  /\ db_open = NoThread
  /\ TakeOrSleep(t)
  /\ UNCHANGED <<read_only_dbs_open, notified, need_db, time, external>>

\* A notified waiter takes the mutex again and re-evaluates the predicate.
WakeRW(t) ==
  /\ pc[t] = "rw_wait"
  /\ t \in notified
  /\ db_open = NoThread
  /\ TakeOrSleep(t)
  /\ notified' = notified \ {t}
  /\ UNCHANGED <<read_only_dbs_open, need_db, time, external>>

\* Bug variant: the counter is atomic, so somebody drops the mutex.
LockROUnlocked(t) ==
  /\ Goto(t, "ro_enter", AfterRO(t))
  /\ read_only_dbs_open' = read_only_dbs_open + 1
  /\ UNCHANGED <<db_open, notified, need_db, time, external>>

\* acquire_ro_lock: the counter is raised under the mutex.
LockRO(t) ==
  /\ db_open = NoThread
  /\ Goto(t, "ro_enter", AfterRO(t))
  /\ read_only_dbs_open' = read_only_dbs_open + 1
  /\ UNCHANGED <<db_open, notified, need_db, time, external>>

-----------------------------------------------------------------------------
\* What notmuch_database_open may answer: another writer is an exception of
\* Xapian for a read-write open, and may be one for a read-only open; any
\* other failure (no such database) is possible at any time.
OpenStatus(mode) ==
  {"other_error"}
    \cup (IF mode = "rw" /\ external THEN {} ELSE {"success"})
    \cup (IF external THEN {"xapian_exception"} ELSE {})

\* One round of the do-while loop of open_db_write and open_db_read_only.
\* A failure releases the lock (and throws).
OpenStep(t, mode, trying, opened, failed) ==
  /\ pc[t] = trying
  /\ \E s \in OpenStatus(mode) :
       \/ /\ s = "success"
          /\ pc' = [pc EXCEPT ![t] = opened]
          /\ UNCHANGED time
       \/ /\ s = "xapian_exception"
          /\ time' = [time EXCEPT ![t] = @ + db_open_delay]
          /\ pc' = [pc EXCEPT ![t] =
                      IF time'[t] <= db_open_timeout THEN trying ELSE failed]
       \/ /\ s = "other_error"
          /\ pc' = [pc EXCEPT ![t] = failed]
          /\ UNCHANGED time
  /\ UNCHANGED <<db_open, read_only_dbs_open, notified, need_db, external>>

\* Bug variants: a failed open throws without releasing the lock.
OpenRWLeak(t) == OpenStep(t, "rw", "rw_open", "rw", "rw_notify")
OpenRW(t) == OpenStep(t, "rw", "rw_open", "rw", "rw_release")
OpenRO(t) == OpenStep(t, "ro", "ro_open", "ro", "ro_release")

\* Db::close: notmuch_database_destroy, before the lock is released.
CloseRW(t) ==
  /\ Goto(t, "rw", "rw_release")
  /\ UNCHANGED <<db_open, read_only_dbs_open, notified, need_db, time, external>>

CloseRO(t) ==
  /\ Goto(t, "ro", "ro_release")
  /\ UNCHANGED <<db_open, read_only_dbs_open, notified, need_db, time, external>>

\* release_rw_lock: unlock, and later notify.
ReleaseRW(t) ==
  /\ Goto(t, "rw_release", "rw_notify")
  /\ db_open' = NoThread
  /\ UNCHANGED <<read_only_dbs_open, notified, need_db, time, external>>

\* Bug variant: release_ro_lock without notify_all.
ReleaseROSilent(t) ==
  /\ db_open = NoThread
  /\ Goto(t, "ro_release", "idle")
  /\ read_only_dbs_open' = read_only_dbs_open - 1
  /\ UNCHANGED <<db_open, notified, need_db, time, external>>

\* release_ro_lock: count down under the mutex, unlock, and later notify.
ReleaseRO(t) ==
  /\ db_open = NoThread
  /\ Goto(t, "ro_release", "ro_notify")
  /\ read_only_dbs_open' = read_only_dbs_open - 1
  /\ UNCHANGED <<db_open, notified, need_db, time, external>>

\* dbs_open.notify_all ()
NotifyAll(t) ==
  /\ \E from \in {"rw_notify", "ro_notify"} : Goto(t, from, "idle")
  /\ notified' = {u \in Thread : pc[u] = "rw_wait"}
  /\ UNCHANGED <<db_open, read_only_dbs_open, need_db, time, external>>

\* Another program takes Xapian's write lock, which excludes a read-write
\* database of ours, and gives it back.
ExternalBegin ==
  /\ ~external
  /\ \A t \in Thread : ~(pc[t] = "rw" /\ need_db[t])
  /\ external' = TRUE
  /\ UNCHANGED <<pc, db_open, read_only_dbs_open, notified, need_db, time>>

ExternalEnd ==
  /\ external
  /\ external' = FALSE
  /\ UNCHANGED <<pc, db_open, read_only_dbs_open, notified, need_db, time>>

-----------------------------------------------------------------------------
\* What a thread inside an operation of Db does next.
Step(t) ==
  \/ LockRW(t) \/ WakeRW(t) \/ OpenRW(t) \/ CloseRW(t) \/ ReleaseRW(t)
  \/ LockRO(t) \/ OpenRO(t) \/ CloseRO(t) \/ ReleaseRO(t)
  \/ NotifyAll(t)

Want(t) == \E need \in BOOLEAN : WantRW(t, need) \/ WantRO(t, need)

Next ==
  \/ \E t \in Thread : Want(t) \/ Step(t)
  \/ ExternalBegin
  \/ ExternalEnd

Spec == Init /\ [][Next]_vars

\* A thread inside an operation keeps running and every Db is closed in the
\* end; nobody is forced to open one, and the mutex favours nobody.
FairSpec == Spec /\ \A t \in Thread : WF_vars(Step(t))

-----------------------------------------------------------------------------
\* Values of the variables, and the waiters that can be notified.
TypeOK ==
  /\ pc \in [Thread -> PC]
  /\ db_open \in Thread \cup {NoThread}
  /\ read_only_dbs_open \in Int
  /\ notified \subseteq {t \in Thread : pc[t] = "rw_wait"}
  /\ need_db \in [Thread -> BOOLEAN]
  /\ time \in [Thread -> Nat]
  /\ external \in BOOLEAN

\* The mutex belongs to the thread with the read-write database.
MutexOwner == \A t \in Thread : pc[t] \in RWHeld <=> db_open = t

\* No read-only database is open while a read-write one is, and there is at
\* most one of those (the rules in src/src/db.hh), failed opens included.
Exclusion ==
  /\ Writers # {} => Readers = {}
  /\ \A t, u \in Writers : t = u

\* read_only_dbs_open is exact: every way out of a read-only open, an
\* exception of open_db_read_only included, counts down exactly once.
CountExact == read_only_dbs_open = Cardinality(Readers)

\* A sleeping writer has a reader to wait for, or a notification is on its
\* way: unlocking before notify_all loses no wake-up.
NoLostWakeup ==
  \A t \in Thread :
    pc[t] = "rw_wait" /\ t \notin notified =>
      \/ read_only_dbs_open > 0
      \/ \E u \in Thread : pc[u] = "ro_notify"

\* A thread waits for ever only while others keep opening the database:
\* nothing in the lock itself blocks anybody (deadlock or lost wake-up).
NoStuckWait ==
  \A t \in Thread :
    <>[](pc[t] \in {"ro_enter", "rw_enter", "rw_wait", "ro_release"})
      => []<>((Writers \cup Readers) \ {t} # {})

\* The lock of db.cc implements the rules of db.hh.
Abstract == INSTANCE ReadersWriter WITH readers <- Readers, writers <- Writers
ImplementsReadersWriter == Abstract!Spec

\* "db_open_timeout = 120; // seconds" (src/src/db.hh): opening gives up on
\* a database that another program holds only after that many seconds.
WaitsOutTimeout ==
  [][\A t \in Thread :
       /\ pc[t] \in {"rw_open", "ro_open"}
       /\ pc'[t] \in {"rw_release", "ro_release"}
       /\ time'[t] # time[t]
       => time'[t] >= 1000 * db_open_timeout]_vars

=============================================================================
