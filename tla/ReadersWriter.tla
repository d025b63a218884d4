---------------------------- MODULE ReadersWriter ----------------------------
(***************************************************************************)
(* What the comment on class Db promises (src/src/db.hh): any number of    *)
(* read-only databases may be open at once, at most one read-write         *)
(* database, and never both kinds together.  The sets hold the threads     *)
(* that have a database open (or hold the lock for an external program).   *)
(*                                                                         *)
(* DbLock is shown to implement this module; ActionManager uses its        *)
(* actions where the code opens and closes a Db.                           *)
(***************************************************************************)
CONSTANT Thread

VARIABLES readers, writers

rwvars == <<readers, writers>>

Init == readers = {} /\ writers = {}

\* Db (DATABASE_READ_ONLY), acquire_ro_lock: waits for the writer only.
AcquireRO(t) ==
  /\ t \notin readers \cup writers
  /\ writers = {}
  /\ readers' = readers \cup {t}
  /\ UNCHANGED writers

\* Db::close of a read-only database, release_ro_lock.
ReleaseRO(t) ==
  /\ t \in readers
  /\ readers' = readers \ {t}
  /\ UNCHANGED writers

\* Db (DATABASE_READ_WRITE), acquire_rw_lock: waits for everybody.
AcquireRW(t) ==
  /\ readers = {}
  /\ writers = {}
  /\ writers' = {t}
  /\ UNCHANGED readers

\* Db::close of a read-write database, release_rw_lock.
ReleaseRW(t) ==
  /\ t \in writers
  /\ writers' = writers \ {t}
  /\ UNCHANGED readers

Next == \E t \in Thread :
  AcquireRO(t) \/ ReleaseRO(t) \/ AcquireRW(t) \/ ReleaseRW(t)

Spec == Init /\ [][Next]_rwvars

\* The rules of src/src/db.hh: one read-write database at most, and no
\* read-only database while it is open.
Exclusion ==
  /\ writers # {} => readers = {}
  /\ \A t, u \in writers : t = u

=============================================================================
