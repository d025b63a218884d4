---------------------------- MODULE DbLock_proofs ----------------------------
(***************************************************************************)
(* Proofs about DbLock for any number of threads and writers: the lock     *)
(* keeps readers and writers apart, its counter is exact, no wake-up is    *)
(* lost, and it implements ReadersWriter.                                  *)
(***************************************************************************)
EXTENDS DbLock, FiniteSetTheorems, TLAPS

\* No read-only database is open while a thread owns the mutex for a
\* read-write one.
NoReaderWithWriter == Writers # {} => Readers = {}

\* The inductive invariant.
IInv ==
  /\ TypeOK
  /\ MutexOwner
  /\ CountExact
  /\ NoReaderWithWriter
  /\ NoLostWakeup

-----------------------------------------------------------------------------
\* The open loop changes nothing but the step of its thread and the waiting
\* time: the thread tries again, has the database, or gives the lock back.
LEMMA OpenStepEffect ==
  ASSUME TypeOK, NEW t \in Thread, NEW mode, NEW trying, NEW opened, NEW failed,
         OpenStep(t, mode, trying, opened, failed)
  PROVE  /\ pc[t] = trying
         /\ \E to \in {trying, opened, failed} : pc' = [pc EXCEPT ![t] = to]
         /\ time' \in [Thread -> Nat]
         /\ UNCHANGED <<db_open, read_only_dbs_open, notified, need_db, external>>
<1>1. pc[t] = trying /\ UNCHANGED <<db_open, read_only_dbs_open, notified, need_db, external>>
  BY DEF OpenStep
<1>2. PICK s \in OpenStatus(mode) :
        \/ s = "success" /\ pc' = [pc EXCEPT ![t] = opened] /\ time' = time
        \/ /\ s = "xapian_exception"
           /\ time' = [time EXCEPT ![t] = @ + db_open_delay]
           /\ pc' = [pc EXCEPT ![t] = IF time'[t] <= db_open_timeout THEN trying ELSE failed]
        \/ s = "other_error" /\ pc' = [pc EXCEPT ![t] = failed] /\ time' = time
  BY DEF OpenStep
<1>3. time' \in [Thread -> Nat]
  BY <1>2, TimeAssumption DEF TypeOK
<1>4. \E to \in {trying, opened, failed} : pc' = [pc EXCEPT ![t] = to]
  BY <1>2
<1>5. QED
  BY <1>1, <1>3, <1>4

\* Counting a thread in and out of the readers.
LEMMA CountReaders ==
  ASSUME NEW S, NEW R \in SUBSET S, IsFiniteSet(S), NEW t
  PROVE  /\ IsFiniteSet(R)
         /\ Cardinality(R) \in Nat
         /\ t \notin R => Cardinality(R \cup {t}) = Cardinality(R) + 1
         /\ t \in R => Cardinality(R \ {t}) = Cardinality(R) - 1
         /\ Cardinality(R) = 0 <=> R = {}
BY FS_Subset, FS_CardinalityType, FS_AddElement, FS_RemoveElement, FS_EmptySet

\* How a step of thread t from one pc to another moves it between the sets.
LEMMA MoveThread ==
  ASSUME TypeOK, NEW t \in Thread, NEW from, NEW to,
         pc[t] = from, pc' = [pc EXCEPT ![t] = to]
  PROVE  /\ Readers' = IF to \in ROHeld THEN Readers \cup {t} ELSE Readers \ {t}
         /\ Writers' = IF to \in RWHeld THEN Writers \cup {t} ELSE Writers \ {t}
         /\ t \in Readers <=> from \in ROHeld
         /\ t \in Writers <=> from \in RWHeld
         /\ \A u \in Thread \ {t} : pc'[u] = pc[u]
         /\ pc'[t] = to
BY DEF TypeOK, Readers, Writers

\* What CountReaders says of the readers of the database.
LEMMA CountType ==
  ASSUME CountExact
  PROVE  /\ read_only_dbs_open \in Nat
         /\ read_only_dbs_open = 0 <=> Readers = {}
<1>1. Readers \in SUBSET Thread
  BY DEF Readers
<1>2. QED
  BY <1>1, CountReaders, ThreadAssumption DEF CountExact

LEMMA InitTypeOK == Init => TypeOK
<1> SUFFICES ASSUME Init PROVE TypeOK
  OBVIOUS
<1>1. pc \in [Thread -> PC]
  BY DEF Init, PC
<1>2. notified \subseteq {t \in Thread : pc[t] = "rw_wait"}
  BY DEF Init
<1>3. need_db \in [Thread -> BOOLEAN] /\ time \in [Thread -> Nat]
  BY DEF Init
<1>4. db_open \in Thread \cup {NoThread} /\ read_only_dbs_open \in Int
  BY DEF Init
<1>5. external \in BOOLEAN
  BY DEF Init
<1>6. QED
  BY <1>1, <1>2, <1>3, <1>4, <1>5 DEF TypeOK

-----------------------------------------------------------------------------
\* Type correctness (values of the variables; notified waiters do wait).
THEOREM TypeCorrect == Spec => []TypeOK
<1>1. Init => TypeOK
  BY InitTypeOK
<1>2. TypeOK /\ [Next]_vars => TypeOK'
  <2> SUFFICES ASSUME TypeOK, [Next]_vars PROVE TypeOK'
    OBVIOUS
  <2>1. ASSUME NEW t \in Thread, Want(t) PROVE TypeOK'
    BY <2>1 DEF Want, WantRW, WantRO, Goto, TypeOK, PC
  <2>2. ASSUME NEW t \in Thread, Step(t) PROVE TypeOK'
    <3>1. CASE LockRW(t)
      BY <3>1 DEF LockRW, TakeOrSleep, AfterRW, TypeOK, PC, RWHeld
    <3>2. CASE WakeRW(t)
      BY <3>2 DEF WakeRW, TakeOrSleep, AfterRW, TypeOK, PC, RWHeld
    <3>3. CASE OpenRW(t)
      BY <3>3, OpenStepEffect DEF OpenRW, TypeOK, PC, RWHeld
    <3>4. CASE CloseRW(t) \/ ReleaseRW(t)
      BY <3>4 DEF CloseRW, ReleaseRW, Goto, TypeOK, PC, RWHeld
    <3>5. CASE LockRO(t)
      BY <3>5 DEF LockRO, AfterRO, Goto, TypeOK, PC, ROHeld
    <3>6. CASE OpenRO(t)
      BY <3>6, OpenStepEffect DEF OpenRO, TypeOK, PC, ROHeld
    <3>7. CASE CloseRO(t) \/ ReleaseRO(t)
      BY <3>7 DEF CloseRO, ReleaseRO, Goto, TypeOK, PC, ROHeld
    <3>8. CASE NotifyAll(t)
      BY <3>8 DEF NotifyAll, Goto, TypeOK, PC
    <3>9. QED
      BY <2>2, <3>1, <3>2, <3>3, <3>4, <3>5, <3>6, <3>7, <3>8 DEF Step
  <2>3. CASE ExternalBegin \/ ExternalEnd
    BY <2>3 DEF ExternalBegin, ExternalEnd, TypeOK
  <2>4. CASE UNCHANGED vars
    BY <2>4 DEF vars, TypeOK
  <2>5. QED
    BY <2>1, <2>2, <2>3, <2>4 DEF Next
<1>3. QED
  BY <1>1, <1>2, PTL DEF Spec

-----------------------------------------------------------------------------
\* The invariant holds at first.
LEMMA InitIInv == Init => IInv
<1> SUFFICES ASSUME Init PROVE IInv
  OBVIOUS
<1>1. TypeOK
  BY InitTypeOK
<1>2. Readers = {} /\ Writers = {}
  BY DEF Init, Readers, Writers, RWHeld, ROHeld
<1>3. MutexOwner
  BY ThreadAssumption DEF Init, MutexOwner, RWHeld
<1>4. CountExact
  BY <1>2, FS_EmptySet DEF Init, CountExact
<1>5. NoLostWakeup
  BY DEF Init, NoLostWakeup
<1>6. QED
  BY <1>1, <1>2, <1>3, <1>4, <1>5 DEF IInv, NoReaderWithWriter

\* Every step that takes one thread from pc from to pc to, with its effect on
\* the mutex, the counter and the notifications.
Move(t, from, to) ==
  /\ pc[t] = from
  /\ pc' = [pc EXCEPT ![t] = to]

LEMMA MoveReaders ==
  ASSUME TypeOK, NEW t \in Thread, NEW from, NEW to, Move(t, from, to)
  PROVE  /\ (from \in ROHeld <=> to \in ROHeld) => Readers' = Readers
         /\ (from \in RWHeld <=> to \in RWHeld) => Writers' = Writers
<1>1. pc[t] = from /\ pc' = [pc EXCEPT ![t] = to]
  BY DEF Move
<1>2. /\ Readers' = IF to \in ROHeld THEN Readers \cup {t} ELSE Readers \ {t}
      /\ Writers' = IF to \in RWHeld THEN Writers \cup {t} ELSE Writers \ {t}
      /\ t \in Readers <=> from \in ROHeld
      /\ t \in Writers <=> from \in RWHeld
  BY <1>1, MoveThread
<1>3. QED
  BY <1>2

\* A step that leaves the lock alone: the thread holds before and after what
\* it held, and neither starts to wait nor owes a notification.
LEMMA QuietMove ==
  ASSUME IInv, TypeOK', NEW t \in Thread, NEW from, NEW to, Move(t, from, to),
         from \in RWHeld <=> to \in RWHeld, from \in ROHeld <=> to \in ROHeld,
         from \notin {"rw_wait", "ro_notify"}, to # "rw_wait",
         UNCHANGED <<db_open, read_only_dbs_open, notified>>
  PROVE  IInv'
<1>1. Readers' = Readers /\ Writers' = Writers
  BY MoveReaders DEF IInv
<1>2. MutexOwner'
  BY DEF IInv, MutexOwner, Move, TypeOK
<1>3. CountExact' /\ NoReaderWithWriter'
  BY <1>1 DEF IInv, CountExact, NoReaderWithWriter
<1>4. NoLostWakeup'
  BY DEF IInv, NoLostWakeup, Move, TypeOK
<1>5. QED
  BY <1>2, <1>3, <1>4 DEF IInv

\* A writer that finds no reader takes the mutex, another goes to sleep.
LEMMA TakeOrSleepIInv ==
  ASSUME IInv, TypeOK', NEW t \in Thread, TakeOrSleep(t), db_open = NoThread,
         pc[t] \in {"rw_enter", "rw_wait"}, read_only_dbs_open' = read_only_dbs_open,
         notified' = notified \/ notified' = notified \ {t}
  PROVE  IInv'
<1>1. CASE /\ read_only_dbs_open = 0
           /\ db_open' = t
           /\ pc' = [pc EXCEPT ![t] = AfterRW(t)]
  <2>1. AfterRW(t) \in RWHeld /\ AfterRW(t) \notin ROHeld /\ AfterRW(t) # "rw_wait"
    BY DEF AfterRW, RWHeld, ROHeld
  <2>2. Readers = {}
    BY <1>1, CountType DEF IInv
  <2>3. Readers' = {}
    BY <1>1, <2>1, <2>2, MoveThread DEF IInv
  <2>4. CountExact' /\ NoReaderWithWriter'
    BY <1>1, <2>3, FS_EmptySet DEF CountExact, NoReaderWithWriter
  <2>5. MutexOwner'
    BY <1>1, <2>1, ThreadAssumption DEF IInv, MutexOwner, TypeOK
  <2>6. NoLostWakeup'
    BY <1>1, <2>1 DEF IInv, NoLostWakeup, TypeOK
  <2>7. QED
    BY <2>4, <2>5, <2>6 DEF IInv
<1>2. CASE /\ read_only_dbs_open # 0
           /\ pc' = [pc EXCEPT ![t] = "rw_wait"]
           /\ UNCHANGED db_open
  <2>1. Readers' = Readers /\ Writers' = Writers
    <3>1. Move(t, pc[t], "rw_wait")
      BY <1>2 DEF Move
    <3>2. /\ "rw_wait" \notin RWHeld \cup ROHeld
          /\ pc[t] \notin RWHeld \cup ROHeld
      BY DEF RWHeld, ROHeld
    <3>3. QED
      BY <3>1, <3>2, MoveReaders DEF IInv
  <2>2. CountExact' /\ NoReaderWithWriter'
    BY <2>1 DEF IInv, CountExact, NoReaderWithWriter
  <2>3. MutexOwner'
    BY <1>2 DEF IInv, MutexOwner, TypeOK, RWHeld
  <2>4. read_only_dbs_open > 0
    BY <1>2, CountType DEF IInv
  <2>5. NoLostWakeup'
    BY <2>4 DEF NoLostWakeup
  <2>6. QED
    BY <2>2, <2>3, <2>5 DEF IInv
<1>3. QED
  BY <1>1, <1>2 DEF TakeOrSleep

\* A thread counts itself among the readers while the mutex is free.
LEMMA LockROIInv ==
  ASSUME IInv, TypeOK', NEW t \in Thread, LockRO(t)
  PROVE  IInv'
<1>1. AfterRO(t) \in ROHeld /\ AfterRO(t) \notin RWHeld
  BY DEF AfterRO, ROHeld, RWHeld
<1>2. "ro_enter" \notin ROHeld \cup RWHeld
  BY DEF ROHeld, RWHeld
<1>3. pc[t] = "ro_enter" /\ pc' = [pc EXCEPT ![t] = AfterRO(t)]
  BY DEF LockRO, Goto
<1>4. Readers' = Readers \cup {t} /\ t \notin Readers
  BY <1>1, <1>2, <1>3, MoveThread DEF IInv
<1>5. Writers' = Writers
  BY <1>1, <1>2, <1>3, MoveReaders DEF IInv, Move
<1>6. CountExact'
  <2>1. Readers \in SUBSET Thread
    BY DEF Readers
  <2>2. Cardinality(Readers \cup {t}) = Cardinality(Readers) + 1
    BY <1>4, <2>1, CountReaders, ThreadAssumption
  <2>3. QED
    BY <1>4, <2>2 DEF LockRO, IInv, CountExact
<1>7. Writers = {}
  BY ThreadAssumption DEF LockRO, IInv, MutexOwner, Writers
<1>8. NoReaderWithWriter'
  BY <1>5, <1>7 DEF NoReaderWithWriter
<1>9. MutexOwner'
  BY <1>1, <1>2, <1>3 DEF LockRO, IInv, MutexOwner, TypeOK
<1>10. NoLostWakeup'
  <2>1. read_only_dbs_open' > 0
    BY CountType DEF LockRO, IInv
  <2>2. QED
    BY <2>1 DEF NoLostWakeup
<1>11. QED
  BY <1>6, <1>8, <1>9, <1>10 DEF IInv

\* A reader counts itself out and owes the sleeping writers a notification.
LEMMA ReleaseROIInv ==
  ASSUME IInv, TypeOK', NEW t \in Thread, ReleaseRO(t)
  PROVE  IInv'
<1>1. "ro_release" \in ROHeld \ RWHeld /\ "ro_notify" \notin ROHeld \cup RWHeld
  BY DEF ROHeld, RWHeld
<1>2. pc[t] = "ro_release" /\ pc' = [pc EXCEPT ![t] = "ro_notify"]
  BY DEF ReleaseRO, Goto
<1>3. Readers' = Readers \ {t} /\ t \in Readers
  BY <1>1, <1>2, MoveThread DEF IInv
<1>4. Writers' = Writers
  BY <1>1, <1>2, MoveReaders DEF IInv, Move
<1>5. CountExact'
  <2>1. Readers \in SUBSET Thread
    BY DEF Readers
  <2>2. Cardinality(Readers \ {t}) = Cardinality(Readers) - 1
    BY <1>3, <2>1, CountReaders, ThreadAssumption
  <2>3. QED
    BY <1>3, <2>2 DEF ReleaseRO, IInv, CountExact
<1>6. NoReaderWithWriter'
  BY <1>3, <1>4 DEF IInv, NoReaderWithWriter
<1>7. MutexOwner'
  BY <1>1, <1>2 DEF ReleaseRO, IInv, MutexOwner, TypeOK
<1>8. NoLostWakeup'
  <2>1. pc'[t] = "ro_notify"
    BY <1>2 DEF IInv, TypeOK
  <2>2. QED
    BY <2>1 DEF NoLostWakeup
<1>9. QED
  BY <1>5, <1>6, <1>7, <1>8 DEF IInv

\* A writer gives the mutex back.
LEMMA ReleaseRWIInv ==
  ASSUME IInv, TypeOK', NEW t \in Thread, ReleaseRW(t)
  PROVE  IInv'
<1>1. "rw_release" \in RWHeld \ ROHeld /\ "rw_notify" \notin ROHeld \cup RWHeld
  BY DEF ROHeld, RWHeld
<1>2. pc[t] = "rw_release" /\ pc' = [pc EXCEPT ![t] = "rw_notify"]
  BY DEF ReleaseRW, Goto
<1>3. Readers' = Readers
  BY <1>1, <1>2, MoveReaders DEF IInv, Move
<1>4. Writers' = Writers \ {t} /\ t \in Writers
  BY <1>1, <1>2, MoveThread DEF IInv
<1>5. CountExact' /\ NoReaderWithWriter'
  BY <1>3, <1>4 DEF ReleaseRW, IInv, CountExact, NoReaderWithWriter
<1>6. MutexOwner'
  BY <1>1, <1>2, ThreadAssumption DEF ReleaseRW, IInv, MutexOwner, TypeOK
<1>7. NoLostWakeup'
  BY <1>2 DEF ReleaseRW, IInv, NoLostWakeup, TypeOK
<1>8. QED
  BY <1>5, <1>6, <1>7 DEF IInv

\* notify_all reaches everybody who sleeps.
LEMMA NotifyAllIInv ==
  ASSUME IInv, TypeOK', NEW t \in Thread, NotifyAll(t)
  PROVE  IInv'
<1>1. PICK from \in {"rw_notify", "ro_notify"} : Move(t, from, "idle")
  BY DEF NotifyAll, Goto, Move
<1>2. from \notin ROHeld \cup RWHeld /\ "idle" \notin ROHeld \cup RWHeld
  BY DEF ROHeld, RWHeld
<1>3. Readers' = Readers /\ Writers' = Writers
  BY <1>1, <1>2, MoveReaders DEF IInv
<1>4. CountExact' /\ NoReaderWithWriter'
  BY <1>3 DEF NotifyAll, IInv, CountExact, NoReaderWithWriter
<1>5. MutexOwner'
  BY <1>1, <1>2 DEF Move, NotifyAll, IInv, MutexOwner, TypeOK
<1>6. NoLostWakeup'
  BY <1>1 DEF Move, NotifyAll, IInv, NoLostWakeup, TypeOK
<1>7. QED
  BY <1>4, <1>5, <1>6 DEF IInv

\* Every step preserves the invariant.
LEMMA NextIInv == IInv /\ TypeOK' /\ [Next]_vars => IInv'
<1> SUFFICES ASSUME IInv, TypeOK', [Next]_vars PROVE IInv'
  OBVIOUS
<1>1. ASSUME NEW t \in Thread, Want(t) PROVE IInv'
  <2>1. PICK to \in {"rw_enter", "ro_enter"} : Move(t, "idle", to)
    BY <1>1 DEF Want, WantRW, WantRO, Goto, Move
  <2>2. UNCHANGED <<db_open, read_only_dbs_open, notified>>
    BY <1>1 DEF Want, WantRW, WantRO
  <2>3. "idle" \notin RWHeld \cup ROHeld /\ to \notin RWHeld \cup ROHeld
    BY DEF RWHeld, ROHeld
  <2>4. QED
    BY <2>1, <2>2, <2>3, QuietMove
<1>2. ASSUME NEW t \in Thread, Step(t) PROVE IInv'
  <2>1. CASE LockRW(t)
    BY <2>1, TakeOrSleepIInv DEF LockRW
  <2>2. CASE WakeRW(t)
    BY <2>2, TakeOrSleepIInv DEF WakeRW
  <2>3. CASE OpenRW(t)
    <3>1. PICK to \in {"rw_open", "rw", "rw_release"} : Move(t, "rw_open", to)
      BY <2>3, OpenStepEffect DEF IInv, OpenRW, Move
    <3>2. UNCHANGED <<db_open, read_only_dbs_open, notified>>
      BY <2>3 DEF OpenRW, OpenStep
    <3>3. {"rw_open", "rw", "rw_release"} \subseteq RWHeld \ ROHeld
      BY DEF RWHeld, ROHeld
    <3>4. to # "rw_wait"
      OBVIOUS
    <3>5. QED
      BY <3>1, <3>2, <3>3, <3>4, QuietMove
  <2>4. CASE CloseRW(t)
    <3>1. "rw" \in RWHeld \ ROHeld /\ "rw_release" \in RWHeld \ ROHeld
      BY DEF RWHeld, ROHeld
    <3>2. QED
      BY <2>4, <3>1, QuietMove DEF CloseRW, Goto, Move
  <2>5. CASE ReleaseRW(t)
    BY <2>5, ReleaseRWIInv
  <2>6. CASE LockRO(t)
    BY <2>6, LockROIInv
  <2>7. CASE OpenRO(t)
    <3>1. PICK to \in {"ro_open", "ro", "ro_release"} : Move(t, "ro_open", to)
      BY <2>7, OpenStepEffect DEF IInv, OpenRO, Move
    <3>2. UNCHANGED <<db_open, read_only_dbs_open, notified>>
      BY <2>7 DEF OpenRO, OpenStep
    <3>3. {"ro_open", "ro", "ro_release"} \subseteq ROHeld \ RWHeld
      BY DEF RWHeld, ROHeld
    <3>4. to # "rw_wait"
      OBVIOUS
    <3>5. QED
      BY <3>1, <3>2, <3>3, <3>4, QuietMove
  <2>8. CASE CloseRO(t)
    <3>1. "ro" \in ROHeld \ RWHeld /\ "ro_release" \in ROHeld \ RWHeld
      BY DEF RWHeld, ROHeld
    <3>2. QED
      BY <2>8, <3>1, QuietMove DEF CloseRO, Goto, Move
  <2>9. CASE ReleaseRO(t)
    BY <2>9, ReleaseROIInv
  <2>10. CASE NotifyAll(t)
    BY <2>10, NotifyAllIInv
  <2>11. QED
    BY <1>2, <2>1, <2>2, <2>3, <2>4, <2>5, <2>6, <2>7, <2>8, <2>9, <2>10 DEF Step
<1>3. CASE UNCHANGED <<pc, db_open, read_only_dbs_open, notified>>
  <2>1. Readers' = Readers /\ Writers' = Writers
    BY <1>3 DEF Readers, Writers
  <2>2. CountExact' /\ NoReaderWithWriter'
    BY <1>3, <2>1 DEF IInv, CountExact, NoReaderWithWriter
  <2>3. MutexOwner' /\ NoLostWakeup'
    BY <1>3 DEF IInv, MutexOwner, NoLostWakeup
  <2>4. QED
    BY <2>2, <2>3 DEF IInv
<1>4. ExternalBegin \/ ExternalEnd \/ UNCHANGED vars
        => UNCHANGED <<pc, db_open, read_only_dbs_open, notified>>
  BY DEF ExternalBegin, ExternalEnd, vars
<1>5. QED
  BY <1>1, <1>2, <1>3, <1>4 DEF Next

LEMMA Inductive == Spec => []IInv
<1>1. IInv /\ TypeOK' /\ [Next]_vars => IInv'
  BY NextIInv
<1>2. QED
  BY InitIInv, <1>1, TypeCorrect, PTL DEF Spec

-----------------------------------------------------------------------------
\* One read-write database at most, and no read-only one beside it: the rules
\* of src/src/db.hh, whatever opens fail.
LEMMA IInvExclusion == IInv => Exclusion
BY ThreadAssumption DEF IInv, NoReaderWithWriter, MutexOwner, Exclusion, Writers

THEOREM ExclusionHolds == Spec => []Exclusion
BY Inductive, IInvExclusion, PTL

\* The counter of src/src/db.cc counts the read-only databases exactly.
THEOREM CountIsExact == Spec => []CountExact
<1>1. IInv => CountExact
  BY DEF IInv
<1>2. QED
  BY <1>1, Inductive, PTL

\* release_ro_lock unlocks before it notifies and still loses no wake-up.
THEOREM WakeupsKept == Spec => []NoLostWakeup
<1>1. IInv => NoLostWakeup
  BY DEF IInv
<1>2. QED
  BY <1>1, Inductive, PTL

-----------------------------------------------------------------------------
\* Every step of the lock is a step of the abstract readers-writer lock, or
\* does not show there.
LEMMA StepSimulation ==
  IInv /\ IInv' /\ [Next]_vars => [Abstract!Next]_(Abstract!rwvars)
<1> SUFFICES ASSUME IInv, IInv', [Next]_vars
             PROVE  [Abstract!Next]_(Abstract!rwvars)
  OBVIOUS
<1>1. ASSUME NEW t \in Thread, NEW from, NEW to, Move(t, from, to),
             from \in RWHeld <=> to \in RWHeld, from \in ROHeld <=> to \in ROHeld
      PROVE  UNCHANGED Abstract!rwvars
  BY <1>1, MoveReaders DEF IInv, Abstract!rwvars
<1>2. ASSUME NEW t \in Thread, TakeOrSleep(t), pc[t] \in {"rw_enter", "rw_wait"}
      PROVE  [Abstract!Next]_(Abstract!rwvars)
  <2>1. pc[t] \notin RWHeld \cup ROHeld
    BY <1>2 DEF RWHeld, ROHeld
  <2>2. CASE read_only_dbs_open = 0 /\ db_open' = t /\ pc' = [pc EXCEPT ![t] = AfterRW(t)]
    <3>1. AfterRW(t) \in RWHeld \ ROHeld
      BY DEF AfterRW, RWHeld, ROHeld
    <3>2. Readers' = Readers /\ Readers = {}
      BY <2>1, <2>2, <3>1, MoveReaders, CountType DEF IInv, Move
    <3>3. Writers' = Writers \cup {t}
      BY <2>2, <3>1, MoveThread DEF IInv
    <3>4. t \notin Writers /\ t \in Writers'
      BY <2>1, <3>3 DEF Writers
    <3>5. \A u \in Writers' : u = t
      BY <2>2, ThreadAssumption DEF IInv, MutexOwner, Writers
    <3>6. Writers = {} /\ Writers' = {t}
      BY <3>3, <3>4, <3>5
    <3>7. QED
      BY <3>2, <3>6 DEF Abstract!Next, Abstract!AcquireRW
  <2>3. CASE pc' = [pc EXCEPT ![t] = "rw_wait"]
    <3>1. "rw_wait" \notin RWHeld \cup ROHeld
      BY DEF RWHeld, ROHeld
    <3>2. QED
      BY <1>1, <2>1, <2>3, <3>1 DEF Move
  <2>4. QED
    BY <1>2, <2>2, <2>3 DEF TakeOrSleep
<1>3. ASSUME NEW t \in Thread, Want(t) PROVE [Abstract!Next]_(Abstract!rwvars)
  <2>1. PICK to \in {"rw_enter", "ro_enter"} : Move(t, "idle", to)
    BY <1>3 DEF Want, WantRW, WantRO, Goto, Move
  <2>2. "idle" \notin RWHeld \cup ROHeld /\ to \notin RWHeld \cup ROHeld
    BY DEF RWHeld, ROHeld
  <2>3. QED
    BY <1>1, <2>1, <2>2
<1>4. ASSUME NEW t \in Thread, Step(t) PROVE [Abstract!Next]_(Abstract!rwvars)
  <2>1. CASE LockRW(t) \/ WakeRW(t)
    BY <1>2, <2>1 DEF LockRW, WakeRW
  <2>2. CASE OpenRW(t)
    <3>1. PICK to \in {"rw_open", "rw", "rw_release"} : Move(t, "rw_open", to)
      BY <2>2, OpenStepEffect DEF IInv, OpenRW, Move
    <3>2. {"rw_open", "rw", "rw_release"} \subseteq RWHeld \ ROHeld
      BY DEF RWHeld, ROHeld
    <3>3. QED
      BY <1>1, <3>1, <3>2
  <2>3. CASE OpenRO(t)
    <3>1. PICK to \in {"ro_open", "ro", "ro_release"} : Move(t, "ro_open", to)
      BY <2>3, OpenStepEffect DEF IInv, OpenRO, Move
    <3>2. {"ro_open", "ro", "ro_release"} \subseteq ROHeld \ RWHeld
      BY DEF RWHeld, ROHeld
    <3>3. QED
      BY <1>1, <3>1, <3>2
  <2>4. CASE CloseRW(t) \/ CloseRO(t)
    <3>1. /\ {"rw", "rw_release"} \subseteq RWHeld \ ROHeld
          /\ {"ro", "ro_release"} \subseteq ROHeld \ RWHeld
      BY DEF RWHeld, ROHeld
    <3>2. Move(t, "rw", "rw_release") \/ Move(t, "ro", "ro_release")
      BY <2>4 DEF CloseRW, CloseRO, Goto, Move
    <3>3. QED
      BY <1>1, <3>1, <3>2
  <2>5. CASE ReleaseRW(t)
    <3>1. "rw_release" \in RWHeld \ ROHeld /\ "rw_notify" \notin ROHeld \cup RWHeld
      BY DEF ROHeld, RWHeld
    <3>2. Move(t, "rw_release", "rw_notify")
      BY <2>5 DEF ReleaseRW, Goto, Move
    <3>3. Readers' = Readers
      BY <3>1, <3>2, MoveReaders DEF IInv
    <3>4. Writers' = Writers \ {t} /\ t \in Writers
      BY <3>1, <3>2, MoveThread DEF IInv, Move
    <3>5. QED
      BY <3>3, <3>4 DEF Abstract!Next, Abstract!ReleaseRW
  <2>6. CASE LockRO(t)
    <3>1. AfterRO(t) \in ROHeld \ RWHeld /\ "ro_enter" \notin ROHeld \cup RWHeld
      BY DEF AfterRO, ROHeld, RWHeld
    <3>2. Move(t, "ro_enter", AfterRO(t))
      BY <2>6 DEF LockRO, Goto, Move
    <3>3. Writers' = Writers
      BY <3>1, <3>2, MoveReaders DEF IInv
    <3>4. Readers' = Readers \cup {t} /\ t \notin Readers
      BY <3>1, <3>2, MoveThread DEF IInv, Move
    <3>5. Writers = {}
      BY <2>6, ThreadAssumption DEF LockRO, IInv, MutexOwner, Writers
    <3>6. QED
      BY <3>3, <3>4, <3>5 DEF Abstract!Next, Abstract!AcquireRO
  <2>7. CASE ReleaseRO(t)
    <3>1. "ro_release" \in ROHeld \ RWHeld /\ "ro_notify" \notin ROHeld \cup RWHeld
      BY DEF ROHeld, RWHeld
    <3>2. Move(t, "ro_release", "ro_notify")
      BY <2>7 DEF ReleaseRO, Goto, Move
    <3>3. Writers' = Writers
      BY <3>1, <3>2, MoveReaders DEF IInv
    <3>4. Readers' = Readers \ {t} /\ t \in Readers
      BY <3>1, <3>2, MoveThread DEF IInv, Move
    <3>5. QED
      BY <3>3, <3>4 DEF Abstract!Next, Abstract!ReleaseRO
  <2>8. CASE NotifyAll(t)
    <3>1. PICK from \in {"rw_notify", "ro_notify"} : Move(t, from, "idle")
      BY <2>8 DEF NotifyAll, Goto, Move
    <3>2. from \notin ROHeld \cup RWHeld /\ "idle" \notin ROHeld \cup RWHeld
      BY DEF ROHeld, RWHeld
    <3>3. QED
      BY <1>1, <3>1, <3>2
  <2>9. QED
    BY <1>4, <2>1, <2>2, <2>3, <2>4, <2>5, <2>6, <2>7, <2>8 DEF Step
<1>5. CASE ExternalBegin \/ ExternalEnd \/ UNCHANGED vars
  BY <1>5 DEF ExternalBegin, ExternalEnd, vars, Abstract!rwvars, Readers, Writers
<1>6. QED
  BY <1>3, <1>4, <1>5 DEF Next

\* The lock of src/src/db.cc implements the rules of src/src/db.hh.
THEOREM Implements == Spec => ImplementsReadersWriter
<1>1. Init => Abstract!Init
  BY DEF Init, Abstract!Init, Readers, Writers, RWHeld, ROHeld
<1>2. IInv /\ IInv' /\ [Next]_vars => [Abstract!Next]_(Abstract!rwvars)
  BY StepSimulation
<1>3. QED
  BY <1>1, <1>2, Inductive, PTL DEF Spec, ImplementsReadersWriter, Abstract!Spec

=============================================================================
