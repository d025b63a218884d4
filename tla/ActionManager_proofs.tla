------------------------ MODULE ActionManager_proofs ------------------------
(***************************************************************************)
(* Proofs about ActionManager, for any set of actions.                     *)
(***************************************************************************)
EXTENDS ActionManager, QueueFacts, TLAPS

-----------------------------------------------------------------------------
(* Type correctness. *)

LEMMA InitTypeOK == Init => TypeOK
<1> SUFFICES ASSUME Init PROVE TypeOK
  OBVIOUS
<1>1. /\ actions \in Seq(Action) /\ doneactions \in Seq(Action) /\ toemit \in Seq(Action)
      /\ in_undo \subseteq Action
      /\ wpc = "check" /\ popped = None
      /\ gpc = "idle" /\ gact = None
      /\ ready \in Nat
      /\ requested \subseteq Action /\ applied \subseteq Action /\ shown \subseteq Action
  BY DEF Init
<1>2. run \in BOOLEAN /\ emit \in BOOLEAN /\ wake \in BOOLEAN
  BY DEF Init
<1>3. readers \subseteq DbThread /\ writers \subseteq DbThread
  BY DEF Init, Lock!Init
<1>4. QED
  BY <1>1, <1>2, <1>3 DEF TypeOK

\* The database lock never holds anything but the three threads.
LEMMA LockType ==
  ASSUME TypeOK, NEW t \in DbThread,
         \/ Lock!AcquireRO(t) \/ Lock!ReleaseRO(t)
         \/ Lock!AcquireRW(t) \/ Lock!ReleaseRW(t)
  PROVE  readers' \subseteq DbThread /\ writers' \subseteq DbThread
BY DEF TypeOK, Lock!AcquireRO, Lock!ReleaseRO, Lock!AcquireRW, Lock!ReleaseRW

\* notify_one sets nothing but a flag.
LEMMA NotifyType ==
  ASSUME TypeOK, Notify
  PROVE  wake' \in BOOLEAN
BY DEF TypeOK, Notify

LEMMA UserTypeOK == TypeOK /\ UserAction => TypeOK'
<1> SUFFICES ASSUME TypeOK, UserAction PROVE TypeOK'
  OBVIOUS
<1> USE DEF vars, queues, wvars, gvars, dbvars
<1>1. ASSUME NEW a \in Action, Doit(a) PROVE TypeOK'
  <2>1. actions' \in Seq(Action)
    BY <1>1, AppendFacts DEF TypeOK, Doit, Queue
  <2>2. wake' \in BOOLEAN
    BY <1>1, NotifyType DEF Doit, Queue
  <2>3. QED
    BY <1>1, <2>1, <2>2 DEF TypeOK, Doit
<1>2. CASE UndoQueued
  <2>1. actions' \in Seq(Action)
    BY <1>2, FrontFacts DEF TypeOK, UndoQueued
  <2>2. QED
    BY <1>2, <2>1 DEF TypeOK, UndoQueued
<1>3. CASE UndoDone
  <2>1. doneactions' \in Seq(Action) /\ gact' \in Action
    BY <1>3, FrontFacts DEF TypeOK, UndoDone
  <2>2. gact' # None
    BY <2>1, ActionAssumption
  <2>3. QED
    BY <1>3, <2>1, <2>2 DEF TypeOK, UndoDone
<1>4. CASE ReadBegin
  <2>1. readers' \subseteq DbThread /\ writers' \subseteq DbThread
    BY <1>4, LockType DEF ReadBegin, DbThread
  <2>2. QED
    BY <1>4, <2>1 DEF TypeOK, ReadBegin
<1>5. CASE CloseBegin
  BY <1>5 DEF TypeOK, CloseBegin
<1>6. QED
  BY <1>1, <1>2, <1>3, <1>4, <1>5 DEF UserAction

\* The emitter takes an action without looking: the types rest on
\* EmitterFindsAction here.
LEMMA GuiTypeOK == TypeOK /\ EmitterFindsAction /\ GuiStep => TypeOK'
<1> SUFFICES ASSUME TypeOK, EmitterFindsAction, GuiStep PROVE TypeOK'
  OBVIOUS
<1> USE DEF vars, queues, wvars, gvars, dbvars
<1>1. CASE Requeue
  <2>1. gact \in Action
    BY <1>1 DEF TypeOK, Requeue
  <2>2. actions' \in Seq(Action)
    BY <1>1, <2>1, AppendFacts DEF TypeOK, Requeue, Queue
  <2>3. wake' \in BOOLEAN
    BY <1>1, NotifyType DEF Requeue, Queue
  <2>4. QED
    BY <1>1, <2>2, <2>3 DEF TypeOK, Requeue
<1>2. CASE EmitReady
  <2>1. ready' \in Nat
    BY <1>2 DEF TypeOK, EmitReady
  <2>2. QED
    BY <1>2, <2>1 DEF TypeOK, EmitReady
<1>3. CASE EmitCheck
  BY <1>3 DEF TypeOK, EmitCheck
<1>4. CASE EmitOpen
  <2>1. readers' \subseteq DbThread /\ writers' \subseteq DbThread
    BY <1>4, LockType DEF EmitOpen, DbThread
  <2>2. QED
    BY <1>4, <2>1 DEF TypeOK, EmitOpen
<1>5. CASE EmitSignal
  <2>1. readers' \subseteq DbThread /\ writers' \subseteq DbThread
    BY <1>5, LockType DEF EmitSignal, DbThread
  <2>2. shown' \subseteq Action
    BY <1>5 DEF TypeOK, EmitSignal
  <2>3. QED
    BY <1>5, <2>1, <2>2 DEF TypeOK, EmitSignal
<1>6. CASE ReadEnd
  <2>1. readers' \subseteq DbThread /\ writers' \subseteq DbThread
    BY <1>6, LockType DEF ReadEnd, DbThread
  <2>2. QED
    BY <1>6, <2>1 DEF TypeOK, ReadEnd
<1>7. CASE CloseStop
  <2>1. wake' \in BOOLEAN
    BY <1>7, NotifyType DEF CloseStop
  <2>2. QED
    BY <1>7, <2>1 DEF TypeOK, CloseStop
<1>8. CASE CloseJoin
  BY <1>8 DEF TypeOK, CloseJoin
<1>9. CASE EmitPop
  <2>1. toemit # <<>>
    BY <1>9 DEF EmitPop, EmitterFindsAction
  <2>2. toemit' \in Seq(Action) /\ gact' \in Action
    BY <1>9, <2>1, TailFacts DEF TypeOK, EmitPop
  <2>3. gact' # None
    BY <2>2, ActionAssumption
  <2>4. QED
    BY <1>9, <2>2, <2>3 DEF TypeOK, EmitPop
<1>10. QED
  BY <1>1, <1>2, <1>3, <1>4, <1>5, <1>6, <1>7, <1>8, <1>9 DEF GuiStep

LEMMA WorkerTypeOK == TypeOK /\ WorkerStep => TypeOK'
<1> SUFFICES ASSUME TypeOK, WorkerStep PROVE TypeOK'
  OBVIOUS
<1> USE DEF vars, queues, wvars, gvars, dbvars
<1>1. CASE WorkerCheck
  BY <1>1 DEF TypeOK, WorkerCheck
<1>2. CASE WorkerWait
  <2>1. wpc \notin {"db", "relock"} /\ wpc' \in {"loop", "wait"}
    BY <1>2 DEF WorkerWait
  <2>2. QED
    BY <1>2, <2>1 DEF TypeOK, WorkerWait
<1>3. CASE WorkerPop
  <2>1. actions' \in Seq(Action) /\ popped' \in Action
    BY <1>3, TailFacts DEF TypeOK, WorkerPop
  <2>2. popped' # None
    BY <2>1, ActionAssumption
  <2>3. QED
    BY <1>3, <2>1, <2>2 DEF TypeOK, WorkerPop
<1>4. CASE WorkerOpen
  <2>1. readers' \subseteq DbThread /\ writers' \subseteq DbThread
    BY <1>4, LockType DEF WorkerOpen, DbThread
  <2>2. QED
    BY <1>4, <2>1 DEF TypeOK, WorkerOpen
<1>5. CASE WorkerPerform
  <2>1. popped \in Action
    BY <1>5 DEF TypeOK, WorkerPerform
  <2>2. doneactions' \in Seq(Action) /\ toemit' \in Seq(Action)
    BY <1>5, <2>1, AppendFacts DEF TypeOK, WorkerPerform
  <2>3. readers' \subseteq DbThread /\ writers' \subseteq DbThread
    BY <1>5, LockType DEF WorkerPerform, DbThread
  <2>4. applied' \subseteq Action
    BY <1>5, <2>1 DEF TypeOK, WorkerPerform
  <2>5. QED
    BY <1>5, <2>2, <2>3, <2>4 DEF TypeOK, WorkerPerform
<1>6. CASE WorkerDrained
  BY <1>6 DEF TypeOK, WorkerDrained
<1>7. CASE WorkerSignal
  <2>1. ready' \in Nat
    BY <1>7 DEF TypeOK, WorkerSignal
  <2>2. QED
    BY <1>7, <2>1 DEF TypeOK, WorkerSignal
<1>8. QED
  BY <1>1, <1>2, <1>3, <1>4, <1>5, <1>6, <1>7 DEF WorkerStep

LEMMA LoaderTypeOK == TypeOK /\ (LoaderOpen \/ LoaderClose) => TypeOK'
<1> SUFFICES ASSUME TypeOK, LoaderOpen \/ LoaderClose PROVE TypeOK'
  OBVIOUS
<1>1. readers' \subseteq DbThread /\ writers' \subseteq DbThread
  BY LockType DEF LoaderOpen, LoaderClose, DbThread
<1>2. QED
  BY <1>1 DEF TypeOK, LoaderOpen, LoaderClose, queues, wvars, gvars

-----------------------------------------------------------------------------
(* Emission.  The inductive invariant: the types, the emitter's unlocked   *)
(* look at toemit, and somebody on the way to every action in it.          *)

EmitInv == TypeOK /\ EmitterFindsAction /\ EmissionUnderway

\* A step that leaves toemit alone, and takes the GUI into the emitter's
\* critical section only past its check, keeps the check valid.
LEMMA NextEmitterFindsAction == EmitInv /\ [Next]_vars => EmitterFindsAction'
<1> SUFFICES ASSUME EmitInv, [Next]_vars PROVE EmitterFindsAction'
  OBVIOUS
<1> USE DEF EmitInv, EmitterFindsAction, vars, queues, wvars, gvars, dbvars
<1>1. CASE UserAction
  BY <1>1 DEF UserAction, Doit, UndoQueued, UndoDone, ReadBegin, CloseBegin
<1>2. CASE GuiStep
  BY <1>2 DEF GuiStep, Requeue, EmitReady, EmitCheck, EmitPop, EmitOpen,
              EmitSignal, ReadEnd, CloseStop, CloseJoin
<1>3. CASE WorkerPerform
  <2>1. toemit # <<>> => toemit' # <<>>
    BY <1>3, AppendFacts DEF WorkerPerform, TypeOK
  <2>2. QED
    BY <1>3, <2>1 DEF WorkerPerform
<1>4. CASE \/ WorkerCheck \/ WorkerWait \/ WorkerPop \/ WorkerOpen
           \/ WorkerDrained \/ WorkerSignal
  BY <1>4 DEF WorkerCheck, WorkerWait, WorkerPop, WorkerOpen, WorkerDrained, WorkerSignal
<1>5. CASE LoaderOpen \/ LoaderClose \/ UNCHANGED vars
  BY <1>5 DEF LoaderOpen, LoaderClose
<1>6. QED
  BY <1>1, <1>2, <1>3, <1>4, <1>5 DEF Next, WorkerStep

LEMMA NextEmissionUnderway == EmitInv /\ [Next]_vars => EmissionUnderway'
<1> SUFFICES ASSUME EmitInv, [Next]_vars PROVE EmissionUnderway'
  OBVIOUS
<1> USE DEF EmitInv, EmissionUnderway, EmitLocked, vars, queues, wvars, gvars, dbvars
<1>1. CASE UserAction
  BY <1>1 DEF UserAction, Doit, UndoQueued, UndoDone, ReadBegin, CloseBegin
<1>2. CASE GuiStep
  BY <1>2 DEF GuiStep, Requeue, EmitReady, EmitCheck, EmitPop, EmitOpen,
              EmitSignal, ReadEnd, CloseStop, CloseJoin
<1>3. CASE WorkerPerform
  BY <1>3 DEF WorkerPerform
<1>4. CASE \/ WorkerCheck \/ WorkerWait \/ WorkerPop \/ WorkerOpen \/ WorkerDrained
  BY <1>4 DEF WorkerCheck, WorkerWait, WorkerPop, WorkerOpen, WorkerDrained
<1>5. CASE WorkerSignal
  <2>1. ready' > 0
    BY <1>5 DEF WorkerSignal, TypeOK
  <2>2. QED
    BY <2>1
<1>6. CASE LoaderOpen \/ LoaderClose \/ UNCHANGED vars
  BY <1>6 DEF LoaderOpen, LoaderClose
<1>7. QED
  BY <1>1, <1>2, <1>3, <1>4, <1>5, <1>6 DEF Next, WorkerStep

LEMMA EmitInvInductive == Spec => []EmitInv
<1>1. Init => EmitInv
  BY InitTypeOK DEF EmitInv, EmitterFindsAction, EmissionUnderway, Init
<1>2. EmitInv /\ [Next]_vars => EmitInv'
  <2> SUFFICES ASSUME EmitInv, [Next]_vars PROVE TypeOK'
    BY NextEmitterFindsAction, NextEmissionUnderway DEF EmitInv
  <2>1. CASE UNCHANGED vars
    BY <2>1 DEF EmitInv, TypeOK, vars, queues, wvars, gvars, dbvars
  <2>2. QED
    BY <2>1, UserTypeOK, GuiTypeOK, WorkerTypeOK, LoaderTypeOK DEF EmitInv, Next
<1>3. QED
  BY <1>1, <1>2, PTL DEF Spec

\* Every variable keeps its type, for any set of actions; in particular the
\* worker and the emitter never take an action off an empty queue.
THEOREM TypeCorrect == Spec => []TypeOK
BY EmitInvInductive, PTL DEF EmitInv

\* The emitter (action_manager.cc:131) reads toemit.empty () without the
\* mutex, and yet always finds an action once it has the mutex.
THEOREM EmitterSafe == Spec => []EmitterFindsAction
BY EmitInvInductive, PTL DEF EmitInv

\* Until shutdown no finished action is left in toemit with nobody on the
\* way to emit it, however many actions are done in one round of the worker.
THEOREM EmissionNotLost == Spec => []EmissionUnderway
BY EmitInvInductive, PTL DEF EmitInv

-----------------------------------------------------------------------------
(* Undo.  The inductive invariant adds to the two properties that an       *)
(* action waits in one place at most, and that none is anywhere before it  *)
(* was queued.                                                             *)

Requeued == IF gpc = "requeue" THEN {gact} ELSE {}

WaitsOnce ==
  /\ NoDup(actions)
  /\ popped \notin ToSet(actions)
  /\ Requeued \cap (ToSet(actions) \cup {popped}) = {}

OnlyRequested == Pending \cup ToSet(doneactions) \cup applied \cup in_undo \subseteq requested

UndoInv == WaitsOnce /\ OnlyRequested /\ PendingMatchesDb /\ DoneMatchesDb

\* Steps that touch neither the queues of undo nor the database.
LEMMA UndoFrame ==
  ASSUME UndoInv, Requeued' = Requeued,
         UNCHANGED <<actions, doneactions, in_undo, popped, requested, applied>>
  PROVE  UndoInv'
<1>1. Pending' = Pending
  BY DEF Pending, Requeued
<1>2. WaitsOnce'
  BY DEF UndoInv, WaitsOnce
<1>3. OnlyRequested'
  BY <1>1 DEF UndoInv, OnlyRequested
<1>4. PendingMatchesDb'
  BY <1>1 DEF UndoInv, PendingMatchesDb
<1>5. DoneMatchesDb'
  BY DEF UndoInv, DoneMatchesDb
<1>6. QED
  BY <1>2, <1>3, <1>4, <1>5 DEF UndoInv

LEMMA NextUndoUser == TypeOK /\ UndoInv /\ UserAction => UndoInv'
<1> SUFFICES ASSUME TypeOK, UndoInv, UserAction PROVE UndoInv'
  OBVIOUS
<1>1. ASSUME NEW a \in Action, Doit(a) PROVE UndoInv'
  <2>1. /\ UNCHANGED <<doneactions, in_undo, popped, applied, gpc, gact>>
        /\ requested' = requested \cup {a} /\ a \notin requested
        /\ actions' = Append(actions, a)
    BY <1>1 DEF Doit, Queue, wvars, gvars
  <2>2. a \notin Pending \cup ToSet(doneactions) \cup applied \cup in_undo
    BY <2>1 DEF UndoInv, OnlyRequested
  <2>3. a \notin ToSet(actions) \cup Requeued /\ a # popped
    BY <2>2, ActionAssumption DEF Pending, Requeued
  <2>4. ToSet(actions') = ToSet(actions) \cup {a} /\ NoDup(actions')
    BY <2>1, <2>3, AppendFacts DEF TypeOK, UndoInv, WaitsOnce
  <2>5. Requeued' = Requeued /\ Pending' = Pending \cup {a}
    BY <2>1, <2>4 DEF Pending, Requeued
  <2>6. WaitsOnce'
    BY <2>1, <2>3, <2>4, <2>5 DEF UndoInv, WaitsOnce
  <2>7. OnlyRequested'
    BY <2>1, <2>5 DEF UndoInv, OnlyRequested
  <2>8. PendingMatchesDb'
    BY <2>1, <2>2, <2>5 DEF UndoInv, PendingMatchesDb
  <2>9. DoneMatchesDb'
    BY <2>1 DEF UndoInv, DoneMatchesDb
  <2>10. QED
    BY <2>6, <2>7, <2>8, <2>9 DEF UndoInv
<1>2. CASE UndoQueued
  <2> DEFINE a == Last(actions)
  <2>1. /\ UNCHANGED <<doneactions, in_undo, popped, applied, gpc, gact, requested>>
        /\ actions # <<>> /\ a \notin in_undo
        /\ actions' = Front(actions)
    BY <1>2 DEF UndoQueued, wvars, gvars
  <2>2. /\ a \in Action
        /\ ToSet(actions) = {a} \cup ToSet(actions')
        /\ NoDup(actions') /\ a \notin ToSet(actions')
    BY <2>1, FrontFacts DEF TypeOK, UndoInv, WaitsOnce
  <2> HIDE DEF a
  <2>3. Requeued' = Requeued /\ a \notin Requeued /\ a # popped
    BY <2>1, <2>2 DEF Requeued, UndoInv, WaitsOnce
  <2>4. Pending' = Pending \ {a}
    BY <2>1, <2>2, <2>3 DEF Pending, Requeued
  <2>5. WaitsOnce'
    BY <2>1, <2>2, <2>3 DEF UndoInv, WaitsOnce
  <2>6. OnlyRequested'
    BY <2>1, <2>4 DEF UndoInv, OnlyRequested
  <2>7. PendingMatchesDb'
    BY <2>1, <2>4 DEF UndoInv, PendingMatchesDb
  <2>8. DoneMatchesDb'
    BY <2>1 DEF UndoInv, DoneMatchesDb
  <2>9. QED
    BY <2>5, <2>6, <2>7, <2>8 DEF UndoInv
<1>3. CASE UndoDone
  <2> DEFINE a == Last(doneactions)
  <2>1. /\ UNCHANGED <<popped, applied, requested, actions>>
        /\ doneactions # <<>> /\ actions = <<>>
        /\ gpc = "idle" /\ gpc' = "requeue" /\ gact' = a
        /\ doneactions' = Front(doneactions)
        /\ in_undo' = in_undo \cup {a}
    BY <1>3 DEF UndoDone, wvars
  <2>2. NoDup(doneactions)
    BY DEF UndoInv, DoneMatchesDb, NoDup
  <2>3. /\ a \in Action
        /\ ToSet(doneactions) = {a} \cup ToSet(doneactions')
        /\ NoDup(doneactions') /\ a \notin ToSet(doneactions')
    BY <2>1, <2>2, FrontFacts DEF TypeOK
  <2> HIDE DEF a
  <2>4. a \in applied /\ a \notin in_undo
    BY <2>3 DEF UndoInv, DoneMatchesDb
  <2>5. a \notin Pending
    BY <2>4 DEF UndoInv, PendingMatchesDb
  <2>6. Requeued = {} /\ Requeued' = {a}
    BY <2>1 DEF Requeued
  <2>7. a \notin ToSet(actions) /\ a # popped /\ Pending' = Pending \cup {a}
    BY <2>1, <2>3, <2>5, ActionAssumption DEF Pending
  <2>8. WaitsOnce'
    BY <2>1, <2>6, <2>7 DEF UndoInv, WaitsOnce
  <2>9. OnlyRequested'
    BY <2>1, <2>3, <2>4, <2>7 DEF UndoInv, OnlyRequested
  <2>10. PendingMatchesDb'
    BY <2>1, <2>4, <2>7 DEF UndoInv, PendingMatchesDb
  <2>11. DoneMatchesDb'
    <3>1. ToSet(doneactions') = {b \in applied' \ in_undo' : b \in Undoable /\ b \notin SkipUndo}
      BY <2>1, <2>3 DEF UndoInv, DoneMatchesDb
    <3>2. QED
      BY <2>3, <3>1 DEF DoneMatchesDb, NoDup
  <2>12. QED
    BY <2>8, <2>9, <2>10, <2>11 DEF UndoInv
<1>4. CASE ReadBegin \/ CloseBegin
  BY <1>4, UndoFrame DEF ReadBegin, CloseBegin, Requeued, queues, wvars, dbvars
<1>5. QED
  BY <1>1, <1>2, <1>3, <1>4 DEF UserAction

LEMMA NextUndoGui == TypeOK /\ UndoInv /\ GuiStep => UndoInv'
<1> SUFFICES ASSUME TypeOK, UndoInv, GuiStep PROVE UndoInv'
  OBVIOUS
<1>1. CASE Requeue
  <2>1. /\ UNCHANGED <<doneactions, in_undo, popped, applied, requested>>
        /\ gpc = "requeue" /\ gpc' = "idle"
        /\ actions' = Append(actions, gact)
    BY <1>1 DEF Requeue, Queue, wvars
  <2>2. gact \in Action /\ gact \notin ToSet(actions) /\ gact # popped
    BY <2>1, ActionAssumption DEF TypeOK, UndoInv, WaitsOnce, Requeued
  <2>3. ToSet(actions') = ToSet(actions) \cup {gact} /\ NoDup(actions')
    BY <2>1, <2>2, AppendFacts DEF TypeOK, UndoInv, WaitsOnce
  <2>4. Requeued' = {} /\ Pending' = Pending
    BY <2>1, <2>3 DEF Pending, Requeued
  <2>5. WaitsOnce'
    BY <2>1, <2>2, <2>3, <2>4 DEF UndoInv, WaitsOnce
  <2>6. OnlyRequested'
    BY <2>1, <2>4 DEF UndoInv, OnlyRequested
  <2>7. PendingMatchesDb'
    BY <2>1, <2>4 DEF UndoInv, PendingMatchesDb
  <2>8. DoneMatchesDb'
    BY <2>1 DEF UndoInv, DoneMatchesDb
  <2>9. QED
    BY <2>5, <2>6, <2>7, <2>8 DEF UndoInv
<1>2. CASE \/ EmitReady \/ EmitCheck \/ EmitPop \/ EmitOpen \/ EmitSignal
           \/ ReadEnd \/ CloseStop \/ CloseJoin
  <2>1. Requeued = {} /\ Requeued' = {}
    BY <1>2 DEF EmitReady, EmitCheck, EmitPop, EmitOpen, EmitSignal, ReadEnd,
                CloseStop, CloseJoin, Requeued
  <2>2. UNCHANGED <<actions, doneactions, in_undo, popped, requested, applied>>
    BY <1>2 DEF EmitReady, EmitCheck, EmitPop, EmitOpen, EmitSignal, ReadEnd,
                CloseStop, CloseJoin, queues, wvars
  <2>3. QED
    BY <2>1, <2>2, UndoFrame
<1>3. QED
  BY <1>1, <1>2 DEF GuiStep

LEMMA NextUndoWorker == TypeOK /\ UndoInv /\ WorkerStep => UndoInv'
<1> SUFFICES ASSUME TypeOK, UndoInv, WorkerStep PROVE UndoInv'
  OBVIOUS
<1>1. CASE WorkerPop
  <2>1. /\ UNCHANGED <<doneactions, in_undo, applied, gpc, gact, requested>>
        /\ actions # <<>> /\ wpc = "loop"
        /\ popped' = Head(actions) /\ actions' = Tail(actions)
    BY <1>1 DEF WorkerPop, gvars
  <2>2. /\ popped' \in Action
        /\ ToSet(actions) = {popped'} \cup ToSet(actions')
        /\ NoDup(actions') /\ popped' \notin ToSet(actions')
    BY <2>1, TailFacts DEF TypeOK, UndoInv, WaitsOnce
  <2>3. popped = None /\ popped' # None
    BY <2>1, <2>2, ActionAssumption DEF TypeOK
  <2>4. Requeued' = Requeued /\ Pending' = Pending
    BY <2>1, <2>2, <2>3 DEF Pending, Requeued
  <2>5. WaitsOnce'
    BY <2>2, <2>4 DEF UndoInv, WaitsOnce
  <2>6. OnlyRequested'
    BY <2>1, <2>4 DEF UndoInv, OnlyRequested
  <2>7. PendingMatchesDb'
    BY <2>1, <2>4 DEF UndoInv, PendingMatchesDb
  <2>8. DoneMatchesDb'
    BY <2>1 DEF UndoInv, DoneMatchesDb
  <2>9. QED
    BY <2>5, <2>6, <2>7, <2>8 DEF UndoInv
<1>2. CASE WorkerPerform
  <2> DEFINE a == popped
  <2>1. /\ UNCHANGED <<actions, in_undo, gpc, gact, requested>>
        /\ popped' = None
        /\ applied' = IF a \in in_undo THEN applied \ {a} ELSE applied \cup {a}
        /\ doneactions' = IF KeepForUndo(a) THEN Append(doneactions, a) ELSE doneactions
    BY <1>2 DEF WorkerPerform, gvars
  <2>2. a \in Action /\ a # None
    BY <1>2 DEF TypeOK, WorkerPerform
  <2>3. a \notin ToSet(actions) \cup Requeued /\ None \notin ToSet(actions) \cup Requeued
    <3>1. ToSet(actions) \subseteq Action
      BY DEF TypeOK, ToSet
    <3>2. Requeued \subseteq Action
      BY DEF TypeOK, Requeued
    <3>3. QED
      BY <3>1, <3>2, ActionAssumption DEF UndoInv, WaitsOnce
  <2>4. Requeued' = Requeued /\ Pending' = Pending \ {a} /\ a \in Pending
    BY <2>1, <2>2, <2>3 DEF Pending, Requeued
  <2>5. a \in applied <=> a \in in_undo
    BY <2>4 DEF UndoInv, PendingMatchesDb
  <2>6. WaitsOnce'
    BY <2>1, <2>3, <2>4 DEF UndoInv, WaitsOnce
  <2>7. PendingMatchesDb'
    BY <2>1, <2>4, <2>5 DEF UndoInv, PendingMatchesDb
  <2>8. CASE KeepForUndo(a)
    <3>1. a \notin ToSet(doneactions) /\ a \notin in_undo /\ a \in Undoable \ SkipUndo
      BY <2>5, <2>8 DEF UndoInv, DoneMatchesDb, KeepForUndo
    <3>2. NoDup(doneactions)
      BY DEF UndoInv, DoneMatchesDb, NoDup
    <3>3. ToSet(doneactions') = ToSet(doneactions) \cup {a} /\ NoDup(doneactions')
      BY <2>1, <2>2, <2>8, <3>1, <3>2, AppendFacts DEF TypeOK
    <3>4. OnlyRequested'
      BY <2>1, <2>4, <3>3 DEF UndoInv, OnlyRequested
    <3>5. DoneMatchesDb'
      <4>1. ToSet(doneactions') = {b \in applied' \ in_undo' : b \in Undoable /\ b \notin SkipUndo}
        BY <2>1, <3>1, <3>3 DEF UndoInv, DoneMatchesDb
      <4>2. QED
        BY <3>3, <4>1 DEF DoneMatchesDb, NoDup
    <3>6. QED
      BY <2>6, <2>7, <3>4, <3>5 DEF UndoInv
  <2>9. CASE ~KeepForUndo(a)
    <3>1. OnlyRequested'
      BY <2>1, <2>4, <2>9 DEF UndoInv, OnlyRequested
    <3>2. DoneMatchesDb'
      BY <2>1, <2>5, <2>9 DEF UndoInv, DoneMatchesDb, KeepForUndo
    <3>3. QED
      BY <2>6, <2>7, <3>1, <3>2 DEF UndoInv
  <2>10. QED
    BY <2>8, <2>9
<1>3. CASE WorkerCheck \/ WorkerWait \/ WorkerOpen \/ WorkerDrained \/ WorkerSignal
  <2>1. UNCHANGED <<actions, doneactions, in_undo, popped, requested, applied, gpc, gact>>
    BY <1>3 DEF WorkerCheck, WorkerWait, WorkerOpen, WorkerDrained, WorkerSignal, queues, gvars
  <2>2. QED
    BY <2>1, UndoFrame DEF Requeued
<1>4. QED
  BY <1>1, <1>2, <1>3 DEF WorkerStep

LEMMA UndoInvInductive == Spec => []UndoInv
<1>1. Init => UndoInv
  <2> SUFFICES ASSUME Init PROVE UndoInv
    OBVIOUS
  <2>1. ToSet(actions) = {} /\ ToSet(doneactions) = {} /\ Len(doneactions) = 0 /\ Len(actions) = 0
    BY DEF Init, ToSet
  <2>2. Requeued = {} /\ Pending = {} /\ applied = {} /\ in_undo = {}
    BY <2>1 DEF Init, Requeued, Pending
  <2>3. NoDup(actions) /\ NoDup(doneactions)
    BY <2>1 DEF NoDup
  <2>4. WaitsOnce /\ OnlyRequested /\ PendingMatchesDb
    BY <2>1, <2>2, <2>3 DEF WaitsOnce, OnlyRequested, PendingMatchesDb
  <2>5. DoneMatchesDb
    BY <2>1, <2>2, <2>3 DEF DoneMatchesDb, NoDup
  <2>6. QED
    BY <2>4, <2>5 DEF UndoInv
<1>2. TypeOK /\ UndoInv /\ [Next]_vars => UndoInv'
  <2> SUFFICES ASSUME TypeOK, UndoInv, [Next]_vars PROVE UndoInv'
    OBVIOUS
  <2>1. CASE LoaderOpen \/ LoaderClose \/ UNCHANGED vars
    BY <2>1, UndoFrame DEF LoaderOpen, LoaderClose, vars, queues, wvars, gvars, Requeued
  <2>2. QED
    BY <2>1, NextUndoUser, NextUndoGui, NextUndoWorker DEF Next
<1>3. QED
  BY <1>1, <1>2, TypeCorrect, PTL DEF Spec

\* Whatever the user queues and undoes and however that interleaves with the
\* worker: no action is done or undone twice, none is undone that was not
\* done, and no undo is forgotten.
THEOREM PendingCorrect == Spec => []PendingMatchesDb
BY UndoInvInductive, PTL DEF UndoInv

\* What undo chooses from is exactly what can be undone.
THEOREM DoneCorrect == Spec => []DoneMatchesDb
BY UndoInvInductive, PTL DEF UndoInv

\* Queues, database and doneactions agree on what has been done, is yet to
\* be done and can be undone.
THEOREM QueuesCorrect == Spec => []QueuesMatchDb
BY PendingCorrect, DoneCorrect, PTL DEF QueuesMatchDb

-----------------------------------------------------------------------------
(* Views.  Until shutdown a view that is wrong about an action has an      *)
(* emission of it to come: from toemit, or from the emitter's hands.       *)

Emitting == IF gpc \in {"emit_open", "emit"} THEN {gact} ELSE {}

ShownTrails ==
  emit => \A a \in Action :
            (a \in shown <=> a \in applied) \/ a \in ToSet(toemit) \cup Emitting

\* Steps that leave the views, the effects and the way between them alone.
LEMMA ViewsFrame ==
  ASSUME ShownTrails, Emitting' = Emitting, emit' => emit,
         UNCHANGED <<toemit, shown, applied>>
  PROVE  ShownTrails'
BY DEF ShownTrails

LEMMA NextViewsGui == EmitInv /\ ShownTrails /\ GuiStep => ShownTrails'
<1> SUFFICES ASSUME EmitInv, ShownTrails, GuiStep PROVE ShownTrails'
  OBVIOUS
<1>1. CASE EmitPop
  <2>1. toemit # <<>>
    BY <1>1 DEF EmitPop, EmitInv, EmitterFindsAction
  <2>2. ToSet(toemit) = {gact'} \cup ToSet(toemit')
    BY <1>1, <2>1, TailFacts DEF EmitPop, EmitInv, TypeOK
  <2>3. Emitting = {} /\ Emitting' = {gact'} /\ UNCHANGED <<emit, shown, applied>>
    BY <1>1 DEF EmitPop, Emitting, dbvars
  <2>4. QED
    BY <2>2, <2>3 DEF ShownTrails
<1>2. CASE EmitSignal
  <2>1. /\ shown' = IF gact \in applied THEN shown \cup {gact} ELSE shown \ {gact}
        /\ Emitting = {gact} /\ Emitting' = {} /\ UNCHANGED <<emit, toemit, applied>>
    BY <1>2 DEF EmitSignal, Emitting, queues
  <2>2. QED
    BY <2>1 DEF ShownTrails
<1>3. CASE EmitOpen
  <2>1. Emitting' = Emitting /\ UNCHANGED <<emit, toemit, shown, applied>>
    BY <1>3 DEF EmitOpen, Emitting, queues
  <2>2. QED
    BY <2>1, ViewsFrame
<1>4. CASE Requeue \/ EmitReady \/ EmitCheck \/ ReadEnd \/ CloseStop \/ CloseJoin
  <2>1. Emitting = {} /\ Emitting' = {} /\ UNCHANGED <<emit, toemit, shown, applied>>
    BY <1>4 DEF Requeue, EmitReady, EmitCheck, ReadEnd, CloseStop, CloseJoin, Emitting, queues
  <2>2. QED
    BY <2>1, ViewsFrame
<1>5. QED
  BY <1>1, <1>2, <1>3, <1>4 DEF GuiStep

LEMMA NextViews == EmitInv /\ ShownTrails /\ [Next]_vars => ShownTrails'
<1> SUFFICES ASSUME EmitInv, ShownTrails, [Next]_vars PROVE ShownTrails'
  OBVIOUS
<1>1. CASE UserAction
  <2>1. Emitting = {} /\ Emitting' = {} /\ UNCHANGED <<toemit, shown, applied>>
    BY <1>1 DEF UserAction, Doit, UndoQueued, UndoDone, ReadBegin, CloseBegin, Emitting,
                queues, gvars
  <2>2. emit' => emit
    BY <1>1 DEF UserAction, Doit, UndoQueued, UndoDone, ReadBegin, CloseBegin
  <2>3. QED
    BY <2>1, <2>2, ViewsFrame
<1>2. CASE WorkerPerform
  <2>1. /\ applied' = IF popped \in in_undo THEN applied \ {popped} ELSE applied \cup {popped}
        /\ toemit' = IF emit THEN Append(toemit, popped) ELSE toemit
        /\ Emitting' = Emitting /\ UNCHANGED <<emit, shown>>
    BY <1>2 DEF WorkerPerform, Emitting, gvars
  <2>2. popped \in Action
    BY <1>2 DEF WorkerPerform, EmitInv, TypeOK
  <2>3. emit => ToSet(toemit') = ToSet(toemit) \cup {popped}
    BY <2>1, <2>2, AppendFacts DEF EmitInv, TypeOK
  <2>4. QED
    BY <2>1, <2>3 DEF ShownTrails
<1>3. CASE \/ WorkerCheck \/ WorkerWait \/ WorkerPop \/ WorkerOpen \/ WorkerDrained \/ WorkerSignal
           \/ LoaderOpen \/ LoaderClose \/ UNCHANGED vars
  <2>1. UNCHANGED <<emit, toemit, shown, applied, gpc, gact>>
    BY <1>3 DEF WorkerCheck, WorkerWait, WorkerPop, WorkerOpen, WorkerDrained, WorkerSignal,
                LoaderOpen, LoaderClose, vars, queues, gvars
  <2>2. QED
    BY <2>1, ViewsFrame DEF Emitting
<1>4. QED
  BY <1>1, <1>2, <1>3, NextViewsGui DEF Next, WorkerStep

\* When nothing is under way each view shows what is in the database, in
\* whatever order actions were done, undone and emitted: none of the signals
\* was lost, and the last one about an action came after its last change.
THEOREM ViewsCorrect == Spec => []QuietViewsCorrect
<1>1. Init => ShownTrails
  BY DEF Init, ShownTrails
<1>2. EmitInv /\ ShownTrails => QuietViewsCorrect
  <2> SUFFICES ASSUME EmitInv, ShownTrails, emit, gpc = "idle", wpc = "wait", ready = 0
               PROVE  shown = applied
    BY DEF QuietViewsCorrect
  <2>1. toemit = <<>>
    BY DEF EmitInv, EmissionUnderway, EmitLocked
  <2>2. ToSet(toemit) = {} /\ Emitting = {}
    BY <2>1 DEF ToSet, Emitting
  <2>3. QED
    BY <2>2 DEF ShownTrails, EmitInv, TypeOK
<1>3. QED
  BY <1>1, <1>2, NextViews, EmitInvInductive, PTL DEF Spec

=============================================================================
