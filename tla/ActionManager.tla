---------------------------- MODULE ActionManager ----------------------------
(***************************************************************************)
(* The queue of actions (src/src/actions/action_manager.cc).               *)
(*                                                                         *)
(* The GUI thread queues actions (doit), undoes the last one (undo), shows *)
(* the effect of finished ones (emitter) and shuts the queue down (close). *)
(* The worker thread takes actions off the queue, opens the database       *)
(* read-write, does or undoes them, and hands them to the emitter through  *)
(* toemit and the dispatcher emit_ready.  Other threads (the loaders of    *)
(* thread indexes) open the database read-only.                            *)
(*                                                                         *)
(* The critical sections of the GUI thread on actions_m and toemit_m never *)
(* block inside, so each is one action; the mutexes are held by the worker *)
(* exactly while its pc is in ActionsLocked and EmitLocked.  All calls of  *)
(* doit, undo and close in the source are made from the GUI thread.  The   *)
(* database lock is that of ReadersWriter, which DbLock implements.        *)
(*                                                                         *)
(* What an action does is one bit: is its effect in the database           *)
(* (applied), and do the views show it (shown).                            *)
(***************************************************************************)
EXTENDS Naturals, SequencesExt

CONSTANTS
  Action,    \* the actions the user will request, each one object
  Undoable,  \* those whose class says undoable ()
  SkipUndo,  \* those queued with doit (a, false)
  None

ASSUME ActionAssumption ==
  /\ Undoable \subseteq Action
  /\ SkipUndo \subseteq Action
  /\ None \notin Action

VARIABLES
  actions, doneactions, toemit,  \* the three queues of the manager
  run, emit,                     \* its two flags
  in_undo,                       \* actions with the flag in_undo set
  popped,                        \* the worker's variable a
  wpc, wake,                     \* the worker's step, and: was it notified
  gpc, gact,                     \* the GUI's step and its variable a
  ready,                         \* emissions of emit_ready not yet dispatched
  readers, writers,              \* the database lock
  requested, applied, shown      \* actions queued so far, and their effects

queues == <<actions, doneactions, toemit>>
wvars == <<popped, wpc>>
gvars == <<gpc, gact>>
dbvars == <<readers, writers>>
vars == <<queues, run, emit, in_undo, wvars, wake, gvars, ready, dbvars,
          requested, applied, shown>>

DbThread == {"gui", "worker", "loader"}
Lock == INSTANCE ReadersWriter WITH Thread <- DbThread

ActionsLocked == wpc = "loop"
EmitLocked == wpc \in {"loop", "db", "relock", "signal"}

Init ==
  /\ actions = <<>> /\ doneactions = <<>> /\ toemit = <<>>
  /\ run = TRUE /\ emit = TRUE
  /\ in_undo = {}
  /\ popped = None
  /\ wpc = "check" /\ wake = FALSE
  /\ gpc = "idle" /\ gact = None
  /\ ready = 0
  /\ Lock!Init
  /\ requested = {} /\ applied = {} /\ shown = {}

-----------------------------------------------------------------------------
(* The GUI thread. *)

\* actions_cv.notify_one (): only a worker inside the wait hears it.
Notify == wake' = (wake \/ wpc = "wait")

\* Bug variant: doit without notify_one.
QueueSilent(a) ==
  /\ ~ActionsLocked
  /\ actions' = Append(actions, a)
  /\ UNCHANGED wake

Queue(a) ==
  /\ ~ActionsLocked
  /\ actions' = Append(actions, a)
  /\ Notify

\* doit, from a key handler.
Doit(a) ==
  /\ gpc = "idle"
  /\ a \notin requested
  /\ Queue(a)
  /\ requested' = requested \cup {a}
  /\ UNCHANGED <<doneactions, toemit, run, emit, in_undo, wvars, gvars, ready,
                 dbvars, applied, shown>>

\* Bug variant: undo takes off the last action, an unfinished undo included.
UndoQueuedAny ==
  /\ gpc = "idle"
  /\ ~ActionsLocked
  /\ actions # <<>>
  /\ Last(actions) \notin SkipUndo
  /\ actions' = Front(actions)
  /\ UNCHANGED <<doneactions, toemit, run, emit, in_undo, wvars, wake, gvars,
                 ready, dbvars, requested, applied, shown>>

\* undo with actions still queued: the last one is taken off, unless it is
\* itself an undo or was queued as not undoable.
UndoQueued ==
  /\ gpc = "idle"
  /\ ~ActionsLocked
  /\ actions # <<>>
  /\ Last(actions) \notin in_undo \cup SkipUndo
  /\ actions' = Front(actions)
  /\ UNCHANGED <<doneactions, toemit, run, emit, in_undo, wvars, wake, gvars,
                 ready, dbvars, requested, applied, shown>>

\* undo with an empty queue: the last finished action is marked and, with
\* the mutex released in between, queued again.
UndoDone ==
  /\ gpc = "idle"
  /\ ~ActionsLocked
  /\ actions = <<>>
  /\ doneactions # <<>>
  /\ gact' = Last(doneactions)
  /\ doneactions' = Front(doneactions)
  /\ in_undo' = in_undo \cup {gact'}
  /\ gpc' = "requeue"
  /\ UNCHANGED <<actions, toemit, run, emit, wvars, wake, ready, dbvars,
                 requested, applied, shown>>

Requeue ==
  /\ gpc = "requeue"
  /\ Queue(gact)
  /\ gpc' = "idle"
  /\ gact' = None
  /\ UNCHANGED <<doneactions, toemit, run, emit, in_undo, wvars, ready, dbvars,
                 requested, applied, shown>>

\* The main loop dispatches one emission of emit_ready to emitter ().
EmitReady ==
  /\ gpc = "idle"
  /\ ready > 0
  /\ ready' = ready - 1
  /\ gpc' = IF emit THEN "emit_check" ELSE "idle"
  /\ UNCHANGED <<queues, run, emit, in_undo, wvars, wake, gact, dbvars,
                 requested, applied, shown>>

\* Bug variant: a do-while loop.
EmitCheckLate ==
  /\ gpc = "emit_check"
  /\ gpc' = "emit_lock"
  /\ UNCHANGED <<queues, run, emit, in_undo, wvars, wake, gact, ready, dbvars,
                 requested, applied, shown>>

\* while (!toemit.empty ()), read without the lock.
EmitCheck ==
  /\ gpc = "emit_check"
  /\ gpc' = IF toemit = <<>> THEN "idle" ELSE "emit_lock"
  /\ UNCHANGED <<queues, run, emit, in_undo, wvars, wake, gact, ready, dbvars,
                 requested, applied, shown>>

EmitPop ==
  /\ gpc = "emit_lock"
  /\ ~EmitLocked
  /\ gact' = Head(toemit)
  /\ toemit' = Tail(toemit)
  /\ gpc' = "emit_open"
  /\ UNCHANGED <<actions, doneactions, run, emit, in_undo, wvars, wake, ready,
                 dbvars, requested, applied, shown>>

EmitOpen ==
  /\ gpc = "emit_open"
  /\ Lock!AcquireRO("gui")
  /\ gpc' = "emit"
  /\ UNCHANGED <<queues, run, emit, in_undo, wvars, wake, gact, ready,
                 requested, applied, shown>>

\* Bug variant: "if" in place of "while", one action for each emit_ready.
EmitSignalOnce ==
  /\ gpc = "emit"
  /\ shown' = IF gact \in applied THEN shown \cup {gact} ELSE shown \ {gact}
  /\ Lock!ReleaseRO("gui")
  /\ gpc' = "idle"
  /\ gact' = None
  /\ UNCHANGED <<queues, run, emit, in_undo, wvars, wake, ready, requested,
                 applied>>

\* a->emit (&db): the views read the state of the action's items now.
EmitSignal ==
  /\ gpc = "emit"
  /\ shown' = IF gact \in applied THEN shown \cup {gact} ELSE shown \ {gact}
  /\ Lock!ReleaseRO("gui")
  /\ gpc' = "emit_check"
  /\ gact' = None
  /\ UNCHANGED <<queues, run, emit, in_undo, wvars, wake, ready, requested,
                 applied>>

\* A handler of the GUI thread that looks something up in the database.
ReadBegin ==
  /\ gpc = "idle"
  /\ Lock!AcquireRO("gui")
  /\ gpc' = "read"
  /\ UNCHANGED <<queues, run, emit, in_undo, wvars, wake, gact, ready,
                 requested, applied, shown>>

ReadEnd ==
  /\ gpc = "read"
  /\ Lock!ReleaseRO("gui")
  /\ gpc' = "idle"
  /\ UNCHANGED <<queues, run, emit, in_undo, wvars, wake, gact, ready,
                 requested, applied, shown>>

\* close: emit is cleared without a lock, run under actions_m; then join.
CloseBegin ==
  /\ gpc = "idle"
  /\ emit' = FALSE
  /\ gpc' = "close"
  /\ UNCHANGED <<queues, run, in_undo, wvars, wake, gact, ready, dbvars,
                 requested, applied, shown>>

\* Bug variant: close without notify_one.
CloseStopSilent ==
  /\ gpc = "close"
  /\ ~ActionsLocked
  /\ run' = FALSE
  /\ gpc' = "join"
  /\ UNCHANGED <<queues, emit, in_undo, wvars, wake, gact, ready, dbvars,
                 requested, applied, shown>>

CloseStop ==
  /\ gpc = "close"
  /\ ~ActionsLocked
  /\ run' = FALSE
  /\ Notify
  /\ gpc' = "join"
  /\ UNCHANGED <<queues, emit, in_undo, wvars, gact, ready, dbvars, requested,
                 applied, shown>>

CloseJoin ==
  /\ gpc = "join"
  /\ wpc = "exit"
  /\ gpc' = "closed"
  /\ UNCHANGED <<queues, run, emit, in_undo, wvars, wake, gact, ready, dbvars,
                 requested, applied, shown>>

-----------------------------------------------------------------------------
(* The worker thread: action_worker. *)

\* while (run)
WorkerCheck ==
  /\ wpc = "check"
  /\ wpc' = IF run THEN "lock" ELSE "exit"
  /\ UNCHANGED <<queues, run, emit, in_undo, popped, wake, gvars, ready, dbvars,
                 requested, applied, shown>>

\* actions_cv.wait: go on with both mutexes, or sleep with neither.
WorkerWait ==
  /\ \/ wpc = "lock"
     \/ wpc = "wait" /\ wake
  /\ wpc' = IF actions # <<>> \/ ~run THEN "loop" ELSE "wait"
  /\ wake' = FALSE
  /\ UNCHANGED <<queues, run, emit, in_undo, popped, gvars, ready, dbvars,
                 requested, applied, shown>>

\* Take the next action and release actions_m while the database opens.
WorkerPop ==
  /\ wpc = "loop"
  /\ actions # <<>>
  /\ popped' = Head(actions)
  /\ actions' = Tail(actions)
  /\ wpc' = "db"
  /\ UNCHANGED <<doneactions, toemit, run, emit, in_undo, wake, gvars, ready,
                 dbvars, requested, applied, shown>>

\* Db (DATABASE_READ_WRITE), or acquire_rw_lock for an external command:
\* every class of actions sets need_db_rw.
WorkerOpen ==
  /\ wpc = "db"
  /\ Lock!AcquireRW("worker")
  /\ wpc' = "relock"
  /\ UNCHANGED <<queues, run, emit, in_undo, popped, wake, gvars, ready,
                 requested, applied, shown>>

KeepForUndo(a) == a \in Undoable /\ a \notin in_undo \cup SkipUndo

\* With actions_m held again: doit or undo, close the database, remember the
\* action for undo and for the emitter.
WorkerPerform ==
  /\ wpc = "relock"
  /\ applied' = IF popped \in in_undo THEN applied \ {popped}
                                      ELSE applied \cup {popped}
  /\ Lock!ReleaseRW("worker")
  /\ doneactions' = IF KeepForUndo(popped) THEN Append(doneactions, popped)
                                           ELSE doneactions
  /\ toemit' = IF emit THEN Append(toemit, popped) ELSE toemit
  /\ popped' = None
  /\ wpc' = "loop"
  /\ UNCHANGED <<actions, run, emit, in_undo, wake, gvars, ready, requested,
                 shown>>

\* The queue is empty: release actions_m.
WorkerDrained ==
  /\ wpc = "loop"
  /\ actions = <<>>
  /\ wpc' = "signal"
  /\ UNCHANGED <<queues, run, emit, in_undo, popped, wake, gvars, ready, dbvars,
                 requested, applied, shown>>

\* emit_ready (), and toemit_m is released at the end of the round.
WorkerSignal ==
  /\ wpc = "signal"
  /\ ready' = ready + 1
  /\ wpc' = "check"
  /\ UNCHANGED <<queues, run, emit, in_undo, popped, wake, gvars, dbvars,
                 requested, applied, shown>>

-----------------------------------------------------------------------------
(* A loader thread has the database open read-only. *)

LoaderOpen ==
  /\ Lock!AcquireRO("loader")
  /\ UNCHANGED <<queues, run, emit, in_undo, wvars, wake, gvars, ready,
                 requested, applied, shown>>

LoaderClose ==
  /\ Lock!ReleaseRO("loader")
  /\ UNCHANGED <<queues, run, emit, in_undo, wvars, wake, gvars, ready,
                 requested, applied, shown>>

-----------------------------------------------------------------------------
UserAction ==
  \/ \E a \in Action : Doit(a)
  \/ UndoQueued \/ UndoDone
  \/ ReadBegin
  \/ CloseBegin

GuiStep ==
  \/ Requeue
  \/ EmitReady \/ EmitCheck \/ EmitPop \/ EmitOpen \/ EmitSignal
  \/ ReadEnd
  \/ CloseStop \/ CloseJoin

WorkerStep ==
  \/ WorkerCheck \/ WorkerWait \/ WorkerPop \/ WorkerOpen \/ WorkerPerform
  \/ WorkerDrained \/ WorkerSignal

Next == UserAction \/ GuiStep \/ WorkerStep \/ LoaderOpen \/ LoaderClose

Spec == Init /\ [][Next]_vars

\* Threads keep running, the main loop keeps dispatching, and a loader gets
\* to the end of its query; the user need not do anything.
FairSpec ==
  Spec /\ WF_vars(GuiStep) /\ WF_vars(WorkerStep) /\ WF_vars(LoaderClose)

-----------------------------------------------------------------------------
\* Every variable keeps its type, and a step that works on an action has one.
TypeOK ==
  /\ actions \in Seq(Action) /\ doneactions \in Seq(Action) /\ toemit \in Seq(Action)
  /\ run \in BOOLEAN /\ emit \in BOOLEAN /\ wake \in BOOLEAN
  /\ in_undo \subseteq Action
  /\ wpc \in {"check", "lock", "wait", "loop", "db", "relock", "signal", "exit"}
  /\ gpc \in {"idle", "requeue", "emit_check", "emit_lock", "emit_open", "emit",
              "read", "close", "join", "closed"}
  /\ popped \in Action \cup {None}
  /\ wpc \in {"db", "relock"} <=> popped # None
  /\ gact \in Action \cup {None}
  /\ gpc \in {"requeue", "emit_open", "emit"} <=> gact # None
  /\ ready \in Nat
  /\ readers \subseteq DbThread /\ writers \subseteq DbThread
  /\ requested \subseteq Action /\ applied \subseteq Action /\ shown \subseteq Action

\* Actions that the worker has yet to do or to undo.
Pending == ToSet(actions) \cup ({popped} \ {None})
             \cup (IF gpc = "requeue" THEN {gact} ELSE {})

\* An action waits to be undone exactly when its effect is in the database,
\* and to be done exactly when it is not: none is done or undone twice, and
\* none is undone that was never done, however undo and the worker interleave.
\* And an undo that was asked for stays pending until the effect is gone.
PendingMatchesDb ==
  /\ \A a \in Pending : a \in applied <=> a \in in_undo
  /\ in_undo \cap applied \subseteq Pending

\* doneactions holds exactly the undoable actions whose effect is in the
\* database and that nobody has asked to undo, each of them once.
DoneMatchesDb ==
  /\ ToSet(doneactions) =
       {a \in applied \ in_undo : a \in Undoable /\ a \notin SkipUndo}
  /\ \A i, j \in 1 .. Len(doneactions) : doneactions[i] = doneactions[j] => i = j

\* The queues of doit, undo and the worker agree with each other and with
\* the database.
QueuesMatchDb == PendingMatchesDb /\ DoneMatchesDb

\* The emitter's check without the lock is good enough: when it gets the
\* lock there is an action to take.
EmitterFindsAction == gpc = "emit_lock" => toemit # <<>>

\* Until shutdown a finished action never waits in toemit without somebody
\* on the way to emit it: a queued emit_ready, the worker before its
\* emit_ready, or the emitter inside its loop.
EmissionUnderway ==
  toemit # <<>> =>
    \/ ready > 0
    \/ EmitLocked
    \/ gpc \in {"emit_check", "emit_lock", "emit_open", "emit"}
    \/ ~emit

\* Once everything is quiet the views show what is in the database.
QuietViewsCorrect ==
  /\ emit /\ gpc = "idle" /\ wpc = "wait" /\ ~wake /\ ready = 0
  => shown = applied

\* If no loader keeps coming back to the database, the GUI thread always
\* returns to its main loop (or ends): emitter, undo and close never hang.
GuiReturns ==
  <>[]("loader" \notin readers) =>
    (gpc # "idle" ~> gpc \in {"idle", "closed"})

\* If readers do not keep coming, a queued action gets done, or is taken back
\* by undo, or the program is closing.
ActionsGetDone ==
  <>[](readers \cap {"loader"} = {} /\ gpc # "read") =>
    \A a \in Action : a \in Pending ~> (a \notin Pending \/ ~run)

\* "action worker are now waiting after the while (run)", "cleaning up
\* remaining actions.." (action_manager.cc, close): what was queued before
\* close is done when the worker ends.
CloseFinishesActions == wpc = "exit" => actions = <<>>

=============================================================================
