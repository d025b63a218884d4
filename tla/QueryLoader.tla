----------------------------- MODULE QueryLoader -----------------------------
(***************************************************************************)
(* The list of threads that match a query                                  *)
(* (src/src/modes/thread_index/query_loader.cc).                           *)
(*                                                                         *)
(* A loader thread runs the query on its own snapshot of the database and  *)
(* hands the threads it finds to the GUI thread through to_list_store and  *)
(* the dispatcher queue_has_data.  Meanwhile threads change: the action    *)
(* worker announces a change with its dispatcher, a poll with a direct     *)
(* call.  A change that arrives while the loader runs is put off in        *)
(* changed_threads until the dispatcher deferred_threads_d fires; other    *)
(* changes update the rows at once.  The user may reload the list, give it *)
(* another query, or close it, at any time.                                *)
(*                                                                         *)
(* All dispatchers write to one pipe of the GUI thread, so dispatches come *)
(* in the order of the emissions.  A thread of mail is its id, what the    *)
(* database holds of it is one value, and a query is the set of values     *)
(* that match it.  Statistics, the cursor and the sort order are left out. *)
(***************************************************************************)
EXTENDS Naturals, SequencesExt

CONSTANTS
  Tid,         \* threads of mail
  Value,       \* what the database can hold of one
  Query,       \* the queries the user gives, each a set of values
  Batch,       \* emit queue_has_data after so many threads (100)
  MaxChanges,  \* bound on changes of the database
  MaxReloads   \* bound on reloads and refinements

ASSUME LoaderAssumption ==
  /\ Query \subseteq SUBSET Value
  /\ Tid \cap {"data", "deferred"} = {}
  /\ Batch \in Nat \ {0}
  /\ MaxChanges \in Nat /\ MaxReloads \in Nat

VARIABLES
  db,               \* the database
  query, run, in_destructor,
  lpc, snap,        \* the loader's step and its snapshot
  remaining,        \* what is left of the result of its query
  i,                \* its counter
  failed,           \* could the query not be run
  to_list_store,
  rows,             \* list_store
  changed_threads,
  pipe,             \* emissions that wait for the main loop
  polled,           \* changes the poll has yet to tell of
  gpc, gdb,         \* the GUI's step and the snapshot it works with
  new_query,        \* what refine_query was called with
  raced,            \* threads whose change met the rows half loaded
  changes, reloads  \* bounded counters

lvars == <<lpc, snap, remaining, i, failed>>
gvars == <<gpc, gdb, new_query>>
bounds == <<changes, reloads>>
vars == <<db, query, run, in_destructor, lvars, to_list_store, rows,
          changed_threads, pipe, polled, gvars, raced, bounds>>

Row == [tid : Tid, val : Value]

\* The loader and the GUI may have the database open, read-only.
Closed == <<>>
LoaderReads == snap # Closed
GuiReads == gdb # Closed

\* A ThreadIndex starts its loader as soon as it exists.
Init ==
  /\ db \in [Tid -> Value]
  /\ query \in Query
  /\ run = TRUE /\ in_destructor = FALSE
  /\ lpc = "open" /\ snap = Closed /\ remaining = {} /\ i = 0 /\ failed = FALSE
  /\ to_list_store = <<>> /\ rows = <<>> /\ changed_threads = <<>>
  /\ pipe = <<>> /\ polled = {}
  /\ gpc = "idle" /\ gdb = Closed /\ new_query = query
  /\ raced = {}
  /\ changes = 0 /\ reloads = 0

-----------------------------------------------------------------------------
(* The loader thread: loader. *)

LoaderOpen ==
  /\ lpc = "open"
  /\ snap' = db
  /\ lpc' = "query"
  /\ UNCHANGED <<db, query, run, in_destructor, remaining, i, failed,
                 to_list_store, rows, changed_threads, pipe, polled, gvars,
                 raced, bounds>>

\* notmuch_query_search_threads; while refine_query assigns to query the
\* loader may read anything.
LoaderQuery ==
  /\ lpc = "query"
  /\ remaining' \in IF gpc = "refine" THEN SUBSET Tid
                                      ELSE {{t \in Tid : snap[t] \in query}}
  /\ i' = 0
  /\ lpc' = "iterate"
  /\ UNCHANGED <<db, query, run, in_destructor, snap, failed, to_list_store,
                 rows, changed_threads, pipe, polled, gvars, raced, bounds>>

\* The search fails: as if it found nothing.
LoaderQueryFails ==
  /\ lpc = "query"
  /\ run' = FALSE
  /\ failed' = TRUE
  /\ remaining' = {}
  /\ i' = 0
  /\ lpc' = "iterate"
  /\ UNCHANGED <<db, query, in_destructor, snap, to_list_store, rows,
                 changed_threads, pipe, polled, gvars, raced, bounds>>

LoaderPush ==
  /\ lpc = "iterate"
  /\ run
  /\ \E t \in remaining :
       /\ to_list_store' = Append(to_list_store, [tid |-> t, val |-> snap[t]])
       /\ remaining' = remaining \ {t}
  /\ i' = i + 1
  /\ lpc' = IF i' % Batch = 0 THEN "batch" ELSE "iterate"
  /\ UNCHANGED <<db, query, run, in_destructor, snap, failed, rows,
                 changed_threads, pipe, polled, gvars, raced, bounds>>

Emit(msg) == pipe' = IF in_destructor THEN pipe ELSE Append(pipe, msg)

LoaderBatch ==
  /\ lpc = "batch"
  /\ IF run THEN Emit("data") ELSE UNCHANGED pipe
  /\ lpc' = "iterate"
  /\ UNCHANGED <<db, query, run, in_destructor, snap, remaining, i, failed,
                 to_list_store, rows, changed_threads, polled, gvars, raced, bounds>>

\* Bug variant: run stays set.
LoaderEndsRunning ==
  /\ lpc = "iterate"
  /\ ~run \/ remaining = {}
  /\ remaining' = {} /\ i' = 0
  /\ lpc' = "data"
  /\ UNCHANGED <<db, query, run, in_destructor, snap, failed, to_list_store, rows,
                 changed_threads, pipe, polled, gvars, raced, bounds>>

\* The loop ends: run = false, and then the last emissions.
LoaderEnds ==
  /\ lpc = "iterate"
  /\ ~run \/ remaining = {}
  /\ remaining' = {} /\ i' = 0
  /\ run' = FALSE
  /\ lpc' = "data"
  /\ UNCHANGED <<db, query, in_destructor, snap, failed, to_list_store, rows,
                 changed_threads, pipe, polled, gvars, raced, bounds>>

LoaderEmitsData ==
  /\ lpc = "data"
  /\ Emit("data")
  /\ lpc' = "deferred"
  /\ UNCHANGED <<db, query, run, in_destructor, snap, remaining, i, failed,
                 to_list_store, rows, changed_threads, polled, gvars, raced, bounds>>

LoaderEmitsDeferred ==
  /\ lpc = "deferred"
  /\ Emit("deferred")
  /\ lpc' = "close"
  /\ UNCHANGED <<db, query, run, in_destructor, snap, remaining, i, failed,
                 to_list_store, rows, changed_threads, polled, gvars, raced, bounds>>

LoaderCloses ==
  /\ lpc = "close"
  /\ snap' = Closed
  /\ lpc' = "done"
  /\ UNCHANGED <<db, query, run, in_destructor, remaining, i, failed,
                 to_list_store, rows, changed_threads, pipe, polled, gvars,
                 raced, bounds>>

-----------------------------------------------------------------------------
(* Changes.  The action worker can write only when nobody has the database *)
(* open; a poll, another process, at any time.                             *)

WorkerChange ==
  /\ changes < MaxChanges
  /\ ~LoaderReads /\ ~GuiReads
  /\ \E t \in Tid : \E v \in Value \ {db[t]} :
       /\ db' = [db EXCEPT ![t] = v]
       /\ pipe' = Append(pipe, t)
  /\ changes' = changes + 1
  /\ UNCHANGED <<query, run, in_destructor, lvars, to_list_store, rows,
                 changed_threads, polled, gvars, raced, reloads>>

PollChange ==
  /\ changes < MaxChanges
  /\ \E t \in Tid : \E v \in Value \ {db[t]} :
       /\ db' = [db EXCEPT ![t] = v]
       /\ polled' = polled \cup {t}
  /\ changes' = changes + 1
  /\ UNCHANGED <<query, run, in_destructor, lvars, to_list_store, rows,
                 changed_threads, pipe, gvars, raced, reloads>>

-----------------------------------------------------------------------------
(* The GUI thread. *)

RowsOf(s, t) == {k \in DOMAIN s : s[k].tid = t}

\* Bug variant: a thread that is not in the list stays out of it.
UpdatedOnlyListed(t, d) ==
  LET first == Min(RowsOf(rows, t)) IN
  IF RowsOf(rows, t) = {} THEN rows
  ELSE IF d[t] \in query THEN [rows EXCEPT ![first].val = d[t]]
  ELSE RemoveAt(rows, first)

\* The rows once the change of t is shown: its first row is refreshed or
\* erased, or a row is prepended.
Updated(t, d) ==
  LET first == Min(RowsOf(rows, t)) IN
  IF RowsOf(rows, t) = {}
    THEN IF d[t] \in query THEN <<[tid |-> t, val |-> d[t]]>> \o rows ELSE rows
  ELSE IF d[t] \in query THEN [rows EXCEPT ![first].val = d[t]]
  ELSE RemoveAt(rows, first)

\* on_thread_changed, with the database as in d; ct is what changed_threads
\* holds otherwise.
OnThreadChanged(t, d, ct) ==
  IF run
  THEN /\ changed_threads' = Append(ct, t)
       /\ UNCHANGED <<rows, raced>>
  ELSE /\ rows' = Updated(t, d)
       /\ changed_threads' = ct
       /\ raced' = IF RowsOf(to_list_store, t) = {} THEN raced ELSE raced \cup {t}

\* A change that the action worker announced.
DispatchChanged ==
  /\ gpc = "idle"
  /\ pipe # <<>>
  /\ Head(pipe) \in Tid
  /\ pipe' = Tail(pipe)
  /\ OnThreadChanged(Head(pipe), db, changed_threads)
  /\ UNCHANGED <<db, query, run, in_destructor, lvars, to_list_store, polled,
                 gvars, bounds>>

\* refresh_threads of the poll.
PollTells ==
  /\ gpc = "idle"
  /\ \E t \in polled :
       /\ polled' = polled \ {t}
       /\ OnThreadChanged(t, db, changed_threads)
  /\ UNCHANGED <<db, query, run, in_destructor, lvars, to_list_store, pipe,
                 gvars, bounds>>

\* to_list_adder
DispatchData ==
  /\ gpc = "idle"
  /\ pipe # <<>>
  /\ Head(pipe) = "data"
  /\ pipe' = Tail(pipe)
  /\ rows' = rows \o to_list_store
  /\ to_list_store' = <<>>
  /\ UNCHANGED <<db, query, run, in_destructor, lvars, changed_threads, polled,
                 gvars, raced, bounds>>

\* update_deferred_changed_threads opens the database ...
DispatchDeferred ==
  /\ gpc = "idle"
  /\ pipe # <<>>
  /\ Head(pipe) = "deferred"
  /\ pipe' = Tail(pipe)
  /\ gdb' = db
  /\ gpc' = "update_deferred"
  /\ UNCHANGED <<db, query, run, in_destructor, lvars, to_list_store, rows,
                 changed_threads, polled, new_query, raced, bounds>>

\* Bug variant: the front is never popped.
UpdateDeferredKeeps ==
  /\ gpc = "update_deferred"
  /\ changed_threads # <<>>
  /\ OnThreadChanged(Head(changed_threads), gdb, changed_threads)
  /\ UNCHANGED <<db, query, run, in_destructor, lvars, to_list_store, pipe,
                 polled, gvars, bounds>>

\* ... handles what was put off (during another load: puts it off again) ...
UpdateDeferred ==
  /\ gpc = "update_deferred"
  /\ changed_threads # <<>>
  /\ OnThreadChanged(Head(changed_threads), gdb, Tail(changed_threads))
  /\ UNCHANGED <<db, query, run, in_destructor, lvars, to_list_store, pipe,
                 polled, gvars, bounds>>

\* ... and closes it when nothing is left.
UpdateDeferredEnds ==
  /\ gpc = "update_deferred"
  /\ changed_threads = <<>>
  /\ gdb' = Closed
  /\ gpc' = "idle"
  /\ UNCHANGED <<db, query, run, in_destructor, lvars, to_list_store, rows,
                 changed_threads, pipe, polled, new_query, raced, bounds>>

\* refine_query assigns to query with the loader still running ...
RefineBegin ==
  /\ gpc = "idle"
  /\ reloads < MaxReloads
  /\ \E q \in Query \ {query} : new_query' = q
  /\ reloads' = reloads + 1
  /\ gpc' = "refine"
  /\ UNCHANGED <<db, query, run, in_destructor, lvars, to_list_store, rows,
                 changed_threads, pipe, polled, gdb, raced, changes>>

\* ... and then reloads.
RefineEnd ==
  /\ gpc = "refine"
  /\ query' = new_query
  /\ run' = FALSE
  /\ gpc' = "stop"
  /\ UNCHANGED <<db, in_destructor, lvars, to_list_store, rows,
                 changed_threads, pipe, polled, gdb, new_query, raced, bounds>>

\* reload, from a key or from the signal refreshed: stop ...
Reload ==
  /\ gpc = "idle"
  /\ reloads < MaxReloads
  /\ reloads' = reloads + 1
  /\ run' = FALSE
  /\ gpc' = "stop"
  /\ UNCHANGED <<db, query, in_destructor, lvars, to_list_store, rows,
                 changed_threads, pipe, polled, gdb, new_query, raced, changes>>

\* Bug variant: rows that the old loader left in to_list_store survive.
RestartKeepsRows ==
  /\ gpc = "stop"
  /\ lpc = "done"
  /\ rows' = <<>>
  /\ raced' = {}
  /\ run' = TRUE
  /\ lpc' = "open"
  /\ failed' = FALSE
  /\ gpc' = "idle"
  /\ UNCHANGED <<db, query, in_destructor, snap, remaining, i, changed_threads,
                 to_list_store, pipe, polled, gdb, new_query, bounds>>

\* ... join, clear the list and what was not yet in it, and start.
Restart ==
  /\ gpc = "stop"
  /\ lpc = "done"
  /\ rows' = <<>> /\ to_list_store' = <<>>
  /\ raced' = {}
  /\ run' = TRUE
  /\ lpc' = "open"
  /\ failed' = FALSE
  /\ gpc' = "idle"
  /\ UNCHANGED <<db, query, in_destructor, snap, remaining, i, changed_threads,
                 pipe, polled, gdb, new_query, bounds>>

\* pre_close of the thread index, and the destructor: stop (true) ...
Close ==
  /\ gpc = "idle"
  /\ in_destructor' = TRUE
  /\ run' = FALSE
  /\ gpc' = "stop_destruct"
  /\ UNCHANGED <<db, query, lvars, to_list_store, rows, changed_threads, pipe,
                 polled, gdb, new_query, raced, bounds>>

\* ... join, clear everything; the dispatchers go with the object.
Destruct ==
  /\ gpc = "stop_destruct"
  /\ lpc = "done"
  /\ rows' = <<>> /\ to_list_store' = <<>> /\ changed_threads' = <<>>
  /\ pipe' = <<>>
  /\ gpc' = "destroyed"
  /\ UNCHANGED <<db, query, run, in_destructor, lvars, polled, gdb, new_query,
                 raced, bounds>>

-----------------------------------------------------------------------------
LoaderStep ==
  \/ LoaderOpen \/ LoaderQuery \/ LoaderQueryFails \/ LoaderPush \/ LoaderBatch
  \/ LoaderEnds \/ LoaderEmitsData \/ LoaderEmitsDeferred \/ LoaderCloses

Change == gpc # "destroyed" /\ (WorkerChange \/ PollChange)

UserAction == Reload \/ RefineBegin \/ Close

GuiStep ==
  \/ DispatchChanged \/ PollTells \/ DispatchData
  \/ DispatchDeferred \/ UpdateDeferred \/ UpdateDeferredEnds
  \/ RefineEnd \/ Restart \/ Destruct

Next == LoaderStep \/ Change \/ UserAction \/ GuiStep

Spec == Init /\ [][Next]_vars

\* The loader runs on, and the main loop keeps dispatching.
FairSpec == Spec /\ WF_vars(LoaderStep) /\ WF_vars(GuiStep)

-----------------------------------------------------------------------------
\* Every variable keeps its type; a database is open in the steps that read it.
TypeOK ==
  /\ db \in [Tid -> Value]
  /\ snap \in IF lpc \in {"open", "done"} THEN {Closed} ELSE [Tid -> Value]
  /\ gdb \in IF gpc = "update_deferred" THEN [Tid -> Value] ELSE {Closed}
  /\ query \in Query /\ new_query \in Query
  /\ run \in BOOLEAN /\ in_destructor \in BOOLEAN /\ failed \in BOOLEAN
  /\ lpc \in {"open", "query", "iterate", "batch", "data", "deferred", "close", "done"}
  /\ gpc \in {"idle", "update_deferred", "refine", "stop", "stop_destruct", "destroyed"}
  /\ remaining \subseteq Tid /\ polled \subseteq Tid /\ raced \subseteq Tid
  /\ i \in Nat
  /\ to_list_store \in Seq(Row) /\ rows \in Seq(Row)
  /\ changed_threads \in Seq(Tid)
  /\ pipe \in Seq({"data", "deferred"} \cup Tid)
  /\ run => lpc \in {"open", "query", "iterate", "batch"}
  /\ changes \in 0 .. MaxChanges /\ reloads \in 0 .. MaxReloads

\* A change that was put off is never forgotten: the loader has its last
\* emission still to make, or that emission waits for the main loop, or is
\* being handled, or the list is going away.
DeferredUnderway ==
  changed_threads # <<>> =>
    \/ lpc \notin {"close", "done"}
    \/ "deferred" \in ToSet(pipe)
    \/ gpc = "update_deferred"
    \/ in_destructor

Quiet == lpc = "done" /\ gpc = "idle" /\ pipe = <<>> /\ polled = {}

\* Once everything is quiet, each thread that matches the query is listed
\* once and as it is in the database, and no other: unless its change was
\* handled between the end of the loader's loop and the dispatch of the rows
\* it left, which is the only way to get the list wrong.
QuietListCorrect ==
  Quiet /\ ~failed =>
    \A t \in Tid \ raced :
      /\ db[t] \in query => /\ Cardinality(RowsOf(rows, t)) = 1
                            /\ \A k \in RowsOf(rows, t) : rows[k].val = db[t]
      /\ db[t] \notin query => RowsOf(rows, t) = {}

\* Whatever the list holds or is about to hold matches its query, although
\* refine_query assigns to query while the loader reads it.
RowsMatchQuery ==
  gpc \in {"idle", "update_deferred"} =>
    \A row \in ToSet(rows) \cup ToSet(to_list_store) : row.val \in query

\* The GUI thread always gets back to its main loop: it waits for a loader
\* only when that ends, and a deferred update during another load does not
\* go round for ever.
GuiReturns == gpc # "idle" ~> gpc \in {"idle", "destroyed"}

\* When the changes and the reloads end, everything gets quiet: all rows are
\* in the list and all changes handled.
Settles == <>[](Quiet \/ gpc = "destroyed")

\* "still loading, deferring thread_changed to until load is done"
\* (query_loader.cc:261): a change that the worker announces while the row
\* that the loader read of the thread still waits for the list is put off.
ChangesWaitForLoad ==
  [][DispatchChanged /\ RowsOf(to_list_store, Head(pipe)) # {} =>
       Len(changed_threads') > Len(changed_threads)]_vars

=============================================================================
