----------------------------- MODULE TagActions -----------------------------
(***************************************************************************)
(* The actions that change tags (src/src/actions/tag_action.cc,            *)
(* toggle_action.cc, difftag_action.cc) and the items they work on         *)
(* (NotmuchThread and NotmuchMessage of src/src/db.cc).                    *)
(*                                                                         *)
(* An item keeps a copy of the tags it last saw in the database.  A thread *)
(* item is shared by the thread index, the thread view and every action on *)
(* the thread: it decides by its copy whether a tag has to be added or     *)
(* removed, and updates the copy.  A message item does not look at its     *)
(* copy and does not update it.  Actions on messages are mostly given a    *)
(* private message item, copied from the message on display, which no      *)
(* signal ever refreshes.                                                  *)
(*                                                                         *)
(* The copy is a vector, sorted when it is loaded; a thread item appends   *)
(* the tags it adds.  Only DiffTagAction depends on the order.  Tags are   *)
(* numbers here, in the order the code sorts them.                         *)
(*                                                                         *)
(* The queues are those of ActionManager, where the steps of the worker    *)
(* and the emitter are taken apart; here the worker does one action in one *)
(* step, as the database lock makes it, and the emitter emits one.         *)
(***************************************************************************)
EXTENDS Naturals, SequencesExt

CONSTANTS
  Thread, Message,  \* messages are numbered in the order of their thread
  ThreadOf,         \* the thread of each message
  Tag, Unread,
  Diff,             \* pairs <<plus, minus>> the user types as a tag diff
  MaxRequests,      \* bound on actions and polls that are asked for
  MaxRefreshes,     \* bound on refreshes after polls that wait
  MaxTroubles       \* bound on failures of notmuch and other programs' changes

ASSUME TagAssumption ==
  /\ Message \subseteq Nat /\ Thread \cap Message = {}
  /\ ThreadOf \in [Message -> Thread]
  /\ \A t \in Thread : \E m \in Message : ThreadOf[m] = t
  /\ Tag \subseteq Nat /\ Unread \in Tag
  /\ Diff \subseteq (SUBSET Tag) \X (SUBSET Tag)
  /\ MaxRequests \in Nat /\ MaxRefreshes \in Nat /\ MaxTroubles \in Nat

VARIABLES
  db,                            \* the tags of each message in notmuch
  tags,                          \* the tags each item on display last saw
  disorder,                      \* pairs of tags in the wrong order in the
                                 \* vector of a thread item, first one first
  actions, doneactions,          \* the queue and the stack of the manager
  toemit,                        \* the taggables of the actions to be emitted
  polling, refreshes,            \* is a poll script running; refreshes of
                                 \* ended polls that wait for the main loop
  unannounced,                   \* threads others changed that these will tell
  missed,                        \* items others changed that none will tell
  requests, troubles             \* counters for the bounds

copies == <<tags, disorder>>
queues == <<actions, doneactions, toemit>>
polls == <<polling, refreshes, unannounced, missed>>
counters == <<requests, troubles>>
vars == <<db, copies, queues, polls, counters>>

Item == Thread \cup Message
MessagesOf(i) == IF i \in Thread THEN {m \in Message : ThreadOf[m] = i} ELSE {i}

\* What an item that is loaded now would see in the database d.
Seen(d, i) == UNION {d[m] : m \in MessagesOf(i)}

\* An action: its class, its taggables, what it adds to and removes from
\* each, the tag it toggles, the tags its items showed when it was made and,
\* for the properties, the database before and after it was done, and whether
\* its items then showed the truth and notmuch did all it was asked.
ActionRecord ==
  [kind : {"tag", "toggle", "diff"}, on : (SUBSET Thread) \cup (SUBSET Message),
   add : [Item -> SUBSET Tag], remove : [Item -> SUBSET Tag], toggle : Tag,
   seen : [Item -> SUBSET Tag], in_undo : BOOLEAN, skip_undo : BOOLEAN,
   before : [Message -> SUBSET Tag], after : [Message -> SUBSET Tag],
   plain : BOOLEAN]

NewAction(kind, on, add, remove, toggle, skip) ==
  [kind |-> kind, on |-> on, add |-> add, remove |-> remove,
   toggle |-> toggle, seen |-> [i \in Item |-> IF i \in on THEN tags[i] ELSE {}],
   in_undo |-> FALSE, skip_undo |-> skip,
   before |-> [m \in Message |-> {}], after |-> [m \in Message |-> {}],
   plain |-> FALSE]

Nothing == [i \in Item |-> {}]
Only(i, S) == [Nothing EXCEPT ![i] = S]

Init ==
  /\ db \in [Message -> SUBSET Tag]
  /\ tags = [i \in Item |-> Seen(db, i)]
  /\ actions = <<>> /\ doneactions = <<>> /\ toemit = <<>>
  /\ disorder = [t \in Thread |-> {}]
  /\ polling = FALSE /\ refreshes = 0 /\ unannounced = {} /\ missed = {}
  /\ requests = 0 /\ troubles = 0

-----------------------------------------------------------------------------
(* The user, on the GUI thread. *)

Doit(a) ==
  /\ requests < MaxRequests /\ requests' = requests + 1
  /\ actions' = Append(actions, a)
  /\ UNCHANGED <<db, tags, doneactions, toemit, polls, troubles>>

\* ToggleAction on the threads that are marked, or on the message in focus,
\* which is copied.
ToggleTag ==
  \E on \in ((SUBSET Thread) \ {{}}) \cup {{m} : m \in Message}, g \in Tag :
    /\ Doit(NewAction("toggle", on, Nothing, Nothing, g, FALSE))
    /\ UNCHANGED disorder

\* The answer of the tag dialog: the user leaves S of the tags of one item,
\* whose vector is sorted where it is, also when nothing is to be done.
EditTags ==
  \E i \in Item, S \in SUBSET Tag :
    /\ disorder' = [t \in Thread |-> IF t = i THEN {} ELSE disorder[t]]
    /\ \/ /\ S # tags[i]
          /\ Doit(NewAction("tag", {i}, Only(i, S \ tags[i]), Only(i, tags[i] \ S),
                            Unread, FALSE))
       \/ /\ S = tags[i]
          /\ UNCHANGED <<db, tags, queues, polls, counters>>

\* The tags that set_intersection and set_difference of a sorted vector with
\* the vector of an item find in the latter: those with no larger in front.
Found(i) == {g \in tags[i] : i \in Thread => \A h \in Tag : <<h, g>> \notin disorder[i]}

\* DiffTagAction: what to add and remove is fixed when the action is made.
DiffTags ==
  \E on \in ((SUBSET Thread) \cup (SUBSET Message)) \ {{}}, d \in Diff :
    /\ d[1] \cup d[2] # {}
    /\ Doit(NewAction("diff", on,
                      [i \in Item |-> IF i \in on THEN d[1] \ Found(i) ELSE {}],
                      [i \in Item |-> IF i \in on THEN d[2] \cap Found(i) ELSE {}],
                      Unread, FALSE))
    /\ UNCHANGED disorder

\* unread_check: the message in focus has been read.
MarkRead ==
  \E m \in Message :
    /\ Unread \in tags[m]
    /\ Doit(NewAction("tag", {m}, Nothing, Only(m, {Unread}), Unread, TRUE))
    /\ UNCHANGED disorder

Undo ==
  /\ IF actions # <<>>
     THEN /\ ~ Last(actions).in_undo /\ ~ Last(actions).skip_undo
          /\ actions' = Front(actions)
          /\ UNCHANGED doneactions
     ELSE /\ doneactions # <<>>
          /\ actions' = <<[Last(doneactions) EXCEPT !.in_undo = TRUE]>>
          /\ doneactions' = Front(doneactions)
  /\ UNCHANGED <<db, copies, toemit, polls, counters>>

-----------------------------------------------------------------------------
(* The worker. *)

\* What the action asks of an item.  A toggle looks at the tags of its item,
\* which for a message is the private copy; its undo is its doit.
Has(a, i) == IF i \in Thread THEN tags[i] ELSE a.seen[i]
\* Bug variant: undo does not swap what is added and what is removed.
AddsAgain(a, i) ==
  IF a.kind = "toggle" THEN {a.toggle} \ Has(a, i) ELSE a.add[i]

Adds(a, i) ==
  IF a.kind = "toggle" THEN {a.toggle} \ Has(a, i)
  ELSE IF a.in_undo THEN a.remove[i] ELSE a.add[i]
Removes(a, i) ==
  IF a.kind = "toggle" THEN {a.toggle} \cap Has(a, i)
  ELSE IF a.in_undo THEN a.add[i] ELSE a.remove[i]

\* add_tag and remove_tag: a thread skips what its copy says is done.
AddTag(a, i) == IF i \in Thread THEN Adds(a, i) \ tags[i] ELSE Adds(a, i)
RemoveTag(a, i) == IF i \in Thread THEN Removes(a, i) \cap tags[i] ELSE Removes(a, i)

\* The messages that get or lose tag g with item i.  If notmuch fails at one
\* of them, those after it are left alone; the one it fails at may have been
\* changed before its maildir flags could not be.
Reached(i, g, bad, first) ==
  IF <<i, g>> = bad THEN {m \in MessagesOf(i) : m < first} ELSE MessagesOf(i)

\* Bug variant: a thread item does not update its copy either.
PerformOnly(a, bad, first) ==
  LET plus(m) == UNION {{g \in AddTag(a, i) : m \in Reached(i, g, bad, first)} :
                        i \in {j \in a.on : m \in MessagesOf(j)}}
      minus(m) == UNION {{g \in RemoveTag(a, i) : m \in Reached(i, g, bad, first)} :
                         i \in {j \in a.on : m \in MessagesOf(j)}}
  IN db' = [m \in Message |-> (db[m] \cup plus(m)) \ minus(m)] /\ UNCHANGED copies

\* doit or undo of a, where the call for bad (an item and a tag) fails before
\* the message first; a failed call does not change the copy of a thread.  The
\* added tags go, in their order, to the end of the vector of a thread.
Perform(a, bad, first) ==
  LET plus(m) == UNION {{g \in AddTag(a, i) : m \in Reached(i, g, bad, first)} :
                        i \in {j \in a.on : m \in MessagesOf(j)}}
      minus(m) == UNION {{g \in RemoveTag(a, i) : m \in Reached(i, g, bad, first)} :
                         i \in {j \in a.on : m \in MessagesOf(j)}}
      good(i) == {g \in Tag : <<i, g>> # bad}
      new(i) == IF i \in a.on THEN AddTag(a, i) \cap good(i) ELSE {}
      gone(i) == IF i \in a.on THEN RemoveTag(a, i) \cap good(i) ELSE {}
  IN /\ db' = [m \in Message |-> (db[m] \cup plus(m)) \ minus(m)]
     /\ tags' = [i \in Item |->
          IF i \in Thread THEN (tags[i] \cup new(i)) \ gone(i) ELSE tags[i]]
     /\ disorder' = [t \in Thread |->
          {p \in disorder[t] \cup {q \in tags[t] \X new(t) : q[2] < q[1]} :
             p[1] \notin gone(t) /\ p[2] \notin gone(t)}]

\* Do the items show the truth, and did the user see it making the action.
\* (A toggle of a thread looks when it is done.)
Shows(i) == tags[i] = Seen(db, i)
Exact(a) ==
  \A i \in a.on :
    /\ i \in Thread => Shows(i)
    /\ (a.kind # "toggle" \/ i \in Message) => a.seen[i] = Seen(db, i)

Worker ==
  /\ actions # <<>>
  /\ actions' = Tail(actions)
  /\ LET a == Head(actions) IN
     \E bad \in (IF troubles < MaxTroubles THEN a.on \X Tag ELSE {}) \cup {<<>>} :
     \E first \in Message \cup {m + 1 : m \in Message} :
       /\ Perform(a, bad, first)
       /\ troubles' = IF bad = <<>> THEN troubles ELSE troubles + 1
       /\ toemit' = Append(toemit, a.on)
       /\ doneactions' =
            IF a.in_undo \/ a.skip_undo THEN doneactions
            ELSE Append(doneactions, [a EXCEPT !.before = db, !.after = db',
                                               !.plain = Exact(a) /\ bad = <<>>])
  /\ UNCHANGED <<polls, requests>>

-----------------------------------------------------------------------------
(* The signals, on the GUI thread. *)

\* Bug variant: a signal makes only the item itself look.
RefreshedAlone(i) == {i}

\* The items that the signal for item i makes look at the database:
\* thread_updated the thread and all its messages, message_updated the
\* message and its thread.
Refreshed(i) ==
  IF i \in Thread THEN {i} \cup MessagesOf(i) ELSE {i, ThreadOf[i]}
\* Loaded tags are sorted.
Refresh(S) ==
  /\ tags' = [i \in Item |-> IF i \in S THEN Seen(db, i) ELSE tags[i]]
  /\ disorder' = [t \in Thread |-> IF t \in S THEN {} ELSE disorder[t]]
  /\ missed' = missed \ S

Emitter ==
  /\ toemit # <<>>
  /\ Refresh(UNION {Refreshed(i) : i \in Head(toemit)})
  /\ toemit' = Tail(toemit)
  /\ UNCHANGED <<db, actions, doneactions, polling, refreshes, unannounced, counters>>

-----------------------------------------------------------------------------
(* Other programs, and the polls that tell of their changes: Poll has the     *)
(* revisions by which a poll knows its changes, here are its effects.         *)

AllRefreshed(T) == UNION {Refreshed(t) : t \in T}

\* Another program changes the tags of a message.  A refresh looks back to the
\* start of the last poll and up to its own time.
OtherProgram ==
  /\ troubles < MaxTroubles /\ troubles' = troubles + 1
  /\ \E m \in Message, S \in SUBSET Tag :
       /\ S # db[m]
       /\ db' = [db EXCEPT ![m] = S]
       /\ IF polling \/ refreshes > 0
          THEN unannounced' = unannounced \cup {ThreadOf[m]} /\ UNCHANGED missed
          ELSE missed' = missed \cup {m, ThreadOf[m]} /\ UNCHANGED unannounced
  /\ UNCHANGED <<copies, queues, polling, refreshes, requests>>

\* A poll starts, or fails to: before_poll_revision is set anew, and a refresh
\* that waits will no longer tell what changed before.
PollStarts ==
  /\ requests < MaxRequests /\ requests' = requests + 1
  /\ ~polling /\ polling' \in BOOLEAN
  /\ unannounced' = {}
  /\ missed' = missed \cup AllRefreshed(unannounced)
  /\ UNCHANGED <<db, copies, queues, refreshes, troubles>>

\* The poll script ends.
PollEnds ==
  /\ polling /\ polling' = FALSE
  /\ refreshes < MaxRefreshes /\ refreshes' = refreshes + 1
  /\ UNCHANGED <<db, copies, queues, unannounced, missed, counters>>

\* Bug variant: the refresh tells of the threads, not of their messages.
PollTellsThreads ==
  /\ refreshes > 0 /\ refreshes' = refreshes - 1
  /\ Refresh(unannounced)
  /\ unannounced' = {}
  /\ UNCHANGED <<db, queues, polling, counters>>

\* The refresh of a poll tells of the threads that changed since; the worker's
\* own changes may make it tell of others also.
PollTells ==
  /\ refreshes > 0 /\ refreshes' = refreshes - 1
  /\ \E also \in SUBSET Thread : Refresh(AllRefreshed(unannounced \cup also))
  /\ unannounced' = {}
  /\ UNCHANGED <<db, queues, polling, counters>>

Next ==
  \/ ToggleTag \/ EditTags \/ DiffTags \/ MarkRead \/ Undo
  \/ Worker \/ Emitter
  \/ OtherProgram \/ PollStarts \/ PollEnds \/ PollTells

Spec == Init /\ [][Next]_vars
FairSpec == Spec /\ WF_vars(Worker) /\ WF_vars(Emitter) /\ WF_vars(PollTells)

-----------------------------------------------------------------------------
(* Properties. *)

\* Every variable keeps its type: only known tags, actions and items are queued.
TypeOK ==
  /\ db \in [Message -> SUBSET Tag]
  /\ tags \in [Item -> SUBSET Tag]
  /\ disorder \in [Thread -> SUBSET (Tag \X Tag)]
  /\ actions \in Seq(ActionRecord)
  /\ doneactions \in Seq(ActionRecord)
  /\ toemit \in Seq(SUBSET Item)
  /\ polling \in BOOLEAN /\ refreshes \in 0..MaxRefreshes
  /\ unannounced \subseteq Thread /\ missed \subseteq Item
  /\ (unannounced # {} => polling \/ refreshes > 0)
  /\ requests \in 0..MaxRequests
  /\ troubles \in 0..MaxTroubles

\* A signal on its way to item i: an action still to be emitted, or a change
\* by another program that the refresh of a poll will tell.
Coming(i) ==
  \/ \E on \in ToSet(toemit) : \E j \in on : i \in Refreshed(j)
  \/ i \in AllRefreshed(unannounced)

\* What an item on display shows is what notmuch has, or a signal is on its
\* way that makes it look again: no action, done, undone or failed halfway,
\* on the thread or on another item of it, leaves an item behind.  Only other
\* programs do, when they change mail outside a poll, or when the next poll
\* starts before the refresh of the last one has run.
ItemsTrail == \A i \in Item : Shows(i) \/ Coming(i) \/ i \in missed

WorkerSteps == Len(toemit') > Len(toemit)

\* A thread item that shows the truth still does after the worker has changed
\* its tags: add_tag and remove_tag of NotmuchThread update the copy on the
\* worker's thread, so that a toggle or an edit that is queued behind them
\* need not wait for the signals.  (A tag diff may still misread the copy.)
WorkerKeepsCopy ==
  [][WorkerSteps /\ troubles' = troubles =>
       \A i \in Head(actions).on \cap Thread :
         Shows(i) => Shows(i)']_vars

\* The worker undoes an action that was done on items that showed the truth,
\* on threads that still do, without failures, and with no other change of
\* their messages in between.
PlainUndo ==
  /\ WorkerSteps /\ troubles' = troubles
  /\ LET a == Head(actions) IN
     /\ a.in_undo /\ a.plain
     /\ \A i \in a.on \cap Thread : Shows(i)
     /\ \A i \in a.on : \A m \in MessagesOf(i) : db[m] = a.after[m]

\* The action adds only what its items had not when it was made.  This fails
\* for a tag diff on a thread to which the worker has just appended a tag out
\* of order: the diff adds a tag that is there already, and its undo takes away
\* what the user had before.
AddsNew(a) == \A i \in a.on : a.add[i] \cap a.seen[i] = {}

\* An undo brings back the tags of the items, for every kind of action but a
\* toggle on a message and a tag diff that misread the order of the tags.
UndoRestores ==
  [][PlainUndo =>
       LET a == Head(actions) IN
       AddsNew(a) /\ ~ (a.kind = "toggle" /\ a.on \subseteq Message)
         => \A i \in a.on : Seen(db', i) = Seen(a.before, i)]_vars

\* "for toggleaction undo == doit, which works with how it is defined in
\* tagaction" (src/src/actions/toggle_action.hh): undoing a toggle restores
\* the tags of the items.
ToggleUndoIsDoit ==
  [][PlainUndo =>
       LET a == Head(actions) IN
       a.kind = "toggle"
         => \A i \in a.on : Seen(db', i) = Seen(a.before, i)]_vars

\* Once the user and the other programs leave the mail alone, all items come
\* to show what notmuch has, but for changes that no poll tells of, and those
\* of a poll script that never ends.
ItemsCatchUp ==
  <>[](\A i \in Item :
         Shows(i) \/ i \in missed \/ (polling /\ i \in AllRefreshed(unannounced)))

=============================================================================
