------------------------------ MODULE ThreadList ------------------------------
(***************************************************************************)
(* The list of a thread index: its rows, filter, cursor and marks, the     *)
(* commands on the threads in it, and the thread view beside it, which     *)
(* asks the list for the next thread (thread_index.cc,                     *)
(* thread_index_list_view.cc).                                             *)
(*                                                                         *)
(* Commands go by paths in the filtered list.  Rows come, go and change    *)
(* at any time, also while the user answers a question or a command.       *)
(***************************************************************************)
EXTENDS Naturals, Sequences, SequencesExt, FiniteSets

CONSTANTS
  Thread,      \* threads, numbered in the order of the query
  NoThread,    \* no thread
  JumpRows,    \* how far J and K move (page_jump_rows)
  MaxOpened,   \* bound on threads opened in one pane
  MaxChanges   \* bound on changes of threads, reloads and filters

ASSUME ThreadListAssumption ==
  Thread \subseteq Nat \ {0} /\ NoThread = 0 /\ {JumpRows, MaxOpened, MaxChanges} \subseteq Nat

\* A thread has one tag, unread, which is what the filter looks for; the tags
\* of a thread are a subset of Tags.
Tags == {"unread"}

VARIABLES
  notmuch,      \* tags of each thread, and whether it is in the query
  list_store,   \* the rows, threads in order
  item,         \* tags of the NotmuchThread of each row, and index_str
  marks,        \* rows that are marked
  filter_txt,   \* the list is filtered
  filtered,     \* rows that the filter shows
  cursor_row,   \* the row of the cursor
  loading_rows, first_thread_ready,  \* the loader runs; its first signal
  changed_threads,                   \* changes still to be announced
  pane,         \* the thread view beside the list: its thread, and how often
                \* on_index_action is connected to its signal
  command,      \* what the window waits for
  acted,        \* what the step requests, for the properties
  emptied,      \* the list on display has once become empty
  crashed,      \* the pane was told to load no thread
  changes
listVars == <<notmuch, list_store, item, marks, filter_txt, filtered, cursor_row, loading_rows,
              first_thread_ready, changed_threads, pane, command, acted, emptied,
              crashed, changes>>
rowVars == <<list_store, item, filtered, cursor_row, emptied>>
queryVars == <<notmuch, loading_rows, first_thread_ready, changed_threads, changes>>

NoCommand == [kind |-> "none"]
NoPane == [thread |-> NoThread, connections |-> 0]
NoAct == [on |-> {}, add |-> {}, remove |-> {}]
NewItem(t) == [tags |-> notmuch[t].tags, index |-> {}]

\* NotmuchThread::matches builds index_str when it is first asked, and keeps
\* it: later tags are not in it.
Indexed(its, rows, f) ==
  [t \in Thread |-> IF f /\ t \in ToSet(rows) /\ its[t].index = {}
                    THEN [its[t] EXCEPT !.index = {its[t].tags}] ELSE its[t]]
Matching(its, rows, f) == {t \in ToSet(rows) : ~f \/ its[t].index = {Tags}}

ListInit ==
  /\ notmuch \in [Thread -> [tags : SUBSET Tags, in_query : BOOLEAN]]
  /\ list_store = <<>> /\ item = [t \in Thread |-> NewItem(t)] /\ marks = {}
  /\ filter_txt = FALSE /\ filtered = {} /\ cursor_row = NoThread
  /\ loading_rows = TRUE /\ first_thread_ready = FALSE /\ changed_threads = {}
  /\ pane = NoPane /\ command = NoCommand /\ acted = NoAct
  /\ emptied = FALSE /\ crashed = FALSE /\ changes = 0

\* The rows that are in kept, in their order.
RowsIn(rows, kept) ==
  LET at == {i \in DOMAIN rows : rows[i] \in kept}
  IN  [k \in 1 .. Cardinality(at) |->
         rows[CHOOSE i \in at : Cardinality({j \in at : j <= i}) = k]]

View == RowsIn(list_store, filtered)
PathIn(rows) == IF cursor_row \in ToSet(rows) THEN CHOOSE i \in DOMAIN rows : rows[i] = cursor_row
                ELSE 0
Path == PathIn(View)

\* The tree view moves the cursor off a row that goes, to the next one that
\* stays or else the one before.
CursorAfter(old, new) ==
  LET p == PathIn(old)
      stay == {i \in DOMAIN old : old[i] \in new}
      after == {i \in stay : i >= p}
  IN  IF p = 0 \/ stay = {} THEN NoThread
      ELSE old[IF after # {} THEN Min(after) ELSE Max(stay)]

\* The rows become rows, with the items its, the filter being f; and set_cursor
\* puts the cursor on row first of the view if it is not 0.
Show(rows, its, f, first) ==
  LET now == Indexed(its, rows, f)
      shown == Matching(now, rows, f)
      view == RowsIn(rows, shown)
  IN  /\ list_store' = rows /\ item' = now /\ filtered' = shown
      /\ cursor_row' = IF first \in DOMAIN view THEN view[first] ELSE CursorAfter(View, shown)
      /\ emptied' = (emptied \/ (View # <<>> /\ view = <<>>))

-----------------------------------------------------------------------------
(* The query loader and the action manager.                                *)

\* to_list_adder takes the next thread of the query.
LoadRow ==
  LET next == {t \in Thread : notmuch[t].in_query} \ ToSet(list_store)
  IN  /\ loading_rows /\ ~crashed
      /\ IF next = {} THEN loading_rows' = FALSE /\ UNCHANGED <<rowVars, first_thread_ready>>
         ELSE /\ Show(Append(list_store, Min(next)),
                      [item EXCEPT ![Min(next)] = NewItem(Min(next))], filter_txt, 0)
              /\ first_thread_ready' = (first_thread_ready \/ list_store = <<>>)
              /\ UNCHANGED loading_rows
      /\ UNCHANGED <<notmuch, changed_threads, changes, marks, filter_txt, pane, command,
                     crashed>>

\* on_first_thread_ready, dispatched later.
FirstThreadReady ==
  /\ first_thread_ready /\ first_thread_ready' = FALSE /\ ~crashed
  /\ Show(list_store, item, filter_txt, 1)
  /\ UNCHANGED <<notmuch, loading_rows, changed_threads, changes, marks, filter_txt,
                 pane, command, crashed>>

\* The object that an open tag command holds is not one of the list any more.
Orphan(gone) ==
  IF command.kind = "tag" /\ command.live /\ command.on \subseteq gone
  THEN [command EXCEPT !.live = FALSE, !.tags = item[CHOOSE t \in command.on : TRUE].tags]
  ELSE command

\* QueryLoader::reload, by the key, by a new sort order, by a new query (the
\* cursor is set, on nothing yet) or by a poll.
ReloadList ==
  /\ changes < MaxChanges /\ changes' = changes + 1 /\ ~crashed
  /\ command' = Orphan(Thread)
  /\ Show(<<>>, item, filter_txt, 0)
  /\ marks' = {} /\ loading_rows' = TRUE /\ changed_threads' = {}
  /\ UNCHANGED <<notmuch, first_thread_ready, filter_txt, pane, crashed>>

\* An action changes the tags of a thread, in the item of the row too if it
\* was made for this list, or another program does, or takes the thread into
\* the query or out of it.  While rows are loaded changes wait (QueryLoader).
Change ==
  /\ changes < MaxChanges /\ changes' = changes + 1 /\ ~loading_rows /\ ~crashed
  /\ \E t \in Thread :
       /\ changed_threads' = changed_threads \cup {t}
       /\ \/ /\ notmuch' = [notmuch EXCEPT ![t].in_query = ~@]
             /\ UNCHANGED item
          \/ /\ notmuch' = [notmuch EXCEPT ![t].tags = Tags \ @]
             /\ \/ UNCHANGED item
                \/ /\ t \in ToSet(list_store)
                   /\ item' = [item EXCEPT ![t].tags = notmuch'[t].tags]
  /\ UNCHANGED <<list_store, filtered, cursor_row, emptied, loading_rows, first_thread_ready,
                 marks, filter_txt, pane, command, crashed>>

\* on_thread_changed: the row is refreshed or erased, or one is put before
\* the others; with the cursor on the first row it goes to the new one.
OnThreadChanged ==
  \E t \in changed_threads :
    /\ ~loading_rows /\ ~crashed /\ changed_threads' = changed_threads \ {t}
    /\ IF notmuch[t].in_query
       THEN /\ UNCHANGED <<marks, command>>
            /\ IF t \in ToSet(list_store)
               THEN /\ Show(list_store, [item EXCEPT ![t].tags = notmuch[t].tags], filter_txt, 0)
                    /\ UNCHANGED first_thread_ready
               ELSE /\ Show(<<t>> \o list_store, [item EXCEPT ![t] = NewItem(t)], filter_txt,
                            IF list_store # <<>> /\ Path = 1 THEN 1 ELSE 0)
                    /\ first_thread_ready' = (first_thread_ready \/ list_store = <<>>)
       ELSE /\ marks' = marks \ {t} /\ UNCHANGED first_thread_ready
            /\ command' = Orphan({t})
            /\ Show(RowsIn(list_store, Thread \ {t}), item, filter_txt, 0)
    /\ UNCHANGED <<notmuch, loading_rows, changes, filter_txt, pane, crashed>>

-----------------------------------------------------------------------------
(* Keys of the list, which it gets while no command or multi key waits.    *)

Keys == command = NoCommand /\ ~crashed
SetCursor(n) == cursor_row' = IF n \in DOMAIN View THEN View[n] ELSE cursor_row
CursorTo(n) ==
  SetCursor(n) /\ UNCHANGED <<queryVars, list_store, item, filtered, emptied, marks, filter_txt,
                              pane, command, crashed>>

\* Rows the cursor goes to from path p, which is empty without a cursor; next
\* and prev leave it so.
NextRow(p) == IF Len(View) > 1 /\ p > 0 THEN p + 1 ELSE 0
PrevRow(p) == IF p > 1 THEN p - 1 ELSE p
UnreadRows == {i \in DOMAIN View : item[View[i]].tags = Tags}
NextUnreadRow(p) ==
  LET after == {i \in UnreadRows : i > p}
  IN  IF p = 0 \/ UnreadRows = {} THEN 0
      ELSE IF after # {} THEN Min(after) ELSE Min(UnreadRows)
PrevUnreadRow(p) ==
  LET before == {i \in UnreadRows : i < p}
      after == {i \in UnreadRows : i > p}
  IN  IF before # {} THEN Max(before)
      ELSE IF p > 0 /\ after # {} THEN Max(after) ELSE 0
ScrollDownRow(p) ==
  IF Len(View) < 2 THEN 0
  ELSE IF p > 0 /\ p + JumpRows <= Len(View) THEN p + JumpRows ELSE Len(View)
ScrollUpRow(p) == IF p > JumpRows THEN p - JumpRows ELSE 1
ScrollEnds == {1, Len(View)}
\* What is in view when the list has been scrolled by a page.
PageRows == DOMAIN View

MoveCursor ==
  /\ Keys
  /\ \E n \in {NextRow(Path), PrevRow(Path), NextUnreadRow(Path), PrevUnreadRow(Path),
                ScrollDownRow(Path), ScrollUpRow(Path)} \cup ScrollEnds \cup PageRows : CursorTo(n)

\* Bug variant: the path is one of the filtered list, the iterator is not.
GetCurrentThreadUnfiltered ==
  IF Path \in DOMAIN list_store THEN list_store[Path] ELSE NoThread

GetCurrentThread == IF Path \in DOMAIN View THEN View[Path] ELSE NoThread

NoRequest == acted' = NoAct /\ UNCHANGED <<queryVars, rowVars, filter_txt, crashed>>
Act(threads, add, rem) ==
  /\ acted' = [on |-> threads, add |-> add, remove |-> rem]
  /\ UNCHANGED <<queryVars, rowVars, filter_txt, crashed>>

\* A key that does something with the thread of the cursor: open it in a tab
\* or a window, reply to or forward its newest message, edit its draft, or
\* toggle a tag.
ThreadKey ==
  /\ Keys /\ GetCurrentThread # NoThread /\ Act({GetCurrentThread}, {}, {})
  /\ UNCHANGED <<marks, pane, command>>
OpenThreadElsewhere == ThreadKey
ReplyToThread == ThreadKey
EditDraft == ThreadKey
ThreadAction == ThreadKey

\* open_thread beside the list: each time on_index_action is connected to the
\* signal of the pane's view, which is kept.
OpenPane ==
  /\ Keys /\ GetCurrentThread # NoThread /\ pane.connections < MaxOpened
  /\ pane' = [thread |-> GetCurrentThread, connections |-> pane.connections + 1]
  /\ Act({GetCurrentThread}, {}, {}) /\ UNCHANGED <<marks, command>>
CloseThreadPane ==
  /\ Keys /\ pane.thread # NoThread /\ pane' = NoPane
  /\ UNCHANGED <<queryVars, rowVars, filter_txt, crashed, marks, command>>

\* What a thread view asks for.
PaneMoves == {"next", "previous", "next_unread", "previous_unread"}
PaneRow(move, p) ==
  CASE move = "next" -> NextRow(p) [] move = "previous" -> PrevRow(p)
    [] move = "next_unread" -> NextUnreadRow(p) [] OTHER -> PrevUnreadRow(p)

\* on_index_action, called once for each connection: the list moves on and the
\* pane loads the thread there, whatever the list has there.
IndexAction ==
  /\ Keys /\ pane.thread # NoThread /\ View # <<>>
  /\ UNCHANGED <<queryVars, list_store, item, filtered, emptied, filter_txt, marks, command>>
  /\ \E move \in PaneMoves :
       LET path[i \in 0 .. pane.connections] ==
             IF i = 0 THEN Path
             ELSE LET n == PaneRow(move, path[i - 1])
                  IN  IF n \in DOMAIN View THEN n ELSE path[i - 1]
       IN  /\ SetCursor(path[pane.connections])
           /\ crashed' = (path[1] = 0)
           /\ pane' = IF crashed' THEN pane ELSE [pane EXCEPT !.thread = GetCurrentThread']

\* t, its two siblings, and T.
ToggleMarked ==
  /\ Keys /\ Path > 0 /\ marks' = SymDiff(marks, {View[Path]})
  /\ \E n \in {Path, NextRow(Path), PrevRow(Path)} : SetCursor(n)
  /\ UNCHANGED <<queryVars, list_store, item, filtered, emptied, filter_txt, pane,
                 command, crashed>>
ToggleMarkedAll ==
  /\ Keys /\ marks' = SymDiff(marks, filtered)
  /\ UNCHANGED <<queryVars, rowVars, filter_txt, pane, command, crashed>>

\* on_filter, at each change of the text in the command bar, and Escape.
OnFilter ==
  /\ Keys /\ changes < MaxChanges /\ changes' = changes + 1 /\ filter_txt' = ~filter_txt
  /\ Show(list_store, item, filter_txt', 0)
  /\ UNCHANGED <<notmuch, loading_rows, first_thread_ready, changed_threads, marks, pane,
                 command, crashed>>

\* The tag command shows the tags of a thread, to be edited.
AskTags ==
  /\ Keys /\ GetCurrentThread # NoThread
  /\ command' = [kind |-> "tag", on |-> {GetCurrentThread}, shown |-> item[GetCurrentThread].tags,
                 live |-> TRUE, tags |-> {}]
  /\ UNCHANGED <<queryVars, rowVars, marks, filter_txt, pane, crashed>>

\* Add and remove are differences to the tags the item has now.
AnswerTags ==
  /\ command.kind = "tag" /\ ~crashed
  /\ LET now == IF command.live THEN item[CHOOSE t \in command.on : TRUE].tags ELSE command.tags
     IN  \E left \in SUBSET Tags :
           IF left = now THEN NoRequest
           ELSE Act(command.on, left \ now, now \ left)
  /\ command' = NoCommand /\ UNCHANGED <<marks, pane>>

\* The multi key, if a row on display is marked, and its keys: an action on
\* the marked rows on display, unmark them, or ask for tags.
MarkedRows == marks \cap filtered
AskMulti ==
  /\ Keys /\ MarkedRows # {} /\ command' = [kind |-> "multi"]
  /\ UNCHANGED <<queryVars, rowVars, marks, filter_txt, pane, crashed>>
MultiKeyHandler ==
  /\ command.kind = "multi" /\ ~crashed
  /\ \/ Act(MarkedRows, {}, {}) /\ command' = NoCommand /\ UNCHANGED marks
     \/ /\ marks' = marks \ filtered /\ command' = NoCommand /\ NoRequest
     \/ /\ command' = [kind |-> "difftag", on |-> MarkedRows]
        /\ UNCHANGED marks /\ NoRequest
  /\ UNCHANGED pane
AnswerDiffTags ==
  /\ command.kind = "difftag" /\ ~crashed /\ Act(command.on, {}, {}) /\ command' = NoCommand
  /\ UNCHANGED <<marks, pane>>
CancelCommand ==
  /\ command # NoCommand /\ ~crashed /\ command' = NoCommand
  /\ UNCHANGED <<queryVars, rowVars, marks, filter_txt, pane, crashed>>

ListNext ==
  \/ /\ acted' = NoAct
     /\ \/ LoadRow \/ FirstThreadReady \/ ReloadList \/ Change \/ OnThreadChanged
        \/ MoveCursor \/ CloseThreadPane \/ IndexAction \/ ToggleMarked \/ ToggleMarkedAll
        \/ OnFilter \/ AskTags \/ AskMulti \/ CancelCommand
  \/ OpenThreadElsewhere \/ ReplyToThread \/ EditDraft \/ OpenPane \/ ThreadAction
  \/ AnswerTags \/ MultiKeyHandler \/ AnswerDiffTags
ListSpec == ListInit /\ [][ListNext]_listVars

-----------------------------------------------------------------------------
(* Properties.                                                             *)

\* Type invariant; the cursor, the marks and the filter are about rows.
ListTypeOK ==
  /\ filtered \subseteq ToSet(list_store) /\ marks \subseteq ToSet(list_store)
  /\ cursor_row \in filtered \cup {NoThread} /\ pane.thread \in Thread \cup {NoThread}
  /\ \A i, j \in DOMAIN list_store : list_store[i] = list_store[j] => i = j

\* What the user does to a thread goes to one that the list shows at that
\* time, however rows have come and gone and been filtered; only a command
\* that was open meanwhile goes to the threads it was opened for.  The
\* thread beside the list is then the one of the cursor, and the list always
\* has one to give unless it had once become empty on display (get_current_thread,
\* on_index_action, multi_key_handler).
ListActsOnView ==
  [][/\ acted' # acted => \/ acted'.on \subseteq filtered
                          \/ command.kind \in {"tag", "difftag"} /\ acted'.on = command.on
     /\ pane'.thread \notin {pane.thread, NoThread} =>
          pane'.thread \in filtered /\ pane'.thread = cursor_row'
     /\ crashed' => emptied]_listVars

=============================================================================
