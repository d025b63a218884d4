---------------------------- MODULE SavedSearches ----------------------------
(***************************************************************************)
(* Saved searches and the search history (saved_searches.cc): the file,    *)
(* the history in memory, and a page that lists both with how many         *)
(* messages each has.  The page asks the database only while it is the     *)
(* current one; otherwise it remembers to do so when it gets the grab.     *)
(* Changes of the file and the history only emit m_reload: until the main  *)
(* loop dispatches it the page has the rows of before, and keys use them.  *)
(***************************************************************************)
EXTENDS Naturals, Sequences, SequencesExt, FiniteSets

CONSTANTS
  Query,                  \* queries
  StartupQueries,         \* sequence of those configured as startup.queries
  history_lines,          \* lines of history to store
  history_lines_to_show,  \* and to show
  page_jump_rows,         \* how far J and K move
  MaxSearches, MaxMail,   \* bounds: searches made and saved, changes of mail,
  MaxEmitted              \* and emissions of m_reload that wait

ASSUME SearchesAssumption ==
  /\ StartupQueries \in Seq(Query)
  /\ {history_lines, history_lines_to_show, page_jump_rows, MaxSearches, MaxMail,
      MaxEmitted} \subseteq Nat

VARIABLES
  file,           \* the file: saved queries and history
  history,        \* the history in memory, oldest first
  running,        \* the program runs
  page,           \* the page is "closed", "hidden", "shown" or has the grab
  rows,           \* its rows: kind, query and the state of mail they count
  cursor,         \* the row of the cursor, 0 for none
  show_all_history, needs_refresh,
  asked,          \* the row the question is about, or NoRow
  mail,           \* state of the mail, as announced by the action manager
  searches,       \* number of searches made and saved so far
  reloads         \* emissions of m_reload that the main loop has yet to dispatch
searchVars == <<file, history, running, page, rows, cursor, show_all_history,
                needs_refresh, asked, mail, searches, reloads>>

Row(kind, q) == [kind |-> kind, query |-> q, at |-> 0]
Header == [kind |-> "header", at |-> 0]
NoRow == [kind |-> "none"]
ClearHistory == [kind |-> "clear"]
IsHeader(i) == rows[i].kind = "header"
RowsOf(kind, s) == [i \in DOMAIN s |-> Row(kind, s[i])]
Current == page \in {"shown", "grab"}

SearchesInit ==
  /\ file = [saved |-> <<>>, history |-> <<>>] /\ history = <<>> /\ running = FALSE
  /\ page = "closed" /\ rows = <<>> /\ cursor = 0 /\ show_all_history = FALSE
  /\ needs_refresh = FALSE /\ asked = NoRow /\ mail = 1 /\ searches = 0
  /\ reloads = 0

-----------------------------------------------------------------------------
\* load_startup_queries and load_saved_searches, the newest search first.
Listed(saved, hist, all) ==
  LET newest == Reverse(hist)
      n == IF all \/ Len(hist) < history_lines_to_show THEN Len(hist)
           ELSE history_lines_to_show
  IN  <<Header>> \o RowsOf("startup", StartupQueries)
      \o <<Header>> \o RowsOf("saved", saved)
      \o IF ~all /\ history_lines_to_show = 0 THEN <<>>
         ELSE <<Header>> \o RowsOf("history", SubSeq(newest, 1, n))

\* refresh_stats_db.
Counted(rs, m) ==
  [i \in DOMAIN rs |-> IF rs[i].kind = "header" THEN rs[i] ELSE [rs[i] EXCEPT !.at = m]]

\* Bug variant: the page is not told of a refresh to come.
RefreshStatsForgets(rs, m) ==
  /\ rows' = (IF Current THEN Counted(rs, m) ELSE rs)
  /\ needs_refresh' = (needs_refresh /\ ~Current)

RefreshStats(rs, m) ==
  /\ rows' = (IF Current THEN Counted(rs, m) ELSE rs)
  /\ needs_refresh' = ~Current

\* reload: the rows of what is in the file and in the history now; the cursor
\* goes to the row of before, if there is one with that number.
Reload(all, m) ==
  LET rs == Listed(file.saved, history, all)
  IN  RefreshStats(rs, m) /\ cursor' = IF cursor \in DOMAIN rs THEN cursor ELSE 0

\* The file and the history change and m_reload is emitted: the page stays as
\* it is for now.
Write(f, hist) ==
  /\ file' = f /\ history' = hist
  /\ reloads < MaxEmitted /\ reloads' = reloads + 1

-----------------------------------------------------------------------------
(* The program starts and ends.                                            *)

\* SavedSearches::init.
Start ==
  /\ ~running /\ running' = TRUE /\ history' = file.history
  /\ UNCHANGED <<file, page, rows, cursor, show_all_history, needs_refresh, asked, mail,
                 searches, reloads>>

\* With more than history_lines the last history_lines of them are dropped.
Stored(h) == IF Len(h) > history_lines THEN SubSeq(h, 1, Len(h) - history_lines) ELSE h

\* SavedSearches::destruct.
Destruct ==
  /\ running /\ running' = FALSE
  /\ file' = [file EXCEPT !.history = Stored(history)] /\ history' = <<>>
  /\ page' = "closed" /\ rows' = <<>> /\ cursor' = 0 /\ asked' = NoRow
  /\ needs_refresh' = FALSE /\ show_all_history' = FALSE /\ reloads' = 0
  /\ UNCHANGED <<mail, searches>>

\* The database cannot be opened: the program quits with the same function,
\* before it has read the history.
StartFails ==
  /\ ~running /\ file' = [file EXCEPT !.history = <<>>]
  /\ UNCHANGED <<history, running, page, rows, cursor, show_all_history, needs_refresh,
                 asked, mail, searches, reloads>>

-----------------------------------------------------------------------------
(* The page.                                                               *)

OpenPage ==
  /\ running /\ page = "closed" /\ page' = "hidden"
  /\ rows' = Listed(file.saved, history, FALSE) /\ needs_refresh' = TRUE /\ cursor' = 2
  /\ UNCHANGED <<file, history, running, show_all_history, asked, mail, searches, reloads>>

\* The page becomes the current one, with the grab (grab_modal) if the window
\* has the focus; if not, the grab comes with the focus.
ShowPage ==
  /\ page \in {"hidden", "shown"}
  /\ \/ /\ page' = "grab"
        /\ rows' = (IF needs_refresh THEN Counted(rows, mail) ELSE rows) /\ needs_refresh' = FALSE
     \/ page = "hidden" /\ page' = "shown" /\ UNCHANGED <<rows, needs_refresh>>
  /\ UNCHANGED <<file, history, running, cursor, show_all_history, asked, mail, searches,
                 reloads>>
LeavePage ==
  /\ Current /\ page' = "hidden"
  /\ UNCHANGED <<file, history, running, rows, cursor, show_all_history, needs_refresh, asked,
                 mail, searches, reloads>>

CloseSearches ==
  /\ page = "grab" /\ asked = NoRow /\ page' = "closed"
  /\ rows' = <<>> /\ cursor' = 0 /\ needs_refresh' = FALSE /\ show_all_history' = FALSE
  /\ UNCHANGED <<file, history, running, asked, mail, searches, reloads>>

\* The action manager has changed mail: the page counts again.
MailChanged ==
  /\ running /\ mail < MaxMail /\ mail' = mail + 1
  /\ IF page = "closed" THEN UNCHANGED <<rows, needs_refresh>> ELSE RefreshStats(rows, mail')
  /\ UNCHANGED <<file, history, running, page, cursor, show_all_history, asked, searches,
                 reloads>>

\* signal_refreshed of the action manager, after a poll: an open page reloads
\* at once.
MailRefreshed ==
  /\ page # "closed" /\ mail < MaxMail /\ mail' = mail + 1
  /\ Reload(show_all_history, mail')
  /\ UNCHANGED <<file, history, running, page, show_all_history, asked, searches, reloads>>

\* The main loop dispatches m_reload: to the page, if one is open.
DispatchReload ==
  /\ reloads > 0 /\ reloads' = reloads - 1
  /\ IF page = "closed" THEN UNCHANGED <<rows, needs_refresh, cursor>>
     ELSE Reload(show_all_history, mail)
  /\ UNCHANGED <<file, history, running, page, show_all_history, asked, mail, searches>>

\* Keys, while no question waits in the window.
ListKey == page = "grab" /\ asked = NoRow
Move(to) ==
  /\ ListKey /\ cursor' = to
  /\ UNCHANGED <<file, history, running, page, rows, show_all_history, needs_refresh, asked,
                 mail, searches, reloads>>

\* The first row from i on that is no header, or Len(rows) + 1; and the last
\* one up to i, or 0.
From(i) == LET S == {k \in i .. Len(rows) : ~IsHeader(k)}
           IN  IF S = {} THEN Len(rows) + 1 ELSE Min(S)
UpTo(i) == LET S == {k \in 1 .. i : ~IsHeader(k)} IN IF S = {} THEN 0 ELSE Max(S)
Down == cursor > 0 /\ Move(IF From(cursor + 1) \in DOMAIN rows THEN From(cursor + 1) ELSE cursor)
Up == cursor > 0 /\ Move(IF UpTo(cursor - 1) > 0 THEN UpTo(cursor - 1) ELSE cursor)
PageDown ==
  cursor > 0 /\ LET to == From(cursor + page_jump_rows)
                IN  Move(IF to \in DOMAIN rows THEN to ELSE Len(rows))
\* prev stops at the first row.
PageUp ==
  cursor > 0 /\ LET i == IF cursor > page_jump_rows THEN cursor - page_jump_rows ELSE 1
                IN  Move(IF UpTo(i) > 0 THEN UpTo(i) ELSE 2)
HomeOrEnd == \E to \in {1, Len(rows)} : Move(to)
\* To a row with unread messages, in either direction, wrapping around.
JumpUnread == \E to \in {i \in DOMAIN rows : ~IsHeader(i)} : Move(to)

\* A search from the command bar or a refined query, in any window.
AddQueryToHistory ==
  /\ running /\ searches < MaxSearches /\ searches' = searches + 1
  /\ \E q \in Query : Write(file, Append(history, q))
  /\ UNCHANGED <<running, page, rows, cursor, show_all_history, needs_refresh, asked, mail>>

\* save_query, of a thread index or of the row of the cursor.
SaveQuery ==
  /\ running /\ searches < MaxSearches /\ searches' = searches + 1
  /\ \E q \in Query : Write([file EXCEPT !.saved = Append(@, q)], history)
  /\ UNCHANGED <<running, page, rows, cursor, show_all_history, needs_refresh, asked, mail>>

\* This key reloads without the dispatcher.
ShowAllHistory ==
  /\ ListKey /\ show_all_history' = TRUE /\ Reload(TRUE, mail)
  /\ UNCHANGED <<file, history, running, page, asked, mail, searches, reloads>>

AskDelete ==
  /\ ListKey /\ asked' \in {ClearHistory} \cup {rows[i] : i \in {cursor} \cap DOMAIN rows}
  /\ UNCHANGED <<file, history, running, page, rows, cursor, show_all_history, needs_refresh,
                 mail, searches, reloads>>

\* The index of the first and of the last occurrence of q in s.
FirstOf(s, q) == Min({i \in DOMAIN s : s[i] = q})
LastOf(s, q) == Max({i \in DOMAIN s : s[i] = q})

\* The answer, about a row that may be gone by now: the first occurrence of a
\* saved query goes, or the last one of a line of history.  The closure then
\* moves the cursor, among the rows of before, by a path of the function that
\* asked, which is gone: it may end up anywhere.
Delete ==
  LET q == asked.query
  IN  \/ /\ asked = ClearHistory /\ Write(file, <<>>) /\ UNCHANGED cursor
      \/ /\ asked.kind = "saved" /\ q \in ToSet(file.saved)
         /\ Write([file EXCEPT !.saved = RemoveAt(@, FirstOf(@, q))], history)
         /\ cursor' \in {0} \cup DOMAIN rows
      \/ /\ asked.kind = "history" /\ q \in ToSet(history)
         /\ Write(file, RemoveAt(history, LastOf(history, q))) /\ UNCHANGED cursor
AnswerDelete ==
  /\ asked # NoRow /\ asked' = NoRow
  /\ Delete \/ UNCHANGED <<file, history, cursor, reloads>>
  /\ UNCHANGED <<running, page, rows, show_all_history, needs_refresh, mail, searches>>

SearchesNext ==
  \/ Start \/ Destruct \/ StartFails \/ OpenPage \/ ShowPage \/ LeavePage \/ CloseSearches
  \/ MailChanged \/ MailRefreshed \/ DispatchReload
  \/ Down \/ Up \/ PageDown \/ PageUp \/ HomeOrEnd \/ JumpUnread
  \/ AddQueryToHistory \/ SaveQuery \/ ShowAllHistory \/ AskDelete \/ AnswerDelete
SearchesSpec == SearchesInit /\ [][SearchesNext]_searchVars

-----------------------------------------------------------------------------
\* Type invariant.
SearchesTypeOK ==
  /\ page \in {"closed", "hidden", "shown", "grab"} /\ cursor \in 0 .. Len(rows)
  /\ ToSet(history) \cup ToSet(file.saved) \cup ToSet(file.history) \subseteq Query
  /\ \A i \in DOMAIN rows : rows[i].at \in 0 .. mail

\* However searching, saving and deleting in any window, the reloads they
\* emit, changes of mail, and the coming and going of the page interleave: the
\* rows of an open page are those of the file and of the history as they are
\* now, or a reload is on its way that will make them so; and their counts are
\* those of the mail as last announced, or a page without the grab has noted
\* that it must count before it gets it (reload, refresh_stats, grab_modal).
StatsFresh ==
  page # "closed" =>
    /\ \/ reloads > 0
       \/ Counted(rows, 0) = Counted(Listed(file.saved, history, show_all_history), 0)
    /\ \/ needs_refresh /\ page # "grab"
       \/ \A i \in DOMAIN rows : IsHeader(i) \/ rows[i].at = mail

=============================================================================
