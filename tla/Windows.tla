------------------------------- MODULE Windows -------------------------------
(***************************************************************************)
(* A main window: the notebook and its pages, some with two panes, the     *)
(* command bar, the terminal and the question bar (main_window.cc,         *)
(* paned_mode.cc, mode.cc, command_bar.cc).                                *)
(*                                                                         *)
(* Keys go to the widget that took the last grab.  The window hands the    *)
(* grab from page to page by an index of its own, current, that is meant   *)
(* to follow the notebook's.  Questions and commands keep a closure of the *)
(* page that asked.                                                        *)
(***************************************************************************)
EXTENDS Naturals, Sequences, SequencesExt, FiniteSets

CONSTANTS Page,    \* all pages that may be opened, numbered in this order
          List,    \* those that are thread indices, which have two panes
          Nobody   \* no page: the closure of the window itself

ASSUME WindowsAssumption ==
  /\ IsFiniteSet(Page) /\ Page = 1 .. Cardinality(Page) /\ {1, 2} \subseteq Page
  /\ List \subseteq Page /\ Nobody = 0

VARIABLES
  win,          \* notebook and grabs, see WindowsInit
  in_quit,      \* the window quits
  active_mode,  \* "Window", "Command" or "Terminal"
  question,     \* what the question bar waits for and the page that asked
  callback,     \* the page of the command bar's callback, Nobody if NULL
  opened,       \* the pages opened so far
  intruded,     \* a page was added from outside while a command was open
  dangling      \* the kinds of closures called after their page was closed
winVars == <<win, in_quit, active_mode, question, callback, opened, intruded, dangling>>

NoQuestion == [kind |-> "none", of |-> Nobody]
Open == ToSet(win.pages)
Dead(p) == p # Nobody /\ p \notin Open
ShownPage(w) == w.pages[w.shown]
IndexOf(s, x) == CHOOSE i \in DOMAIN s : s[i] = x

-----------------------------------------------------------------------------
(* Grabs, as GTK keeps them: a widget that holds one does not get a second *)
(* and stays where it is in the stack; destroyed widgets lose theirs.      *)

Grab(w, x) == IF x \in ToSet(w.grabs) THEN w ELSE [w EXCEPT !.grabs = Append(@, x)]
Ungrab(w, x) ==
  IF x \in ToSet(w.grabs) THEN [w EXCEPT !.grabs = RemoveAt(@, IndexOf(@, x))] ELSE w
Bar == <<Nobody, 0>>
Vte == <<Nobody, 1>>

\* PanedMode::grab_modal and release_modal; a page without panes has pane 0.
GrabModal(w, p) == [Grab(w, <<p, w.pane[p]>>) EXCEPT !.modal = @ \cup {p}]
ReleaseModal(w, p) == [Ungrab(w, <<p, w.pane[p]>>) EXCEPT !.modal = @ \ {p}]

UngrabActive(w) ==
  IF w.current \in DOMAIN w.pages
  THEN [ReleaseModal(w, w.pages[w.current]) EXCEPT !.active = FALSE] ELSE w

GrabActive(w, n) ==
  LET u == UngrabActive(w)
      g == IF u.has_focus THEN GrabModal(u, u.pages[n]) ELSE u
  IN  [g EXCEPT !.current = n, !.active = TRUE]

\* The notebook calls on_my_switch_page when it shows another page.
SetActive(w, n) ==
  IF n \notin DOMAIN w.pages THEN w
  ELSE GrabActive(IF w.shown = n THEN w ELSE GrabActive([w EXCEPT !.shown = n], n), n)

\* insert_page appends if the position is past the end.
AddMode(w, p) ==
  LET i == IF w.current < Len(w.pages) THEN w.current + 1 ELSE Len(w.pages) + 1
  IN  SetActive([w EXCEPT !.pages = InsertAt(@, i, p)], i)

\* PanedMode::del_pane of the thread view.
DelPane(w, p) ==
  LET focused == w.pane[p] = 1 /\ p \in w.modal
      r == IF focused THEN [ReleaseModal(w, p) EXCEPT !.modal = @ \cup {p}] ELSE w
      d == [Ungrab(r, <<p, 1>>) EXCEPT !.split = @ \ {p}, !.pane[p] = 0]
  IN  IF p \in d.modal THEN GrabModal(d, p) ELSE d

RemovePage(w, c) ==
  LET p == w.pages[c]
  IN  [Ungrab(Ungrab(w, <<p, 0>>), <<p, 1>>) EXCEPT
         !.pages = RemoveAt(@, c),
         !.shown = IF @ > c THEN @ - 1 ELSE @,
         !.stray = IF c = 1 THEN @ \cup {w.pages[2]} ELSE @]

\* Bug variant: the page after the one closed is not shown first.
DelModeAtOnce(w, c) ==
  IF Len(w.pages) = 1 THEN w
  ELSE LET r == RemovePage(UngrabActive(w), c)
       IN  [r EXCEPT !.shown = IF @ > Len(r.pages) THEN Len(r.pages) ELSE @]

\* The last page stays unless there are other windows (QuitWindow then).
DelMode(w, c) ==
  IF Len(w.pages) = 1 THEN w
  ELSE LET s == SetActive(w, IF c = 1 THEN 2 ELSE c - 1)
           p == w.pages[c]
       IN  RemovePage(IF p \in s.split THEN DelPane(s, p) ELSE s, c)

\* From the last page to the first.
QuitPages(w) ==
  LET n == Len(w.pages)
      left[i \in 0 .. n] ==
        IF i = 0 THEN UngrabActive(w) ELSE DelMode(left[i - 1], n + 1 - i)
  IN  left[n]

-----------------------------------------------------------------------------
(* The pages that the window is opened with, then the focus.               *)

WindowsInit ==
  /\ win = [pages |-> <<1, 2>>, shown |-> 1, current |-> 1, active |-> TRUE,
            has_focus |-> FALSE, grabs |-> <<>>, split |-> {},
            pane |-> [p \in Page |-> 0], modal |-> {}, stray |-> {}]
  /\ in_quit = FALSE /\ active_mode = "Window" /\ question = NoQuestion
  /\ callback = Nobody
  /\ opened = {1, 2} /\ intruded = FALSE /\ dangling = {}

FocusIn ==
  /\ ~win.has_focus /\ ~in_quit
  /\ LET w == [win EXCEPT !.has_focus = TRUE]
     IN  win' = IF w.active THEN SetActive(w, w.current) ELSE w
  /\ UNCHANGED <<in_quit, active_mode, question, callback, opened, intruded, dangling>>

FocusOut ==
  /\ win.has_focus /\ ~in_quit
  /\ LET w == [win EXCEPT !.has_focus = FALSE]
     IN  win' = IF w.current \in DOMAIN w.pages THEN ReleaseModal(w, w.pages[w.current]) ELSE w
  /\ UNCHANGED <<in_quit, active_mode, question, callback, opened, intruded, dangling>>

\* Bug variant: only the terminal swallows keys.
ModeKeyHandlerAsks == active_mode = "Terminal"

\* A question swallows all keys but its answers, the terminal all.
ModeKeyHandler == question.kind # "none" \/ active_mode = "Terminal"

\* A key arrives at the widget with the last grab and then, if that does not
\* take it, at the page on display, which has the focus, and at the window.
Receives(x) ==
  /\ win.has_focus /\ ~in_quit /\ win.grabs # <<>> /\ Last(win.grabs) \notin {Bar, Vte}
  /\ x \in {Last(win.grabs), <<ShownPage(win), win.pane[ShownPage(win)]>>}
WinKey(x) == Receives(x) /\ ~ModeKeyHandler
AnyKey == \E p \in Page, i \in {0, 1} : WinKey(<<p, i>>)
BarKey ==
  /\ active_mode = "Command" /\ win.has_focus /\ ~in_quit
  /\ (win.grabs # <<>> /\ Last(win.grabs) = Bar) \/ AnyKey

\* Next, previous and jump.
JumpToPage ==
  /\ AnyKey /\ \E n \in DOMAIN win.pages : win' = SetActive(win, n)
  /\ UNCHANGED <<in_quit, active_mode, question, callback, opened, intruded, dangling>>

\* A page added by a key, or from the command line (Astroid::send_mailto).
NewPage(w) ==
  LET p == Cardinality(opened) + 1
  IN  p \in Page /\ win' = AddMode(w, p) /\ opened' = opened \cup {p}
AddPage ==
  /\ AnyKey /\ NewPage(win)
  /\ UNCHANGED <<in_quit, active_mode, question, callback, intruded, dangling>>
SendMailto ==
  /\ ~in_quit /\ NewPage(win) /\ intruded' = (intruded \/ active_mode # "Window")
  /\ UNCHANGED <<in_quit, active_mode, question, callback, dangling>>

\* Mode::close without a question.
ClosePage ==
  /\ AnyKey /\ win' = DelMode(win, win.shown)
  /\ UNCHANGED <<in_quit, active_mode, question, callback, opened, intruded, dangling>>

\* MainWindow::quit, by its key, its question or the window manager.
QuitWindow ==
  /\ ~in_quit /\ win' = QuitPages(win) /\ in_quit' = TRUE
  /\ UNCHANGED <<active_mode, question, callback, opened, intruded, dangling>>

\* ThreadIndex::open_thread without a tab of its own: stray the list.
OpenThread ==
  \E p \in List :
    /\ WinKey(<<p, 0>>)
    /\ win' = GrabModal([win EXCEPT !.split = @ \cup {p}, !.pane[p] = 1,
                                !.stray = @ \cup {p}], p)
    /\ UNCHANGED <<in_quit, active_mode, question, callback, opened, intruded, dangling>>
ClosePane ==
  \E p \in win.split, i \in {0, 1} :
    /\ WinKey(<<p, i>>) /\ win' = DelPane(win, p)
    /\ UNCHANGED <<in_quit, active_mode, question, callback, opened, intruded, dangling>>
SwapFocus ==
  \E p \in win.split, i \in {0, 1} :
    /\ WinKey(<<p, i>>)
    /\ win' = GrabModal([ReleaseModal(win, p) EXCEPT !.pane[p] = 1 - @], p)
    /\ UNCHANGED <<in_quit, active_mode, question, callback, opened, intruded, dangling>>

-----------------------------------------------------------------------------
(* Questions and multi keys (ask_yes_no, multi_key, mode_key_handler).  A  *)
(* second one is refused.                                                  *)

Ask ==
  \E p \in Page \cup {Nobody}, kind \in {"yes_no", "multi"} :
    /\ \/ \E i \in {0, 1} : WinKey(<<p, i>>)
       \/ p = Nobody /\ AnyKey
    /\ question' = IF question.kind = "none" THEN [kind |-> kind, of |-> p] ELSE question
    /\ UNCHANGED <<in_quit, win, active_mode, callback, opened, intruded, dangling>>

Called(kind, p) == dangling' = IF Dead(p) THEN dangling \cup {kind} ELSE dangling
Answerable(kind) == question.kind = kind /\ \E p \in Page, i \in {0, 1} : Receives(<<p, i>>)

\* The closure closes its page if it is told so, or something that leaves
\* the window alone; that of the window quits (QuitWindow).
AnswerYesNo ==
  /\ Answerable("yes_no") /\ question' = NoQuestion /\ Called("question", question.of)
  /\ \/ UNCHANGED win
     \/ question.of \in Open /\ win' = DelMode(win, IndexOf(win.pages, question.of))
  /\ UNCHANGED <<in_quit, active_mode, callback, opened, intruded>>

\* CommandBar::enable_command.  The entry is filled while the callback of the
\* command before is still there: with a text to filter by it is called.
EnableCommand(f) ==
  /\ win' = Grab(UngrabActive(win), Bar)
  /\ active_mode' = "Command" /\ callback' = f
RunCommand ==
  \E p \in Page, i \in {0, 1} :
    /\ WinKey(<<p, i>>) /\ \E f \in {p, Nobody} : EnableCommand(f)
    /\ dangling' = dangling
    /\ UNCHANGED <<in_quit, question, opened, intruded>>
Filter ==
  \E p \in List :
    /\ WinKey(<<p, 0>>) /\ EnableCommand(p) /\ Called("filter", callback)
    /\ UNCHANGED <<in_quit, question, opened, intruded>>

\* The key of a multi key does something, possibly with a command; any other
\* key but Escape leaves it waiting.
MultiKey ==
  /\ Answerable("multi") /\ question' = NoQuestion /\ Called("question", question.of)
  /\ \/ UNCHANGED <<win, active_mode, callback>>
     \/ question.of \in Open /\ EnableCommand(question.of)
  /\ UNCHANGED <<in_quit, opened, intruded>>

\* disable_command, when the search mode of the bar ends.
DisableCommand(w) == win' = SetActive(Ungrab(w, Bar), w.current) /\ active_mode' = "Window"
Escape ==
  /\ BarKey /\ DisableCommand(win)
  /\ UNCHANGED <<in_quit, question, callback, opened, intruded, dangling>>

\* on_entry_activated: a search without callback opens a page.
Activate ==
  /\ BarKey /\ Called("bar", callback) /\ callback' = Nobody
  /\ \/ DisableCommand(win) /\ UNCHANGED opened
     \/ LET p == Cardinality(opened) + 1
        IN  /\ callback = Nobody /\ p \in Page
            /\ DisableCommand(AddMode(win, p)) /\ opened' = opened \cup {p}
  /\ UNCHANGED <<in_quit, question, intruded>>

EnableTerminal ==
  /\ AnyKey /\ win' = Grab(UngrabActive(win), Vte) /\ active_mode' = "Terminal"
  /\ UNCHANGED <<in_quit, question, callback, opened, intruded, dangling>>
\* The shell ends or could not be started.
DisableTerminal ==
  /\ active_mode = "Terminal" /\ ~in_quit
  /\ win' = Ungrab(SetActive(win, win.current), Vte) /\ active_mode' = "Window"
  /\ UNCHANGED <<in_quit, question, callback, opened, intruded, dangling>>

WindowsNext ==
  \/ FocusIn \/ FocusOut \/ JumpToPage \/ AddPage \/ SendMailto \/ ClosePage \/ QuitWindow
  \/ OpenThread \/ ClosePane \/ SwapFocus \/ Ask \/ AnswerYesNo \/ MultiKey
  \/ RunCommand \/ Filter \/ Escape \/ Activate \/ EnableTerminal \/ DisableTerminal
WindowsSpec == WindowsInit /\ [][WindowsNext]_winVars

-----------------------------------------------------------------------------
(* Properties.                                                             *)

\* Type invariant; a page is open once.
WindowsTypeOK ==
  /\ win.shown \in DOMAIN win.pages /\ win.split \subseteq List
  /\ active_mode \in {"Window", "Command", "Terminal"}
  /\ question.of \in Page \cup {Nobody} /\ callback \in Page \cup {Nobody}
  /\ \A i, j \in DOMAIN win.pages : win.pages[i] = win.pages[j] => i = j

\* current follows the notebook, but for being one too high after the first
\* page was closed; and keys go to a widget of the page on display.  Two
\* things leave grabs behind that later go before others: a thread opened
\* beside a list, and closing the first page.  Once both or one of them
\* twice has happened, or a mailto has come in the middle of a command, keys
\* may go to a page that is not on display (grab_active, open_thread).
KeysReachPage ==
  /\ win.current = win.shown \/ (win.shown = 1 /\ win.current = 2)
  /\ win.has_focus /\ ~in_quit /\ active_mode = "Window" /\ ~intruded
     /\ Cardinality(win.stray) < 2 =>
       win.grabs # <<>> /\ Last(win.grabs)[1] = ShownPage(win)

\* The closure of a question or of a multi key is called while its page is
\* open, and that of a command too if no mailto came in between.  Only the
\* callback that an escaped command leaves behind, which filling in a filter
\* calls, may be one of a page that is gone (answer_yes_no, entry_changed).
AskerAlive == dangling \subseteq {"filter"} \cup (IF intruded THEN {"bar"} ELSE {})

=============================================================================
