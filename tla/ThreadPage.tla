----------------------------- MODULE ThreadPage -----------------------------
(***************************************************************************)
(* The page of a thread: ThreadView and PageClient in the program's        *)
(* process, and the web extension (tvextension.cc) in the web process that *)
(* draws the messages.                                                     *)
(*                                                                         *)
(* The program decides which messages are expanded and marked and which    *)
(* parts can get the focus; the extension keeps the focus.  Each call of   *)
(* PageClient writes one request to a socket and waits for one             *)
(* acknowledgement, which carries the focus back.  A handler of the        *)
(* program is a list of such calls: todo holds what is left of the one     *)
(* that runs, and all events wait until it is empty.                       *)
(*                                                                         *)
(* The elements of a message are numbered as in MessageState: 0 is the     *)
(* message itself, the others are its parts and attachments.               *)
(***************************************************************************)
EXTENDS Naturals, Integers, SequencesExt, FiniteSetsExt

CONSTANTS
  Mail,           \* messages, numbered in the order of the thread
  NoMail,         \* no message
  Age,            \* their order in time
  Elements,       \* the type of each element of each message, from element 0
  Alternatives,   \* the parts of each message that are siblings
  Flagged, Draft, \* messages expand_flagged expands, and drafts
  Lost,           \* messages that may be deleted by another program
  MaxEvents       \* bound on loads, keys and changes of tags

ASSUME PageAssumption ==
  /\ Mail \subseteq Nat /\ Mail # {} /\ IsFiniteSet(Mail) /\ NoMail \notin Mail
  /\ Age \in [Mail -> Nat]
  /\ Elements \in [Mail -> Seq({"Empty", "Part", "Attachment", "MimeMessage"})]
  /\ \A m \in Mail : Elements[m] # <<>>
  /\ Alternatives \in [Mail -> SUBSET Nat]
  /\ \A m \in Mail : /\ Alternatives[m] \subseteq 1 .. Len(Elements[m]) - 1
                     /\ \A e \in Alternatives[m] : Elements[m][e + 1] = "Part"
  /\ Flagged \subseteq Mail /\ Draft \subseteq Mail /\ Lost \subseteq Mail
  /\ MaxEvents \in Nat

VARIABLES
  \* the program: ThreadView and PageClient
  edit_mode, wk_loaded, connected, idle_render, ready,
  unread, missing, gone,     \* messages of mthread: without file, not in notmuch
  expanded, marked, unread_checked, scroll_expanded, focusable,
  focused_message, current_element,
  timer,                     \* unread_check is called now and then
  marking,                   \* messages with an action that marks them read
  todo, waiting,
  \* the socket
  requests, acks,
  \* the extension
  page_ready, ext_state, ext_focus, drawn, hidden, shown_marks,
  shown_tags, shown_parts,
  \* for the bounds and the properties
  events, surplus, redrawn

loading == <<edit_mode, wk_loaded, connected, idle_render>>
mthread == <<unread, missing, gone>>
state == <<expanded, marked, scroll_expanded, focusable>>
reading == <<unread_checked, marking, timer>>
focus == <<focused_message, current_element>>
display == <<shown_tags, shown_parts>>
extension == <<page_ready, ext_state, ext_focus, drawn, hidden, shown_marks, display>>
pageVars == <<loading, ready, mthread, state, reading, focus, todo, waiting,
              requests, acks, extension, events, surplus, redrawn>>

\* The calls of PageClient.  Some stand for a call and what the program does
\* to its own state with it: Shown for expand, Hidden for collapse, with
\* "Focused" or "Scrolled" where the message also becomes the one in focus or
\* is expanded by C-n; Last and Ready end render_messages.
Showing == {"Shown", "ShownFocused", "ShownScrolled"}
Hiding == {"Hidden", "HiddenScrolled"}
Navigation == {"Focus", "Ready", "NextElement", "NextVisible", "PreviousElement",
               "PreviousVisible", "NextMessage", "PreviousMessage", "PreviousTop",
               "Scroll", "Home", "End"}
Request == Showing \cup Hiding \cup Navigation \cup
           {"Page", "ClearMessages", "AddMessage", "UpdateTags", "UpdateParts", "State",
            "Last", "Mark", "Warning", "Images"}
Call(c, m) == [call |-> c, mid |-> m]
ByThread ==
  [i \in 1 .. Cardinality(Mail) |->
     CHOOSE m \in Mail : Cardinality({n \in Mail : n <= m}) = i]

\* make_message: the elements that can have the focus when m is drawn first.
\* The part that is shown is no stop for the focus, those it replaces are.
Highest(m) == IF m \in missing THEN 0 ELSE Len(Elements[m]) - 1
Type(m, e) == Elements[m][e + 1]
Shown(m, e) == \/ e \in Alternatives[m] /\ \A a \in Alternatives[m] : e <= a
               \/ e \notin Alternatives[m] /\ Type(m, e) = "Part"
Siblings(m, e) == IF e \in Alternatives[m] THEN Alternatives[m] ELSE {}
Focusable(m) == {e \in 0 .. Highest(m) : ~Shown(m, e)}

PageInit ==
  /\ edit_mode \in BOOLEAN
  /\ wk_loaded = FALSE /\ connected = FALSE /\ idle_render = FALSE /\ ready = FALSE
  /\ unread \in SUBSET Mail /\ missing = {} /\ gone = {}
  /\ expanded = Mail /\ marked = {} /\ unread_checked = {} /\ scroll_expanded = {}
  /\ focusable = [m \in Mail |-> {}]
  /\ focused_message = NoMail /\ current_element = [m \in Mail |-> 0]
  /\ timer = FALSE /\ marking = {}
  /\ todo = <<>> /\ waiting = FALSE /\ requests = <<>> /\ acks = <<>>
  /\ page_ready = FALSE /\ ext_state = <<>> /\ ext_focus = <<NoMail, -1>>
  /\ drawn = {} /\ hidden = {} /\ shown_marks = {}
  /\ shown_tags = {} /\ shown_parts = [m \in Mail |-> {}]
  /\ events = 0 /\ surplus = 0 /\ redrawn = {}

-----------------------------------------------------------------------------
(* Handlers of the program, each the calls it makes.                       *)

Idle == todo = <<>> /\ ~waiting

\* add_message: expand what is unread or flagged, collapse the rest.
AddOne(m) ==
  <<Call("AddMessage", m)>>
  \o (IF edit_mode THEN <<>>
      ELSE IF m \in unread' \cup Flagged THEN <<Call("ShownFocused", m)>>
      ELSE <<Call("Hidden", m)>>)
  \o (IF m \in Draft /\ ~edit_mode THEN <<Call("Warning", m)>> ELSE <<>>)

\* The oldest unread message, or else the one the loop has focused last, or
\* the newest.
FirstFocus(f) ==
  LET Newest(S) == CHOOSE m \in S : \A n \in S : Age[n] <= Age[m]
      Oldest(S) == CHOOSE m \in S : \A n \in S : Age[m] <= Age[n]
  IN  IF ~edit_mode /\ unread # {} THEN Oldest(unread)
      ELSE IF f # NoMail THEN f
      ELSE Newest(Mail)

RenderCalls ==
  <<Call("ClearMessages", NoMail)>>
  \o FlattenSeq([i \in DOMAIN ByThread |-> AddOne(ByThread[i])])
  \o <<Call("State", NoMail), Call("Last", NoMail)>>

\* Bug variant: the thread is rendered as soon as the page is loaded.
LoadThreadEarly ==
  /\ Idle /\ events < MaxEvents /\ events' = events + 1
  /\ unread' \in SUBSET Mail /\ missing' \in SUBSET Lost /\ gone' = {}
  /\ ready' = FALSE
  /\ todo' = IF wk_loaded THEN RenderCalls ELSE <<>>
  /\ UNCHANGED <<loading, state, reading, focus, waiting, requests, acks,
                 extension, surplus, redrawn>>

\* load_message_thread, called by load_thread, by refresh and by the page of
\* a message being written: the messages are read anew.
LoadThread ==
  /\ Idle /\ events < MaxEvents /\ events' = events + 1
  /\ unread' \in SUBSET Mail /\ missing' \in SUBSET Lost /\ gone' = {}
  /\ ready' = FALSE
  /\ todo' = IF wk_loaded /\ connected THEN RenderCalls ELSE <<>>
  /\ UNCHANGED <<loading, state, reading, focus, waiting, requests, acks,
                 extension, surplus, redrawn>>

RenderFirst ==
  todo' = <<Call("Page", NoMail)>> \o RenderCalls

\* WebKit has loaded the page; on_ready_to_render is called at once if the
\* extension is there already.
LoadChanged ==
  /\ Idle /\ ~wk_loaded /\ wk_loaded' = TRUE
  /\ UNCHANGED mthread
  /\ IF connected THEN RenderFirst ELSE UNCHANGED todo
  /\ UNCHANGED <<edit_mode, connected, idle_render, ready, state, reading, focus,
                 waiting, requests, acks, extension, events, surplus, redrawn>>

\* Bug variant: the extension takes it for granted that it is first.
ExtensionConnectFirst ==
  /\ Idle /\ ~connected /\ connected' = TRUE
  /\ UNCHANGED <<edit_mode, wk_loaded, idle_render, ready, mthread, state, reading,
                 focus, todo, waiting, requests, acks, extension, events, surplus,
                 redrawn>>

\* The extension has connected; on_ready_to_render is left to an idle
\* callback if the page is loaded already.
ExtensionConnect ==
  /\ Idle /\ ~connected /\ connected' = TRUE
  /\ idle_render' = wk_loaded
  /\ UNCHANGED <<edit_mode, wk_loaded, ready, mthread, state, reading, focus, todo,
                 waiting, requests, acks, extension, events, surplus, redrawn>>

IdleRender ==
  /\ Idle /\ idle_render /\ idle_render' = FALSE
  /\ UNCHANGED mthread
  /\ RenderFirst
  /\ UNCHANGED <<edit_mode, wk_loaded, connected, ready, state, reading, focus,
                 waiting, requests, acks, extension, events, surplus, redrawn>>

\* on_key_press_event: keys are ignored until the messages are rendered.
Key(calls) ==
  /\ Idle /\ ready /\ events < MaxEvents /\ events' = events + 1
  /\ todo' = calls
  /\ UNCHANGED <<loading, ready, mthread, expanded, scroll_expanded, reading, focus,
                 waiting, requests, acks, extension, surplus>>

Toggle(m) == <<Call(IF m \in expanded THEN "Hidden" ELSE "Shown", m)>>
KeepMarks == UNCHANGED <<marked, focusable, redrawn>>

\* j, k, C-j, C-k, J, K, C-d, C-u, 0, 1, n and p.
Navigate ==
  /\ \E c \in {"NextElement", "NextVisible", "PreviousElement", "PreviousVisible",
               "NextMessage", "PreviousTop", "Scroll", "Home", "End"} :
       Key(<<Call(c, NoMail)>>)
  /\ KeepMarks

\* C-n and C-p: what the last of them has expanded is collapsed again.
NavigateExpand ==
  /\ \E c \in {"NextMessage", "PreviousMessage"} :
       Key((IF focused_message \in scroll_expanded
            THEN <<Call("HiddenScrolled", focused_message)>> ELSE <<>>)
           \o <<Call(c, NoMail), Call("ShownScrolled", NoMail)>>)
  /\ KeepMarks

\* Tab and its reverse: to the next unread message after or before the focus.
NextUnread ==
  LET next == {m \in unread : m > focused_message}
      previous == {m \in unread : m < focused_message}
  IN  /\ \/ next # {} /\ Key(<<Call("Focus", Min(next))>>)
         \/ previous # {} /\ Key(<<Call("Focus", Max(previous))>>)
      /\ KeepMarks

\* C-i: the bodies are loaded anew, with what they refer to elsewhere.
RemoteImages == Key(<<Call("Images", NoMail)>>) /\ KeepMarks

\* e, and C-e: collapse all, or expand all if none is expanded.
ToggleExpand == ~edit_mode /\ Key(Toggle(focused_message)) /\ KeepMarks
ToggleAll ==
  /\ ~edit_mode
  /\ Key([i \in DOMAIN ByThread |->
            Call(IF expanded = {} THEN "Shown" ELSE "Hidden", ByThread[i])])
  /\ KeepMarks

\* t, and T: mark all if only some are marked, otherwise turn each mark.
ToggleMark ==
  LET m == focused_message
  IN  /\ ~edit_mode
      /\ marked' = SymDiff(marked, {m})
      /\ Key(<<Call("Mark", m)>>)
      /\ redrawn' = redrawn \ {m} /\ UNCHANGED focusable
ToggleMarkAll ==
  /\ ~edit_mode
  /\ marked' = IF marked = Mail THEN {} ELSE Mail
  /\ Key([i \in DOMAIN ByThread |-> Call("Mark", ByThread[i])])
  /\ redrawn' = {} /\ UNCHANGED focusable

\* Return: open or close the message, or show the part in focus instead of
\* the sibling that is shown.
ElementAction ==
  LET m == focused_message
      e == current_element[m]
  IN  /\ m # NoMail
      /\ IF ~edit_mode /\ (m \notin expanded \/ e = 0)
         THEN Key(Toggle(m)) /\ KeepMarks
         ELSE /\ e > 0 /\ Type(m, e) = "Part"
              /\ focusable' = [focusable EXCEPT ![m] = (@ \cup Siblings(m, e)) \ {e}]
              /\ redrawn' = redrawn \cup {m}
              /\ Key(<<Call("State", NoMail), Call("UpdateParts", m)>>)
              /\ UNCHANGED marked

\* The action manager tells of new tags, from an action that marks a message
\* read or from elsewhere, and the message is refreshed: on_message_changed.
NewTags(m) ==
  /\ m \notin gone
  /\ \/ m \in marking /\ marking' = marking \ {m} /\ unread' = unread \ {m}
        /\ UNCHANGED events
     \/ events < MaxEvents /\ events' = events + 1
        /\ unread' = SymDiff(unread, {m}) /\ UNCHANGED marking
  /\ UNCHANGED <<missing, gone>>

\* Bug variant: the state is sent, the tags are not.
TagsChangedState ==
  /\ Idle
  /\ \E m \in Mail :
       /\ NewTags(m)
       /\ todo' = IF ready THEN <<Call("State", NoMail)>> ELSE <<>>
  /\ UNCHANGED <<loading, ready, state, unread_checked, timer, focus, waiting,
                 requests, acks, extension, surplus, redrawn>>

TagsChanged ==
  /\ Idle
  /\ \E m \in Mail :
       /\ NewTags(m)
       /\ todo' = IF ready THEN <<Call("UpdateTags", m), Call("State", NoMail)>> ELSE <<>>
  /\ UNCHANGED <<loading, ready, state, unread_checked, timer, focus, waiting,
                 requests, acks, extension, surplus, redrawn>>

\* Message::refresh does not find the message any more; its page is told
\* nothing, and no event of it is handled afterwards.
MessageGone ==
  /\ Idle /\ events < MaxEvents /\ events' = events + 1
  /\ \E m \in Lost \ gone : gone' = gone \cup {m} /\ missing' = missing \cup {m}
  /\ UNCHANGED <<unread, loading, ready, state, reading, focus, todo, waiting,
                 requests, acks, extension, surplus, redrawn>>

\* Bug variant: every unread message that is open is taken for read.
UnreadCheckAll(f, open) ==
  LET reads == IF ready /\ ~edit_mode THEN (unread \cap open) \ (unread_checked \cup gone)
           ELSE {}
  IN  /\ marking' = marking \cup reads
      /\ unread_checked' = unread_checked \cup reads

\* unread_check with the focus on message f, the messages in open
\* expanded.  The time of the focus is not looked at: focus_time is
\* never set, so that mark_unread_delay is always over.
UnreadCheck(f, open) ==
  LET reads == IF ready /\ ~edit_mode /\ f \in (unread \cap open) \ (unread_checked \cup gone)
               THEN {f} ELSE {}
  IN  /\ marking' = marking \cup reads
      /\ unread_checked' = unread_checked \cup reads

TimerFires ==
  /\ Idle /\ timer /\ timer' = ready
  /\ UnreadCheck(focused_message, expanded)
  /\ UNCHANGED <<loading, ready, mthread, state, focus, todo, waiting, requests, acks,
                 extension, events, surplus, redrawn>>

-----------------------------------------------------------------------------
(* One call: send_message_sync writes the request and takes the first       *)
(* acknowledgement that comes.                                              *)

\* make_message: what is drawn of a message.  A part that cannot have the
\* focus is shown, the others are offered instead of it.
Draw(m, can) ==
  [gone   |-> m \in missing,
   parts  |-> {e \in 1 .. Highest(m) : Type(m, e) = "Part" /\ e \notin can},
   unread |-> m \in unread]

\* What a request carries beside the name of its message.
Payload(c, m) ==
  CASE c = "State" -> focusable
    [] c = "Mark" -> m \in marked
    [] c = "AddMessage" -> Draw(m, Focusable(m))
    [] c \in {"UpdateParts", "UpdateTags"} -> Draw(m, focusable[m])
    [] OTHER -> FALSE

\* make_message lists the elements of a new message, expand notes that the
\* message is expanded before it is sent.
Send ==
  LET c == Head(todo).call
      m == IF c = "ShownScrolled" THEN focused_message ELSE Head(todo).mid
  IN  /\ ~waiting /\ todo # <<>> /\ waiting' = TRUE
      /\ requests' = Append(requests, [call |-> c, mid |-> m, data |-> Payload(c, m)])
      /\ focusable' = IF c = "AddMessage" THEN [focusable EXCEPT ![m] = Focusable(m)]
                      ELSE focusable
      /\ expanded' = IF c \in Showing THEN expanded \cup {m} ELSE expanded
      /\ scroll_expanded' = IF c # "ShownScrolled" THEN scroll_expanded
                            ELSE IF m \in expanded THEN scroll_expanded \ {m}
                            ELSE scroll_expanded \cup {m}
      /\ UNCHANGED <<loading, ready, mthread, marked, reading, focus, todo, acks,
                     extension, events, surplus, redrawn>>

\* render_messages forgets the state of the messages when they are cleared.
Forget ==
  /\ expanded' = Mail /\ marked' = {} /\ scroll_expanded' = {} /\ unread_checked' = {}
  /\ focusable' = [m \in Mail |-> {}] /\ redrawn' = {}
  /\ focused_message' = NoMail /\ current_element' = [m \in Mail |-> 0]
  /\ UNCHANGED marking

\* What the program does when a call of kind c on message m returns.
Return(c, m) ==
  /\ expanded' = IF c \in Hiding THEN expanded \ {m} ELSE expanded
  /\ scroll_expanded' = IF c = "HiddenScrolled" THEN scroll_expanded \ {m}
                        ELSE scroll_expanded
  /\ UNCHANGED <<marked, focusable, redrawn>>

\* handle_ack takes the focus over, but not for Page and ClearMessages.
HandleAck ==
  LET c == Head(todo).call
      on == Head(todo).mid
      m == Head(acks)[1]
      taken == c # "Page" /\ m # NoMail
      now == IF taken THEN m ELSE focused_message
  IN  IF c = "ClearMessages" THEN Forget
      ELSE /\ Return(c, on)
           /\ current_element' = IF taken THEN [current_element EXCEPT ![m] = Head(acks)[2]]
                                 ELSE current_element
           /\ IF taken THEN UnreadCheck(m, expanded) ELSE UNCHANGED <<unread_checked, marking>>
           /\ focused_message' =
                IF c = "ShownFocused" \/ (c = "AddMessage" /\ edit_mode) THEN on
                ELSE IF c = "Last" THEN FirstFocus(now) ELSE now

Acked ==
  LET c == Head(todo).call
  IN  /\ waiting /\ acks # <<>> /\ waiting' = FALSE /\ acks' = Tail(acks)
      /\ HandleAck
      /\ todo' = IF c # "Last" THEN Tail(todo)
                 ELSE <<Call("Shown", focused_message'), Call("Ready", focused_message')>>
      /\ ready' = (ready \/ c = "Ready")
      /\ timer' = (timer \/ (c = "Ready" /\ ~edit_mode))
      /\ UNCHANGED <<loading, mthread, requests, extension, events, surplus>>

-----------------------------------------------------------------------------
(* The extension.  Each request is handled in the order it was sent; each   *)
(* handler ends with ack.                                                   *)

AckOnce == acks' = Append(acks, ext_focus') /\ UNCHANGED surplus
\* set_message_html sets the warning of a message without content with
\* set_warning, which acknowledges the request a first time.
AckDrawn(twice) ==
  IF twice THEN acks' = acks \o <<ext_focus', ext_focus'>> /\ surplus' = surplus + 1
  ELSE AckOnce

Handling(c) == Head(requests).call \in c
sent == Head(requests).data
msg == Head(requests).mid

\* set_message_html and message_render_tags.
ShowTags(m) == shown_tags' = IF sent.unread THEN shown_tags \cup {m} ELSE shown_tags \ {m}
ShowParts(m) == shown_parts' = [shown_parts EXCEPT ![m] = sent.parts]

\* Bug variant: the page is set up without an answer.
HandlePageSilently ==
  /\ Handling({"Page"}) /\ page_ready' = TRUE
  /\ drawn' = {} /\ hidden' = {} /\ shown_marks' = {} /\ UNCHANGED display
  /\ UNCHANGED <<ext_state, ext_focus, acks, surplus>>

HandlePage ==
  /\ Handling({"Page"}) /\ page_ready' = TRUE
  /\ drawn' = {} /\ hidden' = {} /\ shown_marks' = {} /\ UNCHANGED display
  /\ UNCHANGED <<ext_state, ext_focus>> /\ AckOnce

ExtClear ==
  /\ Handling({"ClearMessages"})
  /\ ext_focus' = <<NoMail, -1>> /\ ext_state' = <<>>
  /\ drawn' = {} /\ hidden' = {} /\ shown_marks' = {}
  /\ UNCHANGED <<page_ready, display>> /\ AckOnce

HandleState ==
  /\ Handling({"State"}) /\ ext_state' = sent
  /\ UNCHANGED <<page_ready, ext_focus, drawn, hidden, shown_marks, display>> /\ AckOnce

ExtAdd ==
  /\ Handling({"AddMessage"}) /\ drawn' = drawn \cup {msg}
  /\ ShowTags(msg) /\ ShowParts(msg)
  /\ UNCHANGED <<page_ready, ext_state, ext_focus, hidden, shown_marks>>
  /\ AckDrawn(sent.gone)

\* The highest or lowest of the elements in S, or the message itself.
HighestOf(S) == IF S = {} THEN 0 ELSE Max(S)
Later(S, e) == {x \in S : x > e}
Earlier(S, e) == {x \in S : x < e}

\* A new element replaces that of the message.  It is hidden like the old
\* one; marks and warnings are those of a new one.  The focus moves off an
\* element that cannot have it any more.
ExtUpdateParts ==
  LET f == ext_focus[1]
      e == ext_focus[2]
      can == ext_state[f]
      new == IF e \in can THEN e
             ELSE IF Later(can, e) # {} THEN Min(Later(can, e)) ELSE HighestOf(Earlier(can, e))
  IN  /\ Handling({"UpdateParts"})
      /\ shown_marks' = shown_marks \ {msg}
      /\ ShowTags(msg) /\ ShowParts(msg)
      /\ ext_focus' = <<f, new>>
      /\ UNCHANGED <<page_ready, ext_state, drawn, hidden>>
      /\ AckDrawn(sent.gone)

ExtUpdateTags ==
  /\ Handling({"UpdateTags"}) /\ ShowTags(msg)
  /\ UNCHANGED <<page_ready, ext_state, ext_focus, drawn, hidden, shown_marks, shown_parts>>
  /\ AckOnce

\* set_warning, set_indent and reload_images: bars, margins and the content
\* of the bodies.
ExtWarning == Handling({"Warning"}) /\ UNCHANGED extension /\ AckOnce
ExtIndent == Handling({"Last"}) /\ UNCHANGED extension /\ AckOnce
ExtImages == Handling({"Images"}) /\ UNCHANGED extension /\ AckOnce

SetHidden ==
  /\ Handling(Showing \cup Hiding)
  /\ hidden' = IF Head(requests).call \in Hiding THEN hidden \cup {msg} ELSE hidden \ {msg}
  /\ UNCHANGED <<page_ready, ext_state, ext_focus, drawn, shown_marks, display>> /\ AckOnce

HandleMark ==
  /\ Handling({"Mark"})
  /\ shown_marks' = IF sent THEN shown_marks \cup {msg}
                    ELSE shown_marks \ {msg}
  /\ UNCHANGED <<page_ready, ext_state, ext_focus, drawn, hidden, display>> /\ AckOnce

\* update_focus_to_view: the page shows the messages in view.  The focus
\* goes to the last of them before the one that had it, or else the first.
IntoView(view) ==
  LET f == ext_focus[1]
      to == IF Earlier(view, f) # {} THEN Max(Earlier(view, f)) ELSE Min(view)
  IN  IF f \in view \/ view = {} THEN ext_focus ELSE <<to, 0>>

LastElement(m) == IF m \in hidden THEN 0 ELSE HighestOf(ext_state[m])

\* focus_next_message and focus_previous_message.
NextMessage ==
  LET after == Later(Mail, ext_focus[1])
  IN  IF edit_mode \/ after = {} THEN ext_focus ELSE <<Min(after), 0>>
PreviousMessage(top) ==
  LET before == Earlier(Mail, ext_focus[1])
  IN  IF edit_mode \/ before = {} THEN ext_focus
      ELSE <<Max(before), IF top THEN 0 ELSE LastElement(Max(before))>>

\* focus_next_element and focus_previous_element.  Without force the focus
\* moves only to what is in view; otherwise the page scrolls, and the focus
\* follows the view.
NextElement(force) ==
  LET f == ext_focus[1]
      more == IF f \in hidden THEN {} ELSE Later(ext_state[f], ext_focus[2])
      there == IF more # {} THEN <<f, Min(more)>> ELSE NextMessage
  IN  \/ ext_focus' = there
      \/ ~force /\ \E view \in SUBSET Mail : ext_focus' = IntoView(view)

PreviousElement(force) ==
  LET f == ext_focus[1]
      more == IF f \in hidden THEN {} ELSE Earlier(ext_state[f], ext_focus[2])
      there == IF more # {} THEN <<f, Max(more)>> ELSE PreviousMessage(FALSE)
  IN  \/ ext_focus' = there
      \/ ~force /\ \E view \in SUBSET Mail : ext_focus' = IntoView(view)

HandleNavigate ==
  LET Is(c) == Handling({c})
  IN  /\ \/ Handling({"Focus", "Ready"}) /\ ext_focus' = <<msg, 0>>
         \/ Is("NextElement") /\ NextElement(TRUE)
         \/ Is("NextVisible") /\ NextElement(FALSE)
         \/ Is("PreviousElement") /\ PreviousElement(TRUE)
         \/ Is("PreviousVisible") /\ PreviousElement(FALSE)
         \/ Is("NextMessage") /\ ext_focus' = NextMessage
         \/ Is("PreviousMessage") /\ ext_focus' = PreviousMessage(FALSE)
         \/ Is("PreviousTop") /\ ext_focus' = PreviousMessage(TRUE)
         \/ Is("Scroll") /\ \E view \in SUBSET Mail : ext_focus' = IntoView(view)
         \/ Is("Home") /\ ext_focus' = <<Min(Mail), 0>>
         \/ Is("End") /\ ext_focus' = <<Max(Mail), LastElement(Max(Mail))>>
      /\ UNCHANGED <<page_ready, ext_state, drawn, hidden, shown_marks, display>> /\ AckOnce

ExtHandle ==
  /\ requests # <<>> /\ requests' = Tail(requests)
  /\ \/ HandlePage \/ ExtClear \/ HandleState \/ ExtAdd \/ ExtUpdateParts
     \/ ExtUpdateTags \/ ExtWarning \/ ExtIndent \/ ExtImages
     \/ SetHidden \/ HandleMark \/ HandleNavigate
  /\ UNCHANGED <<loading, ready, mthread, state, reading, focus, todo, waiting, events,
                 redrawn>>

-----------------------------------------------------------------------------
PageEvent ==
  \/ LoadThread \/ LoadChanged \/ ExtensionConnect \/ IdleRender
  \/ Navigate \/ NavigateExpand \/ NextUnread \/ RemoteImages
  \/ ToggleExpand \/ ToggleAll \/ ToggleMark \/ ToggleMarkAll \/ ElementAction
  \/ TagsChanged \/ MessageGone \/ TimerFires
PageNext == PageEvent \/ Send \/ Acked \/ ExtHandle

PageFairness ==
  /\ WF_pageVars(LoadChanged) /\ WF_pageVars(ExtensionConnect) /\ WF_pageVars(IdleRender)
  /\ WF_pageVars(Send) /\ WF_pageVars(Acked) /\ WF_pageVars(ExtHandle)
PageSpec == PageInit /\ [][PageNext]_pageVars /\ PageFairness

-----------------------------------------------------------------------------
(* Properties.                                                             *)

\* Type invariant; an element that has the focus is one of its message.
PageTypeOK ==
  /\ {edit_mode, wk_loaded, connected, idle_render, ready, timer, waiting, page_ready}
       \subseteq BOOLEAN
  /\ {unread, missing, expanded, marked, unread_checked, scroll_expanded, marking,
       drawn, hidden, shown_marks, shown_tags, redrawn, gone} \subseteq SUBSET Mail
  /\ focused_message \in Mail \cup {NoMail}
  /\ \A m \in Mail : /\ focusable[m] \subseteq DOMAIN Elements[m] \cup {0}
                     /\ current_element[m] \in 0 .. Len(Elements[m]) - 1
  /\ \A i \in DOMAIN todo : todo[i].call \in Request
  /\ \A i \in DOMAIN requests : requests[i].call \in Request

\* Every request is acknowledged, and the program waits for one reply at a
\* time: it is behind by one acknowledgement for each message drawn without
\* content, and by no other (send_message_sync, AstroidExtension::ack).
AckAccounting ==
  Len(requests) + Len(acks) = (IF waiting THEN 1 ELSE 0) + surplus

Settled == ready /\ Idle /\ surplus = 0

\* The focus the program acts on is the one the page shows (handle_ack).
FocusAgrees ==
  Settled => ext_focus = <<focused_message, current_element[focused_message]>>

\* The focus is on the message itself or on an element that can have it,
\* also after the parts on display have been exchanged (toggle_part).
FocusCanBe ==
  Settled => current_element[focused_message] \in
               {0} \cup focusable[focused_message]

\* A message is open in the page if it is open in the state that keys go by.
HiddenAgrees ==
  ready /\ Idle /\ requests = <<>> => drawn = Mail /\ hidden = Mail \ expanded

\* The page shows the tags a message has now, also when they have changed
\* while the thread was being rendered (on_message_changed ignores it then).
TagsAgree ==
  ready /\ Idle /\ requests = <<>> => shown_tags = unread

\* Of the alternative parts of a message exactly one is on display, and it is
\* the one that cannot have the focus (toggle_part, create_message_part_html).
OneAlternative ==
  ready /\ Idle /\ requests = <<>> =>
    \A m \in Mail \ missing :
      /\ Alternatives[m] # {} => Cardinality(Alternatives[m] \cap shown_parts[m]) = 1
      /\ shown_parts[m] \cap focusable[m] = {}

\* The marks on display are those the commands on marked messages go by,
\* except that a message whose parts were exchanged is drawn without its mark.
MarksAgree ==
  ready /\ Idle /\ requests = <<>> =>
    shown_marks \subseteq marked /\ marked \ shown_marks \subseteq redrawn

\* No message is in the page before the extension knows which requests to
\* allow, unless a thread is loaded while the first rendering waits to be
\* dispatched (send_request, on_ready_to_render).
PageBeforeContent ==
  drawn # {} /\ ~page_ready =>
    \/ idle_render \/ (todo # <<>> /\ Head(todo).call = "Page")
    \/ \E i \in DOMAIN requests : requests[i].call = "Page"

\* A message is marked as read only while the page has the focus on it.
ReadHasFocus ==
  [][surplus = 0 => marking' \ marking \subseteq drawn \cap {ext_focus[1]}]_pageVars

\* The page and the program agree on all that the next key depends on.
PageShowsState ==
  FocusAgrees /\ FocusCanBe /\ HiddenAgrees /\ MarksAgree /\ TagsAgree /\ OneAlternative

\* In whichever order the page is loaded and the extension connects, and
\* whatever thread is loaded meanwhile, the messages are rendered and keys
\* are handled again.
RenderedAtLast == (wk_loaded \/ connected) /\ ~ready ~> ready

=============================================================================
