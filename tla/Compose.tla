------------------------------- MODULE Compose -------------------------------
(***************************************************************************)
(* The page that composes a message, a reply or a forwarded message with   *)
(* an external editor (edit_message.cc, external.cc, reply_message.cc,     *)
(* forward_message.cc).                                                    *)
(*                                                                         *)
(* The message is in three places: the file that the editor works on, the  *)
(* fields of the page, and what the page shows.  prepare_message writes    *)
(* the file from the fields, read_edited_message does the reverse and      *)
(* shows the message.  The editor is another process: it saves at any      *)
(* time, a monitor of the file reports that later, and later still its     *)
(* end.  The thread that sends is in SendMessage; here it takes a message  *)
(* and reports some time.                                                  *)
(***************************************************************************)
EXTENDS Naturals, FiniteSets

CONSTANTS
  Account, DefaultAccount,    \* accounts
  HasSignature, SignatureOn,  \* the accounts with one, and with it on at first
  AttachedSignature,          \* those that attach it to the message
  HasGpg, AlwaysSign,         \* those with a key, and that sign at first
  Receivers,                  \* choices of receivers
  MarkdownOn,                 \* {"markdown"} if it is on at first
  MaxTexts, MaxEdits          \* bounds on saves and on changes in the page

ASSUME ComposeAssumption ==
  /\ DefaultAccount \in Account /\ Account \subseteq Nat \ {0}
  /\ Receivers \subseteq Nat \ {0} /\ MaxTexts \in Nat /\ MaxEdits \in Nat

\* Texts are numbered as they are written, 1 is the one the page begins with.
\* A file that the editor has not written to its end holds text 0.  Account 0
\* is an address that belongs to none, receivers 0 are none.
VARIABLES
  kind,           \* what the page is for
  compose_page, forced,  \* "open" or "gone", and if by force or with the window
  tmpfile,        \* the file: text, receivers and sender
  fields,         \* text and receivers in memory
  sender,         \* account of the From selector
  switches,       \* the switches that are on
  attachments,    \* their number
  shown,          \* the message in the thread view
  draft, draft_msg, draft_saved,  \* file of the draft; is it one of the page
  sending, outgoing, message_sent, passed,  \* passed: the original is tagged
  asks,           \* the question, command or dialog that waits for the user
  editor,         \* "none", "runs", "writes" or "ended" and not yet known to be
  file_changed,   \* the monitor has an event to tell
  editor_active,
  written, overtaken,  \* the last text saved, and was it overwritten unread
  faults, edits
pageContent == <<tmpfile, fields, sender, switches, attachments, shown, draft_saved, overtaken>>
delivery == <<sending, outgoing, message_sent, passed>>
editorState == <<editor, file_changed, editor_active, written>>
closing == <<compose_page, forced, faults>>
composeVars == <<kind, closing, pageContent, draft, draft_msg, delivery, asks, editorState, edits>>

Crypt == {"encrypt", "sign"}
Switches == {"signature", "markdown"} \cup Crypt
NoDraft == [text |-> 0, complete |-> FALSE]

\* finalize_message: what the switches do for account a.
Effective(a, on) ==
  {s \in on : /\ s = "signature" => a \in HasSignature
              /\ s \in Crypt => a \in HasGpg}

\* The switches once account a has been chosen.
ResetSignature(a, on) ==
  (on \cap {"markdown"})
    \cup (IF a \in HasSignature \cap SignatureOn THEN {"signature"} ELSE {})
    \cup (IF a \in HasGpg \cap AlwaysSign THEN {"sign"} ELSE {})

\* load_message: an address that is of no account is taken for the default.
AccountOf(from) == IF from \in Account THEN from ELSE DefaultAccount

\* setup_message and finalize_message.
Made(file, on, n) ==
  LET a == AccountOf(file.from)
      options == Effective(a, on)
  IN  [text |-> file.text, to |-> file.to, from |-> a, options |-> options,
       attached |-> n + (IF "signature" \in options /\ a \in AttachedSignature THEN 1 ELSE 0)]

\* The account of the file is selected, which resets the switches if it is
\* another one.
SwitchesFor(file, was, on) ==
  IF AccountOf(file.from) = was THEN on ELSE ResetSignature(AccountOf(file.from), on)

\* read_edited_message, of file, with n attachments.
Read(file, was, on, n) ==
  LET now == SwitchesFor(file, was, on)
  IN  /\ tmpfile' = file /\ fields' = [text |-> file.text, to |-> file.to]
      /\ sender' = AccountOf(file.from) /\ switches' = now /\ attachments' = n
      /\ shown' = Made(file, now, n) /\ draft_saved' = FALSE

\* prepare_message and read_edited_message.
File(f, from) == [text |-> f.text, to |-> f.to, from |-> from]
PrepareAndRead(f, from, on, n) ==
  /\ Read(File(f, from), from, on, n)
  /\ overtaken' = (overtaken \/ (editor # "none" /\ tmpfile.text # f.text))

\* What the constructors add to a page: a reply is signed and encrypted as
\* the original was, a forwarded message or a draft may have attachments, and
\* a message that is not yet a draft can be loaded as one.
Begins(n, on, is_draft) ==
  attachments = n /\ draft_msg = is_draft /\ switches = ResetSignature(sender, MarkdownOn) \cup on
NewMessage == kind = "new" /\ Begins(0, {}, FALSE)
ReplyMessage ==
  kind = "reply" /\ \E on \in IF sender \in HasGpg THEN {{}, {"sign"}, Crypt} ELSE {{}} :
                      Begins(0, on, FALSE)
ForwardMessage == kind = "forward" /\ \E n \in {0, 1} : Begins(n, {}, FALSE)
LoadDraft == kind = "draft" /\ \E n \in {0, 1}, d \in BOOLEAN : Begins(n, {}, d)

\* Then the editor is started, or cannot be.
ComposeInit ==
  /\ kind \in {"new", "reply", "forward", "draft"}
  /\ compose_page = "open" /\ forced = FALSE /\ faults = {} /\ edits = 0
  /\ \E to \in Receivers : fields = [text |-> 1, to |-> to]
  /\ sender \in Account /\ tmpfile = File(fields, sender)
  /\ attachments \in {0, 1} /\ draft_msg \in BOOLEAN /\ switches \in SUBSET Switches
  /\ NewMessage \/ ReplyMessage \/ ForwardMessage \/ LoadDraft
  /\ shown = Made(tmpfile, switches, attachments) /\ draft_saved = FALSE /\ overtaken = FALSE
  /\ draft = IF draft_msg THEN [text |-> 1, complete |-> TRUE] ELSE NoDraft
  /\ sending = FALSE /\ outgoing = NoDraft /\ message_sent = FALSE /\ passed = FALSE
  /\ asks = "none" /\ written = 1 /\ file_changed = FALSE
  /\ editor \in {"runs", "none"} /\ editor_active = (editor = "runs")

-----------------------------------------------------------------------------
(* The editor.                                                             *)

Sane == "erase" \notin faults
ComposeKeys == compose_page = "open" /\ asks = "none" /\ Sane
Mouse == compose_page = "open" /\ asks # "file" /\ Sane

\* External::start.  An editor that cannot be started is stopped at once.
ExternalStart ==
  /\ file_changed' = FALSE
  /\ \/ editor' = "runs" /\ editor_active' = TRUE
     \/ UNCHANGED <<editor, editor_active>>

\* Return: editor_toggle (true).
EditorStart ==
  /\ ComposeKeys /\ ~editor_active /\ ~message_sent /\ ~sending
  /\ edits < MaxEdits /\ edits' = edits + 1
  /\ PrepareAndRead(fields, sender, switches, attachments)
  /\ ExternalStart
  /\ UNCHANGED <<kind, closing, draft, draft_msg, delivery, asks, written>>

\* The editor empties or replaces the file, and ends writing it later.
EditorBegins ==
  /\ editor = "runs" /\ compose_page = "open" /\ Sane /\ written < MaxTexts + 1
  /\ editor' = "writes" /\ file_changed' = TRUE
  /\ \E from \in {0, tmpfile.from} : tmpfile' = [text |-> 0, to |-> 0, from |-> from]
  /\ UNCHANGED <<kind, closing, fields, sender, switches, attachments, shown, draft_saved,
                 overtaken, draft, draft_msg, delivery, asks, editor_active, written, edits>>
EditorSaves ==
  /\ editor = "writes" /\ compose_page = "open" /\ Sane
  /\ editor' = "runs" /\ file_changed' = TRUE /\ written' = written + 1 /\ overtaken' = FALSE
  /\ \E to \in Receivers, from \in {0} \cup Account :
       tmpfile' = [text |-> written', to |-> to, from |-> from]
  /\ UNCHANGED <<kind, closing, fields, sender, switches, attachments, shown, draft_saved,
                 draft, draft_msg, delivery, asks, editor_active, edits>>
EditorExits ==
  /\ editor = "runs" /\ Sane /\ editor' = "ended"
  /\ UNCHANGED <<kind, closing, pageContent, draft, draft_msg, delivery, asks, file_changed,
                 editor_active, written, edits>>

\* Callbacks of the editor's object, which outlives the page.
IntoFreedPage ==
  /\ faults' = faults \cup {"freed"}
  /\ UNCHANGED <<pageContent, editor_active>>

\* on_draft_changed
DraftChanged ==
  /\ file_changed /\ editor # "none" /\ Sane /\ file_changed' = FALSE
  /\ IF compose_page = "gone" THEN IntoFreedPage
     ELSE /\ Read(tmpfile, sender, switches, attachments)
          /\ UNCHANGED <<faults, editor_active, overtaken>>
  /\ UNCHANGED <<kind, compose_page, forced, draft, draft_msg, delivery, asks, editor, written,
                 edits>>

\* Bug variant: the page goes back to reading before it has read the file.
EditorToggleUnread ==
  editor_active' = FALSE /\ UNCHANGED pageContent

\* editor_toggle (false)
EditorToggle ==
  /\ editor_active' = FALSE
  /\ IF editor_active THEN Read(tmpfile, sender, switches, attachments) /\ UNCHANGED overtaken
     ELSE UNCHANGED pageContent

\* child_watch: the monitor is cancelled, on_stop.
ChildWatch ==
  /\ editor = "ended" /\ Sane /\ editor' = "none" /\ file_changed' = FALSE
  /\ IF compose_page = "gone" THEN IntoFreedPage ELSE EditorToggle /\ UNCHANGED faults
  /\ UNCHANGED <<kind, compose_page, forced, draft, draft_msg, delivery, asks, written, edits>>

-----------------------------------------------------------------------------
(* The page; nothing of it but what says so asks if the editor runs.       *)

Edit(f, from, on, n) ==
  /\ edits < MaxEdits /\ edits' = edits + 1 /\ PrepareAndRead(f, from, on, n)
  /\ UNCHANGED <<kind, closing, draft, draft_msg, delivery, editorState>>

\* S, M and E, and the switches with the mouse.
Toggled(s) == IF s \in switches THEN switches \ {s} ELSE switches \cup {s}
NextCrypt ==
  LET on == switches \cap Crypt
  IN  (switches \ Crypt) \cup (CASE on = {} -> {"sign"}
                                 [] on = {"sign"} -> Crypt
                                 [] on = Crypt -> {"encrypt"}
                                 [] OTHER -> {})
SwitchSet(on) == Edit(fields, sender, on, attachments) /\ UNCHANGED asks
ToggleSignature == ComposeKeys /\ sender \in HasSignature /\ SwitchSet(Toggled("signature"))
ToggleMarkdown == ComposeKeys /\ SwitchSet(Toggled("markdown"))
ToggleEncrypt == ComposeKeys /\ sender \in HasGpg /\ SwitchSet(NextCrypt)
ToggleByMouse ==
  /\ Mouse
  /\ \E s \in {"markdown"} \cup (IF sender \in HasSignature THEN {"signature"} ELSE {})
              \cup (IF sender \in HasGpg THEN Crypt ELSE {}) : SwitchSet(Toggled(s))

\* f resets the switches, choosing with the mouse does not.
CycleFrom ==
  /\ ComposeKeys /\ ~editor_active /\ ~message_sent /\ ~sending
  /\ \E a \in Account \ {sender} : Edit(fields, a, ResetSignature(a, switches), attachments)
  /\ UNCHANGED asks
OnFromComboChanged ==
  /\ Mouse
  /\ \E a \in Account \ {sender} : Edit(fields, a, switches, attachments)
  /\ UNCHANGED asks

\* The receivers of a reply, with r or with the mouse; Custom leaves them.
LoadReceivers == {[fields EXCEPT !.to = to] : to \in Receivers \cup {fields.to}}
OnReceiverComboChanged ==
  /\ kind = "reply"
  /\ \/ ComposeKeys /\ editor = "none" /\ ~message_sent /\ ~sending
     \/ Mouse
  /\ \E f \in LoadReceivers : Edit(f, sender, switches, attachments)
  /\ UNCHANGED asks

\* A file, after a dialog with a main loop of its own; or messages, after a
\* command.
AskAttachment ==
  /\ ComposeKeys
  /\ \/ ~message_sent /\ asks' = "file"
     \/ asks' = "mids"
  /\ UNCHANGED <<kind, closing, pageContent, draft, draft_msg, delivery, editorState, edits>>
AttachFile ==
  /\ asks \in {"file", "mids"} /\ Sane /\ asks' = "none"
  /\ \/ compose_page = "open" /\ Edit(fields, sender, switches, attachments + 1)
     \/ /\ IF compose_page = "gone" THEN IntoFreedPage
           ELSE UNCHANGED <<faults, pageContent, editor_active>>
        /\ UNCHANGED <<kind, compose_page, forced, draft, draft_msg, delivery, editor,
                       file_changed, written, edits>>

\* on_element_action: an attached signature is shown as an attachment, but
\* attachments has none at its place.
DeleteAttachment ==
  /\ ComposeKeys /\ ~sending
  /\ \E i \in 1 .. shown.attached :
       IF i <= attachments THEN Edit(fields, sender, switches, attachments - 1) /\ UNCHANGED asks
       ELSE /\ faults' = faults \cup {"erase"}
            /\ UNCHANGED <<kind, compose_page, forced, pageContent, draft, draft_msg, delivery,
                           asks, editorState, edits>>

-----------------------------------------------------------------------------
(* Sending, drafts and closing.                                            *)

AskFirst(q) ==
  /\ ComposeKeys /\ asks' = q
  /\ UNCHANGED <<kind, closing, pageContent, draft, draft_msg, delivery, editorState, edits>>
AskSending ==
  ~message_sent /\ ~sending /\ ~editor_active /\ fields.to # 0 /\ AskFirst("send")
AskClosing ==
  ~message_sent /\ ~sending /\ ~draft_saved /\ editor = "none" /\ AskFirst("close")
AskDeleting == draft_msg /\ ~message_sent /\ ~sending /\ AskFirst("delete")
AnswersNo ==
  /\ Mouse /\ asks \in {"send", "close", "delete"} /\ asks' = "none"
  /\ UNCHANGED <<kind, closing, pageContent, draft, draft_msg, delivery, editorState, edits>>

\* The processor for markdown may fail, and so may gpg.
MarkdownFails(m) == IF "markdown" \in m.options THEN BOOLEAN ELSE {FALSE}
CryptFails(m) == IF m.options \cap Crypt # {} THEN BOOLEAN ELSE {FALSE}

\* send_message
SendComposed ==
  /\ Mouse /\ asks = "send" /\ asks' = "none" /\ EditorToggle
  /\ LET c == Made(tmpfile, switches, attachments)
     IN  \E failed \in MarkdownFails(c) \cup CryptFails(c) :
           IF failed THEN UNCHANGED delivery
           ELSE sending' = TRUE /\ outgoing' = c /\ UNCHANGED <<message_sent, passed>>
  /\ UNCHANGED <<kind, closing, draft, draft_msg, editor, file_changed, written, edits>>

\* A reply or a forwarded message that was sent gives the original a tag.
Passed(ok) == passed \/ (ok /\ kind \in {"reply", "forward"})

\* send_message_finished
SendFinished ==
  /\ sending /\ sending' = FALSE /\ compose_page = "open" /\ Sane
  /\ \E ok \in BOOLEAN, close_on_success \in BOOLEAN :
       /\ message_sent' = (message_sent \/ ok) /\ draft_msg' = (draft_msg /\ ~ok)
       /\ draft' = IF ok /\ draft_msg THEN NoDraft ELSE draft
       /\ passed' = Passed(ok)
       /\ compose_page' = IF ok /\ close_on_success THEN "gone" ELSE compose_page
       /\ draft_saved' = (draft_saved \/ (ok /\ draft_msg))
  /\ UNCHANGED <<kind, forced, faults, tmpfile, fields, sender, switches, attachments, shown,
                 overtaken, outgoing, asks, editorState, edits>>

\* save_draft: what the file has, without a signature; that the message could
\* not be encrypted or signed, and has no text, is not looked at.
DraftOf(m) == {[text |-> m.text, complete |-> ~failed] : failed \in CryptFails(m)}
GoneWith(d) ==
  /\ compose_page' = "gone" /\ draft' = d /\ asks' = "none"
  /\ UNCHANGED <<kind, faults, tmpfile, fields, sender, switches, attachments, shown, overtaken,
                 delivery, editorState, edits>>
SaveDraftAndClose ==
  /\ ComposeKeys /\ ~editor_active /\ ~sending
  /\ \E d \in DraftOf(Made(tmpfile, switches, attachments)) : GoneWith(d)
  /\ draft_saved' = TRUE /\ UNCHANGED <<forced, draft_msg>>

\* The account has no directory for drafts.
SaveDraftFails ==
  /\ ComposeKeys /\ ~editor_active /\ ~sending /\ ~draft_msg /\ draft_saved' = FALSE
  /\ UNCHANGED <<kind, closing, tmpfile, fields, sender, switches, attachments, shown, overtaken,
                 draft, draft_msg, delivery, asks, editorState, edits>>

\* close (true), which saves a draft if it is so configured and can be.
ForceClosed ==
  /\ ComposeKeys /\ ~sending /\ forced' = TRUE /\ UNCHANGED draft_msg
  /\ \/ /\ ~message_sent /\ ~draft_saved /\ draft_saved' = TRUE
        /\ \E d \in DraftOf(Made(tmpfile, switches, attachments)) : GoneWith(d)
     \/ GoneWith(draft) /\ UNCHANGED draft_saved

\* close of a message that was sent, and a yes to the questions.
CloseSent ==
  /\ ComposeKeys /\ message_sent /\ ~sending /\ GoneWith(draft)
  /\ UNCHANGED <<forced, draft_msg, draft_saved>>
AnswersClose ==
  /\ Mouse
  /\ \/ /\ asks = "close" /\ GoneWith(draft) /\ UNCHANGED <<forced, draft_msg, draft_saved>>
     \/ /\ asks = "delete" /\ GoneWith(NoDraft)
        /\ forced' = TRUE /\ draft_msg' = FALSE /\ draft_saved' = TRUE

\* The window closes its pages without a question.
WindowQuits ==
  /\ Mouse /\ GoneWith(draft) /\ forced' = TRUE /\ UNCHANGED <<draft_msg, draft_saved>>

ComposeNext ==
  \/ EditorStart \/ EditorBegins \/ EditorSaves \/ EditorExits \/ DraftChanged \/ ChildWatch
  \/ ToggleSignature \/ ToggleMarkdown \/ ToggleEncrypt \/ ToggleByMouse
  \/ CycleFrom \/ OnFromComboChanged \/ OnReceiverComboChanged
  \/ AskAttachment \/ AttachFile \/ DeleteAttachment
  \/ AskSending \/ AskClosing \/ AskDeleting \/ AnswersNo \/ SendComposed \/ SendFinished
  \/ SaveDraftAndClose \/ SaveDraftFails \/ ForceClosed \/ CloseSent \/ AnswersClose
  \/ WindowQuits
ComposeSpec == ComposeInit /\ [][ComposeNext]_composeVars

-----------------------------------------------------------------------------
(* Properties.                                                             *)

\* Type invariant; the page shows what its fields and switches make.
ComposeTypeOK ==
  /\ sender \in Account /\ attachments \in 0 .. (MaxEdits + 1)
  /\ asks \in {"none", "send", "close", "delete", "file", "mids"}
  /\ shown = Made(File(fields, sender), switches, attachments)
  /\ compose_page = "open" /\ editor = "none" => ~editor_active

\* What the user wrote is neither lost nor replaced by something else: back
\* from the editor the page shows the text it saved last, to the receivers and
\* from the account that the file names, or from the default one if its address
\* is of none (read_edited_message, set_from); what is sent is what the page shows,
\* with its sender, receivers, attachments, signature and encryption; and a
\* page that goes leaves the message sent, or in a draft, unless the user gave
\* it up.  Callbacks reach a page that is gone only after it was closed by
\* force or when it closed itself after sending.  The code does lose the text
\* that the editor saved and the page overwrites before it reads it, the text
\* of a page that goes with the window, and a draft that cannot be encrypted
\* or signed: the three are left out.
ComposeKeepsText ==
  [][/\ editor_active /\ ~editor_active' /\ ~overtaken =>
          /\ shown'.text = written
          /\ shown'.to = tmpfile.to /\ shown'.from = AccountOf(tmpfile.from)
     /\ outgoing' # outgoing => outgoing' = shown
     /\ compose_page' # compose_page =>
          \/ forced' \/ message_sent' \/ asks = "close"
          \/ draft'.text = shown.text /\ (draft'.complete \/ shown.options \cap Crypt # {})
     /\ faults' # faults /\ "freed" \in faults' => forced \/ message_sent]_composeVars

=============================================================================
