----------------------------- MODULE SendMessage -----------------------------
(***************************************************************************)
(* Sending a message (src/src/modes/edit_message.cc and                    *)
(* src/src/compose_message.cc).                                            *)
(*                                                                         *)
(* Each attempt to send makes a ComposeMessage with a thread of its own,   *)
(* which waits for the delay, runs sendmail and reports the result to the  *)
(* page on the GUI thread through the dispatcher d_message_sent.  The page *)
(* then deletes the ComposeMessage, whose destructor joins the thread      *)
(* unless cancel_sending has detached it.  The page may be closed, or      *)
(* destroyed as the window quits, at any time the code lets it.            *)
(*                                                                         *)
(* What the thread does under send_cancel_m up to the next wait is one     *)
(* step.  The text of the status messages is left out.                     *)
(***************************************************************************)
EXTENDS Naturals

CONSTANTS
  MaxAttempts,  \* bound on how often the user tries to send
  send_delay    \* mail.send_delay, in seconds

ASSUME SendAssumption == MaxAttempts \in Nat /\ send_delay \in Nat

Attempt == 1 .. MaxAttempts

VARIABLES
  config,           \* mail.close_on_success, dryrun_sending, save_sent
  page, in_quit,    \* is there a page, does the window quit
  question,         \* what the yes-no bar asks
  sending_in_progress, message_sent,
  draft,            \* is there a draft of the message on disk
  attempts,         \* attempts made; the last one is sending_message
  alive, detached,  \* attempts whose object exists, whose thread is detached
  cancel, in_delay, \* attempts with cancel_send_during_delay set, and in time
  delay, spc,       \* what is left of the delay, and the step, of each thread
  pid, sendmail,    \* the variable pid and the process of each attempt
  result,           \* attempts with message_sent_result set
  told,             \* emissions of d_message_sent not yet dispatched
  joining,          \* the attempt whose thread the GUI thread joins, or 0
  recorded          \* attempts for which an AddSentMessage has been queued

pagevars == <<page, in_quit, question, sending_in_progress, message_sent, draft>>
objvars == <<attempts, alive, detached, cancel, in_delay>>
threadvars == <<delay, spc, pid, sendmail, result, told>>
vars == <<config, pagevars, objvars, threadvars, joining, recorded>>

Init ==
  /\ config \in [close_on_success : BOOLEAN, dryrun : BOOLEAN, save_sent : BOOLEAN]
  /\ page = "open" /\ in_quit = FALSE /\ question = "none"
  /\ sending_in_progress = FALSE /\ message_sent = FALSE
  /\ draft \in BOOLEAN
  /\ attempts = 0 /\ alive = {} /\ detached = {} /\ cancel = {} /\ in_delay = {}
  /\ delay = [n \in Attempt |-> send_delay]
  /\ spc = [n \in Attempt |-> "none"]
  /\ pid \in [Attempt -> {"zero", "other"}]  \* pid is never initialized
  /\ sendmail = [n \in Attempt |-> "none"]
  /\ result = {} /\ told = {} /\ joining = 0 /\ recorded = {}

Gui == joining = 0
Keys == Gui /\ page = "open" /\ question = "none"

-----------------------------------------------------------------------------
(* The page, on the GUI thread. *)

\* Keys that ask first.
Ask(q) ==
  /\ Keys
  /\ question' = q
  /\ UNCHANGED <<config, page, in_quit, sending_in_progress, message_sent,
                 draft, objvars, threadvars, joining, recorded>>

AskSend == ~ message_sent /\ ~ sending_in_progress /\ Ask("send")
AskClose == ~ message_sent /\ ~ sending_in_progress /\ Ask("close")
AskDelete == draft /\ ~ message_sent /\ ~ sending_in_progress /\ Ask("delete")

\* Mode::close
Leave == page' = "gone" /\ question' = "none"

AnswerNo ==
  /\ Gui /\ page = "open" /\ question # "none"
  /\ question' = "none"
  /\ UNCHANGED <<config, page, in_quit, sending_in_progress, message_sent,
                 draft, objvars, threadvars, joining, recorded>>

AnswerClose ==
  /\ Gui /\ page = "open" /\ question \in {"close", "delete"}
  /\ Leave
  /\ draft' = (draft /\ question # "delete")
  /\ UNCHANGED <<config, in_quit, sending_in_progress, message_sent,
                 objvars, threadvars, joining, recorded>>

\* send_message, when the message could be made (else nothing changes).
SendMessage ==
  /\ Gui /\ page = "open" /\ question = "send"
  /\ question' = "none"
  /\ attempts < MaxAttempts
  /\ attempts' = attempts + 1
  /\ alive' = alive \cup {attempts'}
  /\ spc' = [spc EXCEPT ![attempts'] = "start"]
  /\ sending_in_progress' = TRUE
  /\ UNCHANGED <<config, page, in_quit, message_sent, draft, detached, cancel,
                 in_delay, delay, pid, sendmail, result, told, joining, recorded>>

\* Closing the page by force or after the message was sent saves it as a
\* draft if it was not sent; while sending the page stays.
CloseForce ==
  /\ Keys /\ ~ sending_in_progress
  /\ Leave
  /\ draft' \in IF message_sent THEN {draft} ELSE {draft, TRUE}
  /\ UNCHANGED <<config, in_quit, sending_in_progress, message_sent, objvars,
                 threadvars, joining, recorded>>

\* Save the message as a draft and close, whether or not it has been sent.
SaveDraft ==
  /\ Keys /\ ~ sending_in_progress
  /\ Leave
  /\ draft' = TRUE
  /\ UNCHANGED <<config, in_quit, sending_in_progress, message_sent, objvars,
                 threadvars, joining, recorded>>

\* Bug variant: the destructor does not join the thread.
DeleteAtOnce(n) == alive' = alive \ {n} /\ joining' = 0

\* The ComposeMessage of attempt n is deleted: its thread is joined first.
Delete(n) ==
  IF n \in detached THEN alive' = alive \ {n} /\ joining' = 0
                    ELSE alive' = alive /\ joining' = n

\* The window quits: del_mode and the destructor do not ask EditMessage::close.
Quit ==
  /\ Gui /\ page = "open"
  /\ in_quit' = TRUE
  /\ Leave
  /\ IF attempts \in alive THEN Delete(attempts) ELSE UNCHANGED <<alive, joining>>
  /\ UNCHANGED <<config, sending_in_progress, message_sent, draft, attempts,
                 detached, cancel, in_delay, threadvars, recorded>>

\* Bug variant: a cancelled attempt is taken to be over.
CancelIsOver ==
  LET n == attempts IN
  /\ Keys /\ ~ message_sent /\ sending_in_progress
  /\ sending_in_progress' = FALSE
  /\ cancel' = cancel \cup {n}
  /\ in_delay' = IF spc[n] \in {"start", "wait"} THEN in_delay \cup {n} ELSE in_delay
  /\ detached' = detached \cup {n}
  /\ UNCHANGED <<config, page, in_quit, question, message_sent, draft, attempts,
                 alive, threadvars, joining, recorded>>

\* Bug variant: a cancelled attempt is deleted with its dispatcher.
CancelDeletes ==
  LET n == attempts IN
  /\ Keys /\ ~ message_sent /\ sending_in_progress /\ n \in alive
  /\ sending_in_progress' = FALSE
  /\ alive' = alive \ {n}
  /\ cancel' = cancel \cup {n}
  /\ in_delay' = IF spc[n] \in {"start", "wait"} THEN in_delay \cup {n} ELSE in_delay
  /\ detached' = detached \cup {n}
  /\ UNCHANGED <<config, page, in_quit, question, message_sent, draft, attempts,
                 threadvars, joining, recorded>>

\* cancel_sending
Cancel ==
  LET n == attempts IN
  /\ Keys /\ ~ message_sent /\ sending_in_progress
  /\ cancel' = cancel \cup {n}
  /\ in_delay' = IF spc[n] \in {"start", "wait"} THEN in_delay \cup {n} ELSE in_delay
  /\ sendmail' = IF pid[n] = "own" /\ sendmail[n] = "running"
                 THEN [sendmail EXCEPT ![n] = "killed"] ELSE sendmail
  /\ detached' = detached \cup {n}
  /\ UNCHANGED <<config, pagevars, attempts, alive, delay, spc, pid, result,
                 told, joining, recorded>>

\* A draft of a message that was sent is deleted.
DraftAfter(n) == draft /\ n \notin result

\* message_sent_event and send_message_finished; what was emitted by an
\* object that is gone is dropped with its dispatcher.
MessageSent(n) ==
  /\ Gui /\ n \in told
  /\ told' = told \ {n}
  /\ IF n \in alive
     THEN /\ recorded' = IF n \in result /\ config.save_sent /\ ~ config.dryrun
                         THEN recorded \cup {n} ELSE recorded
          /\ message_sent' = (message_sent \/ n \in result)
          /\ draft' = DraftAfter(n)
          /\ sending_in_progress' = FALSE
          /\ Delete(n)
          /\ IF n \in detached /\ n \in result /\ config.close_on_success
             THEN Leave ELSE UNCHANGED <<page, question>>
     ELSE UNCHANGED <<page, question, sending_in_progress, message_sent, draft,
                      alive, joining, recorded>>
  /\ UNCHANGED <<config, in_quit, attempts, detached, cancel, in_delay, delay,
                 spc, pid, sendmail, result>>

\* The join returns; a page that closes on success does so after it.
Join ==
  /\ joining # 0 /\ spc[joining] = "done"
  /\ joining' = 0
  /\ alive' = alive \ {joining}
  /\ IF joining \in result /\ config.close_on_success /\ page = "open"
     THEN Leave ELSE UNCHANGED <<page, question>>
  /\ UNCHANGED <<config, in_quit, sending_in_progress, message_sent, draft,
                 attempts, detached, cancel, in_delay, threadvars, recorded>>

-----------------------------------------------------------------------------
(* ComposeMessage::send, on the thread of attempt n, and sendmail. *)

Step(n, from, to) == spc[n] = from /\ spc' = [spc EXCEPT ![n] = to]
Emit(n, res) ==
  /\ result' = IF res THEN result \cup {n} ELSE result
  /\ told' = told \cup {n}

Wait(n) ==
  /\ spc[n] \in {"start", "wait"} /\ delay[n] > 0 /\ n \notin cancel
  /\ spc' = [spc EXCEPT ![n] = "wait"]
  /\ delay' = [delay EXCEPT ![n] = @ - 1]
  /\ UNCHANGED <<config, pagevars, objvars, pid, sendmail, result, told, joining, recorded>>

\* Bug variant: only the wait is cut short.
DelayEndsOnly(n) ==
  /\ spc[n] \in {"start", "wait"}
  /\ delay[n] = 0 \/ n \in cancel
  /\ spc' = [spc EXCEPT ![n] = "spawn"]
  /\ UNCHANGED <<config, pagevars, objvars, delay, pid, sendmail, result, told,
                 joining, recorded>>

\* Bug variant: a cancelled thread ends without a word.
DelayEndsSilently(n) ==
  /\ spc[n] \in {"start", "wait"}
  /\ delay[n] = 0 \/ n \in cancel
  /\ spc' = [spc EXCEPT ![n] = IF n \in cancel THEN "clear" ELSE "spawn"]
  /\ UNCHANGED <<config, pagevars, objvars, delay, pid, sendmail, result, told,
                 joining, recorded>>

\* The end of the delay: it was cancelled, or now is too late.
DelayEnds(n) ==
  /\ spc[n] \in {"start", "wait"}
  /\ delay[n] = 0 \/ n \in cancel
  /\ IF n \in cancel
     THEN spc' = [spc EXCEPT ![n] = "clear"] /\ Emit(n, FALSE)
     ELSE spc' = [spc EXCEPT ![n] = "spawn"] /\ UNCHANGED <<result, told>>
  /\ UNCHANGED <<config, pagevars, objvars, delay, pid, sendmail, joining, recorded>>

\* Sending is off, and the message goes to a file, or sendmail cannot start.
SpawnFails(n) ==
  /\ Step(n, "spawn", "clear")
  /\ Emit(n, FALSE)
  /\ UNCHANGED <<config, pagevars, objvars, delay, pid, sendmail, joining, recorded>>

\* spawn_async_with_pipes: the process runs before the caller knows its pid.
Spawn(n) ==
  /\ Step(n, "spawn", "spawned") /\ ~ config.dryrun
  /\ sendmail' = [sendmail EXCEPT ![n] = "running"]
  /\ UNCHANGED <<config, pagevars, objvars, delay, pid, result, told, joining, recorded>>

SetPid(n) ==
  /\ Step(n, "spawned", "waitpid")
  /\ pid' = [pid EXCEPT ![n] = "own"]
  /\ UNCHANGED <<config, pagevars, objvars, delay, sendmail, result, told, joining, recorded>>

SendmailExits(n) ==
  /\ sendmail[n] = "running"
  /\ \E status \in {"delivered", "failed"} : sendmail' = [sendmail EXCEPT ![n] = status]
  /\ UNCHANGED <<config, pagevars, objvars, delay, spc, pid, result, told, joining, recorded>>

\* waitpid returns; pid still has its number, which is no longer sendmail's.
\* Should it fail it is "unknown if message was sent".
Reap(n) ==
  /\ Step(n, "waitpid", "report")
  /\ \/ sendmail[n] # "running" /\ UNCHANGED sendmail
     \/ sendmail' = [sendmail EXCEPT ![n] = "unknown"]
  /\ pid' = [pid EXCEPT ![n] = "other"]
  /\ UNCHANGED <<config, pagevars, objvars, delay, result, told, joining, recorded>>

\* Bug variant: how sendmail ended is not looked at.
ReportSent(n) ==
  /\ Step(n, "report", "done")
  /\ pid' = [pid EXCEPT ![n] = "zero"]
  /\ Emit(n, TRUE)
  /\ UNCHANGED <<config, pagevars, objvars, delay, sendmail, joining, recorded>>

\* After a success nothing of the object is used once it is told.
Report(n) ==
  /\ IF sendmail[n] = "delivered"
     THEN /\ Step(n, "report", "done")
          /\ pid' = [pid EXCEPT ![n] = "zero"]
          /\ Emit(n, TRUE)
     ELSE /\ Step(n, "report", "clear")
          /\ Emit(n, FALSE)
          /\ UNCHANGED pid
  /\ UNCHANGED <<config, pagevars, objvars, delay, sendmail, joining, recorded>>

\* pid = 0 after the failure was told, and the end of the lock of the delay.
Clear(n) ==
  /\ Step(n, "clear", "done")
  /\ pid' = [pid EXCEPT ![n] = "zero"]
  /\ UNCHANGED <<config, pagevars, objvars, delay, sendmail, result, told, joining, recorded>>

Send(n) ==
  \/ Wait(n) \/ DelayEnds(n) \/ SpawnFails(n) \/ Spawn(n) \/ SetPid(n)
  \/ Reap(n) \/ Report(n) \/ Clear(n)

Next ==
  \/ AskSend \/ AskClose \/ AskDelete \/ AnswerNo \/ AnswerClose
  \/ SendMessage \/ CloseForce \/ SaveDraft \/ Quit \/ Cancel
  \/ \E n \in Attempt : MessageSent(n)
  \/ Join
  \/ \E n \in Attempt : Send(n)
  \/ \E n \in Attempt : SendmailExits(n)

Spec == Init /\ [][Next]_vars

\* Threads, sendmail and the main loop go on; the user need not.
FairSpec ==
  /\ Spec
  /\ WF_vars(Join)
  /\ \A n \in Attempt :
       WF_vars(Send(n)) /\ WF_vars(SendmailExits(n)) /\ WF_vars(MessageSent(n))

-----------------------------------------------------------------------------
(* Properties. *)

\* Every variable keeps its type; no count of seconds runs below zero.
TypeOK ==
  /\ config \in [close_on_success : BOOLEAN, dryrun : BOOLEAN, save_sent : BOOLEAN]
  /\ page \in {"open", "gone"} /\ question \in {"none", "send", "close", "delete"}
  /\ in_quit \in BOOLEAN /\ draft \in BOOLEAN
  /\ sending_in_progress \in BOOLEAN /\ message_sent \in BOOLEAN
  /\ attempts \in 0 .. MaxAttempts /\ joining \in 0 .. MaxAttempts
  /\ alive \subseteq Attempt /\ detached \subseteq Attempt
  /\ cancel \subseteq Attempt /\ in_delay \subseteq Attempt
  /\ result \subseteq Attempt /\ told \subseteq Attempt /\ recorded \subseteq Attempt
  /\ delay \in [Attempt -> Nat]
  /\ spc \in [Attempt -> {"none", "start", "wait", "spawn", "spawned", "waitpid",
                          "report", "clear", "done"}]
  /\ pid \in [Attempt -> {"zero", "own", "other"}]
  /\ sendmail \in [Attempt -> {"none", "running", "delivered", "failed", "killed",
                               "unknown"}]

Delivered == {n \in Attempt : sendmail[n] = "delivered"}

\* However sending is cancelled, fails and is tried again, sendmail accepts
\* the message once: the page takes a new attempt only when the last one is
\* known to be over.  (Attempts of which waitpid lost track do not count.)
NeverTwice == \A n, k \in Delivered : n = k

\* An attempt cancelled while its thread still waits never reaches sendmail:
\* config.cc:254, "wait seconds before sending, allowing to cancel".
CancelInDelayWorks == \A n \in in_delay : sendmail[n] = "none"

\* The object of a thread that is under way is deleted only when the thread
\* was detached by a cancel; else the destructor waits for it.
FreedOnlyIfDetached ==
  \A n \in Attempt \ alive : spc[n] \in {"none", "done"} \/ n \in detached

\* The page says sent, and the message is added to notmuch as sent, only for
\* an attempt that sendmail accepted.
SentIsDelivered ==
  /\ recorded \subseteq Delivered
  /\ message_sent => Delivered # {}

\* So it is after every step; and a draft on disk goes away only when the
\* user asked for it or sendmail has accepted the message: page, notmuch and
\* drafts agree with sendmail, whatever fails (send, send_message_finished).
OutcomesAgree ==
  [][ /\ SentIsDelivered'
      /\ draft /\ ~ draft' => question = "delete" \/ Delivered # {} ]_vars

\* The page is told how the attempt went, cancelled or not, and can be used
\* again (edit_message.cc:399, "send_message_finished will still be called to
\* clean up sending_message"), unless the window quits; and the GUI thread
\* does not wait forever for the thread it joins.
SendingEnds ==
  /\ sending_in_progress ~> (~ sending_in_progress \/ in_quit)
  /\ joining # 0 ~> joining = 0

\* A message the sender knows was sent is recorded as such and its draft removed, even if
\* the user tried to cancel it in the meantime, unless the window quits.
DeliveredIsRecorded ==
  (\E n \in Delivered : spc[n] = "report")
    ~> in_quit \/ (message_sent /\ ~ draft /\ (config.save_sent => recorded # {}))

=============================================================================
