------------------------- MODULE SendMessage_proofs -------------------------
(***************************************************************************)
(* Proofs about SendMessage, for any number of attempts and any delay.     *)
(*                                                                         *)
(* That a message is not sent twice depends on the page and on the thread: *)
(* the page takes a new attempt only when the one before has told it that  *)
(* it failed, and a thread tells that only when its sendmail is over.      *)
(***************************************************************************)
EXTENDS SendMessage, TLAPS

\* The thread of an attempt has told how it went and does nothing more to it.
Over(n) == spc[n] \in {"clear", "done"}

\* What sendmail can be at each step of the thread.
ThreadInv ==
  \A n \in Attempt :
    /\ spc[n] # "none" <=> n <= attempts
    /\ spc[n] \in {"none", "start", "wait", "spawn"} => sendmail[n] = "none"
    /\ sendmail[n] = "running" => spc[n] \in {"spawned", "waitpid"}
    /\ sendmail[n] = "delivered" =>
         spc[n] \in {"spawned", "waitpid", "report"} \/ n \in result
    /\ n \in result => sendmail[n] = "delivered" /\ spc[n] = "done"
    /\ n \in told => Over(n)
    /\ n \in in_delay =>
         /\ n \in cancel /\ sendmail[n] = "none"
         /\ spc[n] \in {"start", "wait", "clear", "done"}

\* Of all attempts only the last can be under way or have succeeded, and when
\* the page is not sending none is under way, none is about to report, and
\* there is no object but one being deleted.
LastInv ==
  /\ \A n \in Attempt : n < attempts => Over(n)
  /\ alive \subseteq {attempts} /\ result \subseteq {attempts}
  /\ ~ sending_in_progress =>
       /\ \A n \in Attempt : n <= attempts => Over(n)
       /\ alive \subseteq {joining} /\ told \cap alive = {}

\* The page can ask to send only when the message is known not to be sent.
PageInv ==
  /\ sending_in_progress => attempts # 0
  /\ result # {} => message_sent \/ sending_in_progress
  /\ question = "send" => ~ message_sent /\ ~ sending_in_progress
  /\ recorded \subseteq result
  /\ message_sent => result # {}

SendInv ==
  /\ TypeOK
  /\ ThreadInv
  /\ LastInv
  /\ PageInv
  /\ FreedOnlyIfDetached

-----------------------------------------------------------------------------
LEMMA InitTypeOK == Init => TypeOK
<1> SUFFICES ASSUME Init PROVE TypeOK
  OBVIOUS
<1> USE SendAssumption DEF Init, Attempt
<1>1. /\ delay \in [Attempt -> Nat]
      /\ sendmail \in [Attempt -> {"none", "running", "delivered", "failed", "killed",
                                   "unknown"}]
      /\ spc \in [Attempt -> {"none", "start", "wait", "spawn", "spawned", "waitpid",
                              "report", "clear", "done"}]
  OBVIOUS
<1>2. pid \in [Attempt -> {"zero", "own", "other"}]
  OBVIOUS
<1>3. attempts \in 0 .. MaxAttempts /\ joining \in 0 .. MaxAttempts
  OBVIOUS
<1> QED
  BY <1>1, <1>2, <1>3 DEF TypeOK

LEMMA InitSendInv == Init => SendInv
<1> SUFFICES ASSUME Init PROVE SendInv
  OBVIOUS
<1>1. TypeOK
  BY InitTypeOK
<1>2. ThreadInv /\ LastInv /\ PageInv /\ FreedOnlyIfDetached
  BY SendAssumption
     DEF Init, Attempt, ThreadInv, LastInv, PageInv, FreedOnlyIfDetached, Over
<1> QED
  BY <1>1, <1>2 DEF SendInv

-----------------------------------------------------------------------------
(* Steps of the page. *)

PageStep ==
  \/ AskSend \/ AskClose \/ AskDelete \/ AnswerNo \/ AnswerClose
  \/ CloseForce \/ SaveDraft

\* Questions, and closing the page, leave the attempts alone.
LEMMA PageStepInv == SendInv /\ PageStep => SendInv'
<1> SUFFICES ASSUME SendInv, PageStep PROVE SendInv'
  OBVIOUS
<1> USE DEF SendInv, PageStep, AskSend, AskClose, AskDelete, Ask, AnswerNo,
            AnswerClose, CloseForce, SaveDraft, Leave, objvars, threadvars
<1>1. UNCHANGED <<config, in_quit, sending_in_progress, message_sent, objvars,
                  threadvars, joining, recorded>>
  OBVIOUS
<1>2. TypeOK'
  BY DEF TypeOK
<1>3. ThreadInv' /\ LastInv' /\ FreedOnlyIfDetached'
  BY <1>1 DEF ThreadInv, LastInv, FreedOnlyIfDetached, Over
<1>4. question' = "send" => ~ message_sent /\ ~ sending_in_progress
  BY DEF PageInv
<1>5. PageInv'
  BY <1>1, <1>4 DEF PageInv
<1> QED
  BY <1>2, <1>3, <1>5 DEF SendInv

LEMMA SendMessageInv == SendInv /\ SendMessage => SendInv'
<1> SUFFICES ASSUME SendInv, SendMessage PROVE SendInv'
  OBVIOUS
<1> USE SendAssumption DEF SendInv, SendMessage, Gui, Attempt
<1>1. TypeOK'
  BY DEF TypeOK
<1>2. alive = {} /\ result = {} /\ attempts' \in Attempt /\ attempts' = attempts + 1
  BY DEF TypeOK, LastInv, PageInv
<1>3. ThreadInv'
  BY <1>2 DEF TypeOK, ThreadInv, Over
<1>4. LastInv'
  BY <1>2 DEF TypeOK, LastInv, PageInv, Over
<1>5. PageInv' /\ FreedOnlyIfDetached'
  BY <1>2 DEF TypeOK, PageInv, FreedOnlyIfDetached
<1> QED
  BY <1>1, <1>3, <1>4, <1>5 DEF SendInv

LEMMA QuitInv == SendInv /\ Quit => SendInv'
<1> SUFFICES ASSUME SendInv, Quit PROVE SendInv'
  OBVIOUS
<1> USE SendAssumption DEF SendInv, Quit, Gui, Leave, Delete, threadvars
<1>1. TypeOK'
  BY DEF TypeOK, Attempt
<1>2. ThreadInv'
  BY DEF ThreadInv, Over
<1>3. LastInv' /\ PageInv'
  BY DEF TypeOK, LastInv, PageInv, Over, Attempt
<1>4. FreedOnlyIfDetached'
  BY DEF TypeOK, FreedOnlyIfDetached
<1> QED
  BY <1>1, <1>2, <1>3, <1>4 DEF SendInv

LEMMA CancelInv == SendInv /\ Cancel => SendInv'
<1> SUFFICES ASSUME SendInv, Cancel PROVE SendInv'
  OBVIOUS
<1> USE SendAssumption DEF SendInv, Cancel, Keys, Gui, pagevars
<1>1. attempts \in Attempt
  BY DEF TypeOK, PageInv, Attempt
<1>2. TypeOK'
  BY <1>1 DEF TypeOK
<1>3. ThreadInv'
  BY <1>1 DEF TypeOK, ThreadInv, Over
<1>4. LastInv' /\ PageInv'
  BY DEF LastInv, PageInv, Over
<1>5. FreedOnlyIfDetached'
  BY DEF FreedOnlyIfDetached
<1> QED
  BY <1>2, <1>3, <1>4, <1>5 DEF SendInv

LEMMA MessageSentInv == ASSUME SendInv, NEW n \in Attempt, MessageSent(n) PROVE SendInv'
<1> USE SendAssumption DEF SendInv
<1>1. UNCHANGED <<config, in_quit, attempts, detached, cancel, in_delay, delay, spc,
                  pid, sendmail, result>> /\ told' = told \ {n} /\ n \in told
  BY DEF MessageSent
<1>2. ThreadInv'
  BY <1>1 DEF ThreadInv, Over
<1>3. CASE n \notin alive
  <2>1. UNCHANGED <<page, question, sending_in_progress, message_sent, draft, alive,
                    joining, recorded>>
    BY <1>3 DEF MessageSent
  <2>2. TypeOK' /\ PageInv' /\ FreedOnlyIfDetached'
    BY <1>1, <2>1 DEF TypeOK, PageInv, FreedOnlyIfDetached
  <2>3. LastInv'
    BY <1>1, <2>1 DEF LastInv, Over
  <2> QED
    BY <1>2, <2>2, <2>3
<1>4. CASE n \in alive
  <2>1. n = attempts /\ Over(n) /\ sending_in_progress
    BY <1>1, <1>4 DEF ThreadInv, LastInv
  <2>2. /\ sending_in_progress' = FALSE
        /\ message_sent' = (message_sent \/ n \in result)
        /\ draft' = (draft /\ n \notin result)
        /\ recorded' = recorded \/ (n \in result /\ recorded' = recorded \cup {n})
    BY <1>4 DEF MessageSent, DraftAfter
  <2>3. \/ alive' = alive \ {n} /\ joining' = 0 /\ n \in detached
        \/ alive' = alive /\ joining' = n
    BY <1>4 DEF MessageSent, Delete
  <2>4. /\ page' = page \/ page' = "gone"
        /\ question' = question \/ question' = "none"
    BY <1>4 DEF MessageSent, Leave
  <2>5. TypeOK'
    <3>1. message_sent' \in BOOLEAN /\ draft' \in BOOLEAN
      BY <2>2
    <3>2. page' \in {"open", "gone"} /\ question' \in {"none", "send", "close", "delete"}
      BY <2>4 DEF TypeOK
    <3>3. joining' \in 0 .. MaxAttempts /\ alive' \subseteq Attempt
      <4>1. n \in 0 .. MaxAttempts /\ 0 \in 0 .. MaxAttempts
        BY DEF Attempt
      <4>2. alive \subseteq Attempt
        BY DEF TypeOK
      <4> HIDE DEF SendInv
      <4> QED
        BY <2>3, <4>1, <4>2
    <3>4. told' \subseteq Attempt /\ recorded' \subseteq Attempt
      BY <1>1, <2>2 DEF TypeOK
    <3>5. /\ config' \in [close_on_success : BOOLEAN, dryrun : BOOLEAN, save_sent : BOOLEAN]
          /\ in_quit' \in BOOLEAN /\ attempts' \in 0 .. MaxAttempts
          /\ detached' \subseteq Attempt /\ cancel' \subseteq Attempt
          /\ in_delay' \subseteq Attempt /\ result' \subseteq Attempt
      BY <1>1 DEF TypeOK
    <3>6. /\ delay' \in [Attempt -> Nat]
          /\ spc' \in [Attempt -> {"none", "start", "wait", "spawn", "spawned", "waitpid",
                                   "report", "clear", "done"}]
          /\ pid' \in [Attempt -> {"zero", "own", "other"}]
          /\ sendmail' \in [Attempt -> {"none", "running", "delivered", "failed", "killed",
                                        "unknown"}]
      BY <1>1 DEF TypeOK
    <3>7. sending_in_progress' \in BOOLEAN
      BY <2>2
    <3> QED
      BY <3>1, <3>2, <3>3, <3>4, <3>5, <3>6, <3>7 DEF TypeOK
  <2>6. LastInv'
    <3>1. \A k \in Attempt : k <= attempts => Over(k)
      BY <2>1 DEF TypeOK, LastInv, Attempt
    <3>2. alive' \subseteq {joining'} /\ told' \cap alive' = {}
      BY <1>1, <2>1, <2>3 DEF LastInv
    <3> QED
      BY <1>1, <2>3, <3>1, <3>2 DEF LastInv, Over
  <2>7. PageInv'
    BY <1>1, <2>1, <2>2, <2>4 DEF LastInv, PageInv
  <2>8. FreedOnlyIfDetached'
    BY <1>1, <2>3 DEF FreedOnlyIfDetached
  <2> QED
    BY <1>2, <2>5, <2>6, <2>7, <2>8
<1> QED
  BY <1>3, <1>4

LEMMA JoinInv == SendInv /\ Join => SendInv'
<1> SUFFICES ASSUME SendInv, Join PROVE SendInv'
  OBVIOUS
<1> USE SendAssumption DEF SendInv, Join, Leave, threadvars
<1>1. TypeOK'
  BY DEF TypeOK
<1>2. ThreadInv'
  BY DEF ThreadInv, Over
<1>3. LastInv' /\ PageInv'
  BY DEF LastInv, PageInv, Over
<1>4. FreedOnlyIfDetached'
  BY DEF FreedOnlyIfDetached
<1> QED
  BY <1>1, <1>2, <1>3, <1>4 DEF SendInv

-----------------------------------------------------------------------------
(* Steps of a send thread and of sendmail. *)

\* Such a step leaves the page and the objects alone.  It keeps the invariant
\* if it keeps that of the threads, comes from a step that is not over, or
\* leaves an attempt over, and tells of success only in the last attempt.
LEMMA ThreadFrame ==
  ASSUME SendInv, TypeOK', ThreadInv', NEW n \in Attempt,
         UNCHANGED <<pagevars, objvars, joining, recorded>>,
         \A k \in Attempt : k # n => spc'[k] = spc[k],
         spc[n] # "none", spc[n] = "done" => spc'[n] = "done",
         Over(n) => Over(n)' /\ told' = told,
         told' \subseteq told \cup {n},
         result' = result \/ (result' = result \cup {n} /\ ~ Over(n))
  PROVE  SendInv'
<1> USE DEF SendInv, pagevars, objvars
<1>1. ~ Over(n) => sending_in_progress /\ n = attempts
  BY DEF TypeOK, ThreadInv, LastInv, Attempt
<1>2. LastInv'
  BY <1>1 DEF LastInv, Over
<1>3. PageInv'
  BY <1>1 DEF PageInv
<1>4. FreedOnlyIfDetached'
  BY DEF FreedOnlyIfDetached
<1> QED
  BY <1>2, <1>3, <1>4 DEF SendInv

LEMMA SendThreadInv == ASSUME SendInv, NEW n \in Attempt, Send(n) PROVE SendInv'
<1> USE DEF SendInv, Step, Emit, pagevars, objvars
<1>1. CASE Wait(n)
  <2>1. TypeOK'
    BY <1>1 DEF Wait, TypeOK
  <2>2. ThreadInv'
    BY <1>1 DEF Wait, TypeOK, ThreadInv, Over
  <2> QED
    BY <1>1, <2>1, <2>2, ThreadFrame DEF Wait, TypeOK, Over
<1>2. CASE DelayEnds(n)
  <2>1. TypeOK'
    BY <1>2 DEF DelayEnds, TypeOK
  <2>2. ThreadInv'
    BY <1>2 DEF DelayEnds, TypeOK, ThreadInv, Over
  <2> QED
    BY <1>2, <2>1, <2>2, ThreadFrame DEF DelayEnds, TypeOK, Over
<1>3. CASE SpawnFails(n)
  <2>1. TypeOK'
    BY <1>3 DEF SpawnFails, TypeOK
  <2>2. ThreadInv'
    BY <1>3 DEF SpawnFails, TypeOK, ThreadInv, Over
  <2> QED
    BY <1>3, <2>1, <2>2, ThreadFrame DEF SpawnFails, TypeOK, Over
<1>4. CASE Spawn(n)
  <2>1. TypeOK'
    BY <1>4 DEF Spawn, TypeOK
  <2>2. ThreadInv'
    BY <1>4 DEF Spawn, TypeOK, ThreadInv, Over
  <2> QED
    BY <1>4, <2>1, <2>2, ThreadFrame DEF Spawn, TypeOK, Over
<1>5. CASE SetPid(n)
  <2>1. TypeOK'
    BY <1>5 DEF SetPid, TypeOK
  <2>2. ThreadInv'
    BY <1>5 DEF SetPid, TypeOK, ThreadInv, Over
  <2> QED
    BY <1>5, <2>1, <2>2, ThreadFrame DEF SetPid, TypeOK, Over
<1>6. CASE Reap(n)
  <2>1. TypeOK'
    BY <1>6 DEF Reap, TypeOK
  <2>2. ThreadInv'
    BY <1>6 DEF Reap, TypeOK, ThreadInv, Over
  <2> QED
    BY <1>6, <2>1, <2>2, ThreadFrame DEF Reap, TypeOK, Over
<1>7. CASE Report(n)
  <2>1. TypeOK'
    BY <1>7 DEF Report, TypeOK
  <2>2. ThreadInv'
    BY <1>7 DEF Report, TypeOK, ThreadInv, Over
  <2> QED
    BY <1>7, <2>1, <2>2, ThreadFrame DEF Report, TypeOK, Over
<1>8. CASE Clear(n)
  <2>1. TypeOK'
    BY <1>8 DEF Clear, TypeOK
  <2>2. ThreadInv'
    BY <1>8 DEF Clear, TypeOK, ThreadInv, Over
  <2> QED
    BY <1>8, <2>1, <2>2, ThreadFrame DEF Clear, TypeOK, Over
<1> QED
  BY <1>1, <1>2, <1>3, <1>4, <1>5, <1>6, <1>7, <1>8 DEF Send

LEMMA SendmailExitsInv ==
  ASSUME SendInv, NEW n \in Attempt, SendmailExits(n) PROVE SendInv'
<1> USE DEF SendInv, SendmailExits, pagevars, objvars
<1>1. TypeOK'
  BY DEF TypeOK
<1>2. ThreadInv'
  BY DEF TypeOK, ThreadInv, Over
<1> QED
  BY <1>1, <1>2, ThreadFrame DEF TypeOK, ThreadInv, Over

-----------------------------------------------------------------------------
LEMMA NextSendInv == SendInv /\ [Next]_vars => SendInv'
<1> SUFFICES ASSUME SendInv, [Next]_vars PROVE SendInv'
  OBVIOUS
<1>1. CASE PageStep
  BY <1>1, PageStepInv
<1>2. CASE SendMessage
  BY <1>2, SendMessageInv
<1>3. CASE Quit
  BY <1>3, QuitInv
<1>4. CASE Cancel
  BY <1>4, CancelInv
<1>5. CASE \E n \in Attempt : MessageSent(n) \/ Send(n) \/ SendmailExits(n)
  BY <1>5, MessageSentInv, SendThreadInv, SendmailExitsInv
<1>6. CASE Join
  BY <1>6, JoinInv
<1>7. CASE UNCHANGED vars
  BY <1>7 DEF SendInv, TypeOK, ThreadInv, LastInv, PageInv, FreedOnlyIfDetached, Over,
              vars, pagevars, objvars, threadvars
<1> QED
  BY <1>1, <1>2, <1>3, <1>4, <1>5, <1>6, <1>7 DEF Next, PageStep

THEOREM Invariance == Spec => []SendInv
BY InitSendInv, NextSendInv, PTL DEF Spec

\* Every variable keeps its type; no count of seconds runs below zero.
THEOREM TypeCorrect == Spec => []TypeOK
<1>1. SendInv => TypeOK
  BY DEF SendInv
<1> QED
  BY <1>1, Invariance, PTL

\* Sendmail accepts the message once, however sending is cancelled, fails and
\* is tried again: what was delivered is what the last attempt delivered.
THEOREM SentOnce == Spec => []NeverTwice
<1>1. SendInv => NeverTwice
  <2> SUFFICES ASSUME SendInv, NEW n \in Delivered PROVE n = attempts
    BY DEF NeverTwice
  <2> QED
    BY DEF SendInv, TypeOK, ThreadInv, LastInv, Over, Delivered, Attempt
<1> QED
  BY <1>1, Invariance, PTL

\* An attempt cancelled during its delay never starts sendmail.
THEOREM CancelWorks == Spec => []CancelInDelayWorks
<1>1. SendInv => CancelInDelayWorks
  BY DEF SendInv, TypeOK, ThreadInv, CancelInDelayWorks
<1> QED
  BY <1>1, Invariance, PTL

\* The object of a thread that is under way is deleted only after a cancel.
THEOREM Freed == Spec => []FreedOnlyIfDetached
<1>1. SendInv => FreedOnlyIfDetached
  BY DEF SendInv
<1> QED
  BY <1>1, Invariance, PTL

\* The page and notmuch take a message as sent only if sendmail accepted it,
\* and a draft goes away only on request or when the message has been sent.
THEOREM OutcomesAgreed == Spec => OutcomesAgree
<1>1. SendInv => SentIsDelivered
  BY DEF SendInv, TypeOK, ThreadInv, PageInv, SentIsDelivered, Delivered
<1>2. SendInv /\ [Next]_vars =>
        [draft /\ ~ draft' => question = "delete" \/ Delivered # {}]_vars
  <2> SUFFICES ASSUME SendInv, Next, draft, ~ draft', question # "delete"
               PROVE  Delivered # {}
    BY DEF vars
  <2>1. PICK n \in Attempt : MessageSent(n)
    BY DEF Next, AskSend, AskClose, AskDelete, Ask, AnswerNo, AnswerClose, SendMessage,
           CloseForce, SaveDraft, Quit, Cancel, Join, Send, Wait, DelayEnds, SpawnFails,
           Spawn, SetPid, Reap, Report, Clear, SendmailExits, pagevars, Leave,
           SendInv, TypeOK
  <2>2. n \in result
    BY <2>1 DEF MessageSent, DraftAfter, Delete
  <2> QED
    BY <2>2 DEF SendInv, ThreadInv, Delivered
<1> QED
  BY <1>1, <1>2, Invariance, PTL DEF Spec, OutcomesAgree

=============================================================================
