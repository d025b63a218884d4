-------------------------------- MODULE Poll --------------------------------
(***************************************************************************)
(* Polling for new mail (src/src/poll.cc).                                 *)
(*                                                                         *)
(* A poll runs the user's script, which changes the database; when the     *)
(* script has ended, threads whose lastmod is not older than the revision  *)
(* before the poll are announced to the views.  Instead, other programs    *)
(* may enclose their changes with --start-polling and --stop-polling, or   *)
(* ask for a refresh since a revision.  The mutex m_dopoll keeps all of    *)
(* these apart.  Every handler runs on the GUI thread and is one action;   *)
(* what they emit through dispatchers comes later, in order.               *)
(***************************************************************************)
EXTENDS Naturals, SequencesExt

CONSTANTS
  Tid,          \* threads of mail
  Pid,          \* process ids
  NoPid,        \* the id 0
  MaxRevision,  \* bound on the revision of the database
  MaxPipe       \* bound on emissions that wait, for new requests

ASSUME PollAssumption ==
  /\ NoPid \notin Pid
  /\ MaxRevision \in Nat /\ MaxPipe \in Nat

VARIABLES
  revision, lastmod,       \* of the database, and of each thread
  m_dopoll,                \* is the mutex locked
  external_polling, full_refresh, before_poll_revision, poll_state,
  pid,                     \* the member pid
  script, script_pid,      \* the poll script, and its process id
  others,                  \* ids of processes astroid has nothing to do with
  pipe,                    \* emissions that wait for the main loop
  spinner,                 \* what the notebook shows of poll_state
  unseen,                  \* threads whose change no view was told of
  since_start,             \* threads changed since start_polling
  overwritten              \* unseen when before_poll_revision was set anew
                           \* with a refresh still to come

database == <<revision, lastmod, unseen, since_start>>
processes == <<pid, script, script_pid, others>>
vars == <<database, m_dopoll, external_polling, full_refresh,
          before_poll_revision, poll_state, processes, pipe, spinner, overwritten>>

\* pid is not initialised; the configuration decides full_refresh.
Init ==
  /\ revision = 1 /\ lastmod = [t \in Tid |-> 1]
  /\ m_dopoll = FALSE /\ external_polling = FALSE
  /\ full_refresh \in BOOLEAN
  /\ before_poll_revision = 0
  /\ poll_state = FALSE /\ spinner = FALSE
  /\ pid \in Pid \cup {NoPid}
  /\ script = "none" /\ script_pid = NoPid
  /\ others = {}
  /\ pipe = <<>>
  /\ unseen = {} /\ since_start = {} /\ overwritten = {}

-----------------------------------------------------------------------------
RefreshWaits == "refresh" \in ToSet(pipe)

\* The revision that the next refresh starts from.
SetBefore(r) ==
  /\ before_poll_revision' = r
  /\ overwritten' = IF RefreshWaits THEN overwritten \cup unseen ELSE overwritten

\* Bug variant: only the last change since the poll is told of.
ToldSinceNow(r) == {t \in Tid : revision > r /\ lastmod[t] >= revision}

\* refresh_threads: the threads in lastmod:r..revision.
ToldSince(r) == {t \in Tid : revision > r /\ lastmod[t] >= r}

Tell(S) == /\ unseen' = unseen \ S
           /\ overwritten' = overwritten \ S

\* Bug variant: the process id of the script goes to a local variable.
PollStartsLocalPid(p) ==
  /\ ~m_dopoll
  /\ Len(pipe) < MaxPipe
  /\ m_dopoll' = TRUE
  /\ SetBefore(revision)
  /\ poll_state' = TRUE
  /\ pipe' = Append(pipe, "state")
  /\ script_pid' = p /\ script' = "running"
  /\ UNCHANGED <<database, external_polling, full_refresh, pid, others, spinner>>

\* poll, up to the spawn of the script with process id p.
PollStarts(p) ==
  /\ ~m_dopoll
  /\ Len(pipe) < MaxPipe
  /\ m_dopoll' = TRUE
  /\ SetBefore(revision)
  /\ poll_state' = TRUE
  /\ pipe' = Append(pipe, "state")
  /\ pid' = p /\ script_pid' = p /\ script' = "running"
  /\ UNCHANGED <<database, external_polling, full_refresh, others, spinner>>

\* poll when there is no script, or it cannot be spawned: the state goes up
\* and down again, the mutex is released, and no refresh follows.
PollFails ==
  /\ ~m_dopoll
  /\ Len(pipe) < MaxPipe
  /\ SetBefore(revision)
  /\ pipe' = pipe \o <<"state", "state">>
  /\ UNCHANGED <<database, m_dopoll, external_polling, full_refresh, poll_state,
                 processes, spinner>>

\* Bug variant: the state is set without its emission.
PollChildDoneSilent ==
  /\ script = "ended"
  /\ script' = "none" /\ script_pid' = NoPid
  /\ poll_state' = FALSE
  /\ pipe' = Append(pipe, "refresh")
  /\ m_dopoll' = FALSE
  /\ UNCHANGED <<database, external_polling, full_refresh, before_poll_revision,
                 pid, others, spinner, overwritten>>

\* poll_child_done: "pid = 0" sets the parameter of that name, not the member.
PollChildDone ==
  /\ script = "ended"
  /\ script' = "none" /\ script_pid' = NoPid
  /\ poll_state' = FALSE
  /\ pipe' = pipe \o <<"state", "refresh">>
  /\ m_dopoll' = FALSE
  /\ UNCHANGED <<database, external_polling, full_refresh, before_poll_revision,
                 pid, others, spinner, overwritten>>

\* cancel_poll: SIGKILL to the process with the id pid, whichever that is.
CancelPoll ==
  /\ pid # NoPid
  /\ script' = IF script = "running" /\ pid = script_pid THEN "ended" ELSE script
  /\ others' = others \ {pid}
  /\ UNCHANGED <<database, m_dopoll, external_polling, full_refresh,
                 before_poll_revision, poll_state, pid, script_pid, pipe,
                 spinner, overwritten>>

\* --start-polling
StartPolling ==
  /\ ~external_polling /\ ~m_dopoll
  /\ Len(pipe) < MaxPipe
  /\ m_dopoll' = TRUE /\ external_polling' = TRUE
  /\ poll_state' = TRUE
  /\ pipe' = Append(pipe, "state")
  /\ SetBefore(revision)
  /\ since_start' = {}
  /\ UNCHANGED <<revision, lastmod, unseen, full_refresh, processes, spinner>>

\* --stop-polling
StopPolling ==
  /\ external_polling
  /\ Tell(ToldSince(before_poll_revision))
  /\ external_polling' = FALSE /\ m_dopoll' = FALSE
  /\ poll_state' = FALSE
  /\ pipe' = Append(pipe, "state")
  /\ UNCHANGED <<revision, lastmod, since_start, full_refresh,
                 before_poll_revision, processes, spinner>>

\* Bug variant: --refresh is served during a poll.
RefreshAnyway(r) ==
  /\ before_poll_revision' = r
  /\ Tell(IF r = 0 THEN Tid ELSE ToldSince(r))
  /\ UNCHANGED <<revision, lastmod, since_start, m_dopoll, external_polling,
                 full_refresh, poll_state, processes, pipe, spinner>>

\* --refresh r: r = 0 reloads all views.
Refresh(r) ==
  /\ ~external_polling /\ ~m_dopoll
  /\ before_poll_revision' = r
  /\ LET told == IF r = 0 THEN Tid ELSE ToldSince(r)
     IN /\ unseen' = unseen \ told
        /\ overwritten' = (IF RefreshWaits THEN overwritten \cup unseen ELSE overwritten)
                            \ told
  /\ UNCHANGED <<revision, lastmod, since_start, m_dopoll, external_polling,
                 full_refresh, poll_state, processes, pipe, spinner>>

\* d_refresh: refresh_full or refresh_threads.
DispatchRefresh ==
  /\ pipe # <<>>
  /\ Head(pipe) = "refresh"
  /\ pipe' = Tail(pipe)
  /\ Tell(IF full_refresh THEN Tid ELSE ToldSince(before_poll_revision))
  /\ UNCHANGED <<revision, lastmod, since_start, m_dopoll, external_polling,
                 full_refresh, before_poll_revision, poll_state, processes, spinner>>

\* d_poll_state: the notebook shows the state there is now.
DispatchState ==
  /\ pipe # <<>>
  /\ Head(pipe) = "state"
  /\ pipe' = Tail(pipe)
  /\ spinner' = poll_state
  /\ UNCHANGED <<database, m_dopoll, external_polling, full_refresh,
                 before_poll_revision, poll_state, processes, overwritten>>

-----------------------------------------------------------------------------
(* The script, the other programs, and the system's process ids. *)

MailChanges ==
  /\ script = "running" \/ external_polling
  /\ revision < MaxRevision
  /\ revision' = revision + 1
  /\ \E t \in Tid : /\ lastmod' = [lastmod EXCEPT ![t] = revision']
                    /\ unseen' = unseen \cup {t}
                    /\ overwritten' = overwritten \ {t}
                    /\ since_start' = IF external_polling THEN since_start \cup {t}
                                                          ELSE since_start
  /\ UNCHANGED <<m_dopoll, external_polling, full_refresh, before_poll_revision,
                 poll_state, processes, pipe, spinner>>

ScriptEnds ==
  /\ script = "running"
  /\ script' = "ended"
  /\ UNCHANGED <<database, m_dopoll, external_polling, full_refresh,
                 before_poll_revision, poll_state, pid, script_pid, others,
                 pipe, spinner, overwritten>>

OtherProcess ==
  /\ \E p \in Pid \ {script_pid} :
       others' = IF p \in others THEN others \ {p} ELSE others \cup {p}
  /\ UNCHANGED <<database, m_dopoll, external_polling, full_refresh,
                 before_poll_revision, poll_state, pid, script, script_pid,
                 pipe, spinner, overwritten>>

-----------------------------------------------------------------------------
Request ==
  \/ \E p \in Pid \ others : PollStarts(p)
  \/ PollFails
  \/ CancelPoll
  \/ StartPolling \/ StopPolling
  \/ \E r \in 0 .. MaxRevision : Refresh(r)

Dispatch == DispatchRefresh \/ DispatchState

World == MailChanges \/ ScriptEnds \/ OtherProcess

Next == Request \/ PollChildDone \/ Dispatch \/ World

Spec == Init /\ [][Next]_vars

\* The main loop goes on.
FairSpec == Spec /\ WF_vars(PollChildDone) /\ WF_vars(Dispatch)

-----------------------------------------------------------------------------
\* Every variable keeps its type; no revision is from the future.
TypeOK ==
  /\ revision \in 1 .. MaxRevision \cup {1}
  /\ lastmod \in [Tid -> 1 .. revision]
  /\ m_dopoll \in BOOLEAN /\ external_polling \in BOOLEAN /\ full_refresh \in BOOLEAN
  /\ poll_state \in BOOLEAN /\ spinner \in BOOLEAN
  /\ before_poll_revision \in Nat
  /\ pid \in Pid \cup {NoPid} /\ script_pid \in Pid \cup {NoPid}
  /\ script \in {"none", "running", "ended"}
  /\ script # "none" <=> script_pid # NoPid
  /\ others \subseteq Pid
  /\ pipe \in Seq({"state", "refresh"})
  /\ unseen \subseteq Tid /\ since_start \subseteq Tid /\ overwritten \subseteq unseen

\* The mutex is locked exactly while one poll is going on, whatever way it
\* began and whatever went wrong: it is not left locked, which would end
\* all polling, and a script never runs beside an external poll.
OnePollAtATime ==
  /\ m_dopoll <=> script # "none" \/ external_polling
  /\ script = "none" \/ ~external_polling
  /\ poll_state = m_dopoll

\* Until the notebook is told again, the spinner turns exactly during polls.
SpinnerRight == "state" \notin ToSet(pipe) => spinner = poll_state

\* Between polls and with no refresh to come, every change made by a poll was
\* announced, unless before_poll_revision was overwritten before the refresh
\* of that poll was dispatched.
PollChangesTold == ~m_dopoll /\ ~RefreshWaits => unseen \subseteq overwritten

\* So it is after every step; and "update the user view with any changes
\* detected since --start-polling was executed" (doc/astroid.1.scd:62):
\* nothing that happens between start and stop makes stop_polling miss a
\* change, not even a refresh.
ChangesAnnounced ==
  [][PollChangesTold' /\ (StopPolling => unseen' \cap since_start = {})]_vars

\* During a poll cancel_poll kills the poll script and nothing else: the
\* member pid, stale or not initialised at other times, is right then.
CancelHitsScript ==
  [][CancelPoll /\ script = "running" => script' = "ended" /\ others' = others]_vars

\* After the script has ended its changes get announced or overwritten.
ScriptChangesShown ==
  \A t \in Tid : (t \in unseen /\ script = "ended") ~> (t \notin unseen \/ t \in overwritten)

\* "update all threads that have been changed" (poll.cc:328)
AllChangesTold == ~m_dopoll /\ ~RefreshWaits => unseen = {}

=============================================================================
