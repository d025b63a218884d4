# A TLA+ verification of astroid

Astroid is a mail client: a GTK program over notmuch, with threads of its own
for everything that takes time. The modules here model the parts where threads,
processes and queues meet, and check and prove that they cooperate. Names of
variables, operators and steps are those of the source where TLA+ allows it;
`PROJECT.json` maps each definition to the lines it stands for.

Contents: [the system](#1-the-system) · [modules](#2-modules) ·
[runs and bounds](#3-runs) · [fairness](#4-fairness) · [proofs](#5-proofs) ·
[findings](#6-what-the-code-does-that-it-says-it-does-not) ·
[not modelled](#7-what-is-not-modelled) · [plan](#8-plan)

## 1. The system

One process with a GUI thread (GTK's main loop) and, at times, these others:

| thread or process | lives | talks to the GUI thread by |
|---|---|---|
| action worker | from start to `ActionManager::close` | queues under mutexes, the dispatcher `emit_ready` |
| a loader for each thread index | one per load | `to_list_store` under a mutex, three dispatchers |
| poll thread, `poll.sh` | wait between polls; one child at a time | `m_dopoll`, two dispatchers, a child watch |
| a send thread for each attempt, `sendmail` | delay, process, report | `d_message_sent`, `send_cancel_m` |
| WebKit's web process for each page | one per thread view | a socket with requests and acknowledgements |
| editor process | while a message is written | a file with a monitor, a child watch |
| markdown and quote processors | while the GUI thread waits for them | two or three pipes |
| other programs (`notmuch new`, a second astroid) | any time | the database and its lock |

A `Glib::Dispatcher` is a pipe: `emit()` on any thread, the slot runs later on
the GUI thread, in order. Most questions below are about what may happen between
the two.

### Components, their state and what makes them correct

**Database lock (`src/src/db.cc`, `Db`).** Static: a mutex `db_open`, a count
`read_only_dbs_open`, a condition variable. Any number of read-only databases
or one read-write one, opened with retries when another program has the write
lock. Correct: writer and readers exclude each other; the count is right after
a failed open; no writer sleeps past its notification; it is an abstract
readers-writer lock. Users: action worker (read-write), loaders, poll and GUI
(read-only).

**Action manager (`src/src/actions/action_manager.cc`).** Queues `actions`,
`doneactions`, `toemit`; flags `run`, `emit`; two mutexes. `doit`, `undo`,
`close` and `emitter` on the GUI thread, `action_worker` on its own. Correct:
each action is done once and undone once, in an order undo can rely on; every
action done is announced; the GUI thread never waits for something that waits
for it; close does what was queued.

**Tag actions and notmuch items (`src/src/actions/*_action.cc`, `db.cc`,
`message_thread.cc`).** Items (threads in an index, messages in a view) hold
copies of tags; actions take tags from those copies, change the database on the
worker and announce it; the announcement refreshes items. Correct: an item that
is wrong has a refresh coming, unless no poll tells of it; an action decides by tags that are right; undo
gives back what the user saw. The copy is a vector: a thread item appends what it adds, and only
`DiffTagAction` goes by its order.

**Query loader (`src/src/modes/thread_index/query_loader.cc`).** `run`,
`to_list_store`, `changed_threads`, the list. `start`, `stop`, `loader`,
`to_list_adder`, `on_thread_changed`, `update_deferred_changed_threads`,
`reload`, `refine_query`, destructor. Correct: when all is quiet the list shows
the query's result; no change is lost; rows of an old query do not get in;
stopping returns.

**Poll (`src/src/poll.cc`).** The mutex `m_dopoll` held from the start of a
poll to the end of its script, `poll_state`, `before_poll_revision`, `pid`.
Internal polls, polls of an external program (`--start-polling`,
`--stop-polling`), `--refresh`, cancel. Correct: one poll at a time and none
left open; what changed is announced; the spinner is right; cancel kills the
script.

**Sending (`src/src/modes/edit_message.cc`, `src/src/compose_message.cc`).**
The page's `sending_in_progress`, `message_sent`, draft; for each attempt a
`ComposeMessage` with a thread, `cancel_send_during_delay`, `pid`. Send, cancel,
close, save or delete the draft, quit. Correct: one message is sent once; a
cancel in the delay works; the page learns how each attempt ended; no object is
freed under its thread, but after a cancel; the sent message is recorded.

**Thread page (`src/src/modes/thread_view/thread_view.cc`, `page_client.cc`,
`webextension/`).** The program has what is expanded, marked and which parts
can get the focus; the extension has the focus. Each call of `PageClient` is a
request and one acknowledgement the GUI thread waits for, which brings the focus
back. The first comes when "page loaded" and "extension connected" have
both been. Correct: replies go with requests; nothing is drawn before the
extension knows what to allow; the two sides agree when all is quiet; a message is
marked as read only if it has the focus.

**Windows and pages (`src/src/main_window.cc`, `src/src/modes/mode.cc`, `paned_mode.cc`).** A
notebook of modes, `current`, `active`, a stack of keyboard grabs, at most one
question (`yes_no_waiting`) or multi key (`multi_waiting`), the command bar and
its callback, `in_quit`. Correct: keys go to the page shown; what answers a
question is the closure of a page that is open.

**Command bar (`src/src/command_bar.cc`).** An entry with modes for searches, tags,
text and filters; history and completion. Correct: browsing and completing
change what they are for and nothing else the user typed.

**Key bindings (`src/src/modes/keybindings.cc`).** The user's file, a `std::map`
of keys, aliases that point into it. Correct: a key runs the command it is
listed under, and the user's bindings win.

**Saved searches (`src/src/modes/saved_searches.cc`).** The file of searches, the
history, a page with counts. A change of the file or the history only emits `m_reload`, a dispatcher. Correct: a page
has the searches of now or a reload to come, and on display their counts of now; the history
survives a restart (it does not, see section 6).

**List of a thread index (`thread_index.cc`, `thread_index_list_view.cc`).**
Rows, filter, cursor, marks; a thread view in a pane that asks for the next thread. Correct: a
command acts on a row that is shown, at the time it is given.

**Composing (`src/src/modes/edit_message.cc`, `editor/external.cc`,
`reply_message.cc`, `forward_message.cc`).** The message in three places: the
draft file, which the editor process writes too, the fields and switches of the page,
and what the page shows. Correct: what the user wrote is shown, sent or kept as a draft.

**External filters (`src/src/utils/cmd.cc`, `compose_message.cc:178`).** A
child between pipes, on the GUI thread. Correct: the thread gets out of it.

**Accounts, configuration, crypto, plugins, chunks, log, help, utilities.** State
that is local or read once; `PROJECT.json` says of each why it is or is not
modelled.

### Hard behaviours

Steps of two threads between a test and its use (`run`, `toemit.empty ()`,
`loading ()`); signals applied after the state has moved on
(`before_poll_revision`, deferred updates, a report from an attempt that is
over); partial failures (an open that fails, a tag refused in the middle of a
thread, `waitpid`); waits that depend on each other (database lock and queue
mutexes, the page's socket, a child's pipes); everything that must happen in the end. Each has a line and the
properties that cover it in `PROJECT.json` "hazards".

## 2. Modules

| module | models | state and steps |
|---|---|---|
| `ReadersWriter` | what the lock promises | sets of readers and at most one writer |
| `DbLock` | `Db`'s locks and open loop | one `pc` per thread; a step per critical section; the mutex is held across the open and close of a read-write database only |
| `ActionManager` | `ActionManager`, one action queue, worker, emitter, with the database lock as guards | `gpc` the GUI thread's step, `wpc` the worker's; the queues by name |
| `QueueFacts` | lemmas on sequences, ranks, least elements and recursive functions that several proof modules share | - |
| `QueryLoader` | one thread list, its loader, the dispatchers' pipe, the worker and a poll as sources of changes | `lpc`, `gpc`; rows carry the value they show |
| `Poll` | `Poll`, the script and its process id | revisions of the database; `lastmod` of each thread |
| `TagActions` | tag, toggle and diff actions on threads and messages, and the refreshes of polls | tags in the database and in each item, and which of a thread item's are out of order |
| `SendMessage` | attempts to send a message and the page | `spc` the send thread's step, `sendmail` the process |
| `ThreadPage` | `ThreadView`, `PageClient` and the web extension | `todo` the calls left of the handler that runs, `requests` and `acks` the socket, `ext_focus`, `drawn`, ... the extension's page |
| `Windows` | a `MainWindow` with its pages, panes, bar and questions | the record `win`: pages, `current`, the stack of grabs |
| `Keybindings` | `Keybindings` from an empty file to the last command registered, and a key | the map, aliases by the key they point to |
| `SavedSearches` | runs of the program, its file and one page | `rows` with the time they were counted, `reloads` the emissions of `m_reload` in the pipe |
| `ThreadList` | the list of a `ThreadIndex` and the view in its pane | rows, items, filter, cursor, open command |
| `Compose` | `EditMessage` with an external editor | the file, fields, switches and preview as numbered texts |
| `CommandBar` | the keys of the entry | a text, character by character where the code looks at characters, and a position |
| `ChildPipes` | `Cmd::pipe` and the markdown processor | what is in each pipe |
| `DbLock_proofs`, `ActionManager_proofs`, `QueryLoader_proofs`, `TagActions_proofs`, `SendMessage_proofs`, `ThreadPage_proofs` | theorems about one module each | - |
| `Interface_proofs` | theorems about `SavedSearches`, `Windows`, `Keybindings`, `Compose`, `ThreadList` and `Poll` | - |
| `MC*` | instances for TLC; `MCInterface` has a variable `part` that says which of the eight modules of the interface a behaviour is of | - |

`DbLock` refines `ReadersWriter` (`Abstract == INSTANCE ReadersWriter WITH ...`,
readers and writers read off `pc`). Elsewhere the lock appears as
`ReadersWriter` promises it: `ActionManager` takes its steps from an instance of
it with the GUI, the worker and a loader as threads; `QueryLoader` reads a snapshot for
as long as its database is open. `TagActions` in turn takes the queues of
`ActionManager` as steps that take one action whole.

Conventions. What a thread does in one critical section, or on the GUI thread
from one callback to its return if it neither waits nor opens the database, is
one action. Payloads are model values. Names such as `...Silent`, `...Leak`
after "Bug variant:" are changes of the definition below them, each of them a
bug the code might have; the properties are tested against them and the
specification never uses them.

Abstractions that matter, module by module:

- `DbLock`: waiting is counted by `time`, in the code's own units, to be able
  to say what the time-out does. The database opened by another program is a
  Boolean. Opens of both kinds are tried again after a Xapian exception until the time is
  over (if they are to block); any other failure gives the lock back and throws at once.
- `ActionManager`: an action is a model value; what `doit` and `undo` have done
  is the set `applied`, what has been queued so far is `requested` (each action is
  queued by `doit` once, which bounds the run), and what views have been told
  is `shown`.
- `QueryLoader`: a thread's content is one value, a query a set of values.
  The loader's database is a snapshot. Sorting and the cursor are left out.
- `Poll`: when polls are requested is left to chance, at most once a revision
  where it would not change anything. Process ids are from a small set, so
  that they are used again.
- `TagActions`: the worker does one action in one step, also when notmuch
  fails halfway. Tags are numbers in the order the code sorts them; of the vector of a thread item
  the model keeps the set and, in `disorder`, the pairs of tags that stand the wrong way round, by which
  `set_intersection` and `set_difference` (`Found`) may miss a tag; items are sorted again when they are refreshed.
  A poll tells of what changed since its start (`unannounced`); what others change outside a poll, or before
  the next one starts with the refresh still waiting, is `missed`. For the properties an action remembers the database
  before and after it, what its items showed, and whether they told the truth then.
- `SendMessage`: what the thread does under `send_cancel_m` up to its next
  wait is one step, as `cancel_sending` takes the mutex first. A second counts
  as one step. After the object has been freed the thread goes on as if it
  were still there, the mildest of the outcomes undefined behaviour can have;
  `FreedOnlyIfDetached` says when this is.
- `ThreadPage`: a handler of the program is a list of calls, and other events wait for
  its end, as the GUI thread does. What is in view is any set of messages. Elements
  are those of the constants; HTML is not modelled.
- `Windows`: of a page only what it does with keys, grabs and questions.
  Pages are opened from a list, from elsewhere, or by `mailto:` from the command line.
- `Keybindings`: freed memory that an alias points to is a value of its own.
- `SavedSearches`: counts are the time of counting (`mail`); one page. Between an emission of `m_reload` and its dispatch
  keys and answers work on the rows of before.
- `ThreadList`: one tag, which is what the filter looks for; sorting and the
  batches of the loader are in `QueryLoader`.
- `Compose`: texts are numbers in the order they were written; a file that is not written to
  its end is text 0. The editor may name any account, or an address that is of none. Sending takes what is shown and ends some time; its threads
  are in `SendMessage`.
- `CommandBar`: no selection, and no `tag:` within a search.
- `ChildPipes`: bytes are counted, not told apart.

The modules of the interface share the GUI thread and little state; what one
gets from another (a thread that changes, a page that is closed, a message that
was sent) is an input of any kind in it. So they are not composed, and one run
checks them all, each for itself.

## 3. Runs

All finish in three minutes or less on two cores. "States" are distinct states.

| run | question | bounds | states |
|---|---|---|---|
| `DbLock` | is it a readers-writer lock, are writers woken, do waits end | 3 threads of which 2 write | 37 k |
| `DbLock_timeout` | does opening wait as long as the constant says (no) | one writer | - |
| `ActionManager` | are actions done, undone and announced; can the GUI hang | 3 actions, one without undo | 203 k |
| `ActionManager_close` | does close finish what was queued (no) | same | - |
| `QueryLoader` | does the list end up right | 2 threads of mail, 2 values, 2 queries, 2 changes, 1 reload | 627 k |
| `QueryLoader_deferral` | are changes put off while the list loads (no) | 1 query, 1 change | - |
| `Poll` | one poll at a time, changes announced, cancel safe | 2 threads of mail, 2 pids, 4 revisions, 3 signals in the pipe | 159 k |
| `Poll_refresh` | are all changes of a poll announced (no) | 1 pid | - |
| `TagActions` | do items follow the database, does undo restore | 1 thread with 2 messages, 2 tags, 2 actions or polls, 1 failure or foreign change | 418 k |
| `TagActions_toggle` | is undo of a toggle the toggle (no, for messages) | 1 request | - |
| `SendMessage` | sent once, cancel in time, page told, recorded | 2 attempts, a delay of 1 | 53 k |
| `Interface` | each part of the interface; see below | see below | 789 k |

Why these are enough:

- `DbLock`: readers differ only in number, so one reader and two writers meet
  in every order (two writers need each other's mutex, one reader keeps both
  out); proofs cover any number of threads.
- `ActionManager`: undo and the emitter look at the ends of queues, so three
  actions give a first, a middle and a last; one is queued with
  `in_undo`-less `doit (a, false)`. Proofs cover any set of actions.
- `QueryLoader`: a batch of 2 (100 in the code) is reached with 2 threads; one
  change before, during or after the load and a second to hit the window left
  by the first; one reload or new query brings a second load. The list of
  changes is never longer than the changes, which `Settles` needs.
- `Poll`: a revision for the change of each of two polls, one for another
  program and one to start from. `MaxPipe` caps the dispatchers' pipe: two
  signals of a poll that ended and one of the next.
- `TagActions`: what is wrong with undo needs two actions on overlapping
  items; a thread with two messages is needed for halfway failures, and two tags for a vector that is
  not sorted: with the higher one there, appending the lower makes the next diff misread it. A poll and one change
  by another program give all orders of the change, the start, the end and the refresh.
- `SendMessage`: sending twice needs two attempts; a delay of one second has a
  wait to cancel in and an end to miss.
- `Interface`, page: two messages, one with two alternative parts and an
  attachment, one a draft that may vanish; two events after the thread has
  been loaded, or a load and one. Windows: three pages, one of them a list with a
  pane, each opened and closed once. Keys: three commands, one with two
  aliases and one without a default key, three lines in the user's file: enough for one binding
  to take a key that an alias points to and for another to take that of the first.
  Searches: one line of history stored and shown, two searches or saves, two emissions of `m_reload` in the pipe. List: two
  threads, both in the query at first and one of them unread, two changes, two threads opened in one pane. Compose: two accounts that differ in all
  switches, one save of the editor beyond the first text, two changes in the
  page. Command bar: texts of five characters of three kinds, one tag. Child: pipes that hold one, three of input.

`CHECK_DEADLOCK FALSE` is set where the program may stop: a closed list
(`QueryLoader`), a user who asks for nothing more (`TagActions`), a page that
is gone (`SendMessage`), and most parts of `Interface`, whose bounds end them.

### The properties

- **DbLock.** `NoLostWakeup`: a sleeping writer has a reader
  to wait for or has been notified. `ImplementsReadersWriter`. `NoStuckWait`: nobody
  waits for ever unless others keep opening the database.
- **ActionManager.** `QueuesMatchDb`: an action waits to be undone iff its
  effect is in the database and to be done iff it is not, an undo asked
  for stays pending until the effect is gone, and `doneactions` holds what can
  be undone, once. `EmitterFindsAction`: the unlocked look at `toemit` is never
  wrong when the emitter takes the front.
  `QuietViewsCorrect`: with empty queues, views show what is applied.
  `GuiReturns`, `ActionsGetDone`: the GUI comes back; actions get done.
- **QueryLoader.** `QuietListCorrect`: when nothing moves, the list shows the
  database, but for threads whose change hit the window of the finding.
  `RowsMatchQuery`: no rows of another query. `GuiReturns`, `Settles`.
- **Poll.** `SpinnerRight`. `ChangesAnnounced`: no change of a poll
  is missed but for an overwritten revision, and the end of an external poll announces
  all since its start. `CancelHitsScript`: during a poll, cancel kills the script and nothing else.
  `ScriptChangesShown`.
- **TagActions.** `ItemsTrail`: an item is right, or a signal is coming, or another program changed it where no poll looks.
  `WorkerKeepsCopy`: the worker keeps the copies of thread items right that
  queued actions decide by. `UndoRestores`: undo gives the tags back, but for toggles of messages and for diffs that added
  what was there, misreading an unsorted copy (`AddsNew`). `ItemsCatchUp`: in the end all items show what notmuch
  has, but for those missed and for what a script that never ends has changed.
- **SendMessage.** `NeverTwice`, `CancelInDelayWorks`, `FreedOnlyIfDetached`;
  `OutcomesAgree`: what the page says of a message is what became of it, and its draft
  is there unless it was sent; `SendingEnds`, `DeliveredIsRecorded`.
- **ThreadPage.** `AckAccounting`: whoever waits for a reply will get one, and only
  messages without content leave replies over. `PageShowsState`: when quiet, page and program
  agree on focus, what is hidden, marks, tags and alternative parts. `PageBeforeContent`.
  `ReadHasFocus`: what is marked as read is in focus. `RenderedAtLast`: in
  whatever order page, extension and threads come.
- **Windows.** `KeysReachPage`: the grab is of the page shown. `AskerAlive`: closures are of open pages.
- **Keybindings.** `KeysRunTheirCommand`: every key the file gives to a command, on its first line or a further one, runs it, as
  every key of a hook runs a hook, and each key runs the command it is listed under. Excepted are three cases of section 6.
- **SavedSearches.** `StatsFresh`: the rows of a page are of the file and the history of now or a reload is coming; their counts are of now, or
  the page has noted that it has to count.
- **ThreadList.** `ListActsOnView`: commands go to what is shown, or to what
  they were opened for, and the pane follows the cursor.
- **Compose.** `ComposeKeepsText`: back from the editor the page shows what was
  saved last, with the receivers and account of the file, whoever the editor named; what is shown is sent; a page that goes leaves the message sent, kept or given up.
  It does not speak of what the code loses: a text the page overwrote before it was read, a page that goes with the window,
  a draft that could not be encrypted or signed.
- **CommandBar.** `BarKeepsInput`. **ChildPipes.** `PipeReturns`: the GUI thread gets out, provided the output fits.

Where the code falls short, a property names exactly the case: what it leaves out is what
section 6 lists. Each property has a mutant in `PROJECT.json`: a bug of the
mapped code with which the same run fails. The type invariants are not among the properties
of the runs: those of the first six modules, with `Exclusion`, `CountExact`, `EmissionUnderway`,
`OnePollAtATime`, are proved (those of the interface are
definitions that document the values; the proofs have types of their own).

## 4. Fairness

Weak fairness only, of the steps of running threads: an operating system runs
every thread that can run, and the main loop dispatches what is in its pipes.
Users, other programs and requests to poll have none. Beyond that:

- `DbLock`: no fairness between threads that compete for the lock. The code
  has none, so `NoStuckWait` excuses a writer while others keep opening.
- `ActionManager`: loaders close what they opened (`LoaderClose`); they need
  not open.
- `Poll`: the script ends only if it does; when it has, its child watch runs.
- `SendMessage`: `sendmail` ends. The code waits for it without limit and
  blocks the page meanwhile, so this is an assumption about `sendmail`.
- `TagActions`: the main loop dispatches the refresh of a poll that has ended (`PollTells`), worker and emitter go on. Nothing makes polls start or
  their scripts end, and a change that no poll looks at stays unannounced.
- `Interface`: WebKit loads the page and the extension connects, each handles
  what comes on the socket, and idle callbacks run; both ends of the pipes of a child go on.
  No fairness of users, editors and the query loader.

## 5. Proofs

`tlapm` checks every theorem for all values of the constants that satisfy the
assumptions in the modules (`ThreadAssumption`, `SendAssumption` and so on:
ranges of parameters, and model values that differ from each other).

- **`DbLock_proofs`**: `TypeCorrect`, `ExclusionHolds`, `CountIsExact`,
  `WakeupsKept`, `Implements`. `IInv` adds to the properties `MutexOwner`, by
  which holding the mutex and having a read-write database are the same, and
  `NoReaderWithWriter`: exclusion alone is not inductive, as the release of a
  reader says nothing of the count. Steps move one thread between two program
  points, so lemmas say what a move does to the sets of readers and writers and
  their cardinality. `Implements` maps each step to a step of `ReadersWriter` or a stutter.
- **`ActionManager_proofs`**: `TypeCorrect`, `EmitterSafe`, `EmissionNotLost`
  (together as `EmitInv`), `PendingCorrect`, `DoneCorrect`, `QueuesCorrect` (as `UndoInv`, with
  `WaitsOnce`: no action is in two places, and `OnlyRequested`: only requested
  actions are anywhere). The queues are sequences without repetition;
  `QueueFacts` has what appending, taking the front or the back do to their sets.
  `ViewsCorrect` is of a state where nothing moves, so it needs what holds on the way there:
  `ShownTrails`, until shutdown a view that is wrong about an action has an emission of it to
  come, from `toemit` or from the hands of the emitter. The worker makes a view wrong only
  where it also appends to `toemit`, and the emitter takes an entry off only to announce what is then so.
- **`QueryLoader_proofs`**: `TypeCorrect`, `DeferredKept`, `RowsMatch`, `ListCorrect`. The last
  says that the list is right in the end whatever the order of its loader, the changes, the
  reloads and the dispatchers, but for threads whose change hit the window of finding 3. `ListInv` follows
  each thread on its way: it is in one place at most (yet to be found, waiting to be
  added, in the list); until the loader is through, that place agrees with the loader's snapshot, and
  the snapshot with the database unless a change is still to be told; after that the
  list itself agrees with the database but for such changes. To keep that, the proof needs `LoaderInv`
  (when `run` is set), `DataUnderway` and `DeferredUnderway` (what waits has a signal to come),
  `DeferredReads` (what the deferred update reads is of now) and `AllMatchQuery`, from which `RowsMatch` is.
- **`Interface_proofs`**, polling: `PollTypeCorrect`, `OnePoll`, `SpinnerCorrect`, `ChangesTold`
  (an action property), `CancelCorrect`. `PollInv` adds `PidOfScript` (while a script
  runs the member `pid` is its number) and `NewerThanBefore` (what has not been
  announced was changed after `before_poll_revision`), without which
  `PollChangesTold`, its first half, says nothing of the next refresh.
- **`TagActions_proofs`**: `TypeCorrect`, `ItemsFollow`, `CopyKept`, `UndoBringsBack`. `ItemsTrail`
  is inductive with the type invariant; what has to be shown is that the items
  a signal refreshes include all those a change to one of them makes wrong.
  `UndoBringsBack` needs to know what an action in the queues is: `UndoInv` says of each that it was made
  from the tags its items had (`Made`: unless a diff was misled by the order of the copy (`AddsNew`), it adds what they did not have; it removes what they had), and of one that was done on
  items that showed the truth, with no failure, that it did just that to their messages (`Did`). That undoing it brings
  the tags back is then a fact about sets (`Flip` for a toggle), message by message. TLC had found
  `UndoInv` to hold in the run's 417,935 states.
- **`SendMessage_proofs`**: `TypeCorrect`, `SentOnce`, `CancelWorks`, `Freed`,
  `OutcomesAgreed`. That nothing is sent twice needs the page and the
  threads at once. `SendInv` has `ThreadInv`, what `sendmail` and the report can
  be at each step of a send thread; `LastInv`, only the last attempt can be
  under way or have succeeded; and `PageInv`, the page asks to send only when
  it is not sending and nothing was sent.

- **`ThreadPage_proofs`**: `AcksCounted`, `PageFirst`, `PageShows`, `ReadIsFocused`. The first is the count of
  what is on the socket against whether the program waits, by one lemma for each end of it. `PageFirst` is not inductive, as it
  says nothing before the first message: `AfterBoth` (nothing is called, sent or
  drawn until the page is loaded and the extension connected) and `PageComes` (from then on the
  extension has been told, or will be before anything else) are.
  The other two are from one invariant, `ViewInv`. Two processes hold the page, and the program
  changes its half before it tells the other, one request at a time. So the invariant
  looks at the end of it: `Leads` says what page the requests on their way will make (`After`, one
  at a time) of the page there is, and `ShowsRight` that this is what the program has, but for
  what a call that is still to be sent says (`ToCome`). `Wire` is of the focus: the
  request on its way is of the call that waits, and the reply at hand has the focus of now; it
  needs that no replies are left over (`synced`). `Stage` is where the program is
  (`Resting`, `SetsUp`, `Clearing`, `Drawing`, `Finishing`, `Steady`), which calls are left then and what the focus can
  be: there is none until all is drawn, and in `Steady` it is of the page and on something that can have
  it. The lemmas say of each handler which calls it leaves, of each request what the extension makes of
  it, and of the loops over messages and parts what they find. TLC had found `ViewInv` to hold in the
  3,209,433 states of a page with four events. Before the proof the messages were sorted by a fold; `ByThread` gives their
  order by ranks now.
- **`Interface_proofs`**, searches: `StatsAreFresh`, with `OnlyOpen` (what is
  there only while the program runs and the page is open), by what listing and counting do to a list of rows. Between an emission and its dispatch
  the invariant says nothing of the rows but that they were counted; the dispatch lists them anew.
- **`Interface_proofs`**, window: `AskersAlive`, `KeysReach`. For the first: the callback of a command is open as long as no page can
  be closed under it, which is so because keys go to the bar. So `WinInv` needs the
  grabs: `GrabsOK`, the stack has each widget once and none of a page that was closed, and `BarOK`, during a command the bar has
  the last grab and the window's page, being inactive, does not get one when the focus returns; with these
  `AskerOpen` and `TerminalAlone`, nothing asks under the terminal. TLC had found `WinInv` to hold in
  all 54,795 states of the window on the instance of `Interface` before it was proved.
  `KeysReach` needs what the order of the grabs can be. `ReachInv` says of a calm window (no more than
  one page has left grabs behind, no mailto came into a command): each grab is of that one page (`stray`), of the bar or the
  terminal, or of the page shown (`ShownGrabs`); if `current` is one too high the page shown is the one
  that left grabs (`LeftOver`), so that giving the keys back to a page that is not there leaves them where
  they are; and when nobody but the pages has the keys, the last grab is the shown page's or all are its (`Held`).
  The lemmas say what `set_active`, `add_mode`, `del_pane` and `del_mode` do to that; quitting is a
  recursive function over the pages. TLC had found it to hold in the 4,127,614 states of a window with four pages too.
- **`Interface_proofs`**, keys: `KeysRunTheirs`, for any file, any defaults and aliases and any order of registration.
  `KeysInv` has `TableOK`, what is true of each entry of the map: one of the user's file is under a key of the file,
  and has a function or points to an entry of the file that has; a default one is of a
  command that is not in the file, and without a way to a function only if the file took that command's
  key. A registration is a recursive function over the bindings of a command; each of its steps keeps `TableOK`
  and every entry of the file. `OrderInv` is of the order of registration: what is left to register is the end of the list (`InOrder`), the
  default entries in the map are of commands before it (`FromCode`), and every line of the commands registered so far is served, or is a further
  one that met such a default key (`LinesServed`, `HooksServed`). A line stays served since no later step takes an entry of the file away.
  The library's induction theorems cannot be used, so `QueueFacts` has induction for a given set (`StepByStep`,
  from the least element of a set of numbers) and from it `RecursionExists`: a function that is defined by
  recursion over an interval is what its definition says. Before the proof the lines of a command were a filtered sequence,
  which the provers cannot look into; they are a set of line numbers now.

- **`Interface_proofs`**, composing: `TextKept`. `ComposeInv` says what the file, the fields and the preview have to do with each
  other: the preview is always made of the fields and switches of now (`ShownMade`); on an open page the fields are those
  of the file unless an editor has it (`FileRead` in `OpenOK`), and what was written last is in the file while the editor
  has it and in the fields after (`TextThere`), but where that was overwritten unread (`overtaken`); a page that is gone was closed by force, sent its message,
  or left nothing open (`GoneOK`). Nothing in it is about which account the editor names. TLC had found it to hold in 369,194 states.
- **`Interface_proofs`**, list: `ActsOnView`. `ListInv` has the types, `RowsIndexed` and `FilteredMatch` (the
  filter shows the rows that match by what it read when it first asked them, so a row stays as long as nobody replaces it), `PaneHasCursor`
  (while the pane has a thread it is connected, and the cursor is on a row that is shown), and that only a list that had become empty told
  the pane to load no thread. The lemmas are about the view as a sequence: the rows that a set keeps, by their ranks
  (`Ranks`, `RowsInFacts`), what path and cursor find in it, and that a row that is shown stays so when others come and go. The view was a
  filtered sequence, which the provers cannot look into; it is given by the ranks now (`RowsIn`). TLC had found `ListInv` to hold in 214,242
  states with two threads and 1.9 million with three.

Model-checked only: liveness (out of the prover's reach), and of the safety properties
`BarKeepsInput`, about a text and its completions, which are folds over characters.

## 6. What the code does that it says it does not

Each of the first five has a run that shows it.

1. `db.cc:146`: the open loop counts milliseconds and stops at 120; `db.hh:199`
   says seconds. A second program that writes for a fifth of a second makes
   the open fail.
2. `action_manager.cc:26`: close can drop queued actions.
3. `query_loader.cc:182`, `260`: a change that comes as the loader ends is not put off, though the row
   that the loader read of its thread still waits for the list. A row is prepended at once and the waiting one appended
   later, so that the thread is listed twice; the waiting row is even an old one if another program made the change
   after the loader had read the thread, and a poll told of it.
4. `poll.cc:152`, `253`: a poll that starts before the refresh of the last one
   makes that one miss changes. Changes from outside any poll are found by no poll
   at all (a poll looks back to its own start only).
5. `toggle_action.cc:33`: undoing a toggle of a message toggles nothing back.

Seen while modelling, without a run of its own: with no statement in the
repository to set against it, or as a case that a property of section 3 excepts:

- `action_manager.cc:118`: while the worker has the last action in hand, undo
  takes the one before it.
- `poll.cc:249`: `pid = 0` sets the parameter, not the member; `poll.hh`'s `pid` has
  no first value. `cancel_poll` outside a poll may kill another process
  (`CancelHitsScript` is about the time of a poll).
- `query_loader.cc:89`: `query` is written while the loader may read it.
- `compose_message.hh:97`: `pid` has no first value, and a cancel in the delay
  kills what it names. `compose_message.cc:498`, `545`, `630`: after telling
  the page the thread still writes to its object, which after a cancel may be
  gone. A cancel between the delay and the return of spawn has no effect,
  though the page says "Press C-c to cancel!".
- `main_window.cc:633`: quitting joins the send thread, with the window
  frozen, and then drops its report: the sent message is not recorded and
  its draft stays. It also skips `EditMessage::close`, so
  `save_draft_on_force_quit` does not apply.
- `edit_message.cc:484`: `s` after the message was sent saves it as a draft.
- **Thread page.** `tvextension.cc:846`, `1618`: a message without content is acknowledged twice, after
  which every reply is taken for that of the request before it.
  `thread_view.cc`: a message redrawn with another part loses its mark and warnings; if a thread is loaded between
  `extension_connect` and the idle `on_ready_to_render`, it is drawn before `Page`;
  `focus_time` is never set, so `mark_unread_delay` has no effect; the focus that comes
  with the reply to a collapse is checked for "read" while the message still counts as expanded;
  `MESSAGE_REMOVED` is never emitted, and a message deleted by another program stays in the page.
- **Windows.** `main_window.cc:800`: after page 0 was closed `current` is one too high, and a grab is left
  behind. `thread_index.cc:255`: opening a thread beside a list takes a second grab and leaves the list's;
  `thread_index.cc:249`: it connects `on_index_action` once more each time, so
  that with the second thread opened in a pane "next" moves by two. `astroid.cc:577`: `mailto:` during a command takes the keys from
  it. The callback of a command is kept after Escape.
- **Key bindings.** `keybindings.cc:490`: the aliases of a command whose default key the
  user gave to another point to freed memory, to the wrong command, or have no function;
  `506`: a further key of the user's file that was a default one of another command is taken from that and given to
  nobody (`k` is inserted instead of `ka`), though the comment in line 39 allows several lines for a command.
- **Tag diffs.** `db.cc:761`: `NotmuchThread::add_tag` appends to the sorted vector of tags. Until the item is refreshed `difftag_action.cc:70`
  runs `set_intersection` and `set_difference` on it, which need sorted ranges: a tag that is there may be recorded as
  added, so that undo removes it, and one that is to be removed may be skipped.
- **Saved searches.** `saved_searches.cc:178`, `211`, `665`: until `m_reload` is dispatched, keys and answers go by rows that are no longer those of
  the file. `saved_searches.cc:707`: with more history than is to be
  stored the newest lines are erased; `astroid.cc:300`: if the database does not open, an empty
  history is written over the stored one; `saved_searches.cc:144`: the closure
  uses a variable of a function that has returned; the first saved query of the same text
  is deleted, whichever row was meant.
- **Thread list.** `db.cc:844`: `matches` keeps the text it first made, so that a filter goes by
  old tags. `thread_index.cc:269`: with a list that became empty on display and
  filled again there is no cursor, and "next" in the pane loads a null thread.
  `thread_index_list_view.cc:965`: tags that arrive while they are edited are removed.
- **Composing.** `edit_message.cc:829`, `736`, `1372`: switches, the choice of From and a
  dialog for attachments that was open overwrite the file while the editor has it; a close by
  force, or a draft deleted, while the editor runs leaves its callbacks with a freed page, and so does
  a dialog that is open when the message is sent and the page closes.
  `edit_message.cc:653`: a failed encryption is not looked at when a draft is saved, which is then
  without body. A file seen half-written resets From and the switches; when it is read whole, From is that of the file again but
  signing, encryption and signature stay as the reset left them. An unknown From becomes the default account.
- **Command bar.** `command_bar.cc:335`: Up with an empty text, twice, then Down gives a line of
  history. `272`: Left on an empty entry of tags wraps the position and reads out of bounds.
  `425`: Tab in a text search or filter after a search of mail calls a function that throws,
  and nobody catches. Completing the first tag of "+a -b" joins it with the next.
- **External filters.** `cmd.cc:115`, `compose_message.cc:203`: with more output than a
  pipe holds the child and the GUI thread wait for one another for ever; a child
  that ends early makes the write throw; its exit status is not looked at.

## 7. What is not modelled

- Undefined behaviour of data races beyond what is named above: the tags of a
  `NotmuchThread` (which the GUI thread loads and sorts while the worker appends to them) and the loader's query are read in one step.
- A `Db` constructor that throws on the worker or the loader thread ends the
  program.
- Messages and threads that disappear from notmuch while actions on them wait
  (`db.cc:491`); `ThreadPage` has those that disappear while they are on display.
- The limit of the dispatchers' pipes, but in `Poll` and `QueryLoader`.
- Several windows at once, several pages of one kind, and the thread views in
  tabs of their own, which are connected to the list they were opened from too.
- Of a thread view, siblings of a part that are multiparts or attachments: `Alternatives` are
  parts with an element of their own. `toggle_part` (`page_client.cc:341`) looks up an element for each
  sibling, which those need not have (`page_client.cc:734`, `821`).
- The embedded editor; attachments, searches and printing of a thread view; a web process that crashes.
- A draft file that another program renames.
- Text: parsing, rendering, quoting, formatting; notmuch, GMime, GTK and WebKit.
- Code that runs once at start, and the unit-tested utilities.

## 8. Plan

Done: all modules of section 2 and the proofs of section 5. In order:

1. Proofs: `BarKeepsInput`.
2. Composition: `SendMessage` under `Compose`, with the dialogs' own main loops; `ActionManager` with
   `TagActions`' actions as a refinement of the action queue.
3. The rest of the thread view: attachments that are opened and saved, commands on marked messages.
4. Messages that are deleted while actions wait for them, in `TagActions`.
