-------------------------- MODULE TagActions_proofs --------------------------
(***************************************************************************)
(* Proofs about TagActions, for any threads, messages and tags: an item on *)
(* display is right or about to be refreshed, the worker keeps the copy of *)
(* tags that thread items decide by, and undoing an action brings back the *)
(* tags it found.                                                          *)
(***************************************************************************)
EXTENDS TagActions, QueueFacts, TLAPS

\* The inductive invariant.
TagInv == TypeOK /\ ItemsTrail

-----------------------------------------------------------------------------
LEMMA ItemFacts ==
  /\ \A i \in Item : MessagesOf(i) \subseteq Message /\ MessagesOf(i) # {}
  /\ \A i \in Item : Refreshed(i) \subseteq Item /\ i \in Refreshed(i)
  /\ \A i, j \in Item :
       MessagesOf(i) \cap MessagesOf(j) # {} => i \in Refreshed(j)
BY TagAssumption DEF Item, MessagesOf, Refreshed

LEMMA AllRefreshedFacts ==
  /\ \A T \in SUBSET Thread : AllRefreshed(T) \in SUBSET Item
  /\ \A t \in Thread : AllRefreshed({t}) = Refreshed(t)
  /\ \A T, U : AllRefreshed(T \cup U) = AllRefreshed(T) \cup AllRefreshed(U)
BY ItemFacts DEF AllRefreshed, Item

LEMMA SeenType ==
  ASSUME NEW d \in [Message -> SUBSET Tag], NEW i \in Item
  PROVE  Seen(d, i) \subseteq Tag
BY ItemFacts DEF Seen

\* What an item sees depends on its own messages only.
LEMMA SeenOwn ==
  ASSUME NEW d \in [Message -> SUBSET Tag], NEW e \in [Message -> SUBSET Tag],
         NEW i \in Item, \A m \in MessagesOf(i) : d[m] = e[m]
  PROVE  Seen(d, i) = Seen(e, i)
BY DEF Seen

\* Performing an action changes tags to tags.
LEMMA PerformType ==
  ASSUME TypeOK, NEW a \in ActionRecord, NEW bad, NEW first, Perform(a, bad, first)
  PROVE  /\ db' \in [Message -> SUBSET Tag] /\ tags' \in [Item -> SUBSET Tag]
         /\ disorder' \in [Thread -> SUBSET (Tag \X Tag)]
<1>1. \A i \in a.on : AddTag(a, i) \subseteq Tag /\ RemoveTag(a, i) \subseteq Tag
  BY DEF ActionRecord, AddTag, RemoveTag, Adds, Removes, Item
<1>2. /\ db \in [Message -> SUBSET Tag] /\ tags \in [Item -> SUBSET Tag]
      /\ disorder \in [Thread -> SUBSET (Tag \X Tag)] /\ Thread \subseteq Item
  BY DEF TypeOK, Item
<1> DEFINE good(i) == {g \in Tag : <<i, g>> # bad}
           new(i) == IF i \in a.on THEN AddTag(a, i) \cap good(i) ELSE {}
           gone(i) == IF i \in a.on THEN RemoveTag(a, i) \cap good(i) ELSE {}
<1>3. \A i \in Item : new(i) \subseteq Tag
  OBVIOUS
<1>4. /\ tags' = [i \in Item |->
           IF i \in Thread THEN (tags[i] \cup new(i)) \ gone(i) ELSE tags[i]]
      /\ disorder' = [t \in Thread |->
           {p \in disorder[t] \cup {q \in tags[t] \X new(t) : q[2] < q[1]} :
              p[1] \notin gone(t) /\ p[2] \notin gone(t)}]
  BY DEF Perform
<1> HIDE DEF new, gone
<1>5. disorder' \in [Thread -> SUBSET (Tag \X Tag)]
  <2>1. ASSUME NEW t \in Thread
        PROVE  disorder[t] \cup {q \in tags[t] \X new(t) : q[2] < q[1]} \subseteq Tag \X Tag
    <3>1. t \in Item /\ tags[t] \subseteq Tag /\ new(t) \subseteq Tag /\ disorder[t] \subseteq Tag \X Tag
      BY <1>2, <1>3
    <3>2. QED
      BY <3>1
  <2>2. QED
    BY <1>4, <2>1
<1>6. tags' \in [Item -> SUBSET Tag]
  BY <1>2, <1>3, <1>4
<1>7. db' \in [Message -> SUBSET Tag]
  BY <1>1, <1>2 DEF Perform
<1>8. QED
  BY <1>5, <1>6, <1>7

\* It changes nothing of an item that its emission does not refresh.
LEMMA PerformElsewhere ==
  ASSUME TypeOK, NEW a \in ActionRecord, NEW bad, NEW first, Perform(a, bad, first),
         NEW i \in Item, \A j \in a.on : i \notin Refreshed(j)
  PROVE  tags'[i] = tags[i] /\ Seen(db', i) = Seen(db, i)
<1>1. a.on \subseteq Item
  BY DEF ActionRecord, Item
<1>2. i \notin a.on
  BY <1>1, ItemFacts
<1>3. \A m \in MessagesOf(i) : \A j \in a.on : m \notin MessagesOf(j)
  BY <1>1, ItemFacts
<1>4. \A m \in MessagesOf(i) : {j \in a.on : m \in MessagesOf(j)} = {}
  BY <1>3
<1>5. ASSUME NEW m \in MessagesOf(i) PROVE m \in Message /\ db'[m] = db[m]
  <2>1. m \in Message
    BY ItemFacts
  <2> DEFINE on == {j \in a.on : m \in MessagesOf(j)}
  <2>2. on = {}
    BY <1>4
  <2>3. db'[m] = (db[m] \cup UNION {{g \in AddTag(a, j) : m \in Reached(j, g, bad, first)} : j \in on})
                   \ UNION {{g \in RemoveTag(a, j) : m \in Reached(j, g, bad, first)} : j \in on}
    BY <2>1 DEF Perform
  <2> HIDE DEF on
  <2>4. QED
    BY <2>1, <2>2, <2>3
<1>6. Seen(db', i) = Seen(db, i)
  <2>1. db \in [Message -> SUBSET Tag] /\ db' \in [Message -> SUBSET Tag]
    BY PerformType DEF TypeOK
  <2>2. QED
    BY <1>5, <2>1, SeenOwn
<1>7. tags'[i] = tags[i]
  BY <1>2 DEF Perform
<1>8. QED
  BY <1>6, <1>7

-----------------------------------------------------------------------------
LEMMA InitTagInv == Init => TagInv
<1> SUFFICES ASSUME Init PROVE TagInv
  OBVIOUS
<1>1. tags \in [Item -> SUBSET Tag] /\ \A i \in Item : Shows(i)
  BY SeenType DEF Init, Shows
<1>2. /\ actions \in Seq(ActionRecord) /\ doneactions \in Seq(ActionRecord)
      /\ toemit \in Seq(SUBSET Item)
      /\ disorder \in [Thread -> SUBSET (Tag \X Tag)]
  BY DEF Init
<1>3. TypeOK
  <2>1. /\ db \in [Message -> SUBSET Tag]
        /\ polling \in BOOLEAN
        /\ unannounced \subseteq Thread /\ missed \subseteq Item
        /\ unannounced = {}
    BY DEF Init
  <2>2. requests \in 0 .. MaxRequests /\ troubles \in 0 .. MaxTroubles /\ refreshes \in 0 .. MaxRefreshes
    BY TagAssumption DEF Init
  <2>3. QED
    BY <1>1, <1>2, <2>1, <2>2 DEF TypeOK
<1>4. QED
  BY <1>1, <1>3 DEF TagInv, ItemsTrail

LEMMA DoitTagInv ==
  ASSUME TagInv, NEW a \in ActionRecord, Doit(a),
         disorder' \in [Thread -> SUBSET (Tag \X Tag)]
  PROVE  TagInv'
<1>1. actions' \in Seq(ActionRecord)
  BY AppendFacts DEF TagInv, TypeOK, Doit
<1>2. TypeOK'
  BY <1>1, TagAssumption DEF TagInv, TypeOK, Doit, polls
<1>3. ItemsTrail'
  BY DEF TagInv, Doit, ItemsTrail, Shows, Coming, polls
<1>4. QED
  BY <1>2, <1>3 DEF TagInv

\* The actions the user makes are actions.
LEMMA NewActionType ==
  ASSUME TypeOK, NEW kind \in {"tag", "toggle", "diff"},
         NEW on \in (SUBSET Thread) \cup (SUBSET Message),
         NEW add \in [Item -> SUBSET Tag], NEW remove \in [Item -> SUBSET Tag],
         NEW g \in Tag, NEW skip \in BOOLEAN
  PROVE  NewAction(kind, on, add, remove, g, skip) \in ActionRecord
<1> DEFINE seen == [i \in Item |-> IF i \in on THEN tags[i] ELSE {}]
<1>1. seen \in [Item -> SUBSET Tag]
  BY DEF TypeOK
<1>2. [m \in Message |-> {}] \in [Message -> SUBSET Tag]
  OBVIOUS
<1>3. QED
  BY <1>1, <1>2 DEF NewAction, ActionRecord

LEMMA RequestTagInv ==
  TagInv /\ (ToggleTag \/ EditTags \/ DiffTags \/ MarkRead) => TagInv'
<1> SUFFICES ASSUME TagInv, ToggleTag \/ EditTags \/ DiffTags \/ MarkRead
             PROVE  TagInv'
  OBVIOUS
<1>1. /\ TypeOK /\ tags \in [Item -> SUBSET Tag] /\ Unread \in Tag
      /\ disorder \in [Thread -> SUBSET (Tag \X Tag)]
  BY TagAssumption DEF TagInv, TypeOK
<1>2. /\ Nothing \in [Item -> SUBSET Tag]
      /\ \A i \in Item, S \in SUBSET Tag : Only(i, S) \in [Item -> SUBSET Tag]
  BY DEF Nothing, Only
<1>3. CASE ToggleTag
  <2>1. PICK on \in ((SUBSET Thread) \ {{}}) \cup {{m} : m \in Message}, g \in Tag :
          Doit(NewAction("toggle", on, Nothing, Nothing, g, FALSE)) /\ disorder' = disorder
    BY <1>3 DEF ToggleTag
  <2>2. on \in (SUBSET Thread) \cup (SUBSET Message)
    OBVIOUS
  <2>3. QED
    BY <1>1, <1>2, <2>1, <2>2, NewActionType, DoitTagInv
<1>4. CASE EditTags
  <2>1. PICK i \in Item, S \in SUBSET Tag :
          /\ disorder' = [t \in Thread |-> IF t = i THEN {} ELSE disorder[t]]
          /\ \/ Doit(NewAction("tag", {i}, Only(i, S \ tags[i]), Only(i, tags[i] \ S),
                               Unread, FALSE))
             \/ UNCHANGED <<db, tags, queues, polls, counters>>
    BY <1>4 DEF EditTags
  <2>2. disorder' \in [Thread -> SUBSET (Tag \X Tag)]
    BY <1>1, <2>1
  <2>3. CASE UNCHANGED <<db, tags, queues, polls, counters>>
    BY <2>2, <2>3 DEF TagInv, TypeOK, ItemsTrail, Shows, Coming, queues, polls, counters
  <2>4. {i} \in (SUBSET Thread) \cup (SUBSET Message)
    BY DEF Item
  <2>5. Only(i, S \ tags[i]) \in [Item -> SUBSET Tag] /\ Only(i, tags[i] \ S) \in [Item -> SUBSET Tag]
    BY <1>1, <1>2
  <2>6. QED
    BY <1>1, <2>1, <2>4, <2>5, <2>2, <2>3, NewActionType, DoitTagInv
<1>5. CASE DiffTags
  <2>1. PICK on \in ((SUBSET Thread) \cup (SUBSET Message)) \ {{}}, d \in Diff :
          /\ Doit(NewAction("diff", on,
                    [i \in Item |-> IF i \in on THEN d[1] \ Found(i) ELSE {}],
                    [i \in Item |-> IF i \in on THEN d[2] \cap Found(i) ELSE {}],
                    Unread, FALSE))
          /\ disorder' = disorder
    BY <1>5 DEF DiffTags
  <2>2. d[1] \subseteq Tag /\ d[2] \subseteq Tag
    BY TagAssumption
  <2>3. /\ [i \in Item |-> IF i \in on THEN d[1] \ Found(i) ELSE {}] \in [Item -> SUBSET Tag]
        /\ [i \in Item |-> IF i \in on THEN d[2] \cap Found(i) ELSE {}] \in [Item -> SUBSET Tag]
    BY <1>1, <2>2
  <2>4. QED
    BY <1>1, <2>1, <2>3, NewActionType, DoitTagInv
<1>6. CASE MarkRead
  <2>1. PICK m \in Message :
          /\ Doit(NewAction("tag", {m}, Nothing, Only(m, {Unread}), Unread, TRUE))
          /\ disorder' = disorder
    BY <1>6 DEF MarkRead
  <2>2. {m} \in (SUBSET Thread) \cup (SUBSET Message) /\ Only(m, {Unread}) \in [Item -> SUBSET Tag]
    BY <1>1, <1>2 DEF Item
  <2>3. QED
    BY <1>1, <1>2, <2>1, <2>2, NewActionType, DoitTagInv
<1>7. QED
  BY <1>3, <1>4, <1>5, <1>6

LEMMA UndoTagInv == TagInv /\ Undo => TagInv'
<1> SUFFICES ASSUME TagInv, Undo PROVE TagInv'
  OBVIOUS
<1>1. actions \in Seq(ActionRecord) /\ doneactions \in Seq(ActionRecord)
  BY DEF TagInv, TypeOK
<1>2. actions' \in Seq(ActionRecord) /\ doneactions' \in Seq(ActionRecord)
  <2>1. CASE actions # <<>>
    BY <1>1, <2>1, FrontFacts DEF Undo
  <2>2. CASE actions = <<>>
    <3> DEFINE b == [Last(doneactions) EXCEPT !.in_undo = TRUE]
    <3>1. doneactions # <<>> /\ actions' = <<b>> /\ doneactions' = Front(doneactions)
      BY <2>2 DEF Undo
    <3>2. Last(doneactions) \in ActionRecord /\ doneactions' \in Seq(ActionRecord)
      BY <1>1, <3>1, FrontFacts
    <3>3. b \in ActionRecord
      BY <3>2 DEF ActionRecord
    <3> HIDE DEF b
    <3>4. QED
      BY <3>1, <3>2, <3>3
  <2>3. QED
    BY <2>1, <2>2
<1>3. UNCHANGED <<db, copies, toemit, polls, counters>>
  BY DEF Undo
<1>4. TypeOK'
  BY <1>2, <1>3 DEF TagInv, TypeOK, copies, polls, counters
<1>5. ItemsTrail'
  BY <1>3 DEF TagInv, ItemsTrail, Shows, Coming, copies, polls
<1>6. QED
  BY <1>4, <1>5 DEF TagInv

LEMMA WorkerTagInv == TagInv /\ Worker => TagInv'
<1> SUFFICES ASSUME TagInv, Worker PROVE TagInv'
  OBVIOUS
<1> DEFINE a == Head(actions)
<1>1. actions # <<>> /\ actions' = Tail(actions) /\ toemit' = Append(toemit, a.on)
  BY DEF Worker
<1>2. a \in ActionRecord /\ actions' \in Seq(ActionRecord)
  BY <1>1, TailFacts DEF TagInv, TypeOK
<1>3. a.on \in SUBSET Item
  BY <1>2 DEF ActionRecord, Item
<1>4. toemit' \in Seq(SUBSET Item) /\ ToSet(toemit') = ToSet(toemit) \cup {a.on}
  <2> DEFINE on == a.on
  <2>1. toemit \in Seq(SUBSET Item) /\ on \in SUBSET Item /\ toemit' = Append(toemit, on)
    BY <1>1, <1>3 DEF TagInv, TypeOK
  <2> HIDE DEF on
  <2>2. toemit' \in Seq(SUBSET Item) /\ ToSet(toemit') = ToSet(toemit) \cup {on}
    BY <2>1, AppendFacts
  <2>3. QED
    BY <2>2 DEF on
<1>5. PICK bad \in (IF troubles < MaxTroubles THEN a.on \X Tag ELSE {}) \cup {<<>>},
           first \in Message \cup {m + 1 : m \in Message} :
        /\ Perform(a, bad, first)
        /\ troubles' = IF bad = <<>> THEN troubles ELSE troubles + 1
        /\ doneactions' =
             IF a.in_undo \/ a.skip_undo THEN doneactions
             ELSE Append(doneactions, [a EXCEPT !.before = db, !.after = db',
                                                !.plain = Exact(a) /\ bad = <<>>])
  BY DEF Worker
<1> HIDE DEF a
<1>6. /\ db' \in [Message -> SUBSET Tag] /\ tags' \in [Item -> SUBSET Tag]
      /\ disorder' \in [Thread -> SUBSET (Tag \X Tag)]
  BY <1>2, <1>5, PerformType DEF TagInv
<1>7. troubles' \in 0 .. MaxTroubles
  <2>1. troubles \in 0 .. MaxTroubles /\ MaxTroubles \in Nat
    BY TagAssumption DEF TagInv, TypeOK
  <2>2. CASE bad = <<>>
    BY <1>5, <2>1, <2>2
  <2>3. CASE bad # <<>>
    <3>1. troubles < MaxTroubles
      BY <1>5, <2>3
    <3>2. QED
      BY <1>5, <2>1, <2>3, <3>1
  <2>4. QED
    BY <2>2, <2>3
<1>8. doneactions' \in Seq(ActionRecord)
  <2> DEFINE exact == Exact(a) /\ bad = <<>>
             b == [a EXCEPT !.before = db, !.after = db', !.plain = exact]
  <2>1. exact \in BOOLEAN
    BY DEF Exact
  <2>2. db \in [Message -> SUBSET Tag] /\ doneactions \in Seq(ActionRecord)
    BY DEF TagInv, TypeOK
  <2>3. doneactions' = doneactions \/ doneactions' = Append(doneactions, b)
    BY <1>5
  <2> HIDE DEF exact
  <2>4. b \in ActionRecord
    BY <1>2, <1>6, <2>1, <2>2 DEF ActionRecord
  <2> HIDE DEF b
  <2>5. QED
    BY <2>2, <2>3, <2>4, AppendFacts
<1>9. UNCHANGED <<polling, refreshes, unannounced, missed, requests>>
  BY DEF Worker, polls
<1>10. TypeOK'
  BY <1>2, <1>4, <1>6, <1>7, <1>8, <1>9 DEF TagInv, TypeOK
<1>11. ASSUME NEW i \in Item PROVE Shows(i)' \/ Coming(i)' \/ i \in missed'
  <2>1. CASE \E j \in a.on : i \in Refreshed(j)
    BY <1>4, <2>1 DEF Coming
  <2>2. CASE Coming(i)
    BY <1>4, <1>9, <2>2 DEF Coming
  <2>3. CASE Shows(i) /\ \A j \in a.on : i \notin Refreshed(j)
    <3>1. tags'[i] = tags[i] /\ Seen(db', i) = Seen(db, i)
      BY <1>2, <1>5, <2>3, PerformElsewhere DEF TagInv
    <3>2. QED
      BY <2>3, <3>1 DEF Shows
  <2>4. QED
    BY <1>9, <2>1, <2>2, <2>3 DEF TagInv, ItemsTrail
<1>12. QED
  BY <1>10, <1>11 DEF TagInv, ItemsTrail

\* Refreshed items are right, the others are as they were.
LEMMA RefreshEffect ==
  ASSUME TypeOK, NEW S, Refresh(S), db' = db
  PROVE  /\ tags' \in [Item -> SUBSET Tag]
         /\ disorder' \in [Thread -> SUBSET (Tag \X Tag)]
         /\ missed' = missed \ S
         /\ \A i \in Item \cap S : Shows(i)'
         /\ \A i \in Item \ S : Shows(i) => Shows(i)'
BY SeenType DEF TypeOK, Refresh, Shows

LEMMA EmitterTagInv == TagInv /\ Emitter => TagInv'
<1> SUFFICES ASSUME TagInv, Emitter PROVE TagInv'
  OBVIOUS
<1> DEFINE on == Head(toemit)
           S == UNION {Refreshed(i) : i \in on}
<1>1. /\ toemit # <<>> /\ toemit' = Tail(toemit) /\ Refresh(S)
      /\ UNCHANGED <<db, actions, doneactions, polling, refreshes, unannounced, counters>>
  BY DEF Emitter
<1>2. toemit' \in Seq(SUBSET Item) /\ ToSet(toemit) = {on} \cup ToSet(toemit')
  BY <1>1, TailFacts DEF TagInv, TypeOK
<1> HIDE DEF on
<1>3. \A i \in Item : Coming(i) => i \in S \/ Coming(i)'
  BY <1>1, <1>2 DEF Coming
<1> HIDE DEF S
<1>4. /\ tags' \in [Item -> SUBSET Tag]
      /\ disorder' \in [Thread -> SUBSET (Tag \X Tag)] /\ missed' = missed \ S
      /\ \A i \in Item \cap S : Shows(i)'
      /\ \A i \in Item \ S : Shows(i) => Shows(i)'
  BY <1>1, RefreshEffect DEF TagInv
<1>5. TypeOK'
  BY <1>1, <1>2, <1>4 DEF TagInv, TypeOK, counters
<1>6. ItemsTrail'
  BY <1>3, <1>4 DEF TagInv, ItemsTrail
<1>7. QED
  BY <1>5, <1>6 DEF TagInv

LEMMA OtherProgramTagInv == TagInv /\ OtherProgram => TagInv'
<1> SUFFICES ASSUME TagInv, OtherProgram PROVE TagInv'
  OBVIOUS
<1>1. PICK m \in Message, S \in SUBSET Tag :
        /\ db' = [db EXCEPT ![m] = S]
        /\ IF polling \/ refreshes > 0
           THEN unannounced' = unannounced \cup {ThreadOf[m]} /\ missed' = missed
           ELSE missed' = missed \cup {m, ThreadOf[m]} /\ unannounced' = unannounced
  BY DEF OtherProgram
<1>2. /\ UNCHANGED <<copies, queues, polling, refreshes, requests>>
      /\ troubles' = troubles + 1 /\ troubles < MaxTroubles
  BY DEF OtherProgram
<1>3. TypeOK'
  <2>1. db' \in [Message -> SUBSET Tag]
    BY <1>1 DEF TagInv, TypeOK
  <2>2. /\ unannounced' \subseteq Thread /\ missed' \subseteq Item
        /\ unannounced' # {} => polling' \/ refreshes' > 0
    <3>1. /\ unannounced \subseteq Thread /\ missed \subseteq Item
          /\ {ThreadOf[m]} \subseteq Thread /\ {m, ThreadOf[m]} \subseteq Item
          /\ unannounced # {} => polling \/ refreshes > 0
          /\ polling' = polling /\ refreshes' = refreshes
      BY <1>2, TagAssumption DEF TagInv, TypeOK, Item
    <3>2. CASE polling \/ refreshes > 0
      BY <1>1, <3>1, <3>2
    <3>3. CASE ~ (polling \/ refreshes > 0)
      BY <1>1, <3>1, <3>3
    <3>4. QED
      BY <3>2, <3>3
  <2>3. troubles' \in 0 .. MaxTroubles
    BY <1>2, TagAssumption DEF TagInv, TypeOK
  <2>4. QED
    BY <1>2, <2>1, <2>2, <2>3 DEF TagInv, TypeOK, queues, copies
<1>4. ASSUME NEW i \in Item PROVE Shows(i)' \/ Coming(i)' \/ i \in missed'
  <2>1. CASE m \in MessagesOf(i)
    <3>1. i \in {m, ThreadOf[m]}
      BY <2>1 DEF MessagesOf, Item
    <3>2. ThreadOf[m] \in Thread /\ i \in Refreshed(ThreadOf[m])
      BY <3>1, TagAssumption DEF Refreshed, MessagesOf
    <3>3. QED
      BY <1>1, <3>1, <3>2 DEF Coming, AllRefreshed
  <2>2. CASE m \notin MessagesOf(i)
    <3>1. db \in [Message -> SUBSET Tag] /\ db' \in [Message -> SUBSET Tag]
      BY <1>3 DEF TagInv, TypeOK
    <3>2. \A n \in MessagesOf(i) : db'[n] = db[n]
      BY <1>1, <2>2, <3>1, ItemFacts
    <3>3. Seen(db', i) = Seen(db, i)
      BY <3>1, <3>2, SeenOwn
    <3>4. Coming(i) => Coming(i)'
      BY <1>1, <1>2 DEF Coming, AllRefreshed, queues
    <3>5. i \in missed => i \in missed'
      BY <1>1
    <3>6. QED
      BY <1>2, <3>3, <3>4, <3>5 DEF TagInv, ItemsTrail, Shows, copies
  <2>3. QED
    BY <2>1, <2>2
<1>5. QED
  BY <1>3, <1>4 DEF TagInv, ItemsTrail

\* What a new poll makes the last one forget is missed.
LEMMA PollStartsTagInv == TagInv /\ PollStarts => TagInv'
<1> SUFFICES ASSUME TagInv, PollStarts PROVE TagInv'
  OBVIOUS
<1>1. /\ polling' \in BOOLEAN /\ unannounced' = {}
      /\ missed' = missed \cup AllRefreshed(unannounced)
      /\ requests < MaxRequests /\ requests' = requests + 1
      /\ UNCHANGED <<db, copies, queues, refreshes, troubles>>
  BY DEF PollStarts
<1>2. requests' \in 0 .. MaxRequests /\ missed' \subseteq Item
  BY <1>1, AllRefreshedFacts, TagAssumption DEF TagInv, TypeOK
<1>3. TypeOK'
  BY <1>1, <1>2 DEF TagInv, TypeOK, copies, queues
<1>4. ItemsTrail'
  BY <1>1 DEF TagInv, ItemsTrail, Shows, Coming, copies, queues
<1>5. QED
  BY <1>3, <1>4 DEF TagInv

LEMMA PollEndsTagInv == TagInv /\ PollEnds => TagInv'
<1> SUFFICES ASSUME TagInv, PollEnds PROVE TagInv'
  OBVIOUS
<1>1. /\ polling' = FALSE /\ refreshes < MaxRefreshes /\ refreshes' = refreshes + 1
      /\ UNCHANGED <<db, copies, queues, unannounced, missed, counters>>
  BY DEF PollEnds
<1>2. refreshes' \in 0 .. MaxRefreshes /\ refreshes' > 0
  BY <1>1, TagAssumption DEF TagInv, TypeOK
<1>3. TypeOK'
  BY <1>1, <1>2 DEF TagInv, TypeOK, copies, queues, counters
<1>4. ItemsTrail'
  BY <1>1 DEF TagInv, ItemsTrail, Shows, Coming, AllRefreshed, copies, queues
<1>5. QED
  BY <1>3, <1>4 DEF TagInv

LEMMA PollTellsTagInv == TagInv /\ PollTells => TagInv'
<1> SUFFICES ASSUME TagInv, PollTells PROVE TagInv'
  OBVIOUS
<1>1. PICK also \in SUBSET Thread : Refresh(AllRefreshed(unannounced \cup also))
  BY DEF PollTells
<1>2. /\ refreshes > 0 /\ refreshes' = refreshes - 1 /\ unannounced' = {}
      /\ UNCHANGED <<db, queues, polling, counters>>
  BY DEF PollTells
<1> DEFINE S == AllRefreshed(unannounced \cup also)
<1>3. AllRefreshed(unannounced) \subseteq S
  BY AllRefreshedFacts
<1> HIDE DEF S
<1>4. /\ tags' \in [Item -> SUBSET Tag]
      /\ disorder' \in [Thread -> SUBSET (Tag \X Tag)] /\ missed' = missed \ S
      /\ \A i \in Item \cap S : Shows(i)'
      /\ \A i \in Item \ S : Shows(i) => Shows(i)'
  BY <1>1, <1>2, RefreshEffect DEF TagInv, S
<1>5. \A i \in Item : Coming(i) => i \in S \/ Coming(i)'
  BY <1>2, <1>3 DEF Coming, queues
<1>6. TypeOK'
  <2>1. refreshes' \in 0 .. MaxRefreshes
    BY <1>2, TagAssumption DEF TagInv, TypeOK
  <2>2. QED
    BY <1>2, <1>4, <2>1 DEF TagInv, TypeOK, queues, counters
<1>7. ItemsTrail'
  BY <1>4, <1>5 DEF TagInv, ItemsTrail
<1>8. QED
  BY <1>6, <1>7 DEF TagInv

LEMMA NextTagInv == TagInv /\ [Next]_vars => TagInv'
<1> SUFFICES ASSUME TagInv, [Next]_vars PROVE TagInv'
  OBVIOUS
<1>1. CASE UNCHANGED vars
  <2>1. TypeOK'
    BY <1>1 DEF TagInv, TypeOK, vars, copies, queues, polls, counters
  <2>2. ItemsTrail'
    BY <1>1 DEF TagInv, ItemsTrail, Shows, Coming, AllRefreshed, vars, copies, queues, polls
  <2>3. QED
    BY <2>1, <2>2 DEF TagInv
<1>2. CASE Next
  BY <1>2, RequestTagInv, UndoTagInv, WorkerTagInv, EmitterTagInv,
     OtherProgramTagInv, PollStartsTagInv, PollEndsTagInv, PollTellsTagInv DEF Next
<1>3. QED
  BY <1>1, <1>2

LEMMA TagInvHolds == Spec => []TagInv
<1>1. QED
  BY InitTagInv, NextTagInv, PTL DEF Spec

\* The database, the items and the queues keep their types.
THEOREM TypeCorrect == Spec => []TypeOK
<1>1. TagInv => TypeOK
  BY DEF TagInv
<1>2. QED
  BY <1>1, TagInvHolds, PTL

\* No item on display is left behind: it shows what notmuch has, or a signal
\* that makes it look again is on its way.
THEOREM ItemsFollow == Spec => []ItemsTrail
<1>1. TagInv => ItemsTrail
  BY DEF TagInv
<1>2. QED
  BY <1>1, TagInvHolds, PTL

-----------------------------------------------------------------------------
\* After an action without failures, every message of a thread of the action
\* has been reached with every tag.
LEMMA WorkerCopy ==
  ASSUME TypeOK, NEW a \in ActionRecord, NEW first, Perform(a, <<>>, first),
         NEW i \in a.on \cap Thread, Shows(i)
  PROVE  Shows(i)'
<1> DEFINE A == AddTag(a, i)
           R == RemoveTag(a, i)
<1>1. i \in Item /\ MessagesOf(i) \subseteq Message /\ MessagesOf(i) # {}
  BY ItemFacts DEF Item
<1>2. tags'[i] = (tags[i] \cup A) \ R
  <2>1. A \subseteq Tag /\ R \subseteq Tag
    BY DEF TypeOK, ActionRecord, AddTag, RemoveTag, Adds, Removes, Item
  <2>2. \A g \in Tag : <<i, g>> # <<>>
    OBVIOUS
  <2>3. QED
    BY <1>1, <2>1, <2>2 DEF Perform
<1>3. \A g : Reached(i, g, <<>>, first) = MessagesOf(i)
  BY DEF Reached
<1>4. ASSUME NEW m \in MessagesOf(i) PROVE db'[m] = (db[m] \cup A) \ R
  <2> DEFINE on == {j \in a.on : m \in MessagesOf(j)}
  <2>1. on = {i}
    BY TagAssumption DEF ActionRecord, MessagesOf
  <2>2. db'[m] = (db[m] \cup UNION {{g \in AddTag(a, j) : m \in Reached(j, g, <<>>, first)} : j \in on})
                   \ UNION {{g \in RemoveTag(a, j) : m \in Reached(j, g, <<>>, first)} : j \in on}
    BY <1>1 DEF Perform
  <2> HIDE DEF on
  <2>3. /\ {g \in AddTag(a, i) : m \in Reached(i, g, <<>>, first)} = A
        /\ {g \in RemoveTag(a, i) : m \in Reached(i, g, <<>>, first)} = R
    BY <1>3
  <2>4. QED
    BY <2>1, <2>2, <2>3
<1> HIDE DEF A, R
<1>5. Seen(db', i) = (Seen(db, i) \cup A) \ R
  BY <1>1, <1>4 DEF Seen
<1>6. QED
  BY <1>2, <1>5 DEF Shows

\* Only the worker appends to the queue of the emitter.
LEMMA StepOfWorker ==
  ASSUME TypeOK, [Next]_vars, WorkerSteps
  PROVE  Worker
<1>0. toemit \in Seq(SUBSET Item) /\ Len(toemit') > Len(toemit)
  BY DEF TypeOK, WorkerSteps
<1>1. CASE ToggleTag \/ EditTags \/ DiffTags \/ MarkRead \/ Undo
  <2>1. (\E b : Doit(b)) \/ Undo \/ UNCHANGED queues
    <3>1. CASE ToggleTag
      BY <3>1 DEF ToggleTag
    <3>2. CASE EditTags
      BY <3>2 DEF EditTags
    <3>3. CASE DiffTags
      BY <3>3 DEF DiffTags
    <3>4. CASE MarkRead
      BY <3>4 DEF MarkRead
    <3>5. QED
      BY <1>1, <3>1, <3>2, <3>3, <3>4
  <2>2. toemit' = toemit
    BY <2>1 DEF Doit, Undo, queues
  <2>3. QED
    BY <1>0, <2>2
<1>2. CASE Emitter
  BY <1>0, <1>2, TailFacts DEF Emitter
<1>3. CASE OtherProgram \/ PollStarts \/ PollEnds \/ PollTells
  BY <1>0, <1>3 DEF OtherProgram, PollStarts, PollEnds, PollTells, queues
<1>4. CASE UNCHANGED vars
  BY <1>0, <1>4 DEF vars, queues
<1>5. QED
  BY <1>1, <1>2, <1>3, <1>4 DEF Next

\* Thread items decide by their copy of the tags: the worker keeps a copy that
\* is right so, whatever the next actions of the queue are.
THEOREM CopyKept == Spec => WorkerKeepsCopy
<1>1. ASSUME TypeOK, [Next]_vars, WorkerSteps, troubles' = troubles,
             NEW i \in Head(actions).on \cap Thread, Shows(i)
      PROVE  Shows(i)'
  <2>1. toemit \in Seq(SUBSET Item)
    BY <1>1 DEF TypeOK
  <2>2. Worker
    BY <1>1, StepOfWorker
  <2> DEFINE a == Head(actions)
  <2>3. PICK bad \in (IF troubles < MaxTroubles THEN a.on \X Tag ELSE {}) \cup {<<>>},
             first \in Message \cup {m + 1 : m \in Message} :
          /\ Perform(a, bad, first)
          /\ troubles' = IF bad = <<>> THEN troubles ELSE troubles + 1
    BY <1>1, <2>2 DEF Worker
  <2>4. bad = <<>>
    BY <1>1, <2>3 DEF TypeOK
  <2>5. a \in ActionRecord
    BY <1>1, <2>2, TailFacts DEF Worker, TypeOK
  <2> HIDE DEF a
  <2>6. i \in a.on \cap Thread
    BY <1>1 DEF a
  <2>7. QED
    BY <1>1, <2>3, <2>4, <2>5, <2>6, WorkerCopy
<1>2. TypeOK /\ [Next]_vars =>
        [WorkerSteps /\ troubles' = troubles =>
           \A i \in Head(actions).on \cap Thread : Shows(i) => Shows(i)']_vars
  BY <1>1
<1>3. QED
  BY <1>2, TypeCorrect, PTL DEF Spec, WorkerKeepsCopy

-----------------------------------------------------------------------------
(* Undo.  An undo trusts what its action recorded when it was made and when  *)
(* it was done, long before: the records that wait in the two queues stay    *)
(* true to both moments.                                                     *)

\* What an action was made to do: it removes what an item was seen to have,
\* which a tag diff that misread the order does, too.
Made(a) ==
  a.kind # "toggle" => \A i \in a.on : a.remove[i] \subseteq a.seen[i]

Flip(S, g, had) == IF had THEN S \ {g} ELSE S \cup {g}

\* What it did to the messages of an item.
DidTo(a, i) ==
  \A m \in MessagesOf(i) :
    a.after[m] =
      IF a.kind = "toggle"
      THEN Flip(a.before[m], a.toggle, a.toggle \in Seen(a.before, i))
      ELSE (a.before[m] \cup a.add[i]) \ a.remove[i]

\* An action that was done on items that showed the truth, without failures,
\* did to them what it was made to do.
Did(a) ==
  a.plain /\ AddsNew(a) => \A i \in a.on :
    /\ a.kind # "toggle" => a.seen[i] = Seen(a.before, i)
    /\ (a.kind # "toggle" \/ i \in Thread) => DidTo(a, i)

Truthful(a) == Made(a) /\ Did(a)
UndoInv == \A a \in ToSet(actions) \cup ToSet(doneactions) : Truthful(a)

LEMMA UndoInvNext ==
  ASSUME \A a \in ToSet(actions') \cup ToSet(doneactions') : Truthful(a)
  PROVE  UndoInv'
BY DEF UndoInv

\* The items of an action have no message in common.
LEMMA OwnMessages ==
  ASSUME NEW a \in ActionRecord, NEW i \in a.on, NEW m \in MessagesOf(i)
  PROVE  {j \in a.on : m \in MessagesOf(j)} = {i}
BY TagAssumption DEF ActionRecord, MessagesOf

\* An action without failures reaches every message of its items.
LEMMA PerformOn ==
  ASSUME NEW a \in ActionRecord, NEW first, Perform(a, <<>>, first),
         NEW i \in a.on, NEW m \in MessagesOf(i)
  PROVE  db'[m] = (db[m] \cup AddTag(a, i)) \ RemoveTag(a, i)
<1>1. m \in Message
  BY ItemFacts DEF ActionRecord, Item
<1> DEFINE on == {j \in a.on : m \in MessagesOf(j)}
           A == AddTag(a, i)
           R == RemoveTag(a, i)
<1>2. on = {i}
  BY OwnMessages
<1>3. db'[m] = (db[m] \cup UNION {{g \in AddTag(a, j) : m \in Reached(j, g, <<>>, first)} : j \in on})
                 \ UNION {{g \in RemoveTag(a, j) : m \in Reached(j, g, <<>>, first)} : j \in on}
  BY <1>1 DEF Perform
<1> HIDE DEF on
<1>4. \A g : m \in Reached(i, g, <<>>, first)
  BY DEF Reached
<1>5. /\ {g \in AddTag(a, i) : m \in Reached(i, g, <<>>, first)} = A
      /\ {g \in RemoveTag(a, i) : m \in Reached(i, g, <<>>, first)} = R
  BY <1>4
<1>6. QED
  BY <1>2, <1>3, <1>5

\* Records that are made or done are true.
LEMMA NewActionTrue ==
  ASSUME TypeOK, NEW on \in SUBSET Item, NEW kind, NEW add, NEW remove, NEW g, NEW skip,
         kind # "toggle" => \A i \in on : remove[i] \subseteq tags[i]
  PROVE  Truthful(NewAction(kind, on, add, remove, g, skip))
<1> DEFINE a == NewAction(kind, on, add, remove, g, skip)
<1>1. /\ a.kind = kind /\ a.on = on /\ a.add = add /\ a.remove = remove /\ ~ a.plain
      /\ \A i \in on : a.seen[i] = tags[i]
  BY DEF NewAction
<1> HIDE DEF a
<1>2. Made(a) /\ Did(a)
  BY <1>1 DEF Made, Did
<1>3. QED
  BY <1>2 DEF Truthful, a

LEMMA RequestUndoInv ==
  ASSUME TypeOK, UndoInv, ToggleTag \/ EditTags \/ DiffTags \/ MarkRead
  PROVE  UndoInv'
<1>1. TypeOK /\ tags \in [Item -> SUBSET Tag] /\ Unread \in Tag
  BY TagAssumption DEF TypeOK
<1>2. /\ Nothing \in [Item -> SUBSET Tag]
      /\ \A i \in Item, S \in SUBSET Tag :
           Only(i, S) \in [Item -> SUBSET Tag] /\ Only(i, S)[i] = S
      /\ \A i \in Item : Nothing[i] = {}
  BY DEF Nothing, Only
<1>3. ASSUME NEW a \in ActionRecord, Truthful(a), Doit(a)
      PROVE  UndoInv'
  <2>1. ToSet(actions') = ToSet(actions) \cup {a} /\ doneactions' = doneactions
    BY <1>3, AppendFacts DEF TypeOK, Doit
  <2>2. QED
    BY <1>3, <2>1, UndoInvNext DEF UndoInv
<1>4. CASE ToggleTag
  <2>1. PICK on \in ((SUBSET Thread) \ {{}}) \cup {{m} : m \in Message}, g \in Tag :
          Doit(NewAction("toggle", on, Nothing, Nothing, g, FALSE))
    BY <1>4 DEF ToggleTag
  <2>2. on \in (SUBSET Thread) \cup (SUBSET Message) /\ on \in SUBSET Item
    BY DEF Item
  <2>3. NewAction("toggle", on, Nothing, Nothing, g, FALSE) \in ActionRecord
    BY <1>1, <1>2, <2>2, NewActionType
  <2>4. Truthful(NewAction("toggle", on, Nothing, Nothing, g, FALSE))
    BY <2>2, NewActionTrue
  <2>5. QED
    BY <1>3, <2>1, <2>3, <2>4
<1>5. CASE EditTags
  <2>1. CASE UNCHANGED <<db, tags, queues, polls, counters>>
    BY <2>1, UndoInvNext DEF UndoInv, queues
  <2>2. SUFFICES ASSUME ~ UNCHANGED <<db, tags, queues, polls, counters>> PROVE UndoInv'
    BY <2>1
  <2>3. PICK i \in Item, S \in SUBSET Tag :
          Doit(NewAction("tag", {i}, Only(i, S \ tags[i]), Only(i, tags[i] \ S),
                         Unread, FALSE))
    BY <1>5, <2>2 DEF EditTags
  <2> DEFINE add == Only(i, S \ tags[i])
             remove == Only(i, tags[i] \ S)
  <2>4. {i} \in (SUBSET Thread) \cup (SUBSET Message) /\ {i} \in SUBSET Item
    BY DEF Item
  <2>5. S \ tags[i] \in SUBSET Tag /\ tags[i] \ S \in SUBSET Tag
    BY <1>1
  <2>6. /\ add \in [Item -> SUBSET Tag] /\ add[i] = S \ tags[i]
        /\ remove \in [Item -> SUBSET Tag] /\ remove[i] = tags[i] \ S
    BY <1>2, <2>5
  <2>7. Doit(NewAction("tag", {i}, add, remove, Unread, FALSE))
    BY <2>3
  <2> HIDE DEF add, remove
  <2>8. NewAction("tag", {i}, add, remove, Unread, FALSE) \in ActionRecord
    BY <1>1, <2>4, <2>6, NewActionType
  <2>9. \A j \in {i} : remove[j] \subseteq tags[j]
    BY <2>6
  <2>10. Truthful(NewAction("tag", {i}, add, remove, Unread, FALSE))
    BY <2>4, <2>9, NewActionTrue
  <2>11. QED
    BY <1>3, <2>7, <2>8, <2>10
<1>6. CASE DiffTags
  <2>1. PICK on \in ((SUBSET Thread) \cup (SUBSET Message)) \ {{}}, d \in Diff :
          Doit(NewAction("diff", on,
                 [i \in Item |-> IF i \in on THEN d[1] \ Found(i) ELSE {}],
                 [i \in Item |-> IF i \in on THEN d[2] \cap Found(i) ELSE {}],
                 Unread, FALSE))
    BY <1>6 DEF DiffTags
  <2> DEFINE add == [i \in Item |-> IF i \in on THEN d[1] \ Found(i) ELSE {}]
             remove == [i \in Item |-> IF i \in on THEN d[2] \cap Found(i) ELSE {}]
  <2>2. d[1] \subseteq Tag /\ d[2] \subseteq Tag /\ on \in SUBSET Item
    BY TagAssumption DEF Item
  <2>3. add \in [Item -> SUBSET Tag] /\ remove \in [Item -> SUBSET Tag]
    BY <1>1, <2>2
  <2>4. \A i \in on : remove[i] \subseteq tags[i]
    BY <2>2 DEF Found
  <2>5. Doit(NewAction("diff", on, add, remove, Unread, FALSE))
    BY <2>1
  <2> HIDE DEF add, remove
  <2>6. NewAction("diff", on, add, remove, Unread, FALSE) \in ActionRecord
    BY <1>1, <2>3, NewActionType
  <2>7. Truthful(NewAction("diff", on, add, remove, Unread, FALSE))
    BY <2>2, <2>4, NewActionTrue
  <2>8. QED
    BY <1>3, <2>5, <2>6, <2>7
<1>7. CASE MarkRead
  <2>1. PICK m \in Message : /\ Unread \in tags[m]
                             /\ Doit(NewAction("tag", {m}, Nothing, Only(m, {Unread}), Unread, TRUE))
    BY <1>7 DEF MarkRead
  <2>2. /\ {m} \in (SUBSET Thread) \cup (SUBSET Message) /\ {m} \in SUBSET Item
        /\ {Unread} \in SUBSET Tag /\ m \in Item
    BY <1>1 DEF Item
  <2>3. Only(m, {Unread}) \in [Item -> SUBSET Tag] /\ Only(m, {Unread})[m] = {Unread}
    BY <1>2, <2>2
  <2>4. NewAction("tag", {m}, Nothing, Only(m, {Unread}), Unread, TRUE) \in ActionRecord
    BY <1>1, <1>2, <2>2, <2>3, NewActionType
  <2>5. \A i \in {m} : Only(m, {Unread})[i] \subseteq tags[i]
    BY <1>2, <2>1, <2>2, <2>3
  <2>6. Truthful(NewAction("tag", {m}, Nothing, Only(m, {Unread}), Unread, TRUE))
    BY <2>2, <2>5, NewActionTrue
  <2>7. QED
    BY <1>3, <2>1, <2>4, <2>6
<1>8. QED
  BY <1>4, <1>5, <1>6, <1>7

LEMMA UndoUndoInv ==
  ASSUME TypeOK, UndoInv, Undo
  PROVE  UndoInv'
<1>1. actions \in Seq(ActionRecord) /\ doneactions \in Seq(ActionRecord)
  BY DEF TypeOK
<1>2. CASE actions # <<>>
  <2>1. actions' = Front(actions) /\ doneactions' = doneactions
    BY <1>2 DEF Undo
  <2>2. ToSet(actions') \subseteq ToSet(actions)
    BY <1>1, <1>2, <2>1, FrontFacts
  <2>3. QED
    BY <2>1, <2>2, UndoInvNext DEF UndoInv
<1>3. CASE actions = <<>>
  <2> DEFINE c == Last(doneactions)
             b == [c EXCEPT !.in_undo = TRUE]
  <2>1. doneactions # <<>> /\ actions' = <<b>> /\ doneactions' = Front(doneactions)
    BY <1>3 DEF Undo
  <2>2. c \in ActionRecord /\ ToSet(doneactions) = {c} \cup ToSet(doneactions')
    BY <1>1, <2>1, FrontFacts
  <2>3. Truthful(c)
    BY <2>2 DEF UndoInv
  <2>4. /\ b.kind = c.kind /\ b.on = c.on /\ b.add = c.add /\ b.remove = c.remove
        /\ b.toggle = c.toggle /\ b.seen = c.seen /\ b.plain = c.plain
        /\ b.before = c.before /\ b.after = c.after
    BY <2>2 DEF ActionRecord
  <2> HIDE DEF b, c
  <2>5. Truthful(b)
    BY <2>3, <2>4 DEF Truthful, Made, Did, DidTo, AddsNew
  <2>6. ToSet(actions') = {b}
    BY <2>1 DEF ToSet
  <2>7. QED
    BY <2>2, <2>5, <2>6, UndoInvNext DEF UndoInv
<1>4. QED
  BY <1>2, <1>3

\* The worker records what it did.
LEMMA WorkerUndoInv ==
  ASSUME TypeOK, UndoInv, Worker
  PROVE  UndoInv'
<1> DEFINE a == Head(actions)
<1>1. actions # <<>> /\ actions' = Tail(actions)
  BY DEF Worker
<1>2. a \in ActionRecord /\ ToSet(actions) = {a} \cup ToSet(actions')
  BY <1>1, TailFacts DEF TypeOK
<1>3. Truthful(a)
  BY <1>2 DEF UndoInv
<1>4. PICK bad \in (IF troubles < MaxTroubles THEN a.on \X Tag ELSE {}) \cup {<<>>},
           first \in Message \cup {m + 1 : m \in Message} :
        /\ Perform(a, bad, first)
        /\ doneactions' =
             IF a.in_undo \/ a.skip_undo THEN doneactions
             ELSE Append(doneactions, [a EXCEPT !.before = db, !.after = db',
                                                !.plain = Exact(a) /\ bad = <<>>])
  BY DEF Worker
<1> HIDE DEF a
<1>5. CASE a.in_undo \/ a.skip_undo
  <2>1. doneactions' = doneactions
    BY <1>4, <1>5
  <2>2. QED
    BY <1>2, <2>1, UndoInvNext DEF UndoInv
<1>6. CASE ~ (a.in_undo \/ a.skip_undo)
  <2> DEFINE exact == Exact(a) /\ bad = <<>>
             b == [a EXCEPT !.before = db, !.after = db', !.plain = exact]
  <2>1. exact \in BOOLEAN
    BY DEF Exact
  <2>2. /\ db \in [Message -> SUBSET Tag] /\ db' \in [Message -> SUBSET Tag]
        /\ doneactions \in Seq(ActionRecord)
    BY <1>2, <1>4, PerformType DEF TypeOK
  <2>3. doneactions' = Append(doneactions, b)
    BY <1>4, <1>6
  <2> HIDE DEF exact
  <2>4. /\ b \in ActionRecord
        /\ b.kind = a.kind /\ b.on = a.on /\ b.add = a.add /\ b.remove = a.remove
        /\ b.toggle = a.toggle /\ b.seen = a.seen /\ b.plain = exact
        /\ b.before = db /\ b.after = db'
    BY <1>2, <2>1, <2>2 DEF ActionRecord
  <2> HIDE DEF b
  <2>5. Made(b)
    BY <1>3, <2>4 DEF Truthful, Made
  <2>6. ASSUME exact, AddsNew(a), NEW i \in a.on PROVE
          /\ a.kind # "toggle" => a.seen[i] = Seen(db, i)
          /\ (a.kind # "toggle" \/ i \in Thread) => DidTo(b, i)
    <3>1. /\ bad = <<>>
          /\ a.kind # "toggle" => a.seen[i] = Seen(db, i)
          /\ i \in Thread => tags[i] = Seen(db, i)
      BY <2>6 DEF exact, Exact, Shows
    <3>2. i \in Item /\ MessagesOf(i) \subseteq Message
      BY <1>2, ItemFacts DEF ActionRecord, Item
    <3>3. \A m \in MessagesOf(i) : db'[m] = (db[m] \cup AddTag(a, i)) \ RemoveTag(a, i)
      BY <1>2, <1>4, <3>1, PerformOn
    <3>4. CASE a.kind # "toggle"
      <4>1. AddTag(a, i) = a.add[i] /\ RemoveTag(a, i) = a.remove[i]
        <5>1. a.add[i] \cap a.seen[i] = {} /\ a.remove[i] \subseteq a.seen[i]
          BY <1>3, <2>6, <3>4 DEF Truthful, Made, AddsNew
        <5>2. i \in Thread => a.add[i] \ tags[i] = a.add[i] /\ a.remove[i] \cap tags[i] = a.remove[i]
          BY <3>1, <3>4, <5>1
        <5>3. QED
          BY <1>6, <3>4, <5>2 DEF AddTag, RemoveTag, Adds, Removes
      <4>2. QED
        BY <2>4, <3>1, <3>3, <3>4, <4>1 DEF DidTo
    <3>5. CASE a.kind = "toggle" /\ i \in Thread
      <4>1. /\ AddTag(a, i) = {a.toggle} \ Seen(db, i)
            /\ RemoveTag(a, i) = {a.toggle} \cap Seen(db, i)
        BY <3>1, <3>5 DEF AddTag, RemoveTag, Adds, Removes, Has
      <4>2. ASSUME NEW m \in MessagesOf(i)
            PROVE  db'[m] = Flip(db[m], a.toggle, a.toggle \in Seen(db, i))
        BY <3>3, <4>1 DEF Flip
      <4>3. QED
        BY <2>4, <3>5, <4>2 DEF DidTo
    <3>6. QED
      BY <3>1, <3>4, <3>5
  <2>7. Did(b)
    BY <2>4, <2>6 DEF Did, AddsNew
  <2>8. ToSet(doneactions') = ToSet(doneactions) \cup {b}
    BY <2>2, <2>3, <2>4, AppendFacts
  <2>9. QED
    BY <1>2, <2>5, <2>7, <2>8, UndoInvNext DEF UndoInv, Truthful
<1>7. QED
  BY <1>5, <1>6

LEMMA NextUndoInv == TypeOK /\ UndoInv /\ [Next]_vars => UndoInv'
<1> SUFFICES ASSUME TypeOK, UndoInv, [Next]_vars PROVE UndoInv'
  OBVIOUS
<1>1. CASE UNCHANGED <<actions, doneactions>>
  BY <1>1, UndoInvNext DEF UndoInv
<1>2. CASE Emitter \/ OtherProgram \/ PollStarts \/ PollEnds \/ PollTells \/ UNCHANGED vars
  BY <1>1, <1>2 DEF Emitter, OtherProgram, PollStarts, PollEnds, PollTells, vars, queues
<1>3. QED
  BY <1>2, RequestUndoInv, UndoUndoInv, WorkerUndoInv DEF Next

LEMMA InitUndoInv == Init => UndoInv
BY DEF Init, UndoInv, ToSet

LEMMA UndoInvHolds == Spec => []UndoInv
<1>1. QED
  BY InitUndoInv, NextUndoInv, TypeCorrect, PTL DEF Spec

\* Undoing brings back the tags: the worker's second look at a record, after
\* the first.
LEMMA UndoneRestores ==
  ASSUME TypeOK, NEW a \in ActionRecord, Truthful(a), AddsNew(a), a.in_undo, a.plain,
         \A i \in a.on \cap Thread : Shows(i),
         \A i \in a.on : \A m \in MessagesOf(i) : db[m] = a.after[m],
         NEW first, Perform(a, <<>>, first),
         NEW i \in a.on, a.kind # "toggle" \/ i \in Thread
  PROVE  Seen(db', i) = Seen(a.before, i)
<1>1. i \in Item /\ MessagesOf(i) \subseteq Message /\ MessagesOf(i) # {}
  BY ItemFacts DEF ActionRecord, Item
<1>2. \A m \in MessagesOf(i) : db'[m] = (a.after[m] \cup AddTag(a, i)) \ RemoveTag(a, i)
  BY PerformOn
<1>3. DidTo(a, i)
  BY DEF Truthful, Did
<1> DEFINE Before == Seen(a.before, i)
           After == Seen(a.after, i)
<1>4. Seen(db', i) = (After \cup AddTag(a, i)) \ RemoveTag(a, i)
  BY <1>1, <1>2 DEF Seen
<1>5. i \in Thread => tags[i] = After
  BY DEF Shows, Seen
<1>6. CASE a.kind # "toggle"
  <2>1. a.add[i] \cap Before = {} /\ a.remove[i] \subseteq Before
    BY <1>6 DEF Truthful, Made, Did, AddsNew
  <2>2. After = (Before \cup a.add[i]) \ a.remove[i]
    BY <1>1, <1>3, <1>6 DEF DidTo, Seen
  <2> HIDE DEF Before, After
  <2>3. AddTag(a, i) = a.remove[i] /\ RemoveTag(a, i) = a.add[i]
    <3>1. a.remove[i] \ After = a.remove[i] /\ a.add[i] \cap After = a.add[i]
      BY <2>1, <2>2
    <3>2. QED
      BY <1>5, <1>6, <3>1 DEF AddTag, RemoveTag, Adds, Removes
  <2>4. Seen(db', i) = Before
    BY <1>4, <2>1, <2>2, <2>3
  <2>5. QED
    BY <2>4 DEF Before
<1>7. CASE a.kind = "toggle"
  <2> DEFINE g == a.toggle
  <2>1. /\ AddTag(a, i) = {g} \ After
        /\ RemoveTag(a, i) = {g} \cap After
    BY <1>5, <1>7 DEF AddTag, RemoveTag, Adds, Removes, Has
  <2>2. \A m \in MessagesOf(i) : a.after[m] = Flip(a.before[m], g, g \in Before)
    BY <1>3, <1>7 DEF DidTo
  <2>3. After = Flip(Before, g, g \in Before)
    <3>1. CASE g \in Before
      <4>1. \A m \in MessagesOf(i) : a.after[m] = a.before[m] \ {g}
        BY <2>2, <3>1 DEF Flip
      <4>2. QED
        BY <3>1, <4>1 DEF Flip, Seen
    <3>2. CASE g \notin Before
      <4>1. \A m \in MessagesOf(i) : a.after[m] = a.before[m] \cup {g}
        BY <2>2, <3>2 DEF Flip
      <4>2. QED
        BY <1>1, <3>2, <4>1 DEF Flip, Seen
    <3>3. QED
      BY <3>1, <3>2
  <2> HIDE DEF Before, After
  <2>4. Seen(db', i) = Before
    BY <1>4, <2>1, <2>3 DEF Flip
  <2>5. QED
    BY <2>4 DEF Before
<1>8. QED
  BY <1>6, <1>7

\* An undo brings back the tags of the items of its action, for every kind of
\* action but a toggle on a message, if the action added only what its items
\* had not, was done on items that showed the truth, and nothing has touched
\* their messages since.
THEOREM UndoBringsBack == Spec => UndoRestores
<1>1. ASSUME TypeOK, UndoInv, [Next]_vars, PlainUndo, AddsNew(Head(actions)),
             ~ (Head(actions).kind = "toggle" /\ Head(actions).on \subseteq Message),
             NEW i \in Head(actions).on
      PROVE  Seen(db', i) = Seen(Head(actions).before, i)
  <2> DEFINE a == Head(actions)
  <2>1. Worker /\ troubles' = troubles
    BY <1>1, StepOfWorker DEF PlainUndo
  <2>2. PICK bad \in (IF troubles < MaxTroubles THEN a.on \X Tag ELSE {}) \cup {<<>>},
             first \in Message \cup {m + 1 : m \in Message} :
          /\ Perform(a, bad, first)
          /\ troubles' = IF bad = <<>> THEN troubles ELSE troubles + 1
    BY <2>1 DEF Worker
  <2>3. bad = <<>>
    BY <1>1, <2>1, <2>2 DEF TypeOK
  <2>4. a \in ActionRecord /\ Truthful(a)
    BY <1>1, <2>1, TailFacts DEF Worker, TypeOK, UndoInv
  <2>5. /\ a.in_undo /\ a.plain
        /\ \A j \in a.on \cap Thread : Shows(j)
        /\ \A j \in a.on : \A m \in MessagesOf(j) : db[m] = a.after[m]
    BY <1>1 DEF PlainUndo
  <2> HIDE DEF a
  <2>6. i \in a.on /\ AddsNew(a) /\ ~ (a.kind = "toggle" /\ a.on \subseteq Message)
    BY <1>1 DEF a
  <2>7. a.kind # "toggle" \/ i \in Thread
    BY <2>4, <2>6 DEF ActionRecord
  <2>8. Seen(db', i) = Seen(a.before, i)
    BY <1>1, <2>2, <2>3, <2>4, <2>5, <2>6, <2>7, UndoneRestores
  <2>9. QED
    BY <2>8 DEF a
<1>2. TypeOK /\ UndoInv /\ [Next]_vars =>
        [PlainUndo =>
           LET a == Head(actions) IN
           AddsNew(a) /\ ~ (a.kind = "toggle" /\ a.on \subseteq Message)
             => \A i \in a.on : Seen(db', i) = Seen(a.before, i)]_vars
  BY <1>1
<1>3. QED
  BY <1>2, TypeCorrect, UndoInvHolds, PTL DEF Spec, UndoRestores

=============================================================================
