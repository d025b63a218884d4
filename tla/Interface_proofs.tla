----------------------------- MODULE Interface_proofs --------------------------
(***************************************************************************)
(* Proofs about parts of the interface, for any pages, queries, texts and  *)
(* numbers of events: the saved searches and the history (SavedSearches),  *)
(* the window (Windows), the keys of a page (Keybindings), the message     *)
(* that is composed (Compose), the list of a thread index (ThreadList),    *)
(* and the polls the window starts and shows (Poll).  The page of a thread *)
(* has a module of its own, ThreadPage_proofs.                             *)
(***************************************************************************)
EXTENDS SavedSearches, Windows, Keybindings, Compose, ThreadList, Poll, QueueFacts,
        FiniteSetTheorems, TLAPS

-----------------------------------------------------------------------------
(* The saved searches: what the page shows.                                *)

\* The rows of the page: headers, and queries with the mail they count.
RowType == {Header} \cup [kind : {"startup", "saved", "history"}, query : Query, at : Nat]
AllCounted(rs, m) == \A k \in DOMAIN rs : rs[k].kind = "header" \/ rs[k].at = m

SearchesTypes ==
  /\ file \in [saved : Seq(Query), history : Seq(Query)]
  /\ history \in Seq(Query) /\ rows \in Seq(RowType) /\ mail \in Nat
  /\ page \in {"closed", "hidden", "shown", "grab"}
  /\ show_all_history \in BOOLEAN /\ reloads \in Nat

\* What is only there while the program runs and the page is open.
OnlyOpen ==
  /\ ~running => page = "closed"
  /\ page = "closed" => asked = NoRow /\ show_all_history = FALSE

\* The inductive invariant.
SearchesInv == SearchesTypes /\ OnlyOpen /\ StatsFresh

LEMMA RowsOfFacts ==
  ASSUME NEW sort \in {"startup", "saved", "history"}, NEW s \in Seq(Query)
  PROVE  RowsOf(sort, s) \in Seq(RowType)
<1>1. Len(s) \in Nat /\ DOMAIN s = 1 .. Len(s) /\ \A k \in 1 .. Len(s) : s[k] \in Query
  OBVIOUS
<1>2. \A q \in Query : Row(sort, q) \in RowType
  BY DEF Row, RowType
<1>3. RowsOf(sort, s) \in [1 .. Len(s) -> RowType]
  BY <1>1, <1>2 DEF RowsOf
<1>4. QED
  BY <1>1, <1>3

\* The first lines of the history, the newest first.
LEMMA NewestFacts ==
  ASSUME NEW s \in Seq(Query), NEW n \in 0 .. Len(s)
  PROVE  SubSeq(Reverse(s), 1, n) \in Seq(Query)
<1>1. ASSUME NEW k \in 1 .. n PROVE Reverse(s)[k] \in Query
  <2>1. k \in 1 .. Len(s) /\ (Len(s) - k) + 1 \in 1 .. Len(s)
    OBVIOUS
  <2>2. QED
    BY <2>1 DEF Reverse
<1>2. QED
  BY <1>1, SubSeqProperties

LEMMA ListedFacts ==
  ASSUME NEW saved \in Seq(Query), NEW hist \in Seq(Query), NEW all \in BOOLEAN
  PROVE  Listed(saved, hist, all) \in Seq(RowType)
<1> DEFINE n == IF all \/ Len(hist) < history_lines_to_show THEN Len(hist)
                ELSE history_lines_to_show
           newest == SubSeq(Reverse(hist), 1, n)
           a == RowsOf("startup", StartupQueries)
           b == RowsOf("saved", saved)
           c == IF ~all /\ history_lines_to_show = 0 THEN <<>>
                ELSE <<Header>> \o RowsOf("history", newest)
<1>1. n \in 0 .. Len(hist)
  BY SearchesAssumption
<1>2. newest \in Seq(Query)
  <2> HIDE DEF n
  <2>1. QED
    BY <1>1, NewestFacts
<1> HIDE DEF newest
<1>3. Header \in RowType
  BY DEF RowType
<1>4. a \in Seq(RowType) /\ b \in Seq(RowType) /\ RowsOf("history", newest) \in Seq(RowType)
  BY <1>2, RowsOfFacts, SearchesAssumption
<1>5. c \in Seq(RowType)
  BY <1>3, <1>4
<1>6. Listed(saved, hist, all) = <<Header>> \o a \o <<Header>> \o b \o c
  BY DEF Listed, newest
<1> HIDE DEF a, b, c
<1>7. QED
  BY <1>3, <1>4, <1>5, <1>6

LEMMA CountedFacts ==
  ASSUME NEW rs \in Seq(RowType), NEW m \in Nat
  PROVE  /\ Counted(rs, m) \in Seq(RowType)
         /\ Counted(Counted(rs, m), 0) = Counted(rs, 0)
         /\ AllCounted(Counted(rs, m), m)
<1> DEFINE n == Len(rs)
           cs == Counted(rs, m)
           new(r, x) == IF r.kind = "header" THEN r ELSE [r EXCEPT !.at = x]
<1>1. n \in Nat /\ DOMAIN rs = 1 .. n /\ \A k \in 1 .. n : rs[k] \in RowType
  OBVIOUS
<1>2. ASSUME NEW r \in RowType, NEW x \in Nat
      PROVE  /\ new(r, x) \in RowType /\ new(new(r, x), 0) = new(r, 0)
             /\ new(r, x).kind = "header" \/ new(r, x).at = x
  <2>1. CASE r = Header
    BY <2>1 DEF Header, RowType
  <2>2. CASE r # Header
    <3>1. r \in [kind : {"startup", "saved", "history"}, query : Query, at : Nat]
      BY <2>2 DEF RowType
    <3>2. QED
      BY <3>1 DEF RowType
  <2>3. QED
    BY <2>1, <2>2
<1>3. cs = [k \in 1 .. n |-> new(rs[k], m)]
  BY <1>1 DEF Counted
<1>4. DOMAIN cs = 1 .. n /\ \A k \in 1 .. n : cs[k] = new(rs[k], m)
  BY <1>3
<1>5. /\ Counted(cs, 0) = [k \in 1 .. n |-> new(cs[k], 0)]
      /\ Counted(rs, 0) = [k \in 1 .. n |-> new(rs[k], 0)]
  BY <1>1, <1>4 DEF Counted
<1> HIDE DEF cs, new, n
<1>6. cs \in Seq(RowType)
  BY <1>1, <1>2, <1>3
<1>7. Counted(cs, 0) = Counted(rs, 0)
  BY <1>1, <1>2, <1>4, <1>5
<1>8. AllCounted(cs, m)
  BY <1>1, <1>2, <1>4 DEF AllCounted
<1>9. QED
  BY <1>6, <1>7, <1>8 DEF cs

\* What a refresh leaves of the page's rows.
LEMMA RefreshFacts ==
  ASSUME NEW rs \in Seq(RowType), NEW m \in Nat, RefreshStats(rs, m)
  PROVE  /\ rows' \in Seq(RowType) /\ Counted(rows', 0) = Counted(rs, 0)
         /\ needs_refresh' = ~Current
         /\ Current => AllCounted(rows', m)
BY CountedFacts DEF RefreshStats

\* An open page that reloads shows what is in the file and in the history.
LEMMA ReloadFacts ==
  ASSUME SearchesTypes, NEW all \in BOOLEAN, NEW m \in Nat, Reload(all, m), page # "closed",
         mail' = m, show_all_history' = all, UNCHANGED <<file, history, page>>, reloads' \in Nat
  PROVE  SearchesTypes' /\ StatsFresh'
<1> DEFINE rs == Listed(file.saved, history, all)
<1>1. file.saved \in Seq(Query) /\ history \in Seq(Query)
  BY DEF SearchesTypes
<1>2. rs \in Seq(RowType)
  BY <1>1, ListedFacts
<1>3. RefreshStats(rs, m)
  BY DEF Reload
<1>4. Listed(file.saved, history, show_all_history)' = rs
  BY DEF Listed, Row, RowsOf, Header
<1> HIDE DEF rs
<1>5. /\ rows' \in Seq(RowType) /\ Counted(rows', 0) = Counted(rs, 0)
      /\ needs_refresh' = ~Current
      /\ Current => AllCounted(rows', m)
  BY <1>2, <1>3, RefreshFacts
<1>6. SearchesTypes'
  BY <1>5 DEF SearchesTypes
<1>7. Counted(rows, 0)' = Counted(rows', 0)
  BY DEF Counted
<1>8. StatsFresh'
  BY <1>4, <1>5, <1>7 DEF StatsFresh, AllCounted, IsHeader, Current
<1>9. QED
  BY <1>6, <1>8

\* A change of the file or of the history leaves a reload on its way.
LEMMA WriteFacts ==
  ASSUME SearchesTypes, StatsFresh, NEW f \in [saved : Seq(Query), history : Seq(Query)],
         NEW hist \in Seq(Query), Write(f, hist),
         UNCHANGED <<page, rows, show_all_history, needs_refresh, mail>>
  PROVE  SearchesTypes' /\ StatsFresh'
<1>1. file' = f /\ history' = hist /\ reloads' \in Nat /\ reloads' > 0
  BY DEF Write, SearchesTypes
<1>2. SearchesTypes'
  BY <1>1 DEF SearchesTypes
<1>3. StatsFresh'
  BY <1>1 DEF StatsFresh, IsHeader
<1>4. QED
  BY <1>2, <1>3

\* Taking the first or the last occurrence of a query out of a sequence.
LEMMA OccurrenceFacts ==
  ASSUME NEW s \in Seq(Query), NEW q \in ToSet(s)
  PROVE  RemoveAt(s, FirstOf(s, q)) \in Seq(Query) /\ RemoveAt(s, LastOf(s, q)) \in Seq(Query)
<1> DEFINE S == {k \in DOMAIN s : s[k] = q}
<1>1. Len(s) \in Nat /\ DOMAIN s = 1 .. Len(s)
  OBVIOUS
<1>2. S # {}
  BY DEF ToSet
<1>3. S \in SUBSET Nat /\ S \in SUBSET (0 .. Len(s)) /\ S \subseteq 1 .. Len(s)
  BY <1>1
<1>4. FirstOf(s, q) = Min(S) /\ LastOf(s, q) = Max(S)
  BY DEF FirstOf, LastOf
<1> HIDE DEF S
<1>5. Min(S) \in 1 .. Len(s) /\ Max(S) \in 1 .. Len(s)
  BY <1>1, <1>2, <1>3, MinFacts, MaxFacts
<1>6. QED
  BY <1>4, <1>5, RemoveAtFacts

\* The types, and what the page shows.
LEMMA NextShown == SearchesInv /\ SearchesNext => SearchesTypes' /\ StatsFresh'
<1> SUFFICES ASSUME SearchesInv, SearchesNext PROVE SearchesTypes' /\ StatsFresh'
  OBVIOUS
<1>1. SearchesTypes /\ StatsFresh /\ OnlyOpen
  BY DEF SearchesInv
<1>2. /\ file \in [saved : Seq(Query), history : Seq(Query)] /\ history \in Seq(Query)
      /\ file.saved \in Seq(Query) /\ show_all_history \in BOOLEAN /\ mail \in Nat
      /\ rows \in Seq(RowType)
  BY <1>1 DEF SearchesTypes
<1>3. CASE Start
  BY <1>1, <1>2, <1>3 DEF Start, SearchesTypes, StatsFresh, OnlyOpen
<1>4. CASE Destruct
  <2>1. Stored(history) \in Seq(Query)
    <3>1. CASE Len(history) > history_lines
      <4>1. \A k \in 1 .. Len(history) - history_lines : history[k] \in Query
        BY <1>2, SearchesAssumption
      <4>2. SubSeq(history, 1, Len(history) - history_lines) \in Seq(Query)
        BY <1>2, <4>1, SubSeqProperties, SearchesAssumption
      <4>3. QED
        BY <3>1, <4>2 DEF Stored
    <3>2. CASE ~(Len(history) > history_lines)
      BY <1>2, <3>2 DEF Stored
    <3>3. QED
      BY <3>1, <3>2
  <2>2. QED
    BY <1>1, <1>2, <1>4, <2>1, EmptySeq DEF Destruct, SearchesTypes, StatsFresh
<1>5. CASE StartFails
  <2>1. page = "closed"
    BY <1>1, <1>5 DEF OnlyOpen, StartFails
  <2>2. QED
    BY <1>1, <1>2, <1>5, <2>1, EmptySeq DEF StartFails, SearchesTypes, StatsFresh
<1>6. CASE OpenPage
  <2>1. Listed(file.saved, history, FALSE) \in Seq(RowType)
    BY <1>2, ListedFacts
  <2>2. QED
    BY <1>1, <1>6, <2>1 DEF OpenPage, SearchesTypes, StatsFresh, OnlyOpen
<1>7. CASE ShowPage
  <2>1. /\ Counted(rows, mail) \in Seq(RowType)
        /\ Counted(Counted(rows, mail), 0) = Counted(rows, 0)
        /\ AllCounted(Counted(rows, mail), mail)
    BY <1>2, CountedFacts
  <2>2. QED
    BY <1>1, <1>7, <2>1 DEF ShowPage, SearchesTypes, StatsFresh, AllCounted, IsHeader
<1>8. CASE LeavePage
  BY <1>1, <1>8 DEF LeavePage, SearchesTypes, StatsFresh, IsHeader, Current
<1>9. CASE CloseSearches
  BY <1>1, <1>9, EmptySeq DEF CloseSearches, SearchesTypes, StatsFresh
<1>10. CASE MailChanged
  <2>1. CASE page = "closed"
    BY <1>1, <1>10, <2>1 DEF MailChanged, SearchesTypes, StatsFresh
  <2>2. CASE page # "closed"
    <3>1. mail' \in Nat /\ RefreshStats(rows, mail')
      BY <1>2, <1>10, <2>2 DEF MailChanged
    <3>2. /\ rows' \in Seq(RowType) /\ Counted(rows', 0) = Counted(rows, 0)
          /\ needs_refresh' = ~Current
          /\ Current => AllCounted(rows', mail')
      BY <1>2, <3>1, RefreshFacts
    <3>3. QED
      BY <1>1, <1>10, <3>1, <3>2
         DEF MailChanged, SearchesTypes, StatsFresh, AllCounted, IsHeader, Current
  <2>3. QED
    BY <2>1, <2>2
<1>11. CASE Down \/ Up \/ PageDown \/ PageUp \/ HomeOrEnd \/ JumpUnread \/ AskDelete
  <2>1. UNCHANGED <<file, history, page, rows, show_all_history, needs_refresh, mail, reloads>>
    BY <1>11 DEF Down, Up, PageDown, PageUp, HomeOrEnd, JumpUnread, AskDelete, Move
  <2>2. QED
    BY <1>1, <2>1 DEF SearchesTypes, StatsFresh, IsHeader
<1>12. CASE AddQueryToHistory
  <2>1. PICK q \in Query : Write(file, Append(history, q))
    BY <1>12 DEF AddQueryToHistory
  <2>2. Append(history, q) \in Seq(Query)
    BY <1>2
  <2>3. QED
    BY <1>1, <1>2, <1>12, <2>1, <2>2, WriteFacts DEF AddQueryToHistory
<1>13. CASE SaveQuery
  <2>1. PICK q \in Query : Write([file EXCEPT !.saved = Append(@, q)], history)
    BY <1>13 DEF SaveQuery
  <2>2. [file EXCEPT !.saved = Append(@, q)] \in [saved : Seq(Query), history : Seq(Query)]
    <3>1. Append(file.saved, q) \in Seq(Query)
      BY <1>2
    <3>2. QED
      BY <1>2, <3>1
  <2>3. QED
    BY <1>1, <1>2, <1>13, <2>1, <2>2, WriteFacts DEF SaveQuery
<1>14. CASE ShowAllHistory
  BY <1>1, <1>2, <1>14, ReloadFacts DEF ShowAllHistory, ListKey, SearchesTypes
<1>15. CASE AnswerDelete
  <2>0. UNCHANGED <<page, rows, show_all_history, needs_refresh, mail>>
    BY <1>15 DEF AnswerDelete
  <2>1. CASE Write(file, <<>>)
    BY <1>1, <1>2, <2>0, <2>1, EmptySeq, WriteFacts
  <2>2. CASE asked.query \in ToSet(history)
             /\ Write(file, RemoveAt(history, LastOf(history, asked.query)))
    <3>1. RemoveAt(history, LastOf(history, asked.query)) \in Seq(Query)
      BY <1>2, <2>2, OccurrenceFacts
    <3>2. QED
      BY <1>1, <1>2, <2>0, <2>2, <3>1, WriteFacts
  <2>3. ASSUME asked.query \in ToSet(file.saved),
               NEW f, f = [file EXCEPT !.saved = RemoveAt(@, FirstOf(@, asked.query))],
               Write(f, history)
        PROVE  SearchesTypes' /\ StatsFresh'
    <3>1. RemoveAt(file.saved, FirstOf(file.saved, asked.query)) \in Seq(Query)
      BY <1>2, <2>3, OccurrenceFacts
    <3>2. f \in [saved : Seq(Query), history : Seq(Query)]
      BY <1>2, <2>3, <3>1
    <3>3. QED
      BY <1>1, <1>2, <2>0, <2>3, <3>2, WriteFacts
  <2>4. CASE UNCHANGED <<file, history, cursor, reloads>>
    BY <1>1, <2>0, <2>4 DEF SearchesTypes, StatsFresh, IsHeader
  <2>5. QED
    BY <1>15, <2>1, <2>2, <2>3, <2>4 DEF AnswerDelete, Delete
<1>16. CASE MailRefreshed
  <2>1. mail' \in Nat
    BY <1>2, <1>16 DEF MailRefreshed
  <2>2. QED
    BY <1>1, <1>2, <1>16, <2>1, ReloadFacts DEF MailRefreshed, SearchesTypes
<1>17. CASE DispatchReload
  <2>1. reloads' \in Nat
    BY <1>1, <1>17 DEF DispatchReload, SearchesTypes
  <2>2. CASE page = "closed"
    BY <1>1, <1>17, <2>1, <2>2 DEF DispatchReload, SearchesTypes, StatsFresh
  <2>3. CASE page # "closed"
    BY <1>1, <1>2, <1>17, <2>1, <2>3, ReloadFacts DEF DispatchReload
  <2>4. QED
    BY <2>2, <2>3
<1>18. QED
  BY <1>3, <1>4, <1>5, <1>6, <1>7, <1>8, <1>9, <1>10, <1>11, <1>12, <1>13, <1>14, <1>15,
     <1>16, <1>17 DEF SearchesNext

\* Closed pages and programs that do not run have nothing open.
LEMMA NextOpen == SearchesInv /\ SearchesNext => OnlyOpen'
<1> SUFFICES ASSUME SearchesInv, SearchesNext PROVE OnlyOpen'
  OBVIOUS
<1>1. OnlyOpen
  BY DEF SearchesInv
<1>2. CASE Start \/ Destruct \/ StartFails
  BY <1>1, <1>2 DEF Start, Destruct, StartFails, OnlyOpen
<1>3. CASE OpenPage \/ MailChanged \/ MailRefreshed \/ DispatchReload
  <2>1. CASE OpenPage
    BY <1>1, <2>1 DEF OpenPage, OnlyOpen
  <2>2. CASE MailChanged \/ MailRefreshed \/ DispatchReload
    <3>1. UNCHANGED <<running, page, asked, show_all_history>>
      BY <2>2 DEF MailChanged, MailRefreshed, DispatchReload
    <3>2. QED
      BY <1>1, <3>1 DEF OnlyOpen
  <2>3. QED
    BY <1>3, <2>1, <2>2
<1>4. CASE AddQueryToHistory \/ SaveQuery
  BY <1>1, <1>4 DEF AddQueryToHistory, SaveQuery, OnlyOpen
<1>5. CASE ShowPage \/ LeavePage \/ CloseSearches
  BY <1>1, <1>5 DEF ShowPage, LeavePage, CloseSearches, Current, OnlyOpen
<1>6. CASE Down \/ Up \/ PageDown \/ PageUp \/ HomeOrEnd \/ JumpUnread \/ AskDelete
  BY <1>1, <1>6 DEF Down, Up, PageDown, PageUp, HomeOrEnd, JumpUnread, AskDelete, Move, ListKey,
     OnlyOpen
<1>7. CASE ShowAllHistory
  BY <1>1, <1>7 DEF ShowAllHistory, ListKey, OnlyOpen
<1>8. CASE AnswerDelete
  BY <1>1, <1>8 DEF AnswerDelete, OnlyOpen
<1>9. QED
  BY <1>2, <1>3, <1>4, <1>5, <1>6, <1>7, <1>8 DEF SearchesNext

THEOREM SearchesInductive == SearchesSpec => []SearchesInv
<1>1. SearchesInit => SearchesInv
  <2> SUFFICES ASSUME SearchesInit PROVE SearchesInv
    OBVIOUS
  <2>1. SearchesTypes
    BY EmptySeq DEF SearchesInit, SearchesTypes
  <2>2. QED
    BY <2>1 DEF SearchesInit, SearchesInv, OnlyOpen, StatsFresh
<1>2. SearchesInv /\ [SearchesNext]_searchVars => SearchesInv'
  <2> SUFFICES ASSUME SearchesInv, [SearchesNext]_searchVars PROVE SearchesInv'
    OBVIOUS
  <2>1. CASE SearchesNext
    BY <2>1, NextShown, NextOpen DEF SearchesInv
  <2>2. CASE UNCHANGED searchVars
    BY <2>2 DEF searchVars, SearchesInv, SearchesTypes, OnlyOpen, StatsFresh, IsHeader
  <2>3. QED
    BY <2>1, <2>2
<1>3. QED
  BY <1>1, <1>2, PTL DEF SearchesSpec

\* The page of the saved searches, whatever windows search, save and delete,
\* whenever mail changes and whenever the reloads they emit are dispatched: an
\* open page has the queries of the file and of the history as they are, or a
\* reload waits for the main loop; and it has counted the mail as last
\* announced, or has noted that it must before it gets the grab (reload,
\* m_reload, refresh_stats, grab_modal).
THEOREM StatsAreFresh == SearchesSpec => []StatsFresh
BY SearchesInductive, PTL DEF SearchesInv

-----------------------------------------------------------------------------
(* The window: who holds the keys, and that whoever asked is still there.  *)

Widget == (Page \cup {Nobody}) \X {0, 1}
Window == [pages : Seq(Page), shown : Nat, current : Nat, active : BOOLEAN,
           has_focus : BOOLEAN, grabs : Seq(Widget), split : SUBSET Page,
           pane : [Page -> {0, 1}], modal : SUBSET Page, stray : SUBSET Page]

\* Each widget is in the stack once, and no page that was closed.
GrabsOK(w) ==
  /\ w \in Window
  /\ NoDup(w.grabs)
  /\ \A g \in ToSet(w.grabs) : g[1] \in ToSet(w.pages) \cup {Nobody}

\* u is w but for grabs, none of them the bar's.
BarKept(w, u) ==
  /\ Bar \in ToSet(u.grabs) <=> Bar \in ToSet(w.grabs)
  /\ u.has_focus = w.has_focus
Regrabbed(w, u) ==
  GrabsOK(u) /\ u.pages = w.pages /\ BarKept(w, u)

SameButGrabs(w, u) ==
  /\ u.pages = w.pages /\ u.shown = w.shown /\ u.current = w.current /\ u.active = w.active
  /\ u.has_focus = w.has_focus /\ u.split = w.split /\ u.pane = w.pane /\ u.modal = w.modal
  /\ u.stray = w.stray

SamePanes(w, u) == u.shown = w.shown /\ u.split = w.split /\ u.pane = w.pane

LEMMA PageFacts == /\ Nobody \notin Page /\ Page \subseteq Nat /\ Bar \in Widget /\ Vte \in Widget
                   /\ Bar # Vte /\ \A p \in Page, k \in {0, 1} : <<p, k>> \in Widget \ {Bar, Vte}
<1>1. Nobody \notin Page /\ Page \subseteq Nat
  BY WindowsAssumption, FS_CardinalityType
<1>2. QED
  BY <1>1 DEF Widget, Bar, Vte

LEMMA UngrabFacts ==
  ASSUME NEW w, GrabsOK(w), NEW x \in Widget
  PROVE  /\ GrabsOK(Ungrab(w, x))
         /\ ToSet(Ungrab(w, x).grabs) = ToSet(w.grabs) \ {x}
         /\ SameButGrabs(w, Ungrab(w, x))
         /\ w.grabs # <<>> /\ Last(w.grabs) # x =>
              Ungrab(w, x).grabs # <<>> /\ Last(Ungrab(w, x).grabs) = Last(w.grabs)
<1> DEFINE s == w.grabs
           f == IndexOf(s, x)
<1>1. w \in Window /\ NoDup(s) /\ s \in Seq(Widget)
  BY DEF GrabsOK, Window
<1>2. CASE x \in ToSet(s)
  <2>1. f \in DOMAIN s /\ s[f] = x
    BY <1>2 DEF ToSet, IndexOf
  <2>2. f \in 1 .. Len(s)
    BY <1>1, <2>1
  <2>3. /\ RemoveAt(s, f) \in Seq(Widget) /\ NoDup(RemoveAt(s, f))
        /\ ToSet(RemoveAt(s, f)) = ToSet(s) \ {x}
        /\ Last(s) # x => RemoveAt(s, f) # <<>> /\ Last(RemoveAt(s, f)) = Last(s)
    <3> HIDE DEF s, f
    <3>1. QED
      BY <1>1, <2>1, <2>2, RemoveAtFacts, WithoutFacts
  <2>4. Ungrab(w, x) = [w EXCEPT !.grabs = RemoveAt(s, f)]
    BY <1>2 DEF Ungrab
  <2> DEFINE r == RemoveAt(s, f)
  <2> HIDE DEF r, f
  <2>5. QED
    BY <1>1, <2>3, <2>4 DEF GrabsOK, Window, SameButGrabs, r
<1>3. CASE x \notin ToSet(s)
  BY <1>3 DEF Ungrab, SameButGrabs
<1>4. QED
  BY <1>2, <1>3

LEMMA GrabFacts ==
  ASSUME NEW w, GrabsOK(w), NEW x \in Widget, x[1] \in ToSet(w.pages) \cup {Nobody}
  PROVE  /\ GrabsOK(Grab(w, x))
         /\ ToSet(Grab(w, x).grabs) = ToSet(w.grabs) \cup {x}
         /\ SameButGrabs(w, Grab(w, x))
         /\ x \notin ToSet(w.grabs) => Grab(w, x).grabs # <<>> /\ Last(Grab(w, x).grabs) = x
<1> DEFINE s == w.grabs
<1>1. w \in Window /\ NoDup(s) /\ s \in Seq(Widget)
  BY DEF GrabsOK, Window
<1>2. CASE x \notin ToSet(s)
  <2> DEFINE r == Append(s, x)
  <2>1. r \in Seq(Widget) /\ NoDup(r) /\ r # <<>> /\ ToSet(r) = ToSet(s) \cup {x}
    BY <1>1, <1>2, AppendFacts
  <2>2. Last(r) = x
    BY <1>1 DEF Last
  <2>3. Grab(w, x) = [w EXCEPT !.grabs = r]
    BY <1>2 DEF Grab
  <2> HIDE DEF r
  <2>4. QED
    BY <1>1, <2>1, <2>2, <2>3 DEF GrabsOK, Window, SameButGrabs
<1>3. CASE x \in ToSet(s)
  BY <1>3 DEF Grab, SameButGrabs
<1>4. QED
  BY <1>2, <1>3

LEMMA GrabModalFacts ==
  ASSUME NEW w, GrabsOK(w), NEW p \in ToSet(w.pages)
  PROVE  /\ Regrabbed(w, GrabModal(w, p))
         /\ SamePanes(w, GrabModal(w, p))
         /\ GrabModal(w, p).current = w.current /\ GrabModal(w, p).active = w.active
<1>1. p \in Page /\ w.pane[p] \in {0, 1}
  BY DEF GrabsOK, Window, ToSet
<1> DEFINE x == <<p, w.pane[p]>>
           g == Grab(w, x)
<1>2. x \in Widget /\ x # Bar /\ x[1] = p
  BY <1>1, PageFacts
<1> HIDE DEF x
<1>3. /\ GrabsOK(g) /\ ToSet(g.grabs) = ToSet(w.grabs) \cup {x}
      /\ SameButGrabs(w, g)
  <2>1. x[1] \in ToSet(w.pages) \cup {Nobody}
    BY <1>2
  <2>2. QED
    BY <1>2, <2>1, GrabFacts
<1>4. GrabModal(w, p) = [g EXCEPT !.modal = @ \cup {p}]
  BY DEF GrabModal, x
<1> HIDE DEF g
<1>5. GrabsOK(GrabModal(w, p))
  <2>1. g \in Window
    BY <1>3 DEF GrabsOK
  <2>2. GrabModal(w, p) \in Window
    <3> DEFINE m == g.modal \cup {p}
    <3>1. m \in SUBSET Page
      BY <1>1, <2>1 DEF Window
    <3> HIDE DEF m
    <3>2. [g EXCEPT !.modal = m] \in Window
      BY <2>1, <3>1 DEF Window
    <3>3. QED
      BY <1>4, <3>2 DEF m
  <2>3. GrabModal(w, p).grabs = g.grabs /\ GrabModal(w, p).pages = g.pages
    BY <1>4, <2>1 DEF Window
  <2>4. QED
    BY <1>3, <2>2, <2>3 DEF GrabsOK
<1>6. SameButGrabs([g EXCEPT !.modal = GrabModal(w, p).modal], GrabModal(w, p))
      /\ GrabModal(w, p).grabs = g.grabs
  BY <1>3, <1>4 DEF GrabsOK, Window, SameButGrabs
<1>7. QED
  BY <1>2, <1>3, <1>5, <1>6 DEF Regrabbed, BarKept, SamePanes, SameButGrabs, GrabsOK, Window

LEMMA ReleaseModalFacts ==
  ASSUME NEW w, GrabsOK(w), NEW p \in Page
  PROVE  /\ Regrabbed(w, ReleaseModal(w, p))
         /\ SamePanes(w, ReleaseModal(w, p))
         /\ ReleaseModal(w, p).current = w.current /\ ReleaseModal(w, p).active = w.active
         /\ w.grabs # <<>> /\ Last(w.grabs) = Bar =>
              ReleaseModal(w, p).grabs # <<>> /\ Last(ReleaseModal(w, p).grabs) = Bar
<1>1. p \in Page /\ w.pane[p] \in {0, 1}
  BY DEF GrabsOK, Window, ToSet
<1> DEFINE x == <<p, w.pane[p]>>
           g == Ungrab(w, x)
<1>2. x \in Widget /\ x # Bar
  BY <1>1, PageFacts
<1> HIDE DEF x
<1>3. /\ GrabsOK(g) /\ ToSet(g.grabs) = ToSet(w.grabs) \ {x}
      /\ SameButGrabs(w, g)
      /\ w.grabs # <<>> /\ Last(w.grabs) = Bar => g.grabs # <<>> /\ Last(g.grabs) = Bar
  BY <1>2, UngrabFacts
<1>4. ReleaseModal(w, p) = [g EXCEPT !.modal = @ \ {p}]
  BY DEF ReleaseModal, x
<1> HIDE DEF g
<1>5. QED
  BY <1>1, <1>2, <1>3, <1>4 DEF GrabsOK, Window, Regrabbed, BarKept, SamePanes, SameButGrabs

LEMMA PagesIn ==
  ASSUME NEW w, w \in Window, NEW n \in DOMAIN w.pages
  PROVE  n \in 1 .. Len(w.pages) /\ w.pages[n] \in Page /\ w.pages[n] \in ToSet(w.pages)
<1>1. w.pages \in Seq(Page)
  BY DEF Window
<1>2. QED
  BY <1>1 DEF ToSet

LEMMA UngrabActiveFacts ==
  ASSUME NEW w, GrabsOK(w)
  PROVE  /\ Regrabbed(w, UngrabActive(w))
         /\ SamePanes(w, UngrabActive(w)) /\ UngrabActive(w).current = w.current
         /\ ~UngrabActive(w).active \/ UngrabActive(w).current \notin DOMAIN w.pages
<1>1. CASE w.current \in DOMAIN w.pages
  <2> DEFINE r == ReleaseModal(w, w.pages[w.current])
  <2>1. w.pages[w.current] \in Page
    BY <1>1, PagesIn DEF GrabsOK
  <2>2. Regrabbed(w, r) /\ SamePanes(w, r) /\ r.current = w.current
    BY <2>1, ReleaseModalFacts
  <2>3. UngrabActive(w) = [r EXCEPT !.active = FALSE]
    BY <1>1 DEF UngrabActive
  <2> HIDE DEF r
  <2>4. QED
    BY <2>2, <2>3 DEF Regrabbed, GrabsOK, Window, BarKept, SamePanes
<1>2. CASE w.current \notin DOMAIN w.pages
  BY <1>2 DEF UngrabActive, Regrabbed, BarKept, SamePanes
<1>3. QED
  BY <1>1, <1>2

LEMMA GrabActiveFacts ==
  ASSUME NEW w, GrabsOK(w), NEW n \in DOMAIN w.pages
  PROVE  /\ Regrabbed(w, GrabActive(w, n))
         /\ SamePanes(w, GrabActive(w, n))
<1> DEFINE u == UngrabActive(w)
           g == IF u.has_focus THEN GrabModal(u, u.pages[n]) ELSE u
<1>1. Regrabbed(w, u) /\ SamePanes(w, u)
  BY UngrabActiveFacts
<1> HIDE DEF u
<1>2. GrabsOK(u) /\ u.pages = w.pages /\ n \in Nat
  BY <1>1, PagesIn DEF Regrabbed, GrabsOK
<1>3. u.pages[n] \in ToSet(u.pages)
  BY <1>2, PagesIn DEF GrabsOK
<1>4. Regrabbed(u, g) /\ SamePanes(u, g)
  BY <1>2, <1>3, GrabModalFacts DEF Regrabbed, BarKept, SamePanes
<1>5. GrabActive(w, n) = [g EXCEPT !.current = n, !.active = TRUE]
  BY DEF GrabActive, u
<1> HIDE DEF g
<1>6. QED
  BY <1>1, <1>2, <1>4, <1>5 DEF Regrabbed, GrabsOK, Window, BarKept, SamePanes

LEMMA SetActiveFacts ==
  ASSUME NEW w, GrabsOK(w), NEW n
  PROVE  /\ Regrabbed(w, SetActive(w, n))
         /\ SetActive(w, n).split = w.split /\ SetActive(w, n).pane = w.pane
         /\ SetActive(w, n).shown = IF n \in DOMAIN w.pages THEN n ELSE w.shown
<1>1. CASE n \notin DOMAIN w.pages
  BY <1>1 DEF SetActive, Regrabbed, BarKept, SamePanes
<1>2. CASE n \in DOMAIN w.pages
  <2> DEFINE v == [w EXCEPT !.shown = n]
             u == IF w.shown = n THEN w ELSE GrabActive(v, n)
  <2>1. n \in Nat
    BY <1>2, PagesIn DEF GrabsOK
  <2>2. GrabsOK(v) /\ v.pages = w.pages /\ v.shown = n /\ BarKept(w, v)
        /\ v.split = w.split /\ v.pane = w.pane
    BY <2>1 DEF GrabsOK, Window, BarKept, SamePanes
  <2> HIDE DEF v
  <2>3. Regrabbed(v, GrabActive(v, n)) /\ SamePanes(v, GrabActive(v, n))
    BY <1>2, <2>2, GrabActiveFacts
  <2>4. Regrabbed(w, u) /\ u.shown = n /\ u.split = w.split /\ u.pane = w.pane
    BY <2>2, <2>3 DEF Regrabbed, BarKept, SamePanes
  <2> HIDE DEF u
  <2>5. Regrabbed(u, GrabActive(u, n)) /\ SamePanes(u, GrabActive(u, n))
    BY <1>2, <2>4, GrabActiveFacts DEF Regrabbed
  <2>6. SetActive(w, n) = GrabActive(u, n)
    BY <1>2 DEF SetActive, u, v
  <2>7. QED
    BY <1>2, <2>4, <2>5, <2>6 DEF Regrabbed, BarKept, SamePanes
<1>3. QED
  BY <1>1, <1>2

LEMMA AddModeFacts ==
  ASSUME NEW w, GrabsOK(w), NEW p \in Page
  PROVE  /\ GrabsOK(AddMode(w, p)) /\ BarKept(w, AddMode(w, p))
         /\ AddMode(w, p).shown \in DOMAIN AddMode(w, p).pages
         /\ ToSet(w.pages) \subseteq ToSet(AddMode(w, p).pages)
<1> DEFINE s == w.pages
           f == IF w.current < Len(s) THEN w.current + 1 ELSE Len(s) + 1
           r == InsertAt(s, f, p)
           v == [w EXCEPT !.pages = r]
<1>1. w \in Window /\ s \in Seq(Page) /\ Len(s) \in Nat /\ w.current \in Nat
  BY DEF GrabsOK, Window
<1>2. f \in 1 .. Len(s) + 1
  BY <1>1
<1>3. AddMode(w, p) = SetActive(v, f)
  BY DEF AddMode
<1> HIDE DEF f
<1>4. s \in Seq(Page) /\ f \in 1 .. Len(s) + 1
  BY <1>1, <1>2
<1>5. r \in Seq(Page) /\ f \in DOMAIN r /\ ToSet(s) \subseteq ToSet(r)
  <2> HIDE DEF s
  <2>1. QED
    BY <1>4, InsertAtKeeps
<1>6. ToSet(s) \subseteq ToSet(r)
  BY <1>5
<1> HIDE DEF r
<1>7. v \in Window /\ v.pages = r /\ v.grabs = w.grabs /\ v.has_focus = w.has_focus
  BY <1>1, <1>5 DEF Window
<1>8. GrabsOK(v) /\ BarKept(w, v)
  BY <1>6, <1>7 DEF GrabsOK, BarKept
<1> HIDE DEF v
<1>9. Regrabbed(v, SetActive(v, f)) /\ SetActive(v, f).shown = f
  BY <1>5, <1>7, <1>8, SetActiveFacts
<1>10. QED
  BY <1>3, <1>5, <1>6, <1>7, <1>8, <1>9 DEF Regrabbed, BarKept

LEMMA DelPaneFacts ==
  ASSUME NEW w, GrabsOK(w), NEW p \in ToSet(w.pages)
  PROVE  Regrabbed(w, DelPane(w, p)) /\ DelPane(w, p).shown = w.shown
<1> DEFINE focused == w.pane[p] = 1 /\ p \in w.modal
           r == IF focused THEN [ReleaseModal(w, p) EXCEPT !.modal = @ \cup {p}] ELSE w
           g == Ungrab(r, <<p, 1>>)
           d == [g EXCEPT !.split = @ \ {p}, !.pane[p] = 0]
<1>1. p \in Page /\ <<p, 1>> \in Widget /\ <<p, 1>> # Bar
  <2>1. p \in Page
    BY DEF GrabsOK, Window, ToSet
  <2>2. QED
    BY <2>1, PageFacts
<1>2. Regrabbed(w, r) /\ r.shown = w.shown
  <2>1. CASE focused
    <3> DEFINE m == ReleaseModal(w, p)
    <3>1. Regrabbed(w, m) /\ m.shown = w.shown
      BY <1>1, ReleaseModalFacts DEF SamePanes
    <3>2. r = [m EXCEPT !.modal = @ \cup {p}]
      BY <2>1
    <3> HIDE DEF m, r
    <3>3. m \in Window
      BY <3>1 DEF Regrabbed, GrabsOK
    <3>4. /\ r \in Window /\ r.grabs = m.grabs /\ r.pages = m.pages /\ r.has_focus = m.has_focus
          /\ r.shown = m.shown
      BY <1>1, <3>2, <3>3 DEF Window
    <3>5. QED
      BY <3>1, <3>4 DEF Regrabbed, GrabsOK, BarKept
  <2>2. CASE ~focused
    BY <2>2 DEF Regrabbed, BarKept
  <2>3. QED
    BY <2>1, <2>2
<1>3. DelPane(w, p) = IF p \in d.modal THEN GrabModal(d, p) ELSE d
  BY DEF DelPane
<1> HIDE DEF r
<1>4. GrabsOK(g) /\ ToSet(g.grabs) = ToSet(r.grabs) \ {<<p, 1>>} /\ SameButGrabs(r, g)
  BY <1>1, <1>2, UngrabFacts DEF Regrabbed
<1> HIDE DEF g
<1>5. g \in Window
  BY <1>4 DEF GrabsOK
<1>6. /\ d \in Window /\ d.grabs = g.grabs /\ d.pages = g.pages /\ d.has_focus = g.has_focus
      /\ d.shown = g.shown
  BY <1>1, <1>5 DEF Window
<1> HIDE DEF d
<1>7. Regrabbed(w, d) /\ d.shown = w.shown
  BY <1>1, <1>2, <1>4, <1>6 DEF Regrabbed, GrabsOK, BarKept, SameButGrabs
<1>8. p \in ToSet(d.pages) /\ GrabsOK(d)
  BY <1>7 DEF Regrabbed
<1>9. Regrabbed(d, GrabModal(d, p)) /\ GrabModal(d, p).shown = d.shown
  BY <1>8, GrabModalFacts DEF SamePanes
<1>10. QED
  BY <1>3, <1>7, <1>9 DEF Regrabbed, BarKept

LEMMA RemovePageFacts ==
  ASSUME NEW w, GrabsOK(w), NEW c \in DOMAIN w.pages, Len(w.pages) > 1
  PROVE  /\ GrabsOK(RemovePage(w, c)) /\ BarKept(w, RemovePage(w, c))
         /\ RemovePage(w, c).shown = IF w.shown > c THEN w.shown - 1 ELSE w.shown
         /\ Len(RemovePage(w, c).pages) = Len(w.pages) - 1
<1> DEFINE s == w.pages
           p == s[c]
           g == Ungrab(w, <<p, 0>>)
           h == Ungrab(g, <<p, 1>>)
           r == RemoveAt(s, c)
           now == IF w.shown > c THEN w.shown - 1 ELSE w.shown
           stray == IF c = 1 THEN w.stray \cup {s[2]} ELSE w.stray
           u == [h EXCEPT !.pages = r, !.shown = now, !.stray = stray]
<1>1. w \in Window /\ s \in Seq(Page) /\ Len(s) \in Nat /\ c \in 1 .. Len(s) /\ p \in Page
      /\ w.shown \in Nat /\ w.stray \subseteq Page
  BY PagesIn DEF GrabsOK, Window
<1>2. /\ <<p, 0>> \in Widget /\ <<p, 1>> \in Widget /\ <<p, 0>> # Bar /\ <<p, 1>> # Bar
  BY <1>1, PageFacts
<1>3. GrabsOK(g) /\ ToSet(g.grabs) = ToSet(w.grabs) \ {<<p, 0>>} /\ SameButGrabs(w, g)
  BY <1>2, UngrabFacts
<1> HIDE DEF g
<1>4. GrabsOK(h) /\ ToSet(h.grabs) = ToSet(g.grabs) \ {<<p, 1>>} /\ SameButGrabs(g, h)
  BY <1>2, <1>3, UngrabFacts
<1> HIDE DEF h
<1>5. /\ r \in Seq(Page) /\ Len(r) = Len(s) - 1
      /\ \A k \in 1 .. Len(s) - 1 : r[k] = IF k < c THEN s[k] ELSE s[k + 1]
  BY <1>1, RemoveAtFacts
<1>6. RemovePage(w, c) = u
  BY <1>3, <1>4 DEF RemovePage, SameButGrabs, g, h
<1> HIDE DEF r
<1>7. now \in Nat /\ stray \subseteq Page
  <2>1. s[2] \in Page
    BY <1>1
  <2>2. c \in Nat
    BY <1>1
  <2>3. QED
    BY <1>1, <2>1, <2>2
<1> HIDE DEF now, stray
<1>8. h \in Window
  BY <1>4 DEF GrabsOK
<1>9. /\ u \in Window /\ u.pages = r /\ u.shown = now /\ u.grabs = h.grabs
      /\ u.has_focus = h.has_focus
  BY <1>5, <1>7, <1>8 DEF Window
<1> HIDE DEF u
<1>10. \A q \in ToSet(s) \ {p} : q \in ToSet(r)
  <2> SUFFICES ASSUME NEW k \in 1 .. Len(s), k # c PROVE \E j \in 1 .. Len(s) - 1 : r[j] = s[k]
    <3>1. DOMAIN s = 1 .. Len(s) /\ DOMAIN r = 1 .. Len(s) - 1
      BY <1>1, <1>5
    <3>2. QED
      BY <3>1 DEF ToSet
  <2>1. CASE k < c
    BY <1>1, <1>5, <2>1
  <2>2. CASE ~(k < c)
    <3>1. k - 1 \in 1 .. Len(s) - 1 /\ ~(k - 1 < c) /\ k - 1 + 1 = k
      BY <1>1, <2>2
    <3>2. r[k - 1] = s[k]
      BY <1>5, <3>1
    <3>3. QED
      BY <3>1, <3>2
  <2>3. QED
    BY <2>1, <2>2
<1>11. \A x \in ToSet(u.grabs) : x[1] \in ToSet(u.pages) \cup {Nobody}
  <2> SUFFICES ASSUME NEW x \in ToSet(h.grabs) PROVE x[1] \in ToSet(r) \cup {Nobody}
    BY <1>9
  <2>1. x \in Widget /\ x # <<p, 0>> /\ x # <<p, 1>>
    BY <1>3, <1>4 DEF GrabsOK, Window, ToSet
  <2>2. x[1] # p
    BY <2>1 DEF Widget
  <2>3. x[1] \in ToSet(s) \cup {Nobody}
    BY <1>3, <1>4 DEF GrabsOK
  <2>4. QED
    BY <1>10, <2>2, <2>3
<1>12. GrabsOK(u) /\ BarKept(w, u)
  BY <1>2, <1>3, <1>4, <1>9, <1>11 DEF GrabsOK, BarKept, SameButGrabs
<1>13. QED
  BY <1>5, <1>6, <1>9, <1>12 DEF now

LEMMA DelModeFacts ==
  ASSUME NEW w, GrabsOK(w), w.shown \in DOMAIN w.pages, NEW c \in DOMAIN w.pages
  PROVE  /\ GrabsOK(DelMode(w, c)) /\ BarKept(w, DelMode(w, c))
         /\ DelMode(w, c).shown \in DOMAIN DelMode(w, c).pages
<1>1. w.pages \in Seq(Page) /\ Len(w.pages) \in Nat /\ c \in 1 .. Len(w.pages)
      /\ DOMAIN w.pages = 1 .. Len(w.pages)
  BY PagesIn DEF GrabsOK, Window
<1>2. CASE Len(w.pages) = 1
  BY <1>2 DEF DelMode, BarKept
<1>3. CASE Len(w.pages) # 1
  <2> DEFINE n == IF c = 1 THEN 2 ELSE c - 1
             s == SetActive(w, n)
             p == w.pages[c]
             d == IF p \in s.split THEN DelPane(s, p) ELSE s
  <2>1. n \in DOMAIN w.pages /\ Len(w.pages) > 1
    <3>1. Len(w.pages) > 1
      <4>1. \A m \in Nat : \A k \in 1 .. m : m # 1 => m > 1
        OBVIOUS
      <4>2. QED
        BY <1>1, <1>3, <4>1
    <3>2. n \in 1 .. Len(w.pages)
      BY <1>1, <3>1
    <3>3. QED
      BY <1>1, <3>1, <3>2
  <2>2. DelMode(w, c) = RemovePage(d, c)
    BY <1>3 DEF DelMode
  <2>3. Regrabbed(w, s) /\ s.shown = n
    BY <2>1, SetActiveFacts
  <2> HIDE DEF s
  <2>4. p \in ToSet(s.pages) /\ GrabsOK(s)
    BY <2>3, PagesIn DEF GrabsOK, Regrabbed
  <2>5. Regrabbed(s, DelPane(s, p)) /\ DelPane(s, p).shown = s.shown
    BY <2>4, DelPaneFacts
  <2>6. Regrabbed(w, d) /\ d.shown = n
    BY <2>3, <2>5 DEF Regrabbed, BarKept
  <2> HIDE DEF d
  <2>7. /\ GrabsOK(RemovePage(d, c)) /\ BarKept(d, RemovePage(d, c))
        /\ RemovePage(d, c).shown = IF d.shown > c THEN d.shown - 1 ELSE d.shown
        /\ Len(RemovePage(d, c).pages) = Len(d.pages) - 1
    BY <2>1, <2>6, RemovePageFacts DEF Regrabbed
  <2>8. RemovePage(d, c).pages \in Seq(Page)
    BY <2>7 DEF GrabsOK, Window
  <2>9. RemovePage(d, c).shown \in 1 .. Len(w.pages) - 1
    BY <1>1, <2>1, <2>6, <2>7
  <2>10. DOMAIN RemovePage(d, c).pages = 1 .. Len(w.pages) - 1
    BY <2>6, <2>7, <2>8 DEF Regrabbed
  <2>11. QED
    BY <2>2, <2>6, <2>7, <2>9, <2>10 DEF Regrabbed, BarKept
<1>4. QED
  BY <1>2, <1>3


ShownOK == win.shown \in DOMAIN win.pages
AskerOpen == question.kind # "none" => question.of \in Open \cup {Nobody}
TerminalAlone == active_mode = "Terminal" => question.kind = "none"
BarOnTop ==
  /\ win.grabs # <<>> /\ Last(win.grabs) = Bar
  /\ ~win.active \/ win.current \notin DOMAIN win.pages
  /\ callback \in Open \cup {Nobody}
BarOK == ~intruded => IF active_mode = "Command" THEN BarOnTop ELSE Bar \notin ToSet(win.grabs)
WinInv ==
  AskerAlive /\ (~in_quit => GrabsOK(win) /\ ShownOK /\ AskerOpen /\ TerminalAlone /\ BarOK)

LEMMA ReceivesFacts ==
  ASSUME WinInv, NEW p \in Page, NEW i \in {0, 1}, Receives(<<p, i>>)
  PROVE  p \in Open /\ (active_mode = "Command" => intruded)
<1>1. GrabsOK(win) /\ ShownOK /\ BarOK
  BY DEF WinInv, Receives
<1>2. Last(win.grabs) \in ToSet(win.grabs)
  <2>1. win.grabs \in Seq(Widget) /\ win.grabs # <<>>
    BY <1>1 DEF GrabsOK, Window, Receives
  <2>2. Len(win.grabs) \in 1 .. Len(win.grabs)
    BY <2>1
  <2>3. QED
    BY <2>1, <2>2 DEF Last, ToSet
<1>3. p \in Open
  <2>1. CASE <<p, i>> = Last(win.grabs)
    <3>1. <<p, i>>[1] \in ToSet(win.pages) \cup {Nobody}
      BY <1>1, <1>2, <2>1 DEF GrabsOK
    <3>2. QED
      BY <3>1, PageFacts DEF Open
  <2>2. CASE <<p, i>> = <<ShownPage(win), win.pane[ShownPage(win)]>>
    <3>1. p = win.pages[win.shown]
      BY <2>2 DEF ShownPage
    <3>2. QED
      BY <1>1, <3>1, PagesIn DEF GrabsOK, ShownOK, Open
  <2>3. QED
    BY <2>1, <2>2 DEF Receives
<1>4. active_mode = "Command" => intruded
  BY <1>1 DEF BarOK, BarOnTop, Receives
<1>5. QED
  BY <1>3, <1>4

LEMMA WinKeyFacts ==
  ASSUME WinInv, AnyKey
  PROVE  /\ ~in_quit /\ question.kind = "none" /\ active_mode # "Terminal"
         /\ active_mode = "Command" => intruded
<1>1. PICK p \in Page, i \in {0, 1} : WinKey(<<p, i>>)
  BY DEF AnyKey
<1>2. QED
  BY <1>1, ReceivesFacts DEF WinKey, ModeKeyHandler, Receives

LEMMA WinKeyStep ==
  ASSUME WinInv, AnyKey, GrabsOK(win'), BarKept(win, win'), ShownOK',
         UNCHANGED <<in_quit, active_mode, question, intruded, dangling>>
  PROVE  WinInv'
<1>1. ~in_quit /\ question.kind = "none" /\ active_mode # "Terminal"
      /\ (active_mode = "Command" => intruded)
  BY WinKeyFacts
<1>2. BarOK
  BY <1>1 DEF WinInv
<1>3. BarOK'
  BY <1>1, <1>2 DEF BarOK, BarKept
<1>4. QED
  BY <1>1, <1>3 DEF WinInv, AskerAlive, AskerOpen, TerminalAlone

LEMMA BarFacts ==
  ASSUME NEW w, GrabsOK(w)
  PROVE  /\ GrabsOK(Ungrab(w, Bar)) /\ SameButGrabs(w, Ungrab(w, Bar))
         /\ Bar \notin ToSet(Ungrab(w, Bar).grabs)
<1>1. Bar \in Widget
  BY PageFacts
<1>2. QED
  BY <1>1, UngrabFacts

LEMMA EnableFacts ==
  ASSUME WinInv, ~in_quit, active_mode = "Command" => intruded,
         NEW f \in Open \cup {Nobody}, EnableCommand(f), UNCHANGED <<in_quit, intruded>>,
         question'.kind = "none", dangling' \subseteq dangling \cup {"filter"}
  PROVE  WinInv'
<1> DEFINE u == UngrabActive(win)
           g == Grab(u, Bar)
<1>1. GrabsOK(win) /\ ShownOK /\ BarOK /\ AskerAlive
  BY DEF WinInv
<1>2. /\ Regrabbed(win, u) /\ SamePanes(win, u) /\ u.current = win.current
      /\ ~u.active \/ u.current \notin DOMAIN win.pages
  BY <1>1, UngrabActiveFacts DEF Regrabbed
<1> HIDE DEF u
<1>3. /\ GrabsOK(g) /\ SameButGrabs(u, g)
      /\ Bar \notin ToSet(u.grabs) => g.grabs # <<>> /\ Last(g.grabs) = Bar
  <2>1. Bar \in Widget /\ Bar[1] \in ToSet(u.pages) \cup {Nobody}
    BY PageFacts DEF Bar
  <2>2. QED
    BY <1>2, <2>1, GrabFacts DEF Regrabbed
<1>4. win' = g /\ active_mode' = "Command" /\ callback' = f
  BY DEF EnableCommand, u
<1> HIDE DEF g
<1>5. ShownOK' /\ Open' = Open
  BY <1>1, <1>2, <1>3, <1>4 DEF ShownOK, Open, Regrabbed, SamePanes, SameButGrabs
<1>6. BarOK'
  BY <1>1, <1>2, <1>3, <1>4, <1>5 DEF BarOK, BarOnTop, Regrabbed, BarKept, SameButGrabs
<1>7. QED
  BY <1>1, <1>3, <1>4, <1>5, <1>6 DEF WinInv, AskerAlive, AskerOpen, TerminalAlone

LEMMA FocusInInv == WinInv /\ FocusIn => WinInv'
<1> SUFFICES ASSUME WinInv, FocusIn PROVE WinInv'
  OBVIOUS
<1> DEFINE w == [win EXCEPT !.has_focus = TRUE]
<1>1. /\ GrabsOK(win) /\ ShownOK /\ AskerOpen /\ TerminalAlone /\ BarOK /\ AskerAlive
      /\ UNCHANGED <<in_quit, active_mode, question, callback, intruded, dangling>>
      /\ win' = IF w.active THEN SetActive(w, w.current) ELSE w
  BY DEF WinInv, FocusIn
<1>2. /\ GrabsOK(w) /\ w.pages = win.pages /\ w.shown = win.shown /\ w.grabs = win.grabs
      /\ w.active = win.active /\ w.current = win.current
  BY <1>1 DEF GrabsOK, Window
<1> HIDE DEF w
<1>3. /\ Regrabbed(w, SetActive(w, w.current))
      /\ SetActive(w, w.current).shown \in {w.shown, w.current}
      /\ SetActive(w, w.current).shown = w.shown \/ w.current \in DOMAIN w.pages
  BY <1>2, SetActiveFacts
<1>4. GrabsOK(win') /\ ShownOK' /\ Open' = Open
      /\ (Bar \in ToSet(win'.grabs) <=> Bar \in ToSet(win.grabs))
  BY <1>1, <1>2, <1>3 DEF Regrabbed, BarKept, ShownOK, Open
<1>5. BarOK'
  <2>1. CASE intruded \/ active_mode # "Command"
    BY <1>1, <1>4, <2>1 DEF BarOK
  <2>2. CASE ~intruded /\ active_mode = "Command"
    <3>1. BarOnTop
      BY <1>1, <2>2 DEF BarOK
    <3>2. win' = w
      BY <1>1, <1>2, <3>1 DEF BarOnTop, SetActive
    <3>3. QED
      BY <1>1, <1>2, <1>4, <2>2, <3>1, <3>2 DEF BarOK, BarOnTop
  <2>3. QED
    BY <2>1, <2>2
<1>6. QED
  BY <1>1, <1>4, <1>5 DEF WinInv, AskerAlive, AskerOpen, TerminalAlone

LEMMA FocusOutInv == WinInv /\ FocusOut => WinInv'
<1> SUFFICES ASSUME WinInv, FocusOut PROVE WinInv'
  OBVIOUS
<1> DEFINE w == [win EXCEPT !.has_focus = FALSE]
           p == w.pages[w.current]
<1>1. /\ GrabsOK(win) /\ ShownOK /\ AskerOpen /\ TerminalAlone /\ BarOK /\ AskerAlive
      /\ UNCHANGED <<in_quit, active_mode, question, callback, intruded, dangling>>
      /\ win' = IF w.current \in DOMAIN w.pages THEN ReleaseModal(w, p) ELSE w
  BY DEF WinInv, FocusOut
<1>2. /\ GrabsOK(w) /\ w.pages = win.pages /\ w.shown = win.shown /\ w.grabs = win.grabs
      /\ w.active = win.active /\ w.current = win.current
  BY <1>1 DEF GrabsOK, Window
<1> HIDE DEF w
<1>3. ASSUME w.current \in DOMAIN w.pages
      PROVE  /\ Regrabbed(w, ReleaseModal(w, p)) /\ SamePanes(w, ReleaseModal(w, p))
             /\ ReleaseModal(w, p).current = w.current /\ ReleaseModal(w, p).active = w.active
             /\ w.grabs # <<>> /\ Last(w.grabs) = Bar =>
                  ReleaseModal(w, p).grabs # <<>> /\ Last(ReleaseModal(w, p).grabs) = Bar
  <2>1. p \in Page
    BY <1>2, <1>3, PagesIn DEF GrabsOK
  <2> HIDE DEF p
  <2>2. QED
    BY <1>2, <2>1, ReleaseModalFacts
<1> HIDE DEF p
<1>4. /\ GrabsOK(win') /\ ShownOK' /\ Open' = Open
      /\ win'.current = win.current /\ win'.active = win.active /\ win'.pages = win.pages
      /\ (Bar \in ToSet(win'.grabs) <=> Bar \in ToSet(win.grabs))
      /\ win.grabs # <<>> /\ Last(win.grabs) = Bar => win'.grabs # <<>> /\ Last(win'.grabs) = Bar
  <2>1. CASE w.current \in DOMAIN w.pages
    BY <1>1, <1>2, <1>3, <2>1 DEF Regrabbed, BarKept, SamePanes, ShownOK, Open
  <2>2. CASE w.current \notin DOMAIN w.pages
    BY <1>1, <1>2, <2>2 DEF ShownOK, Open
  <2>3. QED
    BY <2>1, <2>2
<1>5. BarOK'
  BY <1>1, <1>4 DEF BarOK, BarOnTop
<1>6. QED
  BY <1>1, <1>4, <1>5 DEF WinInv, AskerAlive, AskerOpen, TerminalAlone

LEMMA PageKeysInv ==
  WinInv /\ (JumpToPage \/ AddPage \/ ClosePage \/ OpenThread \/ ClosePane \/ SwapFocus) => WinInv'
<1> SUFFICES ASSUME WinInv,
                    JumpToPage \/ AddPage \/ ClosePage \/ OpenThread \/ ClosePane \/ SwapFocus
             PROVE  WinInv'
  OBVIOUS
<1> DEFINE Kept == GrabsOK(win') /\ BarKept(win, win') /\ ShownOK'
<1>1. UNCHANGED <<in_quit, active_mode, question, intruded, dangling>>
  BY DEF JumpToPage, AddPage, ClosePage, OpenThread, ClosePane, SwapFocus
<1>2. AnyKey
  <2>1. List \subseteq Page
    BY WindowsAssumption
  <2>2. ASSUME \E p \in win.split, i \in {0, 1} : WinKey(<<p, i>>) PROVE AnyKey
    <3>1. PICK p \in win.split, i \in {0, 1} : WinKey(<<p, i>>)
      BY <2>2
    <3>2. win.split \subseteq Page
      BY <3>1 DEF WinInv, WinKey, Receives, GrabsOK, Window
    <3>3. QED
      BY <3>1, <3>2 DEF AnyKey
  <2>3. QED
    BY <2>1, <2>2 DEF AnyKey, JumpToPage, AddPage, ClosePage, OpenThread, ClosePane, SwapFocus
<1>3. GrabsOK(win) /\ ShownOK
  BY <1>2, WinKeyFacts DEF WinInv
<1>4. ASSUME NEW p, WinKey(<<p, 0>>) \/ WinKey(<<p, 1>>), p \in Page PROVE p \in ToSet(win.pages)
  BY <1>4, ReceivesFacts DEF WinKey, Open
<1>5. ASSUME JumpToPage PROVE Kept
  <2>1. PICK n \in DOMAIN win.pages : win' = SetActive(win, n)
    BY <1>5 DEF JumpToPage
  <2>2. QED
    BY <1>3, <2>1, SetActiveFacts DEF Regrabbed, ShownOK
<1>6. ASSUME AddPage PROVE Kept
  BY <1>3, <1>6, AddModeFacts DEF AddPage, NewPage, ShownOK
<1>7. ASSUME ClosePage PROVE Kept
  BY <1>3, <1>7, DelModeFacts DEF ClosePage, ShownOK
<1>8. ASSUME OpenThread PROVE Kept
  <2>1. PICK p \in List :
          /\ WinKey(<<p, 0>>)
          /\ win' = GrabModal([win EXCEPT !.split = @ \cup {p}, !.pane[p] = 1,
                                          !.stray = @ \cup {p}], p)
    BY <1>8 DEF OpenThread
  <2> DEFINE v == [win EXCEPT !.split = @ \cup {p}, !.pane[p] = 1, !.stray = @ \cup {p}]
  <2>2. p \in Page /\ p \in ToSet(win.pages)
    BY <1>4, <2>1, WindowsAssumption
  <2>3. /\ v \in Window /\ v.pages = win.pages /\ v.grabs = win.grabs
        /\ v.has_focus = win.has_focus /\ v.shown = win.shown
    <3>1. win \in Window
      BY <1>3 DEF GrabsOK
    <3>2. QED
      BY <2>2, <3>1 DEF Window
  <2> HIDE DEF v
  <2>4. GrabsOK(v)
    BY <1>3, <2>3 DEF GrabsOK
  <2>5. Regrabbed(v, GrabModal(v, p)) /\ SamePanes(v, GrabModal(v, p))
    BY <2>2, <2>3, <2>4, GrabModalFacts
  <2>6. win' = GrabModal(v, p)
    BY <2>1 DEF v
  <2>7. QED
    BY <1>3, <2>3, <2>5, <2>6 DEF Regrabbed, BarKept, SamePanes, ShownOK
<1>9. ASSUME ClosePane PROVE Kept
  <2>1. PICK p \in win.split, i \in {0, 1} : WinKey(<<p, i>>) /\ win' = DelPane(win, p)
    BY <1>9 DEF ClosePane
  <2>2. p \in ToSet(win.pages)
    BY <1>3, <1>4, <2>1 DEF GrabsOK, Window
  <2>3. QED
    BY <1>3, <2>1, <2>2, DelPaneFacts DEF Regrabbed, ShownOK
<1>10. ASSUME SwapFocus PROVE Kept
  <2>1. PICK p \in win.split, i \in {0, 1} :
          WinKey(<<p, i>>) /\ win' = GrabModal([ReleaseModal(win, p) EXCEPT !.pane[p] = 1 - @], p)
    BY <1>10 DEF SwapFocus
  <2> DEFINE r == ReleaseModal(win, p)
             v == [r EXCEPT !.pane[p] = 1 - @]
  <2>2. p \in Page /\ p \in ToSet(win.pages)
    BY <1>3, <1>4, <2>1 DEF GrabsOK, Window
  <2>3. Regrabbed(win, r) /\ SamePanes(win, r)
    BY <1>3, <2>2, ReleaseModalFacts
  <2> HIDE DEF r
  <2>4. /\ v \in Window /\ v.pages = r.pages /\ v.grabs = r.grabs
        /\ v.has_focus = r.has_focus /\ v.shown = r.shown
    <3>1. r \in Window
      BY <2>3 DEF Regrabbed, GrabsOK
    <3>2. r.pane[p] \in {0, 1} /\ 1 - r.pane[p] \in {0, 1}
      BY <2>2, <3>1 DEF Window
    <3>3. QED
      BY <2>2, <3>1, <3>2 DEF Window
  <2> HIDE DEF v
  <2>5. GrabsOK(v) /\ p \in ToSet(v.pages)
    BY <2>2, <2>3, <2>4 DEF GrabsOK, Regrabbed
  <2>6. Regrabbed(v, GrabModal(v, p)) /\ SamePanes(v, GrabModal(v, p))
    BY <2>5, GrabModalFacts
  <2>7. win' = GrabModal(v, p)
    BY <2>1 DEF v, r
  <2>8. QED
    BY <1>3, <2>3, <2>4, <2>6, <2>7 DEF Regrabbed, BarKept, SamePanes, ShownOK
<1>11. Kept
  BY <1>5, <1>6, <1>7, <1>8, <1>9, <1>10
<1>12. QED
  BY <1>1, <1>2, <1>11, WinKeyStep

LEMMA OutsideInv == WinInv /\ (SendMailto \/ QuitWindow) => WinInv'
<1> SUFFICES ASSUME WinInv, SendMailto \/ QuitWindow PROVE WinInv'
  OBVIOUS
<1>1. CASE SendMailto
  <2>1. /\ GrabsOK(win) /\ ShownOK /\ AskerOpen /\ TerminalAlone /\ BarOK /\ AskerAlive
        /\ UNCHANGED <<in_quit, active_mode, question, callback, dangling>>
        /\ intruded' = (intruded \/ active_mode # "Window")
    BY <1>1 DEF WinInv, SendMailto
  <2>2. PICK p \in Page : win' = AddMode(win, p)
    BY <1>1 DEF SendMailto, NewPage
  <2>3. GrabsOK(win') /\ BarKept(win, win') /\ ShownOK' /\ Open \subseteq Open'
    BY <2>1, <2>2, AddModeFacts DEF ShownOK, Open
  <2>4. BarOK'
    BY <2>1, <2>3 DEF BarOK, BarKept
  <2>5. QED
    BY <2>1, <2>3, <2>4 DEF WinInv, AskerAlive, AskerOpen, TerminalAlone
<1>2. CASE QuitWindow
  BY <1>2 DEF QuitWindow, WinInv, AskerAlive
<1>3. QED
  BY <1>1, <1>2

LEMMA QuestionInv == WinInv /\ (Ask \/ AnswerYesNo \/ MultiKey) => WinInv'
<1> SUFFICES ASSUME WinInv, Ask \/ AnswerYesNo \/ MultiKey PROVE WinInv'
  OBVIOUS
<1>1. CASE Ask
  <2>1. PICK p \in Page \cup {Nobody}, sort \in {"yes_no", "multi"} :
          /\ \/ \E i \in {0, 1} : WinKey(<<p, i>>)
             \/ p = Nobody /\ AnyKey
          /\ question' = IF question.kind = "none" THEN [kind |-> sort, of |-> p] ELSE question
          /\ UNCHANGED <<in_quit, win, active_mode, callback, opened, intruded, dangling>>
    BY <1>1 DEF Ask
  <2>2. AnyKey /\ (p = Nobody \/ p \in Open)
    <3>1. CASE p = Nobody
      <4>1. ASSUME NEW i \in {0, 1} PROVE ~WinKey(<<p, i>>)
        <5>1. <<p, i>> \in {Bar, Vte}
          BY <3>1 DEF Bar, Vte
        <5>2. SUFFICES ASSUME WinKey(<<p, i>>) PROVE FALSE
          OBVIOUS
        <5>3. GrabsOK(win) /\ ShownOK
          BY <5>2 DEF WinKey, Receives, WinInv
        <5>4. ShownPage(win) \in Page
          BY <5>3, PagesIn DEF ShownPage, ShownOK, GrabsOK
        <5>5. QED
          BY <3>1, <5>1, <5>2, <5>4, PageFacts DEF WinKey, Receives
      <4>2. QED
        BY <2>1, <3>1, <4>1
    <3>2. CASE p # Nobody
      BY <2>1, <3>2, ReceivesFacts DEF AnyKey, WinKey
    <3>3. QED
      BY <3>1, <3>2
  <2>3. ~in_quit /\ question.kind = "none" /\ active_mode # "Terminal"
    BY <2>2, WinKeyFacts
  <2>4. GrabsOK(win') /\ ShownOK' /\ BarOK' /\ AskerAlive' /\ Open' = Open
    BY <2>1, <2>3 DEF WinInv, ShownOK, BarOK, BarOnTop, Open, AskerAlive
  <2>5. question' = [kind |-> sort, of |-> p]
    BY <2>1, <2>3
  <2>6. AskerOpen' /\ TerminalAlone'
    BY <2>1, <2>2, <2>3, <2>4, <2>5 DEF AskerOpen, TerminalAlone
  <2>7. QED
    BY <2>4, <2>6 DEF WinInv
<1>2. ASSUME NEW sort \in {"yes_no", "multi"}, Answerable(sort), Called("question", question.of)
      PROVE  /\ ~in_quit /\ (active_mode = "Command" => intruded)
             /\ active_mode # "Terminal" /\ question.of \in Open \cup {Nobody}
             /\ dangling' = dangling
  <2>1. PICK p \in Page, i \in {0, 1} : Receives(<<p, i>>)
    BY <1>2 DEF Answerable
  <2>2. ~in_quit /\ (active_mode = "Command" => intruded)
    BY <2>1, ReceivesFacts DEF Receives
  <2>3. active_mode # "Terminal" /\ question.of \in Open \cup {Nobody}
    BY <1>2, <2>2 DEF WinInv, Answerable, TerminalAlone, AskerOpen
  <2>4. QED
    BY <1>2, <2>2, <2>3 DEF Called, Dead
<1>3. CASE AnswerYesNo
  <2>1. /\ UNCHANGED <<in_quit, active_mode, callback, opened, intruded>>
        /\ question' = NoQuestion
    BY <1>3 DEF AnswerYesNo
  <2>2. /\ ~in_quit /\ (active_mode = "Command" => intruded)
        /\ active_mode # "Terminal" /\ dangling' = dangling
    BY <1>2, <1>3 DEF AnswerYesNo
  <2>3. GrabsOK(win) /\ ShownOK /\ BarOK
    BY <2>2 DEF WinInv
  <2>4. GrabsOK(win') /\ BarKept(win, win') /\ ShownOK'
    <3>1. CASE UNCHANGED win
      BY <2>3, <3>1 DEF BarKept, ShownOK
    <3>2. CASE question.of \in Open /\ win' = DelMode(win, IndexOf(win.pages, question.of))
      <4>1. IndexOf(win.pages, question.of) \in DOMAIN win.pages
        BY <3>2 DEF Open, ToSet, IndexOf
      <4>2. QED
        BY <2>3, <3>2, <4>1, DelModeFacts DEF ShownOK
    <3>3. QED
      BY <1>3, <3>1, <3>2 DEF AnswerYesNo
  <2>5. BarOK'
    BY <2>1, <2>2, <2>3, <2>4 DEF BarOK, BarKept
  <2>6. QED
    BY <2>1, <2>2, <2>4, <2>5 DEF WinInv, AskerAlive, AskerOpen, TerminalAlone, NoQuestion
<1>4. CASE MultiKey
  <2>1. UNCHANGED <<in_quit, opened, intruded>> /\ question' = NoQuestion
    BY <1>4 DEF MultiKey
  <2>2. /\ ~in_quit /\ (active_mode = "Command" => intruded)
        /\ active_mode # "Terminal" /\ dangling' = dangling
    BY <1>2, <1>4 DEF MultiKey
  <2>3. CASE UNCHANGED <<win, active_mode, callback>>
    <3>1. GrabsOK(win') /\ ShownOK' /\ BarOK'
      BY <2>1, <2>2, <2>3 DEF WinInv, ShownOK, BarOK, BarOnTop, Open
    <3>2. QED
      BY <2>1, <2>2, <2>3, <3>1 DEF WinInv, AskerAlive, AskerOpen, TerminalAlone, NoQuestion
  <2>4. CASE question.of \in Open /\ EnableCommand(question.of)
    BY <2>1, <2>2, <2>4, EnableFacts DEF NoQuestion
  <2>5. QED
    BY <1>4, <2>3, <2>4 DEF MultiKey
<1>5. QED
  BY <1>1, <1>3, <1>4

LEMMA CommandInv == WinInv /\ (RunCommand \/ Filter) => WinInv'
<1> SUFFICES ASSUME WinInv, RunCommand \/ Filter PROVE WinInv'
  OBVIOUS
<1>1. List \subseteq Page
  BY WindowsAssumption
<1>2. PICK p \in Page, i \in {0, 1} :
        /\ WinKey(<<p, i>>)
        /\ (\E f \in {p, Nobody} : EnableCommand(f)) \/ EnableCommand(p)
        /\ dangling' \subseteq dangling \cup {"filter"}
        /\ UNCHANGED <<in_quit, question, opened, intruded>>
  BY <1>1 DEF RunCommand, Filter, Called
<1>3. PICK f \in {p, Nobody} : EnableCommand(f)
  BY <1>2
<1>4. AnyKey /\ p \in Open
  BY <1>2, ReceivesFacts DEF AnyKey, WinKey
<1>5. QED
  BY <1>2, <1>3, <1>4, WinKeyFacts, EnableFacts

\* The bar lets go: the command ends.
LEMMA DisableFacts ==
  ASSUME NEW w, GrabsOK(w), w.shown \in DOMAIN w.pages, DisableCommand(w)
  PROVE  GrabsOK(win') /\ ShownOK' /\ Bar \notin ToSet(win'.grabs) /\ win'.pages = w.pages
<1> DEFINE u == Ungrab(w, Bar)
<1>1. GrabsOK(u) /\ SameButGrabs(w, u) /\ Bar \notin ToSet(u.grabs)
  BY BarFacts
<1>2. win' = SetActive(u, w.current)
  BY DEF DisableCommand
<1> HIDE DEF u
<1>3. Regrabbed(u, SetActive(u, w.current))
      /\ SetActive(u, w.current).shown = IF w.current \in DOMAIN u.pages THEN w.current ELSE u.shown
  BY <1>1, SetActiveFacts
<1>4. QED
  BY <1>1, <1>2, <1>3 DEF Regrabbed, BarKept, SameButGrabs, ShownOK

LEMMA BarKeyFacts ==
  ASSUME WinInv, BarKey
  PROVE  ~in_quit /\ active_mode = "Command"
BY DEF BarKey

LEMMA BarInv == WinInv /\ (Escape \/ Activate) => WinInv'
<1> SUFFICES ASSUME WinInv, Escape \/ Activate PROVE WinInv'
  OBVIOUS
<1>1. /\ UNCHANGED <<in_quit, question, intruded>> /\ BarKey /\ active_mode' = "Window"
  BY DEF Escape, Activate, DisableCommand
<1>2. GrabsOK(win) /\ ShownOK /\ AskerOpen /\ BarOK /\ AskerAlive /\ active_mode = "Command"
  BY <1>1, BarKeyFacts DEF WinInv
<1>3. AskerAlive'
  <2>1. CASE Escape
    BY <1>2, <2>1 DEF Escape, AskerAlive
  <2>2. CASE Activate
    <3>1. ~intruded => callback \in Open \cup {Nobody}
      BY <1>2 DEF BarOK, BarOnTop
    <3>2. Called("bar", callback)
      BY <2>2 DEF Activate
    <3>3. ~intruded => dangling' = dangling
      BY <3>1, <3>2 DEF Called, Dead
    <3>4. dangling' \subseteq dangling \cup {"bar"}
      BY <3>2 DEF Called
    <3>5. QED
      BY <1>1, <1>2, <3>3, <3>4 DEF AskerAlive
  <2>3. QED
    BY <2>1, <2>2
<1>4. GrabsOK(win') /\ ShownOK' /\ Bar \notin ToSet(win'.grabs) /\ Open \subseteq Open'
  <2>1. CASE DisableCommand(win)
    BY <1>2, <2>1, DisableFacts DEF ShownOK, Open
  <2>2. CASE Activate /\ ~DisableCommand(win)
    <3>1. PICK p \in Page : DisableCommand(AddMode(win, p))
      BY <2>2 DEF Activate
    <3> DEFINE w == AddMode(win, p)
    <3>2. GrabsOK(w) /\ w.shown \in DOMAIN w.pages /\ ToSet(win.pages) \subseteq ToSet(w.pages)
      BY <1>2, AddModeFacts
    <3> HIDE DEF w
    <3>3. DisableCommand(w)
      BY <3>1 DEF w
    <3>4. QED
      BY <3>2, <3>3, DisableFacts DEF Open
  <2>3. QED
    BY <2>1, <2>2 DEF Escape
<1>5. QED
  BY <1>1, <1>2, <1>3, <1>4 DEF WinInv, AskerOpen, TerminalAlone, BarOK

LEMMA TerminalInv == WinInv /\ (EnableTerminal \/ DisableTerminal) => WinInv'
<1> SUFFICES ASSUME WinInv, EnableTerminal \/ DisableTerminal PROVE WinInv'
  OBVIOUS
<1>1. Vte \in Widget /\ Vte # Bar /\ Vte[1] = Nobody
  BY PageFacts DEF Vte
<1>2. UNCHANGED <<in_quit, question, callback, opened, intruded, dangling>>
  BY DEF EnableTerminal, DisableTerminal
<1>3. ~in_quit /\ question.kind = "none" /\ (active_mode = "Command" => intruded)
  <2>1. CASE EnableTerminal
    BY <2>1, WinKeyFacts DEF EnableTerminal
  <2>2. CASE DisableTerminal
    BY <2>2 DEF DisableTerminal, WinInv, TerminalAlone
  <2>3. QED
    BY <2>1, <2>2
<1>4. GrabsOK(win) /\ ShownOK /\ BarOK /\ AskerAlive
  BY <1>3 DEF WinInv
<1>5. /\ GrabsOK(win') /\ ShownOK' /\ active_mode' \in {"Window", "Terminal"}
      /\ Bar \in ToSet(win'.grabs) <=> Bar \in ToSet(win.grabs)
  <2>1. CASE EnableTerminal
    <3> DEFINE u == UngrabActive(win)
    <3>1. Regrabbed(win, u) /\ SamePanes(win, u)
      BY <1>4, UngrabActiveFacts
    <3>2. win' = Grab(u, Vte) /\ active_mode' = "Terminal"
      BY <2>1 DEF EnableTerminal
    <3> HIDE DEF u
    <3>3. GrabsOK(Grab(u, Vte)) /\ ToSet(Grab(u, Vte).grabs) = ToSet(u.grabs) \cup {Vte}
          /\ SameButGrabs(u, Grab(u, Vte))
      BY <1>1, <3>1, GrabFacts DEF Regrabbed
    <3>4. QED
      BY <1>1, <1>4, <3>1, <3>2, <3>3 DEF Regrabbed, BarKept, SamePanes, SameButGrabs, ShownOK
  <2>2. CASE DisableTerminal
    <3> DEFINE u == SetActive(win, win.current)
    <3>1. Regrabbed(win, u) /\ u.shown \in DOMAIN u.pages
      <4>1. Regrabbed(win, u)
            /\ u.shown = IF win.current \in DOMAIN win.pages THEN win.current ELSE win.shown
        BY <1>4, SetActiveFacts
      <4>2. QED
        BY <1>4, <4>1 DEF Regrabbed, ShownOK
    <3>2. win' = Ungrab(u, Vte) /\ active_mode' = "Window"
      BY <2>2 DEF DisableTerminal
    <3> HIDE DEF u
    <3>3. GrabsOK(Ungrab(u, Vte)) /\ ToSet(Ungrab(u, Vte).grabs) = ToSet(u.grabs) \ {Vte}
          /\ SameButGrabs(u, Ungrab(u, Vte))
      BY <1>1, <3>1, UngrabFacts DEF Regrabbed
    <3>4. QED
      BY <1>1, <3>1, <3>2, <3>3 DEF Regrabbed, BarKept, SameButGrabs, ShownOK
  <2>3. QED
    BY <2>1, <2>2
<1>6. QED
  BY <1>2, <1>3, <1>4, <1>5 DEF WinInv, AskerAlive, AskerOpen, TerminalAlone, BarOK

THEOREM WindowsInductive == WindowsSpec => []WinInv
<1>1. WindowsInit => WinInv
  <2> SUFFICES ASSUME WindowsInit PROVE WinInv
    OBVIOUS
  <2>1. win.grabs = <<>> /\ ToSet(win.grabs) = {}
    BY DEF WindowsInit, ToSet
  <2>2. 1 \in Page /\ 2 \in Page
    BY WindowsAssumption
  <2>3. GrabsOK(win)
    <3>1. win \in Window
      BY <2>2 DEF WindowsInit, Window
    <3>2. QED
      BY <2>1, <3>1 DEF GrabsOK, NoDup
  <2>4. ShownOK
    BY DEF WindowsInit, ShownOK
  <2>5. QED
    BY <2>1, <2>3, <2>4
       DEF WinInv, WindowsInit, AskerAlive, AskerOpen, TerminalAlone, BarOK, NoQuestion
<1>2. WinInv /\ [WindowsNext]_winVars => WinInv'
  <2> SUFFICES ASSUME WinInv, [WindowsNext]_winVars PROVE WinInv'
    OBVIOUS
  <2>1. CASE WindowsNext
    BY <2>1, FocusInInv, FocusOutInv, PageKeysInv, OutsideInv, QuestionInv, CommandInv, BarInv,
       TerminalInv DEF WindowsNext
  <2>2. CASE UNCHANGED winVars
    BY <2>2 DEF winVars, WinInv, AskerAlive, AskerOpen, TerminalAlone, ShownOK, BarOK, BarOnTop, Open
  <2>3. QED
    BY <2>1, <2>2
<1>3. QED
  BY <1>1, <1>2, PTL DEF WindowsSpec

\* AskerAlive
THEOREM AskersAlive == WindowsSpec => []AskerAlive
<1>1. WinInv => AskerAlive
  BY DEF WinInv
<1>2. QED
  BY <1>1, WindowsInductive, PTL

-----------------------------------------------------------------------------
(* Keys reach the page on display.  Grabs that pages leave behind are all  *)
(* of one page while KeysReachPage asks for anything: then the stack holds *)
(* those, what the window's page has taken, and the bar or the terminal.   *)
(* The index current is the notebook's, but for one after the first page   *)
(* was closed, and then the page shown is the one that left grabs behind.  *)

\* How pages leave grabs behind: a thread beside a list, and the first page
\* closed.  One page may have done so.
Few(w) == \A p, q \in w.stray : p = q
Off(w) == w.current # w.shown
Follows(w) == w.current = w.shown \/ (w.shown = 1 /\ w.current = 2)
PanesOK(w) ==
  /\ w.split \subseteq w.stray /\ \A p \in Page : w.pane[p] = 1 => p \in w.split
\* A page that has left no grabs behind has none but while it is shown.
StrayGrabs(w) == \A g \in ToSet(w.grabs) : g[1] \in w.stray \cup {Nobody}
ShownGrabs(w) ==
  \A g \in ToSet(w.grabs) : g[1] \in w.stray \cup {Nobody} \/ g = <<ShownPage(w), 0>>
\* The last grab but for those of the window is of page p.
OnTop(s, p) ==
  /\ \E g \in ToSet(s) : g[1] = p
  /\ Last(s)[1] = p \/ \A g \in ToSet(s) : g[1] \in {p, Nobody}
\* The page shown keeps what it got before the first page was closed.
LeftOver(w) ==
  Off(w) => /\ ShownPage(w) \in w.stray \cap w.modal
            /\ \E g \in ToSet(w.grabs) : g[1] = ShownPage(w)
Reach(w) == NoDup(w.pages) /\ Follows(w) /\ PanesOK(w)
GrabsReach(w) == ShownGrabs(w) /\ LeftOver(w)
Held(w) == OnTop(w.grabs, ShownPage(w)) /\ ShownPage(w) \in w.modal
\* The pages are numbered as they are opened.
Numbered == \E k \in Nat : opened = 1 .. k
Modes == {"Window", "Command", "Terminal"}
PlaceOK == Reach(win) /\ Open \subseteq opened /\ Numbered /\ active_mode \in Modes
Calm == ~intruded /\ Few(win)
KeysOf(w, mode) ==
  /\ GrabsReach(w)
  /\ Vte \in ToSet(w.grabs) => mode = "Terminal"
  /\ w.current \in DOMAIN w.pages => (w.active <=> mode = "Window")
  /\ IF mode = "Window" /\ w.has_focus THEN Held(w) ELSE StrayGrabs(w)
KeysOK == KeysOf(win, active_mode)
ReachInv == Follows(win) /\ (~in_quit => PlaceOK /\ (Calm => KeysOK))

\* u is w but for who has the keys.
SamePlace(w, u) ==
  /\ u.pages = w.pages /\ u.shown = w.shown /\ u.current = w.current
  /\ u.has_focus = w.has_focus /\ u.split = w.split /\ u.pane = w.pane /\ u.stray = w.stray
ReleasedFrom(w, u) ==
  /\ GrabsOK(u) /\ SamePlace(w, u)
  /\ IF w.current \in DOMAIN w.pages
     THEN LET p == w.pages[w.current]
          IN  ToSet(u.grabs) = ToSet(w.grabs) \ {<<p, w.pane[p]>>} /\ u.modal = w.modal \ {p}
     ELSE u.grabs = w.grabs /\ u.modal = w.modal
\* Without the grab of the window's page there are only those left behind.
Releasable(w) ==
  \A g \in ToSet(w.grabs) :
    \/ g[1] \in w.stray \cup {Nobody}
    \/ w.current \in DOMAIN w.pages /\ g = <<w.pages[w.current], w.pane[w.pages[w.current]]>>

LEMMA GrabModalReach ==
  ASSUME NEW w, GrabsOK(w), NEW p \in ToSet(w.pages)
  PROVE  LET g == GrabModal(w, p)
             x == <<p, w.pane[p]>>
         IN  /\ GrabsOK(g) /\ SamePlace(w, g) /\ g.active = w.active
             /\ ToSet(g.grabs) = ToSet(w.grabs) \cup {x} /\ g.modal = w.modal \cup {p}
             /\ x \notin ToSet(w.grabs) => Last(g.grabs) = x
<1> DEFINE x == <<p, w.pane[p]>>
           g == Grab(w, x)
           m == GrabModal(w, p)
<1>1. p \in Page /\ w.pane[p] \in {0, 1}
  BY DEF GrabsOK, Window, ToSet
<1>2. x \in Widget /\ x[1] = p
  BY <1>1, PageFacts
<1>3. m = [g EXCEPT !.modal = @ \cup {p}]
  BY DEF GrabModal
<1>4. GrabsOK(m)
  BY GrabModalFacts DEF Regrabbed
<1> HIDE DEF x
<1>5. /\ GrabsOK(g) /\ ToSet(g.grabs) = ToSet(w.grabs) \cup {x} /\ SameButGrabs(w, g)
      /\ x \notin ToSet(w.grabs) => Last(g.grabs) = x
  <2>1. x[1] \in ToSet(w.pages) \cup {Nobody}
    BY <1>2
  <2>2. QED
    BY <1>2, <2>1, GrabFacts
<1> HIDE DEF g, m
<1>6. /\ m.grabs = g.grabs /\ m.pages = g.pages /\ m.shown = g.shown /\ m.current = g.current
      /\ m.active = g.active /\ m.has_focus = g.has_focus /\ m.split = g.split
      /\ m.pane = g.pane /\ m.stray = g.stray /\ m.modal = g.modal \cup {p}
  BY <1>3, <1>5 DEF GrabsOK, Window
<1>7. QED
  BY <1>4, <1>5, <1>6 DEF SameButGrabs, SamePlace, x, m

LEMMA ReleaseModalReach ==
  ASSUME NEW w, GrabsOK(w), NEW p \in Page
  PROVE  LET g == ReleaseModal(w, p)
             x == <<p, w.pane[p]>>
         IN  /\ GrabsOK(g) /\ SamePlace(w, g) /\ g.active = w.active
             /\ ToSet(g.grabs) = ToSet(w.grabs) \ {x} /\ g.modal = w.modal \ {p}
<1> DEFINE x == <<p, w.pane[p]>>
           g == Ungrab(w, x)
           m == ReleaseModal(w, p)
<1>1. x \in Widget
  BY PageFacts DEF GrabsOK, Window
<1>2. m = [g EXCEPT !.modal = @ \ {p}]
  BY DEF ReleaseModal
<1>3. GrabsOK(m)
  BY ReleaseModalFacts DEF Regrabbed
<1> HIDE DEF x
<1>4. GrabsOK(g) /\ ToSet(g.grabs) = ToSet(w.grabs) \ {x} /\ SameButGrabs(w, g)
  BY <1>1, UngrabFacts
<1> HIDE DEF g, m
<1>5. /\ m.grabs = g.grabs /\ m.pages = g.pages /\ m.shown = g.shown /\ m.current = g.current
      /\ m.active = g.active /\ m.has_focus = g.has_focus /\ m.split = g.split
      /\ m.pane = g.pane /\ m.stray = g.stray /\ m.modal = g.modal \ {p}
  BY <1>2, <1>4 DEF GrabsOK, Window
<1>6. QED
  BY <1>3, <1>4, <1>5 DEF SameButGrabs, SamePlace, x, m

LEMMA ReleaseCurrentReach ==
  ASSUME NEW w, GrabsOK(w), w.current \in DOMAIN w.pages
  PROVE  ReleasedFrom(w, ReleaseModal(w, w.pages[w.current]))
<1> DEFINE p == w.pages[w.current]
<1>1. p \in Page
  BY PagesIn DEF GrabsOK
<1> HIDE DEF p
<1>2. /\ GrabsOK(ReleaseModal(w, p)) /\ SamePlace(w, ReleaseModal(w, p))
      /\ ToSet(ReleaseModal(w, p).grabs) = ToSet(w.grabs) \ {<<p, w.pane[p]>>}
      /\ ReleaseModal(w, p).modal = w.modal \ {p}
  BY <1>1, ReleaseModalReach
<1>3. QED
  BY <1>2 DEF ReleasedFrom, p

LEMMA UngrabActiveReach ==
  ASSUME NEW w, GrabsOK(w)
  PROVE  ReleasedFrom(w, UngrabActive(w))
<1>1. CASE w.current \in DOMAIN w.pages
  <2> DEFINE r == ReleaseModal(w, w.pages[w.current])
             u == UngrabActive(w)
  <2>1. ReleasedFrom(w, r)
    BY <1>1, ReleaseCurrentReach
  <2>2. u = [r EXCEPT !.active = FALSE]
    BY <1>1 DEF UngrabActive
  <2>3. GrabsOK(u)
    BY UngrabActiveFacts DEF Regrabbed
  <2> HIDE DEF r, u
  <2>4. /\ u.grabs = r.grabs /\ u.pages = r.pages /\ u.shown = r.shown /\ u.current = r.current
        /\ u.has_focus = r.has_focus /\ u.split = r.split
        /\ u.pane = r.pane /\ u.stray = r.stray /\ u.modal = r.modal
    BY <2>1, <2>2 DEF ReleasedFrom, GrabsOK, Window
  <2>5. QED
    BY <1>1, <2>1, <2>3, <2>4 DEF ReleasedFrom, SamePlace, u
<1>2. CASE w.current \notin DOMAIN w.pages
  BY <1>2 DEF UngrabActive, ReleasedFrom, SamePlace
<1>3. QED
  BY <1>1, <1>2

LEMMA TwoPages ==
  ASSUME NEW w, GrabsOK(w), NoDup(w.pages), NEW i \in DOMAIN w.pages, NEW j \in DOMAIN w.pages, i # j
  PROVE  w.pages[i] # w.pages[j]
<1>1. i \in 1 .. Len(w.pages) /\ j \in 1 .. Len(w.pages)
  BY PagesIn DEF GrabsOK
<1>2. QED
  BY <1>1 DEF NoDup

\* What the page shown leaves when the window's page is released.
LEMMA ReleasedReach ==
  ASSUME NEW w, GrabsOK(w), w.shown \in DOMAIN w.pages, Reach(w), GrabsReach(w),
         NEW u, ReleasedFrom(w, u)
  PROVE  StrayGrabs(u) /\ LeftOver(u)
<1> DEFINE s == ShownPage(w)
<1>1. s \in Page /\ w.pane[s] \in {0, 1} /\ ShownPage(u) = s
  BY PagesIn DEF GrabsOK, Window, ReleasedFrom, SamePlace, ShownPage
<1>2. StrayGrabs(u)
  <2> SUFFICES ASSUME NEW g \in ToSet(u.grabs), g[1] \notin w.stray \cup {Nobody} PROVE FALSE
    BY DEF StrayGrabs, ReleasedFrom, SamePlace
  <2>1. g \in ToSet(w.grabs)
    BY DEF ReleasedFrom
  <2>2. g = <<s, 0>> /\ s \notin w.stray
    BY <2>1 DEF GrabsReach, ShownGrabs
  <2>3. w.current = w.shown
    BY <2>2 DEF GrabsReach, LeftOver, Off
  <2>4. w.pane[s] = 0
    BY <1>1, <2>2 DEF Reach, PanesOK
  <2>5. QED
    BY <2>2, <2>3, <2>4 DEF ReleasedFrom, ShownPage
<1>3. ASSUME Off(u) PROVE s \in u.stray \cap u.modal /\ \E g \in ToSet(u.grabs) : g[1] = s
  <2>1. Off(w) /\ w.shown = 1 /\ w.current = 2
    BY <1>3 DEF Off, ReleasedFrom, SamePlace, Reach, Follows
  <2>2. s \in w.stray \cap w.modal /\ \E g \in ToSet(w.grabs) : g[1] = s
    BY <2>1 DEF GrabsReach, LeftOver
  <2>3. CASE w.current \in DOMAIN w.pages
    <3> DEFINE p == w.pages[w.current]
    <3>1. p # s
      BY <2>1, <2>3, TwoPages DEF Reach, ShownPage
    <3>2. ToSet(u.grabs) = ToSet(w.grabs) \ {<<p, w.pane[p]>>} /\ u.modal = w.modal \ {p} /\ u.stray = w.stray
      BY <2>3 DEF ReleasedFrom, SamePlace
    <3> HIDE DEF p, s
    <3>3. QED
      BY <2>2, <3>1, <3>2
  <2>4. CASE w.current \notin DOMAIN w.pages
    BY <2>2, <2>4 DEF ReleasedFrom, SamePlace
  <2>5. QED
    BY <2>3, <2>4
<1>4. QED
  BY <1>1, <1>2, <1>3 DEF LeftOver

LEMMA ReachReleasable ==
  ASSUME NEW w, GrabsOK(w), w.shown \in DOMAIN w.pages, Reach(w), GrabsReach(w)
  PROVE  Releasable(w)
<1> DEFINE s == ShownPage(w)
<1>1. s \in Page /\ w.pane[s] \in {0, 1}
  BY PagesIn DEF GrabsOK, Window, ShownPage
<1>2. ASSUME NEW g \in ToSet(w.grabs), g[1] \notin w.stray \cup {Nobody}
      PROVE  w.current \in DOMAIN w.pages /\ g = <<w.pages[w.current], w.pane[w.pages[w.current]]>>
  <2>1. g = <<s, 0>> /\ s \notin w.stray
    BY <1>2 DEF GrabsReach, ShownGrabs
  <2>2. w.current = w.shown
    BY <2>1 DEF GrabsReach, LeftOver, Off
  <2>3. w.pane[s] = 0
    BY <1>1, <2>1 DEF Reach, PanesOK
  <2>4. QED
    BY <2>1, <2>2, <2>3 DEF ShownPage
<1>3. QED
  BY <1>2 DEF Releasable

LEMMA StrayReleasable ==
  ASSUME NEW w, StrayGrabs(w)
  PROVE  Releasable(w) /\ ShownGrabs(w)
BY DEF StrayGrabs, Releasable, ShownGrabs

LEMMA ReleasableStray ==
  ASSUME NEW w, Releasable(w), NEW u, ReleasedFrom(w, u)
  PROVE  StrayGrabs(u)
<1>1. ASSUME NEW g \in ToSet(u.grabs) PROVE g[1] \in u.stray \cup {Nobody}
  <2>1. g \in ToSet(w.grabs) /\ u.stray = w.stray
    BY DEF ReleasedFrom, SamePlace
  <2>2. CASE g[1] \in w.stray \cup {Nobody}
    BY <2>1, <2>2
  <2>3. CASE g[1] \notin w.stray \cup {Nobody}
    <3>1. w.current \in DOMAIN w.pages /\ g = <<w.pages[w.current], w.pane[w.pages[w.current]]>>
      BY <2>1, <2>3 DEF Releasable
    <3>2. QED
      BY <3>1 DEF ReleasedFrom
  <2>4. QED
    BY <2>2, <2>3
<1>2. QED
  BY <1>1 DEF StrayGrabs

\* The bar and the terminal get nothing by it.
OnlyPages(w, r) == \A g \in ToSet(r.grabs) : g \in ToSet(w.grabs) \/ g[1] \in Page

\* Page n gets the keys.
GivenTo(w, r, n) ==
  /\ GrabsOK(r) /\ r.pages = w.pages /\ r.current = n /\ r.active = TRUE
  /\ r.has_focus = w.has_focus /\ r.split = w.split /\ r.pane = w.pane /\ r.stray = w.stray
  /\ OnlyPages(w, r)

Gets(r, p) ==
  IF r.has_focus THEN OnTop(r.grabs, p) /\ p \in r.modal ELSE StrayGrabs(r)

LEMMA GrabActiveReach ==
  ASSUME NEW w, GrabsOK(w), NEW n \in DOMAIN w.pages
  PROVE  /\ GivenTo(w, GrabActive(w, n), n) /\ GrabActive(w, n).shown = w.shown
         /\ Few(w) /\ Releasable(w) =>
              Releasable(GrabActive(w, n)) /\ Gets(GrabActive(w, n), w.pages[n])
<1> DEFINE p == w.pages[n]
           u == UngrabActive(w)
           g == IF u.has_focus THEN GrabModal(u, u.pages[n]) ELSE u
           r == GrabActive(w, n)
           x == <<p, w.pane[p]>>
<1>1. ReleasedFrom(w, u)
  BY UngrabActiveReach
<1>2. r = [g EXCEPT !.current = n, !.active = TRUE]
  BY DEF GrabActive
<1> HIDE DEF u
<1>3. GrabsOK(u) /\ SamePlace(w, u) /\ u.pages[n] = p /\ u.pane[p] = w.pane[p]
  BY <1>1 DEF ReleasedFrom, SamePlace
<1>4. p \in ToSet(u.pages) /\ n \in Nat /\ p \in Page
  <2>1. n \in DOMAIN u.pages
    BY <1>3 DEF SamePlace
  <2>2. QED
    BY <1>3, <2>1, PagesIn DEF GrabsOK
<1>5. GrabsOK(g) /\ SamePlace(u, g)
      /\ IF w.has_focus
         THEN /\ ToSet(g.grabs) = ToSet(u.grabs) \cup {x} /\ g.modal = u.modal \cup {p}
              /\ x \notin ToSet(u.grabs) => Last(g.grabs) = x
         ELSE g = u
  <2>1. CASE w.has_focus
    <3>1. g = GrabModal(u, p)
      BY <1>3, <2>1 DEF SamePlace
    <3> HIDE DEF g, p
    <3>2. QED
      BY <1>3, <1>4, <2>1, <3>1, GrabModalReach
  <2>2. CASE ~w.has_focus
    BY <1>3, <2>2 DEF SamePlace
  <2>3. QED
    BY <2>1, <2>2
<1> HIDE DEF g, r
<1>6. /\ r.grabs = g.grabs /\ r.pages = g.pages /\ r.shown = g.shown /\ r.current = n
      /\ r.active = TRUE /\ r.has_focus = g.has_focus /\ r.split = g.split
      /\ r.pane = g.pane /\ r.stray = g.stray /\ r.modal = g.modal
  BY <1>2, <1>4, <1>5 DEF GrabsOK, Window
<1>7. GrabsOK(r)
  BY GrabActiveFacts DEF Regrabbed, r
<1>8. GivenTo(w, r, n) /\ r.shown = w.shown
  <2>1. ToSet(u.grabs) \subseteq ToSet(w.grabs)
    BY <1>1 DEF ReleasedFrom
  <2>2. ToSet(r.grabs) \subseteq ToSet(u.grabs) \cup {x} /\ x[1] = p
    BY <1>5, <1>6
  <2> HIDE DEF x
  <2>3. OnlyPages(w, r)
    BY <1>4, <2>1, <2>2 DEF OnlyPages
  <2>4. QED
    BY <1>3, <1>5, <1>6, <1>7, <2>3 DEF GivenTo, SamePlace
<1>9. ASSUME Few(w), Releasable(w) PROVE Releasable(r) /\ Gets(r, p)
  <2>1. StrayGrabs(u)
    BY <1>1, <1>9, ReleasableStray
  <2>2. r.stray = w.stray /\ u.stray = w.stray /\ r.has_focus = w.has_focus
    BY <1>3, <1>8 DEF SamePlace, GivenTo
  <2>3. CASE ~w.has_focus
    <3>1. StrayGrabs(r)
      BY <1>5, <1>6, <2>1, <2>2, <2>3 DEF StrayGrabs
    <3>2. QED
      BY <2>2, <2>3, <3>1, StrayReleasable DEF Gets
  <2>4. CASE w.has_focus
    <3>1. ToSet(r.grabs) = ToSet(u.grabs) \cup {x} /\ p \in r.modal
          /\ (x \notin ToSet(u.grabs) => Last(r.grabs) = x)
      BY <1>5, <1>6, <2>4
    <3>2. r.current \in DOMAIN r.pages /\ x = <<r.pages[r.current], r.pane[r.pages[r.current]]>>
      BY <1>8 DEF GivenTo
    <3> HIDE DEF x
    <3>3. Releasable(r)
      BY <2>1, <2>2, <3>1, <3>2 DEF Releasable, StrayGrabs
    <3>4. x[1] = p
      BY DEF x
    <3>5. OnTop(r.grabs, p)
      <4>1. CASE x \notin ToSet(u.grabs)
        BY <3>1, <3>4, <4>1 DEF OnTop
      <4>2. CASE x \in ToSet(u.grabs)
        <5>1. p \in w.stray
          <6>1. x[1] \in w.stray \cup {Nobody}
            BY <2>1, <2>2, <4>2 DEF StrayGrabs
          <6>2. QED
            BY <1>4, <3>4, <6>1, PageFacts
        <5>2. \A g1 \in ToSet(r.grabs) : g1[1] \in {p, Nobody}
          BY <1>9, <2>1, <2>2, <3>1, <4>2, <5>1 DEF StrayGrabs, Few
        <5>3. QED
          BY <3>1, <3>4, <5>2 DEF OnTop
      <4>3. QED
        BY <4>1, <4>2
    <3>6. QED
      BY <2>2, <2>4, <3>1, <3>3, <3>5 DEF Gets
  <2>5. QED
    BY <2>3, <2>4
<1>10. QED
  BY <1>8, <1>9 DEF r

LEMMA SetActiveReach ==
  ASSUME NEW w, GrabsOK(w), w.shown \in DOMAIN w.pages, NEW n \in DOMAIN w.pages
  PROVE  /\ GivenTo(w, SetActive(w, n), n) /\ SetActive(w, n).shown = n
         /\ Few(w) /\ Releasable(w) =>
              Releasable(SetActive(w, n)) /\ Gets(SetActive(w, n), w.pages[n])
<1>1. CASE w.shown = n
  <2>1. SetActive(w, n) = GrabActive(w, n)
    BY <1>1 DEF SetActive
  <2>2. QED
    BY <1>1, <2>1, GrabActiveReach
<1>2. CASE w.shown # n
  <2> DEFINE v == [w EXCEPT !.shown = n]
             g == GrabActive(v, n)
  <2>1. SetActive(w, n) = GrabActive(g, n)
    BY <1>2 DEF SetActive
  <2>2. n \in Nat /\ w \in Window
    BY PagesIn DEF GrabsOK
  <2>3. /\ v.pages = w.pages /\ v.shown = n /\ v.current = w.current /\ v.grabs = w.grabs
        /\ v.has_focus = w.has_focus /\ v.split = w.split /\ v.pane = w.pane
        /\ v.stray = w.stray /\ v.modal = w.modal /\ v \in Window
    BY <2>2 DEF Window
  <2> HIDE DEF v
  <2>4. GrabsOK(v) /\ (Few(w) => Few(v)) /\ (Releasable(w) => Releasable(v)) /\ n \in DOMAIN v.pages
    BY <2>3 DEF GrabsOK, Few, Releasable
  <2>5. /\ GivenTo(v, g, n) /\ g.shown = n
        /\ Few(v) /\ Releasable(v) => Releasable(g)
    BY <2>3, <2>4, GrabActiveReach
  <2> HIDE DEF g
  <2>6. GrabsOK(g) /\ (Few(v) => Few(g)) /\ g.pages = w.pages /\ n \in DOMAIN g.pages
    BY <2>3, <2>5 DEF GivenTo, Few
  <2>7. /\ GivenTo(g, GrabActive(g, n), n) /\ GrabActive(g, n).shown = n
        /\ Few(g) /\ Releasable(g) =>
             Releasable(GrabActive(g, n)) /\ Gets(GrabActive(g, n), g.pages[n])
    BY <2>5, <2>6, GrabActiveReach
  <2>8. GivenTo(w, GrabActive(g, n), n)
    BY <2>3, <2>5, <2>7 DEF GivenTo, OnlyPages
  <2>9. QED
    BY <2>1, <2>4, <2>5, <2>6, <2>7, <2>8
<1>3. QED
  BY <1>1, <1>2

\* The page that the window shows has the keys, or would if there was focus.
InPlace(w) == w.shown \in DOMAIN w.pages /\ Reach(w) /\ w.current = w.shown
Keyed(w) == Few(w) => GrabsReach(w) /\ Gets(w, ShownPage(w))

LEMMA SetActiveSettles ==
  ASSUME NEW w, GrabsOK(w), w.shown \in DOMAIN w.pages, NEW n \in DOMAIN w.pages,
         NoDup(w.pages), PanesOK(w)
  PROVE  /\ InPlace(SetActive(w, n)) /\ GivenTo(w, SetActive(w, n), n)
         /\ SetActive(w, n).shown = n
         /\ (Few(w) => Releasable(w)) => Keyed(SetActive(w, n))
<1> DEFINE r == SetActive(w, n)
<1>1. /\ GivenTo(w, r, n) /\ r.shown = n
      /\ Few(w) /\ Releasable(w) => Releasable(r) /\ Gets(r, w.pages[n])
  BY SetActiveReach
<1> HIDE DEF r
<1>2. GrabsOK(r) /\ r.current = n /\ r.pages = w.pages /\ ShownPage(r) = w.pages[n]
      /\ w.pages[n] \in Page /\ (Few(r) => Few(w))
  BY <1>1, PagesIn DEF GivenTo, ShownPage, GrabsOK, Few
<1>3. NoDup(r.pages) /\ PanesOK(r) /\ Follows(r) /\ ~Off(r)
  BY <1>1 DEF GivenTo, PanesOK, Follows, Off
<1>4. ASSUME Few(r), Few(w) => Releasable(w) PROVE ShownGrabs(r)
  <2>1. Releasable(r)
    BY <1>1, <1>2, <1>4
  <2>2. r.pane[w.pages[n]] \in {0, 1} /\ (w.pages[n] \notin r.stray => r.pane[w.pages[n]] = 0)
    BY <1>2, <1>3 DEF PanesOK, GrabsOK, Window
  <2>3. QED
    BY <1>2, <2>1, <2>2 DEF Releasable, ShownGrabs
<1>5. QED
  BY <1>1, <1>2, <1>3, <1>4 DEF InPlace, Keyed, Reach, GrabsReach, LeftOver, r

LEMMA AddModeReach ==
  ASSUME NEW w, GrabsOK(w), w.shown \in DOMAIN w.pages, Reach(w),
         NEW p \in Page, p \notin ToSet(w.pages)
  PROVE  LET r == AddMode(w, p)
         IN  /\ GrabsOK(r) /\ InPlace(r) /\ r.active /\ r.current \in DOMAIN r.pages
             /\ r.has_focus = w.has_focus /\ r.stray = w.stray /\ OnlyPages(w, r)
             /\ ToSet(r.pages) = ToSet(w.pages) \cup {p}
             /\ (Few(w) => GrabsReach(w)) => Keyed(r)
<1> DEFINE s == w.pages
           f == IF w.current < Len(s) THEN w.current + 1 ELSE Len(s) + 1
           t == InsertAt(s, f, p)
           v == [w EXCEPT !.pages = t]
<1>1. w \in Window /\ s \in Seq(Page) /\ Len(s) \in Nat /\ w.current \in Nat
      /\ w.shown \in 1 .. Len(s) /\ Follows(w)
  BY PagesIn DEF GrabsOK, Window, Reach
<1>2. f \in 1 .. Len(s) + 1 /\ w.shown < f
  BY <1>1 DEF Follows
<1>3. w.current = w.shown \/ (w.current \in DOMAIN s => w.current < f)
  BY <1>1 DEF Follows
<1>4. AddMode(w, p) = SetActive(v, f)
  BY DEF AddMode
<1> HIDE DEF f
<1>5. /\ t \in Seq(Page) /\ Len(t) = Len(s) + 1 /\ f \in DOMAIN t
      /\ \A k \in 1 .. Len(s) + 1 : k < f => t[k] = s[k]
      /\ NoDup(t) /\ ToSet(t) = ToSet(s) \cup {p}
  <2>1. NoDup(s)
    BY DEF Reach
  <2> HIDE DEF s, v
  <2>2. s \in Seq(Page) /\ f \in 1 .. Len(s) + 1 /\ p \in Page /\ p \notin ToSet(s)
    BY <1>1, <1>2 DEF s
  <2>3. t \in Seq(Page) /\ f \in DOMAIN t
    BY <2>2, InsertAtKeeps
  <2>4. /\ NoDup(t) /\ ToSet(t) = ToSet(s) \cup {p} /\ Len(t) = Len(s) + 1
        /\ \A k \in 1 .. Len(s) + 1 : k < f => t[k] = s[k]
    BY <2>1, <2>2, InsertAtUnique
  <2>5. QED
    BY <2>3, <2>4
<1> HIDE DEF t
<1>6. /\ v.pages = t /\ v.shown = w.shown /\ v.current = w.current /\ v.grabs = w.grabs
      /\ v.has_focus = w.has_focus /\ v.split = w.split /\ v.pane = w.pane
      /\ v.stray = w.stray /\ v.modal = w.modal /\ v \in Window
  BY <1>1, <1>5 DEF Window
<1> HIDE DEF v
<1>7. GrabsOK(v) /\ v.shown \in DOMAIN v.pages /\ ShownPage(v) = ShownPage(w)
  <2>1. GrabsOK(v)
    BY <1>5, <1>6 DEF GrabsOK
  <2>2. DOMAIN t = 1 .. Len(s) + 1 /\ w.shown \in 1 .. Len(s) + 1
    BY <1>1, <1>5
  <2>3. t[w.shown] = s[w.shown]
    BY <1>2, <1>5, <2>2
  <2>4. QED
    BY <1>6, <2>1, <2>2, <2>3 DEF ShownPage
<1>8. Reach(v) /\ (Few(v) = Few(w)) /\ (GrabsReach(w) => GrabsReach(v))
  <2>1. Reach(v)
    BY <1>1, <1>5, <1>6 DEF Reach, PanesOK, Follows
  <2>2. ASSUME GrabsReach(w) PROVE GrabsReach(v)
    BY <1>6, <1>7, <2>2 DEF GrabsReach, ShownGrabs, LeftOver, Off
  <2>3. Few(v) = Few(w)
    BY <1>6 DEF Few
  <2>4. QED
    BY <2>1, <2>2, <2>3
<1>9. GrabsReach(v) => Releasable(v)
  BY <1>7, <1>8, ReachReleasable
<1>10. /\ InPlace(SetActive(v, f)) /\ GivenTo(v, SetActive(v, f), f)
       /\ (Few(v) => Releasable(v)) => Keyed(SetActive(v, f))
  <2>1. f \in DOMAIN v.pages /\ NoDup(v.pages) /\ PanesOK(v)
    BY <1>5, <1>6, <1>8 DEF Reach
  <2>2. QED
    BY <1>7, <2>1, SetActiveSettles
<1>11. (Few(w) => GrabsReach(w)) => Keyed(SetActive(v, f))
  BY <1>8, <1>9, <1>10
<1>12. QED
  BY <1>4, <1>5, <1>6, <1>10, <1>11 DEF GivenTo, OnlyPages

\* d is w without the thread of page p.
PaneGone(w, d, p) ==
  /\ GrabsOK(d) /\ d.pages = w.pages /\ d.shown = w.shown /\ d.current = w.current
  /\ d.active = w.active /\ d.has_focus = w.has_focus /\ d.stray = w.stray
  /\ d.split = w.split \ {p} /\ d.pane = [w.pane EXCEPT ![p] = 0]
  /\ d.modal = w.modal
  /\ ToSet(d.grabs) = (ToSet(w.grabs) \ {<<p, 1>>})
                        \cup (IF p \in w.modal THEN {<<p, 0>>} ELSE {})

LEMMA DelPaneReach ==
  ASSUME NEW w, GrabsOK(w), NEW p \in ToSet(w.pages)
  PROVE  PaneGone(w, DelPane(w, p), p)
<1> DEFINE focused == w.pane[p] = 1 /\ p \in w.modal
           m == ReleaseModal(w, p)
           r == IF focused THEN [m EXCEPT !.modal = @ \cup {p}] ELSE w
           g == Ungrab(r, <<p, 1>>)
           d == [g EXCEPT !.split = @ \ {p}, !.pane[p] = 0]
           e == IF p \in d.modal THEN GrabModal(d, p) ELSE d
           x == <<p, 1>>
<1>1. p \in Page /\ x \in Widget /\ w \in Window
  <2>1. p \in Page
    BY DEF GrabsOK, Window, ToSet
  <2>2. QED
    BY <2>1, PageFacts DEF GrabsOK
<1>2. DelPane(w, p) = e
  BY DEF DelPane
<1>3. GrabsOK(DelPane(w, p))
  BY DelPaneFacts DEF Regrabbed
<1>4. /\ GrabsOK(m) /\ SamePlace(w, m) /\ m.active = w.active
      /\ ToSet(m.grabs) = ToSet(w.grabs) \ {<<p, w.pane[p]>>} /\ m.modal = w.modal \ {p}
  BY <1>1, ReleaseModalReach
<1> HIDE DEF m, x
<1>5. /\ GrabsOK(r) /\ SamePlace(w, r) /\ r.active = w.active /\ r.modal = w.modal
      /\ ToSet(r.grabs) \ {x} = ToSet(w.grabs) \ {x}
  <2>1. CASE focused
    <3>1. r = [m EXCEPT !.modal = w.modal]
      <4>1. m.modal \cup {p} = w.modal
        BY <1>4, <2>1
      <4>2. QED
        BY <2>1, <4>1
    <3>2. m \in Window /\ w.modal \subseteq Page
      BY <1>1, <1>4 DEF GrabsOK, Window
    <3> HIDE DEF r, focused
    <3>3. /\ r.grabs = m.grabs /\ r.pages = m.pages /\ r.shown = m.shown
          /\ r.current = m.current /\ r.active = m.active /\ r.has_focus = m.has_focus
          /\ r.split = m.split /\ r.pane = m.pane /\ r.stray = m.stray /\ r.modal = w.modal
          /\ r \in Window
      BY <3>1, <3>2 DEF Window
    <3>4. GrabsOK(r)
      BY <1>4, <3>3 DEF GrabsOK
    <3>5. w.pane[p] = 1
      BY <2>1 DEF focused
    <3>6. QED
      BY <1>4, <3>3, <3>4, <3>5 DEF SamePlace, x
  <2>2. CASE ~focused
    BY <2>2 DEF SamePlace
  <2>3. QED
    BY <2>1, <2>2
<1> HIDE DEF r
<1>6. /\ GrabsOK(g) /\ ToSet(g.grabs) = ToSet(w.grabs) \ {x} /\ SamePlace(w, g)
      /\ g.active = w.active /\ g.modal = w.modal
  <2>1. GrabsOK(g) /\ ToSet(g.grabs) = ToSet(r.grabs) \ {x} /\ SameButGrabs(r, g)
    BY <1>1, <1>5, UngrabFacts DEF x
  <2> HIDE DEF g
  <2>2. QED
    BY <1>5, <2>1 DEF SameButGrabs, SamePlace
<1> HIDE DEF g
<1>7. /\ d.grabs = g.grabs /\ d.pages = g.pages /\ d.shown = g.shown /\ d.current = g.current
      /\ d.active = g.active /\ d.has_focus = g.has_focus /\ d.stray = g.stray
      /\ d.modal = g.modal /\ d.split = g.split \ {p} /\ d.pane = [g.pane EXCEPT ![p] = 0]
      /\ d \in Window
  BY <1>1, <1>6 DEF GrabsOK, Window
<1> HIDE DEF d
<1>8. GrabsOK(d) /\ p \in ToSet(d.pages) /\ d.pane[p] = 0
  <2>1. GrabsOK(d)
    BY <1>6, <1>7 DEF GrabsOK
  <2>2. d.pane[p] = 0
    BY <1>1, <1>6, <1>7 DEF GrabsOK, Window
  <2>3. QED
    BY <1>6, <1>7, <2>1, <2>2 DEF SamePlace
<1>9. /\ SamePlace(d, e) /\ e.active = d.active /\ e.modal = d.modal
      /\ ToSet(e.grabs) = ToSet(d.grabs) \cup (IF p \in d.modal THEN {<<p, 0>>} ELSE {})
  <2>1. CASE p \in d.modal
    <3> DEFINE z == <<p, d.pane[p]>>
    <3>1. /\ SamePlace(d, GrabModal(d, p)) /\ GrabModal(d, p).active = d.active
          /\ ToSet(GrabModal(d, p).grabs) = ToSet(d.grabs) \cup {z}
          /\ GrabModal(d, p).modal = d.modal \cup {p}
      BY <1>8, GrabModalReach
    <3>2. z = <<p, 0>>
      BY <1>8
    <3>3. QED
      BY <2>1, <3>1, <3>2
  <2>2. CASE p \notin d.modal
    BY <2>2 DEF SamePlace
  <2>3. QED
    BY <2>1, <2>2
<1> HIDE DEF e
<1>10. QED
  BY <1>2, <1>3, <1>6, <1>7, <1>9 DEF SamePlace, PaneGone, x

\* u is w without its page p at c.
PageGone(w, u, p, c) ==
  /\ GrabsOK(u) /\ u.current = w.current /\ u.active = w.active
  /\ u.has_focus = w.has_focus /\ u.split = w.split /\ u.pane = w.pane
  /\ u.modal = w.modal
  /\ u.stray = IF c = 1 THEN w.stray \cup {w.pages[2]} ELSE w.stray
  /\ u.shown = IF w.shown > c THEN w.shown - 1 ELSE w.shown
  /\ u.pages = RemoveAt(w.pages, c)
  /\ ToSet(u.grabs) = ToSet(w.grabs) \ {<<p, 0>>, <<p, 1>>}
  /\ (\A g \in ToSet(w.grabs) : g[1] # p) => u.grabs = w.grabs

LEMMA RemovePageReach ==
  ASSUME NEW w, GrabsOK(w), NEW c \in DOMAIN w.pages, Len(w.pages) > 1
  PROVE  PageGone(w, RemovePage(w, c), w.pages[c], c)
<1> DEFINE s == w.pages
           p == s[c]
           g == Ungrab(w, <<p, 0>>)
           h == Ungrab(g, <<p, 1>>)
           stray == IF c = 1 THEN w.stray \cup {s[2]} ELSE w.stray
           u == RemovePage(w, c)
<1>1. GrabsOK(u)
  BY RemovePageFacts
<1>2. w \in Window /\ <<p, 0>> \in Widget /\ <<p, 1>> \in Widget
  BY PagesIn, PageFacts DEF GrabsOK
<1>3. GrabsOK(g) /\ ToSet(g.grabs) = ToSet(w.grabs) \ {<<p, 0>>} /\ SameButGrabs(w, g)
  BY <1>2, UngrabFacts
<1>4. GrabsOK(h) /\ ToSet(h.grabs) = ToSet(g.grabs) \ {<<p, 1>>} /\ SameButGrabs(g, h)
  <2> HIDE DEF g
  <2>1. QED
    BY <1>2, <1>3, UngrabFacts
<1>5. (\A y \in ToSet(w.grabs) : y[1] # p) => h.grabs = w.grabs
  <2>1. ASSUME \A y \in ToSet(w.grabs) : y[1] # p PROVE h = w
    <3>1. <<p, 0>> \notin ToSet(w.grabs) /\ <<p, 1>> \notin ToSet(w.grabs)
      BY <2>1
    <3>2. QED
      BY <3>1 DEF Ungrab
  <2>2. QED
    BY <2>1
<1>6. u = [h EXCEPT !.pages = RemoveAt(@, c), !.shown = IF @ > c THEN @ - 1 ELSE @,
                    !.stray = IF c = 1 THEN @ \cup {w.pages[2]} ELSE @]
  BY DEF RemovePage
<1> HIDE DEF g, h, u
<1>7. /\ u.current = h.current /\ u.active = h.active /\ u.has_focus = h.has_focus
      /\ u.split = h.split /\ u.pane = h.pane /\ u.modal = h.modal /\ u.grabs = h.grabs
      /\ u.stray = IF c = 1 THEN h.stray \cup {w.pages[2]} ELSE h.stray
      /\ u.shown = IF h.shown > c THEN h.shown - 1 ELSE h.shown
      /\ u.pages = RemoveAt(h.pages, c)
  BY <1>4, <1>6 DEF GrabsOK, Window
<1>8. QED
  BY <1>1, <1>3, <1>4, <1>5, <1>7 DEF SameButGrabs, PageGone, u

\* The page p that is closed leaves no grab, and q stays on top.
LEMMA OthersGone ==
  ASSUME NEW s, GrabsOK(s), InPlace(s), Keyed(s), NEW q, q = ShownPage(s), NEW p \in Page, p # q,
         s.has_focus, NEW d, NEW u, GrabsOK(u),
         d = s \/ (p \in s.split /\ GrabsOK(d) /\
                   ToSet(d.grabs) \subseteq ToSet(s.grabs) \cup {<<p, 0>>} /\
                   \A g \in ToSet(s.grabs) : g[1] # p => g \in ToSet(d.grabs)),
         ToSet(u.grabs) = ToSet(d.grabs) \ {<<p, 0>>, <<p, 1>>},
         (\A g \in ToSet(d.grabs) : g[1] # p) => u.grabs = d.grabs,
         s.stray \subseteq u.stray, Few(u), p \in s.stray => u.stray = s.stray
  PROVE  /\ OnTop(u.grabs, q)
         /\ \A g \in ToSet(u.grabs) : g[1] \in u.stray \cup {Nobody} \/ g = <<q, 0>>
<1>1. Few(s)
  BY DEF Few
<1>2. /\ ShownGrabs(s) /\ OnTop(s.grabs, q) /\ PanesOK(s) /\ p # Nobody
  BY <1>1, PageFacts DEF InPlace, Keyed, GrabsReach, Gets, Reach
<1>3. CASE p \in s.stray
  <2>1. \A g \in ToSet(s.grabs) : g[1] \in {p, Nobody} \/ g = <<q, 0>>
    BY <1>1, <1>2, <1>3 DEF ShownGrabs, Few
  <2>2. ASSUME NEW g \in ToSet(u.grabs) PROVE g[1] # p /\ g \in ToSet(s.grabs)
    <3>1. g \in Widget
      BY DEF GrabsOK, Window, ToSet
    <3>2. g # <<p, 0>> /\ g # <<p, 1>>
      OBVIOUS
    <3>3. g[1] # p
      BY <3>1, <3>2 DEF Widget
    <3>4. QED
      BY <3>2, <3>3
  <2>3. ASSUME NEW g \in ToSet(s.grabs), g[1] # p PROVE g \in ToSet(u.grabs)
    <3>1. g \in ToSet(d.grabs)
      BY <2>3
    <3>2. g # <<p, 0>> /\ g # <<p, 1>>
      BY <2>3
    <3>3. QED
      BY <3>1, <3>2
  <2>4. \A g \in ToSet(u.grabs) : g[1] = Nobody \/ g = <<q, 0>>
    BY <2>1, <2>2
  <2>5. PICK y \in ToSet(s.grabs) : y[1] = q
    BY <1>2 DEF OnTop
  <2>6. y \in ToSet(u.grabs)
    BY <2>3, <2>5
  <2>7. \A g \in ToSet(u.grabs) : g[1] \in {q, Nobody}
    BY <2>4
  <2>8. QED
    BY <2>4, <2>5, <2>6, <2>7 DEF OnTop
<1>4. CASE p \notin s.stray
  <2>1. d = s
    BY <1>2, <1>4 DEF PanesOK
  <2>2. \A g \in ToSet(s.grabs) : g[1] # p
    BY <1>2, <1>4 DEF ShownGrabs
  <2>3. u.grabs = s.grabs
    BY <2>1, <2>2
  <2>4. QED
    BY <1>2, <2>3 DEF ShownGrabs
<1>5. QED
  BY <1>3, <1>4

\* What a page that goes leaves.
Ends(w, u) ==
  /\ Reach(u) /\ ToSet(u.pages) \subseteq ToSet(w.pages)
  /\ u.has_focus = w.has_focus /\ w.stray \subseteq u.stray /\ OnlyPages(w, u)

LEMMA DelModeReach ==
  ASSUME NEW w, GrabsOK(w), w.shown \in DOMAIN w.pages, Reach(w),
         NEW c \in DOMAIN w.pages, Len(w.pages) # 1
  PROVE  LET u == DelMode(w, c)
         IN  /\ Ends(w, u) /\ u.active /\ Len(u.pages) = Len(w.pages) - 1
             /\ w.has_focus /\ Few(u) /\ (Few(w) => GrabsReach(w)) => GrabsReach(u) /\ Held(u)
<1> DEFINE n == IF c = 1 THEN 2 ELSE c - 1
           s == SetActive(w, n)
           p == w.pages[c]
           q == w.pages[n]
           d == IF p \in s.split THEN DelPane(s, p) ELSE s
           u == RemovePage(d, c)
<1>1. w.pages \in Seq(Page) /\ Len(w.pages) \in Nat /\ c \in 1 .. Len(w.pages)
      /\ DOMAIN w.pages = 1 .. Len(w.pages)
  BY PagesIn DEF GrabsOK, Window
<1>2. n \in DOMAIN w.pages /\ n # c /\ Len(w.pages) > 1 /\ n \in Nat
  <2>1. \A m \in Nat : \A k \in 1 .. m : m # 1 => m > 1
    OBVIOUS
  <2>2. Len(w.pages) > 1
    BY <1>1, <2>1
  <2>3. QED
    BY <1>1, <2>2
<1>3. p \in Page /\ q \in Page /\ p # q
  BY <1>2, PagesIn, TwoPages DEF GrabsOK, Reach
<1>4. DelMode(w, c) = u
  BY DEF DelMode
<1>5. (n = 2 /\ c = 1) \/ (n = c - 1 /\ c # 1)
  OBVIOUS
<1>6. GrabsReach(w) => Releasable(w)
  BY ReachReleasable
<1> HIDE DEF n, p, q
<1>7. InPlace(s) /\ GivenTo(w, s, n) /\ s.shown = n /\ ((Few(w) => GrabsReach(w)) => Keyed(s))
  <2>1. NoDup(w.pages) /\ PanesOK(w)
    BY DEF Reach
  <2>2. QED
    BY <1>2, <1>6, <2>1, SetActiveSettles
<1> HIDE DEF s
<1>8. GrabsOK(s) /\ s.pages = w.pages /\ s.current = n /\ ShownPage(s) = q /\ p \in ToSet(s.pages)
  BY <1>7, PagesIn DEF GivenTo, ShownPage, GrabsOK, p, q
<1>9. /\ GrabsOK(d) /\ d.pages = w.pages /\ d.shown = n /\ d.current = n /\ d.active
      /\ d.has_focus = w.has_focus /\ d.stray = w.stray /\ d.split \subseteq s.split \ {p}
      /\ d.modal = s.modal /\ ToSet(d.grabs) \subseteq ToSet(s.grabs) \cup {<<p, 0>>}
      /\ \A g \in ToSet(s.grabs) : g[1] # p => g \in ToSet(d.grabs)
  <2>1. s.active /\ s.has_focus = w.has_focus /\ s.stray = w.stray
    BY <1>7 DEF GivenTo
  <2>2. CASE p \in s.split
    <3>1. d = DelPane(s, p)
      BY <2>2
    <3>0. GrabsOK(s) /\ p \in ToSet(s.pages)
      BY <1>8
    <3> HIDE DEF d
    <3>2. PaneGone(s, d, p)
      BY <3>0, <3>1, DelPaneReach
    <3>3. \A g \in ToSet(s.grabs) : g[1] # p => g \in ToSet(d.grabs)
      BY <3>2 DEF PaneGone
    <3>4. ToSet(d.grabs) \subseteq ToSet(s.grabs) \cup {<<p, 0>>}
      BY <3>2 DEF PaneGone
    <3>5. QED
      BY <1>7, <1>8, <2>1, <3>2, <3>3, <3>4 DEF PaneGone
  <2>3. CASE p \notin s.split
    BY <1>7, <1>8, <2>1, <2>3
  <2>4. QED
    BY <2>2, <2>3
<1>10. PanesOK(d)
  <2>1. PanesOK(s)
    BY <1>7 DEF InPlace, Reach
  <2>2. CASE p \in s.split
    <3>1. d.split = s.split \ {p} /\ d.pane = [s.pane EXCEPT ![p] = 0] /\ d.stray = s.stray
      BY <1>8, <2>2, DelPaneReach DEF PaneGone
    <3>2. DOMAIN s.pane = Page
      BY <1>8 DEF GrabsOK, Window
    <3> HIDE DEF d
    <3>3. QED
      BY <2>1, <3>1, <3>2 DEF PanesOK
  <2>3. CASE p \notin s.split
    BY <2>1, <2>3
  <2>4. QED
    BY <2>2, <2>3
<1>11. d = s \/ p \in s.split
  OBVIOUS
<1> HIDE DEF d
<1>12. /\ GrabsOK(u) /\ u.current = n /\ u.active /\ u.has_focus = w.has_focus
       /\ u.split = d.split /\ u.pane = d.pane /\ u.modal = s.modal
       /\ u.stray = IF c = 1 THEN w.stray \cup {w.pages[2]} ELSE w.stray
       /\ u.shown = IF n > c THEN n - 1 ELSE n
       /\ u.pages = RemoveAt(w.pages, c)
       /\ ToSet(u.grabs) = ToSet(d.grabs) \ {<<p, 0>>, <<p, 1>>}
       /\ (\A g \in ToSet(d.grabs) : g[1] # p) => u.grabs = d.grabs
  <2>1. GrabsOK(d) /\ c \in DOMAIN d.pages /\ Len(d.pages) > 1
    BY <1>2, <1>9
  <2>2. PageGone(d, u, d.pages[c], c)
    BY <2>1, RemovePageReach
  <2>3. d.pages[c] = p
    BY <1>9 DEF p
  <2> HIDE DEF u
  <2>4. QED
    BY <1>9, <2>2, <2>3 DEF PageGone
<1> HIDE DEF u
<1>13. /\ NoDup(u.pages) /\ ToSet(u.pages) \subseteq ToSet(w.pages)
       /\ Len(u.pages) = Len(w.pages) - 1
       /\ \A k \in 1 .. Len(w.pages) - 1 :
            u.pages[k] = IF k < c THEN w.pages[k] ELSE w.pages[k + 1]
  <2>1. NoDup(w.pages)
    BY DEF Reach
  <2>2. /\ NoDup(RemoveAt(w.pages, c))
        /\ ToSet(RemoveAt(w.pages, c)) = ToSet(w.pages) \ {w.pages[c]}
    BY <1>1, <2>1, WithoutFacts
  <2>3. /\ Len(RemoveAt(w.pages, c)) = Len(w.pages) - 1
        /\ \A k \in 1 .. Len(w.pages) - 1 :
             RemoveAt(w.pages, c)[k] = IF k < c THEN w.pages[k] ELSE w.pages[k + 1]
    BY <1>1, RemoveAtFacts
  <2>4. QED
    BY <1>12, <2>2, <2>3
<1>14. Follows(u) /\ ShownPage(u) = q /\ (Off(u) => c = 1)
  <2>1. CASE c = 1
    <3>1. u.shown = 1 /\ u.current = 2 /\ n = 2
      BY <1>5, <1>12, <2>1
    <3>2. u.pages[1] = w.pages[2]
      BY <1>1, <1>2, <1>13, <2>1
    <3>3. QED
      BY <2>1, <3>1, <3>2 DEF Follows, ShownPage, q
  <2>2. CASE c # 1
    <3>1. u.shown = n /\ u.current = n /\ n = c - 1
      BY <1>1, <1>5, <1>12, <2>2
    <3>2. u.pages[n] = w.pages[n]
      BY <1>1, <1>13, <2>2, <3>1
    <3>3. QED
      BY <3>1, <3>2 DEF Follows, ShownPage, q, Off
  <2>3. QED
    BY <2>1, <2>2
<1>15. w.stray \subseteq u.stray /\ (c = 1 => q \in u.stray) /\ (c # 1 => u.stray = w.stray)
  BY <1>5, <1>12 DEF q
<1>16. Reach(u)
  BY <1>9, <1>10, <1>12, <1>13, <1>14, <1>15 DEF Reach, PanesOK
<1>17. OnlyPages(w, u)
  <2>1. OnlyPages(w, s)
    BY <1>7 DEF GivenTo
  <2>2. ToSet(u.grabs) \subseteq ToSet(s.grabs) \cup {<<p, 0>>}
    BY <1>9, <1>12
  <2>3. <<p, 0>>[1] = p
    OBVIOUS
  <2>4. QED
    BY <1>3, <2>1, <2>2, <2>3 DEF OnlyPages
<1>18. ASSUME w.has_focus, Few(u), Few(w) => GrabsReach(w) PROVE GrabsReach(u) /\ Held(u)
  <2>1. Keyed(s) /\ Few(s) /\ s.has_focus /\ s.stray = w.stray
    BY <1>7, <1>15, <1>18 DEF GivenTo, Few
  <2>2. q \in u.modal
    BY <1>7, <1>8, <1>12, <2>1 DEF InPlace, Keyed, Gets
  <2>3. p \in s.stray => u.stray = s.stray
    BY <1>3, <1>15, <1>18, <2>1 DEF Few
  <2>4. /\ OnTop(u.grabs, q)
        /\ \A g \in ToSet(u.grabs) : g[1] \in u.stray \cup {Nobody} \/ g = <<q, 0>>
    BY <1>3, <1>7, <1>8, <1>9, <1>11, <1>12, <1>15, <1>18, <2>1, <2>3, OthersGone
  <2>5. ShownGrabs(u) /\ Held(u)
    BY <1>14, <2>2, <2>4 DEF ShownGrabs, Held
  <2>6. LeftOver(u)
    BY <1>14, <1>15, <2>2, <2>4 DEF LeftOver, OnTop
  <2>7. QED
    BY <2>5, <2>6 DEF GrabsReach
<1>19. QED
  BY <1>4, <1>12, <1>13, <1>15, <1>16, <1>17, <1>18 DEF Ends

\* What has been left behind is on top, if nothing else is there.
LEMMA LeftHeld ==
  ASSUME NEW w, NEW p \in w.stray, p = ShownPage(w), p \in w.modal, Few(w), StrayGrabs(w),
         \E g \in ToSet(w.grabs) : g[1] = p
  PROVE  GrabsReach(w) /\ Held(w)
<1>1. \A g \in ToSet(w.grabs) : g[1] \in {p, Nobody}
  BY DEF Few, StrayGrabs
<1>2. QED
  BY <1>1, StrayReleasable DEF GrabsReach, LeftOver, Held, OnTop

LEMMA OffHeld ==
  ASSUME NEW w, Off(w), LeftOver(w), Few(w), StrayGrabs(w)
  PROVE  GrabsReach(w) /\ Held(w)
<1>1. ShownPage(w) \in w.stray \cap w.modal /\ \E g \in ToSet(w.grabs) : g[1] = ShownPage(w)
  BY DEF LeftOver
<1>2. QED
  BY <1>1, LeftHeld

LEMMA AnyKeyFacts ==
  ASSUME WinInv, ReachInv, AnyKey
  PROVE  /\ GrabsOK(win) /\ ShownOK /\ PlaceOK /\ win.has_focus /\ ~in_quit
         /\ active_mode # "Terminal"
         /\ Calm => active_mode = "Window" /\ KeysOK /\ Held(win)
<1>1. PICK p \in Page, i \in {0, 1} : WinKey(<<p, i>>)
  BY DEF AnyKey
<1>2. win.has_focus
  BY <1>1 DEF WinKey, Receives
<1>3. ~in_quit /\ active_mode # "Terminal" /\ (active_mode = "Command" => intruded)
  BY WinKeyFacts
<1>4. QED
  BY <1>2, <1>3 DEF ReachInv, Calm, KeysOK, KeysOf, WinInv, PlaceOK, Modes

LEMMA PlaceStep ==
  ASSUME PlaceOK, Reach(win'), ToSet(win'.pages) \subseteq Open, opened' = opened,
         active_mode' \in Modes
  PROVE  PlaceOK'
BY DEF PlaceOK, Open, Numbered, Reach, Follows, PanesOK

LEMMA ReachStep ==
  ASSUME PlaceOK', ~intruded' /\ Few(win') => KeysOK'
  PROVE  ReachInv'
BY DEF ReachInv, Calm, PlaceOK, Reach, Few, Follows

LEMMA HasKeys ==
  ASSUME NEW w, w.active, GrabsReach(w), Vte \notin ToSet(w.grabs),
         IF w.has_focus THEN Held(w) ELSE StrayGrabs(w)
  PROVE  KeysOf(w, "Window")
BY DEF KeysOf

\* A page that gets the keys of the window.
LEMMA SettledKeys ==
  ASSUME NEW w, w.active, InPlace(w), Keyed(w), Few(w), Vte \notin ToSet(w.grabs)
  PROVE  KeysOf(w, "Window")
<1>1. GrabsReach(w) /\ IF w.has_focus THEN Held(w) ELSE StrayGrabs(w)
  BY DEF Keyed, Gets, Held
<1>2. QED
  BY <1>1, HasKeys

LEMMA NoVte ==
  ASSUME NEW w, NEW r, OnlyPages(w, r), Vte \notin ToSet(w.grabs)
  PROVE  Vte \notin ToSet(r.grabs)
<1>1. Vte[1] \notin Page
  BY PageFacts DEF Vte
<1>2. QED
  BY <1>1 DEF OnlyPages

LEMMA FocusInReach ==
  ASSUME WinInv, ReachInv, FocusIn
  PROVE  ReachInv'
<1> DEFINE w == [win EXCEPT !.has_focus = TRUE]
           r == SetActive(w, w.current)
<1>1. /\ GrabsOK(win) /\ ShownOK /\ PlaceOK /\ (Calm => KeysOK) /\ ~win.has_focus
      /\ UNCHANGED <<in_quit, active_mode, opened, intruded>>
      /\ win' = IF w.active THEN r ELSE w
  BY DEF WinInv, ReachInv, FocusIn
<1>2. /\ GrabsOK(w) /\ w.pages = win.pages /\ w.shown = win.shown /\ w.grabs = win.grabs
      /\ w.active = win.active /\ w.current = win.current /\ w.stray = win.stray
      /\ w.has_focus /\ w.modal = win.modal /\ w.split = win.split /\ w.pane = win.pane
  BY <1>1 DEF GrabsOK, Window
<1> HIDE DEF w
<1>3. Reach(w) /\ w.shown \in DOMAIN w.pages
  BY <1>1, <1>2 DEF PlaceOK, Reach, Follows, PanesOK, ShownOK
<1>4. CASE w.active /\ w.current \in DOMAIN w.pages
  <2>1. /\ InPlace(r) /\ GivenTo(w, r, w.current)
        /\ (Few(w) => Releasable(w)) => Keyed(r)
    BY <1>2, <1>3, <1>4, SetActiveSettles DEF Reach
  <2> HIDE DEF r
  <2>2. win' = r
    BY <1>1, <1>4
  <2>3. PlaceOK'
    BY <1>1, <1>2, <2>1, <2>2, PlaceStep DEF InPlace, GivenTo, Open, PlaceOK
  <2>4. ASSUME ~intruded', Few(win') PROVE KeysOK'
    <3>1. Calm /\ Few(w)
      BY <1>1, <1>2, <2>1, <2>2, <2>4 DEF Calm, Few, GivenTo
    <3>2. active_mode = "Window" /\ StrayGrabs(w) /\ Vte \notin ToSet(w.grabs)
      BY <1>1, <1>2, <1>4, <3>1 DEF KeysOK, KeysOf, StrayGrabs
    <3>3. Keyed(r) /\ r.active /\ Vte \notin ToSet(r.grabs)
      BY <2>1, <3>2, StrayReleasable, NoVte DEF GivenTo
    <3>4. Few(r)
      BY <2>2, <2>4
    <3>5. KeysOf(r, "Window")
      BY <2>1, <3>3, <3>4, SettledKeys
    <3>6. QED
      BY <1>1, <2>2, <3>2, <3>5 DEF KeysOK
  <2>5. QED
    BY <2>3, <2>4, ReachStep
<1>5. CASE ~(w.active /\ w.current \in DOMAIN w.pages)
  <2>1. win' = w
    BY <1>1, <1>5 DEF SetActive
  <2>2. PlaceOK'
    BY <1>1, <1>2, <1>3, <2>1, PlaceStep DEF Open, PlaceOK
  <2>3. ASSUME ~intruded', Few(win') PROVE KeysOK'
    <3>1. Calm /\ Few(w)
      BY <1>1, <1>2, <2>1, <2>3 DEF Calm, Few
    <3>2. KeysOK
      BY <1>1, <3>1
    <3>3. StrayGrabs(w) /\ LeftOver(w) /\ GrabsReach(w)
      BY <1>1, <1>2, <3>2
         DEF KeysOK, KeysOf, StrayGrabs, GrabsReach, LeftOver, ShownGrabs, Off, ShownPage
    <3>4. ASSUME active_mode = "Window" PROVE Held(w)
      <4>1. w.current \notin DOMAIN w.pages
        BY <1>2, <1>5, <3>2, <3>4 DEF KeysOK, KeysOf
      <4>2. Off(w)
        BY <1>3, <4>1 DEF Off
      <4>3. QED
        BY <3>1, <3>3, <4>2, OffHeld
    <3>5. KeysOf(w, active_mode)
      BY <1>2, <3>2, <3>3, <3>4 DEF KeysOK, KeysOf
    <3>6. QED
      BY <1>1, <2>1, <3>5 DEF KeysOK
  <2>4. QED
    BY <2>2, <2>3, ReachStep
<1>6. QED
  BY <1>4, <1>5

LEMMA FocusOutReach ==
  ASSUME WinInv, ReachInv, FocusOut
  PROVE  ReachInv'
<1> DEFINE w == [win EXCEPT !.has_focus = FALSE]
           r == IF w.current \in DOMAIN w.pages THEN ReleaseModal(w, w.pages[w.current]) ELSE w
<1>1. /\ GrabsOK(win) /\ ShownOK /\ PlaceOK /\ (Calm => KeysOK)
      /\ UNCHANGED <<in_quit, active_mode, opened, intruded>>
      /\ win' = r
  BY DEF WinInv, ReachInv, FocusOut
<1>2. /\ GrabsOK(w) /\ w.pages = win.pages /\ w.shown = win.shown /\ w.grabs = win.grabs
      /\ w.active = win.active /\ w.current = win.current /\ w.stray = win.stray
      /\ ~w.has_focus /\ w.modal = win.modal /\ w.split = win.split /\ w.pane = win.pane
  BY <1>1 DEF GrabsOK, Window
<1> HIDE DEF w
<1>3. Reach(w) /\ w.shown \in DOMAIN w.pages
  BY <1>1, <1>2 DEF PlaceOK, Reach, Follows, PanesOK, ShownOK
<1>4. ReleasedFrom(w, r) /\ r.active = w.active
  <2>1. CASE w.current \in DOMAIN w.pages
    <3>1. w.pages[w.current] \in Page
      BY <1>2, <2>1, PagesIn DEF GrabsOK
    <3>2. QED
      BY <1>2, <2>1, <3>1, ReleaseCurrentReach, ReleaseModalFacts
  <2>2. CASE w.current \notin DOMAIN w.pages
    BY <1>2, <2>2 DEF ReleasedFrom, SamePlace
  <2>3. QED
    BY <2>1, <2>2
<1> HIDE DEF r
<1>5. Reach(r) /\ r.stray = w.stray /\ r.pages = w.pages
  BY <1>3, <1>4 DEF ReleasedFrom, SamePlace, Reach, Follows, PanesOK
<1>6. PlaceOK'
  BY <1>1, <1>2, <1>5, PlaceStep DEF Open, PlaceOK
<1>7. ASSUME ~intruded', Few(win') PROVE KeysOK'
  <2>1. Calm
    BY <1>1, <1>2, <1>5, <1>7 DEF Calm, Few
  <2>2. KeysOf(win, active_mode)
    BY <1>1, <2>1 DEF KeysOK
  <2>3. GrabsReach(w)
    BY <1>2, <2>2 DEF KeysOf, GrabsReach, LeftOver, ShownGrabs, Off, ShownPage
  <2>4. StrayGrabs(r) /\ LeftOver(r) /\ GrabsReach(r)
    BY <1>2, <1>3, <1>4, <2>3, ReleasedReach, StrayReleasable DEF GrabsReach
  <2>5. Vte \in ToSet(r.grabs) => Vte \in ToSet(win.grabs)
    BY <1>2, <1>4 DEF ReleasedFrom
  <2>6. r.current = win.current /\ r.active = win.active /\ ~r.has_focus
    BY <1>2, <1>4 DEF ReleasedFrom, SamePlace
  <2>7. KeysOf(r, active_mode)
    BY <1>2, <1>5, <2>2, <2>4, <2>5, <2>6 DEF KeysOf
  <2>8. QED
    BY <1>1, <2>7 DEF KeysOK
<1>8. QED
  BY <1>6, <1>7, ReachStep

LEMMA JumpReach ==
  ASSUME WinInv, ReachInv, JumpToPage
  PROVE  ReachInv'
<1>1. PICK n \in DOMAIN win.pages : win' = SetActive(win, n)
  BY DEF JumpToPage
<1>2. AnyKey /\ UNCHANGED <<in_quit, active_mode, opened, intruded>>
  BY DEF JumpToPage
<1>3. /\ GrabsOK(win) /\ ShownOK /\ PlaceOK
      /\ Calm => active_mode = "Window" /\ KeysOf(win, "Window")
  BY <1>2, AnyKeyFacts DEF KeysOK
<1> DEFINE r == SetActive(win, n)
<1>4. InPlace(r) /\ GivenTo(win, r, n) /\ ((Few(win) => Releasable(win)) => Keyed(r))
  BY <1>3, SetActiveSettles DEF PlaceOK, Reach, ShownOK
<1> HIDE DEF r
<1>5. win' = r
  BY <1>1 DEF r
<1>6. PlaceOK'
  BY <1>2, <1>3, <1>4, <1>5, PlaceStep DEF InPlace, GivenTo, Open, PlaceOK
<1>7. ASSUME ~intruded', Few(win') PROVE KeysOK'
  <2>1. Calm /\ Few(r)
    BY <1>2, <1>4, <1>5, <1>7 DEF Calm, Few, GivenTo
  <2>2. KeysOf(win, "Window") /\ active_mode = "Window"
    BY <1>3, <2>1
  <2>3. Releasable(win) /\ Vte \notin ToSet(win.grabs)
    BY <1>3, <2>2, ReachReleasable DEF KeysOf, PlaceOK, ShownOK
  <2>4. Keyed(r) /\ r.active /\ Vte \notin ToSet(r.grabs)
    BY <1>4, <2>3, NoVte DEF GivenTo
  <2>5. KeysOf(r, "Window")
    BY <1>4, <2>1, <2>4, SettledKeys
  <2>6. QED
    BY <1>2, <1>5, <2>2, <2>5 DEF KeysOK
<1>8. QED
  BY <1>6, <1>7, ReachStep

\* The next number is one that no page has had.
LEMMA NextNumber ==
  ASSUME NEW S, NEW k \in Nat, S = 1 .. k
  PROVE  Cardinality(S) + 1 \notin S /\ S \cup {Cardinality(S) + 1} = 1 .. k + 1
<1>1. Cardinality(1 .. k) = k
  <2>1. Cardinality(1 .. k) = IF 1 > k THEN 0 ELSE k - 1 + 1
    BY FS_Interval
  <2>2. QED
    BY <2>1
<1>2. QED
  BY <1>1

\* What a page that is opened does to the window.
LEMMA NewPageReach ==
  ASSUME NEW w, GrabsOK(w), w.shown \in DOMAIN w.pages, Reach(w),
         ToSet(w.pages) \subseteq opened, Numbered,
         NEW p \in Page, p = Cardinality(opened) + 1, opened' = opened \cup {p}
  PROVE  LET r == AddMode(w, p)
         IN  /\ Reach(r) /\ ToSet(r.pages) \subseteq opened' /\ Numbered'
             /\ GrabsOK(r) /\ InPlace(r) /\ r.active /\ r.current \in DOMAIN r.pages
             /\ r.has_focus = w.has_focus /\ r.stray = w.stray /\ OnlyPages(w, r)
             /\ (Few(w) => GrabsReach(w)) => Keyed(r)
<1>1. PICK k \in Nat : opened = 1 .. k
  BY DEF Numbered
<1>2. p \notin opened /\ opened' = 1 .. k + 1
  BY <1>1, NextNumber
<1>3. Numbered'
  <2>1. k + 1 \in Nat
    OBVIOUS
  <2>2. QED
    BY <1>2, <2>1 DEF Numbered
<1>4. p \notin ToSet(w.pages)
  BY <1>2
<1> DEFINE r == AddMode(w, p)
<1>5. /\ GrabsOK(r) /\ InPlace(r) /\ r.active /\ r.current \in DOMAIN r.pages
      /\ r.has_focus = w.has_focus /\ r.stray = w.stray /\ OnlyPages(w, r)
      /\ ToSet(r.pages) = ToSet(w.pages) \cup {p}
      /\ (Few(w) => GrabsReach(w)) => Keyed(r)
  BY <1>4, AddModeReach
<1> HIDE DEF r
<1>6. Reach(r) /\ ToSet(r.pages) \subseteq opened'
  BY <1>5 DEF InPlace
<1>7. QED
  BY <1>3, <1>5, <1>6 DEF r

\* A key adds a page, or a mailto, which in the middle of a command intrudes.
LEMMA AddReach ==
  ASSUME WinInv, ReachInv, AddPage \/ SendMailto
  PROVE  ReachInv'
<1>1. PICK p \in Page : /\ p = Cardinality(opened) + 1 /\ win' = AddMode(win, p)
                        /\ opened' = opened \cup {p}
  BY DEF AddPage, SendMailto, NewPage
<1>2. /\ GrabsOK(win) /\ ShownOK /\ PlaceOK /\ UNCHANGED <<in_quit, active_mode>>
      /\ ~intruded' => ~intruded
      /\ ~intruded' /\ Few(win) => active_mode = "Window" /\ KeysOf(win, "Window")
  <2>1. CASE AddPage
    BY <2>1, AnyKeyFacts DEF AddPage, KeysOK, Calm
  <2>2. CASE SendMailto
    BY <2>2 DEF SendMailto, KeysOK, Calm, WinInv, ReachInv
  <2>3. QED
    BY <2>1, <2>2
<1> DEFINE r == AddMode(win, p)
<1>3. /\ Reach(r) /\ ToSet(r.pages) \subseteq opened' /\ Numbered'
      /\ GrabsOK(r) /\ InPlace(r) /\ r.active /\ r.current \in DOMAIN r.pages
      /\ r.has_focus = win.has_focus /\ r.stray = win.stray /\ OnlyPages(win, r)
      /\ (Few(win) => GrabsReach(win)) => Keyed(r)
  BY <1>1, <1>2, NewPageReach DEF PlaceOK, ShownOK, Open
<1> HIDE DEF r
<1>4. win' = r
  BY <1>1 DEF r
<1>5. PlaceOK'
  <2>1. Reach(win)'
    BY <1>3, <1>4 DEF Reach, Follows, PanesOK
  <2>2. QED
    BY <1>2, <1>3, <1>4, <2>1 DEF PlaceOK, Open
<1>6. ASSUME ~intruded', Few(win') PROVE KeysOK'
  <2>1. Few(win) /\ Few(r)
    BY <1>3, <1>4, <1>6 DEF Few
  <2>2. active_mode = "Window" /\ KeysOf(win, "Window")
    BY <1>2, <1>6, <2>1
  <2>3. Keyed(r) /\ Vte \notin ToSet(r.grabs)
    BY <1>3, <2>2, NoVte DEF KeysOf
  <2>4. KeysOf(r, "Window")
    BY <1>3, <2>1, <2>3, SettledKeys
  <2>5. QED
    BY <1>2, <1>4, <2>2, <2>4 DEF KeysOK
<1>7. QED
  BY <1>5, <1>6, ReachStep

\* A page is closed, by its key or by the answer to its question.
LEMMA CloseReach ==
  ASSUME GrabsOK(win), ShownOK, PlaceOK, UNCHANGED <<active_mode, opened, intruded>>,
         Calm => active_mode = "Window" /\ KeysOf(win, "Window"), win.has_focus,
         NEW c \in DOMAIN win.pages, win' = DelMode(win, c)
  PROVE  ReachInv'
<1>1. CASE Len(win.pages) = 1
  <2>1. win' = win
    BY <1>1 DEF DelMode
  <2>2. PlaceOK'
    BY <2>1, PlaceStep DEF PlaceOK, Open
  <2>3. ASSUME ~intruded', Few(win') PROVE KeysOK'
    BY <2>1, <2>3 DEF Calm, KeysOK
  <2>4. QED
    BY <2>2, <2>3, ReachStep
<1>2. CASE Len(win.pages) # 1
  <2> DEFINE u == DelMode(win, c)
  <2>1. /\ Ends(win, u) /\ u.active
        /\ win.has_focus /\ Few(u) /\ (Few(win) => GrabsReach(win)) => GrabsReach(u) /\ Held(u)
    BY <1>2, DelModeReach DEF PlaceOK, ShownOK
  <2> HIDE DEF u
  <2>2. win' = u
    BY DEF u
  <2>3. PlaceOK'
    BY <2>1, <2>2, PlaceStep DEF PlaceOK, Open, Ends
  <2>4. ASSUME ~intruded', Few(win') PROVE KeysOK'
    <3>1. Calm /\ Few(u)
      BY <2>1, <2>2, <2>4 DEF Calm, Few, Ends
    <3>2. active_mode = "Window" /\ GrabsReach(win) /\ Vte \notin ToSet(win.grabs)
      BY <3>1 DEF KeysOf
    <3>3. GrabsReach(u) /\ Held(u) /\ Vte \notin ToSet(u.grabs)
      BY <2>1, <3>1, <3>2, NoVte DEF Ends
    <3>4. KeysOf(u, "Window")
      BY <2>1, <3>3, HasKeys DEF Ends
    <3>5. QED
      BY <2>2, <3>2, <3>4 DEF KeysOK
  <2>5. QED
    BY <2>3, <2>4, ReachStep
<1>3. QED
  BY <1>1, <1>2

LEMMA ClosePageReach ==
  ASSUME WinInv, ReachInv, ClosePage
  PROVE  ReachInv'
<1>1. /\ AnyKey /\ UNCHANGED <<active_mode, opened, intruded>>
      /\ win' = DelMode(win, win.shown)
  BY DEF ClosePage
<1>2. /\ GrabsOK(win) /\ ShownOK /\ PlaceOK /\ win.has_focus
      /\ Calm => active_mode = "Window" /\ KeysOf(win, "Window")
  BY <1>1, AnyKeyFacts DEF KeysOK
<1>3. win.shown \in DOMAIN win.pages
  BY <1>2 DEF ShownOK
<1>4. QED
  BY <1>1, <1>2, <1>3, CloseReach

\* Nothing but the question, the callback or the closures has changed.
LEMMA SameReach ==
  ASSUME ReachInv, UNCHANGED <<win, in_quit, active_mode, opened, intruded>>
  PROVE  ReachInv'
BY DEF ReachInv, PlaceOK, Numbered, Open, Calm, KeysOK

LEMMA AnswerableFacts ==
  ASSUME WinInv, ReachInv, NEW sort \in {"yes_no", "multi"}, Answerable(sort)
  PROVE  /\ GrabsOK(win) /\ ShownOK /\ PlaceOK /\ win.has_focus /\ ~in_quit
         /\ active_mode # "Terminal"
         /\ Calm => active_mode = "Window" /\ KeysOf(win, "Window")
<1>1. PICK p \in Page, i \in {0, 1} : Receives(<<p, i>>)
  BY DEF Answerable
<1>2. ~in_quit /\ win.has_focus /\ (active_mode = "Command" => intruded)
  BY <1>1, ReceivesFacts DEF Receives
<1>3. question.kind # "none"
  BY DEF Answerable
<1>4. active_mode # "Terminal"
  BY <1>2, <1>3 DEF WinInv, TerminalAlone
<1>5. QED
  BY <1>2, <1>4 DEF ReachInv, Calm, KeysOK, WinInv, PlaceOK, Modes

LEMMA AnswerReach ==
  ASSUME WinInv, ReachInv, AnswerYesNo
  PROVE  ReachInv'
<1>1. /\ Answerable("yes_no") /\ UNCHANGED <<in_quit, active_mode, opened, intruded>>
  BY DEF AnswerYesNo
<1>2. CASE UNCHANGED win
  BY <1>1, <1>2, SameReach
<1>3. CASE question.of \in Open /\ win' = DelMode(win, IndexOf(win.pages, question.of))
  <2> DEFINE c == IndexOf(win.pages, question.of)
  <2>1. c \in DOMAIN win.pages
    BY <1>3 DEF Open, ToSet, IndexOf
  <2>2. /\ GrabsOK(win) /\ ShownOK /\ PlaceOK /\ win.has_focus
        /\ Calm => active_mode = "Window" /\ KeysOf(win, "Window")
    BY <1>1, AnswerableFacts
  <2>3. win' = DelMode(win, c)
    BY <1>3
  <2> HIDE DEF c
  <2>4. QED
    BY <1>1, <2>1, <2>2, <2>3, CloseReach
<1>4. QED
  BY <1>2, <1>3 DEF AnswerYesNo

\* A key that a page gets is one of the page shown.
LEMMA KeyShown ==
  ASSUME WinInv, ReachInv, NEW p \in Page, NEW i \in {0, 1}, WinKey(<<p, i>>), Calm
  PROVE  /\ active_mode = "Window" /\ KeysOf(win, "Window") /\ Held(win) /\ p = ShownPage(win)
<1>1. AnyKey
  BY DEF AnyKey
<1>2. active_mode = "Window" /\ KeysOf(win, "Window") /\ Held(win) /\ GrabsOK(win)
  BY <1>1, AnyKeyFacts DEF KeysOK
<1>3. ASSUME <<p, i>> = Last(win.grabs) PROVE p = ShownPage(win)
  <2>1. Last(win.grabs) \in ToSet(win.grabs)
    <3>1. win.grabs \in Seq(Widget) /\ win.grabs # <<>>
      BY <1>2 DEF WinKey, Receives, GrabsOK, Window
    <3>2. QED
      BY <3>1, LastIsIn
  <2>2. Last(win.grabs)[1] = p
    BY <1>3
  <2>3. p \in {ShownPage(win), Nobody}
    BY <1>2, <2>1, <2>2 DEF Held, OnTop
  <2>4. QED
    BY <2>3, PageFacts
<1>4. <<p, i>> = Last(win.grabs) \/ p = ShownPage(win)
  BY DEF WinKey, Receives
<1>5. QED
  BY <1>2, <1>3, <1>4

LEMMA PlaceKey ==
  ASSUME WinInv, ReachInv, NEW p \in Page, NEW i \in {0, 1}, WinKey(<<p, i>>)
  PROVE  GrabsOK(win) /\ ShownOK /\ PlaceOK /\ p \in ToSet(win.pages)
<1>1. AnyKey
  BY DEF AnyKey
<1>2. p \in Open
  BY ReceivesFacts DEF WinKey
<1>3. QED
  BY <1>1, <1>2, AnyKeyFacts DEF Open

\* The page shown has a pane more, less or the other one.
LEMMA PaneStep ==
  ASSUME PlaceOK, UNCHANGED <<active_mode, opened, intruded>>,
         NEW p \in Page,
         Calm => active_mode = "Window" /\ KeysOf(win, "Window") /\ Held(win) /\ p = ShownPage(win),
         win'.pages = win.pages, win'.shown = win.shown, win'.current = win.current,
         win'.active = win.active, win'.has_focus = win.has_focus,
         PanesOK(win'), win'.stray = win.stray \cup {p},
         p \in win.modal => p \in win'.modal,
         \E g \in ToSet(win'.grabs) : g[1] = p,
         \A g \in ToSet(win'.grabs) : g \in ToSet(win.grabs) \/ g[1] = p
  PROVE  ReachInv'
<1> DEFINE u == win'
<1>1. PlaceOK'
  <2>1. Reach(u)
    BY DEF PlaceOK, Reach, Follows
  <2>2. QED
    BY <2>1, PlaceStep DEF PlaceOK, Open
<1>2. ASSUME ~intruded', Few(u) PROVE KeysOK'
  <2>1. Few(win)
    BY <1>2 DEF Few
  <2>2. /\ active_mode = "Window" /\ KeysOf(win, "Window") /\ Held(win) /\ p = ShownPage(win)
    BY <1>2, <2>1 DEF Calm
  <2>3. ShownPage(u) = p /\ p \in u.modal /\ p \in u.stray
    BY <2>2 DEF Held, ShownPage
  <2>4. StrayGrabs(u)
    <3>1. \A g \in ToSet(win.grabs) : g[1] \in win.stray \cup {Nobody} \/ g[1] = p
      BY <2>2 DEF KeysOf, GrabsReach, ShownGrabs
    <3>2. QED
      BY <3>1 DEF StrayGrabs
  <2>5. GrabsReach(u) /\ Held(u)
    BY <1>2, <2>3, <2>4, LeftHeld
  <2>6. Vte \notin ToSet(u.grabs)
    <3>1. Vte[1] # p /\ Vte \notin ToSet(win.grabs)
      BY <2>2, PageFacts DEF KeysOf, Vte
    <3>2. QED
      BY <3>1
  <2>7. u.current \in DOMAIN u.pages => (u.active <=> "Window" = "Window")
    BY <2>2 DEF KeysOf
  <2>8. KeysOf(u, "Window")
    BY <2>4, <2>5, <2>6, <2>7 DEF KeysOf
  <2>9. QED
    BY <2>2, <2>8 DEF KeysOK
<1>3. QED
  BY <1>1, <1>2, ReachStep

LEMMA OpenThreadReach ==
  ASSUME WinInv, ReachInv, OpenThread
  PROVE  ReachInv'
<1>1. PICK p \in List :
        /\ WinKey(<<p, 0>>)
        /\ win' = GrabModal([win EXCEPT !.split = @ \cup {p}, !.pane[p] = 1,
                                        !.stray = @ \cup {p}], p)
  BY DEF OpenThread
<1> DEFINE v == [win EXCEPT !.split = @ \cup {p}, !.pane[p] = 1, !.stray = @ \cup {p}]
           u == GrabModal(v, p)
<1>2. p \in Page
  BY WindowsAssumption
<1>3. GrabsOK(win) /\ ShownOK /\ PlaceOK /\ p \in ToSet(win.pages)
  BY <1>1, <1>2, PlaceKey
<1>4. /\ Calm => active_mode = "Window" /\ KeysOf(win, "Window") /\ Held(win) /\ p = ShownPage(win)
      /\ UNCHANGED <<active_mode, opened, intruded>>
  BY <1>1, <1>2, KeyShown DEF OpenThread
<1>5. /\ v \in Window /\ v.pages = win.pages /\ v.grabs = win.grabs /\ v.current = win.current
      /\ v.active = win.active /\ v.has_focus = win.has_focus /\ v.shown = win.shown
      /\ v.modal = win.modal /\ v.split = win.split \cup {p} /\ v.stray = win.stray \cup {p}
      /\ v.pane = [win.pane EXCEPT ![p] = 1]
  BY <1>2, <1>3 DEF GrabsOK, Window
<1> HIDE DEF v
<1>6. GrabsOK(v) /\ p \in ToSet(v.pages)
  BY <1>3, <1>5 DEF GrabsOK
<1>7. PanesOK(v)
  <2>1. PanesOK(win) /\ DOMAIN win.pane = Page
    BY <1>3 DEF PlaceOK, Reach, GrabsOK, Window
  <2>2. QED
    BY <1>5, <2>1 DEF PanesOK
<1>8. /\ GrabsOK(u) /\ SamePlace(v, u) /\ u.active = v.active
      /\ ToSet(u.grabs) = ToSet(v.grabs) \cup {<<p, v.pane[p]>>} /\ u.modal = v.modal \cup {p}
  BY <1>6, GrabModalReach
<1>9. win' = u
  BY <1>1 DEF v
<1> HIDE DEF u
<1>10. /\ u.pages = win.pages /\ u.shown = win.shown /\ u.current = win.current
       /\ u.active = win.active /\ u.has_focus = win.has_focus
       /\ PanesOK(u) /\ u.stray = win.stray \cup {p} /\ p \in u.modal
       /\ \E g \in ToSet(u.grabs) : g[1] = p
       /\ \A g \in ToSet(u.grabs) : g \in ToSet(win.grabs) \/ g[1] = p
  <2> DEFINE y == <<p, v.pane[p]>>
  <2>1. y[1] = p /\ ToSet(u.grabs) = ToSet(win.grabs) \cup {y}
    BY <1>5, <1>8
  <2> HIDE DEF y
  <2>2. \E g \in ToSet(u.grabs) : g[1] = p
    BY <2>1
  <2>3. \A g \in ToSet(u.grabs) : g \in ToSet(win.grabs) \/ g[1] = p
    BY <2>1
  <2>4. PanesOK(u)
    BY <1>7, <1>8 DEF SamePlace, PanesOK
  <2>5. QED
    BY <1>5, <1>8, <2>2, <2>3, <2>4 DEF SamePlace
<1>11. QED
  BY <1>2, <1>3, <1>4, <1>9, <1>10, PaneStep

LEMMA ClosePaneReach ==
  ASSUME WinInv, ReachInv, ClosePane
  PROVE  ReachInv'
<1>1. PICK p \in win.split, i \in {0, 1} : WinKey(<<p, i>>) /\ win' = DelPane(win, p)
  BY DEF ClosePane
<1>2. p \in Page
  BY <1>1 DEF WinKey, Receives, WinInv, GrabsOK, Window
<1>3. GrabsOK(win) /\ ShownOK /\ PlaceOK /\ p \in ToSet(win.pages)
  BY <1>1, <1>2, PlaceKey
<1>4. /\ Calm => active_mode = "Window" /\ KeysOf(win, "Window") /\ Held(win) /\ p = ShownPage(win)
      /\ UNCHANGED <<active_mode, opened, intruded>>
  BY <1>1, <1>2, KeyShown DEF ClosePane
<1> DEFINE u == DelPane(win, p)
<1>5. PaneGone(win, u, p)
  BY <1>3, DelPaneReach
<1> HIDE DEF u
<1>6. win' = u
  BY <1>1 DEF u
<1>7. PanesOK(win) /\ DOMAIN win.pane = Page /\ p \in win.stray
  BY <1>1, <1>3 DEF PlaceOK, Reach, GrabsOK, Window, PanesOK
<1>8. PanesOK(u) /\ u.stray = win.stray \cup {p}
  BY <1>5, <1>7 DEF PanesOK, PaneGone
<1>9. CASE p \in win.modal
  <2>1. /\ \E g \in ToSet(u.grabs) : g[1] = p
        /\ \A g \in ToSet(u.grabs) : g \in ToSet(win.grabs) \/ g[1] = p
    <3> DEFINE y == <<p, 0>>
    <3>1. y[1] = p /\ ToSet(u.grabs) = (ToSet(win.grabs) \ {<<p, 1>>}) \cup {y}
      BY <1>5, <1>9 DEF PaneGone
    <3> HIDE DEF y
    <3>2. QED
      BY <3>1
  <2>2. QED
    BY <1>2, <1>3, <1>4, <1>5, <1>6, <1>8, <2>1, PaneStep DEF PaneGone
<1>10. CASE p \notin win.modal
  <2>1. ~Calm
    BY <1>4, <1>10 DEF Held
  <2>2. ~(~intruded' /\ Few(win'))
    BY <1>4, <1>6, <1>7, <1>8, <2>1 DEF Calm, Few
  <2>3. PlaceOK'
    <3>1. Reach(u)
      BY <1>3, <1>5, <1>8 DEF PaneGone, PlaceOK, Reach, Follows
    <3>2. QED
      BY <1>3, <1>4, <1>5, <1>6, <3>1, PlaceStep DEF PlaceOK, Open, PaneGone
  <2>4. QED
    BY <2>2, <2>3, ReachStep
<1>11. QED
  BY <1>9, <1>10

LEMMA SwapFocusReach ==
  ASSUME WinInv, ReachInv, SwapFocus
  PROVE  ReachInv'
<1>1. PICK p \in win.split, i \in {0, 1} :
        WinKey(<<p, i>>) /\ win' = GrabModal([ReleaseModal(win, p) EXCEPT !.pane[p] = 1 - @], p)
  BY DEF SwapFocus
<1> DEFINE r == ReleaseModal(win, p)
           v == [r EXCEPT !.pane[p] = 1 - @]
           u == GrabModal(v, p)
<1>2. p \in Page
  BY <1>1 DEF WinKey, Receives, WinInv, GrabsOK, Window
<1>3. GrabsOK(win) /\ ShownOK /\ PlaceOK /\ p \in ToSet(win.pages)
  BY <1>1, <1>2, PlaceKey
<1>4. /\ Calm => active_mode = "Window" /\ KeysOf(win, "Window") /\ Held(win) /\ p = ShownPage(win)
      /\ UNCHANGED <<active_mode, opened, intruded>>
  BY <1>1, <1>2, KeyShown DEF SwapFocus
<1>5. PanesOK(win) /\ DOMAIN win.pane = Page /\ p \in win.stray /\ p \in win.split
  BY <1>1, <1>3 DEF PlaceOK, Reach, GrabsOK, Window, PanesOK
<1>6. /\ GrabsOK(r) /\ SamePlace(win, r) /\ r.active = win.active
      /\ ToSet(r.grabs) = ToSet(win.grabs) \ {<<p, win.pane[p]>>} /\ r.modal = win.modal \ {p}
  BY <1>2, <1>3, ReleaseModalReach
<1> HIDE DEF r
<1>7. /\ v \in Window /\ v.pages = r.pages /\ v.grabs = r.grabs /\ v.current = r.current
      /\ v.active = r.active /\ v.has_focus = r.has_focus /\ v.shown = r.shown
      /\ v.modal = r.modal /\ v.split = r.split /\ v.stray = r.stray
      /\ \A q \in Page \ {p} : v.pane[q] = r.pane[q]
  <2>1. r \in Window
    BY <1>6 DEF GrabsOK
  <2>2. r.pane[p] \in {0, 1} /\ 1 - r.pane[p] \in {0, 1}
    BY <1>2, <2>1 DEF Window
  <2>3. QED
    BY <1>2, <2>1, <2>2 DEF Window
<1> HIDE DEF v
<1>8. GrabsOK(v) /\ p \in ToSet(v.pages) /\ PanesOK(v)
  <2>1. GrabsOK(v) /\ p \in ToSet(v.pages)
    BY <1>3, <1>6, <1>7 DEF GrabsOK, SamePlace
  <2>2. PanesOK(v)
    BY <1>5, <1>6, <1>7 DEF PanesOK, SamePlace
  <2>3. QED
    BY <2>1, <2>2
<1>9. /\ GrabsOK(u) /\ SamePlace(v, u) /\ u.active = v.active
      /\ ToSet(u.grabs) = ToSet(v.grabs) \cup {<<p, v.pane[p]>>} /\ u.modal = v.modal \cup {p}
  BY <1>8, GrabModalReach
<1>10. win' = u
  BY <1>1 DEF v, r
<1> HIDE DEF u
<1>11. /\ u.pages = win.pages /\ u.shown = win.shown /\ u.current = win.current
       /\ u.active = win.active /\ u.has_focus = win.has_focus
       /\ PanesOK(u) /\ u.stray = win.stray \cup {p} /\ p \in u.modal
       /\ \E g \in ToSet(u.grabs) : g[1] = p
       /\ \A g \in ToSet(u.grabs) : g \in ToSet(win.grabs) \/ g[1] = p
  <2> DEFINE y == <<p, v.pane[p]>>
  <2>1. y[1] = p /\ ToSet(u.grabs) = ToSet(r.grabs) \cup {y}
    BY <1>7, <1>9
  <2> HIDE DEF y
  <2>2. ToSet(u.grabs) \subseteq ToSet(win.grabs) \cup {y}
    BY <1>6, <2>1
  <2>3. \E g \in ToSet(u.grabs) : g[1] = p
    BY <2>1
  <2>4. \A g \in ToSet(u.grabs) : g \in ToSet(win.grabs) \/ g[1] = p
    BY <2>1, <2>2
  <2>5. PanesOK(u)
    BY <1>8, <1>9 DEF SamePlace, PanesOK
  <2>6. u.stray = win.stray \cup {p}
    BY <1>5, <1>6, <1>7, <1>9 DEF SamePlace
  <2>7. QED
    BY <1>6, <1>7, <1>9, <2>3, <2>4, <2>5, <2>6 DEF SamePlace
<1>12. QED
  BY <1>2, <1>3, <1>4, <1>10, <1>11, PaneStep

LEMMA AskReach ==
  ASSUME WinInv, ReachInv, Ask
  PROVE  ReachInv'
<1>1. UNCHANGED <<win, in_quit, active_mode, opened, intruded>>
  BY DEF Ask
<1>2. QED
  BY <1>1, SameReach

\* The bar or the terminal takes the keys from the window's page.
LEMMA TakenReach ==
  ASSUME GrabsOK(win), ShownOK, PlaceOK, UNCHANGED <<opened, intruded>>,
         Calm => KeysOf(win, "Window"),
         NEW x \in {Bar, Vte}, win' = Grab(UngrabActive(win), x),
         active_mode' = IF x = Bar THEN "Command" ELSE "Terminal"
  PROVE  ReachInv'
<1> DEFINE u == UngrabActive(win)
           g == Grab(u, x)
<1>1. ReleasedFrom(win, u) /\ (~u.active \/ u.current \notin DOMAIN u.pages)
  <2>1. u.pages = win.pages
    BY UngrabActiveReach DEF ReleasedFrom, SamePlace
  <2>2. QED
    BY <2>1, UngrabActiveReach, UngrabActiveFacts
<1> HIDE DEF u
<1>2. GrabsOK(u) /\ SamePlace(win, u) /\ x \in Widget /\ x[1] = Nobody
  BY <1>1, PageFacts DEF ReleasedFrom, Bar, Vte
<1>3. GrabsOK(g) /\ ToSet(g.grabs) = ToSet(u.grabs) \cup {x} /\ SameButGrabs(u, g)
  <2>1. x[1] \in ToSet(u.pages) \cup {Nobody}
    BY <1>2
  <2>2. QED
    BY <1>2, <2>1, GrabFacts
<1>4. win' = g
  BY DEF u
<1> HIDE DEF g
<1>5. Reach(g) /\ g.pages = win.pages /\ g.stray = win.stray /\ ShownPage(g) = ShownPage(u)
  BY <1>2, <1>3 DEF PlaceOK, Reach, Follows, PanesOK, SamePlace, SameButGrabs, ShownPage
<1>6. PlaceOK'
  BY <1>4, <1>5, PlaceStep DEF PlaceOK, Open, Modes
<1>7. ASSUME ~intruded', Few(win') PROVE KeysOK'
  <2>1. KeysOf(win, "Window")
    BY <1>4, <1>5, <1>7 DEF Calm, Few
  <2>2. StrayGrabs(u) /\ LeftOver(u)
    BY <1>1, <2>1, ReleasedReach DEF KeysOf, PlaceOK, ShownOK
  <2>3. StrayGrabs(g)
    BY <1>2, <1>3, <2>2 DEF StrayGrabs, SameButGrabs
  <2>4. LeftOver(g)
    BY <1>3, <1>5, <2>2 DEF LeftOver, Off, SameButGrabs
  <2>5. GrabsReach(g)
    BY <2>3, <2>4, StrayReleasable DEF GrabsReach
  <2>6. Vte \in ToSet(g.grabs) => x = Vte
    BY <1>1, <1>3, <2>1 DEF KeysOf, ReleasedFrom
  <2>7. ~g.active \/ g.current \notin DOMAIN g.pages
    BY <1>1, <1>3 DEF SameButGrabs
  <2>8. active_mode' # "Window" /\ (x = Vte => active_mode' = "Terminal")
    BY PageFacts
  <2>9. KeysOf(g, active_mode')
    BY <2>3, <2>5, <2>6, <2>7, <2>8 DEF KeysOf
  <2>10. QED
    BY <1>4, <2>9 DEF KeysOK
<1>8. QED
  BY <1>6, <1>7, ReachStep

LEMMA EnableReach ==
  ASSUME WinInv, ReachInv, RunCommand \/ Filter \/ EnableTerminal
  PROVE  ReachInv'
<1>1. AnyKey /\ UNCHANGED <<opened, intruded>>
  <2>1. List \subseteq Page
    BY WindowsAssumption
  <2>2. QED
    BY <2>1 DEF AnyKey, RunCommand, Filter, EnableTerminal
<1>2. GrabsOK(win) /\ ShownOK /\ PlaceOK /\ (Calm => KeysOf(win, "Window"))
  BY <1>1, AnyKeyFacts DEF KeysOK
<1>3. PICK x \in {Bar, Vte} : /\ win' = Grab(UngrabActive(win), x)
                              /\ active_mode' = IF x = Bar THEN "Command" ELSE "Terminal"
  BY PageFacts DEF RunCommand, Filter, EnableTerminal, EnableCommand
<1>4. QED
  BY <1>1, <1>2, <1>3, TakenReach

LEMMA MultiKeyReach ==
  ASSUME WinInv, ReachInv, MultiKey
  PROVE  ReachInv'
<1>1. Answerable("multi") /\ UNCHANGED <<in_quit, opened, intruded>>
  BY DEF MultiKey
<1>2. CASE UNCHANGED <<win, active_mode>>
  BY <1>1, <1>2, SameReach
<1>3. CASE EnableCommand(question.of)
  <2>1. GrabsOK(win) /\ ShownOK /\ PlaceOK /\ (Calm => KeysOf(win, "Window"))
    BY <1>1, AnswerableFacts
  <2>2. win' = Grab(UngrabActive(win), Bar) /\ active_mode' = IF Bar = Bar THEN "Command" ELSE "Terminal"
    BY <1>3 DEF EnableCommand
  <2>3. QED
    BY <1>1, <2>1, <2>2, TakenReach
<1>4. QED
  BY <1>2, <1>3 DEF MultiKey

\* Taking a grab of the bar or the terminal away.
LEMMA LetGo ==
  ASSUME NEW w, GrabsOK(w), NEW x \in {Bar, Vte}
  PROVE  LET u == Ungrab(w, x)
         IN  /\ GrabsOK(u) /\ SameButGrabs(w, u) /\ ToSet(u.grabs) = ToSet(w.grabs) \ {x}
             /\ Reach(u) <=> Reach(w)
             /\ Few(u) <=> Few(w)
             /\ StrayGrabs(w) => StrayGrabs(u)
             /\ GrabsReach(w) => GrabsReach(u)
             /\ Held(w) /\ w.shown \in DOMAIN w.pages => Held(u)
<1> DEFINE u == Ungrab(w, x)
<1>1. x \in Widget /\ x[1] = Nobody
  BY PageFacts DEF Bar, Vte
<1>2. /\ GrabsOK(u) /\ SameButGrabs(w, u) /\ ToSet(u.grabs) = ToSet(w.grabs) \ {x}
      /\ w.grabs # <<>> /\ Last(w.grabs) # x =>
           u.grabs # <<>> /\ Last(u.grabs) = Last(w.grabs)
  BY <1>1, UngrabFacts
<1> HIDE DEF u
<1>3. /\ u.pages = w.pages /\ u.shown = w.shown /\ u.current = w.current /\ u.split = w.split
      /\ u.pane = w.pane /\ u.modal = w.modal /\ u.stray = w.stray
      /\ ShownPage(u) = ShownPage(w)
  BY <1>2 DEF SameButGrabs, ShownPage
<1>4. (Reach(u) <=> Reach(w)) /\ (Few(u) <=> Few(w))
  BY <1>3 DEF Reach, Follows, PanesOK, Few
<1>5. StrayGrabs(w) => StrayGrabs(u)
  BY <1>2, <1>3 DEF StrayGrabs
<1>6. ASSUME NEW p \in Page, \E g \in ToSet(w.grabs) : g[1] = p PROVE \E g \in ToSet(u.grabs) : g[1] = p
  <2>1. p # Nobody
    BY PageFacts
  <2>2. QED
    BY <1>1, <1>2, <1>6, <2>1
<1>7. ASSUME GrabsReach(w) PROVE GrabsReach(u)
  <2>1. ShownGrabs(u)
    BY <1>2, <1>3, <1>7 DEF GrabsReach, ShownGrabs
  <2>2. LeftOver(u)
    <3> SUFFICES ASSUME Off(u) PROVE /\ ShownPage(u) \in u.stray \cap u.modal
                                     /\ \E g \in ToSet(u.grabs) : g[1] = ShownPage(u)
      BY DEF LeftOver
    <3>1. Off(w)
      BY <1>3 DEF Off
    <3>2. ShownPage(w) \in w.stray \cap w.modal /\ \E g \in ToSet(w.grabs) : g[1] = ShownPage(w)
      BY <1>7, <3>1 DEF GrabsReach, LeftOver
    <3>3. ShownPage(w) \in Page
      BY <3>2 DEF GrabsOK, Window
    <3>4. QED
      BY <1>3, <1>6, <3>2, <3>3
  <2>3. QED
    BY <2>1, <2>2 DEF GrabsReach
<1>8. ASSUME Held(w), w.shown \in DOMAIN w.pages PROVE Held(u)
  <2> DEFINE p == ShownPage(w)
  <2>1. p \in Page /\ p # Nobody
    BY <1>8, PagesIn, PageFacts DEF ShownPage, GrabsOK
  <2>2. OnTop(w.grabs, p) /\ p \in w.modal
    BY <1>8 DEF Held
  <2> HIDE DEF p
  <2>3. \E g \in ToSet(u.grabs) : g[1] = p
    BY <1>6, <2>1, <2>2 DEF OnTop
  <2>4. Last(u.grabs)[1] = p \/ \A g \in ToSet(u.grabs) : g[1] \in {p, Nobody}
    <3>1. CASE Last(w.grabs)[1] = p
      <4>1. Last(w.grabs) # x
        BY <1>1, <2>1, <3>1
      <4>2. w.grabs # <<>>
        BY <2>2 DEF OnTop, ToSet
      <4>3. QED
        BY <1>2, <3>1, <4>1, <4>2
    <3>2. CASE \A g \in ToSet(w.grabs) : g[1] \in {p, Nobody}
      BY <1>2, <3>2
    <3>3. QED
      BY <2>2, <3>1, <3>2 DEF OnTop
  <2>5. QED
    BY <1>3, <2>2, <2>3, <2>4 DEF Held, OnTop, p
<1>9. QED
  BY <1>2, <1>4, <1>5, <1>7, <1>8 DEF u

\* The window's page gets the keys back.
LEMMA BackReach ==
  ASSUME NEW w, GrabsOK(w), w.shown \in DOMAIN w.pages, Reach(w)
  PROVE  LET r == SetActive(w, w.current)
         IN  /\ GrabsOK(r) /\ Reach(r) /\ r.shown \in DOMAIN r.pages
             /\ r.pages = w.pages /\ r.stray = w.stray /\ r.has_focus = w.has_focus
             /\ r.current \in DOMAIN r.pages => r.active
             /\ Vte \in ToSet(r.grabs) => Vte \in ToSet(w.grabs)
             /\ Few(w) /\ GrabsReach(w) /\ (w.current \notin DOMAIN w.pages => StrayGrabs(w)) =>
                  GrabsReach(r) /\ IF r.has_focus THEN Held(r) ELSE StrayGrabs(r)
<1> DEFINE r == SetActive(w, w.current)
<1>1. CASE w.current \in DOMAIN w.pages
  <2>1. NoDup(w.pages) /\ PanesOK(w)
    BY DEF Reach
  <2>2. /\ InPlace(r) /\ GivenTo(w, r, w.current)
        /\ (Few(w) => Releasable(w)) => Keyed(r)
    BY <1>1, <2>1, SetActiveSettles
  <2> HIDE DEF r
  <2>3. /\ GrabsOK(r) /\ Reach(r) /\ r.shown \in DOMAIN r.pages
        /\ r.pages = w.pages /\ r.stray = w.stray /\ r.has_focus = w.has_focus /\ r.active
        /\ OnlyPages(w, r)
    BY <2>2 DEF InPlace, GivenTo
  <2>4. Vte \in ToSet(r.grabs) => Vte \in ToSet(w.grabs)
    BY <2>3, NoVte
  <2>5. ASSUME Few(w), GrabsReach(w)
        PROVE  GrabsReach(r) /\ IF r.has_focus THEN Held(r) ELSE StrayGrabs(r)
    <3>1. Keyed(r)
      BY <2>2, <2>5, ReachReleasable
    <3>2. Few(r)
      BY <2>3, <2>5 DEF Few
    <3>3. QED
      BY <3>1, <3>2 DEF Keyed, Gets, Held
  <2>6. QED
    BY <2>3, <2>4, <2>5 DEF r
<1>2. CASE w.current \notin DOMAIN w.pages
  <2>1. r = w
    BY <1>2 DEF SetActive
  <2>2. ASSUME Few(w), GrabsReach(w), StrayGrabs(w) PROVE Held(w)
    <3>1. Off(w)
      BY <1>2 DEF Off
    <3>2. QED
      BY <2>2, <3>1, OffHeld DEF GrabsReach
  <2>3. QED
    BY <1>2, <2>1, <2>2
<1>3. QED
  BY <1>1, <1>2

LEMMA DisableReach ==
  ASSUME NEW w, GrabsOK(w), w.shown \in DOMAIN w.pages, Reach(w),
         ToSet(w.pages) \subseteq opened', Numbered', DisableCommand(w),
         ~intruded' /\ Few(w) => /\ GrabsReach(w) /\ Vte \notin ToSet(w.grabs)
                                 /\ w.current \notin DOMAIN w.pages => StrayGrabs(w)
  PROVE  ReachInv'
<1> DEFINE u == Ungrab(w, Bar)
           r == SetActive(u, u.current)
<1>1. /\ GrabsOK(u) /\ SameButGrabs(w, u) /\ ToSet(u.grabs) = ToSet(w.grabs) \ {Bar}
      /\ Reach(u) /\ (Few(u) <=> Few(w)) /\ (StrayGrabs(w) => StrayGrabs(u))
      /\ GrabsReach(w) => GrabsReach(u)
  BY LetGo
<1> HIDE DEF u
<1>2. u.shown \in DOMAIN u.pages /\ u.pages = w.pages /\ u.current = w.current
  BY <1>1 DEF SameButGrabs
<1>3. /\ Reach(r) /\ r.pages = u.pages /\ r.stray = u.stray /\ r.has_focus = u.has_focus
      /\ r.current \in DOMAIN r.pages => r.active
      /\ Vte \in ToSet(r.grabs) => Vte \in ToSet(u.grabs)
      /\ Few(u) /\ GrabsReach(u) /\ (u.current \notin DOMAIN u.pages => StrayGrabs(u)) =>
           GrabsReach(r) /\ IF r.has_focus THEN Held(r) ELSE StrayGrabs(r)
  BY <1>1, <1>2, BackReach
<1>4. win' = r /\ active_mode' = "Window"
  BY <1>2 DEF DisableCommand, u
<1> HIDE DEF r
<1>5. PlaceOK'
  <2>1. Reach(win)'
    BY <1>3, <1>4 DEF Reach, Follows, PanesOK
  <2>2. QED
    BY <1>2, <1>3, <1>4, <2>1 DEF PlaceOK, Open, Modes
<1>6. ASSUME ~intruded', Few(win') PROVE KeysOK'
  <2>1. Few(u) /\ Few(w)
    BY <1>1, <1>3, <1>4, <1>6 DEF Few
  <2>2. /\ GrabsReach(u) /\ Vte \notin ToSet(u.grabs)
        /\ u.current \notin DOMAIN u.pages => StrayGrabs(u)
    BY <1>1, <1>2, <1>6, <2>1
  <2>3. KeysOf(r, "Window")
    BY <1>3, <2>1, <2>2 DEF KeysOf
  <2>4. QED
    BY <1>4, <2>3 DEF KeysOK
<1>7. QED
  BY <1>5, <1>6, ReachStep

LEMMA BarReach ==
  ASSUME WinInv, ReachInv, Escape \/ Activate
  PROVE  ReachInv'
<1>1. BarKey /\ UNCHANGED <<in_quit, intruded>>
  BY DEF Escape, Activate
<1>2. ~in_quit /\ active_mode = "Command"
  BY <1>1 DEF BarKey
<1>3. /\ GrabsOK(win) /\ ShownOK /\ PlaceOK
      /\ ~intruded' /\ Few(win) => /\ GrabsReach(win) /\ Vte \notin ToSet(win.grabs)
                                   /\ StrayGrabs(win)
  BY <1>1, <1>2 DEF WinInv, ReachInv, Calm, KeysOK, KeysOf
<1>4. CASE DisableCommand(win) /\ UNCHANGED opened
  <2>1. Numbered' /\ ToSet(win.pages) \subseteq opened'
    BY <1>3, <1>4 DEF PlaceOK, Numbered, Open
  <2>2. QED
    BY <1>3, <1>4, <2>1, DisableReach DEF PlaceOK, ShownOK
<1>5. CASE \E p \in Page : /\ p = Cardinality(opened) + 1 /\ opened' = opened \cup {p}
                           /\ DisableCommand(AddMode(win, p))
  <2>1. PICK p \in Page : /\ p = Cardinality(opened) + 1 /\ opened' = opened \cup {p}
                          /\ DisableCommand(AddMode(win, p))
    BY <1>5
  <2> DEFINE r == AddMode(win, p)
  <2>2. /\ Reach(r) /\ ToSet(r.pages) \subseteq opened' /\ Numbered'
        /\ GrabsOK(r) /\ InPlace(r) /\ r.active /\ r.current \in DOMAIN r.pages
        /\ r.has_focus = win.has_focus /\ r.stray = win.stray /\ OnlyPages(win, r)
        /\ (Few(win) => GrabsReach(win)) => Keyed(r)
    BY <1>3, <2>1, NewPageReach DEF PlaceOK, ShownOK, Open
  <2> HIDE DEF r
  <2>3. ASSUME ~intruded', Few(r) PROVE GrabsReach(r) /\ Vte \notin ToSet(r.grabs)
    <3>1. GrabsReach(win) /\ Vte \notin ToSet(win.grabs)
      BY <1>3, <2>2, <2>3 DEF Few
    <3>2. Keyed(r)
      BY <2>2, <3>1
    <3>3. QED
      BY <2>2, <2>3, <3>1, <3>2, NoVte DEF Keyed
  <2>4. DisableCommand(r) /\ r.shown \in DOMAIN r.pages
    BY <2>1, <2>2 DEF r, InPlace
  <2>5. QED
    BY <2>2, <2>3, <2>4, DisableReach
<1>6. QED
  BY <1>4, <1>5 DEF Escape, Activate

LEMMA TerminalEndReach ==
  ASSUME WinInv, ReachInv, DisableTerminal
  PROVE  ReachInv'
<1>1. /\ GrabsOK(win) /\ ShownOK /\ PlaceOK /\ UNCHANGED <<in_quit, opened, intruded>>
      /\ Calm => GrabsReach(win) /\ StrayGrabs(win)
  BY DEF DisableTerminal, WinInv, ReachInv, KeysOK, KeysOf
<1> DEFINE r == SetActive(win, win.current)
           u == Ungrab(r, Vte)
<1>2. /\ GrabsOK(r) /\ Reach(r) /\ r.shown \in DOMAIN r.pages
      /\ r.pages = win.pages /\ r.stray = win.stray /\ r.has_focus = win.has_focus
      /\ r.current \in DOMAIN r.pages => r.active
      /\ Few(win) /\ GrabsReach(win) /\ (win.current \notin DOMAIN win.pages => StrayGrabs(win)) =>
           GrabsReach(r) /\ IF r.has_focus THEN Held(r) ELSE StrayGrabs(r)
  BY <1>1, BackReach DEF PlaceOK, ShownOK
<1> HIDE DEF r
<1>3. /\ GrabsOK(u) /\ SameButGrabs(r, u) /\ ToSet(u.grabs) = ToSet(r.grabs) \ {Vte}
      /\ Reach(u) /\ (Few(u) <=> Few(r)) /\ (StrayGrabs(r) => StrayGrabs(u))
      /\ GrabsReach(r) => GrabsReach(u)
      /\ Held(r) => Held(u)
  BY <1>2, LetGo
<1>4. win' = u /\ active_mode' = "Window"
  BY DEF DisableTerminal, r
<1> HIDE DEF u
<1>5. /\ u.pages = win.pages /\ u.stray = win.stray /\ u.has_focus = r.has_focus
      /\ u.current \in DOMAIN u.pages => u.active
  BY <1>2, <1>3 DEF SameButGrabs
<1>6. PlaceOK'
  BY <1>1, <1>3, <1>4, <1>5, PlaceStep DEF PlaceOK, Open, Modes
<1>7. ASSUME ~intruded', Few(win') PROVE KeysOK'
  <2>1. Calm
    BY <1>1, <1>4, <1>5, <1>7 DEF Calm, Few
  <2>2. GrabsReach(r) /\ IF r.has_focus THEN Held(r) ELSE StrayGrabs(r)
    BY <1>1, <1>2, <2>1 DEF Calm
  <2>3. GrabsReach(u) /\ IF u.has_focus THEN Held(u) ELSE StrayGrabs(u)
    BY <1>3, <1>5, <2>2
  <2>4. KeysOf(u, "Window")
    BY <1>3, <1>5, <2>3 DEF KeysOf
  <2>5. QED
    BY <1>4, <2>4 DEF KeysOK
<1>8. QED
  BY <1>6, <1>7, ReachStep

\* A window whose pages can be closed one by one.
Closable == {w \in Window : GrabsOK(w) /\ w.shown \in DOMAIN w.pages /\ Reach(w)}
\* How many pages are left when i of n have been told to close: one stays.
PagesLeft(n, i) == IF i = n THEN 1 ELSE n - i
ClosesInTurn(f, n) ==
  /\ f[0] \in Closable /\ Len(f[0].pages) = n
  /\ \A i \in 1 .. n : f[i - 1] \in Closable /\ Len(f[i - 1].pages) = n + 1 - i =>
                         f[i] = DelMode(f[i - 1], n + 1 - i)

LEMMA ClosableLess ==
  ASSUME NEW w \in Closable, NEW c \in Nat, c = Len(w.pages)
  PROVE  /\ DelMode(w, c) \in Closable
         /\ Len(DelMode(w, c).pages) = IF c = 1 THEN 1 ELSE c - 1
<1>1. GrabsOK(w) /\ w.shown \in DOMAIN w.pages /\ Reach(w)
  BY DEF Closable
<1>2. w.pages \in Seq(Page) /\ w.shown \in 1 .. Len(w.pages)
  BY <1>1, PagesIn DEF GrabsOK, Window
<1>3. CASE c = 1
  BY <1>3 DEF DelMode
<1>4. CASE c # 1
  <2>1. c \in DOMAIN w.pages
    BY <1>2
  <2> DEFINE u == DelMode(w, c)
  <2>2. Reach(u) /\ Len(u.pages) = Len(w.pages) - 1
    BY <1>1, <1>4, <2>1, DelModeReach DEF Ends
  <2>3. GrabsOK(u) /\ u.shown \in DOMAIN u.pages
    BY <1>1, <2>1, DelModeFacts
  <2> HIDE DEF u
  <2>4. u \in Closable
    BY <2>2, <2>3 DEF Closable, GrabsOK
  <2>5. QED
    BY <1>4, <2>2, <2>4 DEF u
<1>5. QED
  BY <1>3, <1>4

LEMMA InTurn ==
  ASSUME NEW n \in Nat \ {0}, NEW f, ClosesInTurn(f, n)
  PROVE  \A m \in 0 .. n : f[m] \in Closable /\ Len(f[m].pages) = PagesLeft(n, m)
<1> DEFINE S == {m \in 0 .. n : f[m] \in Closable /\ Len(f[m].pages) = PagesLeft(n, m)}
<1>1. 0 \in S
  BY DEF ClosesInTurn, PagesLeft
<1>2. ASSUME NEW m \in 0 .. n - 1, m \in S PROVE m + 1 \in S
  <2> DEFINE i == m + 1
             c == n + 1 - i
  <2>1. i \in 1 .. n /\ i - 1 = m /\ c = n - m /\ c \in Nat /\ m # n /\ i \in 0 .. n
    OBVIOUS
  <2>2. f[m] \in Closable /\ Len(f[m].pages) = c
    BY <1>2, <2>1 DEF PagesLeft
  <2>3. f[i] = DelMode(f[m], c)
    <3>1. f[i - 1] \in Closable /\ Len(f[i - 1].pages) = n + 1 - i => f[i] = DelMode(f[i - 1], n + 1 - i)
      BY <2>1 DEF ClosesInTurn
    <3>2. QED
      BY <2>1, <2>2, <3>1
  <2>4. PagesLeft(n, i) = IF c = 1 THEN 1 ELSE c - 1
    BY <2>1 DEF PagesLeft
  <2> HIDE DEF i, c
  <2>5. f[i] \in Closable /\ Len(f[i].pages) = PagesLeft(n, i)
    BY <2>1, <2>2, <2>3, <2>4, ClosableLess
  <2>6. QED
    BY <2>1, <2>5 DEF i
<1>3. n \in Nat
  OBVIOUS
<1> HIDE DEF S
<1>4. \A m \in 0 .. n : m \in S
  BY <1>1, <1>2, <1>3, StepByStep
<1>5. QED
  BY <1>4 DEF S

LEMMA QuitPagesFollow ==
  ASSUME NEW w \in Closable
  PROVE  Follows(QuitPages(w))
<1> DEFINE n == Len(w.pages)
           b == UngrabActive(w)
           step == [x \in (0 .. n) \X Closable |->
                      IF Len(x[2].pages) = n + 1 - x[1] THEN DelMode(x[2], n + 1 - x[1]) ELSE x[2]]
           body(f) == [i \in 0 .. n |-> IF i = 0 THEN b ELSE DelMode(f[i - 1], n + 1 - i)]
           left == CHOOSE f : f = body(f)
<1>1. GrabsOK(w) /\ w.shown \in DOMAIN w.pages /\ Reach(w)
  BY DEF Closable
<1>2. n \in Nat \ {0}
  <2>1. w.pages \in Seq(Page) /\ w.shown \in 1 .. Len(w.pages)
    BY <1>1, PagesIn DEF GrabsOK, Window
  <2>2. QED
    BY <2>1
<1>3. b \in Closable /\ Len(b.pages) = n
  <2>1. ReleasedFrom(w, b)
    BY <1>1, UngrabActiveReach
  <2> HIDE DEF b
  <2>2. QED
    BY <1>1, <2>1 DEF Closable, ReleasedFrom, SamePlace, GrabsOK, Reach, Follows, PanesOK
<1>4. QuitPages(w) = left[n]
  BY DEF QuitPages
<1> HIDE DEF b, n
<1>5. \A f : f = body(f) => ClosesInTurn(f, n)
  <2> SUFFICES ASSUME NEW f, f = body(f) PROVE ClosesInTurn(f, n)
    OBVIOUS
  <2>1. 0 \in 0 .. n
    BY <1>2
  <2>2. f[0] = b
    BY <2>1
  <2>3. ASSUME NEW i \in 1 .. n PROVE f[i] = DelMode(f[i - 1], n + 1 - i)
    <3>1. i \in 0 .. n /\ i # 0
      BY <1>2
    <3> HIDE DEF body
    <3>2. f[i] = body(f)[i]
      OBVIOUS
    <3>3. QED
      BY <3>1, <3>2 DEF body
  <2> HIDE DEF body
  <2>4. QED
    BY <1>3, <2>2, <2>3 DEF ClosesInTurn
<1>6. \E f : f = body(f)
  <2>1. step \in [(0 .. n) \X Closable -> Closable]
    <3>1. ASSUME NEW i \in 0 .. n, NEW x \in Closable, Len(x.pages) = n + 1 - i
          PROVE  DelMode(x, n + 1 - i) \in Closable
      <4>1. n + 1 - i \in Nat
        BY <1>2
      <4>2. QED
        BY <3>1, <4>1, ClosableLess
    <3>2. QED
      BY <3>1
  <2>2. ASSUME NEW i \in 0 .. n, NEW x \in Closable, Len(x.pages) = n + 1 - i
        PROVE  step[<<i, x>>] = DelMode(x, n + 1 - i)
    BY <2>2
  <2> HIDE DEF step
  <2>3. PICK f : RunsIn(f, Closable, 0, n, b, step)
    <3>1. StepOver(step, 0, n, Closable)
      BY <2>1 DEF StepOver
    <3>2. 0 \in Nat /\ n \in Nat /\ 0 <= n
      BY <1>2
    <3>3. QED
      BY <1>3, <3>1, <3>2, RecursionExists
  <2>4. /\ f \in [0 .. n -> Closable] /\ f[0] = b
        /\ \A i \in 1 .. n : f[i] = step[<<i, f[i - 1]>>]
    <3>1. 0 + 1 .. n = 1 .. n
      OBVIOUS
    <3>2. QED
      BY <2>3, <3>1 DEF RunsIn, GoesBy
  <2>5. \A i \in 1 .. n : i \in 0 .. n /\ i - 1 \in 0 .. n
    BY <1>2
  <2>6. ClosesInTurn(f, n)
    BY <1>3, <2>2, <2>4, <2>5 DEF ClosesInTurn
  <2>7. \A m \in 0 .. n : f[m] \in Closable /\ Len(f[m].pages) = PagesLeft(n, m)
    BY <1>2, <2>6, InTurn
  <2>8. ASSUME NEW i \in 1 .. n PROVE f[i] = DelMode(f[i - 1], n + 1 - i)
    <3>1. PagesLeft(n, i - 1) = n + 1 - i
      BY <1>2 DEF PagesLeft
    <3>2. f[i - 1] \in Closable /\ Len(f[i - 1].pages) = n + 1 - i
      BY <2>5, <2>7, <3>1
    <3>3. QED
      BY <2>2, <2>4, <2>5, <3>2
  <2>9. f = [i \in 0 .. n |-> IF i = 0 THEN b ELSE DelMode(f[i - 1], n + 1 - i)]
    <3>1. \A i \in 0 .. n : i = 0 \/ i \in 1 .. n
      BY <1>2
    <3>2. QED
      BY <2>4, <2>8, <3>1
  <2>10. QED
    BY <2>9
<1>7. left = body(left)
  BY <1>6
<1> HIDE DEF left, body
<1>8. ClosesInTurn(left, n)
  BY <1>5, <1>7
<1>9. left[n] \in Closable
  <2>1. n \in 0 .. n
    BY <1>2
  <2>2. QED
    BY <1>2, <1>8, <2>1, InTurn
<1>10. QED
  BY <1>4, <1>9 DEF Closable, Reach

LEMMA QuitReach ==
  ASSUME WinInv, ReachInv, QuitWindow
  PROVE  ReachInv'
<1>1. ~in_quit /\ win' = QuitPages(win) /\ in_quit' = TRUE
  BY DEF QuitWindow
<1>2. win \in Closable
  BY <1>1 DEF WinInv, ReachInv, PlaceOK, ShownOK, Closable, GrabsOK
<1>3. Follows(win')
  BY <1>1, <1>2, QuitPagesFollow
<1>4. QED
  BY <1>1, <1>3 DEF ReachInv, Follows

LEMMA ReachInit ==
  ASSUME WindowsInit
  PROVE  ReachInv
<1>1. /\ win.pages = <<1, 2>> /\ win.shown = 1 /\ win.current = 1 /\ win.active = TRUE
      /\ win.has_focus = FALSE /\ win.grabs = <<>> /\ win.split = {}
      /\ win.pane = [p \in Page |-> 0] /\ win.modal = {} /\ win.stray = {}
      /\ active_mode = "Window" /\ opened = {1, 2}
  BY DEF WindowsInit
<1>2. ToSet(win.grabs) = {} /\ ToSet(win.pages) = {1, 2}
  BY <1>1 DEF ToSet
<1>3. Reach(win)
  <2>1. NoDup(win.pages)
    BY <1>1 DEF NoDup
  <2>2. QED
    BY <1>1, <2>1 DEF Reach, Follows, PanesOK
<1>4. Numbered
  <2>1. opened = 1 .. 2 /\ 2 \in Nat
    BY <1>1
  <2>2. QED
    BY <2>1 DEF Numbered
<1>5. PlaceOK
  BY <1>1, <1>2, <1>3, <1>4 DEF PlaceOK, Open, Modes
<1>6. KeysOK
  BY <1>1, <1>2 DEF KeysOK, KeysOf, GrabsReach, ShownGrabs, LeftOver, Off, StrayGrabs
<1>7. QED
  BY <1>3, <1>5, <1>6 DEF ReachInv, Reach

LEMMA ReachNext == WinInv /\ ReachInv /\ [WindowsNext]_winVars => ReachInv'
<1> SUFFICES ASSUME WinInv, ReachInv, [WindowsNext]_winVars PROVE ReachInv'
  OBVIOUS
<1>1. CASE WindowsNext
  BY <1>1, FocusInReach, FocusOutReach, JumpReach, AddReach, ClosePageReach, QuitReach,
     OpenThreadReach, ClosePaneReach, SwapFocusReach, AskReach, AnswerReach, MultiKeyReach,
     EnableReach, BarReach, TerminalEndReach DEF WindowsNext
<1>2. CASE UNCHANGED winVars
  BY <1>2, SameReach DEF winVars
<1>3. QED
  BY <1>1, <1>2

LEMMA ReachKeys ==
  ASSUME WinInv, ReachInv
  PROVE  KeysReachPage
<1>1. win.current = win.shown \/ (win.shown = 1 /\ win.current = 2)
  BY DEF ReachInv, Follows
<1>2. ASSUME win.has_focus, ~in_quit, active_mode = "Window", ~intruded,
             Cardinality(win.stray) < 2
      PROVE  win.grabs # <<>> /\ Last(win.grabs)[1] = ShownPage(win)
  <2>1. GrabsOK(win) /\ BarOK /\ ShownOK
    BY <1>2 DEF WinInv
  <2>2. Few(win)
    <3>1. IsFiniteSet(win.stray)
      <4>1. win.stray \subseteq Page
        BY <2>1 DEF GrabsOK, Window
      <4>2. QED
        BY <4>1, WindowsAssumption, FS_Subset
    <3>2. ASSUME NEW p \in win.stray, NEW q \in win.stray, p # q PROVE FALSE
      <4>1. {p, q} \subseteq win.stray
        OBVIOUS
      <4>2. Cardinality({p, q}) <= Cardinality(win.stray)
        BY <3>1, <4>1, FS_Subset
      <4>3. Cardinality({p, q}) = 2
        <5>1. Cardinality({p}) = 1 /\ IsFiniteSet({p})
          BY FS_Singleton
        <5>2. Cardinality({p} \cup {q}) = Cardinality({p}) + 1
          BY <3>2, <5>1, FS_AddElement
        <5>3. {p} \cup {q} = {p, q}
          OBVIOUS
        <5>4. QED
          BY <5>1, <5>2, <5>3
      <4>4. Cardinality(win.stray) \in Nat
        BY <3>1, FS_CardinalityType
      <4>5. QED
        BY <1>2, <4>2, <4>3, <4>4
    <3>3. QED
      BY <3>2 DEF Few
  <2>3. KeysOf(win, "Window") /\ Held(win)
    BY <1>2, <2>2 DEF ReachInv, Calm, KeysOK, KeysOf
  <2>4. OnTop(win.grabs, ShownPage(win)) /\ win.grabs # <<>>
    BY <2>3 DEF Held, OnTop, ToSet
  <2>5. Bar \notin ToSet(win.grabs) /\ Vte \notin ToSet(win.grabs)
    BY <1>2, <2>1, <2>3 DEF BarOK, KeysOf
  <2>6. Last(win.grabs) \in ToSet(win.grabs) /\ win.grabs \in Seq(Widget)
    BY <2>1, <2>4, LastIsIn DEF GrabsOK, Window
  <2>7. Last(win.grabs)[1] # Nobody
    <3>1. Last(win.grabs) \in Widget
      BY <2>4, <2>6, FrontFacts
    <3>2. \A x \in Widget : x[1] = Nobody => x \in {Bar, Vte}
      BY DEF Widget, Bar, Vte
    <3>3. QED
      BY <2>5, <2>6, <3>1, <3>2
  <2>8. QED
    BY <2>4, <2>6, <2>7 DEF OnTop
<1>3. QED
  BY <1>1, <1>2 DEF KeysReachPage

\* KeysReachPage
THEOREM KeysReach == WindowsSpec => []KeysReachPage
<1>1. WindowsInit => ReachInv
  BY ReachInit
<1>2. WinInv /\ WinInv' /\ ReachInv /\ [WindowsNext]_winVars => ReachInv'
  BY ReachNext
<1>3. WinInv /\ ReachInv => KeysReachPage
  BY ReachKeys
<1>4. QED
  BY <1>1, <1>2, <1>3, WindowsInductive, PTL DEF WindowsSpec

-----------------------------------------------------------------------------
(* The keys of a page: what the user gave a key to it runs, and what is    *)
(* listed at a key is what the key runs.                                   *)

KeyName == Command \cup {RunHook}
KeyOrNone == KeyCode \cup {Unbound}
EntrySet == [name : KeyName, how : KeyOrNone \cup {Own, Null, Freed}, user : BOOLEAN]
Table == UNION {[D -> EntrySet] : D \in SUBSET KeyOrNone}
StepState == [t : Table, has_master : BOOLEAN, error : BOOLEAN]

\* What x points to has a function and the name n.
Master(t, x, n) == x \in DOMAIN t /\ t[x].how = Own /\ t[x].name = n

\* An entry of the user's file is one of its keys, and what it points to is
\* of the file, too.  A default one is of a command that is not in the file,
\* under its key if it has a function; without one that leads to a function
\* the command has lost its key.
UserEntry(t, x, e) ==
  e.user => /\ x \in UserKeys
            /\ e.how = Own \/ (Master(t, e.how, e.name) /\ t[e.how].user)
DefaultEntry(t, x, e) ==
  ~e.user => /\ ~Defined(e.name)
             /\ \E j \in DOMAIN Registered : /\ Registered[j].name = e.name
                                             /\ e.how = Own => Registered[j].key = x
             /\ e.how = Own \/ Master(t, e.how, e.name) \/ e.name \in Robbed
TableOK(t) ==
  t \in Table /\ \A x \in DOMAIN t : UserEntry(t, x, t[x]) /\ DefaultEntry(t, x, t[x])

\* No entry of the user's file goes.
UserKept(t, u) == \A x \in DOMAIN t : t[x].user => x \in DOMAIN u /\ u[x] = t[x]

LEMMA IsTable ==
  ASSUME NEW D, D \subseteq KeyOrNone, NEW t \in [D -> EntrySet]
  PROVE  t \in Table /\ DOMAIN t = D
BY DEF Table

LEMMA TableIs ==
  ASSUME NEW t \in Table
  PROVE  DOMAIN t \subseteq KeyOrNone /\ \A x \in DOMAIN t : t[x] \in EntrySet
BY DEF Table

LEMMA HowFacts == /\ KeyOrNone \subseteq Nat /\ Own \notin KeyOrNone /\ Null \notin KeyOrNone
                  /\ Freed \notin KeyOrNone /\ Own # Null /\ Own # Freed
BY RegisteredAssumption DEF KeyOrNone, Own, Null, Freed

LEMMA ErasedTyped ==
  ASSUME NEW t \in Table, NEW k
  PROVE  /\ Erased(t, k) \in Table /\ DOMAIN Erased(t, k) = DOMAIN t \ {k}
         /\ \A x \in DOMAIN t \ {k} :
              /\ Erased(t, k)[x].name = t[x].name /\ Erased(t, k)[x].user = t[x].user
              /\ t[x].how # k => Erased(t, k)[x] = t[x]
              /\ t[x].how = k => Erased(t, k)[x].how = Freed
<1> DEFINE D == DOMAIN t \ {k}
<1>1. D \subseteq KeyOrNone /\ \A x \in DOMAIN t : t[x] \in EntrySet
  BY TableIs
<1>2. \A x \in DOMAIN t : [t[x] EXCEPT !.how = Freed] \in EntrySet
  BY <1>1 DEF EntrySet
<1>3. Erased(t, k) \in [D -> EntrySet]
  BY <1>1, <1>2 DEF Erased
<1>4. ASSUME NEW x \in D
      PROVE  /\ Erased(t, k)[x].name = t[x].name /\ Erased(t, k)[x].user = t[x].user
             /\ t[x].how # k => Erased(t, k)[x] = t[x]
             /\ t[x].how = k => Erased(t, k)[x].how = Freed
  <2>1. t[x] \in EntrySet
    BY <1>1
  <2>2. Erased(t, k)[x] = IF t[x].how = k THEN [t[x] EXCEPT !.how = Freed] ELSE t[x]
    BY DEF Erased
  <2>3. QED
    BY <2>1, <2>2 DEF EntrySet
<1>5. Erased(t, k) \in Table /\ DOMAIN Erased(t, k) = D
  BY <1>1, <1>3, IsTable
<1>6. QED
  BY <1>4, <1>5

LEMMA PutTyped ==
  ASSUME NEW t \in Table, NEW k \in KeyOrNone, NEW e \in EntrySet
  PROVE  /\ Put(t, k, e) \in Table /\ DOMAIN Put(t, k, e) = DOMAIN t \cup {k}
         /\ Put(t, k, e)[k] = e /\ \A x \in DOMAIN t \ {k} : Put(t, k, e)[x] = t[x]
<1> DEFINE D == DOMAIN t \cup {k}
<1>1. D \subseteq KeyOrNone /\ \A x \in DOMAIN t : t[x] \in EntrySet
  BY TableIs
<1>2. Put(t, k, e) \in [D -> EntrySet]
  BY <1>1 DEF Put
<1>3. QED
  BY <1>1, <1>2, IsTable DEF Put

LEMMA ErasedFacts ==
  ASSUME NEW t, TableOK(t), NEW k \in UserKeys, k \in DOMAIN t, ~t[k].user
  PROVE  TableOK(Erased(t, k)) /\ UserKept(t, Erased(t, k))
<1> DEFINE u == Erased(t, k)
<1>0. t \in Table
  BY DEF TableOK
<1>1. /\ t \in Table /\ DOMAIN t \subseteq KeyOrNone /\ \A x \in DOMAIN t : t[x] \in EntrySet
  BY <1>0, TableIs
<1>2. /\ u \in Table /\ DOMAIN u = DOMAIN t \ {k}
      /\ \A x \in DOMAIN t \ {k} :
           /\ u[x].name = t[x].name /\ u[x].user = t[x].user
           /\ t[x].how # k => u[x] = t[x]
           /\ t[x].how = k => u[x].how = Freed
  BY <1>0, ErasedTyped
<1> HIDE DEF u
<1>3. ASSUME NEW x \in DOMAIN u
      PROVE  /\ x \in DOMAIN t /\ x # k /\ u[x].name = t[x].name /\ u[x].user = t[x].user
             /\ t[x].how # k => u[x] = t[x]
             /\ t[x].how = k => u[x].how = Freed
  BY <1>2
<1>4. t[k].how = Own => t[k].name \in Robbed
  BY <1>1 DEF TableOK, DefaultEntry, Robbed
<1>5. ASSUME NEW y, NEW n, Master(t, y, n), y # k PROVE Master(u, y, n) /\ u[y] = t[y]
  <2>1. y \in DOMAIN u
    BY <1>2, <1>5 DEF Master
  <2>2. t[y].how # k
    BY <1>1, <1>5, HowFacts DEF Master
  <2>3. QED
    BY <1>3, <1>5, <2>1, <2>2 DEF Master
<1>6. ASSUME NEW x \in DOMAIN u PROVE UserEntry(u, x, u[x]) /\ DefaultEntry(u, x, u[x])
  <2>1. x \in DOMAIN t /\ x # k /\ u[x].name = t[x].name /\ u[x].user = t[x].user
    BY <1>3
  <2>2. UserEntry(t, x, t[x]) /\ DefaultEntry(t, x, t[x])
    BY <2>1 DEF TableOK
  <2>3. CASE t[x].how # k
    <3>1. u[x] = t[x]
      BY <1>3, <2>3
    <3>2. Master(t, t[x].how, t[x].name) =>
            Master(u, t[x].how, t[x].name) /\ u[t[x].how] = t[t[x].how]
      BY <1>5, <2>3
    <3>3. QED
      BY <2>2, <3>1, <3>2 DEF UserEntry, DefaultEntry
  <2>4. CASE t[x].how = k
    <3>1. t[x].how # Own
      BY <1>1, <2>4, HowFacts
    <3>2. ~t[x].user
      BY <2>2, <2>4, <3>1 DEF UserEntry
    <3>3. t[x].name \in Robbed
      BY <1>4, <2>2, <2>4, <3>1, <3>2 DEF DefaultEntry, Master
    <3>4. u[x].how = Freed /\ Freed # Own
      BY <1>3, <2>4, HowFacts
    <3>5. QED
      BY <2>1, <2>2, <3>2, <3>3, <3>4 DEF UserEntry, DefaultEntry
  <2>5. QED
    BY <2>3, <2>4
<1>7. TableOK(u)
  BY <1>2, <1>6 DEF TableOK
<1>8. ASSUME NEW x \in DOMAIN t, t[x].user PROVE x \in DOMAIN u /\ u[x] = t[x]
  <2>1. x # k
    BY <1>8
  <2>2. x \in DOMAIN u
    BY <1>2, <2>1
  <2>3. UserEntry(t, x, t[x])
    BY DEF TableOK
  <2>4. t[x].how # k
    BY <1>1, <1>8, <2>3, HowFacts DEF UserEntry
  <2>5. QED
    BY <1>3, <2>2, <2>4
<1>9. QED
  BY <1>7, <1>8 DEF UserKept, u

LEMMA PutFacts ==
  ASSUME NEW t, TableOK(t), NEW k \in KeyOrNone, k \notin DOMAIN t, NEW e \in EntrySet,
         UserEntry(t, k, e), DefaultEntry(t, k, e)
  PROVE  /\ TableOK(Put(t, k, e)) /\ UserKept(t, Put(t, k, e))
         /\ k \in DOMAIN Put(t, k, e) /\ Put(t, k, e)[k] = e
<1> DEFINE u == Put(t, k, e)
<1>1. t \in Table
  BY DEF TableOK
<1>2. /\ u \in Table /\ DOMAIN u = DOMAIN t \cup {k} /\ u[k] = e
      /\ \A x \in DOMAIN t : u[x] = t[x]
  <2>1. /\ u \in Table /\ DOMAIN u = DOMAIN t \cup {k} /\ u[k] = e
        /\ \A x \in DOMAIN t \ {k} : u[x] = t[x]
    BY <1>1, PutTyped
  <2>2. DOMAIN t \ {k} = DOMAIN t
    OBVIOUS
  <2>3. QED
    BY <2>1, <2>2
<1> HIDE DEF u
<1>3. \A y, n : Master(t, y, n) => Master(u, y, n) /\ u[y] = t[y]
  BY <1>2 DEF Master
<1>4. ASSUME NEW x \in DOMAIN u PROVE UserEntry(u, x, u[x]) /\ DefaultEntry(u, x, u[x])
  <2>1. UserEntry(t, x, u[x]) /\ DefaultEntry(t, x, u[x])
    BY <1>2 DEF TableOK
  <2>2. QED
    BY <1>3, <2>1 DEF UserEntry, DefaultEntry
<1>5. QED
  BY <1>2, <1>4 DEF TableOK, UserKept, u

\* What is registered: n under k.
Registers(k, e) ==
  /\ k \in KeyOrNone /\ e \in EntrySet /\ e.how = Own
  /\ e.user => k \in UserKeys
  /\ ~e.user => /\ ~Defined(e.name)
                /\ \E j \in DOMAIN Registered : Registered[j].name = e.name /\ Registered[j].key = k
GoodStep(s, k, e) ==
  /\ s \in StepState
  /\ ~s.error =>
       /\ TableOK(s.t) /\ UserKept(keys, s.t)
       /\ (s.has_master /\ k \in DOMAIN s.t /\ s.t[k] = e) \/ (~e.user /\ e.name \in Robbed)

LEMMA StepFacts ==
  ASSUME NEW t \in Table, NEW h \in BOOLEAN, NEW r \in BOOLEAN
  PROVE  /\ Step(t, h, r) \in StepState
         /\ Step(t, h, r).t = t /\ Step(t, h, r).has_master = h /\ Step(t, h, r).error = r
BY DEF Step, StepState

LEMMA MasterFacts ==
  ASSUME TableOK(keys), NEW k, NEW e, Registers(k, e)
  PROVE  GoodStep(AddMaster(keys, k, e), k, e)
<1>1. keys \in Table /\ UserKept(keys, keys) /\ k \in KeyOrNone /\ e \in EntrySet /\ e.how = Own
      /\ e.user \in BOOLEAN
  BY DEF TableOK, UserKept, Registers, EntrySet
<1>2. \A t : UserEntry(t, k, e) /\ DefaultEntry(t, k, e)
  BY DEF Registers, UserEntry, DefaultEntry
<1>3. CASE k \notin DOMAIN keys
  <2>1. AddMaster(keys, k, e) = Step(Put(keys, k, e), TRUE, FALSE)
    BY <1>3 DEF AddMaster
  <2>2. /\ TableOK(Put(keys, k, e)) /\ UserKept(keys, Put(keys, k, e))
        /\ k \in DOMAIN Put(keys, k, e) /\ Put(keys, k, e)[k] = e
    BY <1>1, <1>2, <1>3, PutFacts
  <2>3. Put(keys, k, e) \in Table
    BY <2>2 DEF TableOK
  <2>4. QED
    BY <2>1, <2>2, <2>3, StepFacts DEF GoodStep
<1>4. CASE k \in DOMAIN keys /\ keys[k].user = e.user
  <2>1. AddMaster(keys, k, e) = Step(keys, FALSE, TRUE)
    BY <1>4 DEF AddMaster
  <2>2. QED
    BY <1>1, <2>1, StepFacts DEF GoodStep
<1>5. CASE k \in DOMAIN keys /\ keys[k].user # e.user /\ e.user
  <2> DEFINE t == Erased(keys, k)
  <2>1. AddMaster(keys, k, e) = Step(Put(t, k, e), TRUE, FALSE)
    BY <1>5 DEF AddMaster
  <2>2. k \in UserKeys /\ ~keys[k].user
    <3>1. keys[k].user \in BOOLEAN
      BY <1>1, <1>5, TableIs DEF EntrySet
    <3>2. QED
      BY <1>1, <1>5, <3>1 DEF Registers
  <2>3. TableOK(t) /\ UserKept(keys, t)
    BY <1>5, <2>2, ErasedFacts
  <2>4. k \notin DOMAIN t
    <3>1. DOMAIN t = DOMAIN keys \ {k}
      BY <1>1, ErasedTyped
    <3>2. QED
      BY <3>1
  <2> HIDE DEF t
  <2>5. /\ TableOK(Put(t, k, e)) /\ UserKept(t, Put(t, k, e))
        /\ k \in DOMAIN Put(t, k, e) /\ Put(t, k, e)[k] = e
    BY <1>1, <1>2, <2>3, <2>4, PutFacts
  <2>6. UserKept(keys, Put(t, k, e))
    BY <2>3, <2>5 DEF UserKept
  <2>7. Put(t, k, e) \in Table
    BY <2>5 DEF TableOK
  <2>8. QED
    BY <2>1, <2>5, <2>6, <2>7, StepFacts DEF GoodStep
<1>6. CASE k \in DOMAIN keys /\ keys[k].user # e.user /\ ~e.user
  <2>1. AddMaster(keys, k, e) = Step(keys, FALSE, FALSE)
    BY <1>6 DEF AddMaster
  <2>2. keys[k].user
    <3>1. keys[k].user \in BOOLEAN
      BY <1>1, <1>6, TableIs DEF EntrySet
    <3>2. QED
      BY <1>1, <1>6, <3>1
  <2>3. k \in UserKeys
    BY <1>6, <2>2 DEF TableOK, UserEntry
  <2>4. e.name \in Robbed
    BY <1>6, <2>3 DEF Registers, Robbed
  <2>5. QED
    BY <1>1, <1>6, <2>1, <2>4, StepFacts DEF GoodStep
<1>7. QED
  BY <1>3, <1>4, <1>5, <1>6

LEMMA AliasTyped ==
  ASSUME NEW s \in StepState, NEW ka \in KeyOrNone, NEW k \in KeyOrNone, NEW e \in EntrySet
  PROVE  AddAlias(s, ka, k, e) \in StepState
<1>1. s.t \in Table /\ s.has_master \in BOOLEAN /\ s.error \in BOOLEAN
      /\ \A x \in DOMAIN s.t : s.t[x].user \in BOOLEAN
  BY TableIs DEF StepState, EntrySet
<1>2. e.user \in BOOLEAN /\ [e EXCEPT !.how = IF s.has_master THEN k ELSE Null] \in EntrySet
  BY DEF EntrySet
<1> DEFINE d == [e EXCEPT !.how = IF s.has_master THEN k ELSE Null]
           t == Erased(s.t, ka)
<1> HIDE DEF d
<1>3. d \in EntrySet
  BY <1>2 DEF d
<1>4. Put(s.t, ka, d) \in Table
  BY <1>1, <1>3, PutTyped
<1>5. t \in Table
  BY <1>1, ErasedTyped
<1> HIDE DEF t
<1>6. Put(t, k, e) \in Table /\ (IF k \in DOMAIN t THEN t ELSE Put(t, k, e)) \in Table
  BY <1>5, PutTyped
<1>7. CASE s.error
  BY <1>7 DEF AddAlias
<1>8. CASE ~s.error /\ ka \notin DOMAIN s.t
  <2>1. AddAlias(s, ka, k, e) = Step(Put(s.t, ka, d), TRUE, FALSE)
    BY <1>8 DEF AddAlias, d
  <2>2. QED
    BY <1>4, <2>1, StepFacts
<1>9. CASE ~s.error /\ ka \in DOMAIN s.t /\ ~s.t[ka].user /\ e.user
  <2>1. AddAlias(s, ka, k, e) = Step(IF k \in DOMAIN t THEN t ELSE Put(t, k, e), TRUE, FALSE)
    BY <1>9 DEF AddAlias, t
  <2>2. QED
    BY <1>6, <2>1, StepFacts
<1>10. CASE ~s.error /\ ka \in DOMAIN s.t /\ ~(~s.t[ka].user /\ e.user)
  <2> DEFINE r == s.t[ka].user /\ e.user
  <2>1. AddAlias(s, ka, k, e) = Step(s.t, s.has_master, r)
    BY <1>10 DEF AddAlias
  <2>2. r \in BOOLEAN
    BY <1>1, <1>2
  <2> HIDE DEF r
  <2>3. QED
    BY <1>1, <2>1, <2>2, StepFacts
<1>11. QED
  BY <1>7, <1>8, <1>9, <1>10

LEMMA AliasFacts ==
  ASSUME NEW k, NEW e, Registers(k, e), NEW s, GoodStep(s, k, e), NEW ka \in KeyOrNone,
         e.user => ka \in UserKeys
  PROVE  GoodStep(AddAlias(s, ka, k, e), k, e)
<1>1. s \in StepState /\ k \in KeyOrNone /\ e \in EntrySet /\ e.user \in BOOLEAN /\ e.how = Own
  BY DEF GoodStep, Registers, EntrySet
<1>2. AddAlias(s, ka, k, e) \in StepState
  BY <1>1, AliasTyped
<1>3. s.t \in Table /\ s.has_master \in BOOLEAN
      /\ \A x \in DOMAIN s.t : s.t[x].user \in BOOLEAN
  BY <1>1, TableIs DEF StepState, EntrySet
<1>4. CASE s.error
  BY <1>4 DEF AddAlias
<1>5. CASE ~s.error /\ ka \notin DOMAIN s.t
  <2> DEFINE d == [e EXCEPT !.how = IF s.has_master THEN k ELSE Null]
             u == Put(s.t, ka, d)
  <2>1. AddAlias(s, ka, k, e) = Step(u, TRUE, FALSE)
    BY <1>5 DEF AddAlias
  <2>2. /\ d \in EntrySet /\ d.name = e.name /\ d.user = e.user /\ d.how # Own
        /\ s.has_master => d.how = k
    BY <1>1, HowFacts DEF EntrySet
  <2> HIDE DEF d
  <2>3. \/ s.has_master /\ Master(s.t, k, e.name) /\ s.t[k].user = e.user /\ s.t[k] = e
        \/ ~e.user /\ e.name \in Robbed
    BY <1>1, <1>5 DEF GoodStep, Master
  <2>4. UserEntry(s.t, ka, d)
    BY <2>2, <2>3 DEF UserEntry
  <2>5. DefaultEntry(s.t, ka, d)
    BY <2>2, <2>3 DEF DefaultEntry, Registers
  <2>6. TableOK(s.t) /\ UserKept(keys, s.t)
    BY <1>5 DEF GoodStep
  <2>7. TableOK(u) /\ UserKept(s.t, u)
    BY <1>5, <2>2, <2>4, <2>5, <2>6, PutFacts
  <2>8. k \in DOMAIN s.t => k \in DOMAIN u /\ u[k] = s.t[k]
    <3> DEFINE t == s.t
    <3>0. t \in Table /\ d \in EntrySet
      BY <1>3, <2>2
    <3> HIDE DEF t
    <3>1. /\ DOMAIN Put(t, ka, d) = DOMAIN t \cup {ka}
          /\ \A x \in DOMAIN t \ {ka} : Put(t, ka, d)[x] = t[x]
      BY <3>0, PutTyped
    <3>2. QED
      BY <1>5, <3>1 DEF t
  <2> HIDE DEF u
  <2>9. UserKept(keys, u)
    BY <2>6, <2>7 DEF UserKept
  <2>10. u \in Table
    BY <2>7 DEF TableOK
  <2>11. QED
    BY <1>2, <2>1, <2>3, <2>7, <2>8, <2>9, <2>10, StepFacts DEF GoodStep, Master
<1>6. CASE ~s.error /\ ka \in DOMAIN s.t /\ ~s.t[ka].user /\ e.user
  <2> DEFINE t == Erased(s.t, ka)
  <2>1. TableOK(s.t) /\ UserKept(keys, s.t) /\ k \in DOMAIN s.t /\ s.t[k] = e
    BY <1>6 DEF GoodStep
  <2>2. TableOK(t) /\ UserKept(s.t, t)
    BY <1>6, <2>1, ErasedFacts
  <2>3. k \in DOMAIN t /\ t[k] = e
    BY <1>6, <2>1, <2>2 DEF UserKept
  <2>4. AddAlias(s, ka, k, e) = Step(IF k \in DOMAIN t THEN t ELSE Put(t, k, e), TRUE, FALSE)
    BY <1>6 DEF AddAlias
  <2> HIDE DEF t
  <2>5. AddAlias(s, ka, k, e) = Step(t, TRUE, FALSE)
    BY <2>3, <2>4
  <2>6. UserKept(keys, t)
    BY <2>1, <2>2 DEF UserKept
  <2>7. t \in Table
    BY <2>2 DEF TableOK
  <2>8. QED
    BY <1>2, <2>2, <2>3, <2>5, <2>6, <2>7, StepFacts DEF GoodStep
<1>7. CASE ~s.error /\ ka \in DOMAIN s.t /\ ~(~s.t[ka].user /\ e.user)
  <2> DEFINE r == s.t[ka].user /\ e.user
  <2>1. AddAlias(s, ka, k, e) = Step(s.t, s.has_master, r)
    BY <1>7 DEF AddAlias
  <2>2. r \in BOOLEAN
    BY <1>1, <1>3
  <2> HIDE DEF r
  <2>3. QED
    BY <1>2, <1>3, <1>7, <2>1, <2>2, StepFacts DEF GoodStep
<1>8. QED
  BY <1>4, <1>5, <1>6, <1>7


\* What the bindings from first to m have come to: default entries are those
\* from before, or of the command itself; and each line of the user's file leads
\* to the command, or was a further one and took its key from a default entry.
LinesStep(s, bs, first, m, k, e) ==
  ~s.error =>
    /\ \A x \in DOMAIN s.t : ~s.t[x].user =>
         \/ x \in DOMAIN keys /\ ~keys[x].user
         \/ ~e.user /\ \E i \in first .. m : bs[i].name = e.name /\ bs[i].key = x
    /\ e.user => \A i \in first .. m : bs[i].name = e.name =>
         \/ bs[i].key \in DOMAIN s.t /\ s.t[bs[i].key] \in {e, [e EXCEPT !.how = k]}
         \/ i # first /\ bs[i].key \in DOMAIN keys /\ ~keys[bs[i].key].user

LEMMA LinesMaster ==
  ASSUME TableOK(keys), NEW bs, NEW first \in Nat, NEW k, NEW e, Registers(k, e),
         bs[first].key = k, bs[first].name = e.name
  PROVE  LinesStep(AddMaster(keys, k, e), bs, first, first, k, e)
<1>1. keys \in Table /\ k \in KeyOrNone /\ e \in EntrySet /\ e.user \in BOOLEAN
  BY DEF TableOK, Registers, EntrySet
<1>2. first .. first = {first}
  OBVIOUS
<1>3. ASSUME NEW s, s.t \in Table, DOMAIN s.t \subseteq DOMAIN keys \cup {k},
             k \in DOMAIN s.t, s.t[k] = e,
             \A x \in DOMAIN s.t \ {k} : s.t[x].user = keys[x].user
      PROVE  LinesStep(s, bs, first, first, k, e)
  <2>1. ASSUME NEW x \in DOMAIN s.t, ~s.t[x].user
        PROVE  \/ x \in DOMAIN keys /\ ~keys[x].user
               \/ ~e.user /\ \E i \in first .. first : bs[i].name = e.name /\ bs[i].key = x
    <3>1. CASE x = k
      BY <1>2, <1>3, <2>1, <3>1
    <3>2. CASE x # k
      <4>1. x \in DOMAIN keys /\ s.t[x].user = keys[x].user
        BY <1>3, <3>2
      <4>2. QED
        BY <2>1, <4>1
    <3>3. QED
      BY <3>1, <3>2
  <2>2. ASSUME NEW i \in first .. first PROVE bs[i].key = k
    BY <1>2
  <2>3. QED
    BY <1>3, <2>1, <2>2 DEF LinesStep
<1>4. ASSUME NEW u \in Table, DOMAIN u \subseteq DOMAIN keys,
             \A x \in DOMAIN u : u[x].user = keys[x].user,
             NEW s, s = Step(Put(u, k, e), TRUE, FALSE)
      PROVE  LinesStep(s, bs, first, first, k, e)
  <2>1. u \in Table /\ k \in KeyOrNone /\ e \in EntrySet
    BY <1>1
  <2>2. PICK v : v = Put(u, k, e)
    OBVIOUS
  <2>3. v \in Table /\ DOMAIN v = DOMAIN u \cup {k} /\ v[k] = e
        /\ \A x \in DOMAIN u \ {k} : v[x] = u[x]
    BY <2>1, <2>2, PutTyped
  <2>4. s.t = v
    BY <1>4, <2>2 DEF Step
  <2>5. /\ DOMAIN v \subseteq DOMAIN keys \cup {k} /\ k \in DOMAIN v
        /\ \A x \in DOMAIN v \ {k} : v[x].user = keys[x].user
    BY <1>4, <2>3
  <2>6. QED
    BY <1>3, <2>3, <2>4, <2>5
<1>5. ASSUME NEW s, s = Step(keys, FALSE, TRUE) PROVE LinesStep(s, bs, first, first, k, e)
  BY <1>5 DEF Step, LinesStep
<1>6. ASSUME NEW s, s = Step(keys, FALSE, FALSE), ~e.user
      PROVE  LinesStep(s, bs, first, first, k, e)
  <2>1. s.t = keys
    BY <1>6 DEF Step
  <2>2. \A x \in DOMAIN s.t : ~s.t[x].user => x \in DOMAIN keys /\ ~keys[x].user
    BY <2>1
  <2>3. QED
    BY <1>6, <2>2 DEF LinesStep
<1>7. /\ Erased(keys, k) \in Table /\ DOMAIN Erased(keys, k) = DOMAIN keys \ {k}
      /\ \A x \in DOMAIN keys \ {k} : Erased(keys, k)[x].user = keys[x].user
  BY <1>1, ErasedTyped
<1>8. CASE AddMaster(keys, k, e) = Step(keys, FALSE, TRUE)
  BY <1>5, <1>8
<1>9. CASE AddMaster(keys, k, e) = Step(keys, FALSE, FALSE) /\ ~e.user
  BY <1>6, <1>9
<1>10. CASE AddMaster(keys, k, e) = Step(Put(keys, k, e), TRUE, FALSE)
  BY <1>1, <1>4, <1>10
<1>11. CASE AddMaster(keys, k, e) = Step(Put(Erased(keys, k), k, e), TRUE, FALSE)
  <2>1. PICK u : u = Erased(keys, k)
    OBVIOUS
  <2>2. u \in Table /\ DOMAIN u \subseteq DOMAIN keys /\ \A x \in DOMAIN u : u[x].user = keys[x].user
    BY <1>7, <2>1
  <2>3. QED
    BY <1>4, <1>11, <2>1, <2>2
<1>12. QED
  <2>1. k \notin DOMAIN keys => AddMaster(keys, k, e) = Step(Put(keys, k, e), TRUE, FALSE)
    BY DEF AddMaster
  <2>2. k \in DOMAIN keys /\ keys[k].user = e.user
          => AddMaster(keys, k, e) = Step(keys, FALSE, TRUE)
    BY DEF AddMaster
  <2>3. k \in DOMAIN keys /\ keys[k].user # e.user /\ e.user
          => AddMaster(keys, k, e) = Step(Put(Erased(keys, k), k, e), TRUE, FALSE)
    BY DEF AddMaster
  <2>4. k \in DOMAIN keys /\ keys[k].user # e.user /\ ~e.user
          => AddMaster(keys, k, e) = Step(keys, FALSE, FALSE)
    BY DEF AddMaster
  <2>5. QED
    BY <1>8, <1>9, <1>10, <1>11, <2>1, <2>2, <2>3, <2>4

LEMMA LinesAlias ==
  ASSUME NEW k, NEW e, Registers(k, e), NEW s, GoodStep(s, k, e), NEW bs,
         NEW first \in Nat, NEW m \in Nat, m > first,
         bs[m].key \in KeyOrNone, bs[m].name = e.name, e.user => bs[m].key \in UserKeys,
         LinesStep(s, bs, first, m - 1, k, e)
  PROVE  LinesStep(AddAlias(s, bs[m].key, k, e), bs, first, m, k, e)
<1> DEFINE ka == bs[m].key
<1>1. s \in StepState /\ k \in KeyOrNone /\ e \in EntrySet /\ e.user \in BOOLEAN /\ e.how = Own
  BY DEF GoodStep, Registers, EntrySet
<1>2. s.t \in Table /\ s.has_master \in BOOLEAN
      /\ \A x \in DOMAIN s.t : s.t[x].user \in BOOLEAN
  BY <1>1, TableIs DEF StepState, EntrySet
<1>3. first .. m = (first .. m - 1) \cup {m} /\ m \in first .. m /\ m # first
      /\ m \notin first .. m - 1
  OBVIOUS
<1>4. ka \in KeyOrNone /\ bs[m].key = ka
  OBVIOUS
<1> HIDE DEF ka
<1>5. CASE s.error
  BY <1>5 DEF AddAlias, LinesStep
<1>6. CASE ~s.error /\ ka \notin DOMAIN s.t
  <2> DEFINE d == [e EXCEPT !.how = IF s.has_master THEN k ELSE Null]
             u == Put(s.t, ka, d)
  <2>1. AddAlias(s, ka, k, e) = Step(u, TRUE, FALSE)
    BY <1>6 DEF AddAlias
  <2>2. d \in EntrySet /\ d.user = e.user
    BY <1>1, HowFacts DEF EntrySet
  <2>3. e.user => d = [e EXCEPT !.how = k]
    BY <1>6 DEF GoodStep
  <2> HIDE DEF d
  <2>4. DOMAIN u = DOMAIN s.t \cup {ka} /\ u[ka] = d /\ \A x \in DOMAIN s.t \ {ka} : u[x] = s.t[x]
    <3> DEFINE t == s.t
    <3>1. t \in Table
      BY <1>2
    <3> HIDE DEF t
    <3>2. /\ Put(t, ka, d) \in Table /\ DOMAIN Put(t, ka, d) = DOMAIN t \cup {ka}
          /\ Put(t, ka, d)[ka] = d /\ \A x \in DOMAIN t \ {ka} : Put(t, ka, d)[x] = t[x]
      BY <1>4, <2>2, <3>1, PutTyped
    <3>3. QED
      BY <3>2 DEF t
  <2> HIDE DEF u
  <2>5. ASSUME NEW x \in DOMAIN u, ~u[x].user
        PROVE  \/ x \in DOMAIN keys /\ ~keys[x].user
               \/ ~e.user /\ \E i \in first .. m : bs[i].name = e.name /\ bs[i].key = x
    <3>1. CASE x = ka
      BY <1>3, <1>4, <2>2, <2>4, <2>5, <3>1
    <3>2. CASE x # ka
      BY <1>3, <1>6, <2>4, <2>5, <3>2 DEF LinesStep
    <3>3. QED
      BY <3>1, <3>2
  <2>6. ASSUME e.user, NEW i \in first .. m, bs[i].name = e.name
        PROVE  \/ bs[i].key \in DOMAIN u /\ u[bs[i].key] \in {e, [e EXCEPT !.how = k]}
               \/ i # first /\ bs[i].key \in DOMAIN keys /\ ~keys[bs[i].key].user
    <3>1. CASE i = m
      BY <1>4, <2>3, <2>4, <2>6, <3>1
    <3>2. CASE i # m
      BY <1>3, <1>6, <2>4, <2>6, <3>2 DEF LinesStep
    <3>3. QED
      BY <3>1, <3>2
  <2>7. Step(u, TRUE, FALSE).t = u
    BY DEF Step
  <2>8. QED
    BY <1>4, <2>1, <2>5, <2>6, <2>7 DEF LinesStep
<1>7. CASE ~s.error /\ ka \in DOMAIN s.t /\ ~s.t[ka].user /\ e.user
  <2> DEFINE t == Erased(s.t, ka)
  <2>1. TableOK(s.t) /\ k \in DOMAIN s.t /\ s.t[k] = e
    BY <1>7 DEF GoodStep
  <2>2. UserKept(s.t, t)
    BY <1>4, <1>7, <2>1, ErasedFacts
  <2>3. k \in DOMAIN t
    BY <1>7, <2>1, <2>2 DEF UserKept
  <2>4. AddAlias(s, ka, k, e) = Step(t, TRUE, FALSE)
    BY <1>7, <2>3 DEF AddAlias
  <2>5. DOMAIN t = DOMAIN s.t \ {ka} /\ \A x \in DOMAIN t : t[x].user = s.t[x].user
    <3> DEFINE w == s.t
    <3>1. w \in Table
      BY <1>2
    <3> HIDE DEF w
    <3>2. DOMAIN Erased(w, ka) = DOMAIN w \ {ka}
          /\ \A x \in DOMAIN w \ {ka} : Erased(w, ka)[x].user = w[x].user
      BY <3>1, ErasedTyped
    <3>3. QED
      BY <3>2 DEF w
  <2> HIDE DEF t
  <2>6. \A x \in DOMAIN t : ~t[x].user => x \in DOMAIN keys /\ ~keys[x].user
    BY <1>7, <2>5 DEF LinesStep
  <2>7. ka \in DOMAIN keys /\ ~keys[ka].user
    BY <1>7 DEF LinesStep
  <2>8. ASSUME NEW i \in first .. m, bs[i].name = e.name
        PROVE  \/ bs[i].key \in DOMAIN t /\ t[bs[i].key] \in {e, [e EXCEPT !.how = k]}
               \/ i # first /\ bs[i].key \in DOMAIN keys /\ ~keys[bs[i].key].user
    <3>1. CASE i = m
      BY <1>3, <1>4, <2>7, <3>1
    <3>2. CASE i # m
      <4>1. \/ bs[i].key \in DOMAIN s.t /\ s.t[bs[i].key] \in {e, [e EXCEPT !.how = k]}
            \/ i # first /\ bs[i].key \in DOMAIN keys /\ ~keys[bs[i].key].user
        BY <1>3, <1>7, <2>8, <3>2 DEF LinesStep
      <4>2. e.user /\ [e EXCEPT !.how = k].user
        BY <1>1, <1>7 DEF EntrySet
      <4>3. QED
        BY <2>2, <4>1, <4>2 DEF UserKept
    <3>3. QED
      BY <3>1, <3>2
  <2>9. Step(t, TRUE, FALSE).t = t
    BY DEF Step
  <2>10. QED
    BY <1>4, <2>4, <2>6, <2>8, <2>9 DEF LinesStep
<1>8. CASE ~s.error /\ ka \in DOMAIN s.t /\ ~(~s.t[ka].user /\ e.user)
  <2>1. AddAlias(s, ka, k, e) = Step(s.t, s.has_master, s.t[ka].user /\ e.user)
    BY <1>8 DEF AddAlias
  <2>2. Step(s.t, s.has_master, s.t[ka].user /\ e.user).t = s.t
        /\ Step(s.t, s.has_master, s.t[ka].user /\ e.user).error = (s.t[ka].user /\ e.user)
    BY DEF Step
  <2>3. CASE e.user
    BY <1>2, <1>4, <1>8, <2>1, <2>2, <2>3 DEF LinesStep
  <2>4. CASE ~e.user
    BY <1>3, <1>4, <1>8, <2>1, <2>2, <2>4 DEF LinesStep
  <2>5. QED
    BY <2>3, <2>4
<1>9. QED
  BY <1>4, <1>5, <1>6, <1>7, <1>8

\* The fold of RegisterKey: the master key, then the aliases in order.
Bindings == Seq([name : KeyName, key : KeyOrNone])
Folded(bs, first, k, e) ==
  LET added[i \in first .. Len(bs)] ==
        IF i = first THEN AddMaster(keys, k, e)
        ELSE IF bs[i].name = e.name THEN AddAlias(added[i - 1], bs[i].key, k, e)
        ELSE added[i - 1]
  IN  added[Len(bs)]

LEMMA FoldedFacts ==
  ASSUME TableOK(keys), NEW bs \in Bindings, NEW first \in 1 .. Len(bs), NEW k, NEW e,
         Registers(k, e),
         e.user => \A i \in 1 .. Len(bs) : bs[i].name = e.name => bs[i].key \in UserKeys,
         bs[first].key = k, bs[first].name = e.name
  PROVE  /\ GoodStep(Folded(bs, first, k, e), k, e)
         /\ LinesStep(Folded(bs, first, k, e), bs, first, Len(bs), k, e)
<1> DEFINE n == Len(bs)
           b == AddMaster(keys, k, e)
           Added(i, s) == IF bs[i].name = e.name THEN AddAlias(s, bs[i].key, k, e) ELSE s
           step == [x \in (first .. n) \X StepState |-> Added(x[1], x[2])]
           body(f) == [i \in first .. n |->
                         IF i = first THEN b
                         ELSE IF bs[i].name = e.name THEN AddAlias(f[i - 1], bs[i].key, k, e)
                         ELSE f[i - 1]]
           added == CHOOSE f : f = body(f)
<1>1. n \in Nat /\ first \in Nat /\ first <= n /\ first >= 1
      /\ \A i \in 1 .. n : bs[i].name \in KeyName /\ bs[i].key \in KeyOrNone
  <2> DEFINE B == [name : KeyName, key : KeyOrNone]
  <2>1. bs \in Seq(B)
    BY DEF Bindings
  <2>2. \A c \in B : c.name \in KeyName /\ c.key \in KeyOrNone
    OBVIOUS
  <2> HIDE DEF B
  <2>3. n \in Nat /\ \A i \in 1 .. n : bs[i] \in B
    BY <2>1
  <2>4. first \in Nat /\ first <= n /\ first >= 1
    BY <2>3
  <2>5. QED
    BY <2>2, <2>3, <2>4
<1>2. Folded(bs, first, k, e) = added[n]
  BY DEF Folded
<1> HIDE DEF n
<1>3. GoodStep(b, k, e) /\ b \in StepState /\ LinesStep(b, bs, first, first, k, e)
  BY <1>1, MasterFacts, LinesMaster DEF GoodStep
<1>4. k \in KeyOrNone /\ e \in EntrySet
  BY DEF Registers
<1> HIDE DEF b
<1>5. \A i \in first .. n, s \in StepState : Added(i, s) \in StepState
  <2> SUFFICES ASSUME NEW i \in first .. n, NEW s \in StepState PROVE Added(i, s) \in StepState
    OBVIOUS
  <2>1. bs[i].key \in KeyOrNone
    BY <1>1
  <2>2. QED
    BY <1>4, <2>1, AliasTyped
<1>6. \E f : f = body(f)
  <2>1. step \in [(first .. n) \X StepState -> StepState]
    BY <1>5
  <2>2. \A i \in first .. n, s \in StepState : step[<<i, s>>] = Added(i, s)
    OBVIOUS
  <2> HIDE DEF step, Added
  <2>3. PICK f \in [first .. n -> StepState] :
          f[first] = b /\ \A i \in first + 1 .. n : f[i] = step[<<i, f[i - 1]>>]
    <3>1. first \in Nat /\ n \in Nat /\ first <= n /\ b \in StepState
      BY <1>1, <1>3
    <3>2. StepOver(step, first, n, StepState)
      BY <2>1 DEF StepOver
    <3>3. PICK f : RunsIn(f, StepState, first, n, b, step)
      BY <3>1, <3>2, RecursionExists
    <3>4. QED
      BY <3>3 DEF RunsIn, GoesBy
  <2>4. ASSUME NEW i \in first .. n, i # first PROVE step[<<i, f[i - 1]>>] = Added(i, f[i - 1])
    <3>1. i - 1 \in first .. n
      BY <1>1, <2>4
    <3>2. QED
      BY <2>2, <3>1
  <2>5. f = [i \in first .. n |-> IF i = first THEN b ELSE Added(i, f[i - 1])]
    <3>1. \A i \in first .. n : i = first \/ i \in first + 1 .. n
      BY <1>1
    <3>2. QED
      BY <2>3, <2>4, <3>1
  <2>6. f = body(f)
    BY <2>5 DEF Added
  <2>7. QED
    BY <2>6
<1>7. added = body(added)
  BY <1>6
<1> DEFINE S == {m \in 0 .. n - first :
                   /\ GoodStep(added[first + m], k, e)
                   /\ LinesStep(added[first + m], bs, first, first + m, k, e)}
<1> HIDE DEF added
<1>8. 0 \in S
  <2>1. first \in first .. n /\ first + 0 = first /\ 0 \in 0 .. n - first
    BY <1>1
  <2>2. added[first] = b
    BY <1>7, <2>1
  <2>3. QED
    BY <1>3, <2>1, <2>2
<1>9. ASSUME NEW m \in 0 .. (n - first) - 1, m \in S PROVE m + 1 \in S
  <2> DEFINE i == first + (m + 1)
  <2>1. i \in first .. n /\ i # first /\ i - 1 = first + m /\ i \in 1 .. n /\ m + 1 \in 0 .. n - first
        /\ i \in Nat /\ i > first
    <3>1. n \in Nat /\ first \in Nat /\ first <= n /\ first >= 1
      BY <1>1
    <3>2. i \in first .. n /\ i # first /\ i - 1 = first + m /\ i \in Nat /\ i > first
      BY <3>1
    <3>3. i \in 1 .. n
      BY <3>1
    <3>4. m + 1 \in 0 .. n - first
      BY <3>1
    <3>5. QED
      BY <3>2, <3>3, <3>4
  <2>2. GoodStep(added[i - 1], k, e) /\ LinesStep(added[i - 1], bs, first, i - 1, k, e)
    BY <1>9, <2>1
  <2>3. added[i] = IF bs[i].name = e.name THEN AddAlias(added[i - 1], bs[i].key, k, e)
                   ELSE added[i - 1]
    <3> HIDE DEF i
    <3>1. QED
      BY <1>7, <2>1
  <2>4. bs[i].key \in KeyOrNone /\ (e.user /\ bs[i].name = e.name => bs[i].key \in UserKeys)
    BY <1>1, <2>1 DEF n
  <2> HIDE DEF i
  <2>5. GoodStep(added[i], k, e) /\ LinesStep(added[i], bs, first, i, k, e)
    <3>1. CASE bs[i].name = e.name
      <4>1. added[i] = AddAlias(added[i - 1], bs[i].key, k, e)
        BY <2>3, <3>1
      <4>2. GoodStep(AddAlias(added[i - 1], bs[i].key, k, e), k, e)
        BY <2>2, <2>4, <3>1, AliasFacts
      <4>3. LinesStep(AddAlias(added[i - 1], bs[i].key, k, e), bs, first, i, k, e)
        BY <1>1, <2>1, <2>2, <2>4, <3>1, LinesAlias
      <4>4. QED
        BY <4>1, <4>2, <4>3
    <3>2. CASE bs[i].name # e.name
      <4>1. added[i] = added[i - 1] /\ \A l \in first .. i : l = i \/ l \in first .. i - 1
        BY <1>1, <2>1, <2>3, <3>2
      <4>2. first .. i - 1 \subseteq first .. i
        BY <1>1, <2>1
      <4>3. LinesStep(added[i], bs, first, i, k, e)
        BY <2>2, <3>2, <4>1, <4>2 DEF LinesStep
      <4>4. QED
        BY <2>2, <4>1, <4>3
    <3>3. QED
      BY <3>1, <3>2
  <2>6. QED
    BY <2>1, <2>5 DEF i
<1>10. n - first \in Nat /\ n - first \in 0 .. n - first /\ first + (n - first) = n
  BY <1>1
<1>11. n - first \in S
  <2> DEFINE d == n - first
  <2> HIDE DEF S
  <2>1. d \in Nat /\ d \in 0 .. d /\ \A m \in 0 .. d - 1 : m \in S => m + 1 \in S
    BY <1>9, <1>10
  <2> HIDE DEF d
  <2>2. d \in S
    BY <1>8, <2>1, StepByStep
  <2>3. QED
    BY <2>2 DEF d
<1>12. GoodStep(added[n], k, e) /\ LinesStep(added[n], bs, first, n, k, e)
  BY <1>10, <1>11
<1>13. QED
  BY <1>2, <1>12 DEF n

\* What is still to be registered is as the code or the file has it, and what
\* has been is served: the key that the file gives it is there and is its own.
Registration == [name : KeyName, key : KeyOrNone, aliases : Seq(KeyCode)]
Served(n) ==
  Defined(n) => LET k == user_bindings[Min(Mine(n))].key
                IN  k = Unbound \/ (k \in DOMAIN keys /\ keys[k] = Entry(n, Own, TRUE))
KeysTypes ==
  /\ user_bindings \in Seq([name : Command, key : KeyOrNone])
  /\ user_run_bindings \in Seq(KeyCode) /\ to_register \in Seq(Registration)
Waiting ==
  \A b \in ToSet(to_register) :
    \/ b \in ToSet(Registered)
    \/ b.name = RunHook /\ b.key \in ToSet(user_run_bindings) /\ b.aliases = <<>>
KeysInv ==
  /\ KeysTypes /\ Waiting
  /\ ~user_bindings_loaded => keys = <<>> /\ to_register = <<>>
  /\ ~refused => /\ TableOK(keys)
                 /\ user_bindings_loaded =>
                      \A j \in DOMAIN Registered :
                        Registered[j] \in ToSet(to_register) \/ Served(Registered[j].name)

LEMMA RegisteredFacts ==
  /\ \A b \in ToSet(Registered) : b \in Registration /\ b.name \in Command
  /\ \A j \in DOMAIN Registered : Registered[j] \in ToSet(Registered)
  /\ Registered \in Seq(Registration)
<1> DEFINE R == [name : Command, key : KeyCode \cup {Unbound}, aliases : Seq(KeyCode)]
<1>1. Registered \in Seq(R)
  BY RegisteredAssumption
<1>2. \A b \in R : b \in Registration /\ b.name \in Command
  BY DEF Registration, KeyName, KeyOrNone
<1> HIDE DEF R
<1>3. \A j \in DOMAIN Registered : Registered[j] \in R
  BY <1>1
<1>4. Registered \in Seq(Registration)
  BY <1>1, <1>2
<1>5. QED
  BY <1>2, <1>3, <1>4 DEF ToSet


LEMMA EmptyTable == <<>> \in Table /\ DOMAIN <<>> = {}
<1>1. DOMAIN <<>> = {}
  OBVIOUS
<1>2. <<>> = [x \in {} |-> x]
  OBVIOUS
<1>3. <<>> \in [{} -> EntrySet]
  BY <1>2
<1>4. QED
  BY <1>1, <1>3, IsTable

LEMMA KeysInitial == KeysInit => KeysInv
<1> SUFFICES ASSUME KeysInit PROVE KeysInv
  OBVIOUS
<1> USE DEF KeysInit
<1>1. KeysTypes
  BY DEF KeysTypes
<1>2. Waiting
  BY DEF Waiting, ToSet
<1>3. TableOK(keys)
  BY EmptyTable DEF TableOK
<1>4. QED
  BY <1>1, <1>2, <1>3 DEF KeysInv

LEMMA LoadLineKeeps == KeysInv /\ LoadLine => KeysInv'
<1> SUFFICES ASSUME KeysInv, LoadLine PROVE KeysInv'
  OBVIOUS
<1>1. KeysTypes'
  <2> DEFINE L == [name : Command, key : KeyOrNone]
  <2>1. user_bindings \in Seq(L) /\ user_run_bindings \in Seq(KeyCode)
        /\ to_register \in Seq(Registration) /\ to_register' = to_register
    BY DEF KeysInv, KeysTypes, LoadLine
  <2>2. \A n \in Command, k \in KeyCode \cup {Unbound} : [name |-> n, key |-> k] \in L
    BY DEF KeyOrNone
  <2>3. user_bindings' = user_bindings \/ \E l \in L : user_bindings' = Append(user_bindings, l)
    <3> HIDE DEF L
    <3>1. QED
      BY <2>2 DEF LoadLine
  <2> HIDE DEF L
  <2>4. user_bindings' \in Seq(L)
    <3>1. CASE user_bindings' = user_bindings
      BY <2>1, <3>1
    <3>2. ASSUME NEW l \in L, user_bindings' = Append(user_bindings, l)
          PROVE  user_bindings' \in Seq(L)
      BY <2>1, <3>2, AppendFacts
    <3>3. QED
      BY <2>3, <3>1, <3>2
  <2>5. user_run_bindings' = user_run_bindings
        \/ \E k \in KeyCode : user_run_bindings' = Append(user_run_bindings, k)
    BY DEF LoadLine
  <2>6. user_run_bindings' \in Seq(KeyCode)
    BY <2>1, <2>5
  <2>7. QED
    BY <2>1, <2>4, <2>6 DEF KeysTypes, L
<1>2. to_register = <<>> /\ to_register' = <<>> /\ keys' = <<>> /\ ~user_bindings_loaded'
  BY DEF KeysInv, LoadLine
<1>3. Waiting'
  BY <1>2 DEF Waiting, ToSet
<1>4. TableOK(keys)'
  <2>1. keys' \in Table /\ DOMAIN keys' = {}
    BY <1>2, EmptyTable
  <2>2. QED
    BY <2>1 DEF TableOK, Table
<1>5. QED
  BY <1>1, <1>2, <1>3, <1>4 DEF KeysInv

LEMMA StartKeeps == KeysInv /\ StartRegistering => KeysInv'
<1> SUFFICES ASSUME KeysInv, StartRegistering PROVE KeysInv'
  OBVIOUS
<1>1. user_run_bindings \in Seq(KeyCode) /\ Registered \in Seq(Registration)
  BY RegisteredFacts DEF KeysInv, KeysTypes
<1>2. DOMAIN Hooks = 1 .. Len(user_run_bindings) /\ Hooks \in Seq(Registration)
      /\ Len(Hooks) = Len(user_run_bindings)
      /\ \A i \in DOMAIN Hooks :
           Hooks[i] = [name |-> RunHook, key |-> user_run_bindings[i], aliases |-> <<>>]
  <2> DEFINE n == Len(user_run_bindings)
             H(k) == [name |-> RunHook, key |-> k, aliases |-> <<>>]
  <2>1. n \in Nat /\ DOMAIN user_run_bindings = 1 .. n
        /\ \A i \in 1 .. n : user_run_bindings[i] \in KeyCode
    BY <1>1
  <2>2. \A k \in KeyCode : H(k) \in Registration
    BY DEF Registration, KeyName, KeyOrNone
  <2>3. Hooks = [i \in 1 .. n |-> H(user_run_bindings[i])]
    BY <2>1 DEF Hooks
  <2> HIDE DEF n, H
  <2>4. Hooks \in Seq(Registration) /\ Len(Hooks) = n
    BY <2>1, <2>2, <2>3
  <2>5. QED
    BY <2>3, <2>4 DEF H, n
<1>3. /\ to_register' = Registered \o Hooks /\ keys' = <<>> /\ user_bindings_loaded'
      /\ UNCHANGED <<user_bindings, user_run_bindings, refused>>
  BY DEF StartRegistering, KeysInv
<1>4. KeysTypes'
  BY <1>1, <1>2, <1>3 DEF KeysInv, KeysTypes
<1>5. \A j \in DOMAIN Registered : Registered[j] \in ToSet(to_register')
  <2>1. \A j \in DOMAIN Registered : j \in DOMAIN to_register' /\ to_register'[j] = Registered[j]
    BY <1>1, <1>2, <1>3
  <2>2. QED
    BY <2>1 DEF ToSet
<1>6. Waiting'
  <2> SUFFICES ASSUME NEW i \in DOMAIN to_register'
               PROVE  \/ to_register'[i] \in ToSet(Registered)
                      \/ /\ to_register'[i].name = RunHook
                         /\ to_register'[i].key \in ToSet(user_run_bindings)
                         /\ to_register'[i].aliases = <<>>
    BY <1>3 DEF Waiting, ToSet
  <2>1. CASE i \in DOMAIN Registered
    <3>1. to_register'[i] = Registered[i]
      BY <1>1, <1>2, <1>3, <2>1
    <3>2. QED
      BY <2>1, <3>1 DEF ToSet
  <2>2. CASE i \notin DOMAIN Registered
    <3> DEFINE j == i - Len(Registered)
    <3>1. j \in DOMAIN Hooks /\ to_register'[i] = Hooks[j]
      BY <1>1, <1>2, <1>3, <2>2
    <3> HIDE DEF j
    <3>2. user_run_bindings[j] \in ToSet(user_run_bindings)
      BY <1>1, <1>2, <3>1 DEF ToSet
    <3>3. QED
      BY <1>2, <3>1, <3>2
  <2>3. QED
    BY <2>1, <2>2
<1>7. TableOK(keys)'
  <2>1. keys' \in Table /\ DOMAIN keys' = {}
    BY <1>3, EmptyTable
  <2>2. QED
    BY <2>1 DEF TableOK, Table
<1>8. QED
  BY <1>3, <1>4, <1>5, <1>6, <1>7 DEF KeysInv

\* What registering b adds to: the bindings of its command.
BindingsOf(b) == IF Defined(b.name) THEN user_bindings ELSE Defaults(b)
FirstBinding(b) == IF Defined(b.name) THEN Min(Mine(b.name)) ELSE 1
KeyOf(b) == BindingsOf(b)[FirstBinding(b)].key
EntryOf(b) == Entry(b.name, Own, Defined(b.name) \/ b.name = RunHook)

LEMMA HeadFacts ==
  ASSUME KeysTypes, Waiting, to_register # <<>>
  PROVE  /\ Head(to_register) \in Registration
         /\ Head(to_register).name = RunHook =>
              /\ Head(to_register).key \in ToSet(user_run_bindings)
              /\ Head(to_register).aliases = <<>>
         /\ Head(to_register).name # RunHook =>
              \E j \in DOMAIN Registered : Registered[j] = Head(to_register)
         /\ Tail(to_register) \in Seq(Registration)
         /\ \A c \in ToSet(to_register) : c = Head(to_register) \/ c \in ToSet(Tail(to_register))
         /\ ToSet(Tail(to_register)) \subseteq ToSet(to_register)
<1>1. to_register \in Seq(Registration)
  BY DEF KeysTypes
<1>2. Head(to_register) \in Registration /\ Head(to_register) = to_register[1]
      /\ 1 \in DOMAIN to_register /\ Tail(to_register) \in Seq(Registration)
  BY <1>1
<1>3. Head(to_register) \in ToSet(to_register)
  BY <1>2 DEF ToSet
<1>4. Head(to_register).name = RunHook => Head(to_register) \notin ToSet(Registered)
  BY RegisteredFacts, RegisteredAssumption
<1>5. Head(to_register) \in ToSet(Registered) =>
        \E j \in DOMAIN Registered : Registered[j] = Head(to_register)
  BY DEF ToSet
<1>6. Tail(to_register) \in Seq(Registration)
      /\ ToSet(to_register) = {Head(to_register)} \cup ToSet(Tail(to_register))
  BY <1>1, TailFacts
<1>7. QED
  BY <1>2, <1>3, <1>4, <1>5, <1>6 DEF Waiting

LEMMA MineFacts ==
  ASSUME KeysTypes, NEW n, Defined(n)
  PROVE  /\ Min(Mine(n)) \in 1 .. Len(user_bindings)
         /\ user_bindings[Min(Mine(n))].name = n
         /\ user_bindings[Min(Mine(n))].key \in UserKeys \cap KeyOrNone
         /\ n \in Command
<1> DEFINE L == [name : Command, key : KeyOrNone]
<1>1. user_bindings \in Seq(L)
  BY DEF KeysTypes
<1>2. Mine(n) \in SUBSET Nat /\ Mine(n) # {}
  BY <1>1 DEF Mine, Defined
<1>3. Min(Mine(n)) \in Mine(n)
  BY <1>2, MinFacts
<1> DEFINE m == Min(Mine(n))
<1> HIDE DEF m
<1>4. m \in 1 .. Len(user_bindings) /\ m \in DOMAIN user_bindings /\ user_bindings[m].name = n
  BY <1>1, <1>3 DEF Mine, m
<1>5. user_bindings[m].name \in Command /\ user_bindings[m].key \in KeyOrNone
  <2>1. \A l \in L : l.name \in Command /\ l.key \in KeyOrNone
    OBVIOUS
  <2> HIDE DEF L
  <2>2. user_bindings[m] \in L
    BY <1>1, <1>4
  <2>3. QED
    BY <2>1, <2>2
<1>6. user_bindings[m].key \in UserKeys
  BY <1>4 DEF UserKeys
<1>7. QED
  BY <1>4, <1>5, <1>6 DEF m

\* What is registered is what the folding needs.
LEMMA ReadyToRegister ==
  ASSUME KeysTypes, Waiting, to_register # <<>>,
         NEW b, b = Head(to_register)
  PROVE  /\ BindingsOf(b) \in Bindings /\ FirstBinding(b) \in 1 .. Len(BindingsOf(b))
         /\ EntryOf(b).name = b.name /\ BindingsOf(b)[FirstBinding(b)].name = b.name
         /\ EntryOf(b).user => \A i \in 1 .. Len(BindingsOf(b)) :
              BindingsOf(b)[i].name = b.name => BindingsOf(b)[i].key \in UserKeys
         /\ Registers(KeyOf(b), EntryOf(b))
         /\ b.name \in Command => (EntryOf(b).user <=> Defined(b.name))
<1> DEFINE n == b.name
           e == EntryOf(b)
           bs == BindingsOf(b)
<1>1. /\ b \in Registration
      /\ n = RunHook => b.key \in ToSet(user_run_bindings) /\ b.aliases = <<>>
      /\ n # RunHook => \E j \in DOMAIN Registered : Registered[j] = b
  BY HeadFacts
<1>2. n \in KeyName /\ b.key \in KeyOrNone /\ b.aliases \in Seq(KeyCode)
  BY <1>1 DEF Registration
<1>3. e \in EntrySet /\ e.name = n /\ e.how = Own /\ (e.user <=> Defined(n) \/ n = RunHook)
  BY <1>2 DEF EntryOf, Entry, EntrySet
<1>4. RunHook \notin Command
  BY RegisteredAssumption
<1>5. CASE Defined(n)
  <2>1. bs = user_bindings /\ FirstBinding(b) = Min(Mine(n)) /\ KeyOf(b) = user_bindings[Min(Mine(n))].key
    BY <1>5 DEF BindingsOf, FirstBinding, KeyOf
  <2>2. bs \in Bindings
    <3> DEFINE L == [name : Command, key : KeyOrNone]
               B == [name : KeyName, key : KeyOrNone]
    <3>1. user_bindings \in Seq(L)
      BY DEF KeysTypes
    <3>2. L \subseteq B
      BY DEF KeyName
    <3> HIDE DEF L, B, bs
    <3>3. bs \in Seq(B)
      BY <2>1, <3>1, <3>2
    <3>4. QED
      BY <3>3 DEF B, Bindings
  <2>3. \A i \in 1 .. Len(bs) : bs[i].key \in UserKeys
    <3>1. DOMAIN user_bindings = 1 .. Len(user_bindings)
      BY DEF KeysTypes
    <3>2. QED
      BY <2>1, <3>1 DEF UserKeys
  <2>4. /\ FirstBinding(b) \in 1 .. Len(bs) /\ KeyOf(b) \in UserKeys /\ KeyOf(b) \in KeyOrNone
        /\ bs[FirstBinding(b)].name = n
    BY <1>5, <2>1, MineFacts
  <2> HIDE DEF e, bs, n
  <2>5. Registers(KeyOf(b), e)
    BY <1>3, <1>5, <2>4 DEF Registers
  <2>6. QED
    BY <1>3, <1>5, <2>2, <2>3, <2>4, <2>5 DEF e, bs, n
<1>6. CASE ~Defined(n)
  <2>1. bs = Defaults(b) /\ FirstBinding(b) = 1
    BY <1>6 DEF BindingsOf, FirstBinding
  <2>2. bs \in Bindings /\ Len(bs) = Len(b.aliases) + 1 /\ bs[1].key = b.key /\ bs[1].name = n
    <3> DEFINE m == Len(b.aliases) + 1
               B == [name : KeyName, key : KeyOrNone]
    <3>1. \A i \in 1 .. m : (IF i = 1 THEN b.key ELSE b.aliases[i - 1]) \in KeyOrNone
      BY <1>2 DEF KeyOrNone
    <3>2. m \in Nat /\ 1 \in 1 .. m
      BY <1>2
    <3>3. \A i \in 1 .. m : [name |-> n, key |-> IF i = 1 THEN b.key ELSE b.aliases[i - 1]] \in B
      BY <1>2, <3>1
    <3>4. bs = [i \in 1 .. m |-> [name |-> n, key |-> IF i = 1 THEN b.key ELSE b.aliases[i - 1]]]
      BY <2>1 DEF Defaults
    <3> HIDE DEF bs, m, B
    <3>5. bs \in [1 .. m -> B]
      BY <3>3, <3>4
    <3>8. bs \in Seq(B) /\ Len(bs) = m
      BY <3>2, <3>5
    <3>6. bs[1].key = b.key /\ bs[1].name = n
      BY <3>2, <3>4
    <3>7. QED
      BY <3>8, <3>6 DEF Bindings, B, m
  <2>3. KeyOf(b) = b.key /\ FirstBinding(b) \in 1 .. Len(bs) /\ bs[FirstBinding(b)].name = n
    BY <1>2, <2>1, <2>2 DEF KeyOf
  <2>4. n = RunHook => b.key \in UserKeys /\ Len(bs) = 1
    <3>1. n = RunHook => Len(b.aliases) = 0
      BY <1>1
    <3>2. b.key \in ToSet(user_run_bindings) => b.key \in UserKeys
      BY DEF UserKeys
    <3> HIDE DEF bs
    <3>3. QED
      BY <1>1, <2>2, <3>1, <3>2
  <2>5. e.user => \A i \in 1 .. Len(bs) : bs[i].name = n => bs[i].key \in UserKeys
    <3> HIDE DEF bs, e
    <3>1. QED
      BY <1>3, <1>6, <2>2, <2>4
  <2>6. Registers(b.key, e)
    <3> HIDE DEF e, n
    <3>1. n # RunHook => \E j \in DOMAIN Registered : Registered[j].name = n /\ Registered[j].key = b.key
      BY <1>1 DEF n
    <3>2. QED
      BY <1>2, <1>3, <1>6, <2>4, <3>1 DEF Registers
  <2> HIDE DEF e, bs, n
  <2>7. QED
    BY <1>3, <1>4, <1>6, <2>2, <2>3, <2>5, <2>6 DEF e, bs, n
<1>7. QED
  BY <1>5, <1>6

\* What RegisterKey folds for b.
FoldedOf(b) == Folded(BindingsOf(b), FirstBinding(b), KeyOf(b), EntryOf(b))

\* What a step of RegisterKey does, in terms of the fold.
RegisterFolds ==
  LET b == Head(to_register)
      twice == b.name # RunHook /\ \E x \in DOMAIN keys : keys[x].name = b.name
  IN  /\ KeysTypes /\ Waiting /\ to_register # <<>> /\ ~refused /\ TableOK(keys)
      /\ user_bindings_loaded /\ to_register' = Tail(to_register)
      /\ UNCHANGED <<user_bindings, user_run_bindings, user_bindings_loaded>>
      /\ \/ KeyOf(b) = Unbound /\ keys' = keys /\ refused' = refused
         \/ /\ KeyOf(b) # Unbound /\ refused' = (twice \/ FoldedOf(b).error)
            /\ keys' = IF twice THEN keys ELSE FoldedOf(b).t
      /\ b \in Registration /\ Tail(to_register) \in Seq(Registration)
      /\ ToSet(to_register) = {b} \cup ToSet(Tail(to_register))
      /\ GoodStep(FoldedOf(b), KeyOf(b), EntryOf(b))
      /\ LinesStep(FoldedOf(b), BindingsOf(b), FirstBinding(b), Len(BindingsOf(b)),
                   KeyOf(b), EntryOf(b))

LEMMA RegisterFacts == KeysInv /\ RegisterKey => RegisterFolds
<1> SUFFICES ASSUME KeysInv, RegisterKey PROVE RegisterFolds
  OBVIOUS
<1> DEFINE b == Head(to_register)
           k == KeyOf(b)
           e == EntryOf(b)
           all == Folded(BindingsOf(b), FirstBinding(b), k, e)
           twice == b.name # RunHook /\ \E x \in DOMAIN keys : keys[x].name = b.name
<1>1. KeysTypes /\ Waiting /\ to_register # <<>> /\ ~refused /\ TableOK(keys)
  BY DEF KeysInv, RegisterKey
<1>2. /\ to_register' = Tail(to_register)
      /\ UNCHANGED <<user_bindings, user_run_bindings, user_bindings_loaded>>
  BY DEF RegisterKey
<1>3. \/ k = Unbound /\ keys' = keys /\ refused' = refused
      \/ /\ k # Unbound /\ refused' = (twice \/ all.error)
         /\ keys' = IF twice THEN keys ELSE all.t
  <2>1. e.name = b.name
    BY DEF EntryOf, Entry
  <2>2. all =
          LET added[i \in FirstBinding(b) .. Len(BindingsOf(b))] ==
                IF i = FirstBinding(b) THEN AddMaster(keys, k, e)
                ELSE IF BindingsOf(b)[i].name = b.name
                       THEN AddAlias(added[i - 1], BindingsOf(b)[i].key, k, e)
                ELSE added[i - 1]
          IN  added[Len(BindingsOf(b))]
    <3> HIDE DEF b, k, e
    <3>1. QED
      BY <2>1 DEF Folded
  <2>3. QED
    BY <2>2 DEF RegisterKey, BindingsOf, FirstBinding, KeyOf, EntryOf
<1>4. user_bindings_loaded
  BY <1>1 DEF KeysInv
<1>5. /\ b \in Registration /\ Tail(to_register) \in Seq(Registration)
      /\ ToSet(to_register) = {b} \cup ToSet(Tail(to_register))
  <2>1. /\ b \in Registration /\ Tail(to_register) \in Seq(Registration)
    BY <1>1, HeadFacts
  <2>2. ToSet(to_register) = {b} \cup ToSet(Tail(to_register))
    BY <1>1, TailFacts DEF KeysTypes
  <2>3. QED
    BY <2>1, <2>2
<1>6. /\ BindingsOf(b) \in Bindings /\ FirstBinding(b) \in 1 .. Len(BindingsOf(b))
      /\ e.name = b.name /\ Registers(k, e)
      /\ BindingsOf(b)[FirstBinding(b)].name = e.name
      /\ e.user => \A i \in 1 .. Len(BindingsOf(b)) :
           BindingsOf(b)[i].name = b.name => BindingsOf(b)[i].key \in UserKeys
  BY <1>1, ReadyToRegister
<1>7. BindingsOf(b)[FirstBinding(b)].key = k
  BY DEF KeyOf
<1>8. /\ GoodStep(all, k, e)
      /\ LinesStep(all, BindingsOf(b), FirstBinding(b), Len(BindingsOf(b)), k, e)
  <2> HIDE DEF b, k, e
  <2>1. QED
    BY <1>1, <1>6, <1>7, FoldedFacts
<1>9. all = FoldedOf(b)
  BY DEF FoldedOf
<1> HIDE DEF all
<1>10. QED
  BY <1>1, <1>2, <1>3, <1>4, <1>5, <1>8, <1>9 DEF RegisterFolds

LEMMA RegisterKeyKeeps == KeysInv /\ RegisterKey => KeysInv'
<1> SUFFICES ASSUME KeysInv, RegisterKey PROVE KeysInv'
  OBVIOUS
<1> DEFINE b == Head(to_register)
           k == KeyOf(b)
           e == EntryOf(b)
           all == FoldedOf(b)
           twice == b.name # RunHook /\ \E x \in DOMAIN keys : keys[x].name = b.name
<1>1. KeysTypes /\ Waiting /\ to_register # <<>> /\ ~refused /\ TableOK(keys)
  BY RegisterFacts DEF RegisterFolds
<1>2. /\ to_register' = Tail(to_register)
      /\ UNCHANGED <<user_bindings, user_run_bindings, user_bindings_loaded>>
  BY RegisterFacts DEF RegisterFolds
<1>3. \/ k = Unbound /\ keys' = keys /\ refused' = refused
      \/ /\ k # Unbound /\ refused' = (twice \/ all.error)
         /\ keys' = IF twice THEN keys ELSE all.t
  BY RegisterFacts DEF RegisterFolds
<1>4. user_bindings_loaded
  BY RegisterFacts DEF RegisterFolds
<1>5. /\ b \in Registration /\ Tail(to_register) \in Seq(Registration)
      /\ ToSet(to_register) = {b} \cup ToSet(Tail(to_register))
  BY RegisterFacts DEF RegisterFolds
<1>7. GoodStep(all, k, e)
  BY RegisterFacts DEF RegisterFolds
<1> HIDE DEF all, twice
<1>8. KeysTypes'
  BY <1>1, <1>2, <1>5 DEF KeysTypes
<1>9. Waiting'
  BY <1>1, <1>2, <1>5 DEF Waiting
<1>10. ASSUME ~refused' PROVE TableOK(keys') /\ UserKept(keys, keys')
  <2>1. CASE k = Unbound
    BY <1>1, <1>3, <2>1 DEF UserKept
  <2>2. CASE k # Unbound
    BY <1>3, <1>7, <1>10, <2>2 DEF GoodStep
  <2>3. QED
    BY <2>1, <2>2
<1>11. ASSUME ~refused', Defined(b.name)
       PROVE  k = Unbound \/ (k \in DOMAIN keys' /\ keys'[k] = Entry(b.name, Own, TRUE))
  <2>1. e = Entry(b.name, Own, TRUE) /\ e.user
    BY <1>11 DEF EntryOf, Entry
  <2> HIDE DEF e
  <2>2. QED
    BY <1>3, <1>7, <1>11, <2>1 DEF GoodStep
<1>12. ASSUME NEW t, TableOK(t), t = keys' PROVE TableOK(keys)'
  <2>1. /\ Robbed' = Robbed /\ UserKeys' = UserKeys /\ \A n : Defined(n)' = Defined(n)
    BY <1>2 DEF Robbed, UserKeys, Defined, Mine
  <2>2. QED
    BY <1>12, <2>1 DEF TableOK, UserEntry, DefaultEntry, Master
<1>13. ASSUME ~refused', NEW j \in DOMAIN Registered
       PROVE  Registered[j] \in ToSet(to_register') \/ Served(Registered[j].name)'
  <2> DEFINE n == Registered[j].name
  <2>1. Defined(n)' = Defined(n) /\ Mine(n)' = Mine(n)
    BY <1>2 DEF Defined, Mine
  <2>2. CASE Registered[j] = b
    <3>1. Defined(n) => k = user_bindings[Min(Mine(n))].key
      BY <2>2 DEF KeyOf, BindingsOf, FirstBinding
    <3> HIDE DEF b, k
    <3>2. QED
      BY <1>2, <1>11, <1>13, <2>1, <2>2, <3>1 DEF Served
  <2>3. CASE Registered[j] # b
    <3>1. Registered[j] \in ToSet(to_register') \/ Served(n)
      BY <1>1, <1>2, <1>4, <1>5, <2>3 DEF KeysInv
    <3>2. ASSUME Served(n) PROVE Served(n)'
      <4>1. CASE Defined(n)
        <5> DEFINE kk == user_bindings[Min(Mine(n))].key
        <5>1. kk = Unbound \/ (kk \in DOMAIN keys /\ keys[kk] = Entry(n, Own, TRUE))
          BY <3>2, <4>1 DEF Served
        <5>2. kk \in DOMAIN keys /\ keys[kk] = Entry(n, Own, TRUE) => kk \in DOMAIN keys' /\ keys'[kk] = Entry(n, Own, TRUE)
          BY <1>10, <1>13 DEF UserKept, Entry
        <5>3. (user_bindings[Min(Mine(n))].key)' = kk
          BY <1>2, <2>1
        <5> HIDE DEF kk
        <5>4. QED
          BY <5>1, <5>2, <5>3 DEF Served
      <4>2. CASE ~Defined(n)
        BY <2>1, <4>2 DEF Served
      <4>3. QED
        BY <4>1, <4>2
    <3>3. QED
      BY <3>1, <3>2
  <2>4. QED
    BY <2>2, <2>3
<1>14. QED
  <2>1. ~refused' => TableOK(keys)'
    BY <1>10, <1>12
  <2> HIDE DEF b, k, e
  <2>2. QED
    BY <1>2, <1>4, <1>8, <1>9, <1>13, <2>1 DEF KeysInv

LEMMA KeysInductive == KeysInv /\ [KeysNext]_keyVars => KeysInv'
<1> SUFFICES ASSUME KeysInv, [KeysNext]_keyVars PROVE KeysInv'
  OBVIOUS
<1>1. CASE LoadLine
  BY <1>1, LoadLineKeeps
<1>2. CASE StartRegistering
  BY <1>2, StartKeeps
<1>3. CASE RegisterKey
  BY <1>3, RegisterKeyKeeps
<1>4. CASE UNCHANGED keyVars
  <2>1. /\ UserKeys' = UserKeys /\ \A n : Defined(n)' = Defined(n) /\ Mine(n)' = Mine(n)
    BY <1>4 DEF keyVars, UserKeys, Defined, Mine
  <2>2. Robbed' = Robbed
    BY <2>1 DEF Robbed
  <2>3. TableOK(keys) => TableOK(keys)'
    BY <1>4, <2>1, <2>2 DEF keyVars, TableOK, UserEntry, DefaultEntry, Master
  <2>4. ASSUME NEW n, Served(n) PROVE Served(n)'
    BY <1>4, <2>1, <2>4 DEF keyVars, Served
  <2>5. KeysTypes' /\ Waiting'
    BY <1>4 DEF keyVars, KeysInv, KeysTypes, Waiting
  <2>6. QED
    BY <1>4, <2>3, <2>4, <2>5 DEF keyVars, KeysInv
<1>5. QED
  BY <1>1, <1>2, <1>3, <1>4 DEF KeysNext

\* The order of registration: what is left to register is the end of what
\* there was, default entries are of commands registered so far, and the lines
\* and hooks of what is registered lead to it.
AllOf == Registered \o Hooks
Done == Len(AllOf) - Len(to_register)
InOrder ==
  /\ Len(to_register) <= Len(AllOf)
  /\ \A i \in 1 .. Len(to_register) : to_register[i] = AllOf[Done + i]
FromCode == \A x \in DOMAIN keys : ~keys[x].user => x \in DefaultsBefore(Done + 1)
LineServed(j, i) ==
  LET n == Registered[j].name
      k == user_bindings[i].key
      first == Min(Mine(n))
      kf == user_bindings[first].key
  IN  Unbound \notin {k, kf} =>
        \/ k \in DOMAIN keys /\ keys[k].name = n /\ keys[k].user
        \/ i # first /\ k \in DefaultsBefore(j)
LinesServed == \A j \in DOMAIN Registered : j <= Done =>
                 \A i \in Mine(Registered[j].name) : LineServed(j, i)
HookServed(i) == LET k == user_run_bindings[i]
                 IN  k \in DOMAIN keys /\ keys[k] = Entry(RunHook, Own, TRUE)
HooksServed == \A i \in DOMAIN user_run_bindings : Len(Registered) + i <= Done => HookServed(i)
OrderInv ==
  user_bindings_loaded =>
    /\ InOrder
    /\ ~refused => FromCode /\ LinesServed /\ HooksServed

\* What is registered in all: the commands, then the hooks.
LEMMA AllFacts ==
  ASSUME KeysTypes
  PROVE  /\ Hooks \in Seq(Registration) /\ Len(Hooks) = Len(user_run_bindings)
         /\ \A i \in 1 .. Len(user_run_bindings) :
              Hooks[i] = [name |-> RunHook, key |-> user_run_bindings[i], aliases |-> <<>>]
         /\ AllOf \in Seq(Registration) /\ Len(AllOf) = Len(Registered) + Len(user_run_bindings)
         /\ \A i \in 1 .. Len(Registered) : AllOf[i] = Registered[i]
         /\ \A i \in 1 .. Len(user_run_bindings) : AllOf[Len(Registered) + i] = Hooks[i]
<1> DEFINE n == Len(user_run_bindings)
           H(k) == [name |-> RunHook, key |-> k, aliases |-> <<>>]
<1>1. n \in Nat /\ DOMAIN user_run_bindings = 1 .. n
      /\ \A i \in 1 .. n : user_run_bindings[i] \in KeyCode
  BY DEF KeysTypes
<1>2. \A k \in KeyCode : H(k) \in Registration
  BY DEF Registration, KeyName, KeyOrNone
<1>3. Hooks = [i \in 1 .. n |-> H(user_run_bindings[i])]
  BY <1>1 DEF Hooks
<1> HIDE DEF n, H
<1>4. Hooks \in Seq(Registration) /\ Len(Hooks) = n
      /\ \A i \in 1 .. n : Hooks[i] = H(user_run_bindings[i])
  BY <1>1, <1>2, <1>3
<1>5. Registered \in Seq(Registration)
  BY RegisteredFacts
<1>6. /\ AllOf \in Seq(Registration) /\ Len(AllOf) = Len(Registered) + n
      /\ \A i \in 1 .. Len(Registered) : AllOf[i] = Registered[i]
      /\ \A i \in 1 .. n : AllOf[Len(Registered) + i] = Hooks[i]
  BY <1>1, <1>4, <1>5 DEF AllOf
<1>7. QED
  BY <1>4, <1>6 DEF n, H

LEMMA DefaultsGrow == \A j \in Nat : DefaultsBefore(j) \subseteq DefaultsBefore(j + 1)
<1>1. Len(Registered) \in Nat /\ DOMAIN Registered = 1 .. Len(Registered)
  BY RegisteredAssumption
<1>2. \A j \in Nat, h \in DOMAIN Registered : h < j => h < j + 1
  BY <1>1
<1>3. QED
  BY <1>2 DEF DefaultsBefore

\* What b registers is next in the order.
LEMMA NextInOrder ==
  ASSUME KeysTypes, InOrder, to_register # <<>>, to_register' = Tail(to_register),
         UNCHANGED <<user_bindings, user_run_bindings>>
  PROVE  /\ InOrder' /\ Done \in Nat /\ Done' = Done + 1 /\ Done + 1 \in 1 .. Len(AllOf)
         /\ Head(to_register) = AllOf[Done + 1]
<1>1. AllOf' = AllOf /\ Len(AllOf) \in Nat
  BY AllFacts DEF AllOf, Hooks
<1>2. to_register \in Seq(Registration) /\ Len(to_register) \in Nat /\ Len(to_register) > 0
  BY DEF KeysTypes
<1>3. /\ Len(Tail(to_register)) = Len(to_register) - 1
      /\ Head(to_register) = to_register[1]
      /\ \A i \in 1 .. Len(to_register) - 1 : Tail(to_register)[i] = to_register[i + 1]
  BY <1>2
<1>4. Done \in Nat /\ Done' = Done + 1 /\ Done + 1 \in 1 .. Len(AllOf)
  BY <1>1, <1>2, <1>3 DEF Done, InOrder
<1>5. Head(to_register) = AllOf[Done + 1]
  <2>1. 1 \in 1 .. Len(to_register)
    BY <1>2
  <2>2. QED
    BY <1>3, <2>1 DEF InOrder
<1>6. InOrder'
  <2>1. ASSUME NEW i \in 1 .. Len(to_register) - 1
        PROVE  to_register'[i] = AllOf[(Done + 1) + i]
    <3>1. i + 1 \in 1 .. Len(to_register) /\ Done + (i + 1) = (Done + 1) + i
      BY <1>2, <1>4
    <3>2. to_register[i + 1] = AllOf[Done + (i + 1)]
      BY <3>1 DEF InOrder
    <3>3. QED
      BY <1>3, <3>1, <3>2
  <2>2. Len(to_register') = Len(to_register) - 1
    BY <1>3
  <2>3. \A i \in 1 .. Len(to_register') : to_register'[i] = AllOf'[Done' + i]
    BY <1>1, <1>4, <2>1, <2>2
  <2>4. Len(to_register') <= Len(AllOf')
    BY <1>1, <1>2, <2>2 DEF InOrder
  <2>5. QED
    BY <2>3, <2>4 DEF InOrder
<1>7. QED
  BY <1>4, <1>5, <1>6

\* A second line's entry is the first one's with the key that runs the command put in.
LEMMA EntryHow ==
  ASSUME NEW n, NEW x
  PROVE  /\ Entry(n, Own, TRUE).name = n /\ Entry(n, Own, TRUE).user
         /\ [Entry(n, Own, TRUE) EXCEPT !.how = x].name = n
         /\ [Entry(n, Own, TRUE) EXCEPT !.how = x].user
BY DEF Entry

\* The default entries and the lines of the command that is registered j-th.
LEMMA FoldServes ==
  ASSUME KeysTypes, FromCode, Done \in Nat, NEW j \in Nat, j = Done + 1,
         NEW b, b \in Registration,
         j <= Len(Registered) => b = Registered[j],
         j > Len(Registered) => b.name = RunHook,
         NEW s, ~s.error,
         LinesStep(s, BindingsOf(b), FirstBinding(b), Len(BindingsOf(b)), KeyOf(b), EntryOf(b))
  PROVE  /\ \A x \in DOMAIN s.t : ~s.t[x].user => x \in DefaultsBefore(j + 1)
         /\ \A i \in Mine(b.name) :
              LET k == user_bindings[i].key
                  first == Min(Mine(b.name))
                  kf == user_bindings[first].key
              IN  \/ k \in DOMAIN s.t /\ s.t[k].name = b.name /\ s.t[k].user
                  \/ i # first /\ k \in DefaultsBefore(j)
<1>1. \A x \in DOMAIN keys : ~keys[x].user => x \in DefaultsBefore(j) /\ x \in DefaultsBefore(j + 1)
  BY DefaultsGrow DEF FromCode
<1>2. EntryOf(b).name = b.name /\ (EntryOf(b).user = (Defined(b.name) \/ b.name = RunHook))
  BY DEF EntryOf, Entry
<1>3. ASSUME NEW x \in DOMAIN s.t, ~s.t[x].user PROVE x \in DefaultsBefore(j + 1)
  <2>1. CASE x \in DOMAIN keys /\ ~keys[x].user
    BY <1>1, <2>1
  <2>2. CASE ~EntryOf(b).user /\ \E i \in FirstBinding(b) .. Len(BindingsOf(b)) :
               BindingsOf(b)[i].name = EntryOf(b).name /\ BindingsOf(b)[i].key = x
    <3>1. ~Defined(b.name) /\ b.name # RunHook
      BY <1>2, <2>2
    <3>2. Len(Registered) \in Nat
      BY RegisteredAssumption
    <3>3. j \in DOMAIN Registered /\ b = Registered[j] /\ j < j + 1
      BY <3>1, <3>2, RegisteredAssumption
    <3>4. BindingsOf(b) = Defaults(b) /\ FirstBinding(b) = 1
      BY <3>1 DEF BindingsOf, FirstBinding
    <3>5. b.aliases \in Seq(KeyCode)
      BY DEF Registration
    <3>6. Len(b.aliases) \in Nat /\ DOMAIN b.aliases = 1 .. Len(b.aliases)
      BY <3>5
    <3>7. /\ Len(Defaults(b)) = Len(b.aliases) + 1
          /\ \A i \in 1 .. Len(b.aliases) + 1 :
               Defaults(b)[i].key = IF i = 1 THEN b.key ELSE b.aliases[i - 1]
      BY <3>6 DEF Defaults
    <3>8. PICK i \in 1 .. Len(b.aliases) + 1 : Defaults(b)[i].key = x
      BY <2>2, <3>4, <3>7
    <3>9. x = b.key \/ x \in ToSet(b.aliases)
      <4>1. CASE i = 1
        BY <3>7, <3>8, <4>1
      <4>2. CASE i # 1
        <5>1. i - 1 \in DOMAIN b.aliases /\ x = b.aliases[i - 1]
          BY <3>6, <3>7, <3>8, <4>2
        <5>2. QED
          BY <5>1 DEF ToSet
      <4>3. QED
        BY <4>1, <4>2
    <3>10. QED
      BY <3>1, <3>3, <3>9 DEF DefaultsBefore
  <2>3. QED
    BY <1>3, <2>1, <2>2 DEF LinesStep
<1>4. ASSUME NEW i \in Mine(b.name), NEW k, k = user_bindings[i].key,
             NEW first, first = Min(Mine(b.name)), NEW kf, kf = user_bindings[first].key
      PROVE  \/ k \in DOMAIN s.t /\ s.t[k].name = b.name /\ s.t[k].user
             \/ i # first /\ k \in DefaultsBefore(j)
  <2>1. Defined(b.name)
    BY <1>4 DEF Defined
  <2>2. BindingsOf(b) = user_bindings /\ FirstBinding(b) = first /\ KeyOf(b) = kf
        /\ EntryOf(b) = Entry(b.name, Own, TRUE)
    BY <1>4, <2>1 DEF BindingsOf, FirstBinding, KeyOf, EntryOf
  <2>3. i \in first .. Len(user_bindings) /\ user_bindings[i].name = b.name
    <3>1. Mine(b.name) \in SUBSET Nat /\ Len(user_bindings) \in Nat
          /\ i \in 1 .. Len(user_bindings) /\ user_bindings[i].name = b.name
      BY DEF KeysTypes, Mine
    <3>2. first \in Nat /\ first <= i
      BY <1>4, <3>1, MinFacts
    <3>3. QED
      BY <3>1, <3>2
  <2>4. \A x \in {EntryOf(b), [EntryOf(b) EXCEPT !.how = kf]} : x.name = b.name /\ x.user
    <3> DEFINE n == b.name
               e == Entry(n, Own, TRUE)
               d == [e EXCEPT !.how = kf]
    <3> HIDE DEF n
    <3>1. e.name = n /\ e.user /\ d.name = n /\ d.user
      BY EntryHow
    <3>2. EntryOf(b) = e /\ [EntryOf(b) EXCEPT !.how = kf] = d
      BY <2>2 DEF n
    <3> HIDE DEF d, e
    <3>3. QED
      BY <3>1, <3>2 DEF n
  <2>5. \/ k \in DOMAIN s.t /\ s.t[k] \in {EntryOf(b), [EntryOf(b) EXCEPT !.how = kf]}
        \/ i # first /\ k \in DOMAIN keys /\ ~keys[k].user
    BY <1>2, <1>4, <2>2, <2>3, <2>4 DEF LinesStep
  <2>6. QED
    BY <1>1, <2>2, <2>4, <2>5
<1>5. QED
  BY <1>3, <1>4

LEMMA RegisterKeyOrder == KeysInv /\ OrderInv /\ RegisterKey => OrderInv'
<1> SUFFICES ASSUME KeysInv, OrderInv, RegisterKey PROVE OrderInv'
  OBVIOUS
<1> DEFINE b == Head(to_register)
           j == Done + 1
           s == FoldedOf(b)
           n == b.name
<1>1. /\ KeysTypes /\ Waiting /\ to_register # <<>> /\ ~refused /\ TableOK(keys)
      /\ user_bindings_loaded /\ to_register' = Tail(to_register)
      /\ UNCHANGED <<user_bindings, user_run_bindings, user_bindings_loaded>>
      /\ b \in Registration
  BY RegisterFacts DEF RegisterFolds
<1>2. /\ InOrder' /\ Done \in Nat /\ Done' = Done + 1 /\ j \in 1 .. Len(AllOf) /\ b = AllOf[j]
      /\ FromCode /\ LinesServed /\ HooksServed
  BY <1>1, NextInOrder DEF OrderInv
<1>3. \/ KeyOf(b) = Unbound /\ keys' = keys
      \/ KeyOf(b) # Unbound /\ (~refused' => ~s.error /\ keys' = s.t)
  BY RegisterFacts DEF RegisterFolds
<1>4. /\ GoodStep(s, KeyOf(b), EntryOf(b))
      /\ LinesStep(s, BindingsOf(b), FirstBinding(b), Len(BindingsOf(b)), KeyOf(b), EntryOf(b))
  BY RegisterFacts DEF RegisterFolds
<1>5. /\ Len(Registered) \in Nat /\ DOMAIN Registered = 1 .. Len(Registered)
      /\ Len(user_run_bindings) \in Nat
      /\ DOMAIN user_run_bindings = 1 .. Len(user_run_bindings)
  BY <1>1, RegisteredAssumption DEF KeysTypes
<1>6. j \in Nat /\ (j <= Len(Registered) => b = Registered[j])
  BY <1>1, <1>2, <1>5, AllFacts
<1>7. j > Len(Registered) =>
        /\ j - Len(Registered) \in DOMAIN user_run_bindings
        /\ b = [name |-> RunHook, key |-> user_run_bindings[j - Len(Registered)],
                aliases |-> <<>>]
  <2>1. SUFFICES ASSUME j > Len(Registered)
                 PROVE  /\ j - Len(Registered) \in DOMAIN user_run_bindings
                        /\ b = [name |-> RunHook, key |-> user_run_bindings[j - Len(Registered)],
                                aliases |-> <<>>]
    OBVIOUS
  <2> DEFINE i == j - Len(Registered)
  <2>2. i \in 1 .. Len(user_run_bindings) /\ Len(Registered) + i = j
    BY <1>1, <1>2, <1>5, <2>1, AllFacts
  <2> HIDE DEF i, j, b
  <2>3. AllOf[j] = Hooks[i]
    BY <1>1, <2>2, AllFacts
  <2>4. QED
    BY <1>1, <1>2, <1>5, <2>2, <2>3, AllFacts DEF i
<1>8. /\ \A m : DefaultsBefore(m)' = DefaultsBefore(m)
      /\ \A m : Mine(m)' = Mine(m)
  BY <1>1 DEF DefaultsBefore, Defined, Mine
<1> HIDE DEF b, j, s
<1>9. ASSUME ~refused' PROVE UserKept(keys, keys')
  BY <1>1, <1>3, <1>4, <1>9 DEF GoodStep, UserKept
<1>10. ASSUME ~refused', KeyOf(b) # Unbound
       PROVE  /\ \A x \in DOMAIN s.t : ~s.t[x].user => x \in DefaultsBefore(j + 1)
              /\ \A i \in Mine(n) :
                   LET k == user_bindings[i].key
                       first == Min(Mine(n))
                       kf == user_bindings[first].key
                   IN  \/ k \in DOMAIN s.t /\ s.t[k].name = n /\ s.t[k].user
                       \/ i # first /\ k \in DefaultsBefore(j)
  <2>1. ~s.error /\ j = Done + 1 /\ (j > Len(Registered) => b.name = RunHook)
    BY <1>3, <1>7, <1>10 DEF j
  <2>2. /\ KeysTypes /\ FromCode /\ Done \in Nat /\ j \in Nat /\ b \in Registration
        /\ (j <= Len(Registered) => b = Registered[j])
        /\ LinesStep(s, BindingsOf(b), FirstBinding(b), Len(BindingsOf(b)), KeyOf(b), EntryOf(b))
    BY <1>1, <1>2, <1>4, <1>6
  <2>3. QED
    BY ONLY <2>1, <2>2, FoldServes
<1>11. ASSUME ~refused' PROVE FromCode'
  <2>1. \A x \in DOMAIN keys' : ~keys'[x].user => x \in DefaultsBefore(j + 1)
    <3>1. CASE KeyOf(b) = Unbound
      BY <1>2, <1>3, <1>6, <3>1, DefaultsGrow DEF FromCode, j
    <3>2. CASE KeyOf(b) # Unbound
      BY <1>3, <1>10, <1>11, <3>2
    <3>3. QED
      BY <3>1, <3>2
  <2>2. Done' + 1 = j + 1
    BY <1>2 DEF j
  <2>3. QED
    BY <1>8, <2>1, <2>2 DEF FromCode
<1>12. ASSUME ~refused', NEW h \in DOMAIN Registered, h <= Done',
              NEW i \in Mine(Registered[h].name)
       PROVE  LineServed(h, i)'
  <2> DEFINE m == Registered[h].name
             k == user_bindings[i].key
             first == Min(Mine(m))
             kf == user_bindings[first].key
  <2>1. LineServed(h, i)' =
          (Unbound \notin {k, kf} =>
             \/ k \in DOMAIN keys' /\ keys'[k].name = m /\ keys'[k].user
             \/ i # first /\ k \in DefaultsBefore(h))
    BY <1>1, <1>8 DEF LineServed
  <2>2. CASE h <= Done
    <3>1. LineServed(h, i)
      BY <1>2, <2>2 DEF LinesServed
    <3>2. Unbound \notin {k, kf} =>
             \/ k \in DOMAIN keys /\ keys[k].name = m /\ keys[k].user
             \/ i # first /\ k \in DefaultsBefore(h)
      BY <3>1 DEF LineServed
    <3> HIDE DEF m, k, first, kf
    <3>3. k \in DOMAIN keys /\ keys[k].user => k \in DOMAIN keys' /\ keys'[k] = keys[k]
      BY <1>9, <1>12 DEF UserKept
    <3>4. QED
      BY <2>1, <3>2, <3>3
  <2>3. CASE h > Done
    <3>1. h = j /\ Registered[h] = b
      BY <1>2, <1>5, <1>6, <1>12, <2>3 DEF j
    <3>2. Defined(m) /\ m = n
      BY <3>1 DEF Defined
    <3>3. KeyOf(b) = kf
      BY <3>1, <3>2 DEF KeyOf, BindingsOf, FirstBinding
    <3>4. i \in Mine(n) /\ first = Min(Mine(n)) /\ kf = user_bindings[Min(Mine(n))].key
      BY <3>2
    <3>5. CASE kf = Unbound
      <4> HIDE DEF m, k, first, kf
      <4>1. QED
        BY <2>1, <3>5
    <3>6. CASE kf # Unbound
      <4>1. \/ k \in DOMAIN s.t /\ s.t[k].name = n /\ s.t[k].user
            \/ i # first /\ k \in DefaultsBefore(j)
        BY <1>10, <1>12, <3>3, <3>4, <3>6
      <4>2. keys' = s.t
        BY <1>3, <1>12, <3>3, <3>6
      <4> HIDE DEF m, k, first, kf
      <4>3. QED
        BY <2>1, <3>1, <3>2, <4>1, <4>2
    <3>7. QED
      BY <3>5, <3>6
  <2>4. QED
    BY <1>2, <1>5, <2>2, <2>3
<1>13. ASSUME ~refused', NEW i \in DOMAIN user_run_bindings, Len(Registered) + i <= Done'
       PROVE  HookServed(i)'
  <2> DEFINE k == user_run_bindings[i]
  <2>1. HookServed(i)' = (k \in DOMAIN keys' /\ keys'[k] = Entry(RunHook, Own, TRUE))
    BY <1>1 DEF HookServed
  <2>2. CASE Len(Registered) + i <= Done
    <3>1. k \in DOMAIN keys /\ keys[k] = Entry(RunHook, Own, TRUE)
      BY <1>2, <2>2 DEF HooksServed, HookServed
    <3>2. Entry(RunHook, Own, TRUE).user
      BY DEF Entry
    <3> HIDE DEF k
    <3>3. QED
      BY <1>9, <1>13, <2>1, <3>1, <3>2 DEF UserKept
  <2>3. CASE Len(Registered) + i > Done
    <3>1. j = Len(Registered) + i /\ j > Len(Registered) /\ j - Len(Registered) = i
      BY <1>2, <1>5, <1>13, <2>3 DEF j
    <3>2. b.name = RunHook /\ b.key = k
      BY <1>7, <3>1
    <3>3. ~Defined(RunHook)
      <4> DEFINE L == [name : Command, key : KeyOrNone]
      <4>1. \A l \in DOMAIN user_bindings : user_bindings[l].name \in Command
        <5>1. user_bindings \in Seq(L)
          BY <1>1 DEF KeysTypes
        <5>2. \A l \in L : l.name \in Command
          OBVIOUS
        <5> HIDE DEF L
        <5>3. \A l \in DOMAIN user_bindings : user_bindings[l] \in L
          BY <5>1
        <5>4. QED
          BY <5>2, <5>3
      <4>2. QED
        BY <4>1, RegisteredAssumption DEF Defined, Mine
    <3>4. EntryOf(b) = Entry(RunHook, Own, TRUE)
      BY <3>2, <3>3 DEF EntryOf
    <3>5. KeyOf(b) = k
      BY <3>2, <3>3 DEF KeyOf, BindingsOf, FirstBinding, Defaults
    <3>6. k \in KeyCode /\ k # Unbound
      BY <1>1, RegisteredAssumption DEF KeysTypes
    <3>7. ~s.error /\ keys' = s.t
      BY <1>3, <1>13, <3>5, <3>6
    <3>8. EntryOf(b).user
      BY <3>4 DEF Entry
    <3> HIDE DEF k
    <3>9. QED
      BY <1>4, <2>1, <3>4, <3>5, <3>7, <3>8 DEF GoodStep
  <2>4. QED
    BY <1>2, <1>5, <2>2, <2>3
<1>14. ASSUME ~refused' PROVE LinesServed' /\ HooksServed'
  BY <1>1, <1>8, <1>12, <1>13, <1>14 DEF LinesServed, HooksServed
<1>15. QED
  BY <1>2, <1>11, <1>14 DEF OrderInv

LEMMA KeysOrder == KeysInv /\ KeysInv' /\ OrderInv /\ [KeysNext]_keyVars => OrderInv'
<1> SUFFICES ASSUME KeysInv, KeysInv', OrderInv, [KeysNext]_keyVars PROVE OrderInv'
  OBVIOUS
<1>1. CASE LoadLine
  BY <1>1 DEF LoadLine, OrderInv
<1>2. CASE StartRegistering
  <2>1. /\ to_register' = AllOf /\ AllOf' = AllOf /\ keys' = <<>>
        /\ user_run_bindings' = user_run_bindings
    BY <1>2 DEF StartRegistering, KeysInv, AllOf, Hooks
  <2>2. KeysTypes
    BY DEF KeysInv
  <2>3. AllOf \in Seq(Registration) /\ Len(Registered) \in Nat /\ DOMAIN Registered = 1 .. Len(Registered)
        /\ DOMAIN user_run_bindings = 1 .. Len(user_run_bindings)
    BY <2>2, AllFacts, RegisteredAssumption DEF KeysTypes
  <2>4. Done' = 0
    BY <2>1, <2>3 DEF Done
  <2>5. InOrder'
    <3>1. \A i \in 1 .. Len(AllOf) : 0 + i = i
      BY <2>3
    <3>2. QED
      BY <2>1, <2>3, <2>4, <3>1 DEF InOrder
  <2>6. FromCode'
    BY <2>1, EmptyTable DEF FromCode
  <2>7. LinesServed' /\ HooksServed'
    <3>1. \A h \in DOMAIN Registered : ~(h <= 0)
      BY <2>3
    <3>2. \A i \in DOMAIN user_run_bindings : ~(Len(Registered) + i <= 0)
      BY <2>3
    <3>3. QED
      BY <2>1, <2>4, <3>1, <3>2 DEF LinesServed, HooksServed
  <2>8. QED
    BY <2>5, <2>6, <2>7 DEF OrderInv
<1>3. CASE RegisterKey
  BY <1>3, RegisterKeyOrder
<1>4. CASE UNCHANGED keyVars
  <2>1. /\ AllOf' = AllOf /\ Done' = Done /\ to_register' = to_register /\ keys' = keys
        /\ user_run_bindings' = user_run_bindings /\ user_bindings' = user_bindings
        /\ refused' = refused /\ user_bindings_loaded' = user_bindings_loaded
    BY <1>4 DEF keyVars, AllOf, Hooks, Done
  <2>2. (\A m : DefaultsBefore(m)' = DefaultsBefore(m)) /\ (\A m : Mine(m)' = Mine(m))
    BY <2>1 DEF DefaultsBefore, Defined, Mine
  <2>3. InOrder' = InOrder /\ FromCode' = FromCode
    BY <2>1, <2>2 DEF InOrder, FromCode
  <2>4. \A h, i : LineServed(h, i)' = LineServed(h, i)
    BY <2>1, <2>2 DEF LineServed
  <2>5. \A i : HookServed(i)' = HookServed(i)
    BY <2>1 DEF HookServed
  <2>6. LinesServed' = LinesServed /\ HooksServed' = HooksServed
    BY <2>1, <2>2, <2>4, <2>5 DEF LinesServed, HooksServed
  <2>7. QED
    BY <2>1, <2>3, <2>6 DEF OrderInv
<1>5. QED
  BY <1>1, <1>2, <1>3, <1>4 DEF KeysNext

LEMMA KeysServe == KeysInv /\ OrderInv => KeysRunTheirCommand
<1> SUFFICES ASSUME KeysInv, OrderInv, user_bindings_loaded, to_register = <<>>, ~refused
             PROVE  KeysRunTheirCommand
  BY DEF KeysRunTheirCommand
<1>1. TableOK(keys) /\ KeysTypes /\ LinesServed /\ HooksServed
  BY DEF KeysInv, OrderInv
<1>2. Done = Len(Registered) + Len(user_run_bindings)
      /\ Len(Registered) \in Nat /\ DOMAIN Registered = 1 .. Len(Registered)
      /\ Len(user_run_bindings) \in Nat
      /\ DOMAIN user_run_bindings = 1 .. Len(user_run_bindings)
  BY <1>1, AllFacts, RegisteredAssumption DEF Done, KeysTypes
<1>3. ASSUME NEW j \in DOMAIN Registered, NEW i \in Mine(Registered[j].name)
      PROVE  LET n == Registered[j].name
                 k == user_bindings[i].key
                 first == Min(Mine(n))
             IN  Unbound \notin {k, user_bindings[first].key} =>
                   \/ k \in DOMAIN keys /\ Runs(k, n)
                   \/ i # first /\ k \in DefaultsBefore(j)
  <2> DEFINE n == Registered[j].name
             k == user_bindings[i].key
             first == Min(Mine(n))
             kf == user_bindings[first].key
  <2>1. SUFFICES ASSUME Unbound \notin {k, kf}, ~(i # first /\ k \in DefaultsBefore(j))
                 PROVE  k \in DOMAIN keys /\ Runs(k, n)
    OBVIOUS
  <2>2. j <= Done
    BY <1>2
  <2>3. k \in DOMAIN keys /\ keys[k].name = n /\ keys[k].user
    BY <1>1, <2>1, <2>2 DEF LinesServed, LineServed
  <2>4. UserEntry(keys, k, keys[k])
    BY <1>1, <2>3 DEF TableOK
  <2> HIDE DEF n, k, kf, first
  <2>5. keys[k].how = Own \/ Master(keys, keys[k].how, n)
    BY <2>3, <2>4 DEF UserEntry
  <2>6. QED
    BY <2>3, <2>5 DEF Runs, Master
<1>4. ASSUME NEW k \in ToSet(user_run_bindings) PROVE k \in DOMAIN keys /\ Runs(k, RunHook)
  <2>1. PICK i \in DOMAIN user_run_bindings : k = user_run_bindings[i]
    BY DEF ToSet
  <2>2. Len(Registered) + i <= Done
    BY <1>2
  <2>3. k \in DOMAIN keys /\ keys[k] = Entry(RunHook, Own, TRUE)
    BY <1>1, <2>1, <2>2 DEF HooksServed, HookServed
  <2>4. QED
    BY <2>3 DEF Runs, Entry
<1>5. ASSUME NEW x \in DOMAIN keys
      PROVE  Runs(x, keys[x].name) \/ keys[x].name \in Robbed
  <2>1. UserEntry(keys, x, keys[x]) /\ DefaultEntry(keys, x, keys[x])
    BY <1>1 DEF TableOK
  <2>2. keys[x].user \in BOOLEAN
    BY <1>1, TableIs DEF TableOK, EntrySet
  <2>3. keys[x].how = Own \/ Master(keys, keys[x].how, keys[x].name) \/ keys[x].name \in Robbed
    BY <2>1, <2>2 DEF UserEntry, DefaultEntry
  <2>4. QED
    BY <2>3 DEF Runs, Master
<1>6. QED
  BY <1>3, <1>4, <1>5 DEF KeysRunTheirCommand

\* Whatever the file says and whatever is registered in whatever order, if no
\* key is refused then every key that the file gives to a command runs it, but
\* for further lines that take a default key of a command registered before;
\* every key of a hook runs a hook; and every key runs what it is listed under,
\* but for the aliases of a command whose default key the user gave to another
\* (register_key, handle).
THEOREM KeysRunTheirs == KeysSpec => []KeysRunTheirCommand
<1>1. KeysInit => KeysInv /\ OrderInv
  BY KeysInitial DEF KeysInit, OrderInv
<1>2. KeysInv /\ [KeysNext]_keyVars => KeysInv'
  BY KeysInductive
<1>3. KeysInv /\ KeysInv' /\ OrderInv /\ [KeysNext]_keyVars => OrderInv'
  BY KeysOrder
<1>4. QED
  BY <1>1, <1>2, <1>3, KeysServe, PTL DEF KeysSpec

-----------------------------------------------------------------------------
(* The page that composes a message: the text in the file, in the fields,  *)
(* on display and in the message that is sent.                             *)

ComposeTypes ==
  /\ sender \in Account /\ fields = [text |-> fields.text, to |-> fields.to]
  /\ editor \in {"none", "runs", "writes", "ended"} /\ compose_page \in {"open", "gone"}
  /\ {editor_active, forced, message_sent} \subseteq BOOLEAN

ShownMade == shown = Made(File(fields, sender), switches, attachments)

\* The file has what the page has while no editor works on it.
FileRead ==
  /\ fields.text = tmpfile.text /\ fields.to = tmpfile.to
  /\ sender = AccountOf(tmpfile.from)

\* A text that was saved and not overwritten is in the file, and in the page
\* when the editor has ended.
TextThere ==
  /\ editor \in {"runs", "ended"} => tmpfile.text = written
  /\ editor = "none" => fields.text = written

OpenOK ==
  /\ editor_active <=> editor # "none"
  /\ asks \in {"send", "close"} => ~editor_active
  /\ ~editor_active => FileRead
  /\ ~overtaken => TextThere
  /\ "freed" \notin faults

\* Nothing is left that calls back into a page that is gone, but for one that
\* was closed by force or after sending.
GoneOK == forced \/ message_sent \/ (editor = "none" /\ asks = "none")

\* The inductive invariant.
ComposeInv ==
  /\ ComposeTypes /\ ShownMade
  /\ compose_page = "open" => OpenOK
  /\ compose_page = "gone" => GoneOK

\* What ComposeKeepsText says of a step.
StepKeepsText ==
  /\ editor_active /\ ~editor_active' /\ ~overtaken =>
       /\ shown'.text = written
       /\ shown'.to = tmpfile.to /\ shown'.from = AccountOf(tmpfile.from)
  /\ outgoing' # outgoing => outgoing' = shown
  /\ compose_page' # compose_page =>
       \/ forced' \/ message_sent' \/ asks = "close"
       \/ draft'.text = shown.text /\ (draft'.complete \/ shown.options \cap Crypt # {})
  /\ faults' # faults /\ "freed" \in faults' => forced \/ message_sent

\* What is read is shown, whatever the address in the file.
LEMMA ReadEffect ==
  ASSUME NEW f, NEW was, NEW on, NEW n, Read(f, was, on, n)
  PROVE  /\ tmpfile' = f /\ fields' = [text |-> f.text, to |-> f.to]
         /\ sender' \in Account /\ sender' = AccountOf(f.from)
         /\ shown'.text = f.text /\ ShownMade'
         /\ shown'.to = f.to /\ shown'.from = AccountOf(f.from)
<1>1. sender' = AccountOf(f.from) /\ AccountOf(f.from) \in Account
  BY ComposeAssumption DEF Read, AccountOf
<1>2. AccountOf(sender') = sender'
  BY <1>1 DEF AccountOf
<1>3. /\ tmpfile' = f /\ fields' = [text |-> f.text, to |-> f.to]
      /\ shown' = Made(f, switches', attachments')
  BY DEF Read
<1>4. shown' = Made(File(fields', sender'), switches', attachments')
  BY <1>1, <1>2, <1>3 DEF Made, File
<1>5. shown'.text = f.text /\ shown'.to = f.to /\ shown'.from = AccountOf(f.from)
  BY <1>3 DEF Made
<1>6. QED
  BY <1>1, <1>3, <1>4, <1>5 DEF ShownMade, Made, File, AccountOf, Effective

\* What the page makes of its file while no editor works on it is on display.
LEMMA MadeIsShown ==
  ASSUME ComposeInv, compose_page = "open", ~editor_active
  PROVE  Made(tmpfile, switches, attachments) = shown
<1>1. FileRead /\ sender \in Account /\ ShownMade
  BY DEF ComposeInv, OpenOK, ComposeTypes
<1>2. AccountOf(sender) = AccountOf(tmpfile.from)
  BY <1>1 DEF FileRead, AccountOf
<1>3. QED
  BY <1>1, <1>2 DEF ShownMade, FileRead, Made, File

\* A change in the page writes the file and reads it again.
LEMMA EditKeeps ==
  ASSUME ComposeInv, compose_page = "open", NEW f, f.text = fields.text,
         NEW from \in Account, NEW on, NEW n, PrepareAndRead(f, from, on, n),
         UNCHANGED <<closing, draft, delivery, editorState>>, asks' \in {asks, "none"}
  PROVE  ComposeInv' /\ StepKeepsText
<1>1. /\ tmpfile' = File(f, from) /\ fields' = [text |-> f.text, to |-> f.to]
      /\ sender' \in Account /\ sender' = AccountOf(tmpfile'.from) /\ ShownMade'
  BY ReadEffect DEF PrepareAndRead, File
<1>2. ComposeTypes'
  BY <1>1 DEF ComposeInv, ComposeTypes, closing, delivery, editorState
<1>3. FileRead'
  BY <1>1 DEF FileRead, File
<1>4. ASSUME ~overtaken' PROVE TextThere'
  <2>1. ~overtaken /\ (editor = "none" \/ tmpfile.text = f.text)
    BY <1>4 DEF PrepareAndRead
  <2>2. TextThere /\ UNCHANGED <<editor, written>>
    BY <2>1 DEF ComposeInv, OpenOK, editorState
  <2>3. tmpfile'.text = f.text /\ fields'.text = f.text
    BY <1>1 DEF File
  <2>4. QED
    BY <2>1, <2>2, <2>3 DEF TextThere
<1>5. OpenOK'
  BY <1>3, <1>4 DEF ComposeInv, OpenOK, closing, editorState
<1>6. compose_page' = "open"
  BY DEF closing
<1>7. StepKeepsText
  BY DEF StepKeepsText, closing, delivery, editorState
<1>8. QED
  BY <1>1, <1>2, <1>5, <1>6, <1>7 DEF ComposeInv

\* A question, and a draft that cannot be saved, leave all of it as it is.
LEMMA AskKeeps ==
  ASSUME ComposeInv, compose_page = "open",
         UNCHANGED <<tmpfile, fields, sender, switches, attachments, shown, overtaken,
                     closing, delivery, editorState>>,
         asks' \in {"send", "close"} => ~editor_active
  PROVE  ComposeInv' /\ StepKeepsText
<1>1. ComposeTypes' /\ ShownMade'
  BY DEF ComposeInv, ComposeTypes, ShownMade, closing, delivery, editorState,
         Made, File, AccountOf, Effective
<1>2. OpenOK'
  BY DEF ComposeInv, OpenOK, FileRead, TextThere, closing, editorState, AccountOf
<1>3. StepKeepsText /\ compose_page' = "open"
  BY DEF StepKeepsText, closing, delivery, editorState
<1>4. QED
  BY <1>1, <1>2, <1>3 DEF ComposeInv

\* Closing the page.
LEMMA GoneKeeps ==
  ASSUME ComposeInv, compose_page = "open", NEW d, GoneWith(d), forced' \in BOOLEAN,
         \/ forced' \/ message_sent \/ asks = "close"
         \/ /\ ~editor_active
            /\ d \in DraftOf(Made(tmpfile, switches, attachments))
  PROVE  ComposeInv' /\ StepKeepsText
<1>1. ComposeTypes' /\ ShownMade'
  BY DEF ComposeInv, ComposeTypes, ShownMade, GoneWith, delivery, editorState,
         Made, File, AccountOf, Effective
<1>2. compose_page' = "gone" /\ draft' = d /\ asks' = "none"
      /\ UNCHANGED <<faults, delivery, editorState>>
  BY DEF GoneWith
<1>3. asks = "close" => editor = "none"
  BY DEF ComposeInv, OpenOK
<1>4. ~editor_active => editor = "none"
  BY DEF ComposeInv, OpenOK
<1>5. GoneOK'
  BY <1>2, <1>3, <1>4 DEF GoneOK, editorState, delivery
<1>6. ASSUME ~editor_active, d \in DraftOf(Made(tmpfile, switches, attachments))
      PROVE  d.text = shown.text /\ (d.complete \/ shown.options \cap Crypt # {})
  <2>1. d \in DraftOf(shown)
    BY <1>6, MadeIsShown
  <2>2. PICK failed \in CryptFails(shown) : d = [text |-> shown.text, complete |-> ~failed]
    BY <2>1 DEF DraftOf
  <2>3. d.text = shown.text /\ d.complete = ~failed
    BY <2>2
  <2>4. QED
    BY <2>2, <2>3 DEF CryptFails
<1>7. StepKeepsText
  BY <1>2, <1>6 DEF StepKeepsText, editorState, delivery
<1>8. QED
  BY <1>1, <1>2, <1>5, <1>7 DEF ComposeInv

\* A callback into a page that is gone.
LEMMA FreedKeeps ==
  ASSUME ComposeInv, compose_page = "gone", editor # "none" \/ asks # "none",
         IntoFreedPage, editor' \in {editor, "none"}, asks' \in {asks, "none"},
         UNCHANGED <<compose_page, forced, draft, delivery, written>>
  PROVE  ComposeInv' /\ StepKeepsText
<1>1. forced \/ message_sent
  BY DEF ComposeInv, GoneOK
<1>2. ComposeTypes' /\ ShownMade'
  BY DEF ComposeInv, ComposeTypes, ShownMade, IntoFreedPage, pageContent, delivery,
         Made, File, AccountOf, Effective
<1>3. GoneOK' /\ StepKeepsText
  BY <1>1 DEF GoneOK, StepKeepsText, IntoFreedPage, delivery
<1>4. QED
  BY <1>2, <1>3 DEF ComposeInv

-----------------------------------------------------------------------------
LEMMA EditorKeeps ==
  ASSUME ComposeInv,
         EditorStart \/ EditorBegins \/ EditorSaves \/ EditorExits \/ DraftChanged \/ ChildWatch
  PROVE  ComposeInv' /\ StepKeepsText
<1>1. CASE EditorStart
  <2>1. /\ compose_page = "open" /\ compose_page' = "open" /\ ~editor_active /\ editor = "none"
        /\ sender \in Account
    BY <1>1 DEF EditorStart, ComposeKeys, closing, ComposeInv, OpenOK, ComposeTypes
  <2>2. /\ tmpfile' = File(fields, sender) /\ fields' = [text |-> fields.text, to |-> fields.to]
        /\ sender' \in Account /\ sender' = AccountOf(tmpfile'.from) /\ ShownMade'
    BY <1>1, ReadEffect DEF EditorStart, PrepareAndRead, File
  <2>3. \/ editor' = "runs" /\ editor_active' = TRUE
        \/ UNCHANGED <<editor, editor_active>>
    BY <1>1 DEF EditorStart, ExternalStart
  <2>4. FileRead' /\ tmpfile'.text = fields.text /\ fields'.text = fields.text
    BY <2>2 DEF FileRead, File
  <2>5. ~overtaken' => TextThere'
    <3>1. (~overtaken' => ~overtaken) /\ written' = written
      BY <1>1 DEF EditorStart, PrepareAndRead
    <3>2. ~overtaken => fields.text = written
      BY <2>1 DEF ComposeInv, OpenOK, TextThere
    <3>3. QED
      BY <2>4, <3>1, <3>2 DEF TextThere
  <2>6. asks' = "none"
    BY <1>1 DEF EditorStart, ComposeKeys
  <2>7. OpenOK'
    BY <1>1, <2>1, <2>3, <2>4, <2>5, <2>6 DEF ComposeInv, OpenOK, EditorStart, closing
  <2>8. ComposeTypes'
    BY <1>1, <2>2, <2>3 DEF ComposeInv, ComposeTypes, EditorStart, closing, delivery
  <2>9. StepKeepsText
    BY <1>1, <2>1, <2>3 DEF StepKeepsText, EditorStart, closing, delivery
  <2>10. QED
    BY <2>1, <2>2, <2>7, <2>8, <2>9 DEF ComposeInv
<1>2. CASE EditorBegins
  <2>1. /\ compose_page = "open" /\ editor = "runs" /\ editor' = "writes"
        /\ UNCHANGED <<closing, fields, sender, switches, attachments, shown, overtaken,
                       draft, delivery, asks, editor_active, written>>
    BY <1>2 DEF EditorBegins
  <2>2. ComposeTypes' /\ ShownMade'
    BY <2>1 DEF ComposeInv, ComposeTypes, ShownMade, closing, delivery,
                Made, File, AccountOf, Effective
  <2>3. OpenOK'
    BY <2>1 DEF ComposeInv, OpenOK, FileRead, TextThere, closing
  <2>4. StepKeepsText /\ compose_page' = "open"
    BY <2>1 DEF StepKeepsText, closing, delivery
  <2>5. QED
    BY <2>2, <2>3, <2>4 DEF ComposeInv
<1>3. CASE EditorSaves
  <2>1. /\ compose_page = "open" /\ editor = "writes" /\ editor' = "runs"
        /\ written' = written + 1 /\ tmpfile'.text = written'
        /\ UNCHANGED <<closing, fields, sender, switches, attachments, shown,
                       draft, delivery, asks, editor_active>>
    BY <1>3 DEF EditorSaves
  <2>2. ComposeTypes' /\ ShownMade'
    BY <2>1 DEF ComposeInv, ComposeTypes, ShownMade, closing, delivery,
                Made, File, AccountOf, Effective
  <2>3. OpenOK'
    BY <2>1 DEF ComposeInv, OpenOK, FileRead, TextThere, closing
  <2>4. StepKeepsText /\ compose_page' = "open"
    BY <2>1 DEF StepKeepsText, closing, delivery
  <2>5. QED
    BY <2>2, <2>3, <2>4 DEF ComposeInv
<1>4. CASE EditorExits
  <2>1. /\ editor = "runs" /\ editor' = "ended"
        /\ UNCHANGED <<closing, pageContent, draft, delivery, asks, editor_active, written>>
    BY <1>4 DEF EditorExits
  <2>2. ComposeTypes' /\ ShownMade'
    BY <2>1 DEF ComposeInv, ComposeTypes, ShownMade, closing, pageContent, delivery,
                Made, File, AccountOf, Effective
  <2>3. OpenOK => OpenOK'
    BY <2>1 DEF OpenOK, FileRead, TextThere, closing, pageContent, AccountOf
  <2>4. GoneOK => GoneOK'
    BY <2>1 DEF GoneOK, closing, delivery
  <2>5. StepKeepsText /\ compose_page' = compose_page
    BY <2>1 DEF StepKeepsText, closing, delivery
  <2>6. QED
    BY <2>2, <2>3, <2>4, <2>5 DEF ComposeInv
<1>5. CASE DraftChanged
  <2>1. /\ editor # "none"
        /\ UNCHANGED <<compose_page, forced, draft, delivery, asks, editor, written>>
    BY <1>5 DEF DraftChanged
  <2>2. CASE compose_page = "gone"
    BY <1>5, <2>1, <2>2, FreedKeeps DEF DraftChanged
  <2>3. CASE compose_page # "gone"
    <3>1. /\ Read(tmpfile, sender, switches, attachments)
          /\ UNCHANGED <<faults, editor_active, overtaken>>
      BY <1>5, <2>3 DEF DraftChanged
    <3>2. /\ tmpfile' = tmpfile /\ fields' = [text |-> tmpfile.text, to |-> tmpfile.to]
          /\ sender' \in Account /\ sender' = AccountOf(tmpfile.from) /\ ShownMade'
      BY <3>1, ReadEffect
    <3>3. compose_page = "open"
      BY <2>3 DEF ComposeInv, ComposeTypes
    <3>4. ComposeTypes'
      BY <2>1, <3>1, <3>2 DEF ComposeInv, ComposeTypes, delivery
    <3>5. OpenOK'
      BY <2>1, <3>1, <3>2, <3>3 DEF ComposeInv, OpenOK, FileRead, TextThere, AccountOf
    <3>6. StepKeepsText
      BY <2>1, <3>1 DEF StepKeepsText, delivery
    <3>7. QED
      BY <2>1, <3>2, <3>3, <3>4, <3>5, <3>6 DEF ComposeInv
  <2>4. QED
    BY <2>2, <2>3
<1>6. CASE ChildWatch
  <2>1. /\ editor = "ended" /\ editor' = "none"
        /\ UNCHANGED <<compose_page, forced, draft, delivery, asks, written>>
    BY <1>6 DEF ChildWatch
  <2>2. CASE compose_page = "gone"
    BY <1>6, <2>1, <2>2, FreedKeeps DEF ChildWatch
  <2>3. CASE compose_page # "gone"
    <3>1. compose_page = "open" /\ editor_active
      BY <2>1, <2>3 DEF ComposeInv, ComposeTypes, OpenOK
    <3>2. /\ Read(tmpfile, sender, switches, attachments) /\ editor_active' = FALSE
          /\ UNCHANGED <<faults, overtaken>>
      BY <1>6, <3>1 DEF ChildWatch, EditorToggle
    <3>3. /\ tmpfile' = tmpfile /\ fields' = [text |-> tmpfile.text, to |-> tmpfile.to]
          /\ sender' \in Account /\ sender' = AccountOf(tmpfile.from)
          /\ shown'.text = tmpfile.text /\ ShownMade'
          /\ shown'.to = tmpfile.to /\ shown'.from = AccountOf(tmpfile.from)
      BY <3>2, ReadEffect
    <3>4. ~overtaken => tmpfile.text = written
      BY <2>1, <3>1 DEF ComposeInv, OpenOK, TextThere
    <3>5. ComposeTypes'
      BY <2>1, <3>2, <3>3 DEF ComposeInv, ComposeTypes, delivery
    <3>6. OpenOK'
      BY <2>1, <3>1, <3>2, <3>3, <3>4 DEF ComposeInv, OpenOK, FileRead, TextThere, AccountOf
    <3>7. StepKeepsText
      BY <2>1, <3>2, <3>3, <3>4 DEF StepKeepsText, delivery
    <3>8. QED
      BY <2>1, <3>1, <3>3, <3>5, <3>6, <3>7 DEF ComposeInv
  <2>4. QED
    BY <2>2, <2>3
<1>7. QED
  BY <1>1, <1>2, <1>3, <1>4, <1>5, <1>6

LEMMA ContentKeeps ==
  ASSUME ComposeInv,
         \/ ToggleSignature \/ ToggleMarkdown \/ ToggleEncrypt \/ ToggleByMouse
         \/ CycleFrom \/ OnFromComboChanged \/ OnReceiverComboChanged
         \/ AttachFile \/ DeleteAttachment
  PROVE  ComposeInv' /\ StepKeepsText
<1>1. sender \in Account /\ fields = [text |-> fields.text, to |-> fields.to]
  BY DEF ComposeInv, ComposeTypes
<1>2. ASSUME NEW f, f.text = fields.text, NEW from \in Account, NEW on, NEW n,
             Edit(f, from, on, n), asks' \in {asks, "none"}, compose_page = "open"
      PROVE  ComposeInv' /\ StepKeepsText
  BY <1>2, EditKeeps DEF Edit
<1>3. ASSUME NEW on, SwitchSet(on), compose_page = "open"
      PROVE  ComposeInv' /\ StepKeepsText
  BY <1>1, <1>2, <1>3 DEF SwitchSet
<1>4. CASE ToggleSignature \/ ToggleMarkdown \/ ToggleEncrypt
  BY <1>3, <1>4 DEF ToggleSignature, ToggleMarkdown, ToggleEncrypt, ComposeKeys
<1>5. CASE ToggleByMouse
  BY <1>3, <1>5 DEF ToggleByMouse, Mouse
<1>6. CASE CycleFrom
  BY <1>2, <1>6 DEF CycleFrom, ComposeKeys
<1>7. CASE OnFromComboChanged
  BY <1>2, <1>7 DEF OnFromComboChanged, Mouse
<1>8. CASE OnReceiverComboChanged
  <2>1. PICK f \in LoadReceivers : Edit(f, sender, switches, attachments)
    BY <1>8 DEF OnReceiverComboChanged
  <2>2. f.text = fields.text
    BY <1>1, <2>1 DEF LoadReceivers
  <2>3. QED
    BY <1>1, <1>2, <1>8, <2>1, <2>2 DEF OnReceiverComboChanged, ComposeKeys, Mouse
<1>9. CASE AttachFile
  <2>1. CASE compose_page = "open" /\ Edit(fields, sender, switches, attachments + 1)
    BY <1>1, <1>2, <1>9, <2>1 DEF AttachFile
  <2>2. CASE compose_page = "gone" /\ IntoFreedPage
    BY <1>9, <2>2, FreedKeeps DEF AttachFile, Edit, closing, delivery
  <2>3. CASE compose_page = "open" /\ UNCHANGED <<faults, pageContent, editor_active>>
                                   /\ UNCHANGED <<compose_page, forced, draft, delivery, editor,
                                                  file_changed, written>>
    BY <1>9, <2>3, AskKeeps DEF AttachFile, closing, pageContent, editorState
  <2>4. QED
    BY <1>9, <2>1, <2>2, <2>3 DEF AttachFile, ComposeInv, ComposeTypes
<1>10. CASE DeleteAttachment
  <2>1. PICK i \in 1 .. shown.attached :
          \/ Edit(fields, sender, switches, attachments - 1) /\ UNCHANGED asks
          \/ /\ faults' = faults \cup {"erase"}
             /\ UNCHANGED <<compose_page, forced, pageContent, draft, delivery, asks, editorState>>
    BY <1>10 DEF DeleteAttachment
  <2>2. compose_page = "open"
    BY <1>10 DEF DeleteAttachment, ComposeKeys
  <2>3. CASE Edit(fields, sender, switches, attachments - 1) /\ UNCHANGED asks
    BY <1>1, <1>2, <2>2, <2>3
  <2>4. CASE /\ faults' = faults \cup {"erase"}
             /\ UNCHANGED <<compose_page, forced, pageContent, draft, delivery, asks, editorState>>
    <3>1. ComposeTypes' /\ ShownMade'
      BY <2>4 DEF ComposeInv, ComposeTypes, ShownMade, pageContent, delivery, editorState,
                  Made, File, AccountOf, Effective
    <3>2. OpenOK'
      BY <2>2, <2>4 DEF ComposeInv, OpenOK, FileRead, TextThere, pageContent, editorState, AccountOf
    <3>3. "freed" \notin faults
      BY <2>2 DEF ComposeInv, OpenOK
    <3>4. StepKeepsText
      BY <2>4, <3>3 DEF StepKeepsText, delivery, editorState
    <3>5. QED
      BY <2>2, <2>4, <3>1, <3>2, <3>4 DEF ComposeInv
  <2>5. QED
    BY <2>1, <2>3, <2>4
<1>11. QED
  BY <1>4, <1>5, <1>6, <1>7, <1>8, <1>9, <1>10

LEMMA SendingKeeps ==
  ASSUME ComposeInv,
         \/ AskAttachment \/ AskSending \/ AskClosing \/ AskDeleting \/ AnswersNo
         \/ SendComposed \/ SendFinished
  PROVE  ComposeInv' /\ StepKeepsText
<1>1. ASSUME compose_page = "open", asks' \in {"send", "close"} => ~editor_active,
             UNCHANGED <<kind, closing, pageContent, draft, draft_msg, delivery, editorState, edits>>
      PROVE  ComposeInv' /\ StepKeepsText
  BY <1>1, AskKeeps DEF pageContent
<1>2. CASE AskAttachment
  BY <1>1, <1>2 DEF AskAttachment, ComposeKeys
<1>3. CASE AskSending \/ AskClosing \/ AskDeleting
  <2>1. compose_page = "open"
    BY <1>3 DEF AskSending, AskClosing, AskDeleting, AskFirst, ComposeKeys
  <2>2. asks' \in {"send", "close"} => ~editor_active
    BY <1>3, <2>1 DEF AskSending, AskClosing, AskDeleting, AskFirst, ComposeInv, OpenOK
  <2>3. QED
    BY <1>1, <1>3, <2>1, <2>2 DEF AskSending, AskClosing, AskDeleting, AskFirst
<1>4. CASE AnswersNo
  BY <1>1, <1>4 DEF AnswersNo, Mouse
<1>5. CASE SendComposed
  <2>1. compose_page = "open" /\ asks = "send" /\ asks' = "none" /\ ~editor_active
    BY <1>5 DEF SendComposed, Mouse, ComposeInv, OpenOK
  <2>2. UNCHANGED <<closing, pageContent, draft, editorState>>
    BY <1>5, <2>1 DEF SendComposed, EditorToggle, editorState, ComposeInv, ComposeTypes
  <2>3. /\ message_sent' = message_sent
        /\ outgoing' = outgoing \/ outgoing' = Made(tmpfile, switches, attachments)
    BY <1>5 DEF SendComposed, delivery
  <2>4. outgoing' # outgoing => outgoing' = shown
    BY <2>1, <2>3, MadeIsShown
  <2>5. ComposeTypes' /\ ShownMade'
    BY <2>2, <2>3 DEF ComposeInv, ComposeTypes, ShownMade, closing, pageContent, editorState,
                Made, File, AccountOf, Effective
  <2>6. OpenOK'
    BY <2>1, <2>2 DEF ComposeInv, OpenOK, FileRead, TextThere, closing, pageContent,
                      editorState, AccountOf
  <2>7. StepKeepsText /\ compose_page' = "open"
    BY <2>1, <2>2, <2>4 DEF StepKeepsText, closing, editorState
  <2>8. QED
    BY <2>5, <2>6, <2>7 DEF ComposeInv
<1>6. CASE SendFinished
  <2>1. PICK ok \in BOOLEAN, close_on_success \in BOOLEAN :
          /\ message_sent' = (message_sent \/ ok)
          /\ compose_page' = IF ok /\ close_on_success THEN "gone" ELSE compose_page
    BY <1>6 DEF SendFinished
  <2>2. /\ compose_page = "open"
        /\ UNCHANGED <<forced, faults, tmpfile, fields, sender, switches, attachments, shown,
                       overtaken, outgoing, asks, editorState>>
    BY <1>6 DEF SendFinished
  <2>3. ComposeTypes' /\ ShownMade'
    <3>1. message_sent' \in BOOLEAN /\ compose_page' \in {"open", "gone"}
      BY <2>1, <2>2
    <3>2. QED
      BY <2>2, <3>1 DEF ComposeInv, ComposeTypes, ShownMade, editorState,
                        Made, File, AccountOf, Effective
  <2>4. OpenOK'
    BY <2>2 DEF ComposeInv, OpenOK, FileRead, TextThere, editorState, AccountOf
  <2>5. compose_page' = "gone" => message_sent'
    BY <2>1, <2>2
  <2>6. StepKeepsText
    BY <2>1, <2>2 DEF StepKeepsText, editorState
  <2>7. QED
    BY <2>3, <2>4, <2>5, <2>6 DEF ComposeInv, GoneOK
<1>7. QED
  BY <1>2, <1>3, <1>4, <1>5, <1>6

LEMMA ClosingKeeps ==
  ASSUME ComposeInv,
         \/ SaveDraftAndClose \/ SaveDraftFails \/ ForceClosed \/ CloseSent \/ AnswersClose
         \/ WindowQuits
  PROVE  ComposeInv' /\ StepKeepsText
<1>1. forced \in BOOLEAN
  BY DEF ComposeInv, ComposeTypes
<1>2. CASE SaveDraftAndClose
  <2>1. PICK d \in DraftOf(Made(tmpfile, switches, attachments)) : GoneWith(d)
    BY <1>2 DEF SaveDraftAndClose
  <2>2. compose_page = "open" /\ ~editor_active /\ forced' = forced
    BY <1>2 DEF SaveDraftAndClose, ComposeKeys
  <2>3. QED
    BY <1>1, <2>1, <2>2, GoneKeeps
<1>3. CASE SaveDraftFails
  BY <1>3, AskKeeps DEF SaveDraftFails, ComposeKeys
<1>4. CASE ForceClosed
  <2>1. compose_page = "open" /\ forced' = TRUE /\ \E d : GoneWith(d)
    BY <1>4 DEF ForceClosed, ComposeKeys
  <2>2. QED
    BY <2>1, GoneKeeps
<1>5. CASE CloseSent
  BY <1>1, <1>5, GoneKeeps DEF CloseSent, ComposeKeys
<1>6. CASE AnswersClose
  <2>1. CASE asks = "close" /\ GoneWith(draft) /\ UNCHANGED forced
    BY <1>1, <1>6, <2>1, GoneKeeps DEF AnswersClose, Mouse
  <2>2. CASE GoneWith(NoDraft) /\ forced' = TRUE
    BY <1>6, <2>2, GoneKeeps DEF AnswersClose, Mouse
  <2>3. QED
    BY <1>6, <2>1, <2>2 DEF AnswersClose
<1>7. CASE WindowQuits
  BY <1>7, GoneKeeps DEF WindowQuits, Mouse
<1>8. QED
  BY <1>2, <1>3, <1>4, <1>5, <1>6, <1>7

LEMMA ComposeStep ==
  ComposeInv /\ [ComposeNext]_composeVars => ComposeInv' /\ [StepKeepsText]_composeVars
<1> SUFFICES ASSUME ComposeInv, [ComposeNext]_composeVars
             PROVE  ComposeInv' /\ [StepKeepsText]_composeVars
  OBVIOUS
<1>1. CASE ComposeNext
  BY <1>1, EditorKeeps, ContentKeeps, SendingKeeps, ClosingKeeps DEF ComposeNext
<1>2. CASE UNCHANGED composeVars
  <2>1. UNCHANGED <<closing, pageContent, delivery, asks, editorState>>
    BY <1>2 DEF composeVars
  <2>2. ComposeTypes' /\ ShownMade'
    BY <2>1 DEF ComposeInv, ComposeTypes, ShownMade, closing, pageContent, delivery, editorState,
                Made, File, AccountOf, Effective
  <2>3. OpenOK => OpenOK'
    BY <2>1 DEF OpenOK, FileRead, TextThere, closing, pageContent, editorState, AccountOf
  <2>4. GoneOK => GoneOK'
    BY <2>1 DEF GoneOK, closing, delivery, editorState
  <2>5. compose_page' = compose_page
    BY <2>1 DEF closing
  <2>6. QED
    BY <1>2, <2>2, <2>3, <2>4, <2>5 DEF ComposeInv
<1>3. QED
  BY <1>1, <1>2

LEMMA ComposeBegins == ComposeInit => ComposeInv
<1> SUFFICES ASSUME ComposeInit PROVE ComposeInv
  OBVIOUS
<1>1. PICK to \in Receivers : fields = [text |-> 1, to |-> to]
  BY DEF ComposeInit
<1>2. /\ sender \in Account /\ tmpfile = File(fields, sender) /\ compose_page = "open"
      /\ shown = Made(tmpfile, switches, attachments) /\ asks = "none" /\ written = 1
      /\ editor \in {"runs", "none"} /\ editor_active = (editor = "runs")
      /\ forced = FALSE /\ message_sent = FALSE /\ faults = {}
  BY DEF ComposeInit
<1>3. ComposeTypes
  BY <1>1, <1>2 DEF ComposeTypes
<1>4. FileRead /\ TextThere
  BY <1>1, <1>2 DEF FileRead, TextThere, File, AccountOf
<1>5. OpenOK /\ ShownMade
  BY <1>2, <1>4 DEF OpenOK, ShownMade
<1>6. QED
  BY <1>2, <1>3, <1>5 DEF ComposeInv

\* ComposeKeepsText
THEOREM TextKept == ComposeSpec => ComposeKeepsText
<1>1. [StepKeepsText]_composeVars =>
        [/\ editor_active /\ ~editor_active' /\ ~overtaken =>
              /\ shown'.text = written
              /\ shown'.to = tmpfile.to /\ shown'.from = AccountOf(tmpfile.from)
         /\ outgoing' # outgoing => outgoing' = shown
         /\ compose_page' # compose_page =>
              \/ forced' \/ message_sent' \/ asks = "close"
              \/ draft'.text = shown.text /\ (draft'.complete \/ shown.options \cap Crypt # {})
         /\ faults' # faults /\ "freed" \in faults' => forced \/ message_sent]_composeVars
  BY DEF StepKeepsText
<1>2. QED
  BY <1>1, ComposeBegins, ComposeStep, PTL DEF ComposeSpec, ComposeKeepsText

-----------------------------------------------------------------------------
(* The list of a thread index: what its commands are about.                *)

ItemType == [Thread -> [tags : SUBSET Tags, index : SUBSET SUBSET Tags]]
ListTypes ==
  /\ list_store \in Seq(Thread) /\ item \in ItemType
  /\ notmuch \in [Thread -> [tags : SUBSET Tags, in_query : BOOLEAN]]
  /\ changed_threads \subseteq Thread
  /\ {filter_txt, emptied, crashed} \subseteq BOOLEAN
  /\ cursor_row \in filtered \cup {NoThread}
  /\ pane = [thread |-> pane.thread, connections |-> pane.connections] /\ pane.connections \in Nat

\* What the filter has asked once keeps its answer.
RowsIndexed == filter_txt => \A t \in ToSet(list_store) : item[t].index # {}
FilteredMatch == filtered = Matching(item, list_store, filter_txt)

\* Beside a thread the list has a cursor until it becomes empty.
PaneHasCursor ==
  pane.thread # NoThread => pane.connections > 0 /\ (emptied \/ cursor_row \in filtered)

\* The inductive invariant.
ListInv ==
  ListTypes /\ RowsIndexed /\ FilteredMatch /\ PaneHasCursor /\ (crashed => emptied)

LEMMA RowsInFacts ==
  ASSUME NEW S, NEW list \in Seq(S), NEW kept
  PROVE  /\ RowsIn(list, kept) \in Seq(S)
         /\ ToSet(RowsIn(list, kept)) = ToSet(list) \cap kept
<1> DEFINE at == {i \in DOMAIN list : list[i] \in kept}
           Kth(k) == CHOOSE i \in at : Cardinality({j \in at : j <= i}) = k
           c == Cardinality(at)
<1>1. RowsIn(list, kept) = [k \in 1 .. c |-> list[Kth(k)]]
  BY DEF RowsIn
<1>2. /\ at \in SUBSET (1 .. Len(list)) /\ Len(list) \in Nat /\ DOMAIN list = 1 .. Len(list)
      /\ \A i \in at : list[i] \in S /\ list[i] \in kept
  OBVIOUS
<1>3. IsFiniteSet(at) /\ c \in Nat
  <2> HIDE DEF at
  <2>1. IsFiniteSet(1 .. Len(list))
    BY <1>2, FS_Interval
  <2>2. IsFiniteSet(at)
    BY <1>2, <2>1, FS_Subset
  <2>3. QED
    BY <2>2, FS_CardinalityType
<1>4. \A k \in 1 .. c : Kth(k) \in at
  <2> TAKE k \in 1 .. c
  <2>1. \E i \in at : Cardinality({j \in at : j <= i}) = k
    <3> HIDE DEF at
    <3>1. at \in SUBSET (0 .. Len(list))
      BY <1>2
    <3>2. QED
      BY <1>2, <3>1, Ranks
  <2> HIDE DEF at
  <2>2. QED
    BY <2>1
<1>5. ASSUME NEW i \in at
      PROVE  \E k \in 1 .. c : Kth(k) = i
  <2> DEFINE B(j) == {m \in at : m <= j}
             k == Cardinality(B(i))
  <2>1. \A j \in at : IsFiniteSet(B(j)) /\ Cardinality(B(j)) \in Nat /\ Cardinality(B(j)) <= c
    <3> TAKE j \in at
    <3>1. B(j) \subseteq at
      OBVIOUS
    <3>2. IsFiniteSet(B(j)) /\ Cardinality(B(j)) <= c
      <4> HIDE DEF at, B
      <4>1. QED
        BY <1>3, <3>1, FS_Subset
    <3>3. Cardinality(B(j)) \in Nat
      <4> HIDE DEF at, B
      <4>1. QED
        BY <3>2, FS_CardinalityType
    <3>4. QED
      BY <3>2, <3>3
  <2>2. k # 0
    <3>1. i \in Nat
      OBVIOUS
    <3>2. i \in B(i)
      BY <3>1
    <3> HIDE DEF at, B
    <3>3. QED
      BY <2>1, <3>2, FS_EmptySet
  <2>3. ASSUME NEW x \in at, NEW y \in at, x < y
        PROVE  Cardinality(B(x)) # Cardinality(B(y))
    <3>1. x \in Nat /\ y \in Nat /\ \A m \in at : m \in Nat
      OBVIOUS
    <3>2. y \in B(y) /\ y \notin B(x)
      BY <2>3, <3>1
    <3>3. B(x) \subseteq B(y)
      BY <2>3, <3>1
    <3> HIDE DEF at, B
    <3>4. QED
      BY <2>1, <3>2, <3>3, FS_Subset
  <2>4. k \in 1 .. c
    <3> HIDE DEF at, B
    <3>1. QED
      BY <1>3, <2>1, <2>2
  <2>5. Kth(k) \in at /\ Cardinality(B(Kth(k))) = k
    <3>1. \E x \in at : Cardinality({j \in at : j <= x}) = k
      <4> HIDE DEF at
      <4>1. QED
        OBVIOUS
    <3> HIDE DEF at
    <3>2. QED
      BY <3>1
  <2>6. Kth(k) = i
    <3>1. Kth(k) \in Nat /\ i \in Nat
      <4>1. \A m \in at : m \in Nat
        OBVIOUS
      <4> HIDE DEF at, Kth
      <4>2. QED
        BY <2>5, <4>1
    <3> HIDE DEF at, B, Kth
    <3>2. Cardinality(B(Kth(k))) = Cardinality(B(i))
      BY <2>5 DEF k
    <3>3. QED
      BY <2>3, <2>5, <3>1, <3>2
  <2> HIDE DEF at, B, Kth, k
  <2>7. QED
    BY <2>4, <2>6
<1>6. RowsIn(list, kept) \in Seq(S)
  <2> HIDE DEF at, Kth
  <2>1. \A k \in 1 .. c : list[Kth(k)] \in S
    BY <1>2, <1>4
  <2> HIDE DEF c
  <2>2. RowsIn(list, kept) \in [1 .. c -> S]
    BY <1>1, <2>1
  <2>3. QED
    BY <1>3, <2>2
<1>7. ToSet(RowsIn(list, kept)) = {list[Kth(k)] : k \in 1 .. c}
  <2> HIDE DEF at, Kth, c
  <2>1. QED
    BY <1>1 DEF ToSet
<1>8. {list[Kth(k)] : k \in 1 .. c} = {list[i] : i \in at}
  <2> HIDE DEF at, Kth, c
  <2>1. QED
    BY <1>4, <1>5
<1>9. {list[i] : i \in at} = ToSet(list) \cap kept
  BY DEF ToSet
<1>10. QED
  BY <1>6, <1>7, <1>8, <1>9

LEMMA EmptyFacts ==
  ASSUME NEW S, NEW s \in Seq(S)
  PROVE  s = <<>> <=> ToSet(s) = {}
<1>1. s # <<>> => 1 \in DOMAIN s
  OBVIOUS
<1>2. s = <<>> => DOMAIN s = {}
  OBVIOUS
<1>3. QED
  BY <1>1, <1>2 DEF ToSet

LEMMA PathFacts ==
  ASSUME NEW list \in Seq(Thread)
  PROVE  /\ cursor_row \in ToSet(list) =>
              PathIn(list) \in DOMAIN list /\ PathIn(list) > 0 /\ list[PathIn(list)] = cursor_row
         /\ cursor_row \notin ToSet(list) => PathIn(list) = 0
<1>1. DOMAIN list \subseteq Nat \ {0}
  OBVIOUS
<1>2. CASE cursor_row \in ToSet(list)
  <2>1. \E i \in DOMAIN list : list[i] = cursor_row
    BY <1>2 DEF ToSet
  <2>2. PathIn(list) = CHOOSE i \in DOMAIN list : list[i] = cursor_row
    BY <1>2 DEF PathIn
  <2>3. PathIn(list) \in DOMAIN list /\ list[PathIn(list)] = cursor_row
    BY <2>1, <2>2
  <2>4. PathIn(list) > 0
    BY <1>1, <2>3
  <2>5. QED
    BY <1>2, <2>3, <2>4
<1>3. CASE cursor_row \notin ToSet(list)
  BY <1>3 DEF PathIn
<1>4. QED
  BY <1>2, <1>3

\* The cursor goes to a row that stays, if there is one.
LEMMA CursorAfterFacts ==
  ASSUME NEW old \in Seq(Thread), NEW new
  PROVE  /\ CursorAfter(old, new) \in new \cup {NoThread}
         /\ cursor_row \in ToSet(old) /\ ToSet(old) \cap new # {} => CursorAfter(old, new) \in new
<1> DEFINE p == PathIn(old)
           stay == {i \in DOMAIN old : old[i] \in new}
           after == {i \in stay : i >= p}
           row == IF after # {} THEN Min(after) ELSE Max(stay)
<1>1. CursorAfter(old, new) = IF p = 0 \/ stay = {} THEN NoThread ELSE old[row]
  BY DEF CursorAfter
<1>2. Len(old) \in Nat /\ DOMAIN old = 1 .. Len(old) /\ stay \subseteq DOMAIN old
  OBVIOUS
<1>3. stay # {} => row \in stay
  <2>1. CASE after # {}
    <3>1. after \in SUBSET Nat /\ after \subseteq stay
      BY <1>2
    <3> HIDE DEF after, stay
    <3>2. Min(after) \in after
      BY <2>1, <3>1, MinFacts
    <3>3. QED
      BY <2>1, <3>1, <3>2
  <2>2. CASE after = {} /\ stay # {}
    <3>1. stay \in SUBSET (0 .. Len(old))
      BY <1>2
    <3> HIDE DEF after, stay
    <3>2. Max(stay) \in stay
      BY <1>2, <2>2, <3>1, MaxFacts
    <3>3. QED
      BY <2>2, <3>2
  <2> HIDE DEF after, stay, row
  <2>3. QED
    BY <2>1, <2>2
<1>4. stay # {} => old[row] \in new
  <2>1. \A i \in stay : old[i] \in new
    OBVIOUS
  <2> HIDE DEF stay, row
  <2>2. QED
    BY <1>3, <2>1
<1>5. ToSet(old) \cap new # {} => stay # {}
  BY DEF ToSet
<1>6. cursor_row \in ToSet(old) => p # 0
  BY PathFacts
<1> HIDE DEF stay, row, p
<1>7. QED
  BY <1>1, <1>4, <1>5, <1>6

-----------------------------------------------------------------------------
\* The rows on display.
LEMMA ViewFacts ==
  ASSUME ListTypes, FilteredMatch
  PROVE  /\ filtered \subseteq ToSet(list_store) /\ ToSet(list_store) \subseteq Thread
         /\ View \in Seq(Thread) /\ ToSet(View) = filtered
         /\ View = <<>> <=> filtered = {}
         /\ Path \in DOMAIN View => View[Path] = cursor_row /\ cursor_row \in filtered
         /\ Path = 0 <=> cursor_row \notin filtered
<1>1. list_store \in Seq(Thread) /\ cursor_row \in filtered \cup {NoThread}
  BY DEF ListTypes
<1>2. filtered \subseteq ToSet(list_store)
  BY DEF FilteredMatch, Matching
<1>3. ToSet(list_store) \subseteq Thread
  BY <1>1 DEF ToSet
<1>4. View \in Seq(Thread) /\ ToSet(View) = filtered
  <2>1. /\ RowsIn(list_store, filtered) \in Seq(Thread)
        /\ ToSet(RowsIn(list_store, filtered)) = ToSet(list_store) \cap filtered
    BY <1>1, RowsInFacts
  <2>2. ToSet(list_store) \cap filtered = filtered
    BY <1>2
  <2>3. QED
    BY <2>1, <2>2 DEF View
<1>5. View = <<>> <=> filtered = {}
  BY <1>4, EmptyFacts
<1>6. /\ cursor_row \in filtered => Path \in DOMAIN View /\ Path > 0 /\ View[Path] = cursor_row
      /\ cursor_row \notin filtered => Path = 0
  BY <1>4, PathFacts DEF Path
<1>7. 0 \notin DOMAIN View
  BY <1>4
<1>8. QED
  BY <1>2, <1>3, <1>4, <1>5, <1>6, <1>7

LEMMA CurrentThread ==
  ASSUME ListTypes, FilteredMatch
  PROVE  /\ GetCurrentThread # NoThread =>
              GetCurrentThread = cursor_row /\ cursor_row \in filtered
         /\ GetCurrentThread \in Thread \cup {NoThread}
BY ViewFacts DEF GetCurrentThread

\* SetCursor goes to a row on display or stays.
LEMMA SetCursorFacts ==
  ASSUME ListTypes, FilteredMatch, NEW n, SetCursor(n)
  PROVE  cursor_row' = cursor_row \/ cursor_row' \in filtered
<1>1. View \in Seq(Thread) /\ ToSet(View) = filtered
  BY ViewFacts
<1>2. n \in DOMAIN View => View[n] \in filtered
  BY <1>1 DEF ToSet
<1>3. QED
  BY <1>2 DEF SetCursor

-----------------------------------------------------------------------------
\* The list shows something of what it did, or nothing.
Stays(list, its, f) ==
  LET sees == Matching(Indexed(its, list, f), list, f)
  IN  filtered = {} \/ sees = {} \/ filtered \cap sees # {}

LEMMA IndexedFacts ==
  ASSUME NEW its \in ItemType, NEW list, NEW f
  PROVE  /\ Indexed(its, list, f) \in ItemType
         /\ f => \A t \in ToSet(list) : t \in Thread => Indexed(its, list, f)[t].index # {}
         /\ \A t \in Thread : its[t].index # {} => Indexed(its, list, f)[t].index = its[t].index
<1>1. ASSUME NEW t \in Thread
      PROVE  [its[t] EXCEPT !.index = {its[t].tags}] \in [tags : SUBSET Tags, index : SUBSET SUBSET Tags]
             /\ [its[t] EXCEPT !.index = {its[t].tags}].index = {its[t].tags}
  BY DEF ItemType
<1>2. QED
  BY <1>1 DEF Indexed, ItemType

LEMMA ShowFacts ==
  ASSUME ListInv, NEW list \in Seq(Thread), NEW its \in ItemType, NEW f \in BOOLEAN,
         NEW first \in Nat, Show(list, its, f, first), Stays(list, its, f)
  PROVE  /\ list_store' \in Seq(Thread) /\ item' \in ItemType /\ emptied' \in BOOLEAN
         /\ cursor_row' \in filtered' \cup {NoThread}
         /\ f => \A t \in ToSet(list_store') : item'[t].index # {}
         /\ filtered' = Matching(item', list_store', f)
         /\ emptied => emptied'
         /\ emptied \/ cursor_row \in filtered => emptied' \/ cursor_row' \in filtered'
<1> DEFINE now == Indexed(its, list, f)
           sees == Matching(now, list, f)
           view == RowsIn(list, sees)
<1>1. /\ list_store' = list /\ item' = now /\ filtered' = sees
      /\ cursor_row' = IF first \in DOMAIN view THEN view[first] ELSE CursorAfter(View, sees)
      /\ emptied' = (emptied \/ (View # <<>> /\ view = <<>>))
  BY DEF Show
<1>2. ListTypes /\ FilteredMatch /\ emptied \in BOOLEAN
  BY DEF ListInv, ListTypes
<1>3. sees \subseteq ToSet(list) /\ ToSet(list) \subseteq Thread
  BY DEF Matching, ToSet
<1>4. now \in ItemType /\ (f => \A t \in ToSet(list) : now[t].index # {})
  <2> HIDE DEF now
  <2>1. QED
    BY <1>3, IndexedFacts DEF now
<1>5. view \in Seq(Thread) /\ ToSet(view) = sees
  <2> HIDE DEF now, sees
  <2>1. /\ RowsIn(list, sees) \in Seq(Thread)
        /\ ToSet(RowsIn(list, sees)) = ToSet(list) \cap sees
    BY RowsInFacts
  <2>2. ToSet(list) \cap sees = sees
    BY <1>3
  <2>3. QED
    BY <2>1, <2>2 DEF view
<1>6. /\ \A n \in DOMAIN view : view[n] \in sees
      /\ view = <<>> <=> sees = {}
  <2> HIDE DEF now, sees, view
  <2>1. view = <<>> <=> sees = {}
    BY <1>5, EmptyFacts
  <2>2. QED
    BY <1>5, <2>1 DEF ToSet
<1>7. /\ View \in Seq(Thread) /\ ToSet(View) = filtered /\ (View = <<>> <=> filtered = {})
  BY <1>2, ViewFacts
<1>8. /\ CursorAfter(View, sees) \in sees \cup {NoThread}
      /\ cursor_row \in filtered /\ filtered \cap sees # {} => CursorAfter(View, sees) \in sees
  <2> HIDE DEF now, sees
  <2>1. QED
    BY <1>7, CursorAfterFacts
<1>9. filtered = {} \/ sees = {} \/ filtered \cap sees # {}
  BY DEF Stays
<1>10. /\ cursor_row' \in sees \cup {NoThread}
       /\ cursor_row \in filtered /\ filtered \cap sees # {} => cursor_row' \in sees
  <2> HIDE DEF now, sees, view
  <2>1. QED
    BY <1>1, <1>6, <1>8
<1>11. (emptied => emptied') /\ emptied' \in BOOLEAN
  BY <1>1, <1>2
<1>12. ASSUME cursor_row \in filtered
       PROVE  emptied' \/ cursor_row' \in sees
  <2> HIDE DEF now, sees, view
  <2>1. CASE sees = {}
    BY <1>1, <1>6, <1>7, <1>12, <2>1
  <2>2. CASE filtered \cap sees # {}
    BY <1>10, <1>12, <2>2
  <2>3. QED
    BY <1>9, <1>12, <2>1, <2>2
<1> HIDE DEF now, sees, view
<1>13. QED
  BY <1>1, <1>4, <1>10, <1>11, <1>12 DEF sees

\* A row that was on display keeps its place there if its item was asked.
LEMMA StaysIfKept ==
  ASSUME ListInv, NEW list \in Seq(Thread), NEW its \in ItemType,
         \A t \in filtered : t \in ToSet(list) /\ its[t].index = item[t].index
  PROVE  Stays(list, its, filter_txt)
<1> DEFINE now == Indexed(its, list, filter_txt)
           sees == Matching(now, list, filter_txt)
<1>1. /\ filtered = {t \in ToSet(list_store) : ~filter_txt \/ item[t].index = {Tags}}
      /\ sees = {t \in ToSet(list) : ~filter_txt \/ now[t].index = {Tags}}
  BY DEF ListInv, FilteredMatch, Matching
<1>2. \A t \in Thread : its[t].index # {} => now[t].index = its[t].index
  BY IndexedFacts
<1>3. filtered \subseteq Thread
  <2>1. ToSet(list) \subseteq Thread
    BY DEF ToSet
  <2>2. QED
    BY <2>1
<1>4. filtered \subseteq sees
  <2> HIDE DEF now, sees
  <2>1. ASSUME NEW t \in filtered, filter_txt
        PROVE  now[t].index = {Tags}
    <3>1. item[t].index = {Tags} /\ its[t].index = item[t].index /\ t \in Thread
      BY <1>1, <1>3, <2>1
    <3>2. its[t].index # {}
      BY <3>1
    <3>3. QED
      BY <1>2, <3>1, <3>2
  <2>2. QED
    BY <1>1, <2>1
<1>5. Stays(list, its, filter_txt) <=> (filtered = {} \/ sees = {} \/ filtered \cap sees # {})
  BY DEF Stays
<1> HIDE DEF now, sees
<1>6. QED
  BY <1>4, <1>5

\* Rows that are erased, or a filter that is set.
LEMMA StaysIfFewer ==
  ASSUME ListInv, NEW list \in Seq(Thread), ToSet(list) \subseteq ToSet(list_store),
         NEW f \in BOOLEAN, filter_txt => f
  PROVE  Stays(list, item, f)
<1> DEFINE now == Indexed(item, list, f)
           sees == Matching(now, list, f)
<1>1. /\ filtered = {t \in ToSet(list_store) : ~filter_txt \/ item[t].index = {Tags}}
      /\ sees = {t \in ToSet(list) : ~f \/ now[t].index = {Tags}}
  BY DEF ListInv, FilteredMatch, Matching
<1>2. item \in ItemType /\ list_store \in Seq(Thread)
      /\ (filter_txt => \A t \in ToSet(list_store) : item[t].index # {})
  BY DEF ListInv, ListTypes, RowsIndexed
<1>3. \A t \in Thread : item[t].index # {} => now[t].index = item[t].index
  BY <1>2, IndexedFacts
<1>4. ToSet(list_store) \subseteq Thread
  BY <1>2 DEF ToSet
<1>5. sees \subseteq filtered
  <2> HIDE DEF now, sees
  <2>1. ASSUME NEW t \in sees, filter_txt
        PROVE  item[t].index = {Tags}
    <3>1. t \in ToSet(list_store) /\ now[t].index = {Tags}
      BY <1>1, <2>1
    <3>2. QED
      BY <1>2, <1>3, <1>4, <2>1, <3>1
  <2>2. QED
    BY <1>1, <2>1
<1>6. Stays(list, item, f) <=> (filtered = {} \/ sees = {} \/ filtered \cap sees # {})
  BY DEF Stays
<1> HIDE DEF now, sees
<1>7. QED
  BY <1>5, <1>6

\* What a step that shows other rows has to keep.
LEMMA ShowKeeps ==
  ASSUME ListInv, NEW list \in Seq(Thread), NEW its \in ItemType, NEW first \in Nat,
         filter_txt' \in BOOLEAN, Show(list, its, filter_txt', first), Stays(list, its, filter_txt'),
         changed_threads' \subseteq Thread, UNCHANGED <<notmuch, pane, crashed>>
  PROVE  ListInv'
<1> DEFINE f == filter_txt'
<1>1. /\ list_store' \in Seq(Thread) /\ item' \in ItemType /\ emptied' \in BOOLEAN
      /\ cursor_row' \in filtered' \cup {NoThread}
      /\ f => \A t \in ToSet(list_store') : item'[t].index # {}
      /\ filtered' = Matching(item', list_store', f)
      /\ emptied => emptied'
      /\ emptied \/ cursor_row \in filtered => emptied' \/ cursor_row' \in filtered'
  <2>1. f \in BOOLEAN /\ Show(list, its, f, first) /\ Stays(list, its, f)
    OBVIOUS
  <2> HIDE DEF f
  <2>2. QED
    BY <2>1, ShowFacts
<1>2. notmuch' = notmuch /\ pane' = pane /\ crashed' = crashed
  OBVIOUS
<1>3. ListTypes'
  <2>1. ListTypes
    BY DEF ListInv
  <2>2. QED
    BY <1>1, <1>2, <2>1 DEF ListTypes
<1>4. RowsIndexed' /\ FilteredMatch'
  BY <1>1 DEF RowsIndexed, FilteredMatch
<1>5. PaneHasCursor' /\ (crashed' => emptied')
  <2>1. PaneHasCursor /\ (crashed => emptied)
    BY DEF ListInv
  <2>2. QED
    BY <1>1, <1>2, <2>1 DEF PaneHasCursor
<1>6. QED
  BY <1>3, <1>4, <1>5 DEF ListInv

LEMMA NewItemFacts ==
  ASSUME ListTypes, NEW t \in Thread
  PROVE  NewItem(t) \in [tags : SUBSET Tags, index : SUBSET SUBSET Tags]
<1>1. notmuch[t].tags \subseteq Tags
  BY DEF ListTypes
<1>2. QED
  BY <1>1 DEF NewItem

LEMMA RowsComeAndGo ==
  ASSUME ListInv,
         \/ LoadRow \/ FirstThreadReady \/ ReloadList \/ OnThreadChanged \/ OnFilter
  PROVE  ListInv'
<1> USE DEF ListInv
<1>1. /\ list_store \in Seq(Thread) /\ item \in ItemType /\ changed_threads \subseteq Thread
      /\ filter_txt \in BOOLEAN /\ 0 \in Nat /\ 1 \in Nat
  BY DEF ListTypes
<1>2. filtered \subseteq ToSet(list_store) /\ ToSet(list_store) \subseteq Thread
  BY ViewFacts
<1>3. CASE LoadRow
  <2> DEFINE next == {t \in Thread : notmuch[t].in_query} \ ToSet(list_store)
             its == [item EXCEPT ![Min(next)] = NewItem(Min(next))]
  <2>1. /\ UNCHANGED <<notmuch, changed_threads, filter_txt, pane, crashed>>
        /\ \/ next = {} /\ UNCHANGED rowVars
           \/ next # {} /\ Show(Append(list_store, Min(next)), its, filter_txt, 0)
    BY <1>3 DEF LoadRow
  <2>2. CASE UNCHANGED rowVars
    BY <2>1, <2>2 DEF rowVars, ListTypes, RowsIndexed, FilteredMatch, Matching, PaneHasCursor
  <2>3. CASE next # {} /\ Show(Append(list_store, Min(next)), its, filter_txt, 0)
    <3>1. next \in SUBSET Nat /\ next \subseteq Thread /\ next \cap ToSet(list_store) = {}
      BY ThreadListAssumption
    <3> HIDE DEF next
    <3>2. Min(next) \in next
      BY <2>3, <3>1, MinFacts
    <3>3. Min(next) \in Thread /\ Min(next) \notin ToSet(list_store)
      BY <3>1, <3>2
    <3>4. its \in ItemType
      BY <1>1, <3>3, NewItemFacts DEF ItemType
    <3>5. /\ Append(list_store, Min(next)) \in Seq(Thread)
          /\ ToSet(Append(list_store, Min(next))) = ToSet(list_store) \cup {Min(next)}
      BY <1>1, <3>3, AppendFacts
    <3>6. \A t \in filtered : /\ t \in ToSet(Append(list_store, Min(next)))
                              /\ its[t].index = item[t].index
      BY <1>1, <1>2, <3>3, <3>5 DEF ItemType
    <3> HIDE DEF its
    <3>7. Stays(Append(list_store, Min(next)), its, filter_txt)
      BY <3>4, <3>5, <3>6, StaysIfKept
    <3>8. QED
      BY <1>1, <2>1, <2>3, <3>4, <3>5, <3>7, ShowKeeps
  <2> HIDE DEF next, its
  <2>4. QED
    BY <2>1, <2>2, <2>3
<1>4. CASE FirstThreadReady
  <2>1. /\ UNCHANGED <<notmuch, changed_threads, filter_txt, pane, crashed>>
        /\ Show(list_store, item, filter_txt, 1)
    BY <1>4 DEF FirstThreadReady
  <2>2. Stays(list_store, item, filter_txt)
    BY <1>1, <1>2, StaysIfKept
  <2>3. QED
    BY <1>1, <2>1, <2>2, ShowKeeps
<1>5. CASE ReloadList
  <2>1. /\ UNCHANGED <<notmuch, filter_txt, pane, crashed>> /\ changed_threads' = {}
        /\ Show(<<>>, item, filter_txt, 0)
    BY <1>5 DEF ReloadList
  <2>2. <<>> \in Seq(Thread) /\ ToSet(<<>>) \subseteq ToSet(list_store)
    BY DEF ToSet
  <2>3. Stays(<<>>, item, filter_txt)
    BY <1>1, <2>2, StaysIfFewer
  <2>4. QED
    BY <1>1, <2>1, <2>2, <2>3, ShowKeeps
<1>6. CASE OnThreadChanged
  <2>1. PICK t \in changed_threads :
          /\ changed_threads' = changed_threads \ {t}
          /\ UNCHANGED <<notmuch, filter_txt, pane, crashed>>
          /\ \/ /\ t \in ToSet(list_store)
                /\ Show(list_store, [item EXCEPT ![t].tags = notmuch[t].tags], filter_txt, 0)
             \/ /\ t \notin ToSet(list_store)
                /\ Show(<<t>> \o list_store, [item EXCEPT ![t] = NewItem(t)], filter_txt,
                        IF list_store # <<>> /\ Path = 1 THEN 1 ELSE 0)
             \/ Show(RowsIn(list_store, Thread \ {t}), item, filter_txt, 0)
    BY <1>6 DEF OnThreadChanged
  <2>2. t \in Thread /\ changed_threads' \subseteq Thread
    BY <1>1, <2>1
  <2>3. CASE Show(list_store, [item EXCEPT ![t].tags = notmuch[t].tags], filter_txt, 0)
    <3> DEFINE its == [item EXCEPT ![t].tags = notmuch[t].tags]
    <3>1. notmuch[t].tags \subseteq Tags
      BY <2>2 DEF ListTypes
    <3>2. its \in ItemType /\ \A r \in Thread : its[r].index = item[r].index
      BY <1>1, <2>2, <3>1 DEF ItemType
    <3> HIDE DEF its
    <3>3. Stays(list_store, its, filter_txt)
      BY <1>1, <1>2, <3>2, StaysIfKept
    <3>4. QED
      BY <1>1, <2>1, <2>2, <2>3, <3>2, <3>3, ShowKeeps DEF its
  <2>4. CASE /\ t \notin ToSet(list_store)
             /\ Show(<<t>> \o list_store, [item EXCEPT ![t] = NewItem(t)], filter_txt,
                     IF list_store # <<>> /\ Path = 1 THEN 1 ELSE 0)
    <3> DEFINE its == [item EXCEPT ![t] = NewItem(t)]
               list == <<t>> \o list_store
               first == IF list_store # <<>> /\ Path = 1 THEN 1 ELSE 0
    <3>1. its \in ItemType
      BY <1>1, <2>2, NewItemFacts DEF ItemType
    <3>2. list \in Seq(Thread) /\ ToSet(list_store) \subseteq ToSet(list)
      <4>1. list \in Seq(Thread)
        BY <1>1, <2>2
      <4>2. ASSUME NEW i \in DOMAIN list_store
            PROVE  i + 1 \in DOMAIN list /\ list[i + 1] = list_store[i]
        BY <1>1, <2>2
      <4> HIDE DEF list
      <4>3. QED
        BY <4>1, <4>2 DEF ToSet
    <3>3. \A r \in filtered : its[r].index = item[r].index
      BY <1>1, <1>2, <2>2, <2>4 DEF ItemType
    <3>4. first \in Nat
      OBVIOUS
    <3>5. Show(list, its, filter_txt, first)
      BY <2>4
    <3> HIDE DEF its, list, first
    <3>6. Stays(list, its, filter_txt)
      BY <1>2, <3>1, <3>2, <3>3, StaysIfKept
    <3>7. QED
      BY <1>1, <2>1, <2>2, <3>1, <3>2, <3>4, <3>5, <3>6, ShowKeeps
  <2>5. CASE Show(RowsIn(list_store, Thread \ {t}), item, filter_txt, 0)
    <3> DEFINE list == RowsIn(list_store, Thread \ {t})
    <3>1. list \in Seq(Thread) /\ ToSet(list) = ToSet(list_store) \cap (Thread \ {t})
      BY <1>1, RowsInFacts
    <3>2. ToSet(list) \subseteq ToSet(list_store)
      BY <3>1
    <3> HIDE DEF list
    <3>3. Stays(list, item, filter_txt)
      BY <1>1, <3>1, <3>2, StaysIfFewer
    <3>4. QED
      BY <1>1, <2>1, <2>2, <2>5, <3>1, <3>3, ShowKeeps DEF list
  <2>6. QED
    BY <2>1, <2>3, <2>4, <2>5
<1>7. CASE OnFilter
  <2>1. /\ UNCHANGED <<notmuch, changed_threads, pane, crashed>> /\ filter_txt' = ~filter_txt
        /\ Show(list_store, item, filter_txt', 0)
    BY <1>7 DEF OnFilter
  <2>2. filter_txt' \in BOOLEAN
    BY <2>1
  <2>3. Stays(list_store, item, filter_txt')
    <3>1. CASE filter_txt
      <4>1. filter_txt' = FALSE
        BY <2>1, <3>1
      <4>2. Matching(Indexed(item, list_store, FALSE), list_store, FALSE) = ToSet(list_store)
        BY DEF Matching
      <4>3. QED
        BY <1>2, <4>1, <4>2 DEF Stays
    <3>2. CASE ~filter_txt
      BY <1>1, <2>2, <3>2, StaysIfFewer
    <3>3. QED
      BY <3>1, <3>2
  <2>4. changed_threads' \subseteq Thread
    BY <1>1, <2>1
  <2>5. QED
    BY <1>1, <2>1, <2>2, <2>3, <2>4, ShowKeeps
<1>8. QED
  BY <1>3, <1>4, <1>5, <1>6, <1>7

-----------------------------------------------------------------------------
\* What ListActsOnView says of a step.
StepActsOnView ==
  /\ acted' # acted => \/ acted'.on \subseteq filtered
                       \/ command.kind \in {"tag", "difftag"} /\ acted'.on = command.on
  /\ pane'.thread \notin {pane.thread, NoThread} =>
       pane'.thread \in filtered /\ pane'.thread = cursor_row'
  /\ crashed' => emptied

LEMMA NoActOnView == NoAct.on \subseteq filtered
BY DEF NoAct

\* The cursor moves, or nothing that is shown changes.
LEMMA CursorKeeps ==
  ASSUME ListInv, notmuch' = notmuch, changed_threads' = changed_threads,
         UNCHANGED <<list_store, item, filtered, emptied, filter_txt>>,
         cursor_row' = cursor_row \/ cursor_row' \in filtered,
         pane' = [thread |-> pane'.thread, connections |-> pane'.connections],
         pane'.connections \in Nat,
         pane'.thread # NoThread =>
           pane'.connections > 0 /\ (pane.thread # NoThread \/ cursor_row \in filtered),
         crashed' \in BOOLEAN, crashed' => emptied
  PROVE  ListInv'
<1> USE DEF ListInv
<1>1. ListTypes'
  BY DEF ListTypes
<1>2. RowsIndexed' /\ FilteredMatch'
  BY DEF RowsIndexed, FilteredMatch, Matching
<1>3. PaneHasCursor'
  BY DEF PaneHasCursor
<1>4. QED
  BY <1>1, <1>2, <1>3

LEMMA TagsKeep ==
  ASSUME ListInv, Change
  PROVE  ListInv'
<1> USE DEF ListInv
<1>1. /\ UNCHANGED <<list_store, filtered, cursor_row, emptied, filter_txt, pane, crashed>>
      /\ changed_threads' \subseteq Thread
      /\ notmuch' \in [Thread -> [tags : SUBSET Tags, in_query : BOOLEAN]]
      /\ item' \in ItemType /\ \A t \in Thread : item'[t].index = item[t].index
  <2>1. PICK t \in Thread :
          /\ changed_threads' = changed_threads \cup {t}
          /\ \/ /\ notmuch' = [notmuch EXCEPT ![t].in_query = ~@]
                /\ UNCHANGED item
             \/ /\ notmuch' = [notmuch EXCEPT ![t].tags = Tags \ @]
                /\ \/ UNCHANGED item
                   \/ item' = [item EXCEPT ![t].tags = notmuch'[t].tags]
    BY DEF Change
  <2>2. /\ item \in ItemType /\ changed_threads \subseteq Thread
        /\ notmuch \in [Thread -> [tags : SUBSET Tags, in_query : BOOLEAN]]
    BY DEF ListTypes
  <2>3. notmuch' \in [Thread -> [tags : SUBSET Tags, in_query : BOOLEAN]]
    <3>1. CASE notmuch' = [notmuch EXCEPT ![t].in_query = ~@]
      <4>1. (~notmuch[t].in_query) \in BOOLEAN
        OBVIOUS
      <4>2. QED
        BY <2>2, <3>1, <4>1
    <3>2. CASE notmuch' = [notmuch EXCEPT ![t].tags = Tags \ @]
      <4>1. Tags \ notmuch[t].tags \in SUBSET Tags
        OBVIOUS
      <4>2. QED
        BY <2>2, <3>2, <4>1
    <3>3. QED
      BY <2>1, <3>1, <3>2
  <2>4. notmuch'[t].tags \subseteq Tags
    BY <2>3
  <2>5. item' \in ItemType /\ \A r \in Thread : item'[r].index = item[r].index
    <3>1. CASE item' = item
      BY <2>2, <3>1
    <3>2. CASE item' = [item EXCEPT ![t].tags = notmuch'[t].tags]
      <4> DEFINE its == notmuch'[t].tags
      <4>1. its \in SUBSET Tags /\ item' = [item EXCEPT ![t].tags = its]
        BY <2>4, <3>2
      <4> HIDE DEF its
      <4>2. QED
        BY <2>2, <4>1 DEF ItemType
    <3>3. QED
      BY <2>1, <3>1, <3>2
  <2>6. UNCHANGED <<list_store, filtered, cursor_row, emptied, filter_txt, pane, crashed>>
    BY DEF Change
  <2>7. QED
    BY <2>1, <2>2, <2>3, <2>5, <2>6
<1>2. ToSet(list_store) \subseteq Thread
  BY ViewFacts
<1>3. ListTypes'
  BY <1>1 DEF ListTypes
<1>4. RowsIndexed' /\ FilteredMatch'
  BY <1>1, <1>2 DEF RowsIndexed, FilteredMatch, Matching
<1>5. PaneHasCursor' /\ (crashed' => emptied')
  BY <1>1 DEF PaneHasCursor
<1>6. QED
  BY <1>3, <1>4, <1>5

\* The thread view asks for another thread: with a cursor there is a row for
\* it, and the pane shows the thread of that row.
LEMMA PaneFollows ==
  ASSUME ListInv, IndexAction, acted' = NoAct
  PROVE  ListInv' /\ StepActsOnView
<1> USE DEF ListInv
<1>1. PICK move \in PaneMoves :
        LET path[i \in 0 .. pane.connections] ==
              IF i = 0 THEN Path
              ELSE LET n == PaneRow(move, path[i - 1])
                   IN  IF n \in DOMAIN View THEN n ELSE path[i - 1]
        IN  /\ SetCursor(path[pane.connections])
            /\ crashed' = (path[1] = 0)
            /\ pane' = IF crashed' THEN pane ELSE [pane EXCEPT !.thread = GetCurrentThread']
  BY DEF IndexAction
<1> DEFINE go(f) == [i \in 0 .. pane.connections |->
                       IF i = 0 THEN Path
                       ELSE LET n == PaneRow(move, f[i - 1])
                            IN  IF n \in DOMAIN View THEN n ELSE f[i - 1]]
           path == CHOOSE f : f = go(f)
<1>2. /\ SetCursor(path[pane.connections])
      /\ crashed' = (path[1] = 0)
      /\ pane' = IF crashed' THEN pane ELSE [pane EXCEPT !.thread = GetCurrentThread']
  BY <1>1
<1>3. /\ ListTypes /\ FilteredMatch /\ pane.thread # NoThread
      /\ pane.connections \in Nat /\ pane.connections > 0
  BY DEF IndexAction, PaneHasCursor, ListTypes
<1>4. /\ View \in Seq(Thread) /\ ToSet(View) = filtered /\ Path \in 0 .. Len(View)
      /\ Path = 0 <=> cursor_row \notin filtered
  <2>1. View \in Seq(Thread) /\ ToSet(View) = filtered /\ (Path = 0 <=> cursor_row \notin filtered)
    BY <1>3, ViewFacts
  <2>2. Path = 0 \/ Path \in DOMAIN View
    BY <2>1, PathFacts DEF Path
  <2>3. QED
    BY <2>1, <2>2
<1>5. path[1] = 0 => Path = 0
  <2> DEFINE c == pane.connections
             V == 0 .. Len(View)
             next(p) == LET n == PaneRow(move, p) IN IF n \in DOMAIN View THEN n ELSE p
             step == [x \in (0 .. c) \X V |-> next(x[2])]
  <2>1. DOMAIN View = 1 .. Len(View) /\ Len(View) \in Nat /\ DOMAIN View \subseteq V
    BY <1>4
  <2>2. \A p \in V : next(p) \in V
    BY <2>1
  <2>3. StepOver(step, 0, c, V)
    <3> HIDE DEF V, next
    <3>1. \A x \in (0 .. c) \X V : x[2] \in V
      OBVIOUS
    <3>2. QED
      BY <2>2, <3>1 DEF StepOver
  <2>4. \A i \in 0 .. c, p \in V : step[<<i, p>>] = next(p)
    <3> HIDE DEF V, next
    <3>1. QED
      OBVIOUS
  <2>5. PICK f : RunsIn(f, V, 0, c, Path, step)
    <3>1. Path \in V /\ c \in Nat /\ 0 \in Nat /\ 0 <= c
      BY <1>3, <1>4
    <3> HIDE DEF V, next, step, c
    <3>2. QED
      BY <2>3, <3>1, RecursionExists
  <2>6. f = go(f)
    <3>1. /\ f = [i \in 0 .. c |-> f[i]] /\ f[0] = Path /\ f \in [0 .. c -> V]
          /\ \A i \in 1 .. c : f[i] = step[<<i, f[i - 1]>>]
      <4>1. 0 + 1 .. c = 1 .. c
        OBVIOUS
      <4> HIDE DEF V, next, step, c
      <4>2. f \in [0 .. c -> V] /\ GoesBy(f, 0, c, Path, step)
        BY <2>5 DEF RunsIn
      <4>3. QED
        BY <4>1, <4>2 DEF GoesBy
    <3>2. \A i \in 1 .. c : f[i] = next(f[i - 1])
      <4> TAKE i \in 1 .. c
      <4>1. i \in 0 .. c /\ i - 1 \in 0 .. c
        BY <1>3
      <4> HIDE DEF V, next, step, c
      <4>2. f[i - 1] \in V
        BY <3>1, <4>1
      <4>3. QED
        BY <2>4, <3>1, <4>1, <4>2
    <3>3. \A i \in 0 .. c : f[i] = IF i = 0 THEN Path ELSE next(f[i - 1])
      <4> TAKE i \in 0 .. c
      <4>1. i = 0 \/ i \in 1 .. c
        BY <1>3
      <4>2. i \in 1 .. c => i # 0
        OBVIOUS
      <4> HIDE DEF V, next, step, c
      <4>3. QED
        BY <3>1, <3>2, <4>1, <4>2
    <3>4. go(f) = [i \in 0 .. c |-> IF i = 0 THEN Path ELSE next(f[i - 1])]
      OBVIOUS
    <3> HIDE DEF V, next, step, go, c
    <3>5. QED
      BY <3>1, <3>3, <3>4
  <2>7. path = go(path)
    <3> HIDE DEF go
    <3>1. QED
      BY <2>6
  <2>8. path[0] = Path /\ path[1] = next(path[0])
    <3>1. 0 \in 0 .. c /\ 1 \in 0 .. c /\ 1 - 1 = 0
      BY <1>3
    <3>2. \A i \in 0 .. c : go(path)[i] = IF i = 0 THEN Path ELSE next(path[i - 1])
      <4> HIDE DEF path, next
      <4>1. QED
        BY DEF next
    <3> HIDE DEF path, next, go, c
    <3>3. QED
      BY <2>7, <3>1, <3>2
  <2>9. QED
    <3> HIDE DEF path
    <3>1. QED
      BY <2>1, <2>8
<1>6. crashed' \in BOOLEAN /\ (crashed' => emptied)
  <2>1. (crashed' = TRUE \/ crashed' = FALSE) /\ (crashed' => path[1] = 0)
    BY <1>2
  <2> HIDE DEF path
  <2>2. crashed' => cursor_row \notin filtered
    BY <1>4, <1>5, <2>1
  <2>3. QED
    BY <1>3, <2>1, <2>2 DEF PaneHasCursor
<1>7. UNCHANGED <<notmuch, changed_threads, list_store, item, filtered, emptied, filter_txt>>
  BY DEF IndexAction, queryVars
<1>8. cursor_row' = cursor_row \/ cursor_row' \in filtered
  <2> HIDE DEF path
  <2>1. QED
    BY <1>2, <1>3, SetCursorFacts
<1>9. GetCurrentThread' # NoThread => GetCurrentThread' = cursor_row' /\ GetCurrentThread' \in filtered
  <2>1. View' = View
    BY <1>7 DEF View
  <2>2. Path' \in DOMAIN View => View[Path'] = cursor_row' /\ View[Path'] \in filtered
    <3>1. cursor_row' \notin ToSet(View) => Path' = 0
      BY <2>1 DEF Path, PathIn
    <3>2. Path' \in DOMAIN View => cursor_row' \in ToSet(View)
      BY <1>4, <3>1
    <3>3. cursor_row' \in ToSet(View) => Path' = CHOOSE i \in DOMAIN View : View[i] = cursor_row'
      BY <2>1 DEF Path, PathIn
    <3>4. cursor_row' \in ToSet(View) => \E i \in DOMAIN View : View[i] = cursor_row'
      BY DEF ToSet
    <3>5. Path' \in DOMAIN View => View[Path'] = cursor_row'
      BY <3>2, <3>3, <3>4
    <3>6. QED
      BY <1>4, <3>2, <3>5
  <2>3. QED
    BY <2>1, <2>2 DEF GetCurrentThread
<1>10. /\ pane' = [thread |-> pane'.thread, connections |-> pane'.connections]
       /\ pane'.connections = pane.connections
       /\ pane'.thread \in {pane.thread, GetCurrentThread'}
  <2>1. pane = [thread |-> pane.thread, connections |-> pane.connections]
    BY <1>3 DEF ListTypes
  <2>2. pane' = pane \/ pane' = [pane EXCEPT !.thread = GetCurrentThread']
    BY <1>2
  <2>3. pane' = pane \/ pane' = [thread |-> GetCurrentThread', connections |-> pane.connections]
    BY <2>1, <2>2
  <2>4. QED
    BY <2>1, <2>3
<1> HIDE DEF path
<1>11. ListInv'
  BY <1>3, <1>6, <1>7, <1>8, <1>10, CursorKeeps
<1>12. StepActsOnView
  <2>1. acted' # acted => acted'.on \subseteq filtered
    BY NoActOnView
  <2>2. QED
    BY <1>6, <1>9, <1>10, <2>1 DEF StepActsOnView
<1>13. QED
  BY <1>11, <1>12

\* A step that leaves the pane, or closes it, and requests nothing.
LEMMA NothingActed ==
  ASSUME ListInv, acted' = NoAct, pane'.thread \in {pane.thread, NoThread}, crashed' = crashed
  PROVE  StepActsOnView
BY NoActOnView DEF ListInv, StepActsOnView

LEMMA ListStepSilent ==
  ASSUME ListInv, acted' = NoAct,
         \/ MoveCursor \/ CloseThreadPane \/ ToggleMarked \/ ToggleMarkedAll \/ AskTags
         \/ AskMulti \/ CancelCommand
  PROVE  ListInv' /\ StepActsOnView
<1> USE DEF queryVars, rowVars
<1>1. /\ ListTypes /\ FilteredMatch /\ PaneHasCursor
      /\ crashed \in BOOLEAN /\ (crashed => emptied)
      /\ pane = [thread |-> pane.thread, connections |-> pane.connections]
      /\ pane.connections \in Nat
  BY DEF ListInv, ListTypes
<1>2. /\ notmuch' = notmuch /\ changed_threads' = changed_threads /\ crashed' = crashed
      /\ UNCHANGED <<list_store, item, filtered, emptied, filter_txt>>
      /\ pane' = pane \/ pane' = NoPane
  BY DEF MoveCursor, CursorTo, CloseThreadPane, ToggleMarked, ToggleMarkedAll, AskTags, AskMulti,
         CancelCommand
<1>3. cursor_row' = cursor_row \/ cursor_row' \in filtered
  <2>1. CASE MoveCursor
    <3>1. \E n \in {NextRow(Path), PrevRow(Path), NextUnreadRow(Path), PrevUnreadRow(Path),
                    ScrollDownRow(Path), ScrollUpRow(Path)} \cup ScrollEnds \cup PageRows : SetCursor(n)
      BY <2>1 DEF MoveCursor, CursorTo
    <3>2. QED
      BY <1>1, <3>1, SetCursorFacts
  <2>2. CASE ToggleMarked
    <3>1. \E n \in {Path, NextRow(Path), PrevRow(Path)} : SetCursor(n)
      BY <2>2 DEF ToggleMarked
    <3>2. QED
      BY <1>1, <3>1, SetCursorFacts
  <2>3. CASE CloseThreadPane \/ ToggleMarkedAll \/ AskTags \/ AskMulti \/ CancelCommand
    BY <2>3 DEF CloseThreadPane, ToggleMarkedAll, AskTags, AskMulti, CancelCommand
  <2>4. QED
    BY <2>1, <2>2, <2>3
<1>4. /\ pane' = [thread |-> pane'.thread, connections |-> pane'.connections]
      /\ pane'.connections \in Nat
      /\ pane'.thread # NoThread => pane'.connections > 0 /\ pane.thread # NoThread
      /\ pane'.thread \in {pane.thread, NoThread}
  BY <1>1, <1>2 DEF NoPane, PaneHasCursor
<1>5. ListInv'
  BY <1>1, <1>2, <1>3, <1>4, CursorKeeps
<1>6. QED
  BY <1>2, <1>4, <1>5, NothingActed

\* What the user asks for is about threads that the list shows.
LEMMA ListStepActs ==
  ASSUME ListInv,
         \/ ThreadKey \/ OpenPane \/ AnswerTags \/ MultiKeyHandler \/ AnswerDiffTags
  PROVE  ListInv' /\ StepActsOnView
<1> USE DEF queryVars, rowVars
<1>1. /\ ListTypes /\ FilteredMatch /\ PaneHasCursor
      /\ crashed \in BOOLEAN /\ (crashed => emptied)
      /\ pane = [thread |-> pane.thread, connections |-> pane.connections]
      /\ pane.connections \in Nat
  BY DEF ListInv, ListTypes
<1>2. /\ notmuch' = notmuch /\ changed_threads' = changed_threads /\ crashed' = crashed
      /\ UNCHANGED <<list_store, item, filtered, emptied, filter_txt, cursor_row>>
      /\ pane' = pane \/ OpenPane
  BY DEF ThreadKey, OpenPane, AnswerTags, MultiKeyHandler, AnswerDiffTags, Act, NoRequest
<1>3. GetCurrentThread # NoThread =>
        GetCurrentThread = cursor_row /\ cursor_row \in filtered
  BY <1>1, CurrentThread
<1>4. /\ pane' = [thread |-> pane'.thread, connections |-> pane'.connections]
      /\ pane'.connections \in Nat
      /\ pane'.thread # NoThread =>
           pane'.connections > 0 /\ (pane.thread # NoThread \/ cursor_row \in filtered)
      /\ pane'.thread = pane.thread \/ (pane'.thread = cursor_row /\ cursor_row \in filtered)
  <2>1. CASE pane' = pane
    BY <1>1, <2>1 DEF PaneHasCursor
  <2>2. CASE OpenPane
    <3>1. /\ GetCurrentThread # NoThread
          /\ pane' = [thread |-> GetCurrentThread, connections |-> pane.connections + 1]
      BY <2>2 DEF OpenPane
    <3>2. pane.connections + 1 \in Nat /\ pane.connections + 1 > 0
      BY <1>1
    <3>3. /\ pane'.thread = GetCurrentThread /\ pane'.connections = pane.connections + 1
          /\ pane' = [thread |-> pane'.thread, connections |-> pane'.connections]
      BY <3>1
    <3>4. GetCurrentThread = cursor_row /\ cursor_row \in filtered
      BY <1>3, <3>1
    <3>5. QED
      BY <3>2, <3>3, <3>4
  <2>3. QED
    BY <1>2, <2>1, <2>2
<1>5. acted' # acted => \/ acted'.on \subseteq filtered
                        \/ command.kind \in {"tag", "difftag"} /\ acted'.on = command.on
  <2>1. CASE ThreadKey \/ OpenPane
    BY <1>3, <2>1 DEF ThreadKey, OpenPane, Act
  <2>2. CASE AnswerTags
    <3>1. command.kind = "tag" /\ (acted' = NoAct \/ acted'.on = command.on)
      BY <2>2 DEF AnswerTags, NoRequest, Act
    <3>2. QED
      BY <3>1, NoActOnView
  <2>3. CASE MultiKeyHandler
    <3>1. acted' = NoAct \/ acted'.on = MarkedRows
      BY <2>3 DEF MultiKeyHandler, NoRequest, Act
    <3>2. QED
      BY <3>1, NoActOnView DEF MarkedRows
  <2>4. CASE AnswerDiffTags
    BY <2>4 DEF AnswerDiffTags, Act
  <2>5. QED
    BY <2>1, <2>2, <2>3, <2>4
<1>6. ListInv'
  BY <1>1, <1>2, <1>4, CursorKeeps
<1>7. StepActsOnView
  BY <1>1, <1>2, <1>4, <1>5 DEF StepActsOnView
<1>8. QED
  BY <1>6, <1>7

LEMMA ListBegins == ListInit => ListInv
<1> SUFFICES ASSUME ListInit PROVE ListInv
  OBVIOUS
<1>1. list_store = <<>> /\ filtered = {} /\ ToSet(list_store) = {}
  BY DEF ListInit, ToSet
<1>2. item \in ItemType
  BY DEF ListInit, ItemType, NewItem
<1>3. ListTypes
  <2>1. /\ notmuch \in [Thread -> [tags : SUBSET Tags, in_query : BOOLEAN]] /\ changed_threads = {}
        /\ filter_txt = FALSE /\ emptied = FALSE /\ crashed = FALSE /\ cursor_row = NoThread
        /\ pane = [thread |-> NoThread, connections |-> 0]
    BY DEF ListInit, NoPane
  <2>2. list_store \in Seq(Thread)
    BY <1>1
  <2>3. QED
    BY <1>2, <2>1, <2>2 DEF ListTypes
<1>4. RowsIndexed /\ FilteredMatch
  BY <1>1 DEF ListInit, RowsIndexed, FilteredMatch, Matching
<1>5. PaneHasCursor /\ (crashed => emptied)
  BY DEF ListInit, PaneHasCursor, NoPane
<1>6. QED
  BY <1>3, <1>4, <1>5 DEF ListInv

LEMMA ListStep == ListInv /\ [ListNext]_listVars => ListInv' /\ StepActsOnView
<1> SUFFICES ASSUME ListInv, [ListNext]_listVars PROVE ListInv' /\ StepActsOnView
  OBVIOUS
<1>1. CASE acted' = NoAct /\ (LoadRow \/ FirstThreadReady \/ ReloadList \/ OnThreadChanged \/ OnFilter)
  <2>1. ListInv'
    BY <1>1, RowsComeAndGo
  <2>2. pane' = pane /\ crashed' = crashed
    BY <1>1 DEF LoadRow, FirstThreadReady, ReloadList, OnThreadChanged, OnFilter
  <2>3. QED
    BY <1>1, <2>1, <2>2, NothingActed
<1>2. CASE acted' = NoAct /\ Change
  <2>1. ListInv'
    BY <1>2, TagsKeep
  <2>2. pane' = pane /\ crashed' = crashed
    BY <1>2 DEF Change
  <2>3. QED
    BY <1>2, <2>1, <2>2, NothingActed
<1>3. CASE acted' = NoAct /\ IndexAction
  BY <1>3, PaneFollows
<1>4. CASE /\ acted' = NoAct
           /\ \/ MoveCursor \/ CloseThreadPane \/ ToggleMarked \/ ToggleMarkedAll \/ AskTags
              \/ AskMulti \/ CancelCommand
  BY <1>4, ListStepSilent
<1>5. CASE \/ OpenThreadElsewhere \/ ReplyToThread \/ EditDraft \/ ThreadAction
           \/ OpenPane \/ AnswerTags \/ MultiKeyHandler \/ AnswerDiffTags
  BY <1>5, ListStepActs DEF OpenThreadElsewhere, ReplyToThread, EditDraft, ThreadAction
<1>6. CASE UNCHANGED listVars
  BY <1>6 DEF listVars, ListInv, ListTypes, RowsIndexed, FilteredMatch, Matching, PaneHasCursor,
              StepActsOnView
<1>7. QED
  BY <1>1, <1>2, <1>3, <1>4, <1>5, <1>6 DEF ListNext

\* What the user does to a thread goes to one that the list shows, the thread
\* beside the list is the one of the cursor, and the list has one to give
\* unless it had once become empty, for any threads, changes, filters and
\* reloads (get_current_thread, on_index_action, multi_key_handler).
THEOREM ActsOnView == ListSpec => ListActsOnView
<1>1. ListInv /\ [ListNext]_listVars => [StepActsOnView]_listVars
  BY ListStep
<1>2. [][StepActsOnView]_listVars => ListActsOnView
  BY PTL DEF ListActsOnView, StepActsOnView
<1>3. QED
  BY <1>1, <1>2, ListBegins, ListStep, PTL DEF ListSpec

-----------------------------------------------------------------------------
(* Polling: the mutex and the poll state, and that no change of a poll is  *)
(* missed as long as the revision from before it is kept.                  *)

\* What is still to be announced changed after the revision that the next
\* refresh starts from; so did all that changed since start_polling.
NewerThanBefore ==
  /\ m_dopoll => before_poll_revision <= revision
  /\ \A t \in unseen \ overwritten : lastmod[t] > before_poll_revision
  /\ external_polling => \A t \in since_start : lastmod[t] > before_poll_revision

\* The member pid is that of the script while there is one.
PidOfScript == script # "none" => pid = script_pid /\ pid \notin others

\* The inductive invariant.
PollInv ==
  /\ TypeOK
  /\ PidOfScript
  /\ OnePollAtATime
  /\ SpinnerRight
  /\ NewerThanBefore
  /\ PollChangesTold

LEMMA InitPollInv == Init => PollInv
<1> SUFFICES ASSUME Init PROVE PollInv
  OBVIOUS
<1>1. ToSet(pipe) = {} /\ pipe \in Seq({"state", "refresh"})
  BY DEF Init, ToSet
<1>2. /\ m_dopoll \in BOOLEAN /\ external_polling \in BOOLEAN /\ full_refresh \in BOOLEAN
      /\ poll_state \in BOOLEAN /\ spinner \in BOOLEAN
  BY DEF Init
<1>3. revision \in 1 .. MaxRevision \cup {1} /\ lastmod \in [Tid -> 1 .. revision]
  BY DEF Init
<1>4. TypeOK
  BY <1>1, <1>2, <1>3 DEF Init, TypeOK
<1>5. PidOfScript /\ OnePollAtATime /\ SpinnerRight
  BY <1>1 DEF Init, PidOfScript, OnePollAtATime, SpinnerRight
<1>6. NewerThanBefore /\ PollChangesTold
  BY DEF Init, NewerThanBefore, PollChangesTold
<1>7. QED
  BY <1>4, <1>5, <1>6 DEF PollInv

\* A new revision to refresh from, between polls: whatever was unseen is
\* overwritten now.
LEMMA SetBeforeEffect ==
  ASSUME PollInv, ~m_dopoll, NEW r, SetBefore(r), UNCHANGED unseen
  PROVE  before_poll_revision' = r /\ overwritten' = unseen
BY DEF PollInv, TypeOK, PollChangesTold, SetBefore

\* A refresh between polls or at their end tells of all that is not
\* overwritten.
LEMMA ToldIsEnough ==
  ASSUME PollInv
  PROVE  unseen \ overwritten \subseteq ToldSince(before_poll_revision)
<1> SUFFICES ASSUME NEW t \in unseen \ overwritten
             PROVE  t \in ToldSince(before_poll_revision)
  OBVIOUS
<1>1. t \in Tid /\ lastmod[t] \in 1 .. revision /\ revision \in Nat /\ before_poll_revision \in Nat
  BY DEF PollInv, TypeOK
<1>2. lastmod[t] > before_poll_revision
  BY DEF PollInv, NewerThanBefore
<1>3. QED
  BY <1>1, <1>2 DEF ToldSince

LEMMA NextPollInv == PollInv /\ [Next]_vars => PollInv'
<1> SUFFICES ASSUME PollInv, [Next]_vars PROVE PollInv'
  OBVIOUS
<1> USE DEF database, processes
<1>0. revision \in Nat
  BY PollAssumption DEF PollInv, TypeOK
<1>1. ASSUME NEW p \in Pid \ others, PollStarts(p) PROVE PollInv'
  <2>1. /\ ~m_dopoll /\ m_dopoll' = TRUE /\ poll_state' = TRUE
        /\ pipe' = Append(pipe, "state")
        /\ pid' = p /\ script_pid' = p /\ script' = "running"
        /\ UNCHANGED <<database, external_polling, full_refresh, others, spinner>>
    BY <1>1 DEF PollStarts
  <2>2. before_poll_revision' = revision /\ overwritten' = unseen
    BY <1>1, <2>1, SetBeforeEffect DEF PollStarts
  <2>3. pipe' \in Seq({"state", "refresh"}) /\ ToSet(pipe') = ToSet(pipe) \cup {"state"}
    BY <2>1, AppendFacts DEF PollInv, TypeOK
  <2>4. TypeOK'
    BY <1>0, <2>1, <2>2, <2>3, PollAssumption DEF PollInv, TypeOK
  <2>5. PidOfScript' /\ OnePollAtATime' /\ SpinnerRight'
    BY <2>1, <2>3 DEF PollInv, PidOfScript, OnePollAtATime, SpinnerRight
  <2>6. NewerThanBefore' /\ PollChangesTold'
    BY <1>0, <2>1, <2>2 DEF PollInv, OnePollAtATime, NewerThanBefore, PollChangesTold
  <2>7. QED
    BY <2>4, <2>5, <2>6 DEF PollInv
<1>2. CASE PollFails
  <2>1. /\ ~m_dopoll
        /\ pipe' = pipe \o <<"state", "state">>
        /\ UNCHANGED <<database, m_dopoll, external_polling, full_refresh, poll_state,
                       processes, spinner>>
    BY <1>2 DEF PollFails
  <2>2. before_poll_revision' = revision /\ overwritten' = unseen
    BY <1>2, <2>1, SetBeforeEffect DEF PollFails
  <2>3. pipe' \in Seq({"state", "refresh"}) /\ ToSet(pipe') = ToSet(pipe) \cup {"state"}
    BY <2>1, AppendTwoFacts DEF PollInv, TypeOK
  <2>4. TypeOK'
    BY <1>0, <2>1, <2>2, <2>3 DEF PollInv, TypeOK
  <2>5. PidOfScript' /\ OnePollAtATime' /\ SpinnerRight'
    BY <2>1, <2>3 DEF PollInv, PidOfScript, OnePollAtATime, SpinnerRight
  <2>6. NewerThanBefore' /\ PollChangesTold'
    BY <1>0, <2>1, <2>2 DEF PollInv, OnePollAtATime, NewerThanBefore, PollChangesTold
  <2>7. QED
    BY <2>4, <2>5, <2>6 DEF PollInv
<1>3. CASE CancelPoll
  <2>1. /\ script' \in {"none", "running", "ended"}
        /\ script' # "none" <=> script # "none"
        /\ others' \subseteq others
        /\ UNCHANGED <<database, m_dopoll, external_polling, full_refresh,
                       before_poll_revision, poll_state, pid, script_pid, pipe,
                       spinner, overwritten>>
    BY <1>3 DEF CancelPoll, PollInv, TypeOK
  <2>2. TypeOK'
    BY <2>1 DEF PollInv, TypeOK
  <2>3. PidOfScript' /\ OnePollAtATime' /\ SpinnerRight'
    BY <2>1 DEF PollInv, PidOfScript, OnePollAtATime, SpinnerRight
  <2>4. NewerThanBefore' /\ PollChangesTold'
    BY <2>1 DEF PollInv, NewerThanBefore, PollChangesTold, RefreshWaits
  <2>5. QED
    BY <2>2, <2>3, <2>4 DEF PollInv
<1>4. CASE StartPolling
  <2>1. /\ ~m_dopoll /\ m_dopoll' = TRUE /\ external_polling' = TRUE /\ poll_state' = TRUE
        /\ pipe' = Append(pipe, "state")
        /\ since_start' = {}
        /\ UNCHANGED <<revision, lastmod, unseen, full_refresh, processes, spinner>>
    BY <1>4 DEF StartPolling
  <2>2. before_poll_revision' = revision /\ overwritten' = unseen
    BY <1>4, <2>1, SetBeforeEffect DEF StartPolling
  <2>3. pipe' \in Seq({"state", "refresh"}) /\ ToSet(pipe') = ToSet(pipe) \cup {"state"}
    BY <2>1, AppendFacts DEF PollInv, TypeOK
  <2>4. TypeOK'
    BY <1>0, <2>1, <2>2, <2>3 DEF PollInv, TypeOK
  <2>5. PidOfScript' /\ OnePollAtATime' /\ SpinnerRight'
    BY <2>1, <2>3 DEF PollInv, PidOfScript, OnePollAtATime, SpinnerRight
  <2>6. NewerThanBefore' /\ PollChangesTold'
    BY <1>0, <2>1, <2>2 DEF PollInv, NewerThanBefore, PollChangesTold
  <2>7. QED
    BY <2>4, <2>5, <2>6 DEF PollInv
<1>5. CASE StopPolling
  <2>1. /\ external_polling
        /\ unseen' = unseen \ ToldSince(before_poll_revision)
        /\ overwritten' = overwritten \ ToldSince(before_poll_revision)
        /\ external_polling' = FALSE /\ m_dopoll' = FALSE /\ poll_state' = FALSE
        /\ pipe' = Append(pipe, "state")
        /\ UNCHANGED <<revision, lastmod, since_start, full_refresh,
                       before_poll_revision, processes, spinner>>
    BY <1>5 DEF StopPolling, Tell
  <2>2. unseen' \subseteq overwritten'
    BY <2>1, ToldIsEnough
  <2>3. pipe' \in Seq({"state", "refresh"}) /\ ToSet(pipe') = ToSet(pipe) \cup {"state"}
    BY <2>1, AppendFacts DEF PollInv, TypeOK
  <2>4. TypeOK'
    BY <2>1, <2>3 DEF PollInv, TypeOK
  <2>5. PidOfScript' /\ OnePollAtATime' /\ SpinnerRight'
    BY <2>1, <2>3 DEF PollInv, PidOfScript, OnePollAtATime, SpinnerRight
  <2>6. NewerThanBefore' /\ PollChangesTold'
    BY <2>1, <2>2 DEF NewerThanBefore, PollChangesTold
  <2>7. QED
    BY <2>4, <2>5, <2>6 DEF PollInv
<1>6. ASSUME NEW r \in 0 .. MaxRevision, Refresh(r) PROVE PollInv'
  <2> DEFINE told == IF r = 0 THEN Tid ELSE ToldSince(r)
  <2>1. /\ ~external_polling /\ ~m_dopoll
        /\ before_poll_revision' = r
        /\ unseen' = unseen \ told
        /\ overwritten' = (IF RefreshWaits THEN overwritten \cup unseen ELSE overwritten) \ told
        /\ UNCHANGED <<revision, lastmod, since_start, m_dopoll, external_polling,
                       full_refresh, poll_state, processes, pipe, spinner>>
    BY <1>6 DEF Refresh
  <2>2. unseen' = overwritten'
    BY <2>1 DEF PollInv, TypeOK, PollChangesTold
  <2>3. TypeOK'
    BY <2>1, <2>2, PollAssumption DEF PollInv, TypeOK
  <2>4. PidOfScript' /\ OnePollAtATime' /\ SpinnerRight'
    BY <2>1 DEF PollInv, PidOfScript, OnePollAtATime, SpinnerRight
  <2>5. NewerThanBefore' /\ PollChangesTold'
    BY <2>1, <2>2 DEF NewerThanBefore, PollChangesTold
  <2>6. QED
    BY <2>3, <2>4, <2>5 DEF PollInv
<1>7. CASE PollChildDone
  <2>1. /\ script = "ended" /\ script' = "none" /\ script_pid' = NoPid
        /\ poll_state' = FALSE /\ m_dopoll' = FALSE
        /\ pipe' = pipe \o <<"state", "refresh">>
        /\ UNCHANGED <<database, external_polling, full_refresh, before_poll_revision,
                       pid, others, spinner, overwritten>>
    BY <1>7 DEF PollChildDone
  <2>2. /\ pipe' \in Seq({"state", "refresh"})
        /\ ToSet(pipe') = ToSet(pipe) \cup {"state", "refresh"}
    <3>1. pipe \in Seq({"state", "refresh"})
      BY DEF PollInv, TypeOK
    <3>2. /\ pipe \o <<"state", "refresh">> \in Seq({"state", "refresh"})
          /\ ToSet(pipe \o <<"state", "refresh">>) = ToSet(pipe) \cup {"state", "refresh"}
      BY <3>1, AppendTwoFacts
    <3>3. QED
      BY <2>1, <3>2
  <2>3. TypeOK'
    BY <2>1, <2>2 DEF PollInv, TypeOK
  <2>4. PidOfScript' /\ OnePollAtATime' /\ SpinnerRight'
    BY <2>1, <2>2 DEF PollInv, PidOfScript, OnePollAtATime, SpinnerRight
  <2>5. NewerThanBefore' /\ PollChangesTold'
    BY <2>1, <2>2 DEF PollInv, OnePollAtATime, NewerThanBefore, PollChangesTold, RefreshWaits
  <2>6. QED
    BY <2>3, <2>4, <2>5 DEF PollInv
<1>8. CASE DispatchRefresh
  <2> DEFINE told == IF full_refresh THEN Tid ELSE ToldSince(before_poll_revision)
  <2>1. /\ pipe # <<>> /\ pipe' = Tail(pipe) /\ Head(pipe) = "refresh"
        /\ unseen' = unseen \ told /\ overwritten' = overwritten \ told
        /\ UNCHANGED <<revision, lastmod, since_start, m_dopoll, external_polling,
                       full_refresh, before_poll_revision, poll_state, processes, spinner>>
    BY <1>8 DEF DispatchRefresh, Tell
  <2>2. unseen' \subseteq overwritten'
    BY <2>1, ToldIsEnough DEF PollInv, TypeOK
  <2>3. pipe' \in Seq({"state", "refresh"}) /\ ToSet(pipe) = {"refresh"} \cup ToSet(pipe')
    BY <2>1, TailFacts DEF PollInv, TypeOK
  <2>4. TypeOK'
    BY <2>1, <2>3 DEF PollInv, TypeOK
  <2>5. PidOfScript' /\ OnePollAtATime' /\ SpinnerRight'
    BY <2>1, <2>3 DEF PollInv, PidOfScript, OnePollAtATime, SpinnerRight
  <2>6. NewerThanBefore' /\ PollChangesTold'
    BY <2>1, <2>2 DEF PollInv, NewerThanBefore, PollChangesTold
  <2>7. QED
    BY <2>4, <2>5, <2>6 DEF PollInv
<1>9. CASE DispatchState
  <2>1. /\ pipe # <<>> /\ pipe' = Tail(pipe) /\ Head(pipe) = "state"
        /\ spinner' = poll_state
        /\ UNCHANGED <<database, m_dopoll, external_polling, full_refresh,
                       before_poll_revision, poll_state, processes, overwritten>>
    BY <1>9 DEF DispatchState
  <2>2. pipe' \in Seq({"state", "refresh"}) /\ ToSet(pipe) = {"state"} \cup ToSet(pipe')
    BY <2>1, TailFacts DEF PollInv, TypeOK
  <2>3. TypeOK'
    BY <2>1, <2>2 DEF PollInv, TypeOK
  <2>4. PidOfScript' /\ OnePollAtATime' /\ SpinnerRight'
    BY <2>1 DEF PollInv, PidOfScript, OnePollAtATime, SpinnerRight
  <2>5. NewerThanBefore' /\ PollChangesTold'
    BY <2>1, <2>2 DEF PollInv, NewerThanBefore, PollChangesTold, RefreshWaits
  <2>6. QED
    BY <2>3, <2>4, <2>5 DEF PollInv
<1>10. CASE MailChanges
  <2>1. PICK t \in Tid :
          /\ revision < MaxRevision /\ revision' = revision + 1
          /\ lastmod' = [lastmod EXCEPT ![t] = revision']
          /\ unseen' = unseen \cup {t} /\ overwritten' = overwritten \ {t}
          /\ since_start' = IF external_polling THEN since_start \cup {t} ELSE since_start
          /\ script = "running" \/ external_polling
          /\ UNCHANGED <<m_dopoll, external_polling, full_refresh, before_poll_revision,
                         poll_state, processes, pipe, spinner>>
    BY <1>10 DEF MailChanges
  <2>2. m_dopoll /\ before_poll_revision < revision' /\ before_poll_revision \in Nat
    BY <1>0, <2>1 DEF PollInv, TypeOK, OnePollAtATime, NewerThanBefore
  <2>3. /\ lastmod \in [Tid -> 1 .. revision]
        /\ \A u \in Tid : lastmod'[u] = IF u = t THEN revision' ELSE lastmod[u]
    BY <2>1 DEF PollInv, TypeOK
  <2>4. revision' \in 1 .. MaxRevision \cup {1} /\ lastmod' \in [Tid -> 1 .. revision']
    BY <1>0, <2>1, <2>3, PollAssumption
  <2>5. TypeOK'
    BY <2>1, <2>4 DEF PollInv, TypeOK
  <2>6. PidOfScript' /\ OnePollAtATime' /\ SpinnerRight'
    BY <2>1 DEF PollInv, PidOfScript, OnePollAtATime, SpinnerRight
  <2>7. NewerThanBefore'
    <3>1. (m_dopoll => before_poll_revision <= revision)'
      BY <1>0, <2>1, <2>2
    <3>2. ASSUME NEW u \in unseen' \ overwritten' PROVE lastmod'[u] > before_poll_revision
      BY <1>0, <2>1, <2>2, <2>3 DEF PollInv, TypeOK, NewerThanBefore
    <3>3. ASSUME external_polling, NEW u \in since_start' PROVE lastmod'[u] > before_poll_revision
      BY <1>0, <2>1, <2>2, <2>3, <3>3 DEF PollInv, TypeOK, NewerThanBefore
    <3>4. QED
      BY <2>1, <3>1, <3>2, <3>3 DEF NewerThanBefore
  <2>8. PollChangesTold'
    BY <2>1, <2>2 DEF PollChangesTold
  <2>9. QED
    BY <2>5, <2>6, <2>7, <2>8 DEF PollInv
<1>11. CASE ScriptEnds \/ OtherProcess \/ UNCHANGED vars
  <2>1. /\ UNCHANGED <<database, m_dopoll, external_polling, full_refresh,
                       before_poll_revision, poll_state, pid, script_pid, pipe,
                       spinner, overwritten>>
        /\ script' # "none" <=> script # "none"
        /\ script' \in {"none", "running", "ended"}
        /\ others' \subseteq Pid
        /\ script_pid \notin others => script_pid \notin others'
    BY <1>11 DEF ScriptEnds, OtherProcess, vars, PollInv, TypeOK
  <2>2. TypeOK'
    BY <2>1 DEF PollInv, TypeOK
  <2>3. PidOfScript' /\ OnePollAtATime' /\ SpinnerRight'
    BY <2>1 DEF PollInv, PidOfScript, OnePollAtATime, SpinnerRight
  <2>4. NewerThanBefore' /\ PollChangesTold'
    BY <2>1 DEF PollInv, NewerThanBefore, PollChangesTold, RefreshWaits
  <2>5. QED
    BY <2>2, <2>3, <2>4 DEF PollInv
<1>12. QED
  BY <1>1, <1>2, <1>3, <1>4, <1>5, <1>6, <1>7, <1>8, <1>9, <1>10, <1>11
  DEF Next, Request, Dispatch, World

LEMMA PollInvHolds == Spec => []PollInv
BY InitPollInv, NextPollInv, PTL DEF Spec

\* Every variable keeps its type.
THEOREM PollTypeCorrect == Spec => []TypeOK
BY PollInvHolds, PTL DEF PollInv

\* m_dopoll is held exactly during a poll: no path through poll, do_poll and
\* poll_child_done, start_polling and stop_polling leaves it locked or lets
\* two polls run, and poll_state says the same.
THEOREM OnePoll == Spec => []OnePollAtATime
BY PollInvHolds, PTL DEF PollInv

\* The spinner of the notebook catches up with poll_state.
THEOREM SpinnerCorrect == Spec => []SpinnerRight
BY PollInvHolds, PTL DEF PollInv

\* While the script runs, cancel_poll kills it and no other process.
THEOREM CancelCorrect == Spec => CancelHitsScript
<1>1. PollInv => [CancelPoll /\ script = "running" => script' = "ended" /\ others' = others]_vars
  BY DEF PollInv, PidOfScript, CancelPoll
<1>2. QED
  BY <1>1, PollInvHolds, PTL DEF CancelHitsScript

\* No change of a poll is missed unless before_poll_revision was overwritten
\* while the refresh of that poll waited to be dispatched; and stop_polling
\* misses nothing that changed since start_polling.
THEOREM ChangesTold == Spec => ChangesAnnounced
<1>1. ASSUME PollInv, StopPolling PROVE unseen' \cap since_start = {}
  <2> SUFFICES ASSUME NEW t \in unseen' \cap since_start PROVE FALSE
    OBVIOUS
  <2>1. /\ external_polling
        /\ t \notin ToldSince(before_poll_revision)
    BY <1>1 DEF StopPolling, Tell
  <2>2. t \in Tid /\ lastmod[t] \in 1 .. revision /\ revision \in Nat /\ before_poll_revision \in Nat
    BY <1>1, PollAssumption DEF PollInv, TypeOK
  <2>3. lastmod[t] > before_poll_revision
    BY <1>1, <2>1 DEF PollInv, NewerThanBefore
  <2>4. QED
    BY <2>1, <2>2, <2>3 DEF ToldSince
<1>2. PollInv /\ PollInv' =>
        [PollChangesTold' /\ (StopPolling => unseen' \cap since_start = {})]_vars
  BY <1>1 DEF PollInv
<1>3. QED
  BY <1>2, PollInvHolds, PTL DEF ChangesAnnounced

=============================================================================
