---------------------------- MODULE ThreadPage_proofs -------------------------
(***************************************************************************)
(* Proofs about the page of a thread (ThreadPage), for any messages, parts *)
(* and numbers of events: the socket and the handshake, what the page      *)
(* shows of the program's state, the focus, and the messages that are      *)
(* taken for read.                                                         *)
(***************************************************************************)
EXTENDS ThreadPage, QueueFacts, FiniteSetTheorems, TLAPS

-----------------------------------------------------------------------------
(* The page of a thread: the program and the extension do not wait for     *)
(* one another in a circle, and the handshake before the first message.    *)

IsQueue(s) == s \in Seq(ToSet(s))

\* The socket: what is on it, and that nothing but a call of the program
\* waits for it.
SocketInv ==
  /\ waiting \in BOOLEAN /\ surplus \in Nat
  /\ IsQueue(requests) /\ IsQueue(acks)
  /\ AckAccounting

FlagsInv == {wk_loaded, connected, idle_render, ready, page_ready} \subseteq BOOLEAN

\* Nothing is called, sent or drawn before the page is loaded and the
\* extension is connected.
AfterBoth ==
  idle_render \/ ready \/ waiting \/ todo # <<>> \/ requests # <<>> \/ drawn # {} =>
    wk_loaded /\ connected

\* When both are there and the extension has not been told what to allow,
\* Page is the next call, or on its way, or on_ready_to_render will call it.
PageSent == \E r \in ToSet(requests) : r.call = "Page"
PageNextCall == ~waiting /\ todo # <<>> /\ Head(todo).call = "Page"
PageComes ==
  wk_loaded /\ connected /\ ~page_ready => idle_render \/ PageNextCall \/ PageSent

HandshakeInv == FlagsInv /\ AfterBoth /\ PageComes

\* The inductive invariant.
PageInv == SocketInv /\ HandshakeInv

-----------------------------------------------------------------------------
(* Sequences.                                                              *)

\* A queue that gets another element is one, and longer by one.
LEMMA QueueAppend ==
  ASSUME NEW s, NEW a, IsQueue(s)
  PROVE  /\ IsQueue(Append(s, a)) /\ Len(s) \in Nat
         /\ Len(Append(s, a)) = Len(s) + 1
         /\ ToSet(Append(s, a)) = ToSet(s) \cup {a}
         /\ Append(s, a) # <<>>
<1> DEFINE S == ToSet(s) \cup {a}
<1>1. s \in Seq(S)
  BY SeqMonotonic DEF IsQueue
<1>2. a \in S
  OBVIOUS
<1>3. /\ Append(s, a) \in Seq(S) /\ ToSet(Append(s, a)) = ToSet(s) \cup {a}
      /\ Append(s, a) # <<>>
  <2> HIDE DEF S
  <2>1. QED
    BY <1>1, <1>2, AppendFacts
<1>4. Len(s) \in Nat /\ Len(Append(s, a)) = Len(s) + 1
  BY <1>1
<1>5. QED
  BY <1>3, <1>4 DEF IsQueue

\* A queue without its first element is one, and shorter by one.
LEMMA QueueTail ==
  ASSUME NEW s, IsQueue(s), s # <<>>
  PROVE  /\ IsQueue(Tail(s)) /\ Len(s) \in Nat \ {0}
         /\ Len(Tail(s)) = Len(s) - 1
         /\ ToSet(s) = {Head(s)} \cup ToSet(Tail(s))
<1> DEFINE S == ToSet(s)
<1>1. s \in Seq(S)
  BY DEF IsQueue
<1>2. Tail(s) \in Seq(S) /\ ToSet(s) = {Head(s)} \cup ToSet(Tail(s))
  <2> HIDE DEF S
  <2>1. QED
    BY <1>1, TailFacts
<1>3. Len(s) \in Nat \ {0} /\ Len(Tail(s)) = Len(s) - 1
  BY <1>1
<1>4. Tail(s) \in Seq(ToSet(Tail(s)))
  <2> DEFINE t == Tail(s)
  <2>1. t \in Seq(S)
    BY <1>2
  <2> DEFINE n == Len(t)
  <2>3. n \in Nat /\ t \in [1 .. n -> S]
    <3> HIDE DEF t, S
    <3>1. QED
      BY <2>1
  <2>4. \A i \in 1 .. n : t[i] \in ToSet(t)
    <3> HIDE DEF t, n
    <3>1. QED
      BY <2>3 DEF ToSet
  <2>5. t \in [1 .. n -> ToSet(t)]
    <3> HIDE DEF t, n
    <3>1. QED
      BY <2>3, <2>4
  <2>6. QED
    <3> HIDE DEF t, n
    <3>1. t \in Seq(ToSet(t))
      BY <2>3, <2>5, SeqDef
    <3>2. QED
      BY <3>1 DEF t
<1>5. QED
  BY <1>2, <1>3, <1>4 DEF IsQueue

-----------------------------------------------------------------------------
(* The steps.                                                              *)

\* An event of the program, other than the three of the handshake and a load,
\* calls something only when messages are rendered.
KeyEvent ==
  \/ Navigate \/ NavigateExpand \/ NextUnread \/ RemoteImages
  \/ ToggleExpand \/ ToggleAll \/ ToggleMark \/ ToggleMarkAll \/ ElementAction
  \/ TagsChanged \/ MessageGone \/ TimerFires

LEMMA KeyFacts ==
  ASSUME KeyEvent
  PROVE  /\ Idle /\ UNCHANGED <<loading, ready, waiting, requests, acks, surplus, extension>>
         /\ todo' = <<>> \/ ready
<1>1. CASE Navigate
  BY <1>1 DEF Navigate, Key
<1>2. CASE NavigateExpand
  BY <1>2 DEF NavigateExpand, Key
<1>3. CASE NextUnread
  BY <1>3 DEF NextUnread, Key
<1>4. CASE RemoteImages
  BY <1>4 DEF RemoteImages, Key
<1>5. CASE ToggleExpand
  BY <1>5 DEF ToggleExpand, Key
<1>6. CASE ToggleAll
  BY <1>6 DEF ToggleAll, Key
<1>7. CASE ToggleMark
  BY <1>7 DEF ToggleMark, Key
<1>8. CASE ToggleMarkAll
  BY <1>8 DEF ToggleMarkAll, Key
<1>9. CASE ElementAction
  BY <1>9 DEF ElementAction, Key
<1>10. CASE TagsChanged
  BY <1>10 DEF TagsChanged
<1>11. CASE MessageGone
  BY <1>11 DEF MessageGone, Idle
<1>12. CASE TimerFires
  BY <1>12 DEF TimerFires, Idle
<1>13. QED
  BY <1>1, <1>2, <1>3, <1>4, <1>5, <1>6, <1>7, <1>8, <1>9, <1>10, <1>11, <1>12 DEF KeyEvent

\* No event of the program touches the socket or the extension.
LEMMA EventFacts ==
  ASSUME PageEvent
  PROVE  Idle /\ UNCHANGED <<waiting, requests, acks, surplus, extension>>
<1>1. CASE LoadThread
  BY <1>1 DEF LoadThread
<1>2. CASE LoadChanged
  BY <1>2 DEF LoadChanged
<1>3. CASE ExtensionConnect
  BY <1>3 DEF ExtensionConnect
<1>4. CASE IdleRender
  BY <1>4 DEF IdleRender
<1>5. CASE KeyEvent
  BY <1>5, KeyFacts
<1>6. QED
  BY <1>1, <1>2, <1>3, <1>4, <1>5 DEF PageEvent, KeyEvent

\* Each request is acknowledged at least once, and what is more is counted.
LEMMA ExtFacts ==
  ASSUME ExtHandle
  PROVE  /\ requests # <<>> /\ requests' = Tail(requests)
         /\ UNCHANGED <<loading, ready, todo, waiting>>
         /\ \/ \E a : acks' = Append(acks, a) /\ surplus' = surplus
            \/ \E a : acks' = acks \o <<a, a>> /\ surplus' = surplus + 1
         /\ page_ready' = TRUE \/ (Head(requests).call # "Page" /\ page_ready' = page_ready)
<1> DEFINE Answered == \/ \E a : acks' = Append(acks, a) /\ surplus' = surplus
                       \/ \E a : acks' = acks \o <<a, a>> /\ surplus' = surplus + 1
           Told == page_ready' = TRUE \/ (Head(requests).call # "Page" /\ page_ready' = page_ready)
<1>1. requests # <<>> /\ requests' = Tail(requests) /\ UNCHANGED <<loading, ready, todo, waiting>>
  BY DEF ExtHandle
<1>2. AckOnce => Answered
  BY DEF AckOnce
<1>3. \A twice : AckDrawn(twice) => Answered
  BY DEF AckDrawn, AckOnce
<1> HIDE DEF Answered
<1>4. HandlePage => Answered /\ Told
  BY <1>2 DEF HandlePage
<1>5. ExtClear => Answered /\ Told
  BY <1>2 DEF ExtClear, Handling
<1>6. HandleState => Answered /\ Told
  BY <1>2 DEF HandleState, Handling
<1>7. ExtAdd => Answered /\ Told
  BY <1>3 DEF ExtAdd, Handling
<1>8. ExtUpdateParts => Answered /\ Told
  BY <1>3 DEF ExtUpdateParts, Handling
<1>9. ExtUpdateTags => Answered /\ Told
  BY <1>2 DEF ExtUpdateTags, Handling
<1>10. (ExtWarning \/ ExtIndent \/ ExtImages) => Answered /\ Told
  BY <1>2 DEF ExtWarning, ExtIndent, ExtImages, Handling, extension
<1>11. SetHidden => Answered /\ Told
  BY <1>2 DEF SetHidden, Handling, Showing, Hiding
<1>12. HandleMark => Answered /\ Told
  BY <1>2 DEF HandleMark, Handling
<1>13. HandleNavigate => Answered /\ Told
  BY <1>2 DEF HandleNavigate, Handling
<1>14. Answered /\ Told
  BY <1>4, <1>5, <1>6, <1>7, <1>8, <1>9, <1>10, <1>11, <1>12, <1>13 DEF ExtHandle
<1>15. QED
  BY <1>1, <1>14 DEF Answered

-----------------------------------------------------------------------------
(* The socket.                                                             *)

LEMMA InitSocket == PageInit => SocketInv
<1> SUFFICES ASSUME PageInit PROVE SocketInv
  OBVIOUS
<1>1. waiting = FALSE /\ surplus = 0 /\ requests = <<>> /\ acks = <<>>
  BY DEF PageInit
<1>2. IsQueue(requests) /\ IsQueue(acks) /\ Len(requests) = 0 /\ Len(acks) = 0
  BY <1>1 DEF IsQueue
<1>3. QED
  BY <1>1, <1>2 DEF SocketInv, AckAccounting

LEMMA SendSocket == SocketInv /\ Send => SocketInv'
<1> SUFFICES ASSUME SocketInv, Send PROVE SocketInv'
  OBVIOUS
<1>1. PICK r : requests' = Append(requests, r)
  BY DEF Send
<1>2. ~waiting /\ waiting' = TRUE /\ acks' = acks /\ surplus' = surplus
  BY DEF Send
<1>3. IsQueue(requests) /\ IsQueue(acks)
  BY DEF SocketInv
<1>4. IsQueue(requests') /\ Len(requests) \in Nat /\ Len(requests') = Len(requests) + 1
  BY <1>1, <1>3, QueueAppend
<1>5. Len(acks) \in Nat
  BY <1>3 DEF IsQueue
<1>6. Len(requests) + Len(acks) = surplus /\ surplus \in Nat
  BY <1>2, <1>4, <1>5 DEF SocketInv, AckAccounting
<1>7. Len(requests') + Len(acks') = 1 + surplus'
  BY <1>2, <1>4, <1>5, <1>6
<1>8. IsQueue(acks')
  BY <1>2, <1>3
<1>9. QED
  BY <1>2, <1>4, <1>6, <1>7, <1>8 DEF SocketInv, AckAccounting

LEMMA AckedSocket == SocketInv /\ Acked => SocketInv'
<1> SUFFICES ASSUME SocketInv, Acked PROVE SocketInv'
  OBVIOUS
<1>1. /\ waiting = TRUE /\ waiting' = FALSE /\ acks # <<>> /\ acks' = Tail(acks)
      /\ requests' = requests /\ surplus' = surplus
  BY DEF Acked, SocketInv
<1>2. IsQueue(requests) /\ IsQueue(acks)
  BY DEF SocketInv
<1>3. IsQueue(acks') /\ Len(acks) \in Nat \ {0} /\ Len(acks') = Len(acks) - 1
  BY <1>1, <1>2, QueueTail
<1>4. Len(requests) \in Nat
  BY <1>2 DEF IsQueue
<1>5. Len(requests) + Len(acks) = 1 + surplus /\ surplus \in Nat
  BY <1>1 DEF SocketInv, AckAccounting
<1>6. Len(requests') + Len(acks') = surplus'
  BY <1>1, <1>3, <1>4, <1>5
<1>7. IsQueue(requests')
  BY <1>1, <1>2
<1>8. QED
  <2>1. Len(requests') + Len(acks') = (IF waiting' THEN 1 ELSE 0) + surplus'
    BY <1>1, <1>5, <1>6
  <2>2. QED
    BY <1>1, <1>3, <1>5, <1>7, <2>1 DEF SocketInv, AckAccounting

LEMMA ExtSocket == SocketInv /\ ExtHandle => SocketInv'
<1> SUFFICES ASSUME SocketInv, ExtHandle PROVE SocketInv'
  OBVIOUS
<1>1. /\ requests # <<>> /\ requests' = Tail(requests) /\ waiting' = waiting
      /\ \/ \E a : acks' = Append(acks, a) /\ surplus' = surplus
         \/ \E a : acks' = acks \o <<a, a>> /\ surplus' = surplus + 1
  BY ExtFacts
<1>2. IsQueue(requests) /\ IsQueue(acks)
  BY DEF SocketInv
<1>3. IsQueue(requests') /\ Len(requests) \in Nat \ {0} /\ Len(requests') = Len(requests) - 1
  BY <1>1, <1>2, QueueTail
<1>4. /\ surplus \in Nat /\ surplus' \in Nat /\ IsQueue(acks') /\ Len(acks) \in Nat
      /\ Len(acks') = Len(acks) + 1 + (surplus' - surplus)
  <2>1. surplus \in Nat
    BY DEF SocketInv
  <2>2. ASSUME NEW a, acks' = Append(acks, a), surplus' = surplus
        PROVE  /\ surplus' \in Nat /\ IsQueue(acks') /\ Len(acks) \in Nat
               /\ Len(acks') = Len(acks) + 1 + (surplus' - surplus)
    BY <1>2, <2>1, <2>2, QueueAppend
  <2>3. ASSUME NEW a, acks' = acks \o <<a, a>>, surplus' = surplus + 1
        PROVE  /\ surplus' \in Nat /\ IsQueue(acks') /\ Len(acks) \in Nat
               /\ Len(acks') = Len(acks) + 1 + (surplus' - surplus)
    <3> DEFINE once == Append(acks, a)
    <3>1. acks' = Append(once, a)
      BY <1>2, <2>3 DEF IsQueue
    <3>2. IsQueue(once) /\ Len(acks) \in Nat /\ Len(once) = Len(acks) + 1
      BY <1>2, QueueAppend
    <3> HIDE DEF once
    <3>3. IsQueue(acks') /\ Len(acks') = Len(once) + 1
      BY <3>1, <3>2, QueueAppend
    <3>4. QED
      BY <2>1, <2>3, <3>2, <3>3
  <2>4. QED
    BY <1>1, <2>1, <2>2, <2>3
<1>5. Len(requests) + Len(acks) = (IF waiting THEN 1 ELSE 0) + surplus
  BY DEF SocketInv, AckAccounting
<1>6. Len(requests') + Len(acks') = (IF waiting' THEN 1 ELSE 0) + surplus'
  <2> DEFINE r == Len(requests)
             q == Len(requests')
             a == Len(acks)
             b == Len(acks')
             n == IF waiting THEN 1 ELSE 0
  <2>1. /\ r \in Nat \ {0} /\ q = r - 1 /\ a \in Nat /\ surplus \in Nat /\ surplus' \in Nat
        /\ b = a + 1 + (surplus' - surplus) /\ r + a = n + surplus /\ n \in Nat
    BY <1>3, <1>4, <1>5
  <2>2. (IF waiting' THEN 1 ELSE 0) = n
    BY <1>1
  <2> HIDE DEF r, q, a, b, n
  <2>3. q + b = n + surplus'
    BY <2>1
  <2>4. QED
    BY <2>2, <2>3 DEF q, b
<1>7. waiting' \in BOOLEAN
  BY <1>1 DEF SocketInv
<1>8. AckAccounting'
  BY <1>6 DEF AckAccounting
<1>9. QED
  BY <1>3, <1>4, <1>7, <1>8 DEF SocketInv

LEMMA EventSocket == SocketInv /\ PageEvent => SocketInv'
<1> SUFFICES ASSUME SocketInv, PageEvent PROVE SocketInv'
  OBVIOUS
<1>1. waiting' = waiting /\ requests' = requests /\ acks' = acks /\ surplus' = surplus
  BY EventFacts
<1>2. QED
  BY <1>1 DEF SocketInv, AckAccounting

-----------------------------------------------------------------------------
(* The handshake.                                                          *)

LEMMA InitHandshake == PageInit => HandshakeInv
BY DEF PageInit, HandshakeInv, FlagsInv, AfterBoth, PageComes

LEMMA KeyHandshake == HandshakeInv /\ KeyEvent => HandshakeInv'
<1> SUFFICES ASSUME HandshakeInv, KeyEvent PROVE HandshakeInv'
  OBVIOUS
<1>1. /\ ~waiting /\ todo = <<>> /\ (todo' = <<>> \/ ready)
      /\ UNCHANGED <<wk_loaded, connected, idle_render, ready, waiting, requests,
                     page_ready, drawn>>
  BY KeyFacts DEF Idle, loading, extension
<1>2. FlagsInv'
  BY <1>1 DEF HandshakeInv, FlagsInv
<1>3. AfterBoth'
  BY <1>1 DEF HandshakeInv, AfterBoth
<1>4. PageComes'
  <2>1. ~PageNextCall
    BY <1>1 DEF PageNextCall
  <2>2. PageSent' = PageSent
    BY <1>1 DEF PageSent
  <2>3. QED
    BY <1>1, <2>1, <2>2 DEF HandshakeInv, PageComes
<1>5. QED
  BY <1>2, <1>3, <1>4 DEF HandshakeInv

\* RenderFirst begins with Page.
LEMMA FirstCall == RenderFirst => todo' # <<>> /\ Head(todo').call = "Page"
<1> SUFFICES ASSUME RenderFirst PROVE todo' # <<>> /\ Head(todo').call = "Page"
  OBVIOUS
<1> DEFINE rest == RenderCalls
<1>1. todo' = <<Call("Page", NoMail)>> \o rest
  BY DEF RenderFirst
<1> HIDE DEF rest
<1>2. QED
  BY <1>1 DEF Call

LEMMA HandshakeStep ==
  HandshakeInv /\ (LoadThread \/ LoadChanged \/ ExtensionConnect \/ IdleRender) => HandshakeInv'
<1> SUFFICES ASSUME HandshakeInv,
                    LoadThread \/ LoadChanged \/ ExtensionConnect \/ IdleRender
             PROVE  HandshakeInv'
  OBVIOUS
<1>1. /\ {wk_loaded, connected, idle_render, ready, page_ready} \subseteq BOOLEAN
      /\ AfterBoth /\ PageComes
  BY DEF HandshakeInv, FlagsInv
<1>2. ~waiting /\ todo = <<>> /\ UNCHANGED <<waiting, requests, page_ready, drawn>>
  <2>1. PageEvent
    BY DEF PageEvent
  <2>2. QED
    BY <2>1, EventFacts DEF Idle, extension
<1>3. CASE LoadThread
  <2>1. /\ ready' = FALSE /\ UNCHANGED <<wk_loaded, connected, idle_render>>
        /\ todo' = <<>> \/ (wk_loaded /\ connected)
    BY <1>3 DEF LoadThread, loading
  <2>2. FlagsInv'
    BY <1>1, <1>2, <2>1 DEF FlagsInv
  <2>3. AfterBoth'
    BY <1>1, <1>2, <2>1 DEF AfterBoth
  <2>4. PageComes'
    BY <1>1, <1>2, <2>1 DEF PageComes, PageNextCall, PageSent
  <2>5. QED
    BY <2>2, <2>3, <2>4 DEF HandshakeInv
<1>4. CASE LoadChanged
  <2>1. /\ ~wk_loaded /\ wk_loaded' = TRUE /\ UNCHANGED <<connected, idle_render, ready>>
        /\ (connected /\ RenderFirst) \/ (~connected /\ todo' = todo)
    BY <1>4 DEF LoadChanged
  <2>2. FlagsInv'
    BY <1>1, <1>2, <2>1 DEF FlagsInv
  <2>3. AfterBoth'
    BY <1>1, <1>2, <2>1 DEF AfterBoth
  <2>4. PageComes'
    BY <1>1, <1>2, <2>1, FirstCall DEF PageComes, PageNextCall
  <2>5. QED
    BY <2>2, <2>3, <2>4 DEF HandshakeInv
<1>5. CASE ExtensionConnect
  <2>1. /\ ~connected /\ connected' = TRUE /\ idle_render' = wk_loaded
        /\ UNCHANGED <<wk_loaded, ready, todo>>
    BY <1>5 DEF ExtensionConnect
  <2>2. FlagsInv'
    BY <1>1, <1>2, <2>1 DEF FlagsInv
  <2>3. AfterBoth'
    BY <1>1, <1>2, <2>1 DEF AfterBoth
  <2>4. PageComes'
    BY <1>1, <1>2, <2>1 DEF PageComes
  <2>5. QED
    BY <2>2, <2>3, <2>4 DEF HandshakeInv
<1>6. CASE IdleRender
  <2>1. /\ idle_render = TRUE /\ idle_render' = FALSE /\ RenderFirst
        /\ UNCHANGED <<wk_loaded, connected, ready>>
    BY <1>1, <1>6 DEF IdleRender
  <2>2. FlagsInv'
    BY <1>1, <1>2, <2>1 DEF FlagsInv
  <2>3. AfterBoth'
    BY <1>1, <1>2, <2>1 DEF AfterBoth
  <2>4. PageComes'
    BY <1>2, <2>1, FirstCall DEF PageComes, PageNextCall
  <2>5. QED
    BY <2>2, <2>3, <2>4 DEF HandshakeInv
<1>7. QED
  BY <1>3, <1>4, <1>5, <1>6

LEMMA SendHandshake == SocketInv /\ HandshakeInv /\ Send => HandshakeInv'
<1> SUFFICES ASSUME SocketInv, HandshakeInv, Send PROVE HandshakeInv'
  OBVIOUS
<1>1. PICK r : requests' = Append(requests, r) /\ r.call = Head(todo).call
  BY DEF Send
<1>2. /\ ~waiting /\ waiting' = TRUE /\ todo # <<>>
      /\ UNCHANGED <<wk_loaded, connected, idle_render, ready, page_ready, drawn, todo>>
  BY DEF Send, loading, extension
<1>3. ToSet(requests') = ToSet(requests) \cup {r}
  BY <1>1, QueueAppend DEF SocketInv
<1>4. FlagsInv'
  BY <1>2 DEF HandshakeInv, FlagsInv
<1>5. AfterBoth'
  BY <1>2 DEF HandshakeInv, AfterBoth
<1>6. PageComes'
  <2>1. PageSent => PageSent'
    BY <1>3 DEF PageSent
  <2>2. PageNextCall => PageSent'
    BY <1>1, <1>3 DEF PageSent, PageNextCall
  <2>3. QED
    BY <1>2, <2>1, <2>2 DEF HandshakeInv, PageComes
<1>7. QED
  BY <1>4, <1>5, <1>6 DEF HandshakeInv

LEMMA AckedHandshake == HandshakeInv /\ Acked => HandshakeInv'
<1> SUFFICES ASSUME HandshakeInv, Acked PROVE HandshakeInv'
  OBVIOUS
<1>1. /\ waiting /\ ready' = (ready \/ Head(todo).call = "Ready")
      /\ UNCHANGED <<wk_loaded, connected, idle_render, page_ready, drawn, requests>>
  BY DEF Acked, loading, extension
<1>2. wk_loaded /\ connected
  BY <1>1 DEF HandshakeInv, AfterBoth
<1>3. FlagsInv'
  <2>1. ready' \in BOOLEAN
    BY <1>1 DEF HandshakeInv, FlagsInv
  <2>2. QED
    BY <1>1, <2>1 DEF HandshakeInv, FlagsInv
<1>4. AfterBoth'
  BY <1>1, <1>2 DEF AfterBoth
<1>5. PageComes'
  BY <1>1 DEF HandshakeInv, PageComes, PageNextCall, PageSent
<1>6. QED
  BY <1>3, <1>4, <1>5 DEF HandshakeInv

LEMMA ExtHandshake == SocketInv /\ HandshakeInv /\ ExtHandle => HandshakeInv'
<1> SUFFICES ASSUME SocketInv, HandshakeInv, ExtHandle PROVE HandshakeInv'
  OBVIOUS
<1>1. /\ requests # <<>> /\ requests' = Tail(requests)
      /\ UNCHANGED <<wk_loaded, connected, idle_render, ready, todo, waiting>>
      /\ page_ready' = TRUE \/ (Head(requests).call # "Page" /\ page_ready' = page_ready)
  BY ExtFacts DEF loading
<1>2. ToSet(requests) = {Head(requests)} \cup ToSet(requests')
  BY <1>1, QueueTail DEF SocketInv
<1>3. FlagsInv'
  BY <1>1 DEF HandshakeInv, FlagsInv
<1>4. AfterBoth'
  BY <1>1 DEF HandshakeInv, AfterBoth
<1>5. PageComes'
  <2>1. CASE page_ready' = TRUE
    BY <2>1 DEF PageComes
  <2>2. CASE Head(requests).call # "Page" /\ page_ready' = page_ready
    <3>1. PageSent => PageSent'
      BY <1>2, <2>2 DEF PageSent
    <3>2. PageNextCall => PageNextCall'
      BY <1>1 DEF PageNextCall
    <3>3. QED
      BY <1>1, <2>2, <3>1, <3>2 DEF HandshakeInv, PageComes
  <2>3. QED
    BY <1>1, <2>1, <2>2
<1>6. QED
  BY <1>3, <1>4, <1>5 DEF HandshakeInv

-----------------------------------------------------------------------------
(* The theorems.                                                           *)

LEMMA InitPageInv == PageInit => PageInv
BY InitSocket, InitHandshake DEF PageInv

LEMMA NextPageInv == PageInv /\ [PageNext]_pageVars => PageInv'
<1> SUFFICES ASSUME PageInv, [PageNext]_pageVars PROVE PageInv'
  OBVIOUS
<1>1. CASE PageEvent
  <2>1. CASE KeyEvent
    BY <1>1, <2>1, EventSocket, KeyHandshake DEF PageInv
  <2>2. CASE LoadThread \/ LoadChanged \/ ExtensionConnect \/ IdleRender
    BY <1>1, <2>2, EventSocket, HandshakeStep DEF PageInv
  <2>3. QED
    BY <1>1, <2>1, <2>2 DEF PageEvent, KeyEvent
<1>2. CASE Send
  BY <1>2, SendSocket, SendHandshake DEF PageInv
<1>3. CASE Acked
  BY <1>3, AckedSocket, AckedHandshake DEF PageInv
<1>4. CASE ExtHandle
  BY <1>4, ExtSocket, ExtHandshake DEF PageInv
<1>5. CASE UNCHANGED pageVars
  <2>1. UNCHANGED <<wk_loaded, connected, idle_render, ready, page_ready, drawn, todo,
                    waiting, requests, acks, surplus>>
    BY <1>5 DEF pageVars, loading, extension
  <2>2. SocketInv'
    BY <2>1 DEF PageInv, SocketInv, AckAccounting
  <2>3. FlagsInv' /\ AfterBoth'
    BY <2>1 DEF PageInv, HandshakeInv, FlagsInv, AfterBoth
  <2>4. PageComes'
    BY <2>1 DEF PageInv, HandshakeInv, PageComes, PageNextCall, PageSent
  <2>5. QED
    BY <2>2, <2>3, <2>4 DEF PageInv, HandshakeInv
<1>6. QED
  BY <1>1, <1>2, <1>3, <1>4, <1>5 DEF PageNext

LEMMA PageInvHolds == PageSpec => []PageInv
<1>1. QED
  BY InitPageInv, NextPageInv, PTL DEF PageSpec

\* While the GUI thread waits in send_message_sync a request or its
\* acknowledgement is on the socket, and only messages without content leave
\* acknowledgements behind.
THEOREM AcksCounted == PageSpec => []AckAccounting
<1>1. PageInv => AckAccounting
  BY DEF PageInv, SocketInv
<1>2. QED
  BY <1>1, PageInvHolds, PTL

\* The first message is drawn after the extension has been told which requests
\* of the page to allow, or while that is the next thing it will be told.
THEOREM PageFirst == PageSpec => []PageBeforeContent
<1>1. PageInv => PageBeforeContent
  <2> SUFFICES ASSUME PageInv, drawn # {}, ~page_ready
               PROVE  \/ idle_render \/ (todo # <<>> /\ Head(todo).call = "Page")
                      \/ \E i \in DOMAIN requests : requests[i].call = "Page"
    BY DEF PageBeforeContent
  <2>1. idle_render \/ PageNextCall \/ PageSent
    BY DEF PageInv, HandshakeInv, AfterBoth, PageComes
  <2>2. QED
    BY <2>1 DEF PageNextCall, PageSent, ToSet
<1>2. QED
  BY <1>1, PageInvHolds, PTL

-----------------------------------------------------------------------------
(* The messages of a thread and the elements of a message.                 *)

\* What can have the focus in a message.
Stops(m) == 0 .. Len(Elements[m]) - 1

\* The values of a function on a finite set have a bound.
LEMMA Bounded ==
  ASSUME NEW S, IsFiniteSet(S), NEW g \in [S -> Nat]
  PROVE  \E b \in Nat : \A x \in S : g[x] <= b
<1>1. PICK n \in Nat : ExistsBijection(1 .. n, S)
  BY FS_NatBijection
<1>2. PICK f : f \in Surjection(1 .. n, S)
  BY <1>1 DEF ExistsBijection, Bijection
<1>3. /\ \A i \in 1 .. n : f[i] \in S
      /\ \A x \in S : \E i \in 1 .. n : f[i] = x
  BY <1>2 DEF Surjection
<1> DEFINE Up(m, b) == \A i \in 1 .. m : g[f[i]] <= b
           T == {m \in 0 .. n : \E b \in Nat : Up(m, b)}
<1>4. 0 \in T
  <2>1. Up(0, 0)
    OBVIOUS
  <2> HIDE DEF Up
  <2>2. QED
    BY <2>1
<1>5. ASSUME NEW m \in 0 .. n - 1, m \in T PROVE m + 1 \in T
  <2>1. PICK b \in Nat : Up(m, b)
    BY <1>5
  <2>2. m + 1 \in 1 .. n
    OBVIOUS
  <2> DEFINE v == g[f[m + 1]]
             c == IF v <= b THEN b ELSE v
  <2>3. v \in Nat
    BY <1>3, <2>2
  <2>4. ASSUME NEW i \in 1 .. m + 1 PROVE g[f[i]] <= c
    <3>1. CASE i = m + 1
      <4> HIDE DEF v
      <4>1. v <= c
        BY <2>3
      <4>2. QED
        BY <3>1, <4>1 DEF v
    <3>2. CASE i # m + 1
      <4>1. i \in 1 .. m /\ i \in 1 .. n
        BY <3>2
      <4>2. g[f[i]] \in Nat /\ g[f[i]] <= b
        BY <1>3, <2>1, <4>1
      <4>3. b <= c /\ c \in Nat
        <5> HIDE DEF v
        <5>1. QED
          BY <2>3
      <4> HIDE DEF c
      <4>4. QED
        BY <4>2, <4>3
    <3>3. QED
      BY <3>1, <3>2
  <2>5. c \in Nat
    BY <2>3
  <2> HIDE DEF c
  <2>6. Up(m + 1, c)
    BY <2>4
  <2> HIDE DEF Up
  <2>7. m + 1 \in 0 .. n
    BY <2>2
  <2>8. QED
    BY <2>5, <2>6, <2>7
<1>6. n \in T
  <2> HIDE DEF T
  <2>1. \A m \in 0 .. n : m \in T
    BY <1>4, <1>5, StepByStep
  <2>2. n \in 0 .. n
    OBVIOUS
  <2>3. QED
    BY <2>1, <2>2
<1>7. PICK b \in Nat : \A i \in 1 .. n : g[f[i]] <= b
  BY <1>6
<1>8. QED
  BY <1>3, <1>7

\* The messages of a thread are numbers up to some number.
LEMMA MailBounded == \E b \in Nat : Mail \subseteq 0 .. b
<1> DEFINE g == [m \in Mail |-> m]
<1>1. IsFiniteSet(Mail) /\ Mail \subseteq Nat
  BY PageAssumption
<1>2. g \in [Mail -> Nat]
  BY <1>1
<1>3. PICK b \in Nat : \A m \in Mail : g[m] <= b
  <2> HIDE DEF g
  <2>1. QED
    BY <1>1, <1>2, Bounded
<1>4. \A m \in Mail : m \in 0 .. b
  BY <1>1, <1>3
<1>5. QED
  BY <1>4

\* The least and the greatest of a set of messages.
LEMMA MailEnds ==
  ASSUME NEW S \in SUBSET Mail, S # {}
  PROVE  Min(S) \in S /\ Max(S) \in S
<1>1. PICK b \in Nat : Mail \subseteq 0 .. b
  BY MailBounded
<1>2. S \in SUBSET Nat /\ S \in SUBSET (0 .. b)
  BY <1>1
<1>3. Max(S) \in S
  BY <1>2, MaxFacts
<1>4. Min(S) \in S
  BY <1>2, MinFacts
<1>5. QED
  BY <1>3, <1>4

\* The greatest and the least of the elements of a message.
LEMMA StopEnds ==
  ASSUME NEW m \in Mail, NEW S \in SUBSET Stops(m), S # {}
  PROVE  Min(S) \in S /\ Max(S) \in S
<1> DEFINE n == Len(Elements[m]) - 1
<1>1. Len(Elements[m]) \in Nat /\ Elements[m] # <<>>
  BY PageAssumption
<1>2. n \in Nat /\ Stops(m) = 0 .. n
  <2>1. Len(Elements[m]) # 0
    BY <1>1, PageAssumption
  <2>2. QED
    BY <1>1, <2>1 DEF Stops
<1> HIDE DEF n
<1>3. S \in SUBSET Nat /\ S \in SUBSET (0 .. n)
  BY <1>2
<1>4. Max(S) \in S
  BY <1>2, <1>3, MaxFacts
<1>5. Min(S) \in S
  BY <1>3, MinFacts
<1>6. QED
  BY <1>4, <1>5

\* The messages in order.
LEMMA ByThreadFacts ==
  /\ Cardinality(Mail) \in Nat \ {0} /\ DOMAIN ByThread = 1 .. Cardinality(Mail)
  /\ \A i \in DOMAIN ByThread : ByThread[i] \in Mail
  /\ \A m \in Mail : \E i \in DOMAIN ByThread : ByThread[i] = m
<1> DEFINE c == Cardinality(Mail)
           B(i) == {n \in Mail : n <= i}
           Kth(k) == CHOOSE m \in Mail : Cardinality(B(m)) = k
<1>1. IsFiniteSet(Mail) /\ Mail \subseteq Nat /\ Mail # {}
  BY PageAssumption
<1>2. c \in Nat \ {0}
  BY <1>1, FS_CardinalityType, FS_EmptySet
<1>3. ByThread = [i \in 1 .. c |-> Kth(i)]
  BY DEF ByThread
<1>4. \A k \in 1 .. c : Kth(k) \in Mail /\ Cardinality(B(Kth(k))) = k
  <2> TAKE k \in 1 .. c
  <2>1. \E m \in Mail : Cardinality(B(m)) = k
    <3>1. PICK b \in Nat : Mail \subseteq 0 .. b
      BY MailBounded
    <3>2. Mail \in SUBSET (0 .. b)
      BY <3>1
    <3>3. QED
      BY <3>2, Ranks
  <2> HIDE DEF B
  <2>2. QED
    BY <2>1
<1>5. \A i \in Mail : IsFiniteSet(B(i)) /\ Cardinality(B(i)) \in 1 .. c
  <2> TAKE i \in Mail
  <2>1. B(i) \subseteq Mail /\ i \in B(i)
    BY <1>1
  <2> HIDE DEF B
  <2>2. IsFiniteSet(B(i)) /\ Cardinality(B(i)) <= c
    BY <1>1, <2>1, FS_Subset
  <2>3. Cardinality(B(i)) \in Nat /\ Cardinality(B(i)) # 0
    BY <2>1, <2>2, FS_CardinalityType, FS_EmptySet
  <2>4. QED
    BY <1>2, <2>2, <2>3
<1>6. ASSUME NEW x \in Mail, NEW y \in Mail, x < y
      PROVE  Cardinality(B(x)) # Cardinality(B(y))
  <2>1. x \in Nat /\ y \in Nat /\ \A m \in Mail : m \in Nat
    BY <1>1
  <2>2. y \in B(y) /\ y \notin B(x)
    BY <1>6, <2>1
  <2>3. ASSUME NEW m \in Mail, m <= x PROVE m <= y
    BY <1>6, <2>1, <2>3
  <2>4. B(x) \subseteq B(y)
    BY <2>3
  <2> HIDE DEF B
  <2>5. QED
    BY <1>5, <2>2, <2>4, FS_Subset
<1>7. ASSUME NEW m \in Mail PROVE \E i \in 1 .. c : Kth(i) = m
  <2> DEFINE k == Cardinality(B(m))
  <2>1. k \in 1 .. c
    BY <1>5
  <2>2. Kth(k) \in Mail /\ Cardinality(B(Kth(k))) = k
    BY <1>4, <2>1
  <2>3. Kth(k) = m
    <3> DEFINE x == Kth(k)
    <3>1. x \in Mail /\ Cardinality(B(x)) = Cardinality(B(m)) /\ x \in Nat /\ m \in Nat
      BY <1>1, <2>2
    <3> HIDE DEF x, B
    <3>2. x = m
      BY <1>6, <3>1
    <3>3. QED
      BY <3>2 DEF x
  <2> HIDE DEF Kth, k
  <2>4. QED
    BY <2>1, <2>3
<1>8. QED
  <2> HIDE DEF c, Kth
  <2>1. DOMAIN ByThread = 1 .. c /\ \A i \in 1 .. c : ByThread[i] = Kth(i)
    BY <1>3
  <2>2. QED
    BY <1>2, <1>4, <1>7, <2>1 DEF c

\* What is in a sequence of sequences is in one of them.
LEMMA FlattenFacts ==
  ASSUME NEW D, NEW n \in Nat \ {0}, NEW f \in [1 .. n -> Seq(D)]
  PROVE  /\ FlattenSeq(f) \in Seq(D)
         /\ \A i \in 1 .. n : ToSet(f[i]) \subseteq ToSet(FlattenSeq(f))
<1> DEFINE V == Seq(D)
           go(g) == [i \in 1 .. n |-> IF i = 1 THEN f[i] ELSE g[i - 1] \o f[i]]
           flat == CHOOSE g : g = go(g)
           step == [p \in (1 .. n) \X V |-> p[2] \o f[p[1]]]
<1>1. f \in Seq(V) /\ Len(f) = n
  <2> HIDE DEF V
  <2>1. QED
    BY DEF V
<1>2. FlattenSeq(f) = flat[n]
  <2>1. Len(f) # 0 /\ Len(f) = n
    BY <1>1
  <2>2. QED
    BY <2>1 DEF FlattenSeq
<1>3. \A v, w \in V : v \o w \in V
  OBVIOUS
<1>4. StepOver(step, 1, n, V)
  <2>1. \A p \in (1 .. n) \X V : p[2] \in V /\ f[p[1]] \in V
    OBVIOUS
  <2> HIDE DEF V
  <2>2. QED
    BY <1>3, <2>1 DEF StepOver
<1>5. \A i \in 1 .. n, v \in V : step[<<i, v>>] = v \o f[i]
  <2> HIDE DEF V
  <2>1. QED
    OBVIOUS
<1>6. PICK g : RunsIn(g, V, 1, n, f[1], step)
  <2>1. f[1] \in V /\ 1 \in Nat /\ n \in Nat /\ 1 <= n
    OBVIOUS
  <2> HIDE DEF V, step
  <2>2. QED
    BY <1>4, <2>1, RecursionExists
<1>7. g = go(g)
  <2>1. /\ g = [i \in 1 .. n |-> g[i]] /\ g[1] = f[1] /\ g \in [1 .. n -> V]
        /\ \A i \in 2 .. n : g[i] = step[<<i, g[i - 1]>>]
    <3>1. 1 + 1 .. n = 2 .. n
      OBVIOUS
    <3> HIDE DEF V, step
    <3>2. g \in [1 .. n -> V] /\ GoesBy(g, 1, n, f[1], step)
      BY <1>6 DEF RunsIn
    <3>3. QED
      BY <3>1, <3>2 DEF GoesBy
  <2>2. \A i \in 2 .. n : g[i] = g[i - 1] \o f[i]
    <3> TAKE i \in 2 .. n
    <3>1. i \in 1 .. n /\ i - 1 \in 1 .. n
      OBVIOUS
    <3> HIDE DEF V, step
    <3>2. g[i - 1] \in V
      BY <2>1, <3>1
    <3>3. QED
      BY <1>5, <2>1, <3>1, <3>2
  <2>3. \A i \in 1 .. n : g[i] = IF i = 1 THEN f[i] ELSE g[i - 1] \o f[i]
    <3> TAKE i \in 1 .. n
    <3>1. i = 1 \/ i \in 2 .. n
      OBVIOUS
    <3>2. QED
      BY <2>1, <2>2, <3>1
  <2>4. QED
    <3>1. go(g) = [i \in 1 .. n |-> IF i = 1 THEN f[i] ELSE g[i - 1] \o f[i]]
      OBVIOUS
    <3> HIDE DEF go, V, step
    <3>2. QED
      BY <2>1, <2>3, <3>1
<1>8. flat = go(flat)
  <2> HIDE DEF go
  <2>1. QED
    BY <1>7
<1>9. \A i \in 1 .. n : flat[i] = IF i = 1 THEN f[i] ELSE flat[i - 1] \o f[i]
  <2>1. \A i \in 1 .. n : go(flat)[i] = IF i = 1 THEN f[i] ELSE flat[i - 1] \o f[i]
    <3> HIDE DEF flat
    <3>1. QED
      BY DEF go
  <2> HIDE DEF flat, go
  <2>2. QED
    BY <1>8, <2>1
<1> DEFINE Flat(m) == flat[m] \in Seq(D) /\ \A i \in 1 .. m : ToSet(f[i]) \subseteq ToSet(flat[m])
           T == {m \in 0 .. n : m = 0 \/ Flat(m)}
<1>10. \A v, w \in V : /\ v \o w \in V /\ ToSet(v) \subseteq ToSet(v \o w)
                       /\ ToSet(w) \subseteq ToSet(v \o w)
  <2> TAKE v \in V, w \in V
  <2>1. v \in Seq(D) /\ w \in Seq(D)
    OBVIOUS
  <2>2. /\ v \o w \in Seq(D) /\ Len(v) \in Nat /\ Len(w) \in Nat
        /\ DOMAIN v = 1 .. Len(v) /\ DOMAIN w = 1 .. Len(w)
        /\ DOMAIN (v \o w) = 1 .. Len(v) + Len(w)
        /\ \A i \in 1 .. Len(v) : (v \o w)[i] = v[i]
        /\ \A i \in 1 .. Len(w) : (v \o w)[Len(v) + i] = w[i]
    BY <2>1
  <2>3. ASSUME NEW i \in 1 .. Len(v) PROVE v[i] \in ToSet(v \o w)
    <3>1. i \in DOMAIN (v \o w) /\ (v \o w)[i] = v[i]
      BY <2>2
    <3>2. QED
      BY <3>1 DEF ToSet
  <2>4. ASSUME NEW i \in 1 .. Len(w) PROVE w[i] \in ToSet(v \o w)
    <3>1. Len(v) + i \in DOMAIN (v \o w) /\ (v \o w)[Len(v) + i] = w[i]
      BY <2>2
    <3>2. QED
      BY <3>1 DEF ToSet
  <2>5. QED
    BY <2>2, <2>3, <2>4 DEF ToSet
<1>11. ASSUME NEW m \in 0 .. n - 1, m \in T PROVE m + 1 \in T
  <2>1. m + 1 \in 1 .. n /\ (m + 1) - 1 = m /\ (m # 0 => m + 1 # 1)
    OBVIOUS
  <2>0. flat[m + 1] = IF m + 1 = 1 THEN f[m + 1] ELSE flat[(m + 1) - 1] \o f[m + 1]
    <3> HIDE DEF flat
    <3>1. QED
      BY <1>9, <2>1
  <2>2. CASE m = 0
    <3>1. flat[1] = f[1] /\ f[1] \in Seq(D) /\ 1 \in 0 .. n
      <4> HIDE DEF flat
      <4>1. m + 1 = 1 /\ f[m + 1] \in Seq(D)
        BY <2>1, <2>2
      <4>2. QED
        BY <2>0, <2>1, <4>1
    <3>2. \A i \in 1 .. 1 : i = 1
      OBVIOUS
    <3> HIDE DEF flat
    <3>3. Flat(1)
      BY <3>1, <3>2
    <3>4. QED
      BY <2>2, <3>1, <3>3
  <2>3. CASE m # 0
    <3> DEFINE v == flat[m]
               w == f[m + 1]
    <3>1. Flat(m)
      BY <1>11, <2>3
    <3>2. flat[m + 1] = v \o w
      <4> HIDE DEF flat
      <4>1. QED
        BY <2>0, <2>1, <2>3
    <3>3. v \in V /\ w \in V
      BY <2>1, <3>1
    <3>4. v \o w \in Seq(D) /\ ToSet(v) \subseteq ToSet(v \o w) /\ ToSet(w) \subseteq ToSet(v \o w)
      <4> HIDE DEF v, w
      <4>1. QED
        BY <1>10, <3>3
    <3>5. \A i \in 1 .. m + 1 : i \in 1 .. m \/ i = m + 1
      BY <2>1
    <3>6. \A i \in 1 .. m : ToSet(f[i]) \subseteq ToSet(v)
      BY <3>1
    <3> HIDE DEF v, V, flat
    <3>7. \A i \in 1 .. m + 1 : ToSet(f[i]) \subseteq ToSet(v \o w)
      BY <3>4, <3>5, <3>6
    <3>8. Flat(m + 1)
      BY <3>2, <3>4, <3>7
    <3>9. QED
      BY <2>1, <3>8
  <2>4. QED
    BY <2>2, <2>3
<1>12. n \in T
  <2>1. 0 \in T
    OBVIOUS
  <2> HIDE DEF T
  <2>2. \A m \in 0 .. n : m \in T
    BY <1>11, <2>1, StepByStep
  <2>3. QED
    BY <2>2
<1>13. Flat(n)
  BY <1>12
<1>14. QED
  <2> HIDE DEF flat
  <2>1. QED
    BY <1>2, <1>13

-----------------------------------------------------------------------------
(* The page as the requests on their way will leave it.                    *)

PageNow ==
  [drawn |-> drawn, hidden |-> hidden, marks |-> shown_marks, tags |-> shown_tags,
   parts |-> shown_parts, state |-> ext_state]

\* What a request makes of a page.
Fresh(r) == r.call \in {"Page", "ClearMessages"}
With(S, m, yes) == IF yes THEN S \cup {m} ELSE S \ {m}
After(x, r) ==
  [drawn  |-> IF Fresh(r) THEN {} ELSE IF r.call = "AddMessage" THEN x.drawn \cup {r.mid} ELSE x.drawn,
   hidden |-> IF Fresh(r) THEN {}
              ELSE IF r.call \in Showing \cup Hiding THEN With(x.hidden, r.mid, r.call \in Hiding)
              ELSE x.hidden,
   marks  |-> IF Fresh(r) THEN {}
              ELSE IF r.call = "Mark" THEN With(x.marks, r.mid, r.data)
              ELSE IF r.call = "UpdateParts" THEN x.marks \ {r.mid} ELSE x.marks,
   tags   |-> IF r.call \in {"AddMessage", "UpdateParts", "UpdateTags"}
              THEN With(x.tags, r.mid, r.data.unread) ELSE x.tags,
   parts  |-> IF r.call \in {"AddMessage", "UpdateParts"}
              THEN [x.parts EXCEPT ![r.mid] = r.data.parts] ELSE x.parts,
   state  |-> IF r.call = "ClearMessages" THEN <<>>
              ELSE IF r.call = "State" THEN r.data ELSE x.state]

\* The requests in q, one after the other, make y of x.
Leads(q, x, y) ==
  \E h : /\ h = [i \in 0 .. Len(q) |-> h[i]] /\ h[0] = x /\ h[Len(q)] = y
         /\ \A i \in 1 .. Len(q) : h[i] = After(h[i - 1], q[i])

LEMMA LeadsEmpty ==
  ASSUME NEW x, NEW y
  PROVE  Leads(<<>>, x, y) <=> x = y
<1>1. Len(<<>>) = 0
  OBVIOUS
<1>2. Leads(<<>>, x, y) => x = y
  BY <1>1 DEF Leads
<1>3. ASSUME x = y PROVE Leads(<<>>, x, y)
  <2> DEFINE h == [i \in 0 .. 0 |-> x]
  <2>1. h = [i \in 0 .. 0 |-> h[i]] /\ h[0] = x /\ \A i \in 1 .. 0 : h[i] = After(h[i - 1], <<>>[i])
    OBVIOUS
  <2> HIDE DEF h
  <2>2. QED
    BY <1>1, <1>3, <2>1 DEF Leads
<1>4. QED
  BY <1>2, <1>3

LEMMA LeadsAppend ==
  ASSUME NEW q, IsQueue(q), NEW x, NEW y, NEW r, Leads(q, x, y)
  PROVE  Leads(Append(q, r), x, After(y, r))
<1> DEFINE n == Len(q)
           p == Append(q, r)
<1>1. n \in Nat /\ Len(p) = n + 1
  BY QueueAppend
<1>2. (\A i \in 1 .. n : p[i] = q[i]) /\ p[n + 1] = r
  BY DEF IsQueue
<1>3. PICK h : /\ h = [i \in 0 .. n |-> h[i]] /\ h[0] = x /\ h[n] = y
               /\ \A i \in 1 .. n : h[i] = After(h[i - 1], q[i])
  BY DEF Leads
<1> HIDE DEF n, p
<1> DEFINE z == After(y, r)
           k == [i \in 0 .. n + 1 |-> IF i = n + 1 THEN z ELSE h[i]]
<1>4. ASSUME NEW i \in 1 .. n + 1 PROVE k[i] = After(k[i - 1], p[i])
  <2> HIDE DEF z
  <2>1. CASE i = n + 1
    <3>1. k[i] = z /\ k[i - 1] = y
      BY <1>1, <1>3, <2>1
    <3>2. QED
      BY <1>2, <2>1, <3>1 DEF z
  <2>2. CASE i # n + 1
    <3>1. i \in 1 .. n /\ i \in 0 .. n + 1 /\ i - 1 \in 0 .. n + 1 /\ i - 1 # n + 1
      BY <1>1, <2>2
    <3>2. k[i] = h[i] /\ k[i - 1] = h[i - 1]
      BY <2>2, <3>1
    <3> HIDE DEF k
    <3>3. QED
      BY <1>2, <1>3, <3>1, <3>2
  <2>3. QED
    BY <2>1, <2>2
<1>5. k = [i \in 0 .. n + 1 |-> k[i]] /\ k[0] = x /\ k[n + 1] = z
  <2> HIDE DEF z
  <2>1. QED
    BY <1>1, <1>3
<1>6. QED
  <2> HIDE DEF k
  <2>1. QED
    BY <1>1, <1>4, <1>5 DEF Leads, p

LEMMA LeadsTail ==
  ASSUME NEW q, IsQueue(q), q # <<>>, NEW x, NEW y, Leads(q, x, y)
  PROVE  Leads(Tail(q), After(x, Head(q)), y)
<1> DEFINE n == Len(q)
           p == Tail(q)
           z == After(x, Head(q))
<1>1. n \in Nat \ {0} /\ Len(p) = n - 1
  BY QueueTail
<1>2. (\A i \in 1 .. n - 1 : p[i] = q[i + 1]) /\ Head(q) = q[1]
  BY DEF IsQueue
<1>3. PICK h : /\ h = [i \in 0 .. n |-> h[i]] /\ h[0] = x /\ h[n] = y
               /\ \A i \in 1 .. n : h[i] = After(h[i - 1], q[i])
  BY DEF Leads
<1>4. h[1] = z
  <2>1. 1 \in 1 .. n /\ 1 - 1 = 0
    BY <1>1
  <2>2. QED
    BY <1>2, <1>3, <2>1
<1> HIDE DEF n, p, z
<1> DEFINE k == [i \in 0 .. n - 1 |-> h[i + 1]]
<1>5. ASSUME NEW i \in 1 .. n - 1 PROVE k[i] = After(k[i - 1], p[i])
  <2>1. i \in 0 .. n - 1 /\ i - 1 \in 0 .. n - 1 /\ i + 1 \in 1 .. n /\ (i + 1) - 1 = i /\ (i - 1) + 1 = i
    BY <1>1
  <2>2. k[i] = h[i + 1] /\ k[i - 1] = h[i]
    BY <2>1
  <2> HIDE DEF k
  <2>3. QED
    BY <1>2, <1>3, <2>1, <2>2
<1>6. k = [i \in 0 .. n - 1 |-> k[i]] /\ k[0] = z /\ k[n - 1] = y
  <2>1. 0 \in 0 .. n - 1 /\ n - 1 \in 0 .. n - 1 /\ (n - 1) + 1 = n /\ 0 + 1 = 1
    BY <1>1
  <2>2. QED
    BY <1>3, <1>4, <2>1
<1>7. QED
  <2> HIDE DEF k
  <2>1. QED
    BY <1>1, <1>5, <1>6 DEF Leads, p, z

-----------------------------------------------------------------------------
(* What the handlers of the program leave to be done, and what the page    *)
(* will show then.                                                         *)

Clear == Call("ClearMessages", NoMail)
StateCall == Call("State", NoMail)

\* Calls on a message name one.
OnMail == {"AddMessage", "Shown", "ShownFocused", "Hidden", "HiddenScrolled", "Warning",
           "Mark", "UpdateParts", "UpdateTags", "Focus", "Ready"}
Calls == {c \in [call : Request, mid : Mail \cup {NoMail}] : c.call \in OnMail => c.mid \in Mail}

\* The calls of the handlers.  Rendering: the page is set up, cleared, each
\* message drawn, and then it gets the state and the first focus.
DrawCalls == {c \in Calls : c.call \in {"AddMessage", "ShownFocused", "Hidden", "Warning"}}
Draws(s) ==
  /\ s # <<>>
  /\ \A i \in 1 .. Len(s) : /\ i = Len(s) => s[i] = Call("Last", NoMail)
                            /\ i = Len(s) - 1 => s[i] = StateCall
                            /\ i < Len(s) - 1 => s[i] \in DrawCalls
Clears(s) ==
  /\ s # <<>> /\ Head(s) = Clear /\ Draws(Tail(s))
  /\ \A m \in Mail : Call("AddMessage", m) \in ToSet(Tail(s))
SetsUp(s) == s # <<>> /\ Head(s) = Call("Page", NoMail) /\ Clears(Tail(s))
Finishes(s) ==
  \E f \in Mail : s = <<Call("Shown", f), Call("Ready", f)>> \/ s = <<Call("Ready", f)>>

\* Keys, other than the one that exchanges parts, and changes of tags.
PlainCalls == {"Shown", "ShownScrolled", "Hidden", "HiddenScrolled", "Mark", "Images"} \cup
              (Navigation \ {"Ready"})
Plain(s) == \A c \in ToSet(s) : c.call \in PlainCalls
Tells(s) == \E m \in Mail : s = <<Call("UpdateTags", m), StateCall>> \/ s = <<StateCall>>
Swap(m) == <<Call("UpdateParts", m)>>
Swaps(s) == \E m \in Mail : s = <<StateCall, Call("UpdateParts", m)>> \/ s = Swap(m)

\* What is still to be sent, and the messages that are open to the program
\* when the call under way has returned.
unsent == IF waiting THEN Tail(todo) ELSE todo
ToCome(c) == c \in ToSet(unsent)
clearing == Clear \in ToSet(todo)
open == IF waiting /\ Head(todo).call \in Hiding THEN expanded \ {Head(todo).mid} ELSE expanded

\* The parts of a message that cannot have the focus, and one of its
\* alternatives is of them.
Fitting(m) == {e \in 1 .. Len(Elements[m]) - 1 : Type(m, e) = "Part" /\ e \notin focusable[m]}
OneShown(m) ==
  Alternatives[m] # {} => \E e \in Alternatives[m] : Alternatives[m] \ focusable[m] = {e}

\* The page x shows what the program has, but for what is to be sent.
DrawnRight(x) == ToCome(Clear) \/ \A m \in Mail : m \in x.drawn \/ ToCome(Call("AddMessage", m))
HiddenRight(x) == clearing \/ x.hidden = Mail \ open
MarksRight(x) ==
  clearing \/ \A m \in Mail : \/ ToCome(Call("Mark", m))
                              \/ /\ m \in x.marks => m \in marked
                                 /\ m \in marked => m \in x.marks \cup redrawn
TagsRight(x) ==
  \A m \in Mail : \/ ToCome(Call("AddMessage", m)) \/ ToCome(Call("UpdateTags", m))
                  \/ (m \in x.tags <=> m \in unread)
PartsRight(x) ==
  \A m \in Mail : \/ m \in missing \/ ToCome(Call("AddMessage", m))
                  \/ OneShown(m) /\ (ToCome(Call("UpdateParts", m)) \/ x.parts[m] = Fitting(m))
StateRight(x) == ToCome(StateCall) \/ x.state = focusable
\* When it is cleared nothing of it is left; a message whose parts are to be
\* exchanged is one that loses its mark.
Cleared(x) == waiting /\ Head(todo) = Clear => x.hidden = {} /\ x.marks = {}
RedrawnRight == \A m \in Mail : ToCome(Call("UpdateParts", m)) => m \in redrawn

PageRight(x) ==
  /\ DrawnRight(x) /\ HiddenRight(x) /\ MarksRight(x) /\ TagsRight(x) /\ PartsRight(x)
  /\ StateRight(x) /\ Cleared(x) /\ RedrawnRight

\* A page of the messages of the thread.
PageType(x) ==
  /\ {x.drawn, x.hidden, x.marks, x.tags} \subseteq SUBSET Mail
  /\ x.parts = [m \in Mail |-> x.parts[m]]

ShowsRight ==
  \E y : Leads(requests, PageNow, y) /\ PageType(y) /\ (ready \/ todo # <<>> => PageRight(y))

-----------------------------------------------------------------------------
(* The focus.                                                              *)

synced == surplus = 0
AckOfNow == acks # <<>> => Head(acks) = ext_focus

\* The extension handles what the program waits for.
RequestOfNow ==
  requests # <<>> =>
    /\ Head(requests).call = Head(todo).call
    /\ Head(todo).call # "ShownScrolled" => Head(requests).mid = Head(todo).mid
Wire == synced => AckOfNow /\ RequestOfNow

NoFocus == ext_focus[1] = NoMail
FocusKnown == ext_focus = <<focused_message, current_element[focused_message]>>
FocusFits == ext_focus[2] \in {0} \cup focusable[ext_focus[1]]

Resting == todo = <<>> /\ ~ready
Clearing == Clears(todo) /\ (synced /\ acks # <<>> => NoFocus)
Drawing == Draws(todo) /\ (synced => NoFocus)
Finishing ==
  /\ Finishes(todo) /\ focused_message \in Mail
  /\ synced => IF acks # <<>> /\ Head(todo).call = "Ready"
               THEN ext_focus = <<Head(todo).mid, 0>> ELSE NoFocus
Steady ==
  /\ ready /\ focused_message \in Mail
  /\ Plain(todo) \/ Tells(todo) \/ Swaps(todo)
  /\ synced => /\ ext_focus[1] \in Mail
               /\ acks = <<>> => FocusKnown
               /\ FocusFits \/ (Swaps(todo) /\ (Len(todo) = 2 \/ acks = <<>>))
Stage == Resting \/ SetsUp(todo) \/ Clearing \/ Drawing \/ Finishing \/ Steady

-----------------------------------------------------------------------------
(* Types.                                                                  *)

Stop == {f \in [Mail -> SUBSET Nat] : \A m \in Mail : f[m] \subseteq Stops(m)}
RequestType(r) ==
  /\ r.call \in Request
  /\ r.call \in OnMail \cup {"ShownScrolled"} => r.mid \in Mail
  /\ r.call = "State" => r.data \in Stop
StateTypes ==
  /\ {unread, missing, expanded, marked, redrawn} \subseteq SUBSET Mail
  /\ focusable \in Stop /\ current_element = [m \in Mail |-> current_element[m]]
  /\ focused_message \in Mail \cup {NoMail}
SocketTypes ==
  /\ todo \in Seq(Calls) /\ (waiting => todo # <<>>)
  /\ \A r \in ToSet(requests) : RequestType(r)
  /\ \A a \in ToSet(acks) : a[1] \in Mail \cup {NoMail}
  /\ ext_focus = <<ext_focus[1], ext_focus[2]>> /\ ext_focus[1] \in Mail \cup {NoMail}

\* The inductive invariant.
ViewInv == SocketInv /\ StateTypes /\ SocketTypes /\ ShowsRight /\ Wire /\ Stage

-----------------------------------------------------------------------------
(* The calls of a handler, one after the other.                            *)

LEMMA DrawsFacts ==
  ASSUME NEW s \in Seq(Calls), Draws(s)
  PROVE  /\ \A c \in ToSet(s) : c \in DrawCalls \/ c = StateCall \/ c = Call("Last", NoMail)
         /\ \/ Head(s) = Call("Last", NoMail) /\ Tail(s) = <<>>
            \/ Head(s) = StateCall /\ Draws(Tail(s))
            \/ Head(s) \in DrawCalls /\ Draws(Tail(s)) /\ StateCall \in ToSet(Tail(s))
<1> DEFINE n == Len(s)
           t == Tail(s)
<1>1. /\ n \in Nat \ {0} /\ DOMAIN s = 1 .. n /\ Head(s) = s[1]
      /\ t \in Seq(Calls) /\ Len(t) = n - 1 /\ DOMAIN t = 1 .. n - 1
      /\ \A i \in 1 .. n - 1 : t[i] = s[i + 1]
  <2>1. s # <<>>
    BY DEF Draws
  <2>2. QED
    BY <2>1
<1>2. \A i \in 1 .. n : /\ i = n => s[i] = Call("Last", NoMail)
                        /\ i = n - 1 => s[i] = StateCall
                        /\ i < n - 1 => s[i] \in DrawCalls
  BY DEF Draws
<1> HIDE DEF n, t
<1>3. \A i \in 1 .. n : i = n \/ i = n - 1 \/ i < n - 1
  BY <1>1
<1>4. \A i \in 1 .. n : s[i] \in DrawCalls \/ s[i] = StateCall \/ s[i] = Call("Last", NoMail)
  BY <1>2, <1>3
<1>5. \A c \in ToSet(s) : c \in DrawCalls \/ c = StateCall \/ c = Call("Last", NoMail)
  BY <1>1, <1>4 DEF ToSet
<1>6. CASE n = 1
  <2>1. Head(s) = Call("Last", NoMail)
    BY <1>1, <1>2, <1>6
  <2>2. t = <<>>
    BY <1>1, <1>6
  <2>3. QED
    BY <1>5, <2>1, <2>2 DEF t
<1>7. CASE n # 1
  <2>1. Draws(t)
    <3>1. t # <<>>
      BY <1>1, <1>7
    <3>2. ASSUME NEW i \in 1 .. n - 1
          PROVE  /\ i = n - 1 => t[i] = Call("Last", NoMail)
                 /\ i = (n - 1) - 1 => t[i] = StateCall
                 /\ i < (n - 1) - 1 => t[i] \in DrawCalls
      <4>1. i + 1 \in 1 .. n /\ t[i] = s[i + 1]
        BY <1>1
      <4>2. /\ i = n - 1 => i + 1 = n
            /\ i = (n - 1) - 1 => i + 1 = n - 1
            /\ i < (n - 1) - 1 => i + 1 < n - 1
        BY <1>1
      <4>3. QED
        BY <1>2, <4>1, <4>2
    <3>3. QED
      BY <1>1, <3>1, <3>2 DEF Draws
  <2>2. n = 2 => Head(s) = StateCall
    BY <1>1, <1>2
  <2>3. n # 2 => Head(s) \in DrawCalls /\ StateCall \in ToSet(t)
    <3>1. CASE n # 2
      <4>1. 1 \in 1 .. n /\ 1 < n - 1 /\ n - 2 \in 1 .. n - 1 /\ (n - 2) + 1 = n - 1 /\ n - 1 \in 1 .. n
        BY <1>1, <1>7, <3>1
      <4>2. s[1] \in DrawCalls /\ t[n - 2] = StateCall
        BY <1>1, <1>2, <4>1
      <4>3. QED
        BY <1>1, <4>1, <4>2 DEF ToSet
    <3>2. QED
      BY <3>1
  <2>4. QED
    BY <1>5, <2>1, <2>2, <2>3 DEF t
<1>8. QED
  BY <1>6, <1>7

\* A message is drawn before the state is sent.
LEMMA DrawsState ==
  ASSUME NEW s \in Seq(Calls), Draws(s), NEW m, Call("AddMessage", m) \in ToSet(s)
  PROVE  StateCall \in ToSet(s)
<1>1. /\ ToSet(s) = {Head(s)} \cup ToSet(Tail(s))
      /\ Tail(s) \in Seq(Calls)
  BY TailFacts DEF Draws
<1>2. Call("AddMessage", m) # Call("Last", NoMail)
  BY DEF Call
<1>3. ToSet(<<>>) = {}
  BY DEF ToSet
<1>4. Head(s) # Call("Last", NoMail) \/ Tail(s) # <<>>
  BY <1>1, <1>2, <1>3
<1>5. CASE Head(s) = StateCall
  BY <1>1, <1>5
<1>6. CASE StateCall \in ToSet(Tail(s))
  BY <1>1, <1>6
<1>7. QED
  BY <1>4, <1>5, <1>6, DrawsFacts

\* The calls that render the thread.
LEMMA RenderFacts ==
  /\ RenderCalls \in Seq(Calls) /\ Clears(RenderCalls)
  /\ <<Call("Page", NoMail)>> \o RenderCalls \in Seq(Calls)
  /\ SetsUp(<<Call("Page", NoMail)>> \o RenderCalls)
<1> DEFINE c == Cardinality(Mail)
           each == [i \in DOMAIN ByThread |-> AddOne(ByThread[i])]
           F == FlattenSeq(each)
           L == Call("Last", NoMail)
           s == RenderCalls
           P == Call("Page", NoMail)
<1>1. c \in Nat \ {0} /\ DOMAIN ByThread = 1 .. c
  BY ByThreadFacts
<1>2. ASSUME NEW m \in Mail
      PROVE  AddOne(m) \in Seq(DrawCalls) /\ Call("AddMessage", m) \in ToSet(AddOne(m))
  <2> DEFINE a == Call("AddMessage", m)
             x == IF edit_mode THEN <<>>
                  ELSE IF m \in unread' \cup Flagged THEN <<Call("ShownFocused", m)>>
                  ELSE <<Call("Hidden", m)>>
             w == IF m \in Draft /\ ~edit_mode THEN <<Call("Warning", m)>> ELSE <<>>
  <2>1. /\ a \in DrawCalls /\ Call("ShownFocused", m) \in DrawCalls
        /\ Call("Hidden", m) \in DrawCalls /\ Call("Warning", m) \in DrawCalls
    BY DEF Call, DrawCalls, Calls, Request, Showing, Hiding
  <2>2. x \in Seq(DrawCalls) /\ w \in Seq(DrawCalls)
    <3> HIDE DEF a
    <3>1. QED
      BY <2>1
  <2>3. AddOne(m) = (<<a>> \o x) \o w
    BY DEF AddOne
  <2> HIDE DEF a, x, w
  <2>4. AddOne(m) \in Seq(DrawCalls) /\ 1 \in DOMAIN AddOne(m) /\ AddOne(m)[1] = a
    BY <2>1, <2>2, <2>3
  <2>5. a \in ToSet(AddOne(m))
    BY <2>4 DEF ToSet
  <2>6. QED
    BY <2>4, <2>5 DEF a
<1>3. each \in [1 .. c -> Seq(DrawCalls)]
  BY <1>1, <1>2, ByThreadFacts
<1>4. F \in Seq(DrawCalls) /\ \A i \in 1 .. c : ToSet(each[i]) \subseteq ToSet(F)
  <2> HIDE DEF c, each
  <2>1. QED
    BY <1>1, <1>3, FlattenFacts
<1>5. ASSUME NEW m \in Mail PROVE Call("AddMessage", m) \in ToSet(F)
  <2>1. PICK i \in DOMAIN ByThread : ByThread[i] = m
    BY ByThreadFacts
  <2>2. each[i] = AddOne(m) /\ i \in 1 .. c
    BY <1>1, <2>1
  <2> HIDE DEF F, each, c
  <2>3. QED
    BY <1>2, <1>4, <2>2
<1>6. s = (<<Clear>> \o F) \o <<StateCall, L>>
  BY DEF RenderCalls, Clear, StateCall
<1>7. /\ Clear \in Calls /\ StateCall \in Calls /\ L \in Calls /\ P \in Calls
      /\ DrawCalls \subseteq Calls
  BY DEF Clear, StateCall, Call, Calls, DrawCalls, OnMail, Request, Showing, Hiding
<1>8. F \in Seq(Calls)
  <2> HIDE DEF F
  <2>1. QED
    BY <1>4, <1>7, SeqMonotonic
<1> DEFINE n == Len(F)
           t == Tail(s)
<1> HIDE DEF F, L, P, s, t, n
<1>9. /\ n \in Nat /\ s \in Seq(Calls) /\ s # <<>> /\ Head(s) = Clear
      /\ t \in Seq(Calls) /\ Len(t) = n + 2 /\ DOMAIN t = 1 .. n + 2
      /\ \A i \in 1 .. n : t[i] = F[i]
      /\ t[n + 1] = StateCall /\ t[n + 2] = L
  <2> DEFINE u == F \o <<StateCall, L>>
  <2>1. u \in Seq(Calls) /\ Len(u) = n + 2 /\ n \in Nat /\ DOMAIN u = 1 .. n + 2
    BY <1>7, <1>8 DEF n
  <2>2. u[n + 1] = StateCall /\ u[n + 2] = L /\ \A i \in 1 .. n : u[i] = F[i]
    BY <1>7, <1>8 DEF n
  <2>3. s = <<Clear>> \o u
    BY <1>6, <1>7, <1>8
  <2> HIDE DEF u
  <2>4. s \in Seq(Calls) /\ s # <<>> /\ Head(s) = Clear
    BY <1>7, <2>1, <2>3
  <2>5. Tail(s) = u
    BY <1>7, <2>1, <2>3
  <2>6. QED
    BY <2>1, <2>2, <2>4, <2>5 DEF t
<1>10. Draws(t)
  <2>1. t # <<>>
    BY <1>9
  <2>2. \A i \in 1 .. n + 2 : /\ i = n + 2 => t[i] = L
                              /\ i = (n + 2) - 1 => t[i] = StateCall
                              /\ i < (n + 2) - 1 => t[i] \in DrawCalls
    <3>1. \A i \in 1 .. n : F[i] \in DrawCalls
      BY <1>4 DEF n
    <3>2. QED
      BY <1>9, <3>1
  <2>3. QED
    BY <1>9, <2>1, <2>2 DEF Draws, L
<1>11. ToSet(F) \subseteq ToSet(t)
  <2>1. DOMAIN F = 1 .. n /\ \A i \in 1 .. n : i \in DOMAIN t
    BY <1>8, <1>9 DEF n
  <2>2. QED
    BY <1>9, <2>1 DEF ToSet
<1>12. s \in Seq(Calls) /\ Clears(s)
  BY <1>5, <1>9, <1>10, <1>11 DEF Clears, t
<1>13. <<P>> \o s \in Seq(Calls) /\ <<P>> \o s # <<>> /\ Head(<<P>> \o s) = P /\ Tail(<<P>> \o s) = s
  BY <1>7, <1>12
<1>14. QED
  BY <1>12, <1>13 DEF SetsUp, s, P

\* What the handlers can call next.
LEMMA NextCall ==
  ASSUME Stage, SocketTypes, todo # <<>>
  PROVE  /\ Head(todo) \in Calls /\ Tail(todo) \in Seq(Calls)
         /\ ToSet(todo) = {Head(todo)} \cup ToSet(Tail(todo))
         /\ \/ SetsUp(todo) /\ Head(todo) = Call("Page", NoMail)
            \/ Clearing /\ Head(todo) = Clear
            \/ Drawing /\ Head(todo).call \in {"AddMessage", "ShownFocused", "Hidden", "Warning",
                                               "State", "Last"}
            \/ Finishing /\ Head(todo).call \in {"Shown", "Ready"}
            \/ Steady /\ Plain(todo) /\ Head(todo).call \in PlainCalls
            \/ Steady /\ Tells(todo) /\ Head(todo).call \in {"UpdateTags", "State"}
            \/ Steady /\ Swaps(todo) /\ Head(todo).call \in {"UpdateParts", "State"}
<1>1. todo \in Seq(Calls)
  BY DEF SocketTypes
<1>2. /\ Head(todo) \in Calls /\ Tail(todo) \in Seq(Calls)
      /\ ToSet(todo) = {Head(todo)} \cup ToSet(Tail(todo))
  BY <1>1, TailFacts
<1>3. CASE SetsUp(todo)
  BY <1>2, <1>3 DEF SetsUp
<1>4. CASE Clearing
  BY <1>2, <1>4 DEF Clearing, Clears
<1>5. CASE Drawing
  <2>1. Draws(todo)
    BY <1>5 DEF Drawing
  <2>2. Head(todo) \in DrawCalls \/ Head(todo) = StateCall \/ Head(todo) = Call("Last", NoMail)
    BY <1>1, <2>1, DrawsFacts
  <2>3. Head(todo).call \in {"AddMessage", "ShownFocused", "Hidden", "Warning", "State", "Last"}
    BY <2>2 DEF DrawCalls, StateCall, Call
  <2>4. QED
    BY <1>2, <1>5, <2>3
<1>6. CASE Finishing
  <2>1. PICK f \in Mail : todo = <<Call("Shown", f), Call("Ready", f)>> \/ todo = <<Call("Ready", f)>>
    BY <1>6 DEF Finishing, Finishes
  <2>2. Head(todo).call \in {"Shown", "Ready"}
    BY <2>1 DEF Call
  <2>3. QED
    BY <1>2, <1>6, <2>2
<1>7. CASE Steady
  <2>1. CASE Plain(todo)
    BY <1>2, <1>7, <2>1 DEF Plain
  <2>2. CASE Tells(todo)
    <3>1. PICK m \in Mail : todo = <<Call("UpdateTags", m), StateCall>> \/ todo = <<StateCall>>
      BY <2>2 DEF Tells
    <3>2. Head(todo).call \in {"UpdateTags", "State"}
      BY <3>1 DEF Call, StateCall
    <3>3. QED
      BY <1>2, <1>7, <2>2, <3>2
  <2>3. CASE Swaps(todo)
    <3>1. PICK m \in Mail : todo = <<StateCall, Call("UpdateParts", m)>> \/ todo = Swap(m)
      BY <2>3 DEF Swaps
    <3>2. Head(todo).call \in {"UpdateParts", "State"}
      BY <3>1 DEF Call, StateCall, Swap
    <3>3. QED
      BY <1>2, <1>7, <2>3, <3>2
  <2>4. QED
    BY <1>7, <2>1, <2>2, <2>3 DEF Steady
<1>8. QED
  BY <1>3, <1>4, <1>5, <1>6, <1>7 DEF Stage, Resting

-----------------------------------------------------------------------------
(* The extension.                                                          *)

\* It makes of the page what After says.
LEMMA ExtPage ==
  ASSUME ExtHandle
  PROVE  PageNow' = After(PageNow, Head(requests))
<1> DEFINE r == Head(requests)
           c == r.call
<1> USE DEF Handling
<1>0. /\ PageNow.drawn = drawn /\ PageNow.hidden = hidden /\ PageNow.marks = shown_marks
      /\ PageNow.tags = shown_tags /\ PageNow.parts = shown_parts /\ PageNow.state = ext_state
  BY DEF PageNow
<1>1. ASSUME /\ drawn' = After(PageNow, r).drawn /\ hidden' = After(PageNow, r).hidden
             /\ shown_marks' = After(PageNow, r).marks /\ shown_tags' = After(PageNow, r).tags
             /\ shown_parts' = After(PageNow, r).parts /\ ext_state' = After(PageNow, r).state
      PROVE  PageNow' = After(PageNow, r)
  BY <1>1 DEF PageNow, After
<1>2. ASSUME HandlePage PROVE PageNow' = After(PageNow, r)
  <2>1. c = "Page" /\ Fresh(r)
    BY <1>2 DEF HandlePage, Fresh
  <2>2. /\ drawn' = {} /\ hidden' = {} /\ shown_marks' = {} /\ shown_tags' = shown_tags
        /\ shown_parts' = shown_parts /\ ext_state' = ext_state
    BY <1>2 DEF HandlePage, display
  <2> HIDE DEF r
  <2>3. QED
    BY <1>0, <1>1, <2>1, <2>2 DEF After
<1>3. ASSUME ExtClear PROVE PageNow' = After(PageNow, r)
  <2>1. c = "ClearMessages" /\ Fresh(r)
    BY <1>3 DEF ExtClear, Fresh
  <2>2. /\ drawn' = {} /\ hidden' = {} /\ shown_marks' = {} /\ shown_tags' = shown_tags
        /\ shown_parts' = shown_parts /\ ext_state' = <<>>
    BY <1>3 DEF ExtClear, display
  <2> HIDE DEF r
  <2>3. QED
    BY <1>0, <1>1, <2>1, <2>2 DEF After
<1>4. ASSUME HandleState PROVE PageNow' = After(PageNow, r)
  <2>1. c = "State" /\ ~Fresh(r)
    BY <1>4 DEF HandleState, Fresh
  <2>2. /\ drawn' = drawn /\ hidden' = hidden /\ shown_marks' = shown_marks
        /\ shown_tags' = shown_tags /\ shown_parts' = shown_parts /\ ext_state' = r.data
    BY <1>4 DEF HandleState, display, sent
  <2> HIDE DEF r
  <2>3. QED
    BY <1>0, <1>1, <2>1, <2>2 DEF After, Showing, Hiding
<1>5. ASSUME ExtAdd PROVE PageNow' = After(PageNow, r)
  <2>1. c = "AddMessage" /\ ~Fresh(r)
    BY <1>5 DEF ExtAdd, Fresh
  <2>2. /\ drawn' = drawn \cup {r.mid} /\ hidden' = hidden /\ shown_marks' = shown_marks
        /\ shown_tags' = With(shown_tags, r.mid, r.data.unread)
        /\ shown_parts' = [shown_parts EXCEPT ![r.mid] = r.data.parts] /\ ext_state' = ext_state
    BY <1>5 DEF ExtAdd, ShowTags, ShowParts, With, sent, msg
  <2> HIDE DEF r
  <2>3. QED
    BY <1>0, <1>1, <2>1, <2>2 DEF After, Showing, Hiding
<1>6. ASSUME ExtUpdateParts PROVE PageNow' = After(PageNow, r)
  <2>1. c = "UpdateParts" /\ ~Fresh(r)
    BY <1>6 DEF ExtUpdateParts, Fresh
  <2>2. /\ drawn' = drawn /\ hidden' = hidden /\ shown_marks' = shown_marks \ {r.mid}
        /\ shown_tags' = With(shown_tags, r.mid, r.data.unread)
        /\ shown_parts' = [shown_parts EXCEPT ![r.mid] = r.data.parts] /\ ext_state' = ext_state
    BY <1>6 DEF ExtUpdateParts, ShowTags, ShowParts, With, sent, msg
  <2> HIDE DEF r
  <2>3. QED
    BY <1>0, <1>1, <2>1, <2>2 DEF After, Showing, Hiding
<1>7. ASSUME ExtUpdateTags PROVE PageNow' = After(PageNow, r)
  <2>1. c = "UpdateTags" /\ ~Fresh(r)
    BY <1>7 DEF ExtUpdateTags, Fresh
  <2>2. /\ drawn' = drawn /\ hidden' = hidden /\ shown_marks' = shown_marks
        /\ shown_tags' = With(shown_tags, r.mid, r.data.unread)
        /\ shown_parts' = shown_parts /\ ext_state' = ext_state
    BY <1>7 DEF ExtUpdateTags, ShowTags, With, sent, msg
  <2> HIDE DEF r
  <2>3. QED
    BY <1>0, <1>1, <2>1, <2>2 DEF After, Showing, Hiding
<1>8. ASSUME ExtWarning \/ ExtIndent \/ ExtImages PROVE PageNow' = After(PageNow, r)
  <2>1. c \in {"Warning", "Last", "Images"} /\ ~Fresh(r)
    BY <1>8 DEF ExtWarning, ExtIndent, ExtImages, Fresh
  <2>2. /\ drawn' = drawn /\ hidden' = hidden /\ shown_marks' = shown_marks
        /\ shown_tags' = shown_tags /\ shown_parts' = shown_parts /\ ext_state' = ext_state
    BY <1>8 DEF ExtWarning, ExtIndent, ExtImages, extension, display
  <2> HIDE DEF r
  <2>3. QED
    BY <1>0, <1>1, <2>1, <2>2 DEF After, Showing, Hiding
<1>9. ASSUME SetHidden PROVE PageNow' = After(PageNow, r)
  <2>1. c \in Showing \cup Hiding /\ ~Fresh(r)
    BY <1>9 DEF SetHidden, Fresh, Showing, Hiding
  <2>2. /\ drawn' = drawn /\ hidden' = With(hidden, r.mid, c \in Hiding)
        /\ shown_marks' = shown_marks
        /\ shown_tags' = shown_tags /\ shown_parts' = shown_parts /\ ext_state' = ext_state
    BY <1>9 DEF SetHidden, With, msg, display
  <2>3. c \notin {"AddMessage", "Mark", "UpdateParts", "UpdateTags", "ClearMessages", "State"}
    BY <2>1 DEF Showing, Hiding
  <2> HIDE DEF r
  <2>4. QED
    BY <1>0, <1>1, <2>1, <2>2, <2>3 DEF After
<1>10. ASSUME HandleMark PROVE PageNow' = After(PageNow, r)
  <2>1. c = "Mark" /\ ~Fresh(r)
    BY <1>10 DEF HandleMark, Fresh
  <2>2. /\ drawn' = drawn /\ hidden' = hidden /\ shown_marks' = With(shown_marks, r.mid, r.data)
        /\ shown_tags' = shown_tags /\ shown_parts' = shown_parts /\ ext_state' = ext_state
    BY <1>10 DEF HandleMark, With, sent, msg, display
  <2> HIDE DEF r
  <2>3. QED
    BY <1>0, <1>1, <2>1, <2>2 DEF After, Showing, Hiding
<1>11. ASSUME HandleNavigate PROVE PageNow' = After(PageNow, r)
  <2>1. c \in Navigation /\ ~Fresh(r)
    BY <1>11 DEF HandleNavigate, Fresh, Navigation
  <2>2. /\ drawn' = drawn /\ hidden' = hidden /\ shown_marks' = shown_marks
        /\ shown_tags' = shown_tags /\ shown_parts' = shown_parts /\ ext_state' = ext_state
    BY <1>11 DEF HandleNavigate, display
  <2>3. /\ c \notin {"AddMessage", "Mark", "UpdateParts", "UpdateTags", "ClearMessages", "State"}
        /\ c \notin Showing \cup Hiding
    BY <2>1 DEF Showing, Hiding, Navigation
  <2> HIDE DEF r
  <2>4. QED
    BY <1>0, <1>1, <2>1, <2>2, <2>3 DEF After
<1>12. QED
  <2>1. PageNow' = After(PageNow, r)
    BY <1>2, <1>3, <1>4, <1>5, <1>6, <1>7, <1>8, <1>9, <1>10, <1>11 DEF ExtHandle
  <2>2. QED
    BY <2>1

LEMMA AfterType ==
  ASSUME NEW x, PageType(x), NEW r, RequestType(r)
  PROVE  PageType(After(x, r))
<1> DEFINE y == After(x, r)
<1>1. r.call \in OnMail \cup {"ShownScrolled"} => r.mid \in Mail
  BY DEF RequestType
<1>2. {x.drawn, x.hidden, x.marks, x.tags} \subseteq SUBSET Mail /\ x.parts = [m \in Mail |-> x.parts[m]]
  BY DEF PageType
<1>3. y.drawn = {} \/ y.drawn = x.drawn \/ (r.mid \in Mail /\ y.drawn = x.drawn \cup {r.mid})
  BY <1>1 DEF After, OnMail
<1>4. \A S, yes : With(S, r.mid, yes) = S \cup {r.mid} \/ With(S, r.mid, yes) = S \ {r.mid}
  BY DEF With
<1>5. y.hidden = {} \/ y.hidden = x.hidden \/ y.hidden = x.hidden \ {r.mid}
      \/ (r.mid \in Mail /\ y.hidden = x.hidden \cup {r.mid})
  <2>1. r.call \in Showing \cup Hiding => r.mid \in Mail
    BY <1>1 DEF Showing, Hiding, OnMail
  <2>2. QED
    BY <1>4, <2>1 DEF After
<1>6. y.marks = {} \/ y.marks = x.marks \/ y.marks = x.marks \ {r.mid}
      \/ (r.mid \in Mail /\ y.marks = x.marks \cup {r.mid})
  <2>1. r.call = "Mark" => r.mid \in Mail
    BY <1>1 DEF OnMail
  <2>2. QED
    BY <1>4, <2>1 DEF After
<1>7. y.tags = x.tags \/ y.tags = x.tags \ {r.mid} \/ (r.mid \in Mail /\ y.tags = x.tags \cup {r.mid})
  <2>1. r.call \in {"AddMessage", "UpdateParts", "UpdateTags"} => r.mid \in Mail
    BY <1>1 DEF OnMail
  <2>2. QED
    BY <1>4, <2>1 DEF After
<1>8. y.parts = [m \in Mail |-> y.parts[m]]
  <2>1. y.parts = x.parts \/ y.parts = [x.parts EXCEPT ![r.mid] = r.data.parts]
    BY DEF After
  <2>2. QED
    BY <1>2, <2>1
<1> HIDE DEF y
<1>9. {y.drawn, y.hidden, y.marks, y.tags} \subseteq SUBSET Mail
  BY <1>2, <1>3, <1>5, <1>6, <1>7
<1>10. QED
  BY <1>8, <1>9 DEF PageType, y

\* What the program has is the same before and after.
SameProgram ==
  UNCHANGED <<todo, waiting, ready, expanded, marked, redrawn, unread, missing, focusable>>

LEMMA SameRight ==
  ASSUME SameProgram, NEW x, PageRight(x)
  PROVE  PageRight(x)'
<1>1. /\ todo' = todo /\ waiting' = waiting /\ expanded' = expanded /\ marked' = marked
      /\ redrawn' = redrawn /\ unread' = unread /\ missing' = missing /\ focusable' = focusable
  BY DEF SameProgram
<1>2. unsent' = unsent /\ clearing' = clearing /\ open' = open
  BY <1>1 DEF unsent, clearing, open
<1>3. \A c : ToCome(c)' <=> ToCome(c)
  BY <1>2 DEF ToCome
<1>4. \A m : (Fitting(m)' = Fitting(m)) /\ (OneShown(m)' <=> OneShown(m))
  BY <1>1 DEF Fitting, OneShown
<1>5. DrawnRight(x)'
  BY <1>3 DEF PageRight, DrawnRight
<1>6. HiddenRight(x)'
  BY <1>2 DEF PageRight, HiddenRight
<1>7. MarksRight(x)'
  BY <1>1, <1>2, <1>3 DEF PageRight, MarksRight
<1>8. TagsRight(x)'
  BY <1>1, <1>3 DEF PageRight, TagsRight
<1>9. PartsRight(x)'
  BY <1>1, <1>3, <1>4 DEF PageRight, PartsRight
<1>10. StateRight(x)'
  BY <1>1, <1>3 DEF PageRight, StateRight
<1>11. Cleared(x)'
  BY <1>1 DEF PageRight, Cleared
<1>12. RedrawnRight'
  BY <1>1, <1>3 DEF PageRight, RedrawnRight
<1>13. QED
  BY <1>5, <1>6, <1>7, <1>8, <1>9, <1>10, <1>11, <1>12 DEF PageRight

LEMMA ExtShows ==
  ASSUME SocketInv, ShowsRight, ExtHandle
  PROVE  ShowsRight'
<1>1. requests # <<>> /\ requests' = Tail(requests) /\ IsQueue(requests)
  BY ExtFacts DEF SocketInv
<1>2. SameProgram
  BY DEF ExtHandle, SameProgram, state, mthread
<1>3. PICK y : Leads(requests, PageNow, y) /\ PageType(y) /\ (ready \/ todo # <<>> => PageRight(y))
  BY DEF ShowsRight
<1>4. Leads(requests', PageNow', y)
  BY <1>1, <1>3, ExtPage, LeadsTail
<1>5. (ready \/ todo # <<>>)' => PageRight(y)'
  BY <1>2, <1>3, SameRight DEF SameProgram
<1>6. PageType(y)'
  BY <1>3 DEF PageType
<1>7. QED
  BY <1>4, <1>5, <1>6 DEF ShowsRight

-----------------------------------------------------------------------------
(* A call is sent.                                                         *)

NextCalls == Head(todo).call
NextOn == IF NextCalls = "ShownScrolled" THEN focused_message ELSE Head(todo).mid
NextRequest == [call |-> NextCalls, mid |-> NextOn, data |-> Payload(NextCalls, NextOn)]

LEMMA FocusableFacts ==
  ASSUME NEW m \in Mail
  PROVE  /\ Len(Elements[m]) \in Nat \ {0} /\ Stops(m) \subseteq Nat
         /\ Focusable(m) \subseteq Stops(m)
         /\ m \notin missing => Highest(m) = Len(Elements[m]) - 1
<1>1. Elements[m] \in Seq({"Empty", "Part", "Attachment", "MimeMessage"}) /\ Elements[m] # <<>>
  BY PageAssumption
<1>2. Len(Elements[m]) \in Nat \ {0}
  BY <1>1
<1>3. Highest(m) \in 0 .. Len(Elements[m]) - 1 /\ (m \notin missing => Highest(m) = Len(Elements[m]) - 1)
  BY <1>2 DEF Highest
<1>4. 0 .. Highest(m) \subseteq 0 .. Len(Elements[m]) - 1
  BY <1>2, <1>3
<1>5. QED
  BY <1>2, <1>3, <1>4 DEF Focusable, Stops

LEMMA SendFacts ==
  ASSUME StateTypes, SocketTypes, SocketInv, Stage, Send
  PROVE  /\ todo # <<>> /\ ~waiting /\ waiting' = TRUE /\ requests' = Append(requests, NextRequest)
         /\ UNCHANGED <<todo, ready, mthread, marked, focus, acks, extension, surplus, redrawn>>
         /\ NextCalls \in Request
         /\ NextCalls \in OnMail \cup {"ShownScrolled"} => NextOn \in Mail
         /\ Head(todo) = Call(NextCalls, Head(todo).mid)
         /\ NextCalls # "ShownScrolled" => Head(todo).mid = NextOn
         /\ NextRequest.call = NextCalls /\ NextRequest.mid = NextOn
         /\ NextRequest.data = Payload(NextCalls, NextOn)
         /\ RequestType(NextRequest)
         /\ expanded' = IF NextCalls \in Showing THEN expanded \cup {NextOn} ELSE expanded
         /\ focusable' = IF NextCalls = "AddMessage" THEN [focusable EXCEPT ![NextOn] = Focusable(NextOn)]
                         ELSE focusable
         /\ focusable' \in Stop
<1> DEFINE hd == Head(todo)
<1>1. /\ todo # <<>> /\ ~waiting /\ waiting' = TRUE /\ requests' = Append(requests, NextRequest)
      /\ UNCHANGED <<todo, ready, mthread, marked, focus, acks, extension, surplus, redrawn>>
      /\ expanded' = IF NextCalls \in Showing THEN expanded \cup {NextOn} ELSE expanded
      /\ focusable' = IF NextCalls = "AddMessage" THEN [focusable EXCEPT ![NextOn] = Focusable(NextOn)]
                      ELSE focusable
  BY DEF Send, NextCalls, NextOn, NextRequest
<1>2. hd \in Calls
  BY <1>1, NextCall
<1>3. NextCalls \in Request /\ (NextCalls \in OnMail => hd.mid \in Mail)
  BY <1>2 DEF Calls, NextCalls
<1>4. hd = Call(NextCalls, hd.mid)
  BY <1>2 DEF Calls, Call, NextCalls
<1>5. NextCalls = "ShownScrolled" => focused_message \in Mail
  <2> SUFFICES ASSUME NextCalls = "ShownScrolled" PROVE focused_message \in Mail
    OBVIOUS
  <2>1. Steady
    <3>1. hd.call = "ShownScrolled" /\ hd # Call("Page", NoMail) /\ hd # Clear
      BY DEF NextCalls, Call, Clear
    <3>2. QED
      BY <1>1, <3>1, NextCall DEF PlainCalls, Navigation
  <2>2. QED
    BY <2>1 DEF Steady
<1>6. NextCalls \in OnMail \cup {"ShownScrolled"} => NextOn \in Mail
  BY <1>3, <1>5 DEF NextOn, OnMail
<1>7. NextCalls # "ShownScrolled" => hd.mid = NextOn
  BY DEF NextOn
<1>8. /\ NextRequest.call = NextCalls /\ NextRequest.mid = NextOn
      /\ NextRequest.data = Payload(NextCalls, NextOn)
  BY DEF NextRequest
<1>9. focusable \in Stop
  BY DEF StateTypes
<1>10. NextCalls = "State" => Payload(NextCalls, NextOn) = focusable
  BY DEF Payload
<1>11. RequestType(NextRequest)
  BY <1>3, <1>6, <1>8, <1>9, <1>10 DEF RequestType
<1>12. focusable' \in Stop
  <2>1. CASE NextCalls # "AddMessage"
    BY <1>1, <1>9, <2>1
  <2>2. CASE NextCalls = "AddMessage"
    <3>1. NextOn \in Mail
      BY <1>6, <2>2 DEF OnMail
    <3>2. Focusable(NextOn) \subseteq Stops(NextOn) /\ Focusable(NextOn) \in SUBSET Nat
      BY <3>1, FocusableFacts
    <3>3. focusable' = [focusable EXCEPT ![NextOn] = Focusable(NextOn)]
      BY <1>1, <2>2
    <3>4. QED
      BY <1>9, <3>1, <3>2, <3>3 DEF Stop
  <2>3. QED
    BY <2>1, <2>2
<1>13. QED
  BY <1>1, <1>3, <1>4, <1>6, <1>7, <1>8, <1>11, <1>12

LEMMA SendTypes ==
  ASSUME StateTypes, SocketTypes, SocketInv, Stage, Send
  PROVE  StateTypes' /\ SocketTypes'
<1>1. StateTypes'
  <2>1. NextCalls \in Showing => NextOn \in Mail
    BY SendFacts DEF Showing, OnMail
  <2>2. expanded' \subseteq Mail
    BY <2>1, SendFacts DEF StateTypes
  <2>3. QED
    BY <2>2, SendFacts DEF StateTypes, mthread, focus
<1>2. \A r \in ToSet(requests') : RequestType(r)
  <2>1. ToSet(requests') = ToSet(requests) \cup {NextRequest}
    BY SendFacts, QueueAppend DEF SocketInv
  <2>2. QED
    BY <2>1, SendFacts DEF SocketTypes
<1>3. SocketTypes'
  <2>1. todo' = todo /\ acks' = acks /\ ext_focus' = ext_focus /\ todo # <<>>
    BY SendFacts DEF extension
  <2>2. QED
    BY <1>2, <2>1 DEF SocketTypes, RequestType
<1>4. QED
  BY <1>1, <1>3

\* A message that is drawn gets a part on display for its alternatives.
LEMMA DrawnFits ==
  ASSUME NEW m \in Mail, m \notin missing, NEW f, f[m] = Focusable(m)
  PROVE  /\ Alternatives[m] # {} => \E e \in Alternatives[m] : Alternatives[m] \ f[m] = {e}
         /\ Draw(m, Focusable(m)).parts =
              {e \in 1 .. Len(Elements[m]) - 1 : Type(m, e) = "Part" /\ e \notin f[m]}
<1> DEFINE A == Alternatives[m]
<1>1. Highest(m) = Len(Elements[m]) - 1 /\ Len(Elements[m]) \in Nat \ {0}
  BY FocusableFacts
<1>2. A \subseteq 1 .. Len(Elements[m]) - 1 /\ A \in SUBSET Nat
  BY PageAssumption
<1>3. ASSUME A # {} PROVE \E e \in A : A \ f[m] = {e}
  <2>1. PICK e \in A : \A k \in A : e <= k
    BY <1>2, <1>3, LeastOf
  <2>2. \A k \in A : k \in 0 .. Highest(m) /\ k \in Nat
    BY <1>1, <1>2
  <2>3. \A k \in A : k \in f[m] <=> ~\A a \in A : k <= a
    BY <2>2 DEF Focusable, Shown
  <2>4. \A k \in A : (\A a \in A : k <= a) => k = e
    BY <1>2, <2>1
  <2> HIDE DEF A
  <2>5. QED
    BY <2>1, <2>3, <2>4
<1>4. Draw(m, Focusable(m)).parts = {e \in 1 .. Highest(m) : Type(m, e) = "Part" /\ e \notin Focusable(m)}
  BY DEF Draw
<1>5. QED
  BY <1>1, <1>3, <1>4

\* What is to come after a call was sent.
LEMMA SendUnsent ==
  ASSUME StateTypes, SocketTypes, SocketInv, Stage, Send
  PROVE  /\ \A c : ToCome(c) <=> (c = Head(todo) \/ ToCome(c)')
         /\ \A c : ToCome(c)' <=> c \in ToSet(Tail(todo))
         /\ clearing' = clearing /\ clearing = (Clear \in ToSet(todo))
<1>1. todo # <<>> /\ ~waiting /\ waiting' = TRUE /\ todo' = todo
  BY SendFacts
<1>2. unsent = todo /\ unsent' = Tail(todo)
  BY <1>1 DEF unsent
<1>3. ToSet(todo) = {Head(todo)} \cup ToSet(Tail(todo))
  BY <1>1, NextCall
<1>4. \A c : ToCome(c)' <=> c \in ToSet(Tail(todo))
  BY <1>2 DEF ToCome
<1>5. \A c : ToCome(c) <=> c \in ToSet(todo)
  BY <1>2 DEF ToCome
<1>6. clearing' = clearing /\ clearing = (Clear \in ToSet(todo))
  BY <1>1 DEF clearing
<1>7. QED
  BY <1>3, <1>4, <1>5, <1>6

\* The page is set up before it is cleared, and then everything is drawn.
LEMMA SendFirst ==
  ASSUME StateTypes, SocketTypes, SocketInv, Stage, Send
  PROVE  /\ NextCalls = "Page" => ToCome(Clear)'
         /\ NextCalls = "ClearMessages" =>
              /\ Head(todo) = Clear /\ ToCome(StateCall)'
              /\ \A m \in Mail : ToCome(Call("AddMessage", m))'
         /\ NextCalls = "AddMessage" => ToCome(StateCall)'
         /\ NextCalls = "State" => Head(todo) = StateCall
<1>1. /\ todo # <<>> /\ \A c : ToCome(c)' <=> c \in ToSet(Tail(todo))
  BY SendFacts, SendUnsent
<1>2. /\ Tail(todo) \in Seq(Calls)
      /\ \/ SetsUp(todo) /\ Head(todo) = Call("Page", NoMail)
         \/ Clearing /\ Head(todo) = Clear
         \/ Drawing /\ Head(todo).call \in {"AddMessage", "ShownFocused", "Hidden", "Warning",
                                            "State", "Last"}
         \/ Finishing /\ Head(todo).call \in {"Shown", "Ready"}
         \/ Steady /\ Plain(todo) /\ Head(todo).call \in PlainCalls
         \/ Steady /\ Tells(todo) /\ Head(todo).call \in {"UpdateTags", "State"}
         \/ Steady /\ Swaps(todo) /\ Head(todo).call \in {"UpdateParts", "State"}
  BY <1>1, NextCall
<1>3. ASSUME NextCalls = "Page" PROVE ToCome(Clear)'
  <2>1. SetsUp(todo)
    BY <1>2, <1>3 DEF NextCalls, Clear, Call, PlainCalls, Navigation
  <2>2. Head(Tail(todo)) = Clear /\ Tail(todo) # <<>>
    BY <2>1 DEF SetsUp, Clears
  <2>3. Clear \in ToSet(Tail(todo))
    BY <1>2, <2>2, TailFacts
  <2>4. QED
    BY <1>1, <2>3
<1>4. ASSUME NextCalls = "ClearMessages"
      PROVE  /\ Head(todo) = Clear /\ ToCome(StateCall)'
             /\ \A m \in Mail : ToCome(Call("AddMessage", m))'
  <2>1. Clearing /\ Head(todo) = Clear
    BY <1>2, <1>4 DEF NextCalls, Call, PlainCalls, Navigation
  <2>2. Draws(Tail(todo)) /\ \A m \in Mail : Call("AddMessage", m) \in ToSet(Tail(todo))
    BY <2>1 DEF Clearing, Clears
  <2>3. PICK m \in Mail : TRUE
    BY PageAssumption
  <2>4. StateCall \in ToSet(Tail(todo))
    BY <1>2, <2>2, <2>3, DrawsState
  <2>5. QED
    BY <1>1, <2>1, <2>2, <2>4
<1>5. ASSUME NextCalls = "AddMessage" PROVE ToCome(StateCall)'
  <2>1. Drawing
    BY <1>2, <1>5 DEF NextCalls, Call, PlainCalls, Navigation, Clear
  <2>2. Draws(todo) /\ todo \in Seq(Calls)
    BY <2>1 DEF Drawing, SocketTypes
  <2>3. Head(todo) # Call("Last", NoMail) /\ Head(todo) # StateCall
    BY <1>5 DEF NextCalls, Call, StateCall
  <2>4. StateCall \in ToSet(Tail(todo))
    BY <2>2, <2>3, DrawsFacts
  <2>5. QED
    BY <1>1, <2>4
<1>6. ASSUME NextCalls = "State" PROVE Head(todo) = StateCall
  <2>1. CASE Drawing
    <3>1. Draws(todo) /\ todo \in Seq(Calls)
      BY <2>1 DEF Drawing, SocketTypes
    <3>2. Head(todo) \in DrawCalls \/ Head(todo) = Call("Last", NoMail) => Head(todo).call # "State"
      BY DEF DrawCalls, Call
    <3>3. QED
      BY <1>6, <3>1, <3>2, DrawsFacts DEF NextCalls
  <2>2. CASE Steady /\ Tells(todo)
    <3>1. PICK m \in Mail : todo = <<Call("UpdateTags", m), StateCall>> \/ todo = <<StateCall>>
      BY <2>2 DEF Tells
    <3>2. QED
      BY <1>6, <3>1 DEF NextCalls, Call
  <2>3. CASE Steady /\ Swaps(todo)
    <3>1. PICK m \in Mail : todo = <<StateCall, Call("UpdateParts", m)>> \/ todo = Swap(m)
      BY <2>3 DEF Swaps
    <3>2. QED
      BY <1>6, <3>1 DEF NextCalls, Call, Swap
  <2>4. QED
    BY <1>2, <1>6, <2>1, <2>2, <2>3 DEF NextCalls, Call, Clear, PlainCalls, Navigation
<1>7. QED
  BY <1>3, <1>4, <1>5, <1>6

LEMMA SendShows ==
  ASSUME StateTypes, SocketTypes, SocketInv, ShowsRight, Stage, Send
  PROVE  ShowsRight'
<1> DEFINE hd == Head(todo)
           c == NextCalls
           m == NextOn
           r == NextRequest
<1>1. PICK x : Leads(requests, PageNow, x) /\ PageType(x) /\ (ready \/ todo # <<>> => PageRight(x))
  BY DEF ShowsRight
<1>2. PICK z : z = After(x, r)
  OBVIOUS
<1>3. /\ PageRight(x) /\ hd = Call(c, hd.mid) /\ (c # "ShownScrolled" => hd = Call(c, m))
      /\ c \in OnMail \cup {"ShownScrolled"} => m \in Mail
      /\ r.call = c /\ r.mid = m /\ r.data = Payload(c, m)
      /\ waiting' = TRUE /\ ~waiting
      /\ UNCHANGED <<todo, unread, missing, marked, redrawn>>
      /\ expanded' = IF c \in Showing THEN expanded \cup {m} ELSE expanded
      /\ focusable' = IF c = "AddMessage" THEN [focusable EXCEPT ![m] = Focusable(m)]
                      ELSE focusable
  <2>1. PageRight(x)
    BY <1>1, SendFacts
  <2>2. QED
    BY <2>1, SendFacts DEF mthread
<1>4. Leads(requests', PageNow', z)
  <2>1. requests' = Append(requests, r) /\ PageNow' = PageNow /\ IsQueue(requests)
    BY SendFacts DEF SocketInv, PageNow, extension, display
  <2>2. QED
    BY <1>1, <1>2, <2>1, LeadsAppend
<1>5. PageType(z)
  BY <1>1, <1>2, SendFacts, AfterType
<1>6. /\ \A d : ToCome(d) <=> (d = hd \/ ToCome(d)')
      /\ clearing' = clearing /\ clearing = (Clear \in ToSet(todo))
  BY SendUnsent
<1>7. /\ c = "Page" => ToCome(Clear)'
      /\ c = "ClearMessages" => /\ hd = Clear /\ ToCome(StateCall)'
                                /\ \A n \in Mail : ToCome(Call("AddMessage", n))'
      /\ c = "AddMessage" => ToCome(StateCall)'
      /\ c = "State" => hd = StateCall
  BY SendFirst
<1>8. c \in {"Page", "ClearMessages"} => clearing
  <2>1. ToCome(Clear) => clearing
    BY <1>3, <1>6 DEF ToCome, unsent
  <2>2. QED
    BY <1>6, <1>7, <2>1
<1> HIDE DEF hd, c, m, r
<1>9. DrawnRight(z)'
  <2>1. ToCome(Clear) \/ \A n \in Mail : n \in x.drawn \/ ToCome(Call("AddMessage", n))
    BY <1>3 DEF PageRight, DrawnRight
  <2>2. CASE c \in {"Page", "ClearMessages"}
    BY <1>7, <2>2 DEF DrawnRight
  <2>3. CASE c = "AddMessage"
    <3>1. z.drawn = x.drawn \cup {m}
      BY <1>2, <1>3, <2>3 DEF After, Fresh
    <3>2. \A n : hd = Call("AddMessage", n) => n = m
      BY <1>3, <2>3 DEF Call
    <3>3. hd # Clear
      BY <1>3, <2>3 DEF Call, Clear
    <3>4. QED
      BY <1>6, <2>1, <3>1, <3>2, <3>3 DEF DrawnRight
  <2>4. CASE c \notin {"Page", "ClearMessages", "AddMessage"}
    <3>1. z.drawn = x.drawn
      BY <1>2, <1>3, <2>4 DEF After, Fresh
    <3>2. hd # Clear /\ \A n : hd # Call("AddMessage", n)
      BY <1>3, <2>4 DEF Call, Clear
    <3>3. QED
      BY <1>6, <2>1, <3>1, <3>2 DEF DrawnRight
  <2>5. QED
    BY <2>2, <2>3, <2>4
<1>10. HiddenRight(z)'
  <2>1. CASE clearing
    BY <1>6, <2>1 DEF HiddenRight
  <2>2. CASE ~clearing
    <3>1. c \notin {"Page", "ClearMessages"}
      BY <1>8, <2>2
    <3>2. x.hidden = Mail \ expanded
      BY <1>3, <2>2 DEF PageRight, HiddenRight, open
    <3>3. CASE c \in Showing
      <4>1. z.hidden = x.hidden \ {m} /\ c \notin Hiding
        BY <1>2, <1>3, <3>1, <3>3 DEF After, Fresh, With, Showing, Hiding
      <4>2. open' = expanded \cup {m}
        BY <1>3, <3>3, <4>1 DEF open, hd, c, NextCalls
      <4>3. QED
        BY <3>2, <4>1, <4>2 DEF HiddenRight
    <3>4. CASE c \in Hiding
      <4>1. z.hidden = x.hidden \cup {m} /\ c \notin Showing /\ m \in Mail /\ hd.mid = m
        BY <1>2, <1>3, <3>1, <3>4 DEF After, Fresh, With, Showing, Hiding, OnMail, Call
      <4>2. open' = expanded \ {m}
        BY <1>3, <3>4, <4>1 DEF open, hd, c, NextCalls
      <4>3. QED
        BY <3>2, <4>1, <4>2 DEF HiddenRight
    <3>5. CASE c \notin Showing \cup Hiding
      <4>1. z.hidden = x.hidden
        BY <1>2, <1>3, <3>1, <3>5 DEF After, Fresh
      <4>2. open' = expanded
        BY <1>3, <3>5 DEF open, hd, c, NextCalls
      <4>3. QED
        BY <3>2, <4>1, <4>2 DEF HiddenRight
    <3>6. QED
      BY <3>3, <3>4, <3>5
  <2>3. QED
    BY <2>1, <2>2
<1>11. MarksRight(z)'
  <2>1. CASE clearing
    BY <1>6, <2>1 DEF MarksRight
  <2>2. CASE ~clearing
    <3>1. c \notin {"Page", "ClearMessages"}
      BY <1>8, <2>2
    <3>2. \A n \in Mail : \/ ToCome(Call("Mark", n))
                          \/ (n \in x.marks => n \in marked) /\ (n \in marked => n \in x.marks \cup redrawn)
      BY <1>3, <2>2 DEF PageRight, MarksRight
    <3> SUFFICES ASSUME NEW n \in Mail
                 PROVE  \/ ToCome(Call("Mark", n))'
                        \/ (n \in z.marks => n \in marked) /\ (n \in marked => n \in z.marks \cup redrawn)
      BY <1>3 DEF MarksRight
    <3>3. CASE c = "Mark"
      <4>1. z.marks = With(x.marks, m, m \in marked) /\ \A k : hd = Call("Mark", k) => k = m
        BY <1>2, <1>3, <3>1, <3>3 DEF After, Fresh, Payload, Call
      <4>2. CASE n = m
        BY <4>1, <4>2 DEF With
      <4>3. CASE n # m
        <5>1. n \in z.marks <=> n \in x.marks
          BY <4>1, <4>3 DEF With
        <5>2. QED
          BY <1>6, <3>2, <4>1, <4>3, <5>1
      <4>4. QED
        BY <4>2, <4>3
    <3>4. CASE c = "UpdateParts"
      <4>1. z.marks = x.marks \ {m} /\ \A k : hd # Call("Mark", k)
        BY <1>2, <1>3, <3>1, <3>4 DEF After, Fresh, Call
      <4>2. m \in redrawn
        BY <1>3, <1>6, <3>4 DEF PageRight, RedrawnRight, OnMail
      <4>3. QED
        BY <1>6, <3>2, <4>1, <4>2
    <3>5. CASE c \notin {"Mark", "UpdateParts"}
      <4>1. z.marks = x.marks /\ \A k : hd # Call("Mark", k)
        BY <1>2, <1>3, <3>1, <3>5 DEF After, Fresh, Call
      <4>2. QED
        BY <1>6, <3>2, <4>1
    <3>6. QED
      BY <3>3, <3>4, <3>5
  <2>3. QED
    BY <2>1, <2>2
<1>12. TagsRight(z)'
  <2>1. \A n \in Mail : \/ ToCome(Call("AddMessage", n)) \/ ToCome(Call("UpdateTags", n))
                        \/ (n \in x.tags <=> n \in unread)
    BY <1>3 DEF PageRight, TagsRight
  <2> SUFFICES ASSUME NEW n \in Mail
               PROVE  \/ ToCome(Call("AddMessage", n))' \/ ToCome(Call("UpdateTags", n))'
                      \/ (n \in z.tags <=> n \in unread)
    BY <1>3 DEF TagsRight
  <2>2. CASE c \in {"AddMessage", "UpdateParts", "UpdateTags"}
    <3>1. z.tags = With(x.tags, m, m \in unread)
      <4>1. \A can : Draw(m, can).unread = (m \in unread)
        BY DEF Draw
      <4>2. r.data = Draw(m, Focusable(m)) \/ r.data = Draw(m, focusable[m])
        BY <1>3, <2>2 DEF Payload
      <4>3. z.tags = With(x.tags, m, r.data.unread)
        BY <1>2, <1>3, <2>2 DEF After
      <4>4. r.data.unread = (m \in unread)
        BY <4>1, <4>2
      <4>5. QED
        BY <4>3, <4>4
    <3>2. \A k : hd = Call("AddMessage", k) \/ hd = Call("UpdateTags", k) => k = m
      BY <1>3, <2>2 DEF Call
    <3>3. CASE n = m
      BY <3>1, <3>3 DEF With
    <3>4. CASE n # m
      <4>1. n \in z.tags <=> n \in x.tags
        BY <3>1, <3>4 DEF With
      <4>2. QED
        BY <1>6, <2>1, <3>2, <3>4, <4>1
    <3>5. QED
      BY <3>3, <3>4
  <2>3. CASE c \notin {"AddMessage", "UpdateParts", "UpdateTags"}
    <3>1. z.tags = x.tags /\ \A k : hd # Call("AddMessage", k) /\ hd # Call("UpdateTags", k)
      BY <1>2, <1>3, <2>3 DEF After, Call
    <3>2. QED
      BY <1>6, <2>1, <3>1
  <2>4. QED
    BY <2>2, <2>3
<1>13. PartsRight(z)'
  <2>1. \A n \in Mail : \/ n \in missing \/ ToCome(Call("AddMessage", n))
                        \/ OneShown(n) /\ (ToCome(Call("UpdateParts", n)) \/ x.parts[n] = Fitting(n))
    BY <1>3 DEF PageRight, PartsRight
  <2> SUFFICES ASSUME NEW n \in Mail, n \notin missing
               PROVE  \/ ToCome(Call("AddMessage", n))'
                      \/ OneShown(n)' /\ (ToCome(Call("UpdateParts", n))' \/ z.parts[n] = Fitting(n)')
    BY <1>3 DEF PartsRight
  <2>2. focusable \in [Mail -> SUBSET Nat] /\ x.parts = [k \in Mail |-> x.parts[k]]
    BY <1>1 DEF StateTypes, Stop, PageType
  <2>3. focusable'[n] = focusable[n] => Fitting(n)' = Fitting(n) /\ (OneShown(n)' <=> OneShown(n))
    BY DEF Fitting, OneShown
  <2>4. CASE c = "AddMessage"
    <3>1. \A k : hd # Call("UpdateParts", k) /\ (hd = Call("AddMessage", k) => k = m)
      BY <1>3, <2>4 DEF Call
    <3>2. m \in Mail /\ focusable' = [focusable EXCEPT ![m] = Focusable(m)]
      BY <1>3, <2>4 DEF OnMail
    <3>3. z.parts = [x.parts EXCEPT ![m] = Draw(m, Focusable(m)).parts]
      BY <1>2, <1>3, <2>4 DEF After, Payload
    <3>4. CASE n = m
      <4>1. focusable'[n] = Focusable(n) /\ z.parts[n] = Draw(n, Focusable(n)).parts
        BY <2>2, <3>2, <3>3, <3>4
      <4>2. /\ Alternatives[n] # {} => \E e \in Alternatives[n] : Alternatives[n] \ focusable'[n] = {e}
            /\ Draw(n, Focusable(n)).parts =
                 {e \in 1 .. Len(Elements[n]) - 1 : Type(n, e) = "Part" /\ e \notin focusable'[n]}
        BY <4>1, DrawnFits
      <4>3. OneShown(n)' /\ z.parts[n] = Fitting(n)'
        BY <4>1, <4>2 DEF OneShown, Fitting
      <4>4. QED
        BY <4>3
    <3>5. CASE n # m
      <4>1. focusable'[n] = focusable[n] /\ z.parts[n] = x.parts[n]
        BY <2>2, <3>2, <3>3, <3>5
      <4>2. QED
        BY <1>6, <2>1, <2>3, <3>1, <3>5, <4>1
    <3>6. QED
      BY <3>4, <3>5
  <2>5. CASE c = "UpdateParts"
    <3>1. /\ focusable' = focusable /\ m \in Mail
          /\ \A k : hd # Call("AddMessage", k) /\ (hd = Call("UpdateParts", k) => k = m)
      BY <1>3, <2>5 DEF Call, OnMail
    <3>2. z.parts = [x.parts EXCEPT ![m] = Draw(m, focusable[m]).parts]
      BY <1>2, <1>3, <2>5 DEF After, Payload
    <3>3. CASE n = m
      <4>1. z.parts[n] = Draw(n, focusable[n]).parts
        BY <2>2, <3>1, <3>2, <3>3
      <4>2. Draw(n, focusable[n]).parts = {e \in 1 .. Highest(n) : Type(n, e) = "Part" /\ e \notin focusable[n]}
        BY DEF Draw
      <4>3. Highest(n) = Len(Elements[n]) - 1
        BY FocusableFacts
      <4>4. z.parts[n] = Fitting(n)
        BY <4>1, <4>2, <4>3 DEF Fitting
      <4>5. QED
        BY <1>6, <2>1, <2>3, <3>1, <4>4
    <3>4. CASE n # m
      <4>1. z.parts[n] = x.parts[n]
        BY <2>2, <3>1, <3>2, <3>4
      <4>2. QED
        BY <1>6, <2>1, <2>3, <3>1, <3>4, <4>1
    <3>5. QED
      BY <3>3, <3>4
  <2>6. CASE c \notin {"AddMessage", "UpdateParts"}
    <3>1. /\ focusable' = focusable /\ z.parts = x.parts
          /\ \A k : hd # Call("AddMessage", k) /\ hd # Call("UpdateParts", k)
      BY <1>2, <1>3, <2>6 DEF After, Call
    <3>2. QED
      BY <1>6, <2>1, <2>3, <3>1
  <2>7. QED
    BY <2>4, <2>5, <2>6
<1>14. StateRight(z)'
  <2>1. ToCome(StateCall) \/ x.state = focusable
    BY <1>3 DEF PageRight, StateRight
  <2>2. CASE c \in {"ClearMessages", "AddMessage"}
    BY <1>7, <2>2 DEF StateRight
  <2>3. CASE c = "State"
    <3>1. z.state = focusable /\ focusable' = focusable
      BY <1>2, <1>3, <2>3 DEF After, Payload
    <3>2. QED
      BY <3>1 DEF StateRight
  <2>4. CASE c \notin {"ClearMessages", "AddMessage", "State"}
    <3>1. z.state = x.state /\ focusable' = focusable /\ hd # StateCall
      BY <1>2, <1>3, <2>4 DEF After, Call, StateCall
    <3>2. QED
      BY <1>6, <2>1, <3>1 DEF StateRight
  <2>5. QED
    BY <2>2, <2>3, <2>4
<1>15. Cleared(z)'
  <2>1. CASE hd = Clear
    <3>1. c = "ClearMessages"
      BY <1>3, <2>1 DEF Call, Clear
    <3>2. z.hidden = {} /\ z.marks = {}
      BY <1>2, <1>3, <3>1 DEF After, Fresh
    <3>3. QED
      BY <3>2 DEF Cleared
  <2>2. CASE hd # Clear
    BY <1>3, <2>2 DEF Cleared, hd
  <2>3. QED
    BY <2>1, <2>2
<1>16. RedrawnRight'
  BY <1>3, <1>6 DEF PageRight, RedrawnRight
<1>17. PageRight(z)'
  BY <1>9, <1>10, <1>11, <1>12, <1>13, <1>14, <1>15, <1>16 DEF PageRight
<1>18. QED
  <2>1. PageType(z)'
    BY <1>5 DEF PageType
  <2>2. QED
    BY <1>4, <1>17, <2>1 DEF ShowsRight

-----------------------------------------------------------------------------
(* The focus goes to a message, and to an element that can have it.        *)

FocusAt(a, b) == b \in {0} \cup ext_state[a]
Goes(to) ==
  /\ to = <<to[1], to[2]>> /\ to[1] \in Mail \cup {NoMail}
  /\ ext_focus[1] \in Mail => to[1] \in Mail
  /\ ext_focus[1] \in Mail /\ ext_state \in Stop /\ FocusAt(ext_focus[1], ext_focus[2]) =>
       FocusAt(to[1], to[2])

LEMMA GoesTo ==
  ASSUME NEW a \in Mail, NEW b, ext_state \in Stop => FocusAt(a, b)
  PROVE  Goes(<<a, b>>)
BY DEF Goes

LEMMA GoesToStart ==
  ASSUME NEW a \in Mail
  PROVE  Goes(<<a, 0>>)
BY GoesTo DEF FocusAt

LEMMA FocusStays ==
  ASSUME SocketTypes
  PROVE  Goes(ext_focus)
BY DEF Goes, SocketTypes

LEMMA IntoViewGoes ==
  ASSUME SocketTypes, NEW view \in SUBSET Mail
  PROVE  Goes(IntoView(view))
<1> DEFINE f == ext_focus[1]
           E == Earlier(view, f)
           to == IF E # {} THEN Max(E) ELSE Min(view)
<1>1. CASE f \in view \/ view = {}
  BY <1>1, FocusStays DEF IntoView
<1>2. CASE ~(f \in view \/ view = {})
  <2>1. E \subseteq view
    BY DEF Earlier
  <2>2. E # {} => Max(E) \in view
    <3> HIDE DEF E
    <3>1. QED
      BY <2>1, MailEnds
  <2>3. Min(view) \in view
    BY <1>2, MailEnds
  <2>4. to \in Mail
    BY <2>2, <2>3
  <2>5. IntoView(view) = <<to, 0>>
    BY <1>2 DEF IntoView
  <2> HIDE DEF to
  <2>6. QED
    BY <2>4, <2>5, GoesToStart
<1>3. QED
  BY <1>1, <1>2

LEMMA LastElementFits ==
  ASSUME NEW m \in Mail, ext_state \in Stop
  PROVE  FocusAt(m, LastElement(m))
<1>1. ext_state[m] \in SUBSET Stops(m)
  BY DEF Stop
<1>2. ext_state[m] # {} => Max(ext_state[m]) \in ext_state[m]
  BY <1>1, StopEnds
<1>3. QED
  BY <1>2 DEF FocusAt, LastElement, HighestOf

LEMMA MessageGoes ==
  ASSUME SocketTypes
  PROVE  Goes(NextMessage) /\ \A top : Goes(PreviousMessage(top))
<1> DEFINE after == Later(Mail, ext_focus[1])
           before == Earlier(Mail, ext_focus[1])
<1>1. after \subseteq Mail /\ before \subseteq Mail
  BY DEF Later, Earlier
<1>2. Goes(NextMessage)
  <2>1. CASE edit_mode \/ after = {}
    BY <2>1, FocusStays DEF NextMessage
  <2>2. CASE ~(edit_mode \/ after = {})
    <3>1. NextMessage = <<Min(after), 0>>
      BY <2>2 DEF NextMessage
    <3> HIDE DEF after
    <3>2. Min(after) \in Mail
      BY <1>1, <2>2, MailEnds
    <3>3. QED
      BY <3>1, <3>2, GoesToStart
  <2>3. QED
    BY <2>1, <2>2
<1>3. ASSUME NEW top PROVE Goes(PreviousMessage(top))
  <2>1. CASE edit_mode \/ before = {}
    BY <2>1, FocusStays DEF PreviousMessage
  <2>2. CASE ~(edit_mode \/ before = {})
    <3> DEFINE m == Max(before)
               e == IF top THEN 0 ELSE LastElement(m)
    <3>1. PreviousMessage(top) = <<m, e>>
      BY <2>2 DEF PreviousMessage
    <3>2. m \in Mail
      <4> HIDE DEF before
      <4>1. QED
        BY <1>1, <2>2, MailEnds
    <3> HIDE DEF m
    <3>3. ext_state \in Stop => FocusAt(m, e)
      BY <3>2, LastElementFits DEF FocusAt
    <3> HIDE DEF e
    <3>4. QED
      BY <3>1, <3>2, <3>3, GoesTo
  <2>3. QED
    BY <2>1, <2>2
<1>4. QED
  BY <1>2, <1>3

\* Elements before and after the one in focus are of the same message.
LEMMA ElementGoes ==
  ASSUME SocketTypes, NEW more, more \subseteq ext_state[ext_focus[1]], more # {}
  PROVE  Goes(<<ext_focus[1], Min(more)>>) /\ Goes(<<ext_focus[1], Max(more)>>)
<1> DEFINE f == ext_focus[1]
<1>1. f \in Mail \cup {NoMail}
  BY DEF SocketTypes
<1>2. CASE f \notin Mail
  BY <1>1, <1>2 DEF Goes
<1>3. CASE f \in Mail
  <2>1. ASSUME ext_state \in Stop
        PROVE  Min(more) \in ext_state[f] /\ Max(more) \in ext_state[f]
    <3>1. more \in SUBSET Stops(f)
      BY <1>3, <2>1 DEF Stop
    <3>2. QED
      BY <1>3, <3>1, StopEnds
  <2>2. QED
    BY <1>3, <2>1, GoesTo DEF FocusAt
<1>4. QED
  BY <1>2, <1>3

LEMMA NextElementGoes ==
  ASSUME SocketTypes, NEW force, NextElement(force) \/ PreviousElement(force)
  PROVE  Goes(ext_focus')
<1> DEFINE f == ext_focus[1]
           more == IF f \in hidden THEN {} ELSE Later(ext_state[f], ext_focus[2])
           there == IF more # {} THEN <<f, Min(more)>> ELSE NextMessage
           less == IF f \in hidden THEN {} ELSE Earlier(ext_state[f], ext_focus[2])
           back == IF less # {} THEN <<f, Max(less)>> ELSE PreviousMessage(FALSE)
<1>1. more \subseteq ext_state[f] /\ less \subseteq ext_state[f]
  BY DEF Later, Earlier
<1>2. Goes(there)
  <2>1. CASE more # {}
    <3> HIDE DEF more
    <3>1. QED
      BY <1>1, <2>1, ElementGoes
  <2>2. CASE more = {}
    BY <2>2, MessageGoes
  <2>3. QED
    BY <2>1, <2>2
<1>3. Goes(back)
  <2>1. CASE less # {}
    <3> HIDE DEF less
    <3>1. QED
      BY <1>1, <2>1, ElementGoes
  <2>2. CASE less = {}
    BY <2>2, MessageGoes
  <2>3. QED
    BY <2>1, <2>2
<1>4. \/ ext_focus' = there \/ ext_focus' = back
      \/ \E view \in SUBSET Mail : ext_focus' = IntoView(view)
  BY DEF NextElement, PreviousElement
<1>5. QED
  <2> HIDE DEF there, back
  <2>1. QED
    BY <1>2, <1>3, <1>4, IntoViewGoes

LEMMA NavigateGoes ==
  ASSUME SocketTypes, requests # <<>>, IsQueue(requests), HandleNavigate
  PROVE  /\ Goes(ext_focus')
         /\ Head(requests).call \in {"Focus", "Ready"} => ext_focus' = <<Head(requests).mid, 0>>
<1> DEFINE r == Head(requests)
<1>1. RequestType(r)
  BY QueueTail DEF SocketTypes
<1>2. CASE Handling({"Focus", "Ready"}) /\ ext_focus' = <<msg, 0>>
  <2>1. r.mid \in Mail /\ ext_focus' = <<r.mid, 0>>
    BY <1>1, <1>2 DEF RequestType, Handling, OnMail, msg
  <2>2. QED
    BY <2>1, GoesToStart
<1>3. CASE r.call \notin {"Focus", "Ready"}
  <2>1. \/ NextElement(TRUE) \/ NextElement(FALSE) \/ PreviousElement(TRUE) \/ PreviousElement(FALSE)
        \/ ext_focus' = NextMessage \/ \E top : ext_focus' = PreviousMessage(top)
        \/ \E view \in SUBSET Mail : ext_focus' = IntoView(view)
        \/ ext_focus' = <<Min(Mail), 0>> \/ ext_focus' = <<Max(Mail), LastElement(Max(Mail))>>
    BY <1>3 DEF HandleNavigate, Handling
  <2>2. Min(Mail) \in Mail /\ Max(Mail) \in Mail
    BY MailEnds, PageAssumption
  <2>3. Goes(<<Min(Mail), 0>>)
    BY <2>2, GoesToStart
  <2>4. Goes(<<Max(Mail), LastElement(Max(Mail))>>)
    BY <2>2, GoesTo, LastElementFits
  <2>5. QED
    BY <1>3, <2>1, <2>3, <2>4, NextElementGoes, MessageGoes, IntoViewGoes
<1>4. QED
  BY <1>2, <1>3 DEF HandleNavigate, Handling

\* After parts were exchanged the focus is where it can be.
LEMMA PartsFits ==
  ASSUME SocketTypes, ExtUpdateParts
  PROVE  /\ ext_focus' = <<ext_focus[1], ext_focus'[2]>>
         /\ ext_focus[1] \in Mail /\ ext_state \in Stop => FocusAt(ext_focus[1], ext_focus'[2])
<1> DEFINE f == ext_focus[1]
           e == ext_focus[2]
           can == ext_state[f]
           L == Later(can, e)
           E == Earlier(can, e)
           new == IF e \in can THEN e ELSE IF L # {} THEN Min(L) ELSE HighestOf(E)
<1>1. ext_focus' = <<f, new>>
  BY DEF ExtUpdateParts
<1>2. ASSUME f \in Mail, ext_state \in Stop PROVE new \in {0} \cup can
  <2>1. L \subseteq can /\ E \subseteq can /\ can \in SUBSET Stops(f)
    BY <1>2 DEF Later, Earlier, Stop
  <2>2. L # {} => Min(L) \in can
    <3> HIDE DEF L, can
    <3>1. QED
      BY <1>2, <2>1, StopEnds
  <2>3. E # {} => Max(E) \in can
    <3> HIDE DEF E, can
    <3>1. QED
      BY <1>2, <2>1, StopEnds
  <2> HIDE DEF L, E, can
  <2>4. QED
    BY <2>2, <2>3 DEF HighestOf
<1> HIDE DEF new
<1>3. QED
  BY <1>1, <1>2 DEF FocusAt

\* What a request does to the focus.
LEMMA ExtFocus ==
  ASSUME SocketTypes, SocketInv, ExtHandle
  PROVE  /\ RequestType(Head(requests))
         /\ ext_focus' = <<ext_focus'[1], ext_focus'[2]>> /\ ext_focus'[1] \in Mail \cup {NoMail}
         /\ \/ acks' = Append(acks, ext_focus') /\ surplus' = surplus
            \/ acks' = acks \o <<ext_focus', ext_focus'>> /\ surplus' = surplus + 1
         /\ Head(requests).call \notin {"ClearMessages", "UpdateParts"} \cup Navigation =>
              ext_focus' = ext_focus
         /\ Head(requests).call # "State" => ext_state' = ext_state \/ Head(requests).call = "ClearMessages"
         /\ Head(requests).call = "ClearMessages" => ext_focus'[1] = NoMail
         /\ Head(requests).call \in {"Focus", "Ready"} => ext_focus' = <<Head(requests).mid, 0>>
         /\ Head(requests).call \in Navigation => Goes(ext_focus')
         /\ Head(requests).call = "UpdateParts" =>
              /\ ext_focus'[1] = ext_focus[1]
              /\ ext_focus[1] \in Mail /\ ext_state \in Stop => FocusAt(ext_focus[1], ext_focus'[2])
<1> DEFINE r == Head(requests)
           F(to) == to = <<to[1], to[2]>> /\ to[1] \in Mail \cup {NoMail}
           Answered == \/ acks' = Append(acks, ext_focus') /\ surplus' = surplus
                       \/ acks' = acks \o <<ext_focus', ext_focus'>> /\ surplus' = surplus + 1
           Rest == /\ F(ext_focus') /\ Answered
                   /\ r.call \notin {"ClearMessages", "UpdateParts"} \cup Navigation => ext_focus' = ext_focus
                   /\ r.call # "State" => ext_state' = ext_state \/ r.call = "ClearMessages"
                   /\ r.call = "ClearMessages" => ext_focus'[1] = NoMail
                   /\ r.call \in {"Focus", "Ready"} => ext_focus' = <<r.mid, 0>>
                   /\ r.call \in Navigation => Goes(ext_focus')
                   /\ r.call = "UpdateParts" =>
                        /\ ext_focus'[1] = ext_focus[1]
                        /\ ext_focus[1] \in Mail /\ ext_state \in Stop => FocusAt(ext_focus[1], ext_focus'[2])
<1>1. requests # <<>> /\ IsQueue(requests)
  BY DEF ExtHandle, SocketInv
<1>2. RequestType(r)
  BY <1>1, QueueTail DEF SocketTypes
<1>3. AckOnce => Answered
  BY DEF AckOnce
<1>4. \A twice : AckDrawn(twice) => Answered
  BY DEF AckDrawn, AckOnce
<1>5. F(ext_focus)
  BY DEF SocketTypes
<1> HIDE DEF Answered
<1>6. ASSUME r.call \notin {"ClearMessages", "UpdateParts"} \cup Navigation, ext_focus' = ext_focus,
             Answered, ext_state' = ext_state \/ r.call = "State"
      PROVE  Rest
  BY <1>5, <1>6 DEF Navigation
<1>7. ASSUME \/ HandlePage \/ HandleState \/ ExtUpdateTags \/ ExtWarning
             \/ ExtIndent \/ ExtImages \/ SetHidden \/ HandleMark
      PROVE  Rest
  <2>1. r.call \in {"Page", "State", "UpdateTags", "Warning", "Last", "Images", "Mark"} \cup Showing \cup Hiding
    BY <1>7 DEF HandlePage, HandleState, ExtUpdateTags, ExtWarning, ExtIndent, ExtImages,
                SetHidden, HandleMark, Handling
  <2>2. r.call \notin {"ClearMessages", "UpdateParts"} \cup Navigation
    BY <2>1 DEF Showing, Hiding, Navigation
  <2>3. ext_focus' = ext_focus /\ (ext_state' = ext_state \/ r.call = "State")
    BY <1>7 DEF HandlePage, HandleState, ExtUpdateTags, ExtWarning, ExtIndent, ExtImages,
                SetHidden, HandleMark, Handling, extension
  <2>4. Answered
    BY <1>3, <1>7 DEF HandlePage, HandleState, ExtUpdateTags, ExtWarning, ExtIndent, ExtImages, SetHidden, HandleMark
  <2> HIDE DEF Rest, r
  <2>5. QED
    BY <1>6, <2>2, <2>3, <2>4
<1>8. ASSUME ExtAdd PROVE Rest
  <2>1. r.call = "AddMessage" /\ ext_focus' = ext_focus /\ ext_state' = ext_state
    BY <1>8 DEF ExtAdd, Handling
  <2>2. Answered
    BY <1>4, <1>8 DEF ExtAdd
  <2>3. r.call \notin {"ClearMessages", "UpdateParts"} \cup Navigation
    BY <2>1 DEF Navigation
  <2> HIDE DEF Rest, r
  <2>4. QED
    BY <1>6, <2>1, <2>2, <2>3
<1>9. ASSUME ExtClear PROVE Rest
  <2>1. r.call = "ClearMessages" /\ ext_focus' = <<NoMail, -1>>
    BY <1>9 DEF ExtClear, Handling
  <2>2. Answered
    BY <1>3, <1>9 DEF ExtClear
  <2>3. QED
    BY <2>1, <2>2 DEF Navigation
<1>10. ASSUME ExtUpdateParts PROVE Rest
  <2>1. r.call = "UpdateParts" /\ ext_state' = ext_state
    BY <1>10 DEF ExtUpdateParts, Handling
  <2>2. Answered
    BY <1>4, <1>10 DEF ExtUpdateParts
  <2>3. /\ ext_focus' = <<ext_focus[1], ext_focus'[2]>>
        /\ ext_focus[1] \in Mail /\ ext_state \in Stop => FocusAt(ext_focus[1], ext_focus'[2])
    BY <1>10, PartsFits
  <2>4. F(ext_focus') /\ ext_focus'[1] = ext_focus[1]
    BY <1>5, <2>3
  <2>5. QED
    BY <2>1, <2>2, <2>3, <2>4 DEF Navigation
<1>11. ASSUME HandleNavigate PROVE Rest
  <2>1. r.call \in Navigation /\ ext_state' = ext_state
    BY <1>11 DEF HandleNavigate, Handling, Navigation
  <2>2. Answered
    BY <1>3, <1>11 DEF HandleNavigate
  <2>3. Goes(ext_focus') /\ (r.call \in {"Focus", "Ready"} => ext_focus' = <<r.mid, 0>>)
    BY <1>1, <1>11, NavigateGoes
  <2>4. F(ext_focus')
    BY <2>3 DEF Goes
  <2>5. QED
    BY <2>1, <2>2, <2>3, <2>4 DEF Navigation
<1>12. Rest
  BY <1>7, <1>8, <1>9, <1>10, <1>11 DEF ExtHandle
<1>13. QED
  BY <1>2, <1>12 DEF Answered

-----------------------------------------------------------------------------
(* Without replies left over, one request or one reply is on its way while *)
(* the program waits.                                                      *)

LEMMA OneOnItsWay ==
  ASSUME SocketInv, synced
  PROVE  /\ ~waiting => requests = <<>> /\ acks = <<>>
         /\ waiting /\ requests # <<>> => acks = <<>> /\ Tail(requests) = <<>>
         /\ waiting /\ acks # <<>> => requests = <<>> /\ Tail(acks) = <<>>
         /\ waiting /\ acks = <<>> => requests # <<>>
<1> DEFINE r == Len(requests)
           a == Len(acks)
<1>1. IsQueue(requests) /\ IsQueue(acks) /\ waiting \in BOOLEAN
  BY DEF SocketInv
<1>2. r + a = IF waiting THEN 1 ELSE 0
  BY DEF SocketInv, AckAccounting, synced
<1>3. ASSUME NEW s, IsQueue(s)
      PROVE  Len(s) \in Nat /\ (Len(s) = 0 <=> s = <<>>) /\ (Len(s) = 1 => Tail(s) = <<>>)
  <2> DEFINE S == ToSet(s)
  <2>1. s \in Seq(S)
    BY <1>3 DEF IsQueue
  <2> HIDE DEF S
  <2>2. \A q \in Seq(S) : Len(q) \in Nat /\ (Len(q) = 0 <=> q = <<>>)
    OBVIOUS
  <2>3. ASSUME Len(s) = 1
        PROVE  Tail(s) = <<>>
    <3>1. s # <<>> /\ Tail(s) \in Seq(S) /\ Len(Tail(s)) = 0
      BY <2>1, <2>3
    <3>2. QED
      BY <2>2, <3>1
  <2>4. QED
    BY <2>1, <2>2, <2>3
<1>4. /\ r \in Nat /\ (r = 0 <=> requests = <<>>) /\ (r = 1 => Tail(requests) = <<>>)
      /\ a \in Nat /\ (a = 0 <=> acks = <<>>) /\ (a = 1 => Tail(acks) = <<>>)
  BY <1>1, <1>3
<1> HIDE DEF r, a
<1>5. QED
  BY <1>1, <1>2, <1>4

\* The calls of a page that is steady.
LEMMA SteadyCalls ==
  ASSUME SocketTypes, Steady, todo # <<>>
  PROVE  /\ Head(todo).call \in PlainCalls \cup {"UpdateTags", "UpdateParts", "State"}
         /\ Head(todo).call \in PlainCalls => Plain(todo)
         /\ Head(todo).call = "UpdateTags" => Tells(todo) /\ Tail(todo) = <<StateCall>>
         /\ Head(todo).call = "UpdateParts" => \E m \in Mail : todo = Swap(m)
         /\ Head(todo).call = "State" =>
              (Tells(todo) /\ Tail(todo) = <<>>) \/ (\E m \in Mail : Tail(todo) = Swap(m) /\ Len(todo) = 2)
<1>1. CASE Plain(todo)
  <2>1. Head(todo) \in ToSet(todo)
    BY TailFacts DEF SocketTypes
  <2>2. QED
    BY <1>1, <2>1 DEF Plain, PlainCalls, Navigation
<1>2. CASE Tells(todo)
  <2>1. PICK m \in Mail : todo = <<Call("UpdateTags", m), StateCall>> \/ todo = <<StateCall>>
    BY <1>2 DEF Tells
  <2>2. CASE todo = <<Call("UpdateTags", m), StateCall>>
    <3>1. Head(todo).call = "UpdateTags" /\ Tail(todo) = <<StateCall>>
      BY <2>2 DEF Call
    <3>2. QED
      BY <1>2, <3>1 DEF PlainCalls, Navigation
  <2>3. CASE todo = <<StateCall>>
    <3>1. Head(todo).call = "State" /\ Tail(todo) = <<>>
      BY <2>3 DEF Call, StateCall
    <3>2. QED
      BY <1>2, <3>1 DEF PlainCalls, Navigation
  <2>4. QED
    BY <2>1, <2>2, <2>3
<1>3. CASE Swaps(todo)
  <2>1. PICK m \in Mail : todo = <<StateCall, Call("UpdateParts", m)>> \/ todo = Swap(m)
    BY <1>3 DEF Swaps
  <2>2. CASE todo = <<StateCall, Call("UpdateParts", m)>>
    <3>1. Head(todo).call = "State" /\ Tail(todo) = Swap(m) /\ Len(todo) = 2
      BY <2>2 DEF Call, StateCall, Swap
    <3>2. QED
      BY <3>1 DEF PlainCalls, Navigation
  <2>3. CASE todo = Swap(m)
    <3>1. Head(todo).call = "UpdateParts"
      BY <2>3 DEF Call, Swap
    <3>2. QED
      BY <2>3, <3>1 DEF PlainCalls, Navigation
  <2>4. QED
    BY <2>1, <2>2, <2>3
<1>4. QED
  BY <1>1, <1>2, <1>3 DEF Steady

LEMMA SendWire ==
  ASSUME StateTypes, SocketTypes, SocketInv, Wire, Stage, Send
  PROVE  Wire'
<1>1. /\ todo' = todo /\ acks' = acks /\ ext_focus' = ext_focus /\ surplus' = surplus /\ ~waiting
      /\ requests' = Append(requests, NextRequest)
      /\ NextRequest.call = NextCalls /\ NextRequest.mid = NextOn
      /\ NextCalls # "ShownScrolled" => Head(todo).mid = NextOn
  BY SendFacts DEF extension
<1>2. synced => requests = <<>>
  BY <1>1, OneOnItsWay
<1>3. synced => Head(requests') = NextRequest
  BY <1>1, <1>2
<1>4. synced => RequestOfNow'
  BY <1>1, <1>3 DEF RequestOfNow, NextCalls
<1>5. synced' => synced
  BY <1>1 DEF synced
<1>6. synced => AckOfNow'
  BY <1>1 DEF Wire, AckOfNow
<1>7. QED
  BY <1>4, <1>5, <1>6 DEF Wire

LEMMA SendStage ==
  ASSUME StateTypes, SocketTypes, SocketInv, Wire, Stage, Send
  PROVE  Stage'
<1>1. /\ todo # <<>> /\ todo' = todo /\ acks' = acks /\ ext_focus' = ext_focus /\ surplus' = surplus
      /\ ready' = ready /\ focused_message' = focused_message /\ current_element' = current_element
      /\ NextCalls # "AddMessage" => focusable' = focusable
  BY SendFacts DEF extension, focus
<1>2. synced' = synced /\ NoFocus' = NoFocus
  BY <1>1 DEF synced, NoFocus
<1>3. CASE SetsUp(todo)
  BY <1>1, <1>3 DEF Stage
<1>4. CASE Clearing
  BY <1>1, <1>2, <1>4 DEF Stage, Clearing
<1>5. CASE Drawing
  BY <1>1, <1>2, <1>5 DEF Stage, Drawing
<1>6. CASE Finishing
  BY <1>1, <1>2, <1>6 DEF Stage, Finishing
<1>7. CASE Steady
  <2>1. NextCalls # "AddMessage"
    BY <1>1, <1>7, SteadyCalls DEF NextCalls, PlainCalls, Navigation
  <2>2. FocusFits' = FocusFits /\ FocusKnown' = FocusKnown
    BY <1>1, <2>1 DEF FocusFits, FocusKnown
  <2>3. QED
    BY <1>1, <1>2, <1>7, <2>2 DEF Stage, Steady
<1>8. QED
  BY <1>1, <1>3, <1>4, <1>5, <1>6, <1>7 DEF Stage, Resting

LEMMA ExtTypes ==
  ASSUME StateTypes, SocketTypes, SocketInv, ExtHandle
  PROVE  StateTypes' /\ SocketTypes'
<1>1. /\ UNCHANGED <<unread, missing, expanded, marked, redrawn, focusable, current_element,
                     focused_message, todo, waiting>>
      /\ requests # <<>> /\ requests' = Tail(requests)
  BY DEF ExtHandle, mthread, state, focus
<1>2. StateTypes'
  BY <1>1 DEF StateTypes
<1>3. \A r \in ToSet(requests') : RequestType(r)
  BY <1>1, QueueTail DEF SocketTypes, SocketInv
<1>4. ext_focus' = <<ext_focus'[1], ext_focus'[2]>> /\ ext_focus'[1] \in Mail \cup {NoMail}
  BY ExtFocus
<1>5. ToSet(acks') = ToSet(acks) \cup {ext_focus'}
  <2> DEFINE S == ToSet(acks) \cup {ext_focus'}
             f == ext_focus'
  <2>1. IsQueue(acks)
    BY DEF SocketInv
  <2>2. acks' = Append(acks, f) => ToSet(acks') = ToSet(acks) \cup {f}
    <3> HIDE DEF f
    <3>1. QED
      BY <2>1, QueueAppend
  <2>3. acks' = acks \o <<f, f>> => ToSet(acks') = ToSet(acks) \cup {f}
    <3>1. acks \in Seq(S) /\ f \in S
      BY <2>1, SeqMonotonic DEF IsQueue
    <3> HIDE DEF f, S
    <3>2. QED
      BY <3>1, AppendTwoFacts
  <2>4. QED
    BY <2>2, <2>3, ExtFocus
<1>6. \A a \in ToSet(acks') : a[1] \in Mail \cup {NoMail}
  BY <1>4, <1>5 DEF SocketTypes
<1>7. QED
  BY <1>1, <1>2, <1>3, <1>4, <1>6 DEF SocketTypes, RequestType

\* A reply carries the focus of now.
LEMMA ExtWire ==
  ASSUME StateTypes, SocketTypes, SocketInv, Wire, ExtHandle
  PROVE  /\ Wire'
         /\ synced' => /\ synced /\ waiting /\ acks = <<>> /\ Tail(requests) = <<>>
                       /\ RequestOfNow /\ acks' # <<>>
<1>1. surplus' = surplus \/ surplus' = surplus + 1
  BY ExtFocus
<1>2. synced' => synced /\ surplus' = surplus
  BY <1>1 DEF synced, SocketInv
<1>3. requests # <<>> /\ requests' = Tail(requests) /\ waiting' = waiting
  BY ExtFacts
<1>4. ASSUME synced'
      PROVE  /\ synced /\ waiting /\ acks = <<>> /\ Tail(requests) = <<>>
             /\ RequestOfNow /\ acks' # <<>> /\ Head(acks') = ext_focus'
  <2>1. synced /\ surplus' = surplus
    BY <1>2, <1>4
  <2>2. waiting \in BOOLEAN
    BY DEF SocketInv
  <2>3. waiting /\ acks = <<>> /\ Tail(requests) = <<>>
    BY <1>3, <2>1, <2>2, OneOnItsWay
  <2>4. surplus # surplus + 1
    BY DEF SocketInv
  <2>5. acks' = Append(<<>>, ext_focus')
    BY <2>1, <2>3, <2>4, ExtFocus
  <2>6. acks' # <<>> /\ Head(acks') = ext_focus'
    <3> DEFINE f == ext_focus'
    <3>1. acks' = <<f>>
      BY <2>5
    <3> HIDE DEF f
    <3>2. QED
      BY <3>1 DEF f
  <2>7. QED
    BY <2>1, <2>3, <2>6 DEF Wire
<1>5. synced' => AckOfNow'
  BY <1>4 DEF AckOfNow
<1>6. synced' => RequestOfNow'
  BY <1>3, <1>4 DEF RequestOfNow
<1>7. QED
  BY <1>4, <1>5, <1>6 DEF Wire

\* The extension has the state the program has, unless it is to be sent.
LEMMA StateKnown ==
  ASSUME SocketInv, ShowsRight, ready, waiting, requests # <<>>, Tail(requests) = <<>>,
         Head(requests).call \notin {"State", "ClearMessages"}, StateCall \notin ToSet(Tail(todo))
  PROVE  ext_state = focusable
<1> DEFINE r == Head(requests)
<1>1. PICK y : Leads(requests, PageNow, y) /\ PageRight(y)
  BY DEF ShowsRight
<1>2. Leads(<<>>, After(PageNow, r), y)
  BY <1>1, LeadsTail DEF SocketInv
<1>3. After(PageNow, r) = y
  <2> DEFINE x == After(PageNow, r)
  <2>1. Leads(<<>>, x, y)
    BY <1>2
  <2> HIDE DEF x
  <2>2. x = y
    BY <2>1, LeadsEmpty
  <2>3. QED
    BY <2>2 DEF x
<1>4. ~ToCome(StateCall)
  BY DEF ToCome, unsent
<1>5. y.state = focusable
  BY <1>1, <1>4 DEF PageRight, StateRight
<1>6. y.state = PageNow.state
  <2>1. r.call # "State" /\ r.call # "ClearMessages"
    OBVIOUS
  <2> HIDE DEF r
  <2>2. QED
    BY <1>3, <2>1 DEF After
<1>7. QED
  BY <1>5, <1>6 DEF PageNow

LEMMA ExtStage ==
  ASSUME StateTypes, SocketTypes, SocketInv, ShowsRight, Wire, Stage, ExtHandle
  PROVE  Stage'
<1> DEFINE c == Head(todo).call
           r == Head(requests)
<1>1. /\ UNCHANGED <<ready, focused_message, current_element, focusable, todo, waiting>>
      /\ requests # <<>>
  BY DEF ExtHandle, state, focus
<1>2. ASSUME synced'
      PROVE  /\ synced /\ waiting /\ acks = <<>> /\ Tail(requests) = <<>> /\ acks' # <<>>
             /\ todo # <<>> /\ r.call = c /\ (c # "ShownScrolled" => r.mid = Head(todo).mid)
  <2>1. /\ synced /\ waiting /\ acks = <<>> /\ Tail(requests) = <<>> /\ acks' # <<>> /\ RequestOfNow
    BY <1>2, ExtWire
  <2>2. QED
    BY <1>1, <2>1 DEF RequestOfNow, SocketTypes
<1>3. CASE Resting \/ SetsUp(todo)
  BY <1>1, <1>3 DEF Stage, Resting
<1>4. CASE Clearing
  <2>1. c = "ClearMessages"
    BY <1>4 DEF Clearing, Clears, Clear, Call
  <2>2. synced' => NoFocus'
    BY <1>2, <2>1, ExtFocus DEF NoFocus
  <2>3. QED
    BY <1>1, <1>4, <2>2 DEF Stage, Clearing
<1>5. CASE Drawing
  <2>1. ASSUME synced'
        PROVE  NoFocus'
    <3>1. c \notin {"ClearMessages", "UpdateParts"} \cup Navigation
      <4>1. Head(todo) \in DrawCalls \/ Head(todo) = StateCall \/ Head(todo) = Call("Last", NoMail)
        BY <1>5, DrawsFacts DEF Drawing, SocketTypes
      <4>2. QED
        BY <4>1 DEF DrawCalls, StateCall, Call, Navigation
    <3>2. ext_focus' = ext_focus
      BY <1>2, <2>1, <3>1, ExtFocus
    <3>3. QED
      BY <1>2, <1>5, <2>1, <3>2 DEF Drawing, NoFocus
  <2>2. QED
    BY <1>1, <1>5, <2>1 DEF Stage, Drawing
<1>6. CASE Finishing
  <2>1. PICK f \in Mail : todo = <<Call("Shown", f), Call("Ready", f)>> \/ todo = <<Call("Ready", f)>>
    BY <1>6 DEF Finishing, Finishes
  <2>2. CASE c = "Ready"
    <3>1. synced' => ext_focus' = <<Head(todo).mid, 0>>
      BY <1>2, <2>2, ExtFocus
    <3>2. QED
      BY <1>1, <1>2, <1>6, <2>2, <3>1 DEF Stage, Finishing
  <2>3. CASE c = "Shown"
    <3>1. synced' => ext_focus' = ext_focus
      BY <1>2, <2>3, ExtFocus DEF Navigation
    <3>2. synced' => NoFocus
      BY <1>2, <1>6 DEF Finishing
    <3>3. synced' => NoFocus'
      BY <3>1, <3>2 DEF NoFocus
    <3>4. QED
      BY <1>1, <1>6, <2>3, <3>3 DEF Stage, Finishing
  <2>4. QED
    BY <2>1, <2>2, <2>3 DEF Call
<1>7. CASE Steady
  <2>1. SUFFICES ASSUME synced'
                 PROVE  /\ ext_focus'[1] \in Mail
                        /\ FocusFits' \/ (Swaps(todo) /\ Len(todo) = 2)
    BY <1>1, <1>2, <1>7 DEF Stage, Steady
  <2>2. ext_focus[1] \in Mail /\ (FocusFits \/ Swaps(todo))
    BY <1>2, <1>7, <2>1 DEF Steady
  <2>3. ext_focus[1] \in Mail /\ ready /\ focusable \in Stop
    BY <1>7, <2>2 DEF Steady, StateTypes
  <2>4. ASSUME ext_focus' = ext_focus, FocusFits
        PROVE  FocusFits' /\ ext_focus'[1] \in Mail
    BY <1>1, <2>3, <2>4 DEF FocusFits
  <2>5. CASE c \in PlainCalls
    <3>1. Plain(todo) /\ c \notin {"State", "ClearMessages", "UpdateParts", "UpdateTags"}
      BY <1>2, <1>7, <2>1, <2>5, SteadyCalls DEF PlainCalls, Navigation
    <3>2. StateCall \notin ToSet(Tail(todo))
      <4>1. ToSet(todo) = {Head(todo)} \cup ToSet(Tail(todo))
        BY <1>2, <2>1, TailFacts DEF SocketTypes
      <4>2. QED
        BY <3>1, <4>1 DEF Plain, StateCall, Call, PlainCalls, Navigation
    <3>3. ext_state = focusable
      BY <1>1, <1>2, <2>1, <2>3, <3>1, <3>2, StateKnown
    <3>4. ~Swaps(todo)
      BY <3>1 DEF Swaps, Swap, StateCall, Call
    <3>5. FocusAt(ext_focus[1], ext_focus[2])
      BY <2>2, <3>3, <3>4 DEF FocusFits, FocusAt
    <3>6. CASE c \in Navigation
      <4>1. Goes(ext_focus')
        BY <1>2, <2>1, <3>6, ExtFocus
      <4>2. ext_focus'[1] \in Mail /\ FocusAt(ext_focus'[1], ext_focus'[2])
        BY <2>3, <3>3, <3>5, <4>1 DEF Goes
      <4>3. QED
        BY <1>1, <3>3, <4>2 DEF FocusAt, FocusFits
    <3>7. CASE c \notin Navigation
      <4>1. ext_focus' = ext_focus
        BY <1>2, <2>1, <3>1, <3>7, ExtFocus
      <4>2. QED
        BY <2>2, <2>4, <3>4, <4>1
    <3>8. QED
      BY <3>6, <3>7
  <2>6. CASE c = "UpdateTags"
    <3>1. ext_focus' = ext_focus
      BY <1>2, <2>1, <2>6, ExtFocus DEF Navigation
    <3>2. ~Swaps(todo)
      BY <2>6 DEF Swaps, Swap, StateCall, Call
    <3>3. QED
      BY <2>2, <2>4, <3>1, <3>2
  <2>7. CASE c = "State"
    <3>1. ext_focus' = ext_focus
      BY <1>2, <2>1, <2>7, ExtFocus DEF Navigation
    <3>2. CASE FocusFits
      BY <2>4, <3>1, <3>2
    <3>3. CASE Swaps(todo)
      <4>1. Len(todo) = 2
        BY <2>7, <3>3 DEF Swaps, Swap, StateCall, Call
      <4>2. QED
        BY <2>3, <3>1, <3>3, <4>1
    <3>4. QED
      BY <2>2, <3>2, <3>3
  <2>8. CASE c = "UpdateParts"
    <3>1. PICK m \in Mail : todo = Swap(m)
      BY <1>2, <1>7, <2>1, <2>8, SteadyCalls
    <3>2. StateCall \notin ToSet(Tail(todo))
      BY <3>1 DEF Swap, ToSet
    <3>3. ext_state = focusable
      BY <1>1, <1>2, <2>1, <2>3, <2>8, <3>2, StateKnown
    <3>4. ext_focus'[1] = ext_focus[1] /\ FocusAt(ext_focus[1], ext_focus'[2])
      BY <1>2, <2>1, <2>3, <2>8, <3>3, ExtFocus
    <3>5. QED
      BY <1>1, <2>3, <3>3, <3>4 DEF FocusAt, FocusFits
  <2>9. QED
    BY <1>2, <1>7, <2>1, <2>5, <2>6, <2>7, <2>8, SteadyCalls
<1>8. QED
  BY <1>3, <1>4, <1>5, <1>6, <1>7 DEF Stage

-----------------------------------------------------------------------------
(* A call returns.                                                         *)

\* There is a message for the first focus.
LEMMA FirstFocusFound ==
  ASSUME unread \subseteq Mail, NEW f \in Mail \cup {NoMail}
  PROVE  FirstFocus(f) \in Mail
<1>1. Mail # {} /\ IsFiniteSet(Mail) /\ Age \in [Mail -> Nat]
  BY PageAssumption
<1>2. ASSUME NEW S \in SUBSET Mail, S # {}
      PROVE  \E m \in S : \A n \in S : Age[m] <= Age[n]
  <2>1. {Age[n] : n \in S} \in SUBSET Nat /\ {Age[n] : n \in S} # {}
    BY <1>1, <1>2
  <2>2. PICK a \in {Age[n] : n \in S} : \A k \in {Age[n] : n \in S} : a <= k
    BY <2>1, LeastOf
  <2>3. QED
    BY <2>2
<1>3. \E m \in Mail : \A n \in Mail : Age[n] <= Age[m]
  <2>1. PICK b \in Nat : \A n \in Mail : Age[n] <= b
    BY <1>1, Bounded
  <2> DEFINE left == {b - Age[n] : n \in Mail}
  <2>2. \A n \in Mail : Age[n] \in Nat
    BY <1>1
  <2>3. left \in SUBSET Nat
    BY <2>1, <2>2
  <2>4. left # {}
    BY <1>1
  <2>5. PICK a \in left : \A k \in left : a <= k
    <3> HIDE DEF left
    <3>1. QED
      BY <2>3, <2>4, LeastOf
  <2>6. PICK m \in Mail : a = b - Age[m]
    BY <2>5
  <2>7. \A n \in Mail : b - Age[m] <= b - Age[n]
    BY <2>5, <2>6
  <2>8. QED
    BY <2>1, <2>2, <2>6, <2>7
<1>4. (CHOOSE m \in Mail : \A n \in Mail : Age[n] <= Age[m]) \in Mail
  BY <1>3
<1>5. unread # {} => (CHOOSE m \in unread : \A n \in unread : Age[m] <= Age[n]) \in unread
  BY <1>2
<1>6. QED
  BY <1>4, <1>5 DEF FirstFocus

LEMMA AckedFacts ==
  ASSUME Acked
  PROVE  /\ waiting /\ waiting' = FALSE /\ acks # <<>> /\ acks' = Tail(acks)
         /\ UNCHANGED <<unread, missing, requests, extension, surplus>>
         /\ Head(todo).call # "Last" => todo' = Tail(todo)
         /\ Head(todo).call = "Last" =>
              todo' = <<Call("Shown", focused_message'), Call("Ready", focused_message')>>
         /\ ready' = (ready \/ Head(todo).call = "Ready")
         /\ Head(todo).call = "ClearMessages" =>
              /\ expanded' = Mail /\ marked' = {} /\ focusable' = [m \in Mail |-> {}] /\ redrawn' = {}
              /\ focused_message' = NoMail /\ current_element' = [m \in Mail |-> 0]
         /\ Head(todo).call # "ClearMessages" =>
              /\ UNCHANGED <<marked, focusable, redrawn>>
              /\ expanded' = IF Head(todo).call \in Hiding THEN expanded \ {Head(todo).mid} ELSE expanded
              /\ current_element' = IF Head(todo).call # "Page" /\ Head(acks)[1] # NoMail
                                    THEN [current_element EXCEPT ![Head(acks)[1]] = Head(acks)[2]]
                                    ELSE current_element
<1>1. Head(todo).call = "ClearMessages" => Forget
  BY DEF Acked, HandleAck
<1>2. Head(todo).call # "ClearMessages" =>
        /\ Return(Head(todo).call, Head(todo).mid)
        /\ current_element' = IF Head(todo).call # "Page" /\ Head(acks)[1] # NoMail
                              THEN [current_element EXCEPT ![Head(acks)[1]] = Head(acks)[2]]
                              ELSE current_element
  BY DEF Acked, HandleAck
<1>3. QED
  BY <1>1, <1>2 DEF Acked, Forget, Return, mthread

\* Where the program takes the focus to be.
LEMMA AckedFocus ==
  ASSUME StateTypes, SocketTypes, SocketInv, Stage, Acked
  PROVE  /\ focused_message' \in Mail \cup {NoMail}
         /\ Head(todo).call = "Last" => focused_message' \in Mail
         /\ Head(todo).call \notin {"ClearMessages", "Page", "AddMessage", "ShownFocused", "Last"} =>
              focused_message' = IF Head(acks)[1] # NoMail THEN Head(acks)[1] ELSE focused_message
<1> DEFINE c == Head(todo).call
           m == Head(acks)[1]
           now == IF c # "Page" /\ m # NoMail THEN m ELSE focused_message
<1>1. acks # <<>> /\ todo # <<>>
  BY AckedFacts DEF SocketTypes
<1>2. m \in Mail \cup {NoMail}
  <2>1. Head(acks) \in ToSet(acks)
    BY <1>1, QueueTail DEF SocketInv
  <2>2. QED
    BY <2>1 DEF SocketTypes
<1>3. now \in Mail \cup {NoMail}
  BY <1>2 DEF StateTypes
<1>4. FirstFocus(now) \in Mail
  <2> HIDE DEF now
  <2>1. QED
    BY <1>3, FirstFocusFound DEF StateTypes
<1>5. c # "ClearMessages" =>
        focused_message' =
          IF c = "ShownFocused" \/ (c = "AddMessage" /\ edit_mode) THEN Head(todo).mid
          ELSE IF c = "Last" THEN FirstFocus(now) ELSE now
  BY DEF Acked, HandleAck
<1>6. c \in {"ShownFocused", "AddMessage"} => Head(todo).mid \in Mail
  <2>1. Head(todo) \in Calls
    BY <1>1, NextCall
  <2>2. QED
    BY <2>1 DEF Calls, OnMail
<1>7. c = "ClearMessages" => focused_message' = NoMail
  BY AckedFacts
<1> HIDE DEF now, m
<1>8. focused_message' \in Mail \cup {NoMail}
  BY <1>3, <1>4, <1>5, <1>6, <1>7
<1>9. c = "Last" => focused_message' \in Mail
  BY <1>4, <1>5
<1>10. QED
  BY <1>5, <1>8, <1>9 DEF now, m

LEMMA AckedTypes ==
  ASSUME StateTypes, SocketTypes, SocketInv, Stage, Acked
  PROVE  StateTypes' /\ SocketTypes'
<1>1. acks # <<>> /\ todo # <<>>
  BY AckedFacts DEF SocketTypes
<1>2. StateTypes'
  <2>1. {unread', missing', expanded', marked', redrawn'} \subseteq SUBSET Mail
    BY AckedFacts DEF StateTypes
  <2>2. focusable' \in Stop
    <3>1. [m \in Mail |-> {}] \in Stop
      BY DEF Stop
    <3>2. QED
      BY <3>1, AckedFacts DEF StateTypes
  <2>3. current_element' = [m \in Mail |-> current_element'[m]]
    <3>1. CASE current_element' = [m \in Mail |-> 0]
      BY <3>1
    <3>2. CASE current_element' = current_element
      BY <3>2 DEF StateTypes
    <3>3. CASE current_element' = [current_element EXCEPT ![Head(acks)[1]] = Head(acks)[2]]
      <4> DEFINE a == Head(acks)[1]
                 b == Head(acks)[2]
      <4>1. current_element = [m \in Mail |-> current_element[m]]
        BY DEF StateTypes
      <4>2. current_element' = [current_element EXCEPT ![a] = b]
        BY <3>3
      <4> HIDE DEF a, b
      <4>3. QED
        BY <4>1, <4>2
    <3>4. QED
      BY <3>1, <3>2, <3>3, AckedFacts
  <2>4. QED
    BY <2>1, <2>2, <2>3, AckedFocus DEF StateTypes
<1>3. todo' \in Seq(Calls)
  <2>1. CASE Head(todo).call = "Last"
    <3>1. PICK f \in Mail : todo' = <<Call("Shown", f), Call("Ready", f)>>
      BY <2>1, AckedFacts, AckedFocus
    <3>2. Call("Shown", f) \in Calls /\ Call("Ready", f) \in Calls
      BY DEF Call, Calls, Request, Showing, Navigation
    <3>3. QED
      BY <3>1, <3>2
  <2>2. CASE Head(todo).call # "Last"
    BY <1>1, <2>2, AckedFacts, NextCall
  <2>3. QED
    BY <2>1, <2>2
<1>4. /\ requests' = requests /\ ext_focus' = ext_focus /\ waiting' = FALSE
      /\ ToSet(acks') \subseteq ToSet(acks)
  <2>1. acks' = Tail(acks)
    BY AckedFacts
  <2>2. ToSet(acks) = {Head(acks)} \cup ToSet(Tail(acks))
    BY <1>1, QueueTail DEF SocketInv
  <2>3. QED
    BY <2>1, <2>2, AckedFacts DEF extension
<1>5. QED
  BY <1>2, <1>3, <1>4 DEF SocketTypes, RequestType

\* What is to come after a call has returned.
LEMMA AckedUnsent ==
  ASSUME StateTypes, SocketTypes, SocketInv, Stage, Acked
  PROVE  /\ \A c : c.call \notin {"Shown", "Ready"} => (ToCome(c)' <=> ToCome(c))
         /\ Head(todo) # Clear => clearing' = clearing
         /\ Head(todo) = Clear <=> Head(todo).call = "ClearMessages"
<1>1. waiting /\ ~waiting' /\ todo # <<>>
  BY AckedFacts DEF SocketTypes
<1>2. unsent = Tail(todo) /\ unsent' = todo'
  BY <1>1 DEF unsent
<1>3. ToSet(todo) = {Head(todo)} \cup ToSet(Tail(todo))
  BY <1>1, TailFacts DEF SocketTypes
<1>4. Head(todo) = Clear <=> Head(todo).call = "ClearMessages"
  BY <1>1, NextCall DEF Clear, Call, PlainCalls, Navigation
<1>5. CASE Head(todo).call = "Last"
  <2>1. Drawing
    BY <1>1, <1>5, NextCall DEF PlainCalls, Navigation, Call, Clear
  <2>2. Tail(todo) = <<>>
    BY <1>5, <2>1, DrawsFacts DEF Drawing, SocketTypes, StateCall, DrawCalls, Call
  <2>3. PICK f : todo' = <<Call("Shown", f), Call("Ready", f)>>
    BY <1>5, AckedFacts
  <2>4. ToSet(todo') = {Call("Shown", f), Call("Ready", f)}
    BY <2>3 DEF ToSet
  <2>5. ToSet(Tail(todo)) = {}
    BY <2>2 DEF ToSet
  <2>6. \A c : c.call \notin {"Shown", "Ready"} => ~ToCome(c)' /\ ~ToCome(c)
    BY <1>2, <2>4, <2>5 DEF ToCome, Call
  <2>7. clearing' = FALSE /\ clearing = FALSE
    BY <1>3, <1>5, <2>4, <2>5 DEF clearing, Clear, Call
  <2>8. QED
    BY <1>4, <2>6, <2>7
<1>6. CASE Head(todo).call # "Last"
  <2>1. todo' = Tail(todo)
    BY <1>6, AckedFacts
  <2>2. \A c : ToCome(c)' <=> ToCome(c)
    BY <1>2, <2>1 DEF ToCome
  <2>3. Head(todo) # Clear => (Clear \in ToSet(todo)) = (Clear \in ToSet(todo'))
    BY <1>3, <2>1
  <2>4. clearing' = (Clear \in ToSet(todo')) /\ clearing = (Clear \in ToSet(todo))
    BY DEF clearing, Clear, Call
  <2>5. QED
    BY <1>4, <2>2, <2>3, <2>4
<1>7. QED
  BY <1>5, <1>6

LEMMA AckedRight ==
  ASSUME StateTypes, SocketTypes, SocketInv, Stage, Acked, NEW x, PageRight(x)
  PROVE  PageRight(x)'
<1>1. waiting /\ ~waiting' /\ UNCHANGED <<unread, missing>> /\ todo # <<>>
  BY AckedFacts DEF SocketTypes
<1>2. /\ \A m : (ToCome(Call("AddMessage", m))' <=> ToCome(Call("AddMessage", m)))
      /\ \A m : (ToCome(Call("Mark", m))' <=> ToCome(Call("Mark", m)))
      /\ \A m : (ToCome(Call("UpdateTags", m))' <=> ToCome(Call("UpdateTags", m)))
      /\ \A m : (ToCome(Call("UpdateParts", m))' <=> ToCome(Call("UpdateParts", m)))
      /\ (ToCome(Clear)' <=> ToCome(Clear)) /\ (ToCome(StateCall)' <=> ToCome(StateCall))
  <2>1. \A c : c.call \notin {"Shown", "Ready"} => (ToCome(c)' <=> ToCome(c))
    BY AckedUnsent
  <2>2. QED
    BY <2>1 DEF Call, Clear, StateCall
<1>3. Cleared(x)'
  BY <1>1 DEF Cleared
<1>4. CASE Head(todo) # Clear
  <2>1. /\ UNCHANGED <<marked, focusable, redrawn, clearing>>
        /\ expanded' = open
    BY <1>1, <1>4, AckedFacts, AckedUnsent DEF open
  <2>2. open' = open
    BY <1>1, <2>1 DEF open
  <2>3. DrawnRight(x)' /\ HiddenRight(x)'
    BY <1>2, <2>1, <2>2 DEF PageRight, DrawnRight, HiddenRight
  <2>4. MarksRight(x)' /\ TagsRight(x)'
    BY <1>1, <1>2, <2>1 DEF PageRight, MarksRight, TagsRight
  <2>5. PartsRight(x)'
    BY <1>1, <1>2, <2>1 DEF PageRight, PartsRight, OneShown, Fitting
  <2>6. StateRight(x)' /\ RedrawnRight'
    BY <1>2, <2>1 DEF PageRight, StateRight, RedrawnRight
  <2>7. QED
    BY <1>3, <2>3, <2>4, <2>5, <2>6 DEF PageRight
<1>5. CASE Head(todo) = Clear
  <2>1. Clears(todo) /\ Tail(todo) \in Seq(Calls)
    BY <1>1, <1>5, NextCall DEF Clearing, Clear, Call, PlainCalls, Navigation
  <2>2. \A m \in Mail : Call("AddMessage", m) \in ToSet(Tail(todo))
    BY <2>1 DEF Clears
  <2>3. StateCall \in ToSet(Tail(todo))
    <3>1. PICK m : m \in Mail
      BY PageAssumption
    <3>2. QED
      BY <2>1, <2>2, <3>1, DrawsState DEF Clears
  <2>4. \A m \in Mail : Call("UpdateParts", m) \notin ToSet(Tail(todo))
    BY <2>1, DrawsFacts DEF Clears, DrawCalls, StateCall, Call
  <2>5. unsent = Tail(todo)
    BY <1>1 DEF unsent
  <2>6. /\ \A m \in Mail : ToCome(Call("AddMessage", m))' /\ ~ToCome(Call("UpdateParts", m))'
        /\ ToCome(StateCall)'
    BY <1>2, <2>2, <2>3, <2>4, <2>5 DEF ToCome
  <2>7. x.hidden = {} /\ x.marks = {}
    BY <1>1, <1>5 DEF PageRight, Cleared
  <2>8. marked' = {} /\ expanded' = Mail
    BY <1>5, AckedFacts DEF Clear, Call
  <2>9. open' = Mail
    BY <1>1, <2>8 DEF open
  <2>10. DrawnRight(x)' /\ TagsRight(x)' /\ PartsRight(x)'
    BY <2>6 DEF DrawnRight, TagsRight, PartsRight
  <2>11. HiddenRight(x)' /\ MarksRight(x)'
    BY <2>7, <2>8, <2>9 DEF HiddenRight, MarksRight
  <2>12. StateRight(x)' /\ RedrawnRight'
    BY <2>6 DEF StateRight, RedrawnRight
  <2>13. QED
    BY <1>3, <2>10, <2>11, <2>12 DEF PageRight
<1>6. QED
  BY <1>4, <1>5

LEMMA AckedShows ==
  ASSUME StateTypes, SocketTypes, SocketInv, ShowsRight, Stage, Acked
  PROVE  ShowsRight'
<1>1. todo # <<>> /\ requests' = requests /\ PageNow' = PageNow
  BY AckedFacts DEF SocketTypes, PageNow, extension, display
<1>2. PICK y : Leads(requests, PageNow, y) /\ PageType(y) /\ PageRight(y)
  BY <1>1 DEF ShowsRight
<1>3. PageRight(y)'
  BY <1>2, AckedRight
<1>4. Leads(requests, PageNow, y)' /\ PageType(y)'
  BY <1>1, <1>2 DEF Leads, PageType
<1>5. QED
  BY <1>3, <1>4 DEF ShowsRight

LEMMA AckedWire ==
  ASSUME SocketInv, Acked
  PROVE  /\ Wire'
         /\ synced' = synced /\ (synced => acks' = <<>>)
<1>1. waiting /\ acks # <<>> /\ acks' = Tail(acks) /\ requests' = requests /\ surplus' = surplus
  BY AckedFacts
<1>2. synced' = synced
  BY <1>1 DEF synced
<1>3. synced => acks' = <<>> /\ requests' = <<>>
  BY <1>1, OneOnItsWay
<1>4. QED
  BY <1>2, <1>3 DEF Wire, AckOfNow, RequestOfNow

LEMMA AckedStage ==
  ASSUME StateTypes, SocketTypes, SocketInv, Wire, Stage, Acked
  PROVE  Stage'
<1> DEFINE c == Head(todo).call
<1>1. /\ todo # <<>> /\ acks # <<>> /\ ext_focus' = ext_focus
      /\ ready' = (ready \/ c = "Ready")
      /\ c # "Last" => todo' = Tail(todo)
  BY AckedFacts DEF SocketTypes, extension
<1>2. synced' = synced /\ (synced => acks' = <<>>) /\ NoFocus' = NoFocus
  BY <1>1, AckedWire DEF NoFocus
<1>3. CASE SetsUp(todo) /\ Head(todo) = Call("Page", NoMail)
  <2>1. Clears(Tail(todo)) /\ todo' = Tail(todo)
    <3>1. c # "Last"
      BY <1>3 DEF Call
    <3>2. QED
      BY <1>1, <1>3, <3>1 DEF SetsUp
  <2>2. QED
    BY <1>2, <2>1 DEF Stage, Clearing
<1>4. CASE Clearing /\ Head(todo) = Clear
  <2>1. Draws(Tail(todo)) /\ todo' = Tail(todo)
    <3>1. c # "Last"
      BY <1>4 DEF Clear, Call
    <3>2. QED
      BY <1>1, <1>4, <3>1 DEF Clearing, Clears
  <2>2. synced => NoFocus
    BY <1>1, <1>4 DEF Clearing
  <2>3. QED
    BY <1>2, <2>1, <2>2 DEF Stage, Drawing
<1>5. CASE Drawing
  <2>1. CASE c = "Last"
    <3>1. focused_message' \in Mail
      BY <2>1, AckedFocus
    <3>2. Finishes(todo')
      BY <2>1, <3>1, AckedFacts DEF Finishes
    <3>3. QED
      BY <1>2, <1>5, <3>1, <3>2 DEF Stage, Drawing, Finishing
  <2>2. CASE c # "Last"
    <3>1. Draws(Tail(todo))
      BY <1>5, <2>2, DrawsFacts DEF Drawing, SocketTypes, Call
    <3>2. QED
      BY <1>1, <1>2, <1>5, <2>2, <3>1 DEF Stage, Drawing
  <2>3. QED
    BY <2>1, <2>2
<1>6. CASE Finishing
  <2>1. PICK f \in Mail : todo = <<Call("Shown", f), Call("Ready", f)>> \/ todo = <<Call("Ready", f)>>
    BY <1>6 DEF Finishing, Finishes
  <2>2. c \in {"Shown", "Ready"}
    BY <2>1 DEF Call
  <2>3. focused_message' \in Mail
    <3>1. focused_message' = Head(acks)[1] \/ focused_message' = focused_message
      BY <2>2, AckedFocus
    <3>2. focused_message' # NoMail
      BY <1>6, <2>2, AckedFocus, PageAssumption DEF Finishing
    <3>3. QED
      BY <3>2, AckedFocus
  <2>4. CASE todo = <<Call("Shown", f), Call("Ready", f)>>
    <3>1. c = "Shown" /\ Tail(todo) = <<Call("Ready", f)>>
      BY <2>4 DEF Call
    <3>2. Finishes(todo')
      BY <1>1, <3>1 DEF Finishes
    <3>3. synced => NoFocus
      BY <1>6, <3>1 DEF Finishing
    <3>4. QED
      BY <1>2, <2>3, <3>2, <3>3 DEF Stage, Finishing
  <2>5. CASE todo = <<Call("Ready", f)>>
    <3>1. c = "Ready" /\ Tail(todo) = <<>> /\ Head(todo).mid = f
      BY <2>5 DEF Call
    <3>2. todo' = <<>> /\ ready'
      BY <1>1, <3>1
    <3>3. Plain(todo')
      BY <3>2 DEF Plain, ToSet
    <3>4. ASSUME synced'
          PROVE  ext_focus'[1] \in Mail /\ FocusKnown' /\ FocusFits'
      <4>1. synced
        BY <1>2, <3>4
      <4>2. ext_focus = <<f, 0>>
        BY <1>1, <1>6, <3>1, <4>1 DEF Finishing
      <4>3. Head(acks) = <<f, 0>>
        BY <1>1, <4>1, <4>2 DEF Wire, AckOfNow
      <4>4. f # NoMail
        BY PageAssumption
      <4>5. focused_message' = f
        BY <3>1, <4>3, <4>4, AckedFocus
      <4>6. current_element' = [current_element EXCEPT ![f] = 0]
        BY <3>1, <4>3, <4>4, AckedFacts
      <4>7. current_element'[f] = 0
        BY <4>6 DEF StateTypes
      <4>8. QED
        BY <1>1, <4>2, <4>5, <4>7 DEF FocusKnown, FocusFits
    <3>5. QED
      BY <2>3, <3>2, <3>3, <3>4 DEF Stage, Steady
  <2>6. QED
    BY <2>1, <2>4, <2>5
<1>7. CASE Steady
  <2>1. c \in PlainCalls \cup {"UpdateTags", "UpdateParts", "State"}
    BY <1>1, <1>7, SteadyCalls
  <2>2. c \notin {"ClearMessages", "Page", "AddMessage", "ShownFocused", "Last", "Ready"}
    BY <2>1 DEF PlainCalls, Navigation
  <2>3. todo' = Tail(todo) /\ ready'
    BY <1>1, <1>7, <2>2 DEF Steady
  <2>4. focused_message' \in Mail
    <3>1. focused_message' # NoMail
      BY <1>7, <2>2, AckedFocus, PageAssumption DEF Steady
    <3>2. QED
      BY <3>1, AckedFocus
  <2>5. /\ Plain(todo') \/ Tells(todo') \/ Swaps(todo')
        /\ Len(todo) = 2 /\ Swaps(todo) => Swaps(todo')
    <3>1. CASE Plain(todo)
      <4>1. ToSet(todo) = {Head(todo)} \cup ToSet(Tail(todo))
        BY <1>1, TailFacts DEF SocketTypes
      <4>2. ~Swaps(todo)
        <5>1. Head(todo) \in ToSet(todo)
          BY <4>1
        <5>2. QED
          BY <3>1, <5>1 DEF Plain, Swaps, Swap, StateCall, Call, PlainCalls, Navigation
      <4>3. QED
        BY <2>3, <3>1, <4>1, <4>2 DEF Plain
    <3>2. CASE Tells(todo)
      <4>1. PICK m \in Mail : todo = <<Call("UpdateTags", m), StateCall>> \/ todo = <<StateCall>>
        BY <3>2 DEF Tells
      <4>2. CASE todo = <<Call("UpdateTags", m), StateCall>>
        <5>1. Tail(todo) = <<StateCall>> /\ c = "UpdateTags"
          BY <4>2 DEF Call
        <5>2. ~Swaps(todo)
          BY <5>1 DEF Swaps, Swap, StateCall, Call
        <5>3. QED
          BY <2>3, <5>1, <5>2 DEF Tells
      <4>3. CASE todo = <<StateCall>>
        <5>1. Tail(todo) = <<>> /\ Len(todo) = 1
          BY <4>3
        <5>2. Plain(Tail(todo))
          BY <5>1 DEF Plain, ToSet
        <5>3. QED
          BY <2>3, <5>1, <5>2
      <4>4. QED
        BY <4>1, <4>2, <4>3
    <3>3. CASE Swaps(todo)
      <4>1. PICK m \in Mail : todo = <<StateCall, Call("UpdateParts", m)>> \/ todo = Swap(m)
        BY <3>3 DEF Swaps
      <4>2. CASE todo = <<StateCall, Call("UpdateParts", m)>>
        <5>1. Tail(todo) = Swap(m)
          BY <4>2 DEF Swap
        <5>2. QED
          BY <2>3, <5>1 DEF Swaps
      <4>3. CASE todo = Swap(m)
        <5>1. Tail(todo) = <<>> /\ Len(todo) = 1
          BY <4>3 DEF Swap
        <5>2. Plain(Tail(todo))
          BY <5>1 DEF Plain, ToSet
        <5>3. QED
          BY <2>3, <5>1, <5>2
      <4>4. QED
        BY <4>1, <4>2, <4>3
    <3>4. QED
      BY <1>7, <3>1, <3>2, <3>3 DEF Steady
  <2>6. ASSUME synced'
        PROVE  /\ ext_focus'[1] \in Mail /\ FocusKnown'
               /\ FocusFits' \/ (Swaps(todo') /\ acks' = <<>>)
    <3>1. synced /\ acks' = <<>>
      BY <1>2, <2>6
    <3>2. ext_focus[1] \in Mail /\ (FocusFits \/ (Swaps(todo) /\ Len(todo) = 2))
      BY <1>1, <1>7, <3>1 DEF Steady
    <3>3. Head(acks) = ext_focus
      BY <1>1, <3>1 DEF Wire, AckOfNow
    <3>4. ext_focus[1] # NoMail
      BY <3>2, PageAssumption
    <3>5. focused_message' = ext_focus[1]
      BY <2>2, <3>3, <3>4, AckedFocus
    <3>6. current_element' = [current_element EXCEPT ![ext_focus[1]] = ext_focus[2]]
      BY <2>2, <3>3, <3>4, AckedFacts
    <3>7. current_element'[ext_focus[1]] = ext_focus[2]
      <4> DEFINE a == ext_focus[1]
                 b == ext_focus[2]
      <4>1. current_element' = [current_element EXCEPT ![a] = b] /\ a \in Mail
        BY <3>2, <3>6
      <4>2. current_element = [m \in Mail |-> current_element[m]]
        BY DEF StateTypes
      <4> HIDE DEF a, b
      <4>3. current_element'[a] = b
        BY <4>1, <4>2
      <4>4. QED
        BY <4>3 DEF a, b
    <3>8. FocusKnown'
      BY <1>1, <3>5, <3>7 DEF FocusKnown, SocketTypes
    <3>9. focusable' = focusable
      BY <2>2, AckedFacts
    <3>10. FocusFits => FocusFits'
      BY <1>1, <3>9 DEF FocusFits
    <3>11. QED
      BY <1>1, <2>5, <3>1, <3>2, <3>8, <3>10
  <2>7. QED
    BY <2>3, <2>4, <2>5, <2>6 DEF Stage, Steady
<1>8. QED
  BY <1>1, <1>3, <1>4, <1>5, <1>6, <1>7, NextCall

-----------------------------------------------------------------------------
(* Events of the program: nothing is left to be sent.                      *)

LEMMA IdleStage ==
  ASSUME SocketInv, Stage, Idle
  PROVE  /\ Resting \/ Steady
         /\ ready => Steady
         /\ synced => acks = <<>> /\ requests = <<>>
         /\ Steady /\ synced => FocusKnown /\ FocusFits
<1>1. todo = <<>> /\ ~waiting
  BY DEF Idle
<1>2. /\ ~Draws(todo) /\ ~Clears(todo) /\ ~SetsUp(todo) /\ ~Finishes(todo) /\ ~Swaps(todo)
  BY <1>1 DEF Draws, Clears, SetsUp, Finishes, Swaps, Swap
<1>3. synced => acks = <<>> /\ requests = <<>>
  BY <1>1, OneOnItsWay
<1>4. QED
  BY <1>2, <1>3 DEF Stage, Resting, Steady, Clearing, Drawing, Finishing

LEMMA IdleRight ==
  ASSUME Idle, NEW x, PageRight(x)
  PROVE  /\ \A m \in Mail : m \in x.drawn /\ (m \in x.tags <=> m \in unread)
         /\ x.hidden = Mail \ expanded
         /\ \A m \in Mail : /\ m \in x.marks => m \in marked
                            /\ m \in marked => m \in x.marks \cup redrawn
         /\ \A m \in Mail \ missing : OneShown(m) /\ x.parts[m] = Fitting(m)
         /\ x.state = focusable
<1>1. todo = <<>> /\ ~waiting
  BY DEF Idle
<1>2. \A c : ~ToCome(c)
  BY <1>1 DEF ToCome, unsent, ToSet
<1>3. ~clearing /\ open = expanded
  BY <1>1 DEF clearing, open, ToSet
<1>4. DrawnRight(x) /\ HiddenRight(x) /\ MarksRight(x) /\ TagsRight(x) /\ PartsRight(x) /\ StateRight(x)
  BY DEF PageRight
<1>5. \A m \in Mail : m \in x.drawn /\ (m \in x.tags <=> m \in unread)
  BY <1>2, <1>4 DEF DrawnRight, TagsRight
<1>6. x.hidden = Mail \ expanded /\ x.state = focusable
  BY <1>2, <1>3, <1>4 DEF HiddenRight, StateRight
<1>7. \A m \in Mail : (m \in x.marks => m \in marked) /\ (m \in marked => m \in x.marks \cup redrawn)
  BY <1>2, <1>3, <1>4 DEF MarksRight
<1>8. \A m \in Mail \ missing : OneShown(m) /\ x.parts[m] = Fitting(m)
  BY <1>2, <1>4 DEF PartsRight
<1>9. QED
  BY <1>5, <1>6, <1>7, <1>8

\* The page stays right when all that changes is to be sent.
LEMMA StillRight ==
  ASSUME Idle, ~waiting', NEW x, PageRight(x), expanded' = expanded,
         \A m \in Mail : \/ ToCome(Call("Mark", m))'
                         \/ (m \in marked' <=> m \in marked) /\ (m \in redrawn => m \in redrawn'),
         \A m \in Mail : ToCome(Call("UpdateTags", m))' \/ (m \in unread' <=> m \in unread),
         \A m \in Mail : \/ m \in missing'
                         \/ /\ m \notin missing
                            /\ \/ OneShown(m)' /\ ToCome(Call("UpdateParts", m))'
                               \/ focusable'[m] = focusable[m],
         ToCome(StateCall)' \/ focusable' = focusable,
         \A m \in Mail : ToCome(Call("UpdateParts", m))' => m \in redrawn'
  PROVE  PageRight(x)'
<1>1. DrawnRight(x)'
  BY IdleRight DEF DrawnRight
<1>2. HiddenRight(x)'
  BY IdleRight DEF HiddenRight, open
<1>3. MarksRight(x)'
  BY IdleRight DEF MarksRight
<1>4. TagsRight(x)'
  BY IdleRight DEF TagsRight
<1>5. PartsRight(x)'
  <2>1. SUFFICES ASSUME NEW m \in Mail, m \notin missing'
                 PROVE  OneShown(m)' /\ (ToCome(Call("UpdateParts", m))' \/ x.parts[m] = Fitting(m)')
    BY DEF PartsRight
  <2>2. CASE OneShown(m)' /\ ToCome(Call("UpdateParts", m))'
    BY <2>2
  <2>3. CASE m \notin missing /\ focusable'[m] = focusable[m]
    <3>1. OneShown(m) /\ x.parts[m] = Fitting(m)
      BY <2>3, IdleRight
    <3>2. QED
      BY <2>3, <3>1 DEF OneShown, Fitting
  <2>4. QED
    BY <2>1, <2>2, <2>3
<1>6. StateRight(x)'
  BY IdleRight DEF StateRight
<1>7. Cleared(x)' /\ RedrawnRight'
  BY DEF Cleared, RedrawnRight
<1>8. QED
  BY <1>1, <1>2, <1>3, <1>4, <1>5, <1>6, <1>7 DEF PageRight

\* It is right when all of it will be drawn again.
LEMMA RenderRight ==
  ASSUME ~waiting', todo' \in Seq(Calls), Clears(todo') \/ SetsUp(todo'), NEW x
  PROVE  PageRight(x)'
<1>1. unsent' = todo'
  BY DEF unsent
<1>2. todo' # <<>>
  BY DEF Clears, SetsUp
<1>3. \A s \in Seq(Calls) :
        Clears(s) => /\ Clear \in ToSet(s) /\ StateCall \in ToSet(s)
                     /\ \A m \in Mail : Call("AddMessage", m) \in ToSet(s) /\ Call("UpdateParts", m) \notin ToSet(s)
  <2>1. SUFFICES ASSUME NEW s \in Seq(Calls), Clears(s)
                 PROVE  /\ Clear \in ToSet(s) /\ StateCall \in ToSet(s)
                        /\ \A m \in Mail : /\ Call("AddMessage", m) \in ToSet(s)
                                           /\ Call("UpdateParts", m) \notin ToSet(s)
    OBVIOUS
  <2>2. s # <<>> /\ Head(s) = Clear /\ Draws(Tail(s)) /\ \A m \in Mail : Call("AddMessage", m) \in ToSet(Tail(s))
    BY <2>1 DEF Clears
  <2>3. Tail(s) \in Seq(Calls) /\ ToSet(s) = {Clear} \cup ToSet(Tail(s))
    BY <2>2, TailFacts
  <2>4. PICK m : m \in Mail
    BY PageAssumption
  <2>5. StateCall \in ToSet(Tail(s))
    BY <2>2, <2>3, <2>4, DrawsState
  <2>6. \A n \in Mail : Call("UpdateParts", n) \notin ToSet(Tail(s))
    <3>1. \A c \in ToSet(Tail(s)) : c \in DrawCalls \/ c = StateCall \/ c = Call("Last", NoMail)
      BY <2>2, <2>3, DrawsFacts
    <3>2. QED
      BY <3>1 DEF DrawCalls, StateCall, Call
  <2>7. \A n \in Mail : Call("UpdateParts", n) # Clear
    BY DEF Clear, Call
  <2>8. QED
    BY <2>2, <2>3, <2>5, <2>6, <2>7
<1>4. /\ Clear \in ToSet(todo') /\ StateCall \in ToSet(todo')
      /\ \A m \in Mail : Call("AddMessage", m) \in ToSet(todo') /\ Call("UpdateParts", m) \notin ToSet(todo')
  <2>1. CASE Clears(todo')
    BY <1>3, <2>1
  <2>2. CASE SetsUp(todo')
    <3>1. Head(todo') = Call("Page", NoMail) /\ Clears(Tail(todo'))
      BY <2>2 DEF SetsUp
    <3>2. Tail(todo') \in Seq(Calls) /\ ToSet(todo') = {Head(todo')} \cup ToSet(Tail(todo'))
      BY <1>2, TailFacts
    <3>3. \A n \in Mail : Call("UpdateParts", n) # Call("Page", NoMail)
      BY DEF Call
    <3>4. /\ Clear \in ToSet(Tail(todo')) /\ StateCall \in ToSet(Tail(todo'))
          /\ \A m \in Mail : /\ Call("AddMessage", m) \in ToSet(Tail(todo'))
                             /\ Call("UpdateParts", m) \notin ToSet(Tail(todo'))
      BY <1>3, <3>1, <3>2
    <3>5. QED
      BY <3>1, <3>2, <3>3, <3>4
  <2>3. QED
    BY <2>1, <2>2
<1>5. /\ ToCome(Clear)' /\ ToCome(StateCall)' /\ clearing'
      /\ \A m \in Mail : ToCome(Call("AddMessage", m))' /\ ~ToCome(Call("UpdateParts", m))'
  BY <1>1, <1>4 DEF ToCome, clearing, Clear, StateCall, Call
<1>6. DrawnRight(x)' /\ HiddenRight(x)' /\ MarksRight(x)' /\ TagsRight(x)' /\ PartsRight(x)'
  BY <1>5 DEF DrawnRight, HiddenRight, MarksRight, TagsRight, PartsRight
<1>7. StateRight(x)' /\ Cleared(x)' /\ RedrawnRight'
  BY <1>5 DEF StateRight, Cleared, RedrawnRight
<1>8. QED
  BY <1>6, <1>7 DEF PageRight

LEMMA EventShows ==
  ASSUME ShowsRight, PageEvent,
         \A x : (ready => PageRight(x)) /\ (ready' \/ todo' # <<>>) => PageRight(x)'
  PROVE  ShowsRight'
<1>1. requests' = requests /\ PageNow' = PageNow
  BY EventFacts DEF PageNow, extension, display
<1>2. PICK y : Leads(requests, PageNow, y) /\ PageType(y) /\ (ready => PageRight(y))
  BY DEF ShowsRight
<1>3. ready' \/ todo' # <<>> => PageRight(y)'
  BY <1>2
<1>4. Leads(requests, PageNow, y)' /\ PageType(y)'
  BY <1>1, <1>2 DEF Leads, PageType
<1>5. QED
  BY <1>3, <1>4 DEF ShowsRight

LEMMA EventWire ==
  ASSUME SocketInv, PageEvent
  PROVE  Wire' /\ synced' = synced /\ (synced => acks' = <<>>)
<1>1. UNCHANGED <<requests, acks, surplus>> /\ ~waiting
  BY EventFacts DEF Idle
<1>2. synced' = synced
  BY <1>1 DEF synced
<1>3. synced => acks' = <<>> /\ requests' = <<>>
  BY <1>1, OneOnItsWay
<1>4. QED
  BY <1>2, <1>3 DEF Wire, AckOfNow, RequestOfNow

\* The messages are rendered, or they will be.
LEMMA RenderEvent ==
  ASSUME StateTypes, SocketTypes, SocketInv, ShowsRight, Stage,
         LoadThread \/ LoadChanged \/ IdleRender
  PROVE  StateTypes' /\ SocketTypes' /\ ShowsRight' /\ Stage'
<1>1. PageEvent /\ Idle
  BY DEF PageEvent, LoadThread, LoadChanged, IdleRender
<1>2. UNCHANGED <<waiting, requests, acks, surplus, ext_focus>> /\ ~waiting
  BY <1>1, EventFacts DEF extension, Idle
<1>3. UNCHANGED <<expanded, marked, redrawn, focusable, current_element, focused_message>>
  BY DEF LoadThread, LoadChanged, IdleRender, state, focus
<1>4. \/ LoadThread /\ ready' = FALSE /\ (todo' = <<>> \/ todo' = RenderCalls)
      \/ UNCHANGED <<unread, missing, ready>> /\ (todo' = <<>> \/ todo' = <<Call("Page", NoMail)>> \o RenderCalls)
  BY <1>1 DEF LoadThread, LoadChanged, IdleRender, RenderFirst, mthread, Idle
<1>5. unread' \in SUBSET Mail /\ missing' \in SUBSET Mail
  BY <1>4, PageAssumption DEF LoadThread, StateTypes
<1>6. StateTypes'
  BY <1>3, <1>5 DEF StateTypes
<1>7. todo' \in Seq(Calls) /\ (todo' = <<>> \/ Clears(todo') \/ SetsUp(todo'))
  <2>1. CASE todo' = <<>>
    BY <2>1
  <2>2. CASE todo' = RenderCalls
    BY <2>2, RenderFacts
  <2>3. CASE todo' = <<Call("Page", NoMail)>> \o RenderCalls
    <3> DEFINE s == <<Call("Page", NoMail)>> \o RenderCalls
    <3>1. s \in Seq(Calls) /\ SetsUp(s) /\ todo' = s
      BY <2>3, RenderFacts
    <3> HIDE DEF s
    <3>2. QED
      BY <3>1
  <2>4. QED
    BY <1>4, <2>1, <2>2, <2>3
<1>8. SocketTypes'
  BY <1>2, <1>7 DEF SocketTypes, RequestType
<1>9. CASE todo' = <<>>
  <2>1. ASSUME ready'
        PROVE  UNCHANGED <<unread, missing, ready, expanded, marked, redrawn, focusable, waiting, todo>>
    BY <1>1, <1>2, <1>3, <1>4, <1>9, <2>1 DEF Idle
  <2>2. ShowsRight'
    <3>1. \A x : (ready => PageRight(x)) /\ (ready' \/ todo' # <<>>) => PageRight(x)'
      BY <1>9, <2>1, SameRight DEF SameProgram
    <3>2. QED
      BY <1>1, <3>1, EventShows
  <2>3. Stage'
    <3>1. CASE ready'
      <4>1. Steady
        BY <1>1, <2>1, <3>1, IdleStage
      <4>2. UNCHANGED <<ready, todo, focused_message, current_element, focusable, ext_focus, acks, surplus>>
        BY <1>2, <1>3, <2>1, <3>1
      <4>3. FocusKnown' = FocusKnown /\ FocusFits' = FocusFits /\ synced' = synced
        BY <4>2 DEF FocusKnown, FocusFits, synced
      <4>4. QED
        BY <4>1, <4>2, <4>3 DEF Stage, Steady
    <3>2. CASE ~ready'
      BY <1>9, <3>2 DEF Stage, Resting
    <3>3. QED
      BY <3>1, <3>2
  <2>4. QED
    BY <1>6, <1>8, <2>2, <2>3
<1>10. CASE Clears(todo') \/ SetsUp(todo')
  <2>1. ShowsRight'
    BY <1>1, <1>2, <1>7, <1>10, RenderRight, EventShows
  <2>2. Stage'
    BY <1>1, <1>10, EventWire DEF Stage, Clearing
  <2>3. QED
    BY <1>6, <1>8, <2>1, <2>2
<1>11. QED
  BY <1>7, <1>9, <1>10

-----------------------------------------------------------------------------
(* Keys: what they call shows what they have changed.                      *)

Pressed ==
  /\ ready /\ UNCHANGED <<ready, unread, missing, expanded, focusable, current_element, focused_message>>
  /\ todo' \in Seq(Calls) /\ Plain(todo')
  /\ marked' \in SUBSET Mail /\ redrawn' \in SUBSET Mail
  /\ \A m \in Mail : \/ Call("Mark", m) \in ToSet(todo')
                     \/ (m \in marked' <=> m \in marked) /\ (m \in redrawn => m \in redrawn')

LEMMA KeyedKept ==
  ASSUME StateTypes, NEW calls \in Seq(Calls), Plain(calls), Key(calls), KeepMarks
  PROVE  Pressed
<1>1. /\ ready /\ UNCHANGED <<ready, unread, missing, expanded, marked, focusable, redrawn,
                              current_element, focused_message>>
      /\ todo' = calls
  BY DEF Key, KeepMarks, mthread, focus
<1>2. QED
  BY <1>1 DEF Pressed, StateTypes

\* A key with one call.
LEMMA OneCall ==
  ASSUME NEW c \in Calls, c.call \in PlainCalls
  PROVE  <<c>> \in Seq(Calls) /\ Plain(<<c>>)
BY DEF Plain, ToSet

\* A key with a call for each message.
LEMMA EachCall ==
  ASSUME NEW k \in {"Shown", "Hidden", "Mark"}
  PROVE  /\ [i \in DOMAIN ByThread |-> Call(k, ByThread[i])] \in Seq(Calls)
         /\ Plain([i \in DOMAIN ByThread |-> Call(k, ByThread[i])])
         /\ \A m \in Mail : Call(k, m) \in ToSet([i \in DOMAIN ByThread |-> Call(k, ByThread[i])])
<1> DEFINE s == [i \in DOMAIN ByThread |-> Call(k, ByThread[i])]
           n == Cardinality(Mail)
<1>1. n \in Nat /\ DOMAIN ByThread = 1 .. n /\ \A i \in 1 .. n : ByThread[i] \in Mail
  BY ByThreadFacts
<1>2. \A i \in 1 .. n : Call(k, ByThread[i]) \in Calls /\ Call(k, ByThread[i]).call = k
  BY <1>1 DEF Calls, Call, Request, Showing, Hiding
<1>3. DOMAIN s = 1 .. n /\ \A i \in 1 .. n : s[i] = Call(k, ByThread[i])
  BY <1>1
<1>4. s \in Seq(Calls)
  <2>1. s = [i \in 1 .. n |-> s[i]] /\ \A i \in 1 .. n : s[i] \in Calls
    BY <1>1, <1>2, <1>3
  <2> HIDE DEF s, n
  <2>2. QED
    BY <1>1, <2>1
<1>5. ToSet(s) = {s[i] : i \in 1 .. n}
  BY <1>3 DEF ToSet
<1>6. Plain(s)
  BY <1>2, <1>3, <1>5 DEF Plain, PlainCalls
<1>7. \A m \in Mail : Call(k, m) \in ToSet(s)
  <2>1. SUFFICES ASSUME NEW m \in Mail
                 PROVE  Call(k, m) \in ToSet(s)
    OBVIOUS
  <2>2. PICK i \in 1 .. n : ByThread[i] = m
    BY <1>1, ByThreadFacts
  <2>3. s[i] = Call(k, m)
    BY <1>3, <2>2
  <2>4. QED
    BY <1>5, <2>3
<1>8. QED
  BY <1>4, <1>6, <1>7

\* What opens or closes a message.
LEMMA ToggleCalls ==
  ASSUME NEW m \in Mail
  PROVE  Toggle(m) \in Seq(Calls) /\ Plain(Toggle(m))
<1>1. PICK k \in {"Shown", "Hidden"} : Toggle(m) = <<Call(k, m)>>
  BY DEF Toggle
<1>2. Call(k, m) \in Calls /\ Call(k, m).call \in PlainCalls
  BY DEF Calls, Call, Request, Showing, Hiding, PlainCalls
<1>3. QED
  BY <1>1, <1>2, OneCall

PlainKey ==
  \/ Navigate \/ NavigateExpand \/ NextUnread \/ RemoteImages
  \/ ToggleExpand \/ ToggleAll \/ ToggleMark \/ ToggleMarkAll
  \/ Key(Toggle(focused_message)) /\ KeepMarks

LEMMA PlainKeyCalls ==
  ASSUME StateTypes, Steady, PlainKey
  PROVE  Pressed
<1>1. focused_message \in Mail /\ unread \subseteq Mail /\ marked \subseteq Mail /\ redrawn \subseteq Mail
  BY DEF Steady, StateTypes
<1>2. \A c \in Request \ OnMail : Call(c, NoMail) \in Calls /\ Call(c, NoMail).call = c
  BY DEF Calls, Call
<1>3. \A c \in Request, m \in Mail : Call(c, m) \in Calls /\ Call(c, m).call = c
  BY DEF Calls, Call
<1>4. CASE Navigate
  <2>1. PICK c \in {"NextElement", "NextVisible", "PreviousElement", "PreviousVisible",
                    "NextMessage", "PreviousTop", "Scroll", "Home", "End"} :
          Key(<<Call(c, NoMail)>>) /\ KeepMarks
    BY <1>4 DEF Navigate
  <2>2. c \in Request \ OnMail /\ c \in PlainCalls
    BY DEF Request, OnMail, PlainCalls, Navigation
  <2>3. <<Call(c, NoMail)>> \in Seq(Calls) /\ Plain(<<Call(c, NoMail)>>)
    BY <1>2, <2>2, OneCall
  <2>4. QED
    BY <2>1, <2>3, KeyedKept
<1>5. CASE NavigateExpand
  <2>1. PICK c \in {"NextMessage", "PreviousMessage"} :
          /\ Key((IF focused_message \in scroll_expanded
                  THEN <<Call("HiddenScrolled", focused_message)>> ELSE <<>>)
                 \o <<Call(c, NoMail), Call("ShownScrolled", NoMail)>>)
          /\ KeepMarks
    BY <1>5 DEF NavigateExpand
  <2> DEFINE a == Call("HiddenScrolled", focused_message)
             b == Call(c, NoMail)
             d == Call("ShownScrolled", NoMail)
  <2>2. /\ a \in Calls /\ b \in Calls /\ d \in Calls
        /\ a.call \in PlainCalls /\ b.call \in PlainCalls /\ d.call \in PlainCalls
    BY <1>1 DEF Calls, Call, Request, OnMail, PlainCalls, Navigation, Showing, Hiding
  <2> DEFINE first == IF focused_message \in scroll_expanded THEN <<a>> ELSE <<>>
             s == first \o <<b, d>>
  <2>3. Key(s)
    BY <2>1
  <2>4. first \in Seq(Calls) /\ ToSet(first) \subseteq {a}
    <3> HIDE DEF a
    <3>1. <<a>> \in Seq(Calls) /\ ToSet(<<a>>) = {a} /\ <<>> \in Seq(Calls) /\ ToSet(<<>>) = {}
      BY <2>2 DEF ToSet
    <3>2. QED
      BY <3>1
  <2>5. s \in Seq(Calls) /\ Plain(s)
    <3> HIDE DEF a, b, d, first
    <3>1. s \in Seq(Calls) /\ ToSet(s) = ToSet(first) \cup {b, d}
      BY <2>2, <2>4, AppendTwoFacts
    <3>2. QED
      BY <2>2, <2>4, <3>1 DEF Plain
  <2> HIDE DEF s
  <2>6. QED
    BY <2>1, <2>3, <2>5, KeyedKept
<1>6. CASE NextUnread
  <2>1. PICK m \in Mail : Key(<<Call("Focus", m)>>) /\ KeepMarks
    <3> DEFINE next == {m \in unread : m > focused_message}
               previous == {m \in unread : m < focused_message}
    <3>1. \/ next # {} /\ Key(<<Call("Focus", Min(next))>>)
          \/ previous # {} /\ Key(<<Call("Focus", Max(previous))>>)
      BY <1>6 DEF NextUnread
    <3>2. KeepMarks
      BY <1>6 DEF NextUnread
    <3>3. next \in SUBSET Mail /\ previous \in SUBSET Mail
      BY <1>1
    <3> HIDE DEF next, previous
    <3>4. QED
      BY <3>1, <3>2, <3>3, MailEnds
  <2>2. "Focus" \in Request /\ "Focus" \in PlainCalls
    BY DEF Request, PlainCalls, Navigation
  <2>3. <<Call("Focus", m)>> \in Seq(Calls) /\ Plain(<<Call("Focus", m)>>)
    BY <1>3, <2>2, OneCall
  <2>4. QED
    BY <2>1, <2>3, KeyedKept
<1>7. CASE RemoteImages
  <2>1. "Images" \in Request \ OnMail /\ "Images" \in PlainCalls
    BY DEF Request, OnMail, PlainCalls
  <2>2. <<Call("Images", NoMail)>> \in Seq(Calls) /\ Plain(<<Call("Images", NoMail)>>)
    BY <1>2, <2>1, OneCall
  <2>3. QED
    BY <1>7, <2>2, KeyedKept DEF RemoteImages
<1>8. CASE ToggleExpand \/ (Key(Toggle(focused_message)) /\ KeepMarks)
  <2>1. Key(Toggle(focused_message)) /\ KeepMarks
    BY <1>8 DEF ToggleExpand
  <2>2. QED
    BY <1>1, <2>1, ToggleCalls, KeyedKept
<1>9. CASE ToggleAll
  <2>1. PICK k \in {"Shown", "Hidden"} :
          Key([i \in DOMAIN ByThread |-> Call(k, ByThread[i])]) /\ KeepMarks
    BY <1>9 DEF ToggleAll
  <2>2. QED
    BY <2>1, EachCall, KeyedKept
<1>10. CASE ToggleMark
  <2> DEFINE m == focused_message
  <2>1. /\ marked' = SymDiff(marked, {m}) /\ redrawn' = redrawn \ {m} /\ focusable' = focusable
        /\ Key(<<Call("Mark", m)>>)
    BY <1>10 DEF ToggleMark
  <2>2. "Mark" \in Request /\ "Mark" \in PlainCalls
    BY DEF Request, PlainCalls
  <2>3. <<Call("Mark", m)>> \in Seq(Calls) /\ Plain(<<Call("Mark", m)>>)
    BY <1>1, <1>3, <2>2, OneCall
  <2>4. todo' = <<Call("Mark", m)>>
    BY <2>1 DEF Key
  <2>5. Call("Mark", m) \in ToSet(todo')
    BY <2>4 DEF ToSet
  <2>6. marked' \in SUBSET Mail /\ \A n \in Mail : n # m => (n \in marked' <=> n \in marked)
    BY <1>1, <2>1 DEF SymDiff
  <2>7. \A n \in Mail : \/ Call("Mark", n) \in ToSet(todo')
                        \/ (n \in marked' <=> n \in marked) /\ (n \in redrawn => n \in redrawn')
    BY <2>1, <2>5, <2>6
  <2>8. todo' \in Seq(Calls) /\ Plain(todo')
    BY <2>3, <2>4
  <2>9. QED
    BY <1>1, <2>1, <2>6, <2>7, <2>8 DEF Pressed, Key, mthread, focus
<1>11. CASE ToggleMarkAll
  <2> DEFINE s == [i \in DOMAIN ByThread |-> Call("Mark", ByThread[i])]
  <2>1. marked' \in SUBSET Mail /\ redrawn' = {} /\ focusable' = focusable /\ Key(s)
    BY <1>11 DEF ToggleMarkAll
  <2>2. s \in Seq(Calls) /\ Plain(s) /\ \A m \in Mail : Call("Mark", m) \in ToSet(s)
    BY EachCall
  <2> HIDE DEF s
  <2>3. todo' = s
    BY <2>1 DEF Key
  <2>4. QED
    BY <2>1, <2>2, <2>3 DEF Pressed, Key, mthread, focus
<1>12. QED
  BY <1>4, <1>5, <1>6, <1>7, <1>8, <1>9, <1>10, <1>11 DEF PlainKey

LEMMA KeyedEvent ==
  ASSUME StateTypes, SocketTypes, SocketInv, ShowsRight, Stage, PageEvent, Pressed
  PROVE  StateTypes' /\ SocketTypes' /\ ShowsRight' /\ Stage'
<1>1. /\ Idle /\ ~waiting' /\ UNCHANGED <<waiting, requests, acks, surplus, ext_focus>>
  BY EventFacts DEF Idle, extension
<1>2. Steady /\ (synced => FocusKnown /\ FocusFits)
  BY <1>1, IdleStage DEF Pressed
<1>3. StateTypes' /\ SocketTypes'
  BY <1>1 DEF Pressed, StateTypes, SocketTypes, RequestType
<1>4. unsent' = todo'
  BY <1>1 DEF unsent
<1>5. \A m \in Mail : ~ToCome(Call("UpdateParts", m))'
  BY <1>4 DEF Pressed, Plain, ToCome, Call, PlainCalls, Navigation
<1>6. \A m \in Mail : \/ ToCome(Call("Mark", m))'
                      \/ (m \in marked' <=> m \in marked) /\ (m \in redrawn => m \in redrawn')
  BY <1>4 DEF Pressed, ToCome, Call
<1>7. \A x : PageRight(x) => PageRight(x)'
  BY <1>1, <1>5, <1>6, StillRight DEF Pressed
<1>8. ShowsRight'
  BY <1>7, EventShows DEF Pressed
<1>9. FocusKnown' = FocusKnown /\ FocusFits' = FocusFits /\ synced' = synced
  BY <1>1 DEF Pressed, FocusKnown, FocusFits, synced
<1>10. Stage'
  BY <1>1, <1>2, <1>9 DEF Pressed, Stage, Steady
<1>11. QED
  BY <1>3, <1>8, <1>10

\* Return on a part: the part that had the focus is shown, and cannot have it.
LEMMA ElementEvent ==
  ASSUME StateTypes, SocketTypes, SocketInv, ShowsRight, Stage, ElementAction
  PROVE  StateTypes' /\ SocketTypes' /\ ShowsRight' /\ Stage'
<1> DEFINE m == focused_message
           e == current_element[m]
<1>1. /\ PageEvent /\ Idle /\ ready /\ m # NoMail
  BY DEF PageEvent, ElementAction, Key
<1>2. UNCHANGED <<waiting, requests, acks, surplus, ext_focus>> /\ ~waiting'
  BY <1>1, EventFacts DEF Idle, extension
<1>3. Steady /\ m \in Mail /\ (synced => FocusKnown /\ FocusFits /\ ext_focus[1] \in Mail)
  BY <1>1, IdleStage DEF Steady
<1>4. CASE Key(Toggle(m)) /\ KeepMarks
  BY <1>1, <1>3, <1>4, PlainKeyCalls, KeyedEvent DEF PlainKey
<1>5. CASE /\ focusable' = [focusable EXCEPT ![m] = (@ \cup Siblings(m, e)) \ {e}]
           /\ redrawn' = redrawn \cup {m}
           /\ Key(<<Call("State", NoMail), Call("UpdateParts", m)>>)
           /\ UNCHANGED marked
  <2>1. /\ UNCHANGED <<ready, unread, missing, expanded, marked, current_element, focused_message>>
        /\ todo' = <<StateCall, Call("UpdateParts", m)>>
    BY <1>5 DEF Key, mthread, focus, StateCall
  <2>2. /\ focusable'[m] = (focusable[m] \cup Siblings(m, e)) \ {e}
        /\ \A n \in Mail : n # m => focusable'[n] = focusable[n]
    <3>1. focusable = [n \in Mail |-> focusable[n]]
      BY DEF StateTypes, Stop
    <3>2. QED
      BY <1>3, <1>5, <3>1
  <2>3. focusable' \in Stop
    <3>1. /\ Alternatives[m] \subseteq 1 .. Len(Elements[m]) - 1 /\ focusable[m] \subseteq Stops(m)
          /\ Len(Elements[m]) \in Nat
      BY <1>3, PageAssumption, FocusableFacts DEF StateTypes, Stop
    <3>2. Siblings(m, e) \subseteq Stops(m) /\ Stops(m) \subseteq Nat
      BY <3>1 DEF Siblings, Stops
    <3>3. focusable'[m] \subseteq Stops(m)
      BY <2>2, <3>1, <3>2
    <3>4. focusable \in [Mail -> SUBSET Nat] /\ \A n \in Mail : focusable[n] \subseteq Stops(n)
      BY DEF StateTypes, Stop
    <3>5. focusable' \in [Mail -> SUBSET Nat]
      <4> DEFINE to == (focusable[m] \cup Siblings(m, e)) \ {e}
      <4>1. to \in SUBSET Nat /\ focusable' = [focusable EXCEPT ![m] = to]
        BY <1>5, <2>2, <3>2, <3>3
      <4> HIDE DEF to
      <4>2. QED
        BY <3>4, <4>1
    <3>6. \A n \in Mail : focusable'[n] \subseteq Stops(n)
      BY <2>2, <3>3, <3>4
    <3>7. QED
      BY <3>5, <3>6 DEF Stop
  <2>4. StateTypes'
    BY <1>3, <1>5, <2>1, <2>3 DEF StateTypes
  <2>5. todo' \in Seq(Calls)
    <3>1. StateCall \in Calls /\ Call("UpdateParts", m) \in Calls
      BY <1>3 DEF StateCall, Call, Calls, Request, OnMail
    <3>2. QED
      BY <2>1, <3>1
  <2>6. SocketTypes'
    BY <1>2, <2>5 DEF SocketTypes, RequestType
  <2>7. \A c : ToCome(c)' <=> c \in {StateCall, Call("UpdateParts", m)}
    <3>1. unsent' = todo'
      BY <1>2 DEF unsent
    <3>2. ToSet(todo') = {StateCall, Call("UpdateParts", m)}
      BY <2>1 DEF ToSet
    <3>3. QED
      BY <3>1, <3>2 DEF ToCome
  <2>8. ASSUME NEW n \in Mail, n = m, OneShown(n)
        PROVE  OneShown(n)'
    <3>1. focusable'[n] = (focusable[n] \cup Siblings(n, e)) \ {e}
      BY <2>2, <2>8
    <3>2. CASE e \in Alternatives[n]
      <4>1. Alternatives[n] \ focusable'[n] = {e}
        BY <3>1, <3>2 DEF Siblings
      <4>2. QED
        BY <3>2, <4>1 DEF OneShown
    <3>3. CASE e \notin Alternatives[n]
      <4>1. Alternatives[n] \ focusable'[n] = Alternatives[n] \ focusable[n]
        BY <3>1, <3>3 DEF Siblings
      <4>2. QED
        BY <2>8, <4>1 DEF OneShown
    <3>4. QED
      BY <3>2, <3>3
  <2>9. ASSUME NEW x, PageRight(x)
        PROVE  PageRight(x)'
    <3>1. \A n \in Mail : n \notin missing => OneShown(n)
      BY <1>1, <2>9, IdleRight
    <3>2. \A n \in Mail : \/ n \in missing'
                          \/ /\ n \notin missing
                             /\ \/ OneShown(n)' /\ ToCome(Call("UpdateParts", n))'
                                \/ focusable'[n] = focusable[n]
      <4>1. SUFFICES ASSUME NEW n \in Mail, n \notin missing
                     PROVE  (OneShown(n)' /\ ToCome(Call("UpdateParts", n))') \/ focusable'[n] = focusable[n]
        BY <2>1
      <4>2. CASE n = m
        <5>1. OneShown(n)'
          BY <2>8, <3>1, <4>1, <4>2
        <5>2. ToCome(Call("UpdateParts", n))'
          BY <2>7, <4>2 DEF Call
        <5>3. QED
          BY <5>1, <5>2
      <4>3. CASE n # m
        BY <2>2, <4>3
      <4>4. QED
        BY <4>2, <4>3
    <3>3. \A n \in Mail : ToCome(Call("UpdateParts", n))' => n \in redrawn'
      <4>1. \A n \in Mail : ToCome(Call("UpdateParts", n))' => n = m
        BY <2>7 DEF Call, StateCall
      <4>2. QED
        BY <1>5, <4>1
    <3>4. ToCome(StateCall)'
      BY <2>7 DEF StateCall, Call
    <3>5. /\ \A n \in Mail : \/ ToCome(Call("Mark", n))'
                             \/ (n \in marked' <=> n \in marked) /\ (n \in redrawn => n \in redrawn')
          /\ \A n \in Mail : ToCome(Call("UpdateTags", n))' \/ (n \in unread' <=> n \in unread)
          /\ expanded' = expanded
      BY <1>5, <2>1
    <3>6. QED
      BY <1>1, <1>2, <2>9, <3>2, <3>3, <3>4, <3>5, StillRight
  <2>10. ShowsRight'
    BY <1>1, <2>9, EventShows
  <2>11. Stage'
    <3>1. Swaps(todo') /\ Len(todo') = 2
      BY <1>3, <2>1 DEF Swaps
    <3>2. FocusKnown' = FocusKnown /\ synced' = synced
      BY <1>2, <2>1 DEF FocusKnown, synced
    <3>3. QED
      BY <1>1, <1>2, <1>3, <2>1, <3>1, <3>2 DEF Stage, Steady
  <2>12. QED
    BY <2>4, <2>6, <2>10, <2>11
<1>6. QED
  BY <1>4, <1>5 DEF ElementAction

\* The tags of a message change, and the page is told.
LEMMA TagsEvent ==
  ASSUME StateTypes, SocketTypes, SocketInv, ShowsRight, Stage, TagsChanged
  PROVE  StateTypes' /\ SocketTypes' /\ ShowsRight' /\ Stage'
<1>1. PageEvent /\ Idle
  BY DEF PageEvent, TagsChanged
<1>2. /\ UNCHANGED <<waiting, requests, acks, surplus, ext_focus>> /\ ~waiting'
      /\ UNCHANGED <<ready, expanded, marked, redrawn, focusable, current_element, focused_message>>
  BY <1>1, EventFacts DEF Idle, extension, TagsChanged, state, focus
<1>3. PICK m \in Mail : /\ NewTags(m)
                        /\ todo' = IF ready THEN <<Call("UpdateTags", m), StateCall>> ELSE <<>>
  BY DEF TagsChanged, StateCall
<1>4. /\ missing' = missing /\ unread' \subseteq Mail
      /\ \A n \in Mail : n # m => (n \in unread' <=> n \in unread)
  <2>1. missing' = missing /\ (unread' = unread \ {m} \/ unread' = SymDiff(unread, {m}))
    BY <1>3 DEF NewTags
  <2>2. unread \subseteq Mail
    BY DEF StateTypes
  <2>3. QED
    BY <2>1, <2>2 DEF SymDiff
<1>5. StateTypes'
  BY <1>2, <1>4 DEF StateTypes
<1>6. todo' \in Seq(Calls)
  <2>1. StateCall \in Calls /\ Call("UpdateTags", m) \in Calls
    BY DEF StateCall, Call, Calls, Request, OnMail
  <2>2. QED
    BY <1>3, <2>1
<1>7. SocketTypes'
  BY <1>2, <1>6 DEF SocketTypes, RequestType
<1>8. CASE ~ready
  <2>1. todo' = <<>> /\ ~ready'
    BY <1>2, <1>3, <1>8
  <2>2. QED
    BY <1>1, <1>5, <1>7, <2>1, EventShows DEF Stage, Resting
<1>9. CASE ready
  <2>1. todo' = <<Call("UpdateTags", m), StateCall>>
    BY <1>3, <1>9
  <2>2. \A c : ToCome(c)' <=> c \in {StateCall, Call("UpdateTags", m)}
    <3>1. unsent' = todo'
      BY <1>2 DEF unsent
    <3>2. ToSet(todo') = {StateCall, Call("UpdateTags", m)}
      BY <2>1 DEF ToSet
    <3>3. QED
      BY <3>1, <3>2 DEF ToCome
  <2>3. \A n \in Mail : ToCome(Call("UpdateTags", n))' \/ (n \in unread' <=> n \in unread)
    BY <1>4, <2>2
  <2>4. \A n \in Mail : ~ToCome(Call("UpdateParts", n))'
    BY <2>2 DEF Call, StateCall
  <2>5. \A x : PageRight(x) => PageRight(x)'
    BY <1>1, <1>2, <1>4, <2>3, <2>4, StillRight
  <2>6. ShowsRight'
    BY <1>1, <1>9, <2>5, EventShows
  <2>7. Steady /\ (synced => FocusKnown /\ FocusFits)
    BY <1>1, <1>9, IdleStage
  <2>8. FocusKnown' = FocusKnown /\ FocusFits' = FocusFits /\ synced' = synced
    BY <1>2 DEF FocusKnown, FocusFits, synced
  <2>9. Tells(todo')
    BY <2>1 DEF Tells
  <2>10. Stage'
    BY <1>2, <2>7, <2>8, <2>9 DEF Stage, Steady
  <2>11. QED
    BY <1>5, <1>7, <2>6, <2>10
<1>10. QED
  BY <1>8, <1>9

\* A message is gone, the timer fires or the extension connects: nothing is
\* called.
LEMMA QuietEvent ==
  ASSUME StateTypes, SocketTypes, SocketInv, ShowsRight, Stage,
         MessageGone \/ TimerFires \/ ExtensionConnect
  PROVE  StateTypes' /\ SocketTypes' /\ ShowsRight' /\ Stage'
<1>1. PageEvent /\ Idle
  BY DEF PageEvent, MessageGone, TimerFires, ExtensionConnect
<1>2. /\ UNCHANGED <<waiting, requests, acks, surplus, ext_focus>> /\ ~waiting'
      /\ UNCHANGED <<todo, ready, unread, expanded, marked, redrawn, focusable, current_element, focused_message>>
  BY <1>1, EventFacts DEF Idle, extension, MessageGone, TimerFires, ExtensionConnect, state, focus, mthread
<1>3. missing \subseteq missing' /\ missing' \subseteq Mail
  <2>1. missing \subseteq Mail /\ Lost \subseteq Mail
    BY PageAssumption DEF StateTypes
  <2>2. missing' = missing \/ \E m \in Lost : missing' = missing \cup {m}
    BY DEF MessageGone, TimerFires, ExtensionConnect, mthread
  <2>3. QED
    BY <2>1, <2>2
<1>4. StateTypes' /\ SocketTypes'
  BY <1>2, <1>3 DEF StateTypes, SocketTypes, RequestType
<1>5. \A c : ~ToCome(c)'
  BY <1>1, <1>2 DEF Idle, ToCome, unsent, ToSet
<1>6. \A x : PageRight(x) => PageRight(x)'
  BY <1>1, <1>2, <1>3, <1>5, StillRight
<1>7. ShowsRight'
  BY <1>1, <1>2, <1>6, EventShows DEF Idle
<1>8. Stage'
  <2>1. (Resting \/ Steady) /\ (Steady /\ synced => FocusKnown /\ FocusFits)
    BY <1>1, IdleStage
  <2>2. FocusKnown' = FocusKnown /\ FocusFits' = FocusFits /\ synced' = synced
    BY <1>2 DEF FocusKnown, FocusFits, synced
  <2>3. QED
    BY <1>2, <2>1, <2>2 DEF Stage, Resting, Steady
<1>9. QED
  BY <1>4, <1>7, <1>8

-----------------------------------------------------------------------------
(* The invariant holds.                                                    *)

LEMMA InitView == PageInit => ViewInv
<1> SUFFICES ASSUME PageInit
             PROVE  ViewInv
  OBVIOUS
<1>1. SocketInv
  BY InitSocket
<1>2. StateTypes
  <2>1. [m \in Mail |-> {}] \in Stop
    BY DEF Stop
  <2>2. QED
    BY <2>1 DEF StateTypes, PageInit
<1>3. SocketTypes
  <2>1. <<>> \in Seq(Calls) /\ ToSet(<<>>) = {}
    BY DEF ToSet
  <2>2. QED
    BY <2>1 DEF SocketTypes, PageInit
<1>4. ShowsRight
  <2>1. Leads(<<>>, PageNow, PageNow)
    BY LeadsEmpty
  <2>2. PageType(PageNow)
    BY DEF PageType, PageNow, PageInit
  <2>3. QED
    BY <2>1, <2>2 DEF ShowsRight, PageInit
<1>5. Wire /\ Stage
  BY DEF PageInit, Wire, AckOfNow, RequestOfNow, Stage, Resting
<1>6. QED
  BY <1>1, <1>2, <1>3, <1>4, <1>5 DEF ViewInv

LEMMA NextView == ViewInv /\ [PageNext]_pageVars => ViewInv'
<1> SUFFICES ASSUME ViewInv, [PageNext]_pageVars
             PROVE  ViewInv'
  OBVIOUS
<1>1. SocketInv /\ StateTypes /\ SocketTypes /\ ShowsRight /\ Wire /\ Stage
  BY DEF ViewInv
<1>2. CASE PageEvent
  <2>1. SocketInv' /\ Wire'
    BY <1>1, <1>2, EventSocket, EventWire
  <2>2. CASE LoadThread \/ LoadChanged \/ IdleRender
    BY <1>1, <2>1, <2>2, RenderEvent DEF ViewInv
  <2>3. CASE PlainKey
    <3>1. Idle /\ ready
      BY <2>3 DEF PlainKey, Navigate, NavigateExpand, NextUnread, RemoteImages, ToggleExpand,
                  ToggleAll, ToggleMark, ToggleMarkAll, Key
    <3>2. Pressed
      BY <1>1, <2>3, <3>1, IdleStage, PlainKeyCalls
    <3>3. QED
      BY <1>1, <1>2, <2>1, <3>2, KeyedEvent DEF ViewInv
  <2>4. CASE ElementAction
    BY <1>1, <2>1, <2>4, ElementEvent DEF ViewInv
  <2>5. CASE TagsChanged
    BY <1>1, <2>1, <2>5, TagsEvent DEF ViewInv
  <2>6. CASE MessageGone \/ TimerFires \/ ExtensionConnect
    BY <1>1, <2>1, <2>6, QuietEvent DEF ViewInv
  <2>7. QED
    BY <1>2, <2>2, <2>3, <2>4, <2>5, <2>6 DEF PageEvent, PlainKey
<1>3. CASE Send
  BY <1>1, <1>3, SendSocket, SendTypes, SendShows, SendWire, SendStage DEF ViewInv
<1>4. CASE Acked
  BY <1>1, <1>4, AckedSocket, AckedTypes, AckedShows, AckedWire, AckedStage DEF ViewInv
<1>5. CASE ExtHandle
  BY <1>1, <1>5, ExtSocket, ExtTypes, ExtShows, ExtWire, ExtStage DEF ViewInv
<1>6. CASE UNCHANGED pageVars
  <2>1. /\ SameProgram
        /\ UNCHANGED <<current_element, focused_message, requests, acks, surplus, ext_focus>>
        /\ PageNow' = PageNow
    BY <1>6 DEF pageVars, SameProgram, mthread, state, focus, extension, display, PageNow
  <2>2. SocketInv' /\ StateTypes' /\ SocketTypes'
    BY <1>1, <2>1 DEF SameProgram, SocketInv, AckAccounting, StateTypes, SocketTypes, RequestType
  <2>3. ShowsRight'
    <3>1. PICK y : Leads(requests, PageNow, y) /\ PageType(y) /\ (ready \/ todo # <<>> => PageRight(y))
      BY <1>1 DEF ShowsRight
    <3>2. ready \/ todo # <<>> => PageRight(y)'
      BY <2>1, <3>1, SameRight
    <3>3. Leads(requests, PageNow, y)' /\ PageType(y)'
      BY <2>1, <3>1 DEF Leads, PageType
    <3>4. QED
      BY <2>1, <3>2, <3>3 DEF ShowsRight, SameProgram
  <2>4. synced' = synced /\ NoFocus' = NoFocus /\ FocusKnown' = FocusKnown /\ FocusFits' = FocusFits
    BY <2>1 DEF SameProgram, synced, NoFocus, FocusKnown, FocusFits
  <2>5. Wire'
    BY <1>1, <2>1, <2>4 DEF SameProgram, Wire, AckOfNow, RequestOfNow
  <2>6. (Resting \/ SetsUp(todo) \/ Clearing)  => Stage'
    BY <2>1, <2>4 DEF SameProgram, Stage, Resting, Clearing
  <2>7. Drawing \/ Finishing => Stage'
    BY <2>1, <2>4 DEF SameProgram, Stage, Drawing, Finishing
  <2>8. Steady => Stage'
    BY <2>1, <2>4 DEF SameProgram, Stage, Steady
  <2>9. QED
    BY <1>1, <2>2, <2>3, <2>5, <2>6, <2>7, <2>8 DEF ViewInv, Stage
<1>7. QED
  BY <1>2, <1>3, <1>4, <1>5, <1>6 DEF PageNext

LEMMA ViewInvHolds == PageSpec => []ViewInv
  BY InitView, NextView, PTL DEF PageSpec

\* The page and the program agree on the focus, on the messages that are open
\* and marked, on tags and on the part of each message that is on display,
\* whatever keys and changes of tags came while a thread was rendered.
THEOREM PageShows == PageSpec => []PageShowsState
<1>1. ViewInv => PageShowsState
  <2> SUFFICES ASSUME ViewInv
               PROVE  PageShowsState
    OBVIOUS
  <2>1. SocketInv /\ StateTypes /\ SocketTypes /\ ShowsRight /\ Stage
    BY DEF ViewInv
  <2>2. ASSUME Settled
        PROVE  /\ ext_focus = <<focused_message, current_element[focused_message]>>
               /\ current_element[focused_message] \in {0} \cup focusable[focused_message]
    <3>1. FocusKnown /\ FocusFits
      BY <2>1, <2>2, IdleStage DEF Settled, synced
    <3>2. QED
      BY <3>1 DEF FocusKnown, FocusFits
  <2>3. ASSUME ready, Idle, requests = <<>>
        PROVE  /\ drawn = Mail /\ hidden = Mail \ expanded /\ shown_tags = unread
               /\ shown_marks \subseteq marked /\ marked \ shown_marks \subseteq redrawn
               /\ \A m \in Mail \ missing : OneShown(m) /\ shown_parts[m] = Fitting(m)
    <3>1. PICK y : Leads(<<>>, PageNow, y) /\ PageType(y) /\ PageRight(y)
      BY <2>1, <2>3 DEF ShowsRight
    <3>2. y = PageNow
      BY <3>1, LeadsEmpty
    <3>3. /\ y.drawn = drawn /\ y.hidden = hidden /\ y.marks = shown_marks
          /\ y.tags = shown_tags /\ y.parts = shown_parts
      BY <3>2 DEF PageNow
    <3>4. drawn \subseteq Mail /\ shown_marks \subseteq Mail /\ shown_tags \subseteq Mail
      BY <3>1, <3>3 DEF PageType
    <3>5. unread \subseteq Mail /\ marked \subseteq Mail
      BY <2>1 DEF StateTypes
    <3>6. /\ \A m \in Mail : m \in drawn /\ (m \in shown_tags <=> m \in unread)
          /\ hidden = Mail \ expanded
          /\ \A m \in Mail : /\ m \in shown_marks => m \in marked
                             /\ m \in marked => m \in shown_marks \cup redrawn
          /\ \A m \in Mail \ missing : OneShown(m) /\ shown_parts[m] = Fitting(m)
      BY <2>3, <3>1, <3>3, IdleRight
    <3>7. QED
      BY <3>4, <3>5, <3>6
  <2>4. ASSUME NEW m \in Mail, OneShown(m), shown_parts[m] = Fitting(m)
        PROVE  /\ Alternatives[m] # {} => Cardinality(Alternatives[m] \cap shown_parts[m]) = 1
               /\ shown_parts[m] \cap focusable[m] = {}
    <3>1. shown_parts[m] \cap focusable[m] = {}
      BY <2>4 DEF Fitting
    <3>2. ASSUME Alternatives[m] # {}
          PROVE  Cardinality(Alternatives[m] \cap shown_parts[m]) = 1
      <4>1. PICK e \in Alternatives[m] : Alternatives[m] \ focusable[m] = {e}
        BY <2>4, <3>2 DEF OneShown
      <4>2. Alternatives[m] \cap Fitting(m) = Alternatives[m] \ focusable[m]
        BY PageAssumption DEF Fitting, Type
      <4>3. Alternatives[m] \cap shown_parts[m] = {e}
        BY <2>4, <4>1, <4>2
      <4>4. QED
        BY <4>3, FS_Singleton
    <3>3. QED
      BY <3>1, <3>2
  <2>5. FocusAgrees /\ FocusCanBe
    BY <2>2 DEF FocusAgrees, FocusCanBe
  <2>6. HiddenAgrees /\ MarksAgree /\ TagsAgree
    BY <2>3 DEF HiddenAgrees, MarksAgree, TagsAgree
  <2>7. OneAlternative
    BY <2>3, <2>4 DEF OneAlternative
  <2>8. QED
    BY <2>5, <2>6, <2>7 DEF PageShowsState
<1>2. QED
  BY <1>1, ViewInvHolds, PTL

-----------------------------------------------------------------------------
(* Messages that are taken for read.                                       *)

\* When nothing is to be drawn or cleared any more, all is drawn.
LEMMA AllDrawn ==
  ASSUME SocketTypes, ShowsRight, ready \/ todo # <<>>, requests = <<>>,
         \A c \in ToSet(todo) : c.call \notin {"ClearMessages", "AddMessage"}
  PROVE  Mail \subseteq drawn
<1>1. PICK y : Leads(<<>>, PageNow, y) /\ PageRight(y)
  BY DEF ShowsRight
<1>2. y = PageNow
  BY <1>1, LeadsEmpty
<1>3. y.drawn = drawn
  BY <1>2 DEF PageNow
<1>4. ToSet(unsent) \subseteq ToSet(todo)
  <2>1. waiting => todo # <<>> /\ ToSet(todo) = {Head(todo)} \cup ToSet(Tail(todo))
    BY TailFacts DEF SocketTypes
  <2>2. QED
    BY <2>1 DEF unsent
<1>5. ~ToCome(Clear) /\ \A m \in Mail : ~ToCome(Call("AddMessage", m))
  BY <1>4 DEF ToCome, Clear, Call
<1>6. DrawnRight(y)
  BY <1>1 DEF PageRight
<1>7. QED
  BY <1>3, <1>5, <1>6 DEF DrawnRight

\* What else changes the messages that are being marked.
LEMMA MarkingKept ==
  ASSUME [PageNext]_pageVars, ~TimerFires, ~Acked
  PROVE  marking' \subseteq marking
<1>1. CASE KeyEvent
  <2>1. CASE TagsChanged
    BY <2>1 DEF TagsChanged, NewTags
  <2>2. CASE MessageGone
    BY <2>2 DEF MessageGone, reading
  <2>3. CASE Navigate \/ NavigateExpand \/ NextUnread \/ RemoteImages \/ ToggleExpand \/ ToggleAll
             \/ ToggleMark \/ ToggleMarkAll \/ ElementAction
    BY <2>3 DEF Navigate, NavigateExpand, NextUnread, RemoteImages, ToggleExpand, ToggleAll,
                ToggleMark, ToggleMarkAll, ElementAction, Key, reading
  <2>4. QED
    BY <1>1, <2>1, <2>2, <2>3 DEF KeyEvent
<1>2. CASE LoadThread \/ LoadChanged \/ ExtensionConnect \/ IdleRender
  BY <1>2 DEF LoadThread, LoadChanged, ExtensionConnect, IdleRender, reading
<1>3. CASE Send \/ ExtHandle \/ UNCHANGED pageVars
  BY <1>3 DEF Send, ExtHandle, pageVars, reading
<1>4. QED
  BY <1>1, <1>2, <1>3 DEF PageNext, PageEvent, KeyEvent

\* A message is taken for read only while the page has drawn it and has the
\* focus on it, unless replies are left over from messages without content.
THEOREM ReadIsFocused == PageSpec => ReadHasFocus
<1>1. ViewInv /\ [PageNext]_pageVars =>
        [surplus = 0 => marking' \ marking \subseteq drawn \cap {ext_focus[1]}]_pageVars
  <2> SUFFICES ASSUME ViewInv, [PageNext]_pageVars, surplus = 0
               PROVE  marking' \ marking \subseteq drawn \cap {ext_focus[1]}
    OBVIOUS
  <2>1. /\ SocketInv /\ StateTypes /\ SocketTypes /\ ShowsRight /\ Wire /\ Stage /\ synced
        /\ NoMail \notin Mail
    BY PageAssumption DEF ViewInv, synced
  <2>2. ASSUME NEW f, NEW shut, UnreadCheck(f, shut)
        PROVE  marking' \ marking \subseteq Mail \cap {f} /\ (~ready => marking' = marking)
    <3>1. unread \subseteq Mail
      BY <2>1 DEF StateTypes
    <3>2. QED
      BY <2>2, <3>1 DEF UnreadCheck
  <2>3. CASE TimerFires
    <3>1. Idle /\ UnreadCheck(focused_message, expanded)
      BY <2>3 DEF TimerFires
    <3>2. marking' \ marking \subseteq Mail \cap {focused_message} /\ (~ready => marking' = marking)
      BY <2>2, <3>1
    <3>3. CASE ready
      <4>1. requests = <<>> /\ FocusKnown
        BY <2>1, <3>1, <3>3, IdleStage
      <4>2. todo = <<>>
        BY <3>1 DEF Idle
      <4>3. \A c \in ToSet(todo) : c.call \notin {"ClearMessages", "AddMessage"}
        BY <4>2 DEF ToSet
      <4>4. Mail \subseteq drawn
        BY <2>1, <3>3, <4>1, <4>3, AllDrawn
      <4>5. ext_focus[1] = focused_message
        BY <4>1 DEF FocusKnown
      <4>6. QED
        BY <3>2, <4>4, <4>5
    <3>4. QED
      BY <3>2, <3>3
  <2>4. CASE Acked
    <3> DEFINE c == Head(todo).call
               m == Head(acks)[1]
    <3>1. waiting /\ acks # <<>> /\ todo # <<>>
      BY <2>1, <2>4, AckedFacts DEF SocketTypes
    <3>2. requests = <<>> /\ m = ext_focus[1]
      BY <2>1, <3>1, OneOnItsWay DEF Wire, AckOfNow
    <3>3. \/ marking' = marking
          \/ /\ c \notin {"ClearMessages", "Page"} /\ m # NoMail /\ UnreadCheck(m, expanded)
      BY <2>4 DEF Acked, HandleAck, Forget
    <3>4. CASE c \notin {"ClearMessages", "Page"} /\ m # NoMail /\ UnreadCheck(m, expanded)
      <4>1. marking' \ marking \subseteq Mail \cap {ext_focus[1]}
        BY <2>2, <3>2, <3>4
      <4>2. ~NoFocus
        BY <3>2, <3>4 DEF NoFocus
      <4>3. Finishing \/ Steady
        <5>1. ~SetsUp(todo) /\ ~Clearing
          BY <3>4 DEF SetsUp, Clearing, Clears, Clear, Call
        <5>2. ~Drawing /\ ~Resting
          BY <2>1, <3>1, <4>2 DEF Drawing, Resting
        <5>3. QED
          BY <2>1, <5>1, <5>2 DEF Stage
      <4>4. \A k \in ToSet(todo) : k.call \notin {"ClearMessages", "AddMessage"}
        <5>1. CASE Finishing
          BY <5>1 DEF Finishing, Finishes, ToSet, Call
        <5>2. CASE Steady
          BY <5>2 DEF Steady, Plain, Tells, Swaps, Swap, StateCall, Call, ToSet, PlainCalls, Navigation
        <5>3. QED
          BY <4>3, <5>1, <5>2
      <4>5. Mail \subseteq drawn
        BY <2>1, <3>1, <3>2, <4>4, AllDrawn
      <4>6. QED
        BY <4>1, <4>5
    <3>5. QED
      BY <3>3, <3>4
  <2>5. CASE ~TimerFires /\ ~Acked
    BY <2>5, MarkingKept
  <2>6. QED
    BY <2>3, <2>4, <2>5
<1>2. QED
  BY <1>1, ViewInvHolds, PTL DEF PageSpec, ReadHasFocus

=============================================================================
