------------------------- MODULE QueryLoader_proofs -------------------------
(***************************************************************************)
(* Proofs about QueryLoader, for any threads, values and queries and any   *)
(* number of changes and reloads: the list ends up right, and nothing that *)
(* does not match the query gets in.                                       *)
(***************************************************************************)
EXTENDS QueryLoader, QueueFacts, FiniteSetTheorems, TLAPS

Loading == lpc \in {"open", "query", "iterate", "batch"}

\* The list is meant to be the one of the query: no reload or close is under
\* way.
InUse == gpc \in {"idle", "update_deferred"}

\* Where the loader is, what it has left, and whether it may go on.
LoaderInv ==
  /\ lpc \notin {"iterate", "batch"} => remaining = {}
  /\ in_destructor => gpc \in {"stop_destruct", "destroyed"}
  /\ InUse /\ ~failed => (run <=> Loading)

\* Rows that wait for the list have a "data" to come, or the list goes.
DataUnderway ==
  to_list_store # <<>> =>
    \/ lpc \in {"iterate", "batch", "data"}
    \/ "data" \in ToSet(pipe)
    \/ in_destructor

\* What is in the list, on its way to it, or yet to be found matches.
AllMatchQuery ==
  InUse =>
    /\ \A row \in ToSet(rows) \cup ToSet(to_list_store) : row.val \in query
    /\ lpc \in {"iterate", "batch"} => \A t \in remaining : snap[t] \in query

\* A change of t that the list has yet to be told of, and one it has put off.
Told == polled \cup ToSet(pipe)
Pending == Told \cup ToSet(changed_threads)

Has(s, t) == RowsOf(s, t) # {}
Once(s, t) == \A j, k \in RowsOf(s, t) : j = k
Holds(s, t, v) == \A k \in RowsOf(s, t) : s[k].val = v

\* t is in one place at most: in the list, waiting for it, or to be found.
InOnePlace(t) ==
  /\ Once(rows, t) /\ Once(to_list_store, t)
  /\ ~(Has(rows, t) /\ Has(to_list_store, t))
  /\ t \in remaining => ~Has(rows, t) /\ ~Has(to_list_store, t)

\* These places show t as it is when the database holds v of it.
Shows(t, v) ==
  /\ Holds(rows, t, v) /\ Holds(to_list_store, t, v)
  /\ v \in query <=> Has(rows, t) \/ Has(to_list_store, t) \/ t \in remaining

\* Until the loader is through its loop, the list follows its snapshot and the
\* snapshot the database, but for changes to come; then the list itself does.
ListInv ==
  InUse /\ ~failed =>
    \A t \in Tid \ raced :
      /\ InOnePlace(t)
      /\ lpc \in {"open", "query"} => ~Has(rows, t) /\ ~Has(to_list_store, t)
      /\ lpc \in {"query", "iterate", "batch"} => t \in Pending \/ snap[t] = db[t]
      /\ lpc \in {"iterate", "batch"} => Shows(t, snap[t])
      /\ ~Loading => t \in Pending \/ Shows(t, db[t])

\* So does what the deferred update reads.
DeferredReads ==
  gpc = "update_deferred" => \A t \in Tid : t \in Told \/ gdb[t] = db[t]

\* The inductive invariant.
IInv == /\ TypeOK /\ LoaderInv /\ DataUnderway /\ DeferredUnderway
        /\ AllMatchQuery /\ DeferredReads /\ ListInv

-----------------------------------------------------------------------------
(* Sequences of rows, and the rows of one thread in them.                  *)

LEMMA RowsOfIndices ==
  ASSUME NEW s \in Seq(Row), NEW t
  PROVE  /\ RowsOf(s, t) = {k \in 1 .. Len(s) : s[k].tid = t}
         /\ RowsOf(s, t) \in SUBSET Nat
         /\ ToSet(s) = {s[k] : k \in 1 .. Len(s)}
<1>1. DOMAIN s = 1 .. Len(s) /\ Len(s) \in Nat
  OBVIOUS
<1>2. QED
  BY <1>1 DEF RowsOf, ToSet

LEMMA NoRows ==
  /\ ToSet(<<>>) = {}
  /\ \A t : /\ ~Has(<<>>, t) /\ Once(<<>>, t)
           /\ \A v : Holds(<<>>, t, v)
<1>1. <<>> \in Seq(Row) /\ 1 .. Len(<<>>) = {}
  BY EmptySeq
<1>2. ToSet(<<>>) = {} /\ \A t : RowsOf(<<>>, t) = {}
  BY <1>1, RowsOfIndices
<1>3. QED
  BY <1>2 DEF Has, Once, Holds

LEMMA SingleRow ==
  ASSUME NEW r \in Row, NEW t
  PROVE  /\ <<r>> \in Seq(Row) /\ ToSet(<<r>>) = {r}
         /\ Has(<<r>>, t) <=> r.tid = t
         /\ Once(<<r>>, t)
         /\ \A v : Holds(<<r>>, t, v) <=> (r.tid = t => r.val = v)
<1> DEFINE s == <<r>>
<1>1. s \in Seq(Row) /\ Len(s) = 1 /\ s[1] = r
  OBVIOUS
<1> HIDE DEF s
<1>2. 1 .. 1 = {1}
  OBVIOUS
<1>3. /\ RowsOf(s, t) = {k \in {1} : s[k].tid = t}
      /\ ToSet(s) = {s[k] : k \in {1}}
  BY <1>1, <1>2, RowsOfIndices
<1>4. ToSet(s) = {r} /\ RowsOf(s, t) = IF r.tid = t THEN {1} ELSE {}
  BY <1>1, <1>3
<1>5. QED
  BY <1>1, <1>4 DEF Has, Once, Holds, s

LEMMA ConcatRows ==
  ASSUME NEW s \in Seq(Row), NEW u \in Seq(Row), NEW t
  PROVE  /\ s \o u \in Seq(Row) /\ ToSet(s \o u) = ToSet(s) \cup ToSet(u)
         /\ Has(s \o u, t) <=> Has(s, t) \/ Has(u, t)
         /\ Once(s, t) /\ Once(u, t) /\ ~(Has(s, t) /\ Has(u, t)) => Once(s \o u, t)
         /\ \A v : Holds(s \o u, t, v) <=> Holds(s, t, v) /\ Holds(u, t, v)
<1> DEFINE w == s \o u
           m == Len(s)
           n == Len(u)
<1>1. /\ w \in Seq(Row) /\ Len(w) = m + n /\ m \in Nat /\ n \in Nat
      /\ \A k \in 1 .. m + n : w[k] = IF k <= m THEN s[k] ELSE u[k - m]
  BY ConcatProperties
<1> HIDE DEF w, m, n
<1>2. /\ \A k \in 1 .. m : k \in 1 .. m + n /\ w[k] = s[k]
      /\ \A k \in 1 .. n : m + k \in 1 .. m + n /\ w[m + k] = u[k]
  <2>1. ASSUME NEW k \in 1 .. m PROVE k \in 1 .. m + n /\ w[k] = s[k]
    BY <1>1
  <2>2. ASSUME NEW k \in 1 .. n PROVE m + k \in 1 .. m + n /\ w[m + k] = u[k]
    <3>1. m + k \in 1 .. m + n /\ ~(m + k <= m) /\ m + k - m = k
      BY <1>1
    <3>2. QED
      BY <1>1, <3>1
  <2>3. QED
    BY <2>1, <2>2
<1>3. \A k \in 1 .. m + n : \/ k \in 1 .. m /\ w[k] = s[k]
                            \/ k - m \in 1 .. n /\ w[k] = u[k - m]
  BY <1>1
<1>4. /\ RowsOf(w, t) = {k \in 1 .. m + n : w[k].tid = t}
      /\ RowsOf(s, t) = {k \in 1 .. m : s[k].tid = t}
      /\ RowsOf(u, t) = {k \in 1 .. n : u[k].tid = t}
      /\ ToSet(w) = {w[k] : k \in 1 .. m + n}
      /\ ToSet(s) = {s[k] : k \in 1 .. m}
      /\ ToSet(u) = {u[k] : k \in 1 .. n}
  <2>1. RowsOf(w, t) = {k \in 1 .. m + n : w[k].tid = t} /\ ToSet(w) = {w[k] : k \in 1 .. m + n}
    BY <1>1, RowsOfIndices
  <2>2. RowsOf(s, t) = {k \in 1 .. m : s[k].tid = t} /\ ToSet(s) = {s[k] : k \in 1 .. m}
    BY RowsOfIndices DEF m
  <2>3. RowsOf(u, t) = {k \in 1 .. n : u[k].tid = t} /\ ToSet(u) = {u[k] : k \in 1 .. n}
    BY RowsOfIndices DEF n
  <2>4. QED
    BY <2>1, <2>2, <2>3
<1>5. ToSet(w) = ToSet(s) \cup ToSet(u)
  <2>1. ASSUME NEW x \in ToSet(w) PROVE x \in ToSet(s) \cup ToSet(u)
    <3>1. PICK k \in 1 .. m + n : x = w[k]
      BY <1>4
    <3>2. CASE k \in 1 .. m /\ w[k] = s[k]
      BY <1>4, <3>1, <3>2
    <3>3. CASE k - m \in 1 .. n /\ w[k] = u[k - m]
      BY <1>4, <3>1, <3>3
    <3>4. QED
      BY <1>3, <3>2, <3>3
  <2>2. ASSUME NEW x \in ToSet(s) PROVE x \in ToSet(w)
    BY <1>2, <1>4
  <2>3. ASSUME NEW x \in ToSet(u) PROVE x \in ToSet(w)
    <3>1. PICK k \in 1 .. n : x = u[k]
      BY <1>4
    <3>2. m + k \in 1 .. m + n /\ x = w[m + k]
      BY <1>2, <3>1
    <3>3. QED
      BY <1>4, <3>2
  <2>4. QED
    BY <2>1, <2>2, <2>3
<1>6. /\ \A k \in RowsOf(s, t) : k \in RowsOf(w, t)
      /\ \A k \in RowsOf(u, t) : m + k \in RowsOf(w, t)
  BY <1>2, <1>4
<1>7. \A k \in RowsOf(w, t) : \/ k \in RowsOf(s, t) /\ w[k] = s[k]
                              \/ k - m \in RowsOf(u, t) /\ w[k] = u[k - m]
  BY <1>3, <1>4
<1>8. Has(w, t) <=> Has(s, t) \/ Has(u, t)
  BY <1>6, <1>7 DEF Has
<1>9. ASSUME Once(s, t), Once(u, t), ~(Has(s, t) /\ Has(u, t)) PROVE Once(w, t)
  <2>1. CASE Has(s, t)
    BY <1>7, <1>9, <2>1 DEF Has, Once
  <2>2. CASE ~Has(s, t)
    <3> SUFFICES ASSUME NEW j \in RowsOf(w, t), NEW k \in RowsOf(w, t) PROVE j = k
      BY DEF Once
    <3>1. j - m = k - m
      BY <1>7, <1>9, <2>2 DEF Has, Once
    <3>2. j \in Nat /\ k \in Nat
      BY <1>1, <1>4
    <3>3. QED
      BY <1>1, <3>1, <3>2
  <2>3. QED
    BY <2>1, <2>2
<1>10. ASSUME NEW v PROVE Holds(w, t, v) <=> Holds(s, t, v) /\ Holds(u, t, v)
  <2>1. ASSUME Holds(w, t, v), NEW k \in RowsOf(s, t) PROVE s[k].val = v
    <3>1. w[k] = s[k]
      BY <1>2, <1>4
    <3>2. QED
      BY <1>6, <2>1, <3>1 DEF Holds
  <2>2. ASSUME Holds(w, t, v), NEW k \in RowsOf(u, t) PROVE u[k].val = v
    <3>1. w[m + k] = u[k]
      BY <1>2, <1>4
    <3>2. QED
      BY <1>6, <2>2, <3>1 DEF Holds
  <2>3. Holds(s, t, v) /\ Holds(u, t, v) => Holds(w, t, v)
    BY <1>7 DEF Holds
  <2>4. QED
    BY <2>1, <2>2, <2>3 DEF Holds
<1>11. QED
  BY <1>1, <1>5, <1>8, <1>9, <1>10 DEF w

\* A row is refreshed.
LEMMA RefreshedRows ==
  ASSUME NEW s \in Seq(Row), NEW f \in 1 .. Len(s), NEW v \in Value, NEW t
  PROVE  LET w == [s EXCEPT ![f].val = v]
         IN  /\ w \in Seq(Row)
             /\ \A row \in ToSet(w) : row \in ToSet(s) \/ row.val = v
             /\ Has(w, t) <=> Has(s, t)
             /\ Once(s, t) => Once(w, t)
             /\ \A x : s[f].tid # t /\ Holds(s, t, x) => Holds(w, t, x)
             /\ s[f].tid = t /\ Once(s, t) => Holds(w, t, v)
<1> DEFINE w == [s EXCEPT ![f].val = v]
           e == [s[f] EXCEPT !.val = v]
<1>1. s[f] \in Row /\ Len(s) \in Nat
  OBVIOUS
<1>2. e \in Row /\ e.tid = s[f].tid /\ e.val = v
  BY <1>1 DEF Row
<1>3. w = [s EXCEPT ![f] = e]
  OBVIOUS
<1> HIDE DEF e
<1>4. /\ w \in Seq(Row) /\ Len(w) = Len(s)
      /\ \A k \in 1 .. Len(s) : w[k] = IF k = f THEN e ELSE s[k]
  <2> HIDE DEF w
  <2>1. QED
    BY <1>2, <1>3, ExceptSeq
<1> HIDE DEF w
<1>5. /\ RowsOf(w, t) = {k \in 1 .. Len(s) : w[k].tid = t}
      /\ RowsOf(s, t) = {k \in 1 .. Len(s) : s[k].tid = t}
      /\ ToSet(w) = {w[k] : k \in 1 .. Len(s)}
      /\ ToSet(s) = {s[k] : k \in 1 .. Len(s)}
  BY <1>4, RowsOfIndices
<1>6. RowsOf(w, t) = RowsOf(s, t)
  BY <1>2, <1>4, <1>5
<1>7. \A row \in ToSet(w) : row \in ToSet(s) \/ row.val = v
  BY <1>2, <1>4, <1>5
<1>8. ASSUME NEW x, s[f].tid # t, Holds(s, t, x) PROVE Holds(w, t, x)
  BY <1>4, <1>5, <1>6, <1>8 DEF Holds
<1>9. ASSUME s[f].tid = t, Once(s, t) PROVE Holds(w, t, v)
  <2>1. \A k \in RowsOf(s, t) : k = f
    BY <1>5, <1>9 DEF Once
  <2>2. QED
    BY <1>2, <1>4, <1>5, <1>6, <2>1 DEF Holds
<1>10. QED
  BY <1>4, <1>6, <1>7, <1>8, <1>9 DEF Has, Once, w

\* A row is erased.
LEMMA ErasedRows ==
  ASSUME NEW s \in Seq(Row), NEW f \in 1 .. Len(s), NEW t
  PROVE  LET w == RemoveAt(s, f)
         IN  /\ w \in Seq(Row)
             /\ ToSet(w) \subseteq ToSet(s)
             /\ s[f].tid # t => (Has(w, t) <=> Has(s, t))
             /\ Once(s, t) => Once(w, t)
             /\ \A x : Holds(s, t, x) => Holds(w, t, x)
             /\ s[f].tid = t /\ Once(s, t) => ~Has(w, t)
<1> DEFINE w == RemoveAt(s, f)
           n == Len(s)
           at(k) == IF k < f THEN k ELSE k + 1
<1>1. /\ w \in Seq(Row) /\ Len(w) = n - 1 /\ n \in Nat /\ f \in 1 .. n
      /\ \A k \in 1 .. n - 1 : w[k] = s[at(k)]
  BY RemoveAtFacts
<1> HIDE DEF w
<1>2. /\ RowsOf(w, t) = {k \in 1 .. n - 1 : w[k].tid = t}
      /\ RowsOf(s, t) = {k \in 1 .. n : s[k].tid = t}
      /\ ToSet(w) = {w[k] : k \in 1 .. n - 1}
      /\ ToSet(s) = {s[k] : k \in 1 .. n}
  BY <1>1, RowsOfIndices
<1> HIDE DEF n
<1>3. /\ \A k \in 1 .. n - 1 : at(k) \in 1 .. n /\ at(k) # f
      /\ \A j, k \in 1 .. n - 1 : at(j) = at(k) => j = k
  BY <1>1
<1>4. ASSUME NEW k \in 1 .. n, k # f PROVE \E j \in 1 .. n - 1 : at(j) = k
  <2>1. CASE k < f
    <3>1. k \in 1 .. n - 1 /\ at(k) = k
      BY <1>1, <2>1
    <3>2. QED
      BY <3>1
  <2>2. CASE ~(k < f)
    <3>1. k - 1 \in 1 .. n - 1 /\ at(k - 1) = k
      BY <1>1, <1>4, <2>2
    <3>2. QED
      BY <3>1
  <2>3. QED
    BY <2>1, <2>2
<1> HIDE DEF at
<1>5. \A k \in RowsOf(w, t) : at(k) \in RowsOf(s, t) /\ at(k) # f /\ w[k] = s[at(k)]
  BY <1>1, <1>2, <1>3
<1>6. ToSet(w) \subseteq ToSet(s)
  BY <1>1, <1>2, <1>3
<1>7. ASSUME s[f].tid # t, Has(s, t) PROVE Has(w, t)
  <2>1. PICK k \in 1 .. n : s[k].tid = t /\ k # f
    BY <1>2, <1>7 DEF Has
  <2>2. PICK j \in 1 .. n - 1 : at(j) = k
    BY <1>4, <2>1
  <2>3. j \in RowsOf(w, t)
    BY <1>1, <1>2, <2>1, <2>2
  <2>4. QED
    BY <2>3 DEF Has
<1>8. Has(w, t) => Has(s, t)
  BY <1>5 DEF Has
<1>9. Once(s, t) => Once(w, t)
  <2> SUFFICES ASSUME Once(s, t), NEW j \in RowsOf(w, t), NEW k \in RowsOf(w, t) PROVE j = k
    BY DEF Once
  <2>1. at(j) = at(k)
    BY <1>5 DEF Once
  <2>2. QED
    BY <1>2, <1>3, <2>1
<1>10. ASSUME NEW x, Holds(s, t, x) PROVE Holds(w, t, x)
  BY <1>5, <1>10 DEF Holds
<1>11. ASSUME s[f].tid = t, Once(s, t) PROVE ~Has(w, t)
  <2>1. f \in RowsOf(s, t)
    BY <1>1, <1>2, <1>11
  <2>2. QED
    BY <1>5, <1>11, <2>1 DEF Has, Once
<1>12. QED
  BY <1>1, <1>6, <1>7, <1>8, <1>9, <1>10, <1>11 DEF w

\* on_thread_changed with the list: t is in it once, as in d, or not at all;
\* and of the other threads what was there.
LEMMA UpdatedRows ==
  ASSUME rows \in Seq(Row), NEW d \in [Tid -> Value], NEW t \in Tid
  PROVE  LET w == Updated(t, d)
         IN  /\ w \in Seq(Row)
             /\ \A row \in ToSet(w) : row \in ToSet(rows) \/ (row.val = d[t] /\ d[t] \in query)
             /\ Once(rows, t) => /\ Once(w, t) /\ Holds(w, t, d[t])
                                 /\ Has(w, t) <=> d[t] \in query
             /\ \A u \in Tid \ {t} :
                  /\ Has(w, u) <=> Has(rows, u)
                  /\ Once(rows, u) => Once(w, u)
                  /\ \A x : Holds(rows, u, x) => Holds(w, u, x)
<1> DEFINE w == Updated(t, d)
           f == Min(RowsOf(rows, t))
           v == d[t]
<1>1. v \in Value
  OBVIOUS
<1>2. CASE ~Has(rows, t) /\ v \in query
  <2> DEFINE r == [tid |-> t, val |-> v]
  <2>1. r \in Row /\ r.tid = t /\ r.val = v
    BY <1>1 DEF Row
  <2>2. w = <<r>> \o rows
    BY <1>2 DEF Updated, Has
  <2> HIDE DEF w, r, v
  <2>3. /\ w \in Seq(Row) /\ ToSet(w) = {r} \cup ToSet(rows)
        /\ Once(rows, t) => Once(w, t)
        /\ Has(w, t) /\ Holds(w, t, v)
    <3>1. <<r>> \in Seq(Row) /\ ToSet(<<r>>) = {r} /\ Has(<<r>>, t) /\ Once(<<r>>, t)
          /\ Holds(<<r>>, t, v)
      BY <2>1, SingleRow
    <3>2. Holds(rows, t, v)
      BY <1>2 DEF Has, Holds
    <3>3. QED
      BY <1>2, <2>2, <3>1, <3>2, ConcatRows
  <2>4. ASSUME NEW u \in Tid \ {t}
        PROVE  /\ Has(w, u) <=> Has(rows, u)
               /\ Once(rows, u) => Once(w, u)
               /\ \A x : Holds(rows, u, x) => Holds(w, u, x)
    <3>1. <<r>> \in Seq(Row) /\ ~Has(<<r>>, u) /\ Once(<<r>>, u) /\ \A x : Holds(<<r>>, u, x)
      BY <2>1, SingleRow
    <3>2. QED
      BY <2>2, <3>1, ConcatRows
  <2>5. QED
    BY <1>2, <2>1, <2>3, <2>4 DEF w, v
<1>3. CASE ~Has(rows, t) /\ v \notin query
  <2>1. w = rows
    BY <1>3 DEF Updated, Has
  <2>2. QED
    BY <1>3, <2>1 DEF Has, Holds
<1>4. CASE Has(rows, t)
  <2>1. f \in 1 .. Len(rows) /\ rows[f].tid = t
    <3>1. f \in RowsOf(rows, t)
      BY <1>4, MinFacts, RowsOfIndices DEF Has
    <3>2. QED
      BY <3>1, RowsOfIndices
  <2>2. CASE v \in query
    <3>1. w = [rows EXCEPT ![f].val = v]
      BY <1>4, <2>2 DEF Updated, Has
    <3> HIDE DEF w, v, f
    <3>2. /\ w \in Seq(Row)
          /\ \A row \in ToSet(w) : row \in ToSet(rows) \/ row.val = v
          /\ Has(w, t) <=> Has(rows, t)
          /\ Once(rows, t) => Once(w, t) /\ Holds(w, t, v)
      BY <1>1, <2>1, <3>1, RefreshedRows
    <3>3. ASSUME NEW u \in Tid \ {t}
          PROVE  /\ Has(w, u) <=> Has(rows, u)
                 /\ Once(rows, u) => Once(w, u)
                 /\ \A x : Holds(rows, u, x) => Holds(w, u, x)
      BY <1>1, <2>1, <3>1, RefreshedRows
    <3>4. QED
      BY <1>4, <2>2, <3>2, <3>3 DEF w, v
  <2>3. CASE v \notin query
    <3>1. w = RemoveAt(rows, f)
      BY <1>4, <2>3 DEF Updated, Has
    <3> HIDE DEF w, v, f
    <3>2. /\ w \in Seq(Row) /\ ToSet(w) \subseteq ToSet(rows)
          /\ Once(rows, t) => Once(w, t) /\ ~Has(w, t)
      BY <2>1, <3>1, ErasedRows
    <3>3. ASSUME NEW u \in Tid \ {t}
          PROVE  /\ Has(w, u) <=> Has(rows, u)
                 /\ Once(rows, u) => Once(w, u)
                 /\ \A x : Holds(rows, u, x) => Holds(w, u, x)
      BY <2>1, <3>1, ErasedRows
    <3>4. Once(rows, t) => Holds(w, t, v)
      BY <3>2 DEF Has, Holds
    <3>5. QED
      BY <2>3, <3>2, <3>3, <3>4 DEF w, v
  <2>4. QED
    BY <2>2, <2>3
<1>5. QED
  BY <1>2, <1>3, <1>4

-----------------------------------------------------------------------------
(* Type correctness.                                                       *)

Message == {"data", "deferred"} \cup Tid

LEMMA InitTypeOK == Init => TypeOK
<1> SUFFICES ASSUME Init PROVE TypeOK
  OBVIOUS
<1>1. /\ db \in [Tid -> Value] /\ query \in Query /\ new_query \in Query
      /\ run = TRUE /\ in_destructor = FALSE /\ failed = FALSE
      /\ lpc = "open" /\ snap = Closed /\ gpc = "idle" /\ gdb = Closed
      /\ remaining = {} /\ polled = {} /\ raced = {} /\ i = 0
      /\ changes = 0 /\ reloads = 0
  BY DEF Init
<1>2. /\ to_list_store \in Seq(Row) /\ rows \in Seq(Row) /\ changed_threads \in Seq(Tid)
      /\ pipe \in Seq({"data", "deferred"} \cup Tid)
  BY EmptySeq DEF Init
<1>3. changes \in 0 .. MaxChanges /\ reloads \in 0 .. MaxReloads
  BY <1>1, LoaderAssumption
<1>4. QED
  BY <1>1, <1>2, <1>3 DEF TypeOK

\* The dispatchers' pipe keeps its type and gets one message more.
LEMMA EmitFacts ==
  ASSUME TypeOK, NEW msg \in Message, Emit(msg)
  PROVE  /\ pipe' \in Seq(Message)
         /\ ToSet(pipe') = ToSet(pipe) \cup (IF in_destructor THEN {} ELSE {msg})
<1>1. pipe \in Seq(Message)
  BY DEF TypeOK, Message
<1>2. QED
  BY <1>1, AppendFacts DEF Emit

LEMMA LoaderTypeOK == TypeOK /\ LoaderStep => TypeOK'
<1> SUFFICES ASSUME TypeOK, LoaderStep PROVE TypeOK'
  OBVIOUS
<1> USE DEF lvars, gvars, bounds
<1>1. CASE LoaderOpen
  BY <1>1 DEF TypeOK, LoaderOpen
<1>2. CASE LoaderQuery
  BY <1>2 DEF TypeOK, LoaderQuery
<1>3. CASE LoaderQueryFails
  BY <1>3 DEF TypeOK, LoaderQueryFails
<1>4. CASE LoaderPush
  <2>1. PICK t \in remaining : to_list_store' = Append(to_list_store, [tid |-> t, val |-> snap[t]])
                               /\ remaining' = remaining \ {t}
    BY <1>4 DEF LoaderPush
  <2>2. [tid |-> t, val |-> snap[t]] \in Row
    BY <1>4, <2>1 DEF LoaderPush, TypeOK, Row
  <2>3. to_list_store' \in Seq(Row) /\ remaining' \subseteq Tid
    BY <2>1, <2>2, AppendFacts DEF TypeOK
  <2>4. i' \in Nat /\ lpc' \in {"batch", "iterate"} /\ lpc = "iterate"
    BY <1>4 DEF TypeOK, LoaderPush
  <2>5. QED
    BY <1>4, <2>3, <2>4 DEF TypeOK, LoaderPush
<1>5. CASE LoaderBatch
  <2>1. pipe' \in Seq({"data", "deferred"} \cup Tid)
    BY <1>5, EmitFacts DEF TypeOK, LoaderBatch, Message
  <2>2. QED
    BY <1>5, <2>1 DEF TypeOK, LoaderBatch
<1>6. CASE LoaderEnds
  BY <1>6 DEF TypeOK, LoaderEnds
<1>7. CASE LoaderEmitsData
  <2>1. pipe' \in Seq({"data", "deferred"} \cup Tid)
    BY <1>7, EmitFacts DEF LoaderEmitsData, Message
  <2>2. QED
    BY <1>7, <2>1 DEF TypeOK, LoaderEmitsData
<1>8. CASE LoaderEmitsDeferred
  <2>1. pipe' \in Seq({"data", "deferred"} \cup Tid)
    BY <1>8, EmitFacts DEF LoaderEmitsDeferred, Message
  <2>2. QED
    BY <1>8, <2>1 DEF TypeOK, LoaderEmitsDeferred
<1>9. CASE LoaderCloses
  BY <1>9 DEF TypeOK, LoaderCloses
<1>10. QED
  BY <1>1, <1>2, <1>3, <1>4, <1>5, <1>6, <1>7, <1>8, <1>9 DEF LoaderStep

\* A change: of one thread, whose announcement waits from then on.
LEMMA ChangeFacts ==
  ASSUME TypeOK, Change
  PROVE  /\ UNCHANGED <<query, run, in_destructor, lpc, snap, remaining, failed, to_list_store, rows,
                        changed_threads, gpc, gdb, new_query, raced, reloads, i>>
         /\ db' \in [Tid -> Value]
         /\ pipe' \in Seq({"data", "deferred"} \cup Tid) /\ polled' \subseteq Tid
         /\ changes' \in 0 .. MaxChanges
         /\ ToSet(pipe) \subseteq ToSet(pipe') /\ polled \subseteq polled'
         /\ \A t \in Tid : t \in Told' \/ db'[t] = db[t]
<1>1. changes' \in 0 .. MaxChanges
  BY LoaderAssumption DEF TypeOK, Change, WorkerChange, PollChange
<1>2. CASE WorkerChange
  <2>1. PICK t \in Tid, v \in Value : db' = [db EXCEPT ![t] = v] /\ pipe' = Append(pipe, t)
    BY <1>2 DEF WorkerChange
  <2>2. pipe' \in Seq(Message) /\ ToSet(pipe') = ToSet(pipe) \cup {t}
    BY <2>1, AppendFacts DEF TypeOK, Message
  <2>3. QED
    BY <1>1, <1>2, <2>1, <2>2 DEF WorkerChange, TypeOK, Told, Message, lvars, gvars
<1>3. CASE PollChange
  <2>1. PICK t \in Tid, v \in Value : db' = [db EXCEPT ![t] = v] /\ polled' = polled \cup {t}
    BY <1>3 DEF PollChange
  <2>2. QED
    BY <1>1, <1>3, <2>1 DEF PollChange, TypeOK, Told, lvars, gvars
<1>4. QED
  BY <1>2, <1>3 DEF Change

LEMMA ChangeTypeOK == TypeOK /\ Change => TypeOK'
BY ChangeFacts DEF TypeOK

LEMMA UserTypeOK == TypeOK /\ UserAction => TypeOK'
<1> SUFFICES ASSUME TypeOK, UserAction PROVE TypeOK'
  OBVIOUS
<1> USE DEF lvars, gvars, bounds
<1>1. CASE Reload
  <2>1. reloads' \in 0 .. MaxReloads
    BY <1>1, LoaderAssumption DEF TypeOK, Reload
  <2>2. QED
    BY <1>1, <2>1 DEF TypeOK, Reload
<1>2. CASE RefineBegin
  <2>1. reloads' \in 0 .. MaxReloads
    BY <1>2, LoaderAssumption DEF TypeOK, RefineBegin
  <2>2. QED
    BY <1>2, <2>1 DEF TypeOK, RefineBegin
<1>3. CASE Close
  BY <1>3 DEF TypeOK, Close
<1>4. QED
  BY <1>1, <1>2, <1>3 DEF UserAction

\* Taking the first message off the pipe.
LEMMA DispatchFacts ==
  ASSUME TypeOK, pipe # <<>>, pipe' = Tail(pipe)
  PROVE  /\ pipe' \in Seq({"data", "deferred"} \cup Tid)
         /\ ToSet(pipe) = {Head(pipe)} \cup ToSet(pipe')
BY TailFacts DEF TypeOK

\* What the handling of a change does: while the loader runs the thread is
\* put off, else the list is updated.
LEMMA ChangedFacts ==
  ASSUME TypeOK, NEW t \in Tid, NEW d \in [Tid -> Value], NEW ct \in Seq(Tid),
         OnThreadChanged(t, d, ct)
  PROVE  /\ changed_threads' \in Seq(Tid) /\ rows' \in Seq(Row) /\ raced' \subseteq Tid
         /\ ToSet(changed_threads') = ToSet(ct) \cup (IF run THEN {t} ELSE {})
         /\ raced \subseteq raced'
<1>1. CASE run
  <2>1. /\ changed_threads' = Append(ct, t) /\ rows' = rows /\ raced' = raced
        /\ rows \in Seq(Row) /\ raced \subseteq Tid
    BY <1>1 DEF TypeOK, OnThreadChanged
  <2>2. Append(ct, t) \in Seq(Tid) /\ ToSet(Append(ct, t)) = ToSet(ct) \cup {t}
    BY AppendFacts
  <2>3. QED
    BY <1>1, <2>1, <2>2
<1>2. CASE ~run
  BY <1>2, UpdatedRows DEF TypeOK, OnThreadChanged
<1>3. QED
  BY <1>1, <1>2

LEMMA GuiTypeOK == TypeOK /\ GuiStep => TypeOK'
<1> SUFFICES ASSUME TypeOK, GuiStep PROVE TypeOK'
  OBVIOUS
<1> USE DEF lvars, gvars, bounds
<1>0. db \in [Tid -> Value] /\ changed_threads \in Seq(Tid)
  BY DEF TypeOK
<1>1. CASE DispatchChanged
  <2>1. changed_threads' \in Seq(Tid) /\ rows' \in Seq(Row) /\ raced' \subseteq Tid
    BY <1>0, <1>1, ChangedFacts DEF DispatchChanged
  <2>2. pipe' \in Seq({"data", "deferred"} \cup Tid)
    BY <1>1, DispatchFacts DEF DispatchChanged
  <2>3. QED
    BY <1>1, <2>1, <2>2 DEF TypeOK, DispatchChanged
<1>2. CASE PollTells
  <2>1. PICK t \in polled : polled' = polled \ {t} /\ OnThreadChanged(t, db, changed_threads)
    BY <1>2 DEF PollTells
  <2>2. t \in Tid
    BY <2>1 DEF TypeOK
  <2>3. changed_threads' \in Seq(Tid) /\ rows' \in Seq(Row) /\ raced' \subseteq Tid
    BY <1>0, <2>1, <2>2, ChangedFacts
  <2>4. QED
    BY <1>2, <2>1, <2>3 DEF TypeOK, PollTells
<1>3. CASE DispatchData
  <2>1. rows' \in Seq(Row) /\ to_list_store' \in Seq(Row)
    BY <1>3, ConcatProperties, EmptySeq DEF TypeOK, DispatchData
  <2>2. pipe' \in Seq({"data", "deferred"} \cup Tid)
    BY <1>3, DispatchFacts DEF DispatchData
  <2>3. QED
    BY <1>3, <2>1, <2>2 DEF TypeOK, DispatchData
<1>4. CASE DispatchDeferred
  <2>1. pipe' \in Seq({"data", "deferred"} \cup Tid)
    BY <1>4, DispatchFacts DEF DispatchDeferred
  <2>2. QED
    BY <1>4, <2>1 DEF TypeOK, DispatchDeferred
<1>5. CASE UpdateDeferred
  <2>1. Head(changed_threads) \in Tid /\ Tail(changed_threads) \in Seq(Tid)
    BY <1>0, <1>5, TailFacts DEF UpdateDeferred
  <2>2. gdb \in [Tid -> Value]
    BY <1>5 DEF UpdateDeferred, TypeOK
  <2>3. changed_threads' \in Seq(Tid) /\ rows' \in Seq(Row) /\ raced' \subseteq Tid
    BY <1>5, <2>1, <2>2, ChangedFacts DEF UpdateDeferred
  <2>4. QED
    BY <1>5, <2>3 DEF TypeOK, UpdateDeferred
<1>6. CASE UpdateDeferredEnds
  BY <1>6 DEF TypeOK, UpdateDeferredEnds
<1>7. CASE RefineEnd
  BY <1>7 DEF TypeOK, RefineEnd
<1>8. CASE Restart
  <2>1. rows' \in Seq(Row) /\ to_list_store' \in Seq(Row)
    BY <1>8, EmptySeq DEF Restart
  <2>2. QED
    BY <1>8, <2>1 DEF TypeOK, Restart
<1>9. CASE Destruct
  <2>1. /\ rows' \in Seq(Row) /\ to_list_store' \in Seq(Row) /\ changed_threads' \in Seq(Tid)
        /\ pipe' \in Seq({"data", "deferred"} \cup Tid)
    BY <1>9, EmptySeq DEF Destruct
  <2>2. QED
    BY <1>9, <2>1 DEF TypeOK, Destruct
<1>10. QED
  BY <1>1, <1>2, <1>3, <1>4, <1>5, <1>6, <1>7, <1>8, <1>9 DEF GuiStep

LEMMA StutterTypeOK == TypeOK /\ UNCHANGED vars => TypeOK'
BY DEF TypeOK, vars, lvars, gvars, bounds

LEMMA NextTypeOK == TypeOK /\ [Next]_vars => TypeOK'
BY LoaderTypeOK, ChangeTypeOK, UserTypeOK, GuiTypeOK, StutterTypeOK DEF Next

-----------------------------------------------------------------------------
(* Where the loader is, and what it has still to emit.                     *)

LEMMA NextLoaderInv == TypeOK /\ LoaderInv /\ [Next]_vars => LoaderInv'
<1> SUFFICES ASSUME TypeOK, LoaderInv, [Next]_vars PROVE LoaderInv'
  OBVIOUS
<1> USE DEF lvars, gvars, bounds, LoaderInv, InUse, Loading
<1>1. CASE LoaderStep
  BY <1>1 DEF TypeOK, LoaderStep, LoaderOpen, LoaderQuery, LoaderQueryFails, LoaderPush,
              LoaderBatch, LoaderEnds, LoaderEmitsData, LoaderEmitsDeferred, LoaderCloses
<1>2. CASE Change
  BY <1>2, ChangeFacts
<1>3. CASE UserAction
  BY <1>3 DEF UserAction, Reload, RefineBegin, Close
<1>4. CASE GuiStep
  BY <1>4 DEF TypeOK, GuiStep, DispatchChanged, PollTells, DispatchData, DispatchDeferred,
              UpdateDeferred, UpdateDeferredEnds, RefineEnd, Restart, Destruct
<1>5. CASE UNCHANGED vars
  BY <1>5 DEF vars
<1>6. QED
  BY <1>1, <1>2, <1>3, <1>4, <1>5 DEF Next

LEMMA NextDataUnderway ==
  TypeOK /\ LoaderInv /\ DataUnderway /\ [Next]_vars => DataUnderway'
<1> SUFFICES ASSUME TypeOK, LoaderInv, DataUnderway, [Next]_vars PROVE DataUnderway'
  OBVIOUS
<1> USE DEF lvars, gvars, bounds, DataUnderway
<1>1. CASE LoaderStep
  <2>1. CASE LoaderBatch \/ LoaderEmitsData \/ LoaderEmitsDeferred
    <3>1. ToSet(pipe) \subseteq ToSet(pipe')
      BY <2>1, EmitFacts DEF LoaderBatch, LoaderEmitsData, LoaderEmitsDeferred, Message
    <3>2. LoaderEmitsData => "data" \in ToSet(pipe') \/ in_destructor
      BY EmitFacts DEF LoaderEmitsData, Message
    <3>3. QED
      BY <2>1, <3>1, <3>2 DEF LoaderBatch, LoaderEmitsData, LoaderEmitsDeferred
  <2>2. CASE ~(LoaderBatch \/ LoaderEmitsData \/ LoaderEmitsDeferred)
    BY <1>1, <2>2 DEF TypeOK, LoaderStep, LoaderOpen, LoaderQuery, LoaderQueryFails, LoaderPush,
                      LoaderEnds, LoaderCloses
  <2>3. QED
    BY <2>1, <2>2
<1>2. CASE Change
  BY <1>2, ChangeFacts
<1>3. CASE UserAction
  BY <1>3 DEF UserAction, Reload, RefineBegin, Close
<1>4. CASE GuiStep
  <2>1. CASE DispatchChanged
    <3>1. ToSet(pipe) = {Head(pipe)} \cup ToSet(pipe') /\ Head(pipe) # "data"
      BY <2>1, DispatchFacts, LoaderAssumption DEF DispatchChanged
    <3>2. QED
      BY <2>1, <3>1 DEF DispatchChanged
  <2>2. CASE DispatchDeferred
    <3>1. ToSet(pipe) = {Head(pipe)} \cup ToSet(pipe') /\ Head(pipe) # "data"
      BY <2>2, DispatchFacts DEF DispatchDeferred
    <3>2. QED
      BY <2>2, <3>1 DEF DispatchDeferred
  <2>3. CASE ~(DispatchChanged \/ DispatchDeferred)
    BY <1>4, <2>3 DEF GuiStep, PollTells, DispatchData, UpdateDeferred, UpdateDeferredEnds,
                      RefineEnd, Restart, Destruct
  <2>4. QED
    BY <2>1, <2>2, <2>3
<1>5. CASE UNCHANGED vars
  BY <1>5 DEF vars
<1>6. QED
  BY <1>1, <1>2, <1>3, <1>4, <1>5 DEF Next

LEMMA NextDeferredUnderway ==
  TypeOK /\ DeferredUnderway /\ [Next]_vars => DeferredUnderway'
<1> SUFFICES ASSUME TypeOK, DeferredUnderway, [Next]_vars PROVE DeferredUnderway'
  OBVIOUS
<1> USE DEF lvars, gvars, bounds, DeferredUnderway
<1>1. CASE LoaderStep
  <2>1. CASE LoaderBatch \/ LoaderEmitsData \/ LoaderEmitsDeferred
    <3>1. ToSet(pipe) \subseteq ToSet(pipe')
      BY <2>1, EmitFacts DEF LoaderBatch, LoaderEmitsData, LoaderEmitsDeferred, Message
    <3>2. LoaderEmitsDeferred => "deferred" \in ToSet(pipe') \/ in_destructor
      BY EmitFacts DEF LoaderEmitsDeferred, Message
    <3>3. QED
      BY <2>1, <3>1, <3>2 DEF LoaderBatch, LoaderEmitsData, LoaderEmitsDeferred
  <2>2. CASE ~(LoaderBatch \/ LoaderEmitsData \/ LoaderEmitsDeferred)
    BY <1>1, <2>2 DEF TypeOK, LoaderStep, LoaderOpen, LoaderQuery, LoaderQueryFails, LoaderPush,
                      LoaderEnds, LoaderCloses
  <2>3. QED
    BY <2>1, <2>2
<1>2. CASE Change
  BY <1>2, ChangeFacts
<1>3. CASE UserAction
  BY <1>3 DEF UserAction, Reload, RefineBegin, Close
<1>4. CASE GuiStep
  <2>1. CASE DispatchChanged
    <3>1. ToSet(pipe) = {Head(pipe)} \cup ToSet(pipe') /\ Head(pipe) # "deferred"
      BY <2>1, DispatchFacts, LoaderAssumption DEF DispatchChanged
    <3>2. run => lpc \notin {"close", "done"}
      BY DEF TypeOK
    <3>3. QED
      BY <2>1, <3>1, <3>2 DEF DispatchChanged, OnThreadChanged
  <2>2. CASE DispatchData
    <3>1. ToSet(pipe) = {Head(pipe)} \cup ToSet(pipe') /\ Head(pipe) # "deferred"
      BY <2>2, DispatchFacts DEF DispatchData
    <3>2. QED
      BY <2>2, <3>1 DEF DispatchData
  <2>3. CASE PollTells
    <3>1. run => lpc \notin {"close", "done"}
      BY DEF TypeOK
    <3>2. QED
      BY <2>3, <3>1 DEF PollTells, OnThreadChanged
  <2>4. CASE ~(DispatchChanged \/ DispatchData \/ PollTells)
    BY <1>4, <2>4 DEF GuiStep, DispatchDeferred, UpdateDeferred, UpdateDeferredEnds,
                      RefineEnd, Restart, Destruct
  <2>5. QED
    BY <2>1, <2>2, <2>3, <2>4
<1>5. CASE UNCHANGED vars
  BY <1>5 DEF vars
<1>6. QED
  BY <1>1, <1>2, <1>3, <1>4, <1>5 DEF Next

\* While the deferred update reads its snapshot, nothing is told or taken.
LEMMA NextDeferredReads == TypeOK /\ DeferredReads /\ [Next]_vars => DeferredReads'
<1> SUFFICES ASSUME TypeOK, DeferredReads, [Next]_vars PROVE DeferredReads'
  OBVIOUS
<1> USE DEF lvars, gvars, bounds, DeferredReads
<1>1. CASE LoaderStep
  <2>1. ToSet(pipe) \subseteq ToSet(pipe')
    BY <1>1, EmitFacts DEF LoaderStep, LoaderOpen, LoaderQuery, LoaderQueryFails, LoaderPush,
         LoaderBatch, LoaderEnds, LoaderEmitsData, LoaderEmitsDeferred, LoaderCloses, Message
  <2>2. UNCHANGED <<gpc, gdb, db, polled>>
    BY <1>1 DEF LoaderStep, LoaderOpen, LoaderQuery, LoaderQueryFails, LoaderPush,
                LoaderBatch, LoaderEnds, LoaderEmitsData, LoaderEmitsDeferred, LoaderCloses
  <2>3. QED
    BY <2>1, <2>2 DEF Told
<1>2. CASE Change
  <2>1. Told \subseteq Told'
    BY <1>2, ChangeFacts DEF Told
  <2>2. QED
    BY <1>2, <2>1, ChangeFacts
<1>3. CASE UserAction
  BY <1>3 DEF UserAction, Reload, RefineBegin, Close
<1>4. CASE GuiStep
  BY <1>4 DEF Told, GuiStep, DispatchChanged, PollTells, DispatchData, DispatchDeferred,
              UpdateDeferred, UpdateDeferredEnds, RefineEnd, Restart, Destruct
<1>5. CASE UNCHANGED vars
  BY <1>5 DEF vars, Told
<1>6. QED
  BY <1>1, <1>2, <1>3, <1>4, <1>5 DEF Next

-----------------------------------------------------------------------------
(* The rows match the query.                                               *)

\* Handling a change leaves it so.
LEMMA ChangedMatch ==
  ASSUME TypeOK, AllMatchQuery, NEW t \in Tid, NEW d \in [Tid -> Value], NEW ct \in Seq(Tid),
         OnThreadChanged(t, d, ct), UNCHANGED <<query, to_list_store, gpc, lpc, snap, remaining>>
  PROVE  AllMatchQuery'
<1>1. CASE run
  BY <1>1 DEF OnThreadChanged, AllMatchQuery, InUse
<1>2. CASE ~run
  <2>1. \A row \in ToSet(rows') : row \in ToSet(rows) \/ row.val \in query
    BY <1>2, UpdatedRows DEF TypeOK, OnThreadChanged
  <2>2. QED
    BY <2>1 DEF AllMatchQuery, InUse
<1>3. QED
  BY <1>1, <1>2

\* What the loader pushes: one of the threads that are left, with what its
\* snapshot holds of it.
LEMMA PushFacts ==
  ASSUME TypeOK, LoaderPush
  PROVE  \E t \in remaining :
           /\ remaining' = remaining \ {t}
           /\ ToSet(to_list_store') = ToSet(to_list_store) \cup {[tid |-> t, val |-> snap[t]]}
           /\ \A u : Has(to_list_store', u) <=> Has(to_list_store, u) \/ u = t
           /\ \A u : Once(to_list_store, u) /\ ~(u = t /\ Has(to_list_store, u))
                     => Once(to_list_store', u)
           /\ \A u, v : Holds(to_list_store', u, v)
                        <=> Holds(to_list_store, u, v) /\ (u = t => snap[t] = v)
<1>1. PICK t \in remaining : /\ to_list_store' = Append(to_list_store, [tid |-> t, val |-> snap[t]])
                             /\ remaining' = remaining \ {t}
  BY DEF LoaderPush
<1> DEFINE r == [tid |-> t, val |-> snap[t]]
<1>2. r \in Row /\ r.tid = t /\ r.val = snap[t]
  BY <1>1 DEF LoaderPush, TypeOK, Row
<1>3. to_list_store \in Seq(Row)
  BY DEF TypeOK
<1> HIDE DEF r
<1>4. to_list_store' = to_list_store \o <<r>>
  BY <1>1, <1>2, <1>3, AppendIsConcat DEF r
<1>5. /\ <<r>> \in Seq(Row) /\ ToSet(<<r>>) = {r}
      /\ \A u : /\ Has(<<r>>, u) <=> u = t
                /\ Once(<<r>>, u)
                /\ \A v : Holds(<<r>>, u, v) <=> (u = t => snap[t] = v)
  BY <1>2, SingleRow
<1>6. ToSet(to_list_store') = ToSet(to_list_store) \cup {r}
  BY <1>3, <1>4, <1>5, ConcatRows
<1>7. ASSUME NEW u
      PROVE  /\ Has(to_list_store', u) <=> Has(to_list_store, u) \/ u = t
             /\ Once(to_list_store, u) /\ ~(u = t /\ Has(to_list_store, u))
                  => Once(to_list_store', u)
             /\ \A v : Holds(to_list_store', u, v)
                       <=> Holds(to_list_store, u, v) /\ (u = t => snap[t] = v)
  BY <1>3, <1>4, <1>5, ConcatRows
<1>8. QED
  <2> WITNESS t \in remaining
  <2>1. remaining' = remaining \ {t}
    BY <1>1
  <2>2. ToSet(to_list_store') = ToSet(to_list_store) \cup {[tid |-> t, val |-> snap[t]]}
    BY <1>6 DEF r
  <2>3. QED
    BY <2>1, <2>2, <1>7

LEMMA NextAllMatchQuery ==
  TypeOK /\ LoaderInv /\ AllMatchQuery /\ [Next]_vars => AllMatchQuery'
<1> SUFFICES ASSUME TypeOK, LoaderInv, AllMatchQuery, [Next]_vars PROVE AllMatchQuery'
  OBVIOUS
<1> USE DEF lvars, gvars, bounds, InUse
<1>1. CASE LoaderStep
  <2>1. CASE LoaderPush
    <3>1. PICK t \in remaining :
             /\ remaining' = remaining \ {t}
             /\ ToSet(to_list_store') = ToSet(to_list_store) \cup {[tid |-> t, val |-> snap[t]]}
      BY <2>1, PushFacts
    <3>2. UNCHANGED <<rows, query, gpc, snap>> /\ lpc = "iterate"
      BY <2>1 DEF LoaderPush
    <3>3. InUse => snap[t] \in query
      BY <3>2 DEF AllMatchQuery
    <3>4. QED
      BY <3>1, <3>2, <3>3 DEF AllMatchQuery
  <2>2. CASE ~LoaderPush
    BY <1>1, <2>2 DEF AllMatchQuery, LoaderStep, LoaderOpen, LoaderQuery, LoaderQueryFails,
         LoaderBatch, LoaderEnds, LoaderEmitsData, LoaderEmitsDeferred, LoaderCloses
  <2>3. QED
    BY <2>1, <2>2
<1>2. CASE Change
  BY <1>2, ChangeFacts DEF AllMatchQuery
<1>3. CASE UserAction
  BY <1>3 DEF AllMatchQuery, UserAction, Reload, RefineBegin, Close
<1>4. CASE GuiStep
  <2>0. db \in [Tid -> Value] /\ changed_threads \in Seq(Tid)
    BY DEF TypeOK
  <2>1. CASE DispatchChanged
    BY <2>0, <2>1, ChangedMatch DEF DispatchChanged
  <2>2. CASE PollTells
    <3>1. PICK t \in polled : OnThreadChanged(t, db, changed_threads)
      BY <2>2 DEF PollTells
    <3>2. t \in Tid
      BY <3>1 DEF TypeOK
    <3>3. QED
      BY <2>0, <2>2, <3>1, <3>2, ChangedMatch DEF PollTells
  <2>3. CASE UpdateDeferred
    <3>1. Head(changed_threads) \in Tid /\ Tail(changed_threads) \in Seq(Tid)
      BY <2>0, <2>3, TailFacts DEF UpdateDeferred
    <3>2. gdb \in [Tid -> Value]
      BY <2>3 DEF UpdateDeferred, TypeOK
    <3>3. QED
      BY <2>3, <3>1, <3>2, ChangedMatch DEF UpdateDeferred
  <2>4. CASE DispatchData
    <3>1. ToSet(rows') = ToSet(rows) \cup ToSet(to_list_store)
      BY <2>4, ConcatRows DEF TypeOK, DispatchData
    <3>2. ToSet(to_list_store') = {}
      BY <2>4, NoRows DEF DispatchData
    <3>3. QED
      BY <2>4, <3>1, <3>2 DEF AllMatchQuery, DispatchData
  <2>5. CASE Restart
    <3>1. ToSet(rows') = {} /\ ToSet(to_list_store') = {}
      BY <2>5, NoRows DEF Restart
    <3>2. QED
      BY <2>5, <3>1 DEF AllMatchQuery, Restart
  <2>6. CASE DispatchDeferred \/ UpdateDeferredEnds \/ RefineEnd \/ Destruct
    BY <2>6 DEF AllMatchQuery, DispatchDeferred, UpdateDeferredEnds, RefineEnd, Destruct
  <2>7. QED
    BY <1>4, <2>1, <2>2, <2>3, <2>4, <2>5, <2>6 DEF GuiStep
<1>5. CASE UNCHANGED vars
  BY <1>5 DEF AllMatchQuery, vars
<1>6. QED
  BY <1>1, <1>2, <1>3, <1>4, <1>5 DEF Next

-----------------------------------------------------------------------------
(* The list follows the database.                                          *)

\* Loading, or any step that leaves the rows and what the loader has of them:
\* it is enough that no change is forgotten.
LEMMA FrameListInv ==
  ASSUME ListInv, InUse' => InUse,
         UNCHANGED <<rows, to_list_store, remaining, snap, query, failed, raced>>,
         Pending \ {"data", "deferred"} \subseteq Pending',
         lpc' \in {"open", "query"} => lpc \in {"open", "query"},
         lpc' \in {"query", "iterate", "batch"} => lpc \in {"query", "iterate", "batch"},
         lpc' \in {"iterate", "batch"} => lpc \in {"iterate", "batch"},
         ~Loading' => ~Loading,
         \A t \in Tid : t \in Pending' \/ db'[t] = db[t]
  PROVE  ListInv'
<1>1. Tid \cap {"data", "deferred"} = {}
  BY LoaderAssumption
<1> SUFFICES ASSUME InUse', ~failed, NEW t \in Tid, t \notin raced
             PROVE  /\ InOnePlace(t)'
                    /\ lpc' \in {"open", "query"} => ~Has(rows, t) /\ ~Has(to_list_store, t)
                    /\ lpc' \in {"query", "iterate", "batch"} => t \in Pending' \/ snap[t] = db'[t]
                    /\ lpc' \in {"iterate", "batch"} => Shows(t, snap[t])'
                    /\ ~Loading' => t \in Pending' \/ Shows(t, db[t])'
  BY DEF ListInv
<1>2. /\ InOnePlace(t)
      /\ lpc \in {"open", "query"} => ~Has(rows, t) /\ ~Has(to_list_store, t)
      /\ lpc \in {"query", "iterate", "batch"} => t \in Pending \/ snap[t] = db[t]
      /\ lpc \in {"iterate", "batch"} => Shows(t, snap[t])
      /\ ~Loading => t \in Pending \/ Shows(t, db[t])
  BY DEF ListInv
<1>3. t \in Pending => t \in Pending'
  BY <1>1
<1>4. InOnePlace(t)' /\ (Shows(t, snap[t]) => Shows(t, snap[t])')
  BY <1>2 DEF InOnePlace, Shows
<1>5. db'[t] = db[t] /\ Shows(t, db[t]) => Shows(t, db[t])'
  BY DEF Shows
<1>6. t \in Pending' \/ db'[t] = db[t]
  OBVIOUS
<1>7. QED
  BY <1>2, <1>3, <1>4, <1>5, <1>6

\* Handling a change of t: it is put off, or t becomes what d says.
LEMMA ChangedListInv ==
  ASSUME TypeOK, LoaderInv, ListInv, NEW t \in Tid, NEW d \in [Tid -> Value], NEW ct \in Seq(Tid),
         OnThreadChanged(t, d, ct),
         UNCHANGED <<db, query, run, lpc, snap, remaining, failed, to_list_store, gpc>>,
         Pending \ {t} \subseteq Pending', run => t \in Pending',
         t \in Pending' \/ d[t] = db[t]
  PROVE  ListInv'
<1>1. CASE run
  <2>1. UNCHANGED <<rows, raced>>
    BY <1>1 DEF OnThreadChanged
  <2>2. Pending \subseteq Pending'
    BY <1>1
  <2>3. QED
    BY <2>1, <2>2, FrameListInv DEF InUse, Loading
<1>2. CASE ~run
  <2>1. /\ rows' = Updated(t, d) /\ raced \subseteq raced'
        /\ t \notin raced' => ~Has(to_list_store, t)
    BY <1>2 DEF OnThreadChanged, Has
  <2>2. rows \in Seq(Row)
    BY DEF TypeOK
  <2> SUFFICES ASSUME InUse, ~failed, NEW u \in Tid, u \notin raced'
               PROVE  InOnePlace(u)' /\ (u \in Pending' \/ Shows(u, db[u])') /\ ~Loading
    BY DEF ListInv, InUse, Loading
  <2>3. ~Loading /\ remaining = {}
    BY <1>2 DEF LoaderInv, Loading
  <2>4. InOnePlace(u) /\ (u \in Pending \/ Shows(u, db[u]))
    BY <2>1, <2>3 DEF ListInv
  <2>5. CASE u # t
    <3>1. /\ Has(rows', u) <=> Has(rows, u)
          /\ Once(rows, u) => Once(rows', u)
          /\ \A x : Holds(rows, u, x) => Holds(rows', u, x)
      BY <2>1, <2>2, <2>5, UpdatedRows
    <3>2. InOnePlace(u)'
      BY <2>3, <2>4, <3>1 DEF InOnePlace
    <3>3. Shows(u, db[u]) => Shows(u, db[u])'
      BY <3>1 DEF Shows
    <3>4. QED
      BY <2>3, <2>4, <2>5, <3>2, <3>3
  <2>6. CASE u = t
    <3>1. Once(rows', t) /\ Holds(rows', t, d[t]) /\ (Has(rows', t) <=> d[t] \in query)
      BY <2>1, <2>2, <2>4, <2>6, UpdatedRows DEF InOnePlace
    <3>2. ~Has(to_list_store, t) /\ \A x : Holds(to_list_store, t, x)
      BY <2>1, <2>6 DEF Has, Holds
    <3>3. InOnePlace(t)'
      BY <2>3, <2>4, <2>6, <3>1, <3>2 DEF InOnePlace
    <3>4. d[t] = db[t] => Shows(t, db[t])'
      BY <2>3, <3>1, <3>2 DEF Shows
    <3>5. QED
      BY <2>3, <2>6, <3>3, <3>4
  <2>7. QED
    BY <2>5, <2>6
<1>3. QED
  BY <1>1, <1>2

LEMMA LoaderListInv == TypeOK /\ LoaderInv /\ ListInv /\ LoaderStep => ListInv'
<1> SUFFICES ASSUME TypeOK, LoaderInv, ListInv, LoaderStep PROVE ListInv'
  OBVIOUS
<1> USE DEF lvars, gvars, bounds
<1>1. CASE LoaderOpen
  <2>1. /\ UNCHANGED <<rows, to_list_store, remaining, query, failed, raced, db, gpc>>
        /\ lpc = "open" /\ lpc' = "query" /\ snap' = db
    BY <1>1 DEF LoaderOpen
  <2>2. ASSUME NEW t \in Tid, InOnePlace(t) PROVE InOnePlace(t)'
    BY <2>1, <2>2 DEF InOnePlace
  <2>3. QED
    BY <2>1, <2>2 DEF ListInv, InUse, Loading
<1>2. CASE LoaderQuery
  <2>1. /\ UNCHANGED <<rows, to_list_store, snap, query, failed, raced, db, gpc, pipe, polled,
                       changed_threads>>
        /\ lpc = "query" /\ lpc' = "iterate"
        /\ InUse => remaining' = {t \in Tid : snap[t] \in query}
    BY <1>2 DEF LoaderQuery, InUse
  <2>2. Pending' = Pending
    BY <2>1 DEF Pending, Told
  <2> SUFFICES ASSUME InUse, ~failed, NEW t \in Tid, t \notin raced
               PROVE  /\ InOnePlace(t)' /\ Shows(t, snap[t])'
                      /\ t \in Pending' \/ snap[t] = db[t]
    BY <2>1 DEF ListInv, InUse, Loading
  <2>3. /\ InOnePlace(t) /\ ~Has(rows, t) /\ ~Has(to_list_store, t)
        /\ t \in Pending \/ snap[t] = db[t]
    BY <2>1 DEF ListInv
  <2>4. \A v : Holds(rows, t, v) /\ Holds(to_list_store, t, v)
    BY <2>3 DEF Has, Holds
  <2>5. InOnePlace(t)'
    BY <2>1, <2>3 DEF InOnePlace
  <2>6. Shows(t, snap[t])'
    BY <2>1, <2>3, <2>4 DEF Shows
  <2>7. QED
    BY <2>2, <2>3, <2>5, <2>6
<1>3. CASE LoaderQueryFails
  BY <1>3 DEF LoaderQueryFails, ListInv
<1>4. CASE LoaderPush
  <2>1. PICK t \in remaining :
           /\ remaining' = remaining \ {t}
           /\ \A u : Has(to_list_store', u) <=> Has(to_list_store, u) \/ u = t
           /\ \A u : Once(to_list_store, u) /\ ~(u = t /\ Has(to_list_store, u))
                     => Once(to_list_store', u)
           /\ \A u, v : Holds(to_list_store', u, v)
                        <=> Holds(to_list_store, u, v) /\ (u = t => snap[t] = v)
    BY <1>4, PushFacts
  <2>2. /\ UNCHANGED <<rows, snap, query, failed, raced, db, gpc, pipe, polled, changed_threads>>
        /\ lpc = "iterate" /\ lpc' \in {"iterate", "batch"}
    BY <1>4 DEF LoaderPush
  <2>3. Pending' = Pending
    BY <2>2 DEF Pending, Told
  <2> SUFFICES ASSUME InUse, ~failed, NEW u \in Tid, u \notin raced
               PROVE  /\ InOnePlace(u)' /\ Shows(u, snap[u])'
                      /\ u \in Pending' \/ snap[u] = db[u]
    BY <2>2 DEF ListInv, InUse, Loading
  <2>4. InOnePlace(u) /\ Shows(u, snap[u]) /\ (u \in Pending \/ snap[u] = db[u])
    BY <2>2 DEF ListInv
  <2>5. InOnePlace(u)'
    BY <2>1, <2>2, <2>4 DEF InOnePlace
  <2>6. Shows(u, snap[u])'
    BY <2>1, <2>2, <2>4 DEF Shows
  <2>7. QED
    BY <2>3, <2>4, <2>5, <2>6
<1>5. CASE LoaderEnds
  <2>1. /\ UNCHANGED <<rows, to_list_store, snap, query, failed, raced, db, gpc, pipe, polled,
                       changed_threads>>
        /\ lpc = "iterate" /\ lpc' = "data" /\ remaining' = {}
        /\ ~run \/ remaining = {}
    BY <1>5 DEF LoaderEnds
  <2>2. Pending' = Pending
    BY <2>1 DEF Pending, Told
  <2> SUFFICES ASSUME InUse, ~failed, NEW t \in Tid, t \notin raced
               PROVE  InOnePlace(t)' /\ (t \in Pending' \/ Shows(t, db[t])')
    BY <2>1 DEF ListInv, InUse, Loading
  <2>3. remaining = {}
    BY <2>1 DEF LoaderInv, Loading
  <2>4. InOnePlace(t) /\ Shows(t, snap[t]) /\ (t \in Pending \/ snap[t] = db[t])
    BY <2>1 DEF ListInv
  <2>5. InOnePlace(t)'
    BY <2>1, <2>3, <2>4 DEF InOnePlace
  <2>6. snap[t] = db[t] => Shows(t, db[t])'
    BY <2>1, <2>3, <2>4 DEF Shows
  <2>7. QED
    BY <2>2, <2>4, <2>5, <2>6
<1>6. CASE LoaderBatch \/ LoaderEmitsData \/ LoaderEmitsDeferred \/ LoaderCloses
  <2>1. ToSet(pipe) \subseteq ToSet(pipe')
    BY <1>6, EmitFacts DEF LoaderBatch, LoaderEmitsData, LoaderEmitsDeferred, LoaderCloses, Message
  <2>2. /\ UNCHANGED <<rows, to_list_store, remaining, query, failed, raced, db, gpc, polled,
                       changed_threads>>
        /\ \/ lpc = "batch" /\ lpc' = "iterate" /\ snap' = snap
           \/ lpc \in {"data", "deferred", "close"} /\ lpc' \in {"deferred", "close", "done"}
    BY <1>6 DEF LoaderBatch, LoaderEmitsData, LoaderEmitsDeferred, LoaderCloses
  <2>3. Pending \subseteq Pending'
    BY <2>1, <2>2 DEF Pending, Told
  <2>4. CASE snap' = snap
    BY <2>2, <2>3, <2>4, FrameListInv DEF InUse, Loading
  <2>5. CASE lpc \in {"data", "deferred", "close"} /\ lpc' \in {"deferred", "close", "done"}
    <3>1. \A t \in Tid : (InOnePlace(t) => InOnePlace(t)') /\ (Shows(t, db[t]) => Shows(t, db[t])')
      BY <2>2 DEF InOnePlace, Shows
    <3>2. QED
      BY <2>2, <2>3, <2>5, <3>1 DEF ListInv, InUse, Loading
  <2>6. QED
    BY <2>2, <2>4, <2>5
<1>7. QED
  BY <1>1, <1>2, <1>3, <1>4, <1>5, <1>6 DEF LoaderStep

LEMMA GuiListInv ==
  TypeOK /\ LoaderInv /\ DeferredReads /\ ListInv /\ GuiStep => ListInv'
<1> SUFFICES ASSUME TypeOK, LoaderInv, DeferredReads, ListInv, GuiStep PROVE ListInv'
  OBVIOUS
<1> USE DEF lvars, gvars, bounds
<1>0. /\ db \in [Tid -> Value] /\ changed_threads \in Seq(Tid)
      /\ rows \in Seq(Row) /\ to_list_store \in Seq(Row)
  BY DEF TypeOK
<1>1. CASE DispatchChanged
  <2>1. Head(pipe) \in Tid /\ OnThreadChanged(Head(pipe), db, changed_threads) /\ polled' = polled
    BY <1>1 DEF DispatchChanged
  <2>2. ToSet(pipe) = {Head(pipe)} \cup ToSet(pipe')
    BY <1>1, DispatchFacts DEF DispatchChanged
  <2>3. ToSet(changed_threads') = ToSet(changed_threads) \cup (IF run THEN {Head(pipe)} ELSE {})
    BY <1>0, <2>1, ChangedFacts
  <2>4. Pending \ {Head(pipe)} \subseteq Pending' /\ (run => Head(pipe) \in Pending')
    BY <2>1, <2>2, <2>3 DEF Pending, Told
  <2>5. QED
    BY <1>0, <1>1, <2>1, <2>4, ChangedListInv DEF DispatchChanged
<1>2. CASE PollTells
  <2>1. PICK t \in polled : polled' = polled \ {t} /\ OnThreadChanged(t, db, changed_threads)
    BY <1>2 DEF PollTells
  <2>2. t \in Tid /\ pipe' = pipe
    BY <1>2, <2>1 DEF TypeOK, PollTells
  <2>3. ToSet(changed_threads') = ToSet(changed_threads) \cup (IF run THEN {t} ELSE {})
    BY <1>0, <2>1, <2>2, ChangedFacts
  <2>4. Pending \ {t} \subseteq Pending' /\ (run => t \in Pending')
    BY <2>1, <2>2, <2>3 DEF Pending, Told
  <2>5. QED
    BY <1>0, <1>2, <2>1, <2>2, <2>4, ChangedListInv DEF PollTells
<1>3. CASE UpdateDeferred
  <2> DEFINE t == Head(changed_threads)
             ct == Tail(changed_threads)
  <2>1. /\ t \in Tid /\ ct \in Seq(Tid) /\ gdb \in [Tid -> Value]
        /\ ToSet(changed_threads) = {t} \cup ToSet(ct)
    BY <1>0, <1>3, TailFacts DEF UpdateDeferred, TypeOK
  <2>2. OnThreadChanged(t, gdb, ct) /\ polled' = polled /\ pipe' = pipe /\ Told' = Told
    BY <1>3 DEF UpdateDeferred, Told
  <2>3. t \in Told \/ gdb[t] = db[t]
    BY <1>3, <2>1 DEF UpdateDeferred, DeferredReads
  <2> HIDE DEF t, ct
  <2>4. ToSet(changed_threads') = ToSet(ct) \cup (IF run THEN {t} ELSE {})
    BY <2>1, <2>2, ChangedFacts
  <2>5. /\ Pending \ {t} \subseteq Pending' /\ (run => t \in Pending')
        /\ t \in Pending' \/ gdb[t] = db[t]
    BY <2>1, <2>2, <2>3, <2>4 DEF Pending
  <2>6. QED
    BY <1>3, <2>1, <2>2, <2>5, ChangedListInv DEF UpdateDeferred
<1>4. CASE DispatchData
  <2>1. /\ UNCHANGED <<snap, query, failed, raced, db, gpc, lpc, remaining, polled, changed_threads>>
        /\ rows' = rows \o to_list_store /\ to_list_store' = <<>>
    BY <1>4 DEF DispatchData
  <2>2. ToSet(pipe) = {"data"} \cup ToSet(pipe')
    BY <1>4, DispatchFacts DEF DispatchData
  <2>3. \A t \in Tid : t \in Pending => t \in Pending'
    BY <2>1, <2>2, LoaderAssumption DEF Pending, Told
  <2>4. ASSUME NEW t \in Tid
        PROVE  /\ ~Has(to_list_store', t) /\ Once(to_list_store', t)
               /\ \A v : Holds(to_list_store', t, v)
               /\ Has(rows', t) <=> Has(rows, t) \/ Has(to_list_store, t)
               /\ InOnePlace(t) => Once(rows', t)
               /\ \A v : Holds(rows', t, v) <=> Holds(rows, t, v) /\ Holds(to_list_store, t, v)
    BY <1>0, <2>1, NoRows, ConcatRows DEF InOnePlace
  <2>5. ASSUME NEW t \in Tid
        PROVE  /\ InOnePlace(t) => InOnePlace(t)'
               /\ Shows(t, snap[t]) => Shows(t, snap[t])'
               /\ Shows(t, db[t]) => Shows(t, db[t])'
    BY <2>1, <2>4 DEF InOnePlace, Shows
  <2>6. QED
    BY <2>1, <2>3, <2>4, <2>5 DEF ListInv, InUse, Loading
<1>5. CASE DispatchDeferred
  <2>1. ToSet(pipe) = {"deferred"} \cup ToSet(pipe')
    BY <1>5, DispatchFacts DEF DispatchDeferred
  <2>2. Pending \ {"data", "deferred"} \subseteq Pending'
    BY <1>5, <2>1 DEF DispatchDeferred, Pending, Told
  <2>3. QED
    BY <1>5, <2>2, FrameListInv DEF DispatchDeferred, InUse, Loading
<1>6. CASE UpdateDeferredEnds
  <2>1. Pending' = Pending
    BY <1>6 DEF UpdateDeferredEnds, Pending, Told
  <2>2. QED
    BY <1>6, <2>1, FrameListInv DEF UpdateDeferredEnds, InUse, Loading
<1>7. CASE RefineEnd \/ Destruct
  BY <1>7 DEF RefineEnd, Destruct, ListInv, InUse
<1>8. CASE Restart
  <2>1. rows' = <<>> /\ to_list_store' = <<>> /\ lpc' = "open" /\ remaining' = {}
    BY <1>8 DEF Restart, LoaderInv
  <2>2. \A t : InOnePlace(t)' /\ ~Has(rows', t) /\ ~Has(to_list_store', t)
    BY <2>1, NoRows DEF InOnePlace
  <2>3. QED
    BY <2>1, <2>2 DEF ListInv, Loading
<1>9. QED
  BY <1>1, <1>2, <1>3, <1>4, <1>5, <1>6, <1>7, <1>8 DEF GuiStep

LEMMA NextListInv ==
  TypeOK /\ LoaderInv /\ DeferredReads /\ ListInv /\ [Next]_vars => ListInv'
<1> SUFFICES ASSUME TypeOK, LoaderInv, DeferredReads, ListInv, [Next]_vars PROVE ListInv'
  OBVIOUS
<1>1. CASE LoaderStep
  BY <1>1, LoaderListInv
<1>2. CASE Change
  <2>1. Pending \subseteq Pending' /\ \A t \in Tid : t \in Pending' \/ db'[t] = db[t]
    BY <1>2, ChangeFacts DEF Pending, Told
  <2>2. QED
    BY <1>2, <2>1, ChangeFacts, FrameListInv DEF InUse, Loading
<1>3. CASE UserAction
  BY <1>3 DEF UserAction, Reload, RefineBegin, Close, ListInv, InUse
<1>4. CASE GuiStep
  BY <1>4, GuiListInv
<1>5. CASE UNCHANGED vars
  <2>1. UNCHANGED Pending
    BY <1>5 DEF vars, Pending, Told
  <2>2. QED
    BY <1>5, <2>1, FrameListInv DEF vars, lvars, gvars, InUse, Loading
<1>6. QED
  BY <1>1, <1>2, <1>3, <1>4, <1>5 DEF Next

-----------------------------------------------------------------------------
(* The theorems.                                                           *)

LEMMA InitIInv == Init => IInv
<1> SUFFICES ASSUME Init PROVE IInv
  OBVIOUS
<1>1. /\ rows = <<>> /\ to_list_store = <<>> /\ changed_threads = <<>> /\ remaining = {}
      /\ lpc = "open" /\ gpc = "idle" /\ run = TRUE /\ in_destructor = FALSE
  BY DEF Init
<1>2. \A t : InOnePlace(t) /\ ~Has(rows, t) /\ ~Has(to_list_store, t)
  BY <1>1, NoRows DEF InOnePlace
<1>3. ToSet(rows) = {} /\ ToSet(to_list_store) = {}
  BY <1>1, NoRows
<1>4. TypeOK
  BY InitTypeOK
<1>5. LoaderInv /\ DataUnderway /\ DeferredUnderway /\ DeferredReads
  BY <1>1 DEF LoaderInv, DataUnderway, DeferredUnderway, DeferredReads, Loading
<1>6. AllMatchQuery /\ ListInv
  BY <1>1, <1>2, <1>3 DEF AllMatchQuery, ListInv, Loading
<1>7. QED
  BY <1>4, <1>5, <1>6 DEF IInv

LEMMA NextIInv == IInv /\ [Next]_vars => IInv'
BY NextTypeOK, NextLoaderInv, NextDataUnderway, NextDeferredUnderway, NextAllMatchQuery,
   NextDeferredReads, NextListInv DEF IInv

THEOREM Inductive == Spec => []IInv
BY InitIInv, NextIInv, PTL DEF Spec

\* The loader and the GUI keep the types of their state: the loader has its
\* database open from its first step to its last, the deferred update for as
\* long as it runs, and run is set only while the loader is in its loop
\* (query_loader.cc: loader, update_deferred_changed_threads).
THEOREM TypeCorrect == Spec => []TypeOK
<1>1. IInv => TypeOK
  BY DEF IInv
<1>2. QED
  BY <1>1, Inductive, PTL

\* However loads, reloads and changes interleave, a change that was put off
\* while the query loaded still has its deferred update to come
\* (on_thread_changed, update_deferred_changed_threads).
THEOREM DeferredKept == Spec => []DeferredUnderway
<1>1. IInv => DeferredUnderway
  BY DEF IInv
<1>2. QED
  BY <1>1, Inductive, PTL

\* When no reload or close is under way, no row in the list or on its way to
\* it holds what the query does not match: the rows of the query before are
\* gone, and a loader that saw refine_query assign to query is stopped and
\* its rows dropped before the list is used again (refine_query, reload).
THEOREM RowsMatch == Spec => []RowsMatchQuery
<1>1. IInv => RowsMatchQuery
  BY DEF IInv, AllMatchQuery, InUse, RowsMatchQuery
<1>2. QED
  BY <1>1, Inductive, PTL

\* Once the loader is done and all dispatches and changes are handled, the
\* list shows exactly the threads that match, once each and as the database
\* has them; only a thread whose change met its own row between the end of
\* the loader's loop and the dispatch of that row may be wrong (loader,
\* to_list_adder, on_thread_changed).
THEOREM ListCorrect == Spec => []QuietListCorrect
<1>1. ASSUME IInv PROVE QuietListCorrect
  <2> SUFFICES ASSUME Quiet, ~failed, NEW t \in Tid \ raced
               PROVE  /\ db[t] \in query => /\ Cardinality(RowsOf(rows, t)) = 1
                                            /\ \A k \in RowsOf(rows, t) : rows[k].val = db[t]
                      /\ db[t] \notin query => RowsOf(rows, t) = {}
    BY DEF QuietListCorrect
  <2>1. lpc = "done" /\ gpc = "idle" /\ ToSet(pipe) = {} /\ polled = {}
    BY NoRows DEF Quiet
  <2>2. ~in_destructor /\ remaining = {}
    BY <1>1, <2>1 DEF IInv, LoaderInv
  <2>3. to_list_store = <<>> /\ changed_threads = <<>>
    BY <1>1, <2>1, <2>2 DEF IInv, DataUnderway, DeferredUnderway
  <2>4. Pending = {} /\ ~Has(to_list_store, t)
    BY <2>1, <2>3, NoRows DEF Pending, Told
  <2>5. InOnePlace(t) /\ Shows(t, db[t])
    BY <1>1, <2>1, <2>4 DEF IInv, ListInv, InUse, Loading
  <2>6. Once(rows, t) /\ Holds(rows, t, db[t]) /\ (db[t] \in query <=> Has(rows, t))
    BY <2>2, <2>4, <2>5 DEF InOnePlace, Shows
  <2>7. CASE db[t] \in query
    <3>1. PICK k : k \in RowsOf(rows, t)
      BY <2>6, <2>7 DEF Has
    <3>2. RowsOf(rows, t) = {k}
      BY <2>6, <3>1 DEF Once
    <3>3. Cardinality(RowsOf(rows, t)) = 1
      BY <3>2, FS_Singleton
    <3>4. QED
      BY <2>6, <2>7, <3>3 DEF Holds
  <2>8. CASE db[t] \notin query
    BY <2>6, <2>8 DEF Has
  <2>9. QED
    BY <2>7, <2>8
<1>2. QED
  BY <1>1, Inductive, PTL

=============================================================================
