----------------------------- MODULE QueueFacts -----------------------------
(***************************************************************************)
(* Lemmas about the queues that the models keep as sequences: what is in   *)
(* one, as a set, and that nothing is in it twice, when an element is put  *)
(* at its end or taken off either end.                                     *)
(***************************************************************************)
EXTENDS Naturals, SequencesExt, SequenceTheorems, FiniteSetTheorems, WellFoundedInduction, TLAPS

NoDup(s) == \A i, j \in 1 .. Len(s) : s[i] = s[j] => i = j

\* Putting an element at the end of a queue.
LEMMA AppendFacts ==
  ASSUME NEW S, NEW s \in Seq(S), NEW a \in S
  PROVE  /\ Append(s, a) \in Seq(S)
         /\ Append(s, a) # <<>>
         /\ ToSet(Append(s, a)) = ToSet(s) \cup {a}
         /\ NoDup(s) /\ a \notin ToSet(s) => NoDup(Append(s, a))
<1>1. /\ Append(s, a) \in Seq(S)
      /\ Len(Append(s, a)) = Len(s) + 1
      /\ \A i \in 1 .. Len(s) + 1 : Append(s, a)[i] = IF i <= Len(s) THEN s[i] ELSE a
  OBVIOUS
<1>2. Len(s) \in Nat /\ DOMAIN s = 1 .. Len(s)
  OBVIOUS
<1>3. DOMAIN Append(s, a) = 1 .. Len(s) + 1
  BY <1>1
<1>4. ToSet(Append(s, a)) = ToSet(s) \cup {a}
  <2>1. ASSUME NEW x \in ToSet(Append(s, a)) PROVE x \in ToSet(s) \cup {a}
    BY <1>1, <1>2, <1>3 DEF ToSet
  <2>2. ASSUME NEW x \in ToSet(s) PROVE x \in ToSet(Append(s, a))
    <3>1. PICK i \in 1 .. Len(s) : x = s[i]
      BY <1>2 DEF ToSet
    <3>2. i \in 1 .. Len(s) + 1 /\ Append(s, a)[i] = x
      BY <1>1, <1>2, <3>1
    <3>3. QED
      BY <1>3, <3>2 DEF ToSet
  <2>3. a \in ToSet(Append(s, a))
    <3>1. Len(s) + 1 \in 1 .. Len(s) + 1 /\ Append(s, a)[Len(s) + 1] = a
      BY <1>1, <1>2
    <3>2. QED
      BY <1>3, <3>1 DEF ToSet
  <2>4. QED
    BY <2>1, <2>2, <2>3
<1>5. ASSUME NoDup(s), a \notin ToSet(s) PROVE NoDup(Append(s, a))
  <2>1. \A i \in 1 .. Len(s) : s[i] # a
    BY <1>2, <1>5 DEF ToSet
  <2>2. QED
    BY <1>1, <1>2, <1>5, <2>1 DEF NoDup
<1>6. Append(s, a) # <<>>
  <2>1. Len(Append(s, a)) # 0
    BY <1>1, <1>2
  <2>2. QED
    BY <1>1, <2>1, EmptySeq
<1>7. QED
  BY <1>1, <1>4, <1>5, <1>6

\* Taking the first element of a queue.
LEMMA TailFacts ==
  ASSUME NEW S, NEW s \in Seq(S), s # <<>>
  PROVE  /\ Tail(s) \in Seq(S)
         /\ Head(s) \in S
         /\ ToSet(s) = {Head(s)} \cup ToSet(Tail(s))
         /\ NoDup(s) => NoDup(Tail(s)) /\ Head(s) \notin ToSet(Tail(s))
<1>1. /\ Tail(s) \in Seq(S)
      /\ Head(s) \in S
      /\ Head(s) = s[1]
      /\ Len(s) \in Nat \ {0}
      /\ Len(Tail(s)) = Len(s) - 1
      /\ \A i \in 1 .. Len(s) - 1 : Tail(s)[i] = s[i + 1]
  OBVIOUS
<1>2. DOMAIN s = 1 .. Len(s) /\ DOMAIN Tail(s) = 1 .. Len(s) - 1
  BY <1>1
<1>3. ToSet(s) = {Head(s)} \cup ToSet(Tail(s))
  <2>1. ASSUME NEW x \in ToSet(s) PROVE x = Head(s) \/ x \in ToSet(Tail(s))
    <3>1. PICK i \in 1 .. Len(s) : x = s[i]
      BY <1>2 DEF ToSet
    <3>2. CASE i = 1
      BY <1>1, <3>1, <3>2
    <3>3. CASE i # 1
      <4>1. i - 1 \in 1 .. Len(s) - 1 /\ Tail(s)[i - 1] = x
        BY <1>1, <3>1, <3>3
      <4>2. QED
        BY <1>2, <4>1 DEF ToSet
    <3>4. QED
      BY <3>2, <3>3
  <2>2. ASSUME NEW x \in ToSet(Tail(s)) PROVE x \in ToSet(s)
    <3>1. PICK i \in 1 .. Len(s) - 1 : x = Tail(s)[i]
      BY <1>2 DEF ToSet
    <3>2. i + 1 \in 1 .. Len(s) /\ s[i + 1] = x
      BY <1>1, <3>1
    <3>3. QED
      BY <1>2, <3>2 DEF ToSet
  <2>3. Head(s) \in ToSet(s)
    <3>1. 1 \in 1 .. Len(s)
      BY <1>1
    <3>2. QED
      BY <1>1, <1>2, <3>1 DEF ToSet
  <2>4. QED
    BY <2>1, <2>2, <2>3
<1>4. ASSUME NoDup(s) PROVE NoDup(Tail(s)) /\ Head(s) \notin ToSet(Tail(s))
  <2>1. NoDup(Tail(s))
    BY <1>1, <1>4 DEF NoDup
  <2>2. ASSUME NEW i \in 1 .. Len(s) - 1 PROVE Tail(s)[i] # Head(s)
    BY <1>1, <1>4 DEF NoDup
  <2>3. QED
    BY <1>2, <2>1, <2>2 DEF ToSet
<1>5. QED
  BY <1>1, <1>3, <1>4

\* Taking the last element of a queue.
LEMMA FrontFacts ==
  ASSUME NEW S, NEW s \in Seq(S), s # <<>>
  PROVE  /\ Front(s) \in Seq(S)
         /\ Last(s) \in S
         /\ ToSet(s) = {Last(s)} \cup ToSet(Front(s))
         /\ NoDup(s) => NoDup(Front(s)) /\ Last(s) \notin ToSet(Front(s))
<1> DEFINE n == Len(s)
<1>1. n \in Nat \ {0} /\ DOMAIN s = 1 .. n /\ \A i \in 1 .. n : s[i] \in S
  OBVIOUS
<1>2. /\ Front(s) \in Seq(S)
      /\ Len(Front(s)) = n - 1
      /\ \A i \in 1 .. n - 1 : Front(s)[i] = s[i]
  <2>1. \A i \in 1 .. n - 1 : s[i] \in S
    BY <1>1
  <2>2. /\ SubSeq(s, 1, n - 1) \in Seq(S)
        /\ Len(SubSeq(s, 1, n - 1)) = IF 1 <= n - 1 THEN n - 1 - 1 + 1 ELSE 0
        /\ \A i \in 1 .. n - 1 - 1 + 1 : SubSeq(s, 1, n - 1)[i] = s[1 + i - 1]
    BY <1>1, <2>1, SubSeqProperties
  <2>3. QED
    BY <1>1, <2>2 DEF Front
<1>3. DOMAIN Front(s) = 1 .. n - 1
  BY <1>2
<1>4. Last(s) = s[n]
  BY DEF Last
<1> HIDE DEF n
<1>5. ToSet(s) = {Last(s)} \cup ToSet(Front(s))
  <2>1. ASSUME NEW x \in ToSet(s) PROVE x = Last(s) \/ x \in ToSet(Front(s))
    <3>1. PICK i \in 1 .. n : x = s[i]
      BY <1>1 DEF ToSet
    <3>2. CASE i = n
      BY <1>4, <3>1, <3>2
    <3>3. CASE i # n
      <4>1. i \in 1 .. n - 1 /\ Front(s)[i] = x
        BY <1>1, <1>2, <3>1, <3>3
      <4>2. QED
        BY <1>3, <4>1 DEF ToSet
    <3>4. QED
      BY <3>2, <3>3
  <2>2. ASSUME NEW x \in ToSet(Front(s)) PROVE x \in ToSet(s)
    <3>1. PICK i \in 1 .. n - 1 : x = Front(s)[i]
      BY <1>3 DEF ToSet
    <3>2. i \in 1 .. n /\ s[i] = x
      BY <1>1, <1>2, <3>1
    <3>3. QED
      BY <1>1, <3>2 DEF ToSet
  <2>3. Last(s) \in ToSet(s)
    <3>1. n \in 1 .. n
      BY <1>1
    <3>2. QED
      BY <1>1, <1>4, <3>1 DEF ToSet
  <2>4. QED
    BY <2>1, <2>2, <2>3
<1>6. ASSUME NoDup(s) PROVE NoDup(Front(s)) /\ Last(s) \notin ToSet(Front(s))
  <2>1. NoDup(Front(s))
    BY <1>1, <1>2, <1>6 DEF NoDup
  <2>2. ASSUME NEW i \in 1 .. n - 1 PROVE Front(s)[i] # Last(s)
    <3>1. Front(s)[i] = s[i] /\ i # n /\ i \in 1 .. n /\ n \in 1 .. n
      BY <1>1, <1>2
    <3>2. \A j, k \in 1 .. n : s[j] = s[k] => j = k
      BY <1>6 DEF NoDup, n
    <3>3. QED
      BY <1>4, <3>1, <3>2
  <2>3. QED
    BY <1>3, <2>1, <2>2 DEF ToSet
<1>7. QED
  BY <1>1, <1>2, <1>4, <1>5, <1>6

\* Putting two elements at the end.
LEMMA AppendTwoFacts ==
  ASSUME NEW S, NEW s \in Seq(S), NEW a \in S, NEW b \in S
  PROVE  /\ s \o <<a, b>> \in Seq(S)
         /\ ToSet(s \o <<a, b>>) = ToSet(s) \cup {a, b}
<1> DEFINE t == Append(s, a)
<1>1. s \o <<a, b>> = Append(t, b)
  OBVIOUS
<1>2. t \in Seq(S) /\ ToSet(t) = ToSet(s) \cup {a}
  BY AppendFacts
<1> HIDE DEF t
<1>3. Append(t, b) \in Seq(S) /\ ToSet(Append(t, b)) = ToSet(t) \cup {b}
  BY <1>2, AppendFacts
<1>4. QED
  BY <1>1, <1>2, <1>3

\* A set of natural numbers that is not empty has a least element.
LEMMA LeastOf ==
  ASSUME NEW S \in SUBSET Nat, S # {}
  PROVE  \E m \in S : \A k \in S : m <= k
<1> DEFINE R == OpToRel(<, Nat)
<1>1. \E m \in S : \A k \in S : <<k, m>> \notin R
  <2> HIDE DEF R
  <2>1. IsWellFoundedOn(R, Nat)
    BY NatLessThanWellFounded DEF R
  <2>2. QED
    BY <2>1, WFMin
<1>2. PICK m \in S : \A k \in S : <<k, m>> \notin R
  BY <1>1
<1>3. ASSUME NEW k \in S, k < m PROVE FALSE
  <2>1. <<k, m>> \in R
    BY <1>3 DEF OpToRel
  <2>2. QED
    BY <1>2, <2>1
<1>4. QED
  BY <1>3

LEMMA MinFacts ==
  ASSUME NEW S \in SUBSET Nat, S # {}
  PROVE  Min(S) \in S /\ \A k \in S : Min(S) <= k
BY LeastOf DEF Min

LEMMA MaxFacts ==
  ASSUME NEW n \in Nat, NEW S \in SUBSET (0 .. n), S # {}
  PROVE  Max(S) \in S /\ \A k \in S : k <= Max(S)
<1> DEFINE T == {n - k : k \in S}
<1>1. T \in SUBSET Nat /\ \A k \in S : n - k \in T
  OBVIOUS
<1>2. PICK m \in T : \A k \in T : m <= k
  <2> HIDE DEF T
  <2>1. QED
    BY <1>1, LeastOf
<1>3. PICK x \in S : m = n - x
  BY <1>2
<1>4. ASSUME NEW k \in S PROVE x >= k
  <2>1. m <= n - k /\ k \in 0 .. n /\ x \in 0 .. n
    BY <1>1, <1>2
  <2>2. QED
    BY <1>3, <2>1
<1>5. Max(S) \in S /\ \A k \in S : Max(S) >= k
  BY <1>4 DEF Max
<1>6. ASSUME NEW k \in S PROVE k <= Max(S)
  <2>1. Max(S) >= k /\ k \in 0 .. n /\ Max(S) \in 0 .. n
    BY <1>5
  <2>2. QED
    BY <2>1
<1>7. QED
  BY <1>5, <1>6

\* Taking out the element at f.
LEMMA RemoveAtFacts ==
  ASSUME NEW S, NEW s \in Seq(S), NEW f \in 1 .. Len(s)
  PROVE  /\ RemoveAt(s, f) \in Seq(S)
         /\ Len(RemoveAt(s, f)) = Len(s) - 1
         /\ \A k \in 1 .. Len(s) - 1 :
              RemoveAt(s, f)[k] = IF k < f THEN s[k] ELSE s[k + 1]
<1> DEFINE n == Len(s)
           a == SubSeq(s, 1, f - 1)
           b == SubSeq(s, f + 1, n)
<1>1. n \in Nat /\ \A k \in 1 .. n : s[k] \in S
  OBVIOUS
<1> HIDE DEF n
<1>2. f \in 1 .. n
  BY DEF n
<1>3. /\ a \in Seq(S) /\ Len(a) = f - 1
      /\ \A k \in 1 .. f - 1 : a[k] = s[k]
  <2>1. \A k \in 1 .. f - 1 : s[k] \in S
    BY <1>1, <1>2
  <2>2. /\ a \in Seq(S)
        /\ Len(a) = IF 1 <= f - 1 THEN f - 1 - 1 + 1 ELSE 0
        /\ \A k \in 1 .. f - 1 - 1 + 1 : a[k] = s[1 + k - 1]
    BY <1>2, <2>1, SubSeqProperties
  <2> HIDE DEF a
  <2>3. QED
    BY <1>2, <2>2
<1>4. /\ b \in Seq(S) /\ Len(b) = n - f
      /\ \A k \in 1 .. n - f : b[k] = s[f + k]
  <2>1. \A k \in f + 1 .. n : s[k] \in S
    BY <1>1, <1>2
  <2>2. /\ b \in Seq(S)
        /\ Len(b) = IF f + 1 <= n THEN n - (f + 1) + 1 ELSE 0
        /\ \A k \in 1 .. n - (f + 1) + 1 : b[k] = s[f + 1 + k - 1]
    BY <1>1, <1>2, <2>1, SubSeqProperties
  <2> HIDE DEF b
  <2>3. ASSUME NEW k \in 1 .. n - f PROVE b[k] = s[f + k]
    <3>1. k \in 1 .. n - (f + 1) + 1 /\ f + 1 + k - 1 = f + k
      BY <1>1, <1>2
    <3>2. QED
      BY <2>2, <3>1
  <2>4. QED
    BY <1>1, <1>2, <2>2, <2>3
<1>5. RemoveAt(s, f) = a \o b
  BY DEF RemoveAt, n
<1> HIDE DEF a, b
<1>6. /\ a \o b \in Seq(S) /\ Len(a \o b) = Len(a) + Len(b)
      /\ \A k \in 1 .. Len(a) + Len(b) :
           (a \o b)[k] = IF k <= Len(a) THEN a[k] ELSE b[k - Len(a)]
  BY <1>3, <1>4, ConcatProperties
<1>7. ASSUME NEW k \in 1 .. n - 1
      PROVE  (a \o b)[k] = IF k < f THEN s[k] ELSE s[k + 1]
  <2>1. CASE k < f
    BY <1>1, <1>2, <1>3, <1>4, <1>6, <2>1
  <2>2. CASE ~(k < f)
    <3>1. k - (f - 1) \in 1 .. n - f /\ f + (k - (f - 1)) = k + 1 /\ ~(k <= f - 1)
      BY <1>1, <1>2, <2>2
    <3>2. (a \o b)[k] = b[k - (f - 1)]
      BY <1>1, <1>2, <1>3, <1>4, <1>6, <3>1
    <3>3. QED
      BY <1>4, <2>2, <3>1, <3>2
  <2>3. QED
    BY <2>1, <2>2
<1>8. QED
  BY <1>1, <1>2, <1>3, <1>4, <1>5, <1>6, <1>7 DEF n

\* Taking out the only occurrence of x, and putting e in at f.
LEMMA WithoutFacts ==
  ASSUME NEW S, NEW s \in Seq(S), NoDup(s), NEW f \in 1 .. Len(s)
  PROVE  /\ NoDup(RemoveAt(s, f))
         /\ ToSet(RemoveAt(s, f)) = ToSet(s) \ {s[f]}
         /\ Last(s) # s[f] => RemoveAt(s, f) # <<>> /\ Last(RemoveAt(s, f)) = Last(s)
<1> DEFINE n == Len(s)
           w == RemoveAt(s, f)
           at(k) == IF k < f THEN k ELSE k + 1
<1>1. /\ w \in Seq(S) /\ Len(w) = n - 1 /\ n \in Nat /\ f \in 1 .. n
      /\ \A k \in 1 .. n - 1 : w[k] = s[at(k)]
  <2>1. w \in Seq(S) /\ Len(w) = n - 1 /\ n \in Nat /\ f \in 1 .. n
    BY RemoveAtFacts
  <2>2. \A k \in 1 .. n - 1 : w[k] = IF k < f THEN s[k] ELSE s[k + 1]
    BY RemoveAtFacts
  <2> HIDE DEF w, n
  <2>3. QED
    BY <2>1, <2>2
<1>2. ToSet(w) = {w[k] : k \in 1 .. n - 1} /\ ToSet(s) = {s[k] : k \in 1 .. n}
  <2>1. DOMAIN w = 1 .. n - 1 /\ DOMAIN s = 1 .. n
    BY <1>1
  <2>2. QED
    BY <2>1 DEF ToSet
<1>3. \A j, k \in 1 .. n : s[j] = s[k] => j = k
  BY DEF NoDup
<1>4. Last(s) = s[n] /\ Last(w) = w[n - 1]
  BY <1>1 DEF Last
<1>5. w = <<>> => n = 1
  BY <1>1
<1> HIDE DEF w, n
<1>6. /\ \A k \in 1 .. n - 1 : at(k) \in 1 .. n /\ at(k) # f
      /\ \A j, k \in 1 .. n - 1 : at(j) = at(k) => j = k
  BY <1>1
<1>7. ASSUME NEW k \in 1 .. n, k # f PROVE \E j \in 1 .. n - 1 : at(j) = k
  <2>1. CASE k < f
    <3>1. k \in 1 .. n - 1 /\ at(k) = k
      BY <1>1, <2>1
    <3>2. QED
      BY <3>1
  <2>2. CASE ~(k < f)
    <3>1. k - 1 \in 1 .. n - 1 /\ at(k - 1) = k
      BY <1>1, <1>7, <2>2
    <3>2. QED
      BY <3>1
  <2>3. QED
    BY <2>1, <2>2
<1>8. f # n => n - 1 \in 1 .. n - 1 /\ at(n - 1) = n
  BY <1>1
<1> HIDE DEF at
<1>9. NoDup(w)
  <2> SUFFICES ASSUME NEW j \in 1 .. n - 1, NEW k \in 1 .. n - 1, w[j] = w[k] PROVE j = k
    BY <1>1 DEF NoDup
  <2>1. at(j) = at(k)
    BY <1>1, <1>3, <1>6
  <2>2. QED
    BY <1>6, <2>1
<1>10. ToSet(w) = ToSet(s) \ {s[f]}
  <2>1. ASSUME NEW x \in ToSet(w) PROVE x \in ToSet(s) \ {s[f]}
    <3>1. PICK k \in 1 .. n - 1 : x = s[at(k)]
      BY <1>1, <1>2
    <3>2. QED
      BY <1>1, <1>2, <1>3, <1>6, <3>1
  <2>2. ASSUME NEW x \in ToSet(s) \ {s[f]} PROVE x \in ToSet(w)
    <3>1. PICK k \in 1 .. n : x = s[k] /\ k # f
      BY <1>2
    <3>2. PICK j \in 1 .. n - 1 : at(j) = k
      BY <1>7, <3>1
    <3>3. QED
      BY <1>1, <1>2, <3>1, <3>2
  <2>3. QED
    BY <2>1, <2>2
<1>11. ASSUME Last(s) # s[f] PROVE w # <<>> /\ Last(w) = Last(s)
  <2>1. f # n
    BY <1>4, <1>11
  <2>2. w[n - 1] = s[n]
    BY <1>1, <1>8, <2>1
  <2>3. QED
    BY <1>1, <1>4, <1>5, <2>1, <2>2
<1>12. QED
  BY <1>9, <1>10, <1>11 DEF w

LEMMA InsertAtFacts ==
  ASSUME NEW S, NEW s \in Seq(S), NEW f \in 1 .. Len(s) + 1, NEW e \in S
  PROVE  /\ InsertAt(s, f, e) \in Seq(S)
         /\ Len(InsertAt(s, f, e)) = Len(s) + 1
         /\ \A k \in 1 .. Len(s) + 1 :
              InsertAt(s, f, e)[k] = IF k < f THEN s[k] ELSE IF k = f THEN e ELSE s[k - 1]
<1> DEFINE n == Len(s)
           a == SubSeq(s, 1, f - 1)
           b == SubSeq(s, f, n)
           ae == Append(a, e)
<1>1. n \in Nat /\ \A k \in 1 .. n : s[k] \in S
  OBVIOUS
<1> HIDE DEF n
<1>2. f \in 1 .. n + 1
  BY DEF n
<1>3. /\ a \in Seq(S) /\ Len(a) = f - 1
      /\ \A k \in 1 .. f - 1 : a[k] = s[k]
  <2>1. \A k \in 1 .. f - 1 : s[k] \in S
    BY <1>1, <1>2
  <2>2. /\ a \in Seq(S)
        /\ Len(a) = IF 1 <= f - 1 THEN f - 1 - 1 + 1 ELSE 0
        /\ \A k \in 1 .. f - 1 - 1 + 1 : a[k] = s[1 + k - 1]
    BY <1>2, <2>1, SubSeqProperties
  <2> HIDE DEF a, ae
  <2>3. QED
    BY <1>1, <1>2, <2>2
<1>4. /\ b \in Seq(S) /\ Len(b) = n + 1 - f
      /\ \A k \in 1 .. n + 1 - f : b[k] = s[f + k - 1]
  <2>1. \A k \in f .. n : s[k] \in S
    BY <1>1, <1>2
  <2>2. /\ b \in Seq(S)
        /\ Len(b) = IF f <= n THEN n - f + 1 ELSE 0
        /\ \A k \in 1 .. n - f + 1 : b[k] = s[f + k - 1]
    BY <1>1, <1>2, <2>1, SubSeqProperties
  <2> HIDE DEF b
  <2>3. QED
    BY <1>1, <1>2, <2>2
<1> HIDE DEF a, b
<1>5. /\ ae \in Seq(S) /\ Len(ae) = f
      /\ \A k \in 1 .. f : ae[k] = IF k < f THEN s[k] ELSE e
  <2>1. /\ ae \in Seq(S) /\ Len(ae) = f - 1 + 1
        /\ \A k \in 1 .. f - 1 + 1 : ae[k] = IF k <= f - 1 THEN a[k] ELSE e
    BY <1>3
  <2> HIDE DEF ae
  <2>2. QED
    BY <1>2, <1>3, <2>1
<1>6. InsertAt(s, f, e) = ae \o b
  <2>1. ae = a \o <<e>>
    BY <1>3, AppendIsConcat
  <2>2. QED
    BY <2>1 DEF InsertAt, a, b, n
<1> HIDE DEF ae
<1>7. /\ ae \o b \in Seq(S) /\ Len(ae \o b) = Len(ae) + Len(b)
      /\ \A k \in 1 .. Len(ae) + Len(b) :
           (ae \o b)[k] = IF k <= Len(ae) THEN ae[k] ELSE b[k - Len(ae)]
  BY <1>4, <1>5, ConcatProperties
<1>8. ASSUME NEW k \in 1 .. n + 1
      PROVE  (ae \o b)[k] = IF k < f THEN s[k] ELSE IF k = f THEN e ELSE s[k - 1]
  <2>1. CASE k <= f
    BY <1>1, <1>2, <1>4, <1>5, <1>7, <2>1
  <2>2. CASE ~(k <= f)
    <3>1. k - f \in 1 .. n + 1 - f /\ f + (k - f) - 1 = k - 1
      BY <1>1, <1>2, <2>2
    <3>2. k \in 1 .. Len(ae) + Len(b) /\ Len(ae) = f /\ k - Len(ae) = k - f
      BY <1>1, <1>2, <1>4, <1>5
    <3>3. (ae \o b)[k] = b[k - f]
      BY <1>7, <2>2, <3>2
    <3>4. QED
      BY <1>4, <2>2, <3>1, <3>3
  <2>3. QED
    BY <2>1, <2>2
<1>9. QED
  BY <1>1, <1>2, <1>4, <1>5, <1>6, <1>7, <1>8 DEF n

\* Nothing is lost, and there is something at the place of the insertion.
LEMMA InsertAtKeeps ==
  ASSUME NEW S, NEW s \in Seq(S), NEW f \in 1 .. Len(s) + 1, NEW e \in S
  PROVE  /\ InsertAt(s, f, e) \in Seq(S) /\ f \in DOMAIN InsertAt(s, f, e)
         /\ ToSet(s) \subseteq ToSet(InsertAt(s, f, e))
<1> DEFINE r == InsertAt(s, f, e)
           n == Len(s)
<1>1. n \in Nat /\ DOMAIN s = 1 .. n /\ f \in 1 .. n + 1
  OBVIOUS
<1>2. /\ r \in Seq(S) /\ Len(r) = n + 1
      /\ \A k \in 1 .. n + 1 : r[k] = IF k < f THEN s[k] ELSE IF k = f THEN e ELSE s[k - 1]
  BY InsertAtFacts
<1> HIDE DEF r, n
<1>3. DOMAIN r = 1 .. n + 1
  BY <1>1, <1>2
<1>4. ASSUME NEW k \in 1 .. n PROVE \E j \in 1 .. n + 1 : r[j] = s[k]
  <2>1. CASE k < f
    <3>1. k \in 1 .. n + 1
      BY <1>1
    <3>2. r[k] = s[k]
      BY <1>2, <2>1, <3>1
    <3>3. QED
      BY <3>1, <3>2
  <2>2. CASE ~(k < f)
    <3>1. k + 1 \in 1 .. n + 1 /\ ~(k + 1 < f) /\ k + 1 # f /\ k + 1 - 1 = k
      BY <1>1, <2>2
    <3>2. r[k + 1] = s[k]
      BY <1>2, <3>1
    <3>3. QED
      BY <3>1, <3>2
  <2>3. QED
    BY <2>1, <2>2
<1>5. ToSet(s) \subseteq ToSet(r)
  BY <1>1, <1>3, <1>4 DEF ToSet
<1>6. QED
  BY <1>1, <1>2, <1>3, <1>5 DEF r

LEMMA LastIsIn ==
  ASSUME NEW S, NEW s \in Seq(S), s # <<>>
  PROVE  Last(s) \in ToSet(s)
<1>1. Len(s) \in DOMAIN s
  OBVIOUS
<1>2. QED
  BY <1>1 DEF Last, ToSet

\* r is s with e at place f.
Inserted(r, s, f, e) ==
  /\ Len(r) = Len(s) + 1
  /\ \A k \in 1 .. Len(s) + 1 : r[k] = IF k < f THEN s[k] ELSE IF k = f THEN e ELSE s[k - 1]

LEMMA InsertAtInserts ==
  ASSUME NEW S, NEW s \in Seq(S), NEW f \in 1 .. Len(s) + 1, NEW e \in S
  PROVE  InsertAt(s, f, e) \in Seq(S) /\ Inserted(InsertAt(s, f, e), s, f, e)
BY InsertAtFacts DEF Inserted

LEMMA InsertAtUnique ==
  ASSUME NEW S, NEW s \in Seq(S), NEW f \in 1 .. Len(s) + 1, NEW e \in S,
         NoDup(s), e \notin ToSet(s)
  PROVE  /\ NoDup(InsertAt(s, f, e)) /\ ToSet(InsertAt(s, f, e)) = ToSet(s) \cup {e}
         /\ Len(InsertAt(s, f, e)) = Len(s) + 1
         /\ \A k \in 1 .. Len(s) + 1 : k < f => InsertAt(s, f, e)[k] = s[k]
<1> DEFINE r == InsertAt(s, f, e)
           n == Len(s)
<1>1. n \in Nat /\ DOMAIN s = 1 .. n /\ f \in 1 .. n + 1
  OBVIOUS
<1>2. /\ r \in Seq(S) /\ Len(r) = n + 1
      /\ \A k \in 1 .. n + 1 : r[k] = IF k < f THEN s[k] ELSE IF k = f THEN e ELSE s[k - 1]
  <2>1. r \in Seq(S) /\ Inserted(r, s, f, e)
    BY InsertAtInserts
  <2>2. QED
    BY <2>1 DEF Inserted
<1>3. DOMAIN r = 1 .. n + 1
  BY <1>1, <1>2
<1>4. \A k \in 1 .. n : s[k] \in ToSet(s) /\ s[k] # e
  BY <1>1 DEF ToSet
<1> HIDE DEF r, n
<1>5. ASSUME NEW i \in 1 .. n + 1, NEW j \in 1 .. n + 1, r[i] = r[j] PROVE i = j
  <2> DEFINE at(k) == IF k < f THEN k ELSE k - 1
  <2>1. \A k \in 1 .. n + 1 : k # f => at(k) \in 1 .. n /\ r[k] = s[at(k)]
    BY <1>1, <1>2
  <2>2. r[f] = e
    BY <1>1, <1>2
  <2>3. i = f <=> j = f
    BY <1>1, <1>4, <1>5, <2>1, <2>2
  <2>4. ASSUME i # f, j # f PROVE at(i) = at(j)
    <3>1. s[at(i)] = s[at(j)] /\ at(i) \in 1 .. n /\ at(j) \in 1 .. n
      BY <1>5, <2>1, <2>4
    <3> HIDE DEF at
    <3>2. QED
      BY <3>1 DEF NoDup, n
  <2>5. QED
    BY <1>1, <2>3, <2>4
<1>6. ToSet(r) \subseteq ToSet(s) \cup {e}
  <2>1. ASSUME NEW k \in 1 .. n + 1 PROVE r[k] \in ToSet(s) \cup {e}
    BY <1>1, <1>2, <1>4
  <2>2. QED
    BY <1>3, <2>1 DEF ToSet
<1>7. ToSet(s) \subseteq ToSet(r)
  BY InsertAtKeeps DEF r
<1>8. e \in ToSet(r)
  <2>1. f \in DOMAIN r /\ r[f] = e
    BY <1>1, <1>2, <1>3
  <2>2. QED
    BY <2>1 DEF ToSet
<1>9. QED
  BY <1>2, <1>5, <1>6, <1>7, <1>8 DEF NoDup, r, n

-----------------------------------------------------------------------------
(* Induction by steps, for a set that is given, and the recursive functions *)
(* it shows to be what their definitions say.                              *)

LEMMA StepByStep ==
  ASSUME NEW n \in Nat, NEW S, 0 \in S, \A m \in 0 .. n - 1 : m \in S => m + 1 \in S
  PROVE  \A m \in 0 .. n : m \in S
<1> DEFINE T == {m \in 0 .. n : m \notin S}
<1>1. ASSUME T # {} PROVE FALSE
  <2>1. T \in SUBSET Nat
    OBVIOUS
  <2>2. PICK m \in T : \A k \in T : m <= k
    <3> HIDE DEF T
    <3>1. QED
      BY <1>1, <2>1, LeastOf
  <2>3. m \in 1 .. n /\ m \notin S
    OBVIOUS
  <2>4. m - 1 \in 0 .. n - 1 /\ (m - 1) + 1 = m /\ ~(m <= m - 1)
    BY <2>3
  <2>5. m - 1 \notin T
    BY <2>2, <2>4
  <2>6. m - 1 \in S
    BY <2>4, <2>5
  <2>7. QED
    BY <2>3, <2>4, <2>6
<1>2. QED
  BY <1>1

\* step takes an index from a to z and a value of V to a value of V.
StepOver(step, a, z, V) == step \in [(a .. z) \X V -> V]
\* f runs from a to z, starts with b, and goes on by step.
GoesBy(f, a, z, b, step) ==
  /\ f = [i \in a .. z |-> f[i]] /\ f[a] = b
  /\ \A i \in a + 1 .. z : f[i] = step[<<i, f[i - 1]>>]
RunsIn(f, V, a, z, b, step) == f \in [a .. z -> V] /\ GoesBy(f, a, z, b, step)

\* A function defined by recursion from a up to z exists, and so it is what
\* its definition says.
LEMMA RecursionExists ==
  ASSUME NEW V, NEW a \in Nat, NEW z \in Nat, NEW b \in V,
         NEW step, StepOver(step, a, z, V), a <= z
  PROVE  \E f : RunsIn(f, V, a, z, b, step)
<1> USE DEF StepOver
<1> DEFINE Up(m, f) == /\ f \in [a .. a + m -> V] /\ f[a] = b
                       /\ \A i \in a + 1 .. a + m : f[i] = step[<<i, f[i - 1]>>]
           S == {m \in 0 .. z - a : \E f : Up(m, f)}
<1>1. 0 \in S
  <2>1. Up(0, [i \in a .. a + 0 |-> b])
    OBVIOUS
  <2> HIDE DEF Up
  <2>2. QED
    BY <2>1
<1>2. ASSUME NEW m \in 0 .. (z - a) - 1, m \in S PROVE m + 1 \in S
  <2>1. PICK f : Up(m, f)
    BY <1>2
  <2>2. a + m \in a .. z /\ a + (m + 1) \in a .. z /\ (a + (m + 1)) - 1 = a + m
        /\ a + (m + 1) \notin a .. a + m /\ a + m \in a .. a + m
    OBVIOUS
  <2> DEFINE x == step[<<a + (m + 1), f[a + m]>>]
             g == [i \in a .. a + (m + 1) |-> IF i \in a .. a + m THEN f[i] ELSE x]
  <2>3. f[a + m] \in V
    BY <2>1, <2>2
  <2>4. x \in V
    <3>1. <<a + (m + 1), f[a + m]>> \in (a .. z) \X V
      BY <2>2, <2>3
    <3>2. QED
      BY <3>1
  <2> HIDE DEF x
  <2>5. g \in [a .. a + (m + 1) -> V]
    BY <2>1, <2>4
  <2>6. a \in a .. a + m /\ a \in a .. a + (m + 1)
    OBVIOUS
  <2>7. g[a] = b
    BY <2>1, <2>6
  <2>8. ASSUME NEW i \in a + 1 .. a + (m + 1) PROVE g[i] = step[<<i, g[i - 1]>>]
    <3>1. i \in a .. a + (m + 1) /\ i - 1 \in a .. a + m /\ i - 1 \in a .. a + (m + 1)
      OBVIOUS
    <3>2. g[i - 1] = f[i - 1]
      BY <3>1
    <3>3. CASE i \in a .. a + m
      <4>1. i \in a + 1 .. a + m
        BY <3>1, <3>3
      <4>2. g[i] = f[i] /\ f[i] = step[<<i, f[i - 1]>>]
        BY <2>1, <3>1, <3>3, <4>1
      <4>3. QED
        BY <3>2, <4>2
    <3>4. CASE i \notin a .. a + m
      <4>1. i = a + (m + 1) /\ i - 1 = a + m
        BY <3>1, <3>4
      <4>2. g[i] = x
        BY <3>1, <3>4
      <4>3. QED
        BY <3>2, <4>1, <4>2 DEF x
    <3>5. QED
      BY <3>3, <3>4
  <2> HIDE DEF g
  <2>9. Up(m + 1, g)
    BY <2>5, <2>7, <2>8
  <2> HIDE DEF Up
  <2>10. m + 1 \in 0 .. z - a
    OBVIOUS
  <2>11. QED
    BY <2>9, <2>10
<1>3. z - a \in Nat /\ z - a \in 0 .. z - a
  OBVIOUS
<1>4. z - a \in S
  <2> HIDE DEF S
  <2> DEFINE n == z - a
  <2>1. n \in Nat /\ n \in 0 .. n
    BY <1>3
  <2>2. \A m \in 0 .. n - 1 : m \in S => m + 1 \in S
    BY <1>2
  <2> HIDE DEF n
  <2>3. n \in S
    BY <1>1, <2>1, <2>2, StepByStep
  <2>4. QED
    BY <2>3 DEF n
<1>5. PICK f : Up(z - a, f)
  BY <1>4
<1>6. a + (z - a) = z
  OBVIOUS
<1>7. f \in [a .. z -> V] /\ f[a] = b /\ \A i \in a + 1 .. z : f[i] = step[<<i, f[i - 1]>>]
  BY <1>5, <1>6
<1>8. RunsIn(f, V, a, z, b, step)
  BY <1>7 DEF RunsIn, GoesBy
<1>9. QED
  BY <1>8

\* The numbers in a set, by how many are before them.
LEMMA Ranks ==
  ASSUME NEW n \in Nat, NEW at \in SUBSET (0 .. n), NEW k \in 1 .. Cardinality(at)
  PROVE  \E i \in at : Cardinality({j \in at : j <= i}) = k
<1> DEFINE Before(i) == {j \in at : j <= i}
           c == Cardinality(at)
           rank == [i \in at |-> Cardinality(Before(i))]
<1>1. IsFiniteSet(at) /\ c \in Nat
  <2>1. IsFiniteSet(0 .. n)
    BY FS_Interval
  <2>2. IsFiniteSet(at)
    BY <2>1, FS_Subset
  <2>3. QED
    BY <2>2, FS_CardinalityType
<1>2. ASSUME NEW i \in at
      PROVE  IsFiniteSet(Before(i)) /\ Cardinality(Before(i)) \in 1 .. c
  <2>1. IsFiniteSet(Before(i)) /\ Cardinality(Before(i)) <= c
    BY <1>1, FS_Subset
  <2>2. i \in Before(i)
    OBVIOUS
  <2>3. Cardinality(Before(i)) \in Nat /\ Cardinality(Before(i)) # 0
    <3> HIDE DEF Before
    <3>1. QED
      BY <2>1, <2>2, FS_CardinalityType, FS_EmptySet
  <2>4. QED
    BY <1>1, <2>1, <2>3
<1>3. ASSUME NEW i \in at, NEW j \in at, i < j
      PROVE  rank[i] # rank[j]
  <2>1. Before(i) \subseteq Before(j) /\ Before(i) # Before(j)
    <3>1. i \in Nat /\ j \in Nat /\ \A m \in at : m \in Nat
      OBVIOUS
    <3>2. j \in Before(j) /\ j \notin Before(i)
      BY <1>3, <3>1
    <3>3. \A m \in Before(i) : m \in Before(j)
      <4>1. ASSUME NEW m \in at, m <= i PROVE m <= j
        BY <1>3, <3>1, <4>1
      <4>2. QED
        BY <4>1
    <3> HIDE DEF Before
    <3>4. QED
      BY <3>2, <3>3
  <2>2. Cardinality(Before(i)) # Cardinality(Before(j))
    <3>1. IsFiniteSet(Before(j))
      BY <1>2
    <3> HIDE DEF Before
    <3>2. QED
      BY <2>1, <3>1, FS_Subset
  <2>3. QED
    BY <2>2
<1>4. rank \in [at -> 1 .. c]
  BY <1>2
<1>5. \A i, j \in at : i # j => rank[i] # rank[j]
  <2> HIDE DEF rank
  <2>1. QED
    BY <1>3
<1>6. Cardinality(1 .. c) = c /\ IsFiniteSet(1 .. c)
  BY <1>1, FS_Interval
<1>7. rank \in Injection(at, 1 .. c)
  <2> HIDE DEF rank, c
  <2>1. QED
    BY <1>4, <1>5 DEF Injection, IsInjective
<1>8. rank \in Surjection(at, 1 .. c)
  <2> HIDE DEF rank
  <2>1. QED
    BY <1>1, <1>6, <1>7, FS_Injection, FS_Surjection
<1>9. \E i \in at : rank[i] = k
  <2> HIDE DEF rank
  <2>1. QED
    BY <1>8 DEF Surjection
<1>10. QED
  BY <1>9

=============================================================================
