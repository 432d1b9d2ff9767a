----------------------------- MODULE PageProofs -----------------------------
(***************************************************************************)
(* What single pages of the console keep true in every step, for every      *)
(* number of records, lines, clicks and documents. In the structured        *)
(* editors the decoys put away follow their virtual host and the open cards  *)
(* their records (behind FormsStayPaired of Console); in the journal the     *)
(* feed and the history of actions skip nothing (behind JournalHasNoGaps);   *)
(* on the counters page a change is within one run (behind FiguresAreHonest).*)
(***************************************************************************)
EXTENDS ConfigForms, LogStream, CountersPage, SequenceTheorems, WellFoundedInduction, TLAPS

(***************************************************************************)
(* Sequences with an element put in or taken out.                          *)
(***************************************************************************)

\* The two parts of a sequence put together.
LEMMA Joined ==
    ASSUME NEW S, NEW u, NEW v, u \in Seq(S), v \in Seq(S), NEW m, NEW n,
           m \in Nat, n \in Nat, Len(u) = m, Len(v) = n, NEW t, t = u \o v
    PROVE  /\ t \in Seq(S) /\ Len(t) = m + n
           /\ \A j \in 1..m : t[j] = u[j]
           /\ \A j \in 1..n : t[m + j] = v[j]
<1>1. /\ t \in Seq(S) /\ Len(t) = m + n
      /\ \A j \in 1..(m + n) : t[j] = IF j <= m THEN u[j] ELSE v[j - m]
  BY ConcatProperties
<1>2. \A j \in 1..m : t[j] = u[j]
  BY <1>1
<1>3. ASSUME NEW j \in 1..n PROVE t[m + j] = v[j]
  <2>1. m + j \in 1..(m + n) /\ ~(m + j <= m) /\ (m + j) - m = j
    OBVIOUS
  <2> DEFINE k == m + j
  <2>2. k \in 1..(m + n) /\ ~(k <= m) /\ k - m = j
    BY <2>1
  <2> HIDE DEF k
  <2>3. t[k] = v[k - m]
    BY <1>1, <2>2
  <2> QED
    BY <2>2, <2>3 DEF k
<1> QED
  BY <1>1, <1>2, <1>3

\* RemoveAt takes one element out and moves the later ones up.
LEMMA RemovedAt ==
    ASSUME NEW S, NEW s \in Seq(S), NEW i \in 1..Len(s), NEW t, t = RemoveAt(s, i)
    PROVE  /\ t \in Seq(S)
           /\ Len(t) = Len(s) - 1
           /\ \A j \in 1..(i - 1) : t[j] = s[j]
           /\ \A j \in i..(Len(s) - 1) : t[j] = s[j + 1]
<1>0. Len(s) \in Nat /\ i \in Nat /\ i >= 1 /\ i <= Len(s)
  BY LenProperties
<1> DEFINE u == SubSeq(s, 1, i - 1)
           v == SubSeq(s, i + 1, Len(s))
<1>1. /\ u \in Seq(S) /\ Len(u) = i - 1
      /\ \A j \in 1..i - 1 : u[j] = s[j]
  <2>1. \A j \in 1..(i - 1 - 1 + 1) : u[j] = s[1 + j - 1]
    BY <1>0, SubSeqProperties
  <2>2. u \in Seq(S) /\ Len(u) = i - 1
    BY <1>0, SubSeqProperties
  <2> HIDE DEF u
  <2> QED
    BY <1>0, <2>1, <2>2
<1>2. /\ v \in Seq(S) /\ Len(v) = Len(s) - i
      /\ \A j \in 1..Len(s) - i : v[j] = s[i + j]
  <2>1. \A j \in 1..(Len(s) - (i + 1) + 1) : v[j] = s[i + 1 + j - 1]
    BY <1>0, SubSeqProperties
  <2>2. v \in Seq(S) /\ Len(v) = Len(s) - i
    BY <1>0, SubSeqProperties
  <2>3. \A j \in 1..(Len(s) - i) : j \in 1..(Len(s) - (i + 1) + 1) /\ i + 1 + j - 1 = i + j
    BY <1>0
  <2> HIDE DEF v
  <2>4. \A j \in 1..(Len(s) - i) : v[j] = s[i + j]
    BY <2>1, <2>3
  <2> QED
    BY <2>2, <2>4
<1>3. t = u \o v
  BY DEF RemoveAt
<1> HIDE DEF u, v
<1> DEFINE m == i - 1
           n == Len(s) - i
<1>4. m \in Nat /\ n \in Nat /\ Len(u) = m /\ Len(v) = n /\ m + n = Len(s) - 1
  BY <1>0, <1>1, <1>2
<1>5. /\ t \in Seq(S) /\ Len(t) = m + n
      /\ \A j \in 1..m : t[j] = u[j]
      /\ \A j \in 1..n : t[m + j] = v[j]
  <2>1. u \in Seq(S) /\ v \in Seq(S) /\ m \in Nat /\ n \in Nat /\ Len(u) = m /\ Len(v) = n
    BY <1>1, <1>2, <1>4
  <2> HIDE DEF m, n
  <2>2. t \in Seq(S) /\ Len(t) = m + n
    <3>1. t \in Seq(S)
      BY <1>3, <2>1, ConcatProperties
    <3>2. Len(t) = m + n
      BY <1>3, <2>1, ConcatProperties
    <3> QED
      BY <3>1, <3>2
  <2>3. \A j \in 1..m : t[j] = u[j]
    BY <1>3, <2>1, Joined
  <2>4. \A j \in 1..n : t[m + j] = v[j]
    BY <1>3, <2>1, Joined
  <2> QED
    BY <2>2, <2>3, <2>4
<1>6. \A j \in 1..(i - 1) : t[j] = s[j]
  BY <1>1, <1>5
<1>7. ASSUME NEW j \in i..(Len(s) - 1) PROVE t[j] = s[j + 1]
  <2> DEFINE k == j - (i - 1)
  <2>1. k \in 1..n /\ m + k = j /\ i + k = j + 1
    BY <1>0
  <2> HIDE DEF k
  <2>2. t[m + k] = v[k] /\ v[k] = s[i + k]
    <3>1. t[m + k] = v[k]
      <4> HIDE DEF m, n
      <4> QED
        BY <1>5, <2>1
    <3>2. v[k] = s[i + k]
      BY <1>2, <2>1
    <3> QED
      BY <3>1, <3>2
  <2> QED
    BY <2>1, <2>2
<1> QED
  BY <1>4, <1>5, <1>6, <1>7

\* What stands where after a removal.
LEMMA RemovedBefore ==
    ASSUME NEW S, NEW s, s \in Seq(S), NEW i, i \in 1..Len(s), NEW t, t = RemoveAt(s, i),
           NEW j, j \in 1..(i - 1)
    PROVE  t[j] = s[j]
  BY RemovedAt

\* The ones after it have moved up.
LEMMA RemovedAfter ==
    ASSUME NEW S, NEW s, s \in Seq(S), NEW i, i \in 1..Len(s), NEW t, t = RemoveAt(s, i),
           NEW j, j \in i..(Len(s) - 1)
    PROVE  t[j] = s[j + 1]
  BY RemovedAt

\* InsertAt puts one element in and moves the later ones down.
LEMMA InsertedAt ==
    ASSUME NEW S, NEW s \in Seq(S), NEW e \in S, NEW i \in 1..(Len(s) + 1),
           NEW t, t = InsertAt(s, i, e)
    PROVE  /\ t \in Seq(S) /\ Len(t) = Len(s) + 1
           /\ \A j \in 1..(i - 1) : t[j] = s[j]
           /\ t[i] = e
           /\ \A j \in i..Len(s) : t[j + 1] = s[j]
<1>0. Len(s) \in Nat /\ i \in Nat /\ i >= 1 /\ i <= Len(s) + 1
  BY LenProperties
<1> DEFINE u == SubSeq(s, 1, i - 1)
           v == SubSeq(s, i, Len(s))
           w == <<e>>
<1>1. /\ u \in Seq(S) /\ Len(u) = i - 1
      /\ \A j \in 1..i - 1 : u[j] = s[j]
  <2>1. \A j \in 1..(i - 1 - 1 + 1) : u[j] = s[1 + j - 1]
    BY <1>0, SubSeqProperties
  <2>2. u \in Seq(S) /\ Len(u) = i - 1
    BY <1>0, SubSeqProperties
  <2> HIDE DEF u
  <2> QED
    BY <1>0, <2>1, <2>2
<1>2. /\ v \in Seq(S) /\ Len(v) = Len(s) - i + 1
      /\ \A j \in 1..Len(s) - i + 1 : v[j] = s[i + j - 1]
  <2>1. \A j \in 1..(Len(s) - i + 1) : v[j] = s[i + j - 1]
    BY <1>0, SubSeqProperties
  <2>2. v \in Seq(S) /\ Len(v) = Len(s) - i + 1
    BY <1>0, SubSeqProperties
  <2> HIDE DEF v
  <2> QED
    BY <1>0, <2>1, <2>2
<1>3. w \in Seq(S) /\ Len(w) = 1 /\ w[1] = e
  OBVIOUS
<1>4. t = (u \o w) \o v
  BY DEF InsertAt
<1> HIDE DEF u, v, w
<1> DEFINE x == u \o w
           m == i - 1
           one == 1
           n == Len(s) - i + 1
<1>5. /\ m \in Nat /\ n \in Nat /\ one \in Nat /\ Len(u) = m /\ Len(v) = n /\ Len(w) = one
      /\ m + one = i /\ i + n = Len(s) + 1
  BY <1>0, <1>1, <1>2, <1>3
<1>6. /\ x \in Seq(S) /\ Len(x) = m + one
      /\ \A j \in 1..m : x[j] = u[j]
      /\ \A j \in 1..one : x[m + j] = w[j]
  <2> HIDE DEF m, one
  <2> QED
    BY <1>1, <1>3, <1>5, Joined
<1>7. Len(x) = i /\ x[i] = e /\ \A j \in 1..(i - 1) : x[j] = s[j]
  BY <1>0, <1>1, <1>3, <1>5, <1>6
<1>8. /\ t \in Seq(S) /\ Len(t) = i + n
      /\ \A j \in 1..i : t[j] = x[j]
      /\ \A j \in 1..n : t[i + j] = v[j]
  <2>1. t = x \o v
    BY <1>4
  <2>2. x \in Seq(S) /\ v \in Seq(S) /\ i \in Nat /\ n \in Nat /\ Len(x) = i /\ Len(v) = n
    BY <1>0, <1>2, <1>5, <1>6, <1>7
  <2> HIDE DEF x, n
  <2>3. t \in Seq(S)
    BY <2>1, <2>2, ConcatProperties
  <2>4. Len(t) = i + n
    BY <2>1, <2>2, ConcatProperties
  <2>5. \A j \in 1..i : t[j] = x[j]
    BY <2>1, <2>2, Joined
  <2>6. \A j \in 1..n : t[i + j] = v[j]
    <3>1. \A j \in 1..(i + n) : t[j] = IF j <= i THEN x[j] ELSE v[j - i]
      BY <2>1, <2>2, ConcatProperties
    <3> SUFFICES ASSUME NEW j \in 1..n PROVE t[i + j] = v[j]
      OBVIOUS
    <3> DEFINE p == i + j
    <3>2. p \in 1..(i + n) /\ ~(p <= i) /\ p - i = j
      BY <2>2
    <3> HIDE DEF p
    <3>3. t[p] = v[p - i]
      BY <3>1, <3>2
    <3> QED
      BY <3>2, <3>3 DEF p
  <2> QED
    BY <2>3, <2>4, <2>5, <2>6
<1>9. ASSUME NEW j \in i..Len(s) PROVE t[j + 1] = s[j]
  <2> DEFINE k == j + 1 - i
  <2>1. k \in 1..n /\ i + k = j + 1 /\ i + k - 1 = j
    BY <1>0
  <2> HIDE DEF k
  <2>2. t[i + k] = v[k]
    <3> HIDE DEF n
    <3> QED
      BY <1>8, <2>1
  <2>3. v[k] = s[i + k - 1]
    BY <1>2, <2>1
  <2> QED
    BY <2>1, <2>2, <2>3
<1> HIDE DEF x, n
<1> QED
  BY <1>0, <1>5, <1>7, <1>8, <1>9

\* What stands where after an insertion.
LEMMA InsertedBefore ==
    ASSUME NEW S, NEW s, s \in Seq(S), NEW e, e \in S, NEW i, i \in 1..(Len(s) + 1),
           NEW t, t = InsertAt(s, i, e), NEW j, j \in 1..(i - 1)
    PROVE  t[j] = s[j]
  BY InsertedAt

\* The ones from there on have moved down.
LEMMA InsertedBehind ==
    ASSUME NEW S, NEW s, s \in Seq(S), NEW e, e \in S, NEW i, i \in 1..(Len(s) + 1),
           NEW t, t = InsertAt(s, i, e), NEW j, j \in i..Len(s), NEW k, k = j + 1
    PROVE  t[k] = s[j]
  BY InsertedAt

(***************************************************************************)
(* Lists of records that carry a number of their own.                       *)
(***************************************************************************)

\* A list of records whose numbers are its own and all below the next one.
Numbered(s, n) ==
    /\ s \in Seq(ToSet(s))
    /\ \A i \in 1..Len(s) : "id" \in DOMAIN s[i] /\ s[i].id \in Nat /\ s[i].id < n
    /\ \A i, j \in 1..Len(s) : s[i].id = s[j].id => i = j

\* The records whose cards are open.
OpenIds(s, expanded) == {s[i].id : i \in expanded \intersect DOMAIN s}

\* A sequence over a set is one over its own elements.
LEMMA OwnElements ==
    ASSUME NEW S, NEW s \in Seq(S)
    PROVE  /\ s \in Seq(ToSet(s)) /\ DOMAIN s = 1..Len(s) /\ Len(s) \in Nat
           /\ \A i \in 1..Len(s) : s[i] \in ToSet(s)
<1>1. DOMAIN s = 1..Len(s) /\ Len(s) \in Nat
  BY LenProperties
<1>2. \A i \in 1..Len(s) : s[i] \in ToSet(s)
  BY <1>1 DEF ToSet
<1>3. s \in [1..Len(s) -> ToSet(s)]
  BY <1>1, <1>2, LenProperties
<1> QED
  BY <1>1, <1>2, <1>3, SeqDef

\* A function on an initial segment is a sequence.
LEMMA FunctionIsSeq ==
    ASSUME NEW S, NEW m \in Nat, NEW t, t \in [1..m -> S]
    PROVE  t \in Seq(S) /\ Len(t) = m
<1>1. t \in Seq(S)
  BY SeqDef
<1>2. DOMAIN t = 1..Len(t) /\ Len(t) \in Nat /\ DOMAIN t = 1..m
  BY <1>1, LenProperties
<1> QED
  BY <1>1, <1>2

\* A numbered list is a function on its positions.
LEMMA NumberedDomain ==
    ASSUME NEW s, NEW n, Numbered(s, n)
    PROVE  DOMAIN s = 1..Len(s) /\ Len(s) \in Nat
  BY LenProperties DEF Numbered

\* A deleted record leaves a numbered list, and the open cards of the others.
LEMMA RecordRemoved ==
    ASSUME NEW s, NEW n \in Nat, Numbered(s, n), NEW i \in DOMAIN s,
           NEW t, t = RemoveAt(s, i), NEW e \in SUBSET Nat
    PROVE  /\ Numbered(t, n)
           /\ ExpandedWithout(e, i) \in SUBSET Nat
           /\ OpenIds(t, ExpandedWithout(e, i)) = OpenIds(s, e) \ {s[i].id}
           /\ Len(t) = Len(s) - 1 /\ DOMAIN t = 1..Len(t)
           /\ \A j \in 1..(i - 1) : t[j] = s[j]
           /\ \A j \in i..(Len(s) - 1) : t[j] = s[j + 1]
<1>0. DOMAIN s = 1..Len(s) /\ Len(s) \in Nat /\ i \in Nat /\ i >= 1 /\ i <= Len(s)
  BY NumberedDomain
<1>1. /\ t \in Seq(ToSet(s)) /\ Len(t) = Len(s) - 1
      /\ \A j \in 1..(i - 1) : t[j] = s[j]
      /\ \A j \in i..(Len(s) - 1) : t[j] = s[j + 1]
  <2> DEFINE S == ToSet(s)
  <2>1. s \in Seq(S) /\ i \in 1..Len(s)
    BY <1>0 DEF Numbered
  <2> HIDE DEF S
  <2>2. t \in Seq(S) /\ Len(t) = Len(s) - 1
    BY <2>1, RemovedAt
  <2>3. ASSUME NEW j \in 1..(i - 1) PROVE t[j] = s[j]
    BY <2>1, RemovedBefore
  <2>4. ASSUME NEW j \in i..(Len(s) - 1) PROVE t[j] = s[j + 1]
    BY <2>1, RemovedAfter
  <2> QED
    BY <2>2, <2>3, <2>4 DEF S
<1>2. t \in Seq(ToSet(t)) /\ DOMAIN t = 1..Len(t)
  BY <1>1, OwnElements
<1> DEFINE old(j) == IF j < i THEN j ELSE j + 1
<1>3. \A j \in 1..Len(t) : old(j) \in 1..Len(s) /\ old(j) # i /\ t[j] = s[old(j)]
  BY <1>0, <1>1
<1>4. \A j, k \in 1..Len(t) : old(j) = old(k) => j = k
  BY <1>0, <1>1
<1>5. \A j \in 1..Len(s) : j # i => \E k \in 1..Len(t) : old(k) = j /\ k = IF j > i THEN j - 1 ELSE j
  <2> SUFFICES ASSUME NEW j \in 1..Len(s), j # i
               PROVE  \E k \in 1..Len(t) : old(k) = j /\ k = IF j > i THEN j - 1 ELSE j
    OBVIOUS
  <2>1. CASE j > i
    <3>1. j - 1 \in 1..Len(t) /\ old(j - 1) = j
      BY <1>0, <1>1, <2>1
    <3> QED
      BY <3>1, <2>1
  <2>2. CASE j < i
    <3>1. j \in 1..Len(t) /\ old(j) = j /\ ~(j > i)
      BY <1>0, <1>1, <2>2
    <3> QED
      BY <3>1
  <2> QED
    BY <1>0, <2>1, <2>2
<1>6. ExpandedWithout(e, i) \in SUBSET Nat
  <2>1. \A j \in e : (IF j > i THEN j - 1 ELSE j) \in Nat
    BY <1>0
  <2> QED
    BY <2>1 DEF ExpandedWithout
<1>7. \A j \in e : j # i => (IF j > i THEN j - 1 ELSE j) \in ExpandedWithout(e, i)
  BY DEF ExpandedWithout
<1>8. \A k \in ExpandedWithout(e, i) : k \in 1..Len(t) => old(k) \in e
  BY <1>0 DEF ExpandedWithout
<1> HIDE DEF old
<1>9. Numbered(t, n)
  <2>1. \A j \in 1..Len(t) : "id" \in DOMAIN t[j] /\ t[j].id \in Nat /\ t[j].id < n
    BY <1>3 DEF Numbered
  <2>2. \A j, k \in 1..Len(t) : t[j].id = t[k].id => j = k
    BY <1>3, <1>4 DEF Numbered
  <2> QED
    BY <1>2, <2>1, <2>2 DEF Numbered
<1>10. OpenIds(t, ExpandedWithout(e, i)) \subseteq OpenIds(s, e) \ {s[i].id}
  BY <1>0, <1>2, <1>3, <1>8 DEF OpenIds, Numbered
<1>11. OpenIds(s, e) \ {s[i].id} \subseteq OpenIds(t, ExpandedWithout(e, i))
  <2> SUFFICES ASSUME NEW j \in e, j \in 1..Len(s), s[j].id # s[i].id
               PROVE  \E k \in ExpandedWithout(e, i) \intersect DOMAIN t : t[k].id = s[j].id
    BY <1>0 DEF OpenIds
  <2>1. PICK k \in 1..Len(t) : old(k) = j /\ k = IF j > i THEN j - 1 ELSE j
    BY <1>5
  <2> QED
    BY <1>2, <1>3, <1>7, <2>1
<1> QED
  BY <1>1, <1>2, <1>6, <1>9, <1>10, <1>11

\* What stands where after an insertion.
LEMMA InsertedCells ==
    ASSUME NEW S, NEW s, s \in Seq(S), NEW r, r \in S, NEW i, i \in 1..Len(s),
           NEW t, t = InsertedAfter(s, i, r)
    PROVE  /\ t \in Seq(S) /\ Len(t) = Len(s) + 1 /\ DOMAIN t = 1..(Len(s) + 1)
           /\ \A j \in 1..i : t[j] = s[j]
           /\ t[i + 1] = r
           /\ \A j \in (i + 1)..Len(s) : t[j + 1] = s[j]
<1> DEFINE p == i + 1
<1>1. p \in 1..(Len(s) + 1) /\ t = InsertAt(s, p, r) /\ p - 1 = i
  BY LenProperties DEF InsertedAfter
<1> HIDE DEF p
<1>2. t \in Seq(S)
  BY <1>1, InsertedAt
<1>3. Len(t) = Len(s) + 1
  BY <1>1, InsertedAt
<1>4. ASSUME NEW j \in 1..(p - 1) PROVE t[j] = s[j]
  BY <1>1, InsertedBefore
<1>5. t[p] = r
  BY <1>1, InsertedAt
<1>6. ASSUME NEW j \in p..Len(s) PROVE t[j + 1] = s[j]
  <2> DEFINE k == j + 1
  <2>1. k = j + 1
    OBVIOUS
  <2> HIDE DEF k
  <2>2. t[k] = s[j]
    BY <1>1, <2>1, InsertedBehind
  <2> QED
    BY <2>1, <2>2
<1>7. DOMAIN t = 1..(Len(s) + 1)
  BY <1>2, <1>3, LenProperties
<1> QED
  BY <1>1, <1>2, <1>3, <1>4, <1>5, <1>6, <1>7 DEF p

\* A record put in after position i is the only open one, under the next number.
LEMMA RecordInserted ==
    ASSUME NEW s, NEW n \in Nat, Numbered(s, n), NEW i \in DOMAIN s, NEW r,
           "id" \in DOMAIN r, r.id = n, NEW t, t = InsertedAfter(s, i, r),
           NEW e, e = {i + 1}, NEW m, m = n + 1
    PROVE  /\ Numbered(t, m)
           /\ OpenIds(t, e) = {n}
           /\ Len(t) = Len(s) + 1 /\ DOMAIN t = 1..Len(t)
           /\ \A j \in 1..i : t[j] = s[j]
           /\ t[i + 1] = r
           /\ \A j \in (i + 1)..Len(s) : t[j + 1] = s[j]
<1>0. DOMAIN s = 1..Len(s) /\ Len(s) \in Nat /\ i \in Nat /\ i >= 1 /\ i <= Len(s)
  BY NumberedDomain
<1> DEFINE S == ToSet(s) \union {r}
<1>1. s \in Seq(S) /\ r \in S /\ i \in 1..Len(s)
  <2>1. s \in [1..Len(s) -> S]
    BY <1>0, LenProperties, SeqDef DEF Numbered, ToSet
  <2> QED
    BY <1>0, <2>1, SeqDef
<1> HIDE DEF S
<1>2. /\ t \in Seq(S) /\ Len(t) = Len(s) + 1
      /\ \A j \in 1..i : t[j] = s[j]
      /\ t[i + 1] = r
      /\ \A j \in (i + 1)..Len(s) : t[j + 1] = s[j]
  <2>1. t \in Seq(S) /\ Len(t) = Len(s) + 1 /\ t[i + 1] = r
    BY <1>1, InsertedCells
  <2>2. \A j \in 1..i : t[j] = s[j]
    BY <1>1, InsertedCells
  <2>3. \A j \in (i + 1)..Len(s) : t[j + 1] = s[j]
    BY <1>1, InsertedCells
  <2> QED
    BY <2>1, <2>2, <2>3
<1>3. Len(t) = Len(s) + 1
  BY <1>2
<1>4. t \in Seq(ToSet(t)) /\ DOMAIN t = 1..Len(t)
  BY <1>2, OwnElements
<1>5. /\ \A j \in 1..i : t[j] = s[j]
      /\ t[i + 1] = r
      /\ \A j \in (i + 1)..Len(s) : t[j + 1] = s[j]
  BY <1>2
<1> DEFINE old(j) == IF j <= i THEN j ELSE j - 1
<1>6. \A j \in 1..Len(t) : j # i + 1 => old(j) \in 1..Len(s) /\ t[j] = s[old(j)]
  <2> SUFFICES ASSUME NEW j \in 1..Len(t), j # i + 1
               PROVE  old(j) \in 1..Len(s) /\ t[j] = s[old(j)]
    OBVIOUS
  <2>1. CASE j <= i
    BY <1>0, <1>5, <2>1
  <2>2. CASE j > i + 1
    <3>1. j - 1 \in (i + 1)..Len(s) /\ (j - 1) + 1 = j
      BY <1>0, <1>3, <2>2
    <3>2. t[(j - 1) + 1] = s[j - 1]
      BY <1>5, <3>1
    <3> QED
      BY <1>0, <1>3, <2>2, <3>1, <3>2
  <2> QED
    BY <1>0, <1>3, <2>1, <2>2
<1>7. \A j, k \in 1..Len(t) : j # i + 1 /\ k # i + 1 /\ old(j) = old(k) => j = k
  BY <1>0, <1>3
<1> HIDE DEF old
<1>8. \A j \in 1..Len(t) : "id" \in DOMAIN t[j] /\ t[j].id \in Nat /\ t[j].id < n + 1
                            /\ (t[j].id = n => j = i + 1)
  <2> SUFFICES ASSUME NEW j \in 1..Len(t)
               PROVE  "id" \in DOMAIN t[j] /\ t[j].id \in Nat /\ t[j].id < n + 1
                      /\ (t[j].id = n => j = i + 1)
    OBVIOUS
  <2>1. CASE j = i + 1
    BY <1>5, <2>1
  <2>2. CASE j # i + 1
    <3>1. t[j] = s[old(j)] /\ old(j) \in 1..Len(s)
      BY <1>6, <2>2
    <3>2. "id" \in DOMAIN t[j] /\ t[j].id \in Nat /\ t[j].id < n
      BY <3>1 DEF Numbered
    <3> QED
      BY <3>2
  <2> QED
    BY <2>1, <2>2
<1>9. \A j, k \in 1..Len(t) : t[j].id = t[k].id => j = k
  <2> SUFFICES ASSUME NEW j \in 1..Len(t), NEW k \in 1..Len(t), t[j].id = t[k].id PROVE j = k
    OBVIOUS
  <2>1. CASE j = i + 1 \/ k = i + 1
    BY <1>5, <1>8, <2>1
  <2>2. CASE ~(j = i + 1 \/ k = i + 1)
    BY <1>6, <1>7, <2>2 DEF Numbered
  <2> QED
    BY <2>1, <2>2
<1>10. Numbered(t, n + 1)
  BY <1>4, <1>8, <1>9 DEF Numbered
<1>11. OpenIds(t, {i + 1}) = {n}
  <2>1. i + 1 \in DOMAIN t
    BY <1>0, <1>3, <1>4
  <2> QED
    BY <1>5, <2>1 DEF OpenIds
<1> QED
  BY <1>3, <1>4, <1>5, <1>10, <1>11

\* The card behind the last one of a list.
LastCard(s) == {Len(s) + 1}

\* A record put at the end is the only open one, under the next number.
LEMMA RecordAppended ==
    ASSUME NEW s, NEW n \in Nat, Numbered(s, n), NEW r,
           "id" \in DOMAIN r, r.id = n, NEW t, t = Append(s, r),
           NEW e, e = LastCard(s), NEW m, m = n + 1, NEW o, o = {n}
    PROVE  /\ Numbered(t, m)
           /\ OpenIds(t, e) = o
           /\ Len(t) = Len(s) + 1 /\ DOMAIN t = 1..Len(t)
           /\ \A j \in 1..Len(s) : t[j] = s[j]
           /\ t[Len(s) + 1] = r
<1>0. DOMAIN s = 1..Len(s) /\ Len(s) \in Nat
  BY NumberedDomain
<1> DEFINE S == ToSet(s) \union {r}
<1>1. s \in Seq(S) /\ r \in S
  <2>1. s \in [1..Len(s) -> S]
    BY <1>0, LenProperties, SeqDef DEF Numbered, ToSet
  <2> QED
    BY <1>0, <2>1, SeqDef
<1> HIDE DEF S
<1>2. /\ t \in Seq(S) /\ Len(t) = Len(s) + 1
      /\ \A j \in 1..Len(s) : t[j] = s[j]
      /\ t[Len(s) + 1] = r
  BY <1>1, AppendProperties
<1>3. t \in Seq(ToSet(t)) /\ DOMAIN t = 1..Len(t)
  BY <1>2, OwnElements
<1>4. \A j \in 1..Len(t) : j # Len(s) + 1 => j \in 1..Len(s)
  BY <1>0, <1>2
<1>5. \A j \in 1..Len(s) : "id" \in DOMAIN t[j] /\ t[j].id \in Nat /\ t[j].id < n
  BY <1>2 DEF Numbered
<1>6. \A j \in 1..Len(t) : "id" \in DOMAIN t[j] /\ t[j].id \in Nat /\ t[j].id < n + 1
  BY <1>2, <1>4, <1>5
<1>7. \A j, k \in 1..Len(t) : t[j].id = t[k].id => j = k
  BY <1>0, <1>2, <1>4, <1>5 DEF Numbered
<1>8. OpenIds(t, {Len(s) + 1}) = {n}
  <2>1. Len(s) + 1 \in DOMAIN t
    BY <1>0, <1>2, <1>3
  <2> QED
    BY <1>2, <2>1 DEF OpenIds, LastCard
<1> QED
  BY <1>2, <1>3, <1>6, <1>7, <1>8 DEF Numbered, LastCard

\* The card of a record put at the end.
LEMMA AppendedCard ==
    ASSUME NEW s, NEW n, Numbered(s, n), NEW r, NEW t, t = Append(s, r)
    PROVE  OpenIds(t, LastCard(s)) = {r.id}
<1>0. DOMAIN s = 1..Len(s) /\ Len(s) \in Nat
  BY NumberedDomain
<1> DEFINE S == ToSet(s) \union {r}
<1>1. s \in Seq(S) /\ r \in S
  <2>1. s \in [1..Len(s) -> S]
    BY <1>0, LenProperties, SeqDef DEF Numbered, ToSet
  <2> QED
    BY <1>0, <2>1, SeqDef
<1> HIDE DEF S
<1>2. t \in Seq(S) /\ Len(t) = Len(s) + 1 /\ t[Len(s) + 1] = r
  BY <1>1, AppendProperties
<1>3. Len(s) + 1 \in DOMAIN t
  BY <1>0, <1>2, LenProperties
<1> QED
  BY <1>2, <1>3 DEF OpenIds, LastCard

\* A list without its first record is numbered.
LEMMA FirstGone ==
    ASSUME NEW s, NEW n \in Nat, Numbered(s, n), s # << >>, NEW t, t = Tail(s)
    PROVE  /\ Numbered(t, n)
           /\ Len(t) = Len(s) - 1 /\ DOMAIN t = 1..Len(t)
           /\ \A j \in 1..Len(t) : t[j] = s[j + 1]
<1>0. DOMAIN s = 1..Len(s) /\ Len(s) \in Nat
  BY NumberedDomain
<1>1. /\ t \in Seq(ToSet(s)) /\ Len(t) = Len(s) - 1
      /\ \A j \in 1..Len(t) : t[j] = s[j + 1]
  BY HeadTailProperties DEF Numbered
<1>2. t \in Seq(ToSet(t)) /\ DOMAIN t = 1..Len(t)
  BY <1>1, OwnElements
<1>3. \A j \in 1..Len(t) : j + 1 \in 1..Len(s)
  BY <1>0, <1>1
<1>4. \A j \in 1..Len(t) : "id" \in DOMAIN t[j] /\ t[j].id \in Nat /\ t[j].id < n
  BY <1>1, <1>3 DEF Numbered
<1>5. \A j, k \in 1..Len(t) : t[j].id = t[k].id => j = k
  BY <1>1, <1>3 DEF Numbered
<1> QED
  BY <1>1, <1>2, <1>4, <1>5 DEF Numbered

\* A record edited in place keeps the list numbered and its cards as they were.
LEMMA RecordEdited ==
    ASSUME NEW s, NEW n \in Nat, Numbered(s, n), NEW i \in DOMAIN s, NEW r,
           "id" \in DOMAIN r, r.id = s[i].id, NEW t, t = [s EXCEPT ![i] = r]
    PROVE  /\ Numbered(t, n)
           /\ \A e : OpenIds(t, e) = OpenIds(s, e)
           /\ DOMAIN t = DOMAIN s
           /\ \A j \in DOMAIN s : t[j].id = s[j].id
<1>0. DOMAIN s = 1..Len(s) /\ Len(s) \in Nat
  BY NumberedDomain
<1>1. DOMAIN t = DOMAIN s /\ t[i] = r /\ \A j \in DOMAIN s : j # i => t[j] = s[j]
  <2>1. s \in [1..Len(s) -> ToSet(s)]
    BY <1>0, LenProperties, SeqDef DEF Numbered, ToSet
  <2> QED
    BY <1>0, <2>1
<1>2. t \in [1..Len(s) -> ToSet(t)]
  BY <1>0, <1>1 DEF ToSet
<1>3. t \in Seq(ToSet(t)) /\ Len(t) = Len(s)
  <2> DEFINE m == Len(s)
             S == ToSet(t)
  <2>1. m \in Nat /\ t \in [1..m -> S]
    BY <1>0, <1>2
  <2> HIDE DEF m, S
  <2>2. t \in Seq(S) /\ Len(t) = m
    BY <2>1, FunctionIsSeq
  <2> QED
    BY <2>2 DEF m, S
<1>4. \A j \in DOMAIN s : "id" \in DOMAIN t[j] /\ t[j].id = s[j].id
  BY <1>0, <1>1 DEF Numbered
<1>5. Numbered(t, n)
  BY <1>0, <1>1, <1>3, <1>4 DEF Numbered
<1>6. ASSUME NEW e PROVE OpenIds(t, e) = OpenIds(s, e)
  BY <1>1, <1>4 DEF OpenIds
<1> QED
  BY <1>1, <1>4, <1>5, <1>6

(***************************************************************************)
(* The structured editors: every list is numbered below the next number,    *)
(* every virtual host has decoys put away under its own number, and the     *)
(* open cards of the list on screen are the records that were opened.       *)
(***************************************************************************)
FormFields ==
    {"group", "advanced", "query", "present", "vhosts", "drafts", "kept",
     "listeners", "upstreams", "enabled", "carriers", "flags", "notice",
     "domains", "masks", "number", "map", "json", "expanded", "nextId", "opened"}

\* The lists.
ListsNumbered(f) ==
    /\ DOMAIN f = FormFields
    /\ f.nextId \in Nat
    /\ f.expanded \in SUBSET Nat
    /\ \A l \in RecordLists : Numbered(f[l], f.nextId)

\* The decoys that are put away, against the ghost that knows their host.
DecoysPaired(f) ==
    \A i \in DOMAIN f.vhosts :
        /\ f.vhosts[i].id \in DOMAIN f.kept
        /\ CurrentDecoyDrafts(f)[i] = f.kept[f.vhosts[i].id]

\* The cards of the list on screen.
CardsOpen(f) ==
    \A l \in RecordLists :
        EditorOnScreen(f) = ListOf[l] => OpenIds(f[l], f.expanded) = f.opened

\* The inductive invariant of the structured editors.
FormInv == ListsNumbered(form) /\ DecoysPaired(form) /\ CardsOpen(form)

\* The three lists have three editors.
LEMMA ThreeLists ==
    /\ RecordLists = {"vhosts", "listeners", "upstreams"}
    /\ RecordLists \subseteq FormFields
    /\ \A l, m \in RecordLists : ListOf[l] = ListOf[m] => l = m
  BY DEF RecordLists, ListOf, FormFields

\* A larger next number is above the same numbers.
LEMMA NumberedAbove ==
    ASSUME NEW s, NEW n \in Nat, Numbered(s, n), NEW m \in Nat, n <= m
    PROVE  Numbered(s, m)
  BY DEF Numbered

\* What is on screen depends on the group, the mode and the search alone.
LEMMA SameEditor ==
    ASSUME NEW f, NEW g, g.advanced = f.advanced, g.query = f.query,
           g.group = f.group, g.present = f.present
    PROVE  EditorOnScreen(g) = EditorOnScreen(f)
  BY DEF EditorOnScreen, Searching

\* A change of editor opens the first card of the new one.
LEMMA MountedHolds ==
    ASSUME NEW f, NEW b, ListsNumbered(f), DecoysPaired(f),
           EditorOnScreen(f) = EditorOnScreen(b) => CardsOpen(f),
           NEW h, h = Mounted(f, b)
    PROVE  ListsNumbered(h) /\ DecoysPaired(h) /\ CardsOpen(h)
<1>1. CASE EditorOnScreen(f) = EditorOnScreen(b)
  BY <1>1 DEF Mounted
<1>2. CASE EditorOnScreen(f) # EditorOnScreen(b)
  <2> DEFINE one == {1}
             no == FALSE
             ls == {l \in RecordLists : ListOf[l] = EditorOnScreen(f)}
             ids == UNION {{f[l][i].id : i \in one \intersect DOMAIN f[l]} : l \in ls}
  <2>1. h = [f EXCEPT !.expanded = one, !.notice = no, !.opened = ids]
    BY <1>2 DEF Mounted
  <2>2. one \in SUBSET Nat
    OBVIOUS
  <2>3. ASSUME NEW l \in RecordLists, ListOf[l] = EditorOnScreen(f)
        PROVE  ids = OpenIds(f[l], one)
    <3>1. ls = {l}
      BY <2>3, ThreeLists
    <3> QED
      BY <3>1 DEF OpenIds
  <2> HIDE DEF one, no, ids
  <2>4. /\ DOMAIN h = FormFields /\ h.expanded = one /\ h.opened = ids
        /\ h.advanced = f.advanced /\ h.query = f.query /\ h.group = f.group
        /\ h.present = f.present /\ h.nextId = f.nextId /\ h.drafts = f.drafts
        /\ h.kept = f.kept /\ h.vhosts = f.vhosts /\ h.listeners = f.listeners
        /\ h.upstreams = f.upstreams
    BY <2>1 DEF ListsNumbered, FormFields
  <2>5. EditorOnScreen(h) = EditorOnScreen(f)
    BY <2>4, SameEditor
  <2>6. \A l \in RecordLists : h[l] = f[l]
    BY <2>4, ThreeLists
  <2>7. ListsNumbered(h)
    BY <2>2, <2>4, <2>6 DEF ListsNumbered
  <2>8. CurrentDecoyDrafts(h) = CurrentDecoyDrafts(f)
    BY <2>4 DEF CurrentDecoyDrafts
  <2>9. DecoysPaired(h)
    BY <2>4, <2>8 DEF DecoysPaired
  <2>10. CardsOpen(h)
    BY <2>3, <2>4, <2>5, <2>6 DEF CardsOpen
  <2> QED
    BY <2>7, <2>9, <2>10
<1> QED
  BY <1>1, <1>2

\* A click on anything else leaves the lists and their cards alone.
LEMMA ListsLeftAlone ==
    ASSUME NEW f, ListsNumbered(f), DecoysPaired(f), CardsOpen(f), NEW g,
           DOMAIN g = DOMAIN f, g.vhosts = f.vhosts, g.listeners = f.listeners,
           g.upstreams = f.upstreams, g.drafts = f.drafts, g.kept = f.kept,
           g.expanded = f.expanded, g.opened = f.opened, g.nextId = f.nextId
    PROVE  /\ ListsNumbered(g) /\ DecoysPaired(g)
           /\ EditorOnScreen(g) = EditorOnScreen(f) => CardsOpen(g)
<1>1. \A l \in RecordLists : g[l] = f[l]
  BY ThreeLists
<1>2. CurrentDecoyDrafts(g) = CurrentDecoyDrafts(f)
  BY DEF CurrentDecoyDrafts
<1>3. ListsNumbered(g)
  BY <1>1 DEF ListsNumbered
<1>4. DecoysPaired(g)
  BY <1>2 DEF DecoysPaired
<1>5. ASSUME EditorOnScreen(g) = EditorOnScreen(f) PROVE CardsOpen(g)
  BY <1>1, <1>5 DEF CardsOpen
<1> QED
  BY <1>3, <1>4, <1>5

\* What a change of the list on screen has to give.
ListChanged(f, g, shown) ==
    /\ DOMAIN g = FormFields
    /\ g.advanced = f.advanced /\ g.query = f.query /\ g.group = f.group
    /\ g.present = f.present
    /\ g.nextId \in Nat /\ f.nextId <= g.nextId
    /\ g.expanded \in SUBSET Nat
    /\ \A l \in RecordLists \ {shown} : g[l] = f[l]
    /\ Numbered(g[shown], g.nextId)
    /\ OpenIds(g[shown], g.expanded) = g.opened

\* Such a change keeps the lists numbered and the cards with their records.
LEMMA ListStep ==
    ASSUME NEW f, ListsNumbered(f), NEW shown \in RecordLists,
           EditorOnScreen(f) = ListOf[shown], NEW g, ListChanged(f, g, shown)
    PROVE  ListsNumbered(g) /\ CardsOpen(g)
<1>1. EditorOnScreen(g) = ListOf[shown]
  BY SameEditor DEF ListChanged
<1>2. \A l \in RecordLists : Numbered(g[l], g.nextId)
  BY NumberedAbove DEF ListChanged, ListsNumbered
<1>3. ListsNumbered(g)
  BY <1>2 DEF ListChanged, ListsNumbered
<1>4. CardsOpen(g)
  BY <1>1, ThreeLists DEF CardsOpen, ListChanged
<1> QED
  BY <1>3, <1>4

\* Two lists that share no name change independently.
LEMMA DecoysLeftAlone ==
    ASSUME NEW f, DecoysPaired(f), NEW g, g.vhosts = f.vhosts, g.drafts = f.drafts,
           g.kept = f.kept
    PROVE  DecoysPaired(g)
<1>1. CurrentDecoyDrafts(g) = CurrentDecoyDrafts(f)
  BY DEF CurrentDecoyDrafts
<1> QED
  BY <1>1 DEF DecoysPaired

\* A list written with its cards, under a new next number or the same one.
ListPut(f, shown, t, e, o, m) ==
    [f EXCEPT ![shown] = t, !.expanded = e, !.opened = o, !.nextId = m]
ListCut(f, shown, t, e, o) == [f EXCEPT ![shown] = t, !.expanded = e, !.opened = o]

\* Writing one list, its cards and the next number.
LEMMA ListWritten ==
    ASSUME NEW f, DOMAIN f = FormFields, NEW shown \in {"vhosts", "listeners", "upstreams"},
           NEW t, NEW e, NEW o, NEW m, NEW g, g = ListPut(f, shown, t, e, o, m)
    PROVE  /\ DOMAIN g = FormFields /\ g[shown] = t /\ g.expanded = e /\ g.opened = o
           /\ g.nextId = m /\ g.advanced = f.advanced /\ g.query = f.query
           /\ g.group = f.group /\ g.present = f.present /\ g.drafts = f.drafts
           /\ g.kept = f.kept
           /\ \A l \in {"vhosts", "listeners", "upstreams"} \ {shown} : g[l] = f[l]
<1>1. CASE shown = "vhosts"
  BY <1>1 DEF FormFields, ListPut
<1>2. CASE shown = "listeners"
  BY <1>2 DEF FormFields, ListPut
<1>3. CASE shown = "upstreams"
  BY <1>3 DEF FormFields, ListPut
<1> QED
  BY <1>1, <1>2, <1>3

\* Writing one list and its cards.
LEMMA ListShortened ==
    ASSUME NEW f, DOMAIN f = FormFields, NEW shown \in {"vhosts", "listeners", "upstreams"},
           NEW t, NEW e, NEW o, NEW g, g = ListCut(f, shown, t, e, o)
    PROVE  /\ DOMAIN g = FormFields /\ g[shown] = t /\ g.expanded = e /\ g.opened = o
           /\ g.nextId = f.nextId /\ g.advanced = f.advanced /\ g.query = f.query
           /\ g.group = f.group /\ g.present = f.present /\ g.drafts = f.drafts
           /\ g.kept = f.kept
           /\ \A l \in {"vhosts", "listeners", "upstreams"} \ {shown} : g[l] = f[l]
<1>1. CASE shown = "vhosts"
  BY <1>1 DEF FormFields, ListCut
<1>2. CASE shown = "listeners"
  BY <1>2 DEF FormFields, ListCut
<1>3. CASE shown = "upstreams"
  BY <1>3 DEF FormFields, ListCut
<1> QED
  BY <1>1, <1>2, <1>3

\* Duplicating a record.
LEMMA Duplicated ==
    ASSUME NEW f, ListsNumbered(f), NEW shown \in RecordLists, NEW i \in DOMAIN f[shown],
           NEW g, g = DuplicateRecord(f, shown, i)
    PROVE  /\ ListChanged(f, g, shown)
           /\ shown # "vhosts" => g.vhosts = f.vhosts
           /\ g.drafts = f.drafts /\ g.kept = f.kept /\ g.nextId = f.nextId + 1
           /\ g[shown] = InsertedAfter(f[shown], i, Cloned(f, f[shown][i]))
<1> DEFINE n == f.nextId
           s == f[shown]
           r == Cloned(f, s[i])
           t == InsertedAfter(s, i, r)
           e == {i + 1}
           o == {n}
           m == n + 1
<1>0. shown \in {"vhosts", "listeners", "upstreams"} /\ n \in Nat /\ m \in Nat /\ n <= m
  BY ThreeLists DEF ListsNumbered
<1>1. g = ListPut(f, shown, t, e, o, m) /\ DOMAIN f = FormFields
  BY DEF DuplicateRecord, ListPut, ListsNumbered
<1>2. Numbered(s, n) /\ i \in DOMAIN s
  BY DEF ListsNumbered
<1>3. i \in Nat /\ "id" \in DOMAIN s[i]
  BY <1>2, NumberedDomain DEF Numbered
<1>4. "id" \in DOMAIN r /\ r.id = n
  BY <1>3 DEF Cloned
<1>5. e \in SUBSET Nat
  BY <1>3
<1>6. Numbered(t, m) /\ OpenIds(t, e) = o
  <2>1. t = InsertedAfter(s, i, r) /\ e = {i + 1} /\ m = n + 1 /\ o = {n}
    OBVIOUS
  <2> HIDE DEF n, s, r, t, e, m, o
  <2> QED
    BY <1>0, <1>2, <1>4, <2>1, RecordInserted
<1> HIDE DEF n, s, r, t, e, o, m
<1>7. /\ DOMAIN g = FormFields /\ g[shown] = t /\ g.expanded = e /\ g.opened = o
      /\ g.nextId = m /\ g.advanced = f.advanced /\ g.query = f.query /\ g.group = f.group
      /\ g.present = f.present /\ g.drafts = f.drafts /\ g.kept = f.kept
      /\ \A l \in {"vhosts", "listeners", "upstreams"} \ {shown} : g[l] = f[l]
  BY <1>0, <1>1, ListWritten
<1>8. \A l \in RecordLists \ {shown} : g[l] = f[l]
  BY <1>7, ThreeLists
<1>9. shown # "vhosts" => g.vhosts = f.vhosts
  BY <1>8, ThreeLists
<1>10. ListChanged(f, g, shown)
  BY <1>0, <1>5, <1>6, <1>7, <1>8 DEF ListChanged, n
<1> QED
  BY <1>7, <1>9, <1>10 DEF t, m, n, r, s

\* Deleting a record.
LEMMA Deleted ==
    ASSUME NEW f, ListsNumbered(f), NEW shown \in RecordLists, NEW i \in DOMAIN f[shown],
           OpenIds(f[shown], f.expanded) = f.opened,
           NEW g, g = DeleteRecord(f, shown, i)
    PROVE  /\ ListChanged(f, g, shown)
           /\ shown # "vhosts" => g.vhosts = f.vhosts
           /\ g.drafts = f.drafts /\ g.kept = f.kept /\ g.nextId = f.nextId
           /\ g[shown] = RemoveAt(f[shown], i)
<1> DEFINE n == f.nextId
           s == f[shown]
           t == RemoveAt(s, i)
           e == ExpandedWithout(f.expanded, i)
           o == f.opened \ {s[i].id}
<1>0. shown \in {"vhosts", "listeners", "upstreams"} /\ n \in Nat /\ n <= n
  BY ThreeLists DEF ListsNumbered
<1>1. g = ListCut(f, shown, t, e, o) /\ DOMAIN f = FormFields /\ n = f.nextId
  BY DEF DeleteRecord, ListCut, ListsNumbered
<1>2. Numbered(s, n) /\ i \in DOMAIN s /\ f.expanded \in SUBSET Nat
  BY DEF ListsNumbered
<1>3. Numbered(t, n) /\ OpenIds(t, e) = o /\ e \in SUBSET Nat
  <2> DEFINE x == f.expanded
  <2>1. OpenIds(s, x) = f.opened /\ x \in SUBSET Nat
    BY <1>2
  <2> HIDE DEF n, s, x
  <2>2. Numbered(t, n) /\ ExpandedWithout(x, i) \in SUBSET Nat
        /\ OpenIds(t, ExpandedWithout(x, i)) = OpenIds(s, x) \ {s[i].id}
    BY <1>0, <1>2, <2>1, RecordRemoved
  <2> QED
    BY <2>1, <2>2 DEF x
<1> HIDE DEF n, s, t, e, o
<1>7. /\ DOMAIN g = FormFields /\ g[shown] = t /\ g.expanded = e /\ g.opened = o
      /\ g.advanced = f.advanced /\ g.query = f.query /\ g.group = f.group
      /\ g.present = f.present /\ g.drafts = f.drafts /\ g.kept = f.kept
      /\ g.nextId = n
      /\ \A l \in {"vhosts", "listeners", "upstreams"} \ {shown} : g[l] = f[l]
  BY <1>0, <1>1, ListShortened
<1>8. \A l \in RecordLists \ {shown} : g[l] = f[l]
  BY <1>7, ThreeLists
<1>9. shown # "vhosts" => g.vhosts = f.vhosts
  BY <1>8, ThreeLists
<1>10. ListChanged(f, g, shown)
  BY <1>0, <1>3, <1>7, <1>8 DEF ListChanged, n
<1> QED
  BY <1>7, <1>9, <1>10 DEF t, s, n

\* Adding a record.
LEMMA Added ==
    ASSUME NEW f, ListsNumbered(f), NEW shown \in RecordLists, NEW r,
           "id" \in DOMAIN r, r.id = f.nextId, NEW g, g = AddRecord(f, shown, r)
    PROVE  /\ ListChanged(f, g, shown)
           /\ shown # "vhosts" => g.vhosts = f.vhosts
           /\ g.drafts = f.drafts /\ g.kept = f.kept /\ g.nextId = f.nextId + 1
           /\ g[shown] = Append(f[shown], r)
<1> DEFINE n == f.nextId
           s == f[shown]
           t == Append(s, r)
           e == LastCard(s)
           o == {n}
           m == n + 1
<1>0. shown \in {"vhosts", "listeners", "upstreams"} /\ n \in Nat /\ m \in Nat /\ n <= m
  BY ThreeLists DEF ListsNumbered
<1>1. g = ListPut(f, shown, t, e, o, m) /\ DOMAIN f = FormFields
  BY <1>0 DEF AddRecord, ListsNumbered, FormFields, LastCard, ListPut
<1>2. Numbered(s, n)
  BY DEF ListsNumbered
<1>3. Len(s) \in Nat
  BY <1>2, NumberedDomain
<1>5. e \in SUBSET Nat
  BY <1>3 DEF LastCard
<1>6. Numbered(t, m) /\ OpenIds(t, e) = o
  <2>1. r.id = n /\ t = Append(s, r) /\ e = LastCard(s) /\ m = n + 1 /\ o = {n}
    OBVIOUS
  <2> HIDE DEF n, s, t, e, m, o
  <2> QED
    <3>1. Numbered(t, m)
      BY <1>0, <1>2, <2>1, RecordAppended
    <3>2. OpenIds(t, e) = o
      BY <1>2, <2>1, AppendedCard
    <3> QED
      BY <2>1, <3>1, <3>2
<1> HIDE DEF n, s, t, e, o, m
<1>7. /\ DOMAIN g = FormFields /\ g[shown] = t /\ g.expanded = e /\ g.opened = o
      /\ g.nextId = m /\ g.advanced = f.advanced /\ g.query = f.query /\ g.group = f.group
      /\ g.present = f.present /\ g.drafts = f.drafts /\ g.kept = f.kept
      /\ \A l \in {"vhosts", "listeners", "upstreams"} \ {shown} : g[l] = f[l]
  BY <1>0, <1>1, ListWritten
<1>8. \A l \in RecordLists \ {shown} : g[l] = f[l]
  BY <1>7, ThreeLists
<1>9. shown # "vhosts" => g.vhosts = f.vhosts
  BY <1>8, ThreeLists
<1>10. ListChanged(f, g, shown)
  BY <1>0, <1>5, <1>6, <1>7, <1>8 DEF ListChanged, n
<1> QED
  BY <1>7, <1>9, <1>10 DEF t, m, n, s

\* Opening or closing a card.
LEMMA CardFlipped ==
    ASSUME NEW f, ListsNumbered(f), NEW shown \in RecordLists, NEW i \in DOMAIN f[shown],
           OpenIds(f[shown], f.expanded) = f.opened, NEW g, g = ToggleCard(f, shown, i)
    PROVE  /\ ListChanged(f, g, shown)
           /\ g.vhosts = f.vhosts /\ g.drafts = f.drafts /\ g.kept = f.kept
<1> DEFINE n == f.nextId
           s == f[shown]
           x == f.expanded
           e == IF i \in x THEN x \ {i} ELSE x \union {i}
           o == IF i \in x THEN f.opened \ {s[i].id} ELSE f.opened \union {s[i].id}
<1>0. shown \in {"vhosts", "listeners", "upstreams"} /\ n \in Nat /\ n <= n
  BY ThreeLists DEF ListsNumbered
<1>1. g = [f EXCEPT !.expanded = e, !.opened = o]
  BY DEF ToggleCard
<1>2. Numbered(s, n) /\ i \in DOMAIN s /\ x \in SUBSET Nat
  BY DEF ListsNumbered
<1>3. DOMAIN s = 1..Len(s) /\ i \in Nat
  BY <1>2, NumberedDomain
<1>4. e \in SUBSET Nat
  BY <1>2, <1>3
<1>5. OpenIds(s, e) = o
  <2>1. \A j, k \in DOMAIN s : s[j].id = s[k].id => j = k
    BY <1>2, <1>3 DEF Numbered
  <2>2. f.opened = {s[j].id : j \in x \intersect DOMAIN s}
    BY DEF OpenIds
  <2> HIDE DEF s, x
  <2>3. CASE i \in x
    BY <1>2, <2>1, <2>2, <2>3 DEF OpenIds
  <2>4. CASE i \notin x
    BY <1>2, <2>1, <2>2, <2>4 DEF OpenIds
  <2> QED
    BY <2>3, <2>4
<1> HIDE DEF n, s, x, e, o
<1>7. /\ DOMAIN g = FormFields /\ g[shown] = s /\ g.expanded = e /\ g.opened = o
      /\ g.advanced = f.advanced /\ g.query = f.query /\ g.group = f.group
      /\ g.present = f.present /\ g.drafts = f.drafts /\ g.kept = f.kept
      /\ g.nextId = f.nextId /\ g.vhosts = f.vhosts
      /\ \A l \in FormFields \ {"expanded", "opened"} : g[l] = f[l]
  BY <1>0, <1>1 DEF ListsNumbered, FormFields, s
<1>8. \A l \in RecordLists \ {shown} : g[l] = f[l]
  BY <1>7, ThreeLists DEF FormFields
<1>10. ListChanged(f, g, shown)
  BY <1>0, <1>2, <1>4, <1>5, <1>7, <1>8 DEF ListChanged, n
<1> QED
  BY <1>7, <1>10

\* One record of a list written.
RecordPut(f, shown, i, r) == [f EXCEPT ![shown] = [f[shown] EXCEPT ![i] = r]]

\* Editing a record in place.
LEMMA Edited ==
    ASSUME NEW f, ListsNumbered(f), NEW shown \in RecordLists, NEW i \in DOMAIN f[shown],
           NEW r, "id" \in DOMAIN r, r.id = f[shown][i].id,
           NEW g, g = RecordPut(f, shown, i, r)
    PROVE  /\ OpenIds(f[shown], f.expanded) = f.opened => ListChanged(f, g, shown)
           /\ ListsNumbered(g) /\ EditorOnScreen(g) = EditorOnScreen(f)
           /\ shown # "vhosts" => g.vhosts = f.vhosts
           /\ g.drafts = f.drafts /\ g.kept = f.kept
           /\ DOMAIN g[shown] = DOMAIN f[shown]
           /\ \A j \in DOMAIN f[shown] : g[shown][j].id = f[shown][j].id
<1> DEFINE n == f.nextId
           s == f[shown]
           t == [s EXCEPT ![i] = r]
           x == f.expanded
<1>0. shown \in {"vhosts", "listeners", "upstreams"} /\ n \in Nat /\ n <= n
  BY ThreeLists DEF ListsNumbered
<1>1. g = [f EXCEPT ![shown] = t]
  BY DEF RecordPut
<1>2. Numbered(s, n) /\ i \in DOMAIN s /\ x \in SUBSET Nat
  BY DEF ListsNumbered
<1>3. /\ Numbered(t, n) /\ OpenIds(t, x) = OpenIds(s, x)
      /\ DOMAIN t = DOMAIN s /\ \A j \in DOMAIN s : t[j].id = s[j].id
  <2>1. r.id = s[i].id
    OBVIOUS
  <2> HIDE DEF n, s, x
  <2> QED
    BY <1>0, <1>2, <2>1, RecordEdited
<1> HIDE DEF n, s, t, x
<1>7. /\ DOMAIN g = FormFields /\ g[shown] = t /\ g.expanded = x /\ g.opened = f.opened
      /\ g.advanced = f.advanced /\ g.query = f.query /\ g.group = f.group
      /\ g.present = f.present /\ g.drafts = f.drafts /\ g.kept = f.kept
      /\ g.nextId = f.nextId
      /\ \A l \in FormFields \ {shown} : g[l] = f[l]
  BY <1>0, <1>1 DEF ListsNumbered, FormFields, x
<1>8. \A l \in RecordLists \ {shown} : g[l] = f[l]
  BY <1>7, ThreeLists DEF FormFields
<1>9. shown # "vhosts" => g.vhosts = f.vhosts
  BY <1>8, ThreeLists
<1>10. ASSUME OpenIds(f[shown], f.expanded) = f.opened PROVE ListChanged(f, g, shown)
  <2>1. OpenIds(s, x) = f.opened
    BY <1>10 DEF s, x
  <2> QED
    BY <1>0, <1>2, <1>3, <1>7, <1>8, <2>1 DEF ListChanged, n
<1>11. ListsNumbered(g)
  BY <1>0, <1>2, <1>3, <1>7, <1>8 DEF ListsNumbered, n
<1>12. EditorOnScreen(g) = EditorOnScreen(f)
  BY <1>7, SameEditor
<1> QED
  BY <1>3, <1>7, <1>9, <1>10, <1>11, <1>12 DEF s

\* Virtual hosts edited in place keep their decoys.
LEMMA DecoysFollowIds ==
    ASSUME NEW f, DecoysPaired(f), NEW g, DOMAIN g.vhosts = DOMAIN f.vhosts,
           \A j \in DOMAIN f.vhosts : g.vhosts[j].id = f.vhosts[j].id,
           g.drafts = f.drafts, g.kept = f.kept
    PROVE  DecoysPaired(g)
<1>1. CurrentDecoyDrafts(g) = CurrentDecoyDrafts(f)
  BY DEF CurrentDecoyDrafts
<1> QED
  BY <1>1 DEF DecoysPaired

\* The decoys put away and what the ghost says of them, written together.
Filed(f, d, k) == [f EXCEPT !.drafts = d, !.kept = k]

\* They leave the lists and their cards alone.
LEMMA FiledAway ==
    ASSUME NEW b, NEW f, NEW shown \in RecordLists, ListChanged(b, f, shown), NEW d, NEW k,
           NEW g, g = Filed(f, d, k)
    PROVE  /\ ListChanged(b, g, shown)
           /\ g.vhosts = f.vhosts /\ g.drafts = d /\ g.kept = k
<1>1. /\ DOMAIN g = FormFields /\ g.vhosts = f.vhosts /\ g.listeners = f.listeners
      /\ g.upstreams = f.upstreams /\ g.drafts = d /\ g.kept = k
      /\ g.advanced = f.advanced /\ g.query = f.query /\ g.group = f.group
      /\ g.present = f.present /\ g.nextId = f.nextId /\ g.expanded = f.expanded
      /\ g.opened = f.opened
  BY DEF Filed, ListChanged, FormFields
<1>2. \A l \in RecordLists : g[l] = f[l]
  BY <1>1, ThreeLists
<1> QED
  BY <1>1, <1>2 DEF ListChanged

\* What is put away for the virtual hosts is a sequence as long as theirs.
LEMMA DraftsAreASequence ==
    ASSUME NEW f, NEW n, Numbered(f.vhosts, n), NEW d, d = CurrentDecoyDrafts(f)
    PROVE  /\ d \in Seq(ToSet(d)) /\ Len(d) = Len(f.vhosts)
           /\ DOMAIN d = DOMAIN f.vhosts
           /\ \A i \in DOMAIN d : d[i] \in ToSet(d)
<1> DEFINE m == Len(f.vhosts)
           S == ToSet(d)
<1>1. m \in Nat /\ DOMAIN f.vhosts = 1..m
  BY NumberedDomain
<1>2. d = [i \in DOMAIN f.vhosts |-> d[i]]
  BY DEF CurrentDecoyDrafts
<1>3. \A i \in DOMAIN d : d[i] \in S
  BY DEF ToSet
<1>4. d \in [1..m -> S]
  <2> HIDE DEF m, S
  <2> QED
    BY <1>1, <1>2, <1>3
<1> HIDE DEF m, S
<1>5. d \in Seq(S) /\ Len(d) = m
  BY <1>1, <1>4, FunctionIsSeq
<1> QED
  BY <1>1, <1>3, <1>4, <1>5 DEF m, S

\* With a draft for every virtual host, the drafts are the current ones.
LEMMA DraftsCurrent ==
    ASSUME NEW g, DOMAIN g.vhosts = DOMAIN g.drafts,
           \A j \in DOMAIN g.vhosts :
                g.vhosts[j].id \in DOMAIN g.kept /\ g.drafts[j] = g.kept[g.vhosts[j].id]
    PROVE  DecoysPaired(g)
  BY DEF DecoysPaired, CurrentDecoyDrafts

\* The ghost of a new virtual host.
WithKept(kept, n, x) == [id \in DOMAIN kept \union {n} |-> IF id = n THEN x ELSE kept[id]]

\* A duplicated virtual host takes a copy of what was put away for the first.
LEMMA VhostCopied ==
    ASSUME NEW f, ListsNumbered(f), DecoysPaired(f), NEW i \in DOMAIN f.vhosts,
           NEW g, g = DuplicateVhost(f, i)
    PROVE  ListChanged(f, g, "vhosts") /\ DecoysPaired(g)
<1> DEFINE n == f.nextId
           s == f.vhosts
           r == Cloned(f, s[i])
           t == InsertedAfter(s, i, r)
           d == CurrentDecoyDrafts(f)
           D == InsertedAfter(d, i, d[i])
           K == WithKept(f.kept, n, f.kept[s[i].id])
           h == DuplicateRecord(f, "vhosts", i)
<1>0. "vhosts" \in RecordLists /\ n \in Nat /\ Numbered(s, n)
  BY ThreeLists DEF ListsNumbered
<1>1. /\ ListChanged(f, h, "vhosts") /\ h.drafts = f.drafts /\ h.kept = f.kept
      /\ h.vhosts = t /\ h.nextId = n + 1
  BY <1>0, Duplicated
<1>2. g = Filed(h, D, K)
  <2> HIDE DEF h
  <2>1. DOMAIN h = FormFields
    BY <1>1 DEF ListChanged
  <2> QED
    BY <1>1, <2>1 DEF DuplicateVhost, Filed, WithKept, FormFields, h
<1>3. ListChanged(f, g, "vhosts") /\ g.vhosts = t /\ g.drafts = D /\ g.kept = K
  <2> HIDE DEF h, D, K, t
  <2> QED
    BY <1>0, <1>1, <1>2, FiledAway
<1>4. DOMAIN s = 1..Len(s) /\ Len(s) \in Nat /\ i \in 1..Len(s) /\ i \in Nat
  BY <1>0, NumberedDomain
<1>5. "id" \in DOMAIN r /\ r.id = n
  BY <1>0, <1>4 DEF Cloned, Numbered
<1>6. /\ DOMAIN t = 1..(Len(s) + 1)
      /\ \A j \in 1..i : t[j] = s[j]
      /\ t[i + 1] = r
      /\ \A j \in (i + 1)..Len(s) : t[j + 1] = s[j]
  <2> DEFINE S == ToSet(s) \union {r}
  <2>1. s \in [1..Len(s) -> S]
    BY <1>0, <1>4, LenProperties, SeqDef DEF Numbered, ToSet
  <2>2. s \in Seq(S) /\ r \in S /\ t = InsertedAfter(s, i, r)
    BY <1>4, <2>1, SeqDef
  <2> HIDE DEF S, s, r, t
  <2>6. i \in 1..Len(s)
    BY <1>4
  <2>3. DOMAIN t = 1..(Len(s) + 1) /\ t[i + 1] = r
    BY <1>4, <2>2, InsertedCells
  <2>4. \A j \in 1..i : t[j] = s[j]
    BY <2>2, <2>6, InsertedCells
  <2>5. \A j \in (i + 1)..Len(s) : t[j + 1] = s[j]
    BY <2>2, <2>6, InsertedCells
  <2> QED
    BY <2>3, <2>4, <2>5
<1>7. /\ d \in Seq(ToSet(d)) /\ Len(d) = Len(s) /\ DOMAIN d = DOMAIN s
      /\ d[i] \in ToSet(d)
  BY <1>0, <1>4, DraftsAreASequence
<1>8. /\ DOMAIN D = 1..(Len(s) + 1)
      /\ \A j \in 1..i : D[j] = d[j]
      /\ D[i + 1] = d[i]
      /\ \A j \in (i + 1)..Len(s) : D[j + 1] = d[j]
  <2> DEFINE S == ToSet(d)
             x == d[i]
  <2>1. d \in Seq(S) /\ x \in S /\ i \in 1..Len(d) /\ D = InsertedAfter(d, i, x)
    BY <1>4, <1>7
  <2>2. Len(d) = Len(s)
    BY <1>7
  <2> HIDE DEF S, x, D, d
  <2>3. /\ DOMAIN D = 1..(Len(d) + 1)
        /\ \A j \in 1..i : D[j] = d[j]
        /\ D[i + 1] = x
        /\ \A j \in (i + 1)..Len(d) : D[j + 1] = d[j]
    BY <2>1, InsertedCells
  <2> QED
    BY <2>2, <2>3 DEF x
<1>9. \A j \in DOMAIN s : s[j].id \in DOMAIN f.kept /\ d[j] = f.kept[s[j].id] /\ s[j].id # n
  BY <1>0, <1>4 DEF DecoysPaired, Numbered
<1>10. \A id \in DOMAIN f.kept : id # n => id \in DOMAIN K /\ K[id] = f.kept[id]
  BY DEF WithKept
<1>11. n \in DOMAIN K /\ K[n] = f.kept[s[i].id]
  BY DEF WithKept
<1> HIDE DEF n, s, r, t, d, D, K, h
<1>12. \A j \in DOMAIN s : s[j].id \in DOMAIN K /\ d[j] = K[s[j].id]
  BY <1>9, <1>10
<1>13. ASSUME NEW j \in 1..(Len(s) + 1) PROVE t[j].id \in DOMAIN K /\ D[j] = K[t[j].id]
  <2>1. CASE j \in 1..i
    BY <1>4, <1>6, <1>8, <1>12, <2>1
  <2>2. CASE j = i + 1
    BY <1>4, <1>5, <1>6, <1>8, <1>9, <1>11, <2>2
  <2>3. CASE j > i + 1
    <3> DEFINE k == j - 1
    <3>1. k \in (i + 1)..Len(s) /\ k + 1 = j /\ k \in 1..Len(s)
      BY <1>4, <2>3
    <3> HIDE DEF k
    <3>2. t[k + 1] = s[k] /\ D[k + 1] = d[k]
      BY <1>6, <1>8, <3>1
    <3> QED
      BY <1>4, <1>12, <3>1, <3>2
  <2> QED
    BY <1>4, <2>1, <2>2, <2>3
<1>14. DecoysPaired(g)
  <2>1. DOMAIN g.vhosts = 1..(Len(s) + 1) /\ DOMAIN g.drafts = DOMAIN g.vhosts
    BY <1>3, <1>6, <1>8
  <2> QED
    BY <1>3, <1>13, <2>1, DraftsCurrent
<1> QED
  BY <1>3, <1>14

\* A deleted virtual host takes its own decoys with it.
LEMMA VhostGone ==
    ASSUME NEW f, ListsNumbered(f), DecoysPaired(f), NEW i \in DOMAIN f.vhosts,
           OpenIds(f.vhosts, f.expanded) = f.opened, NEW g, g = DeleteVhost(f, i)
    PROVE  ListChanged(f, g, "vhosts") /\ DecoysPaired(g)
<1> DEFINE n == f.nextId
           s == f.vhosts
           t == RemoveAt(s, i)
           d == CurrentDecoyDrafts(f)
           D == RemoveAt(d, i)
           K == f.kept
           h == DeleteRecord(f, "vhosts", i)
<1>0. "vhosts" \in RecordLists /\ n \in Nat /\ Numbered(s, n)
  BY ThreeLists DEF ListsNumbered
<1>1. /\ ListChanged(f, h, "vhosts") /\ h.drafts = f.drafts /\ h.kept = f.kept
      /\ h.vhosts = t
  BY <1>0, Deleted
<1>2. g = [h EXCEPT !.drafts = D]
  BY DEF DeleteVhost
<1>3. ListChanged(f, g, "vhosts") /\ g.vhosts = t /\ g.drafts = D /\ g.kept = K
  <2> HIDE DEF h, D, t
  <2>0. DOMAIN h = FormFields
    BY <1>1 DEF ListChanged
  <2>1. g = Filed(h, D, h.kept)
    BY <1>2, <2>0 DEF Filed, FormFields
  <2> QED
    BY <1>0, <1>1, <2>1, FiledAway
<1>4. DOMAIN s = 1..Len(s) /\ Len(s) \in Nat /\ i \in 1..Len(s) /\ i \in Nat
  BY <1>0, NumberedDomain
<1>6. /\ DOMAIN t = 1..(Len(s) - 1)
      /\ \A j \in 1..(i - 1) : t[j] = s[j]
      /\ \A j \in i..(Len(s) - 1) : t[j] = s[j + 1]
  <2> DEFINE S == ToSet(s)
  <2>1. s \in Seq(S) /\ t = RemoveAt(s, i)
    BY <1>0 DEF Numbered
  <2> HIDE DEF S, s, t
  <2>2. t \in Seq(S) /\ Len(t) = Len(s) - 1
    BY <1>4, <2>1, RemovedAt
  <2>3. ASSUME NEW j \in 1..(i - 1) PROVE t[j] = s[j]
    BY <1>4, <2>1, RemovedBefore
  <2>4. ASSUME NEW j \in i..(Len(s) - 1) PROVE t[j] = s[j + 1]
    BY <1>4, <2>1, RemovedAfter
  <2>5. DOMAIN t = 1..(Len(s) - 1)
    BY <2>2, LenProperties
  <2> QED
    BY <2>3, <2>4, <2>5
<1>7. d \in Seq(ToSet(d)) /\ Len(d) = Len(s) /\ DOMAIN d = DOMAIN s
  BY <1>0, <1>4, DraftsAreASequence
<1>8. /\ DOMAIN D = 1..(Len(s) - 1)
      /\ \A j \in 1..(i - 1) : D[j] = d[j]
      /\ \A j \in i..(Len(s) - 1) : D[j] = d[j + 1]
  <2> DEFINE S == ToSet(d)
  <2>1. d \in Seq(S) /\ D = RemoveAt(d, i) /\ i \in 1..Len(d) /\ Len(d) = Len(s)
    BY <1>4, <1>7
  <2> HIDE DEF S, d, D, s
  <2>2. D \in Seq(S) /\ Len(D) = Len(d) - 1
    BY <2>1, RemovedAt
  <2>3. ASSUME NEW j \in 1..(i - 1) PROVE D[j] = d[j]
    BY <2>1, RemovedBefore
  <2>4. ASSUME NEW j \in i..(Len(d) - 1) PROVE D[j] = d[j + 1]
    BY <2>1, RemovedAfter
  <2>5. DOMAIN D = 1..(Len(s) - 1)
    BY <2>1, <2>2, LenProperties
  <2> QED
    BY <2>1, <2>3, <2>4, <2>5
<1>9. \A j \in DOMAIN s : s[j].id \in DOMAIN K /\ d[j] = K[s[j].id]
  BY DEF DecoysPaired
<1> HIDE DEF n, s, t, d, D, K, h
<1>13. ASSUME NEW j \in 1..(Len(s) - 1) PROVE t[j].id \in DOMAIN K /\ D[j] = K[t[j].id]
  <2>1. CASE j \in 1..(i - 1)
    <3>1. t[j] = s[j] /\ D[j] = d[j] /\ j \in DOMAIN s
      BY <1>4, <1>6, <1>8, <2>1
    <3> QED
      BY <1>9, <3>1
  <2>2. CASE j \in i..(Len(s) - 1)
    <3>1. t[j] = s[j + 1] /\ D[j] = d[j + 1] /\ j + 1 \in DOMAIN s
      BY <1>4, <1>6, <1>8, <2>2
    <3> QED
      BY <1>9, <3>1
  <2> QED
    BY <1>4, <2>1, <2>2
<1>14. DecoysPaired(g)
  <2>1. DOMAIN g.vhosts = 1..(Len(s) - 1) /\ DOMAIN g.drafts = DOMAIN g.vhosts
    BY <1>3, <1>6, <1>8
  <2> QED
    BY <1>3, <1>13, <2>1, DraftsCurrent
<1> QED
  BY <1>3, <1>14

\* A new virtual host has nothing put away.
LEMMA VhostNew ==
    ASSUME NEW f, ListsNumbered(f), DecoysPaired(f), NEW g, g = AddVhost(f)
    PROVE  ListChanged(f, g, "vhosts") /\ DecoysPaired(g)
<1> DEFINE n == f.nextId
           s == f.vhosts
           r == NewWebVhost(f)
           t == Append(s, r)
           d == CurrentDecoyDrafts(f)
           no == << >>
           D == Append(d, no)
           K == WithKept(f.kept, n, no)
           h == AddRecord(f, "vhosts", r)
<1>0. "vhosts" \in RecordLists /\ n \in Nat /\ Numbered(s, n)
  BY ThreeLists DEF ListsNumbered
<1>5. "id" \in DOMAIN r /\ r.id = n
  BY DEF NewWebVhost
<1>1. /\ ListChanged(f, h, "vhosts") /\ h.drafts = f.drafts /\ h.kept = f.kept
      /\ h.vhosts = t /\ h.nextId = n + 1
  <2> HIDE DEF r
  <2> QED
    BY <1>0, <1>5, Added
<1>2. g = Filed(h, D, K)
  <2> HIDE DEF h
  <2>1. DOMAIN h = FormFields
    BY <1>1 DEF ListChanged
  <2> QED
    BY <1>1, <2>1 DEF AddVhost, Filed, WithKept, FormFields, h
<1>3. ListChanged(f, g, "vhosts") /\ g.vhosts = t /\ g.drafts = D /\ g.kept = K
  <2> HIDE DEF h, D, K, t
  <2> QED
    BY <1>0, <1>1, <1>2, FiledAway
<1>4. DOMAIN s = 1..Len(s) /\ Len(s) \in Nat
  BY <1>0, NumberedDomain
<1>6. /\ DOMAIN t = 1..(Len(s) + 1)
      /\ \A j \in 1..Len(s) : t[j] = s[j]
      /\ t[Len(s) + 1] = r
  <2> DEFINE S == ToSet(s) \union {r}
  <2>1. s \in [1..Len(s) -> S]
    BY <1>0, <1>4, LenProperties, SeqDef DEF Numbered, ToSet
  <2>2. s \in Seq(S) /\ r \in S /\ t = Append(s, r)
    BY <1>4, <2>1, SeqDef
  <2> HIDE DEF S, s, r, t
  <2>3. /\ t \in Seq(S) /\ Len(t) = Len(s) + 1
        /\ \A j \in 1..Len(s) : t[j] = s[j]
        /\ t[Len(s) + 1] = r
    BY <2>2, AppendProperties
  <2> QED
    BY <2>3, LenProperties
<1>7. d \in Seq(ToSet(d)) /\ Len(d) = Len(s) /\ DOMAIN d = DOMAIN s
  BY <1>0, <1>4, DraftsAreASequence
<1>8. /\ DOMAIN D = 1..(Len(s) + 1)
      /\ \A j \in 1..Len(s) : D[j] = d[j]
      /\ D[Len(s) + 1] = no
  <2> DEFINE S == ToSet(d) \union {no}
  <2>1. d \in [1..Len(d) -> S]
    BY <1>4, <1>7, LenProperties, SeqDef DEF ToSet
  <2>2. d \in Seq(S) /\ no \in S /\ D = Append(d, no) /\ Len(d) = Len(s)
    BY <1>4, <1>7, <2>1, SeqDef
  <2> HIDE DEF S, s, d, D, no
  <2>3. /\ D \in Seq(S) /\ Len(D) = Len(d) + 1
        /\ \A j \in 1..Len(d) : D[j] = d[j]
        /\ D[Len(d) + 1] = no
    BY <2>2, AppendProperties
  <2> QED
    BY <2>2, <2>3, LenProperties
<1>9. \A j \in DOMAIN s : s[j].id \in DOMAIN f.kept /\ d[j] = f.kept[s[j].id] /\ s[j].id # n
  BY <1>0, <1>4 DEF DecoysPaired, Numbered
<1>10. \A id \in DOMAIN f.kept : id # n => id \in DOMAIN K /\ K[id] = f.kept[id]
  BY DEF WithKept
<1>11. n \in DOMAIN K /\ K[n] = no
  BY DEF WithKept
<1> HIDE DEF n, s, r, t, d, D, K, h, no
<1>13. ASSUME NEW j \in 1..(Len(s) + 1) PROVE t[j].id \in DOMAIN K /\ D[j] = K[t[j].id]
  <2>1. CASE j \in 1..Len(s)
    BY <1>4, <1>6, <1>8, <1>9, <1>10, <2>1
  <2>2. CASE j = Len(s) + 1
    BY <1>5, <1>6, <1>8, <1>11, <2>2
  <2> QED
    BY <1>4, <2>1, <2>2
<1>14. DecoysPaired(g)
  <2>1. DOMAIN g.vhosts = 1..(Len(s) + 1) /\ DOMAIN g.drafts = DOMAIN g.vhosts
    BY <1>3, <1>6, <1>8
  <2> QED
    BY <1>3, <1>13, <2>1, DraftsCurrent
<1> QED
  BY <1>3, <1>14

\* Changing the decoy mode puts the decoy away for its own virtual host.
LEMMA DecoyChanged ==
    ASSUME NEW f, ListsNumbered(f), DecoysPaired(f), NEW i \in DOMAIN f.vhosts,
           OpenIds(f.vhosts, f.expanded) = f.opened, NEW mode,
           NEW g, g = OnDecoyModeChange(f, i, mode)
    PROVE  ListChanged(f, g, "vhosts") /\ DecoysPaired(g)
<1> DEFINE v == f.vhosts[i]
           mine == PutAway(CurrentDecoyDrafts(f)[i], v.decoy)
           brought == IF mode \in DOMAIN mine THEN mine[mode] ELSE DecoyForMode(v.decoy, mode)
           r == [v EXCEPT !.decoy = brought]
           D == [CurrentDecoyDrafts(f) EXCEPT ![i] = mine]
           K == [f.kept EXCEPT ![v.id] = PutAway(f.kept[v.id], v.decoy)]
           h == RecordPut(f, "vhosts", i, r)
<1>0. "vhosts" \in RecordLists /\ Numbered(f.vhosts, f.nextId) /\ DOMAIN f = FormFields
  BY ThreeLists DEF ListsNumbered
<1>1. "id" \in DOMAIN v
  BY <1>0, NumberedDomain DEF Numbered
<1>2. "id" \in DOMAIN r /\ r.id = v.id
  BY <1>1
<1>3. g = [f EXCEPT !.drafts = D, !.vhosts = [f.vhosts EXCEPT ![i] = r], !.kept = K]
  BY <1>0 DEF OnDecoyModeChange, FormFields
<1>4. /\ OpenIds(f.vhosts, f.expanded) = f.opened => ListChanged(f, h, "vhosts")
      /\ DOMAIN h.vhosts = DOMAIN f.vhosts
      /\ \A j \in DOMAIN f.vhosts : h.vhosts[j].id = f.vhosts[j].id
  <2> HIDE DEF r
  <2> QED
    BY <1>0, <1>2, Edited
<1>5. ListChanged(f, h, "vhosts")
  BY <1>4
<1> DEFINE t == [f.vhosts EXCEPT ![i] = r]
<1>6. ListChanged(f, g, "vhosts") /\ g.vhosts = h.vhosts /\ g.drafts = D /\ g.kept = K
  <2> HIDE DEF t, D, K
  <2>1. g = [f EXCEPT !.drafts = D, !.vhosts = t, !.kept = K] /\ h = [f EXCEPT !.vhosts = t]
    BY <1>3 DEF t, RecordPut
  <2> HIDE DEF h
  <2>2. /\ DOMAIN g = FormFields /\ g.vhosts = h.vhosts /\ g.listeners = h.listeners
        /\ g.upstreams = h.upstreams /\ g.drafts = D /\ g.kept = K
        /\ g.advanced = h.advanced /\ g.query = h.query /\ g.group = h.group
        /\ g.present = h.present /\ g.nextId = h.nextId /\ g.expanded = h.expanded
        /\ g.opened = h.opened
    BY <1>0, <2>1 DEF FormFields
  <2>3. \A l \in RecordLists : g[l] = h[l]
    BY <2>2, ThreeLists
  <2> QED
    BY <1>0, <1>5, <2>2, <2>3 DEF ListChanged
<1> HIDE DEF r, D, K, h, t
<1>7. DOMAIN D = DOMAIN f.vhosts /\ D[i] = mine
      /\ \A j \in DOMAIN f.vhosts : j # i => D[j] = CurrentDecoyDrafts(f)[j]
  <2> DEFINE d == CurrentDecoyDrafts(f)
  <2>1. d = [j \in DOMAIN f.vhosts |-> d[j]]
    BY DEF CurrentDecoyDrafts
  <2> HIDE DEF d, mine
  <2> QED
    BY <2>1 DEF D, d
<1>8. \A j \in DOMAIN f.vhosts : f.vhosts[j].id \in DOMAIN f.kept
                              /\ CurrentDecoyDrafts(f)[j] = f.kept[f.vhosts[j].id]
  BY DEF DecoysPaired
<1>9. \A j \in DOMAIN f.vhosts : j # i => f.vhosts[j].id # v.id
  BY <1>0, NumberedDomain DEF Numbered
<1>10. /\ DOMAIN K = DOMAIN f.kept /\ K[v.id] = mine
       /\ \A id \in DOMAIN f.kept : id # v.id => K[id] = f.kept[id]
  BY <1>8 DEF K
<1> HIDE DEF mine
<1>11. \A j \in DOMAIN g.vhosts :
            g.vhosts[j].id \in DOMAIN g.kept /\ g.drafts[j] = g.kept[g.vhosts[j].id]
  BY <1>4, <1>6, <1>7, <1>8, <1>9, <1>10
<1>12. DecoysPaired(g)
  BY <1>4, <1>6, <1>7, <1>11, DraftsCurrent
<1> QED
  BY <1>6, <1>12

\* The list on screen and its open cards.
LEMMA ShownCards ==
    ASSUME NEW f, CardsOpen(f), NEW shown \in RecordLists, EditorOnScreen(f) = ListOf[shown]
    PROVE  OpenIds(f[shown], f.expanded) = f.opened
  BY DEF CardsOpen

\* A click that leaves the lists alone.
LEMMA PlainClick ==
    ASSUME FormInv, NEW g, FormClick(g), DOMAIN g = DOMAIN form,
           g.vhosts = form.vhosts, g.listeners = form.listeners,
           g.upstreams = form.upstreams, g.drafts = form.drafts, g.kept = form.kept,
           g.expanded = form.expanded, g.opened = form.opened, g.nextId = form.nextId
    PROVE  FormInv'
<1>1. form' = Mounted(g, form)
  BY DEF FormClick
<1>2. /\ ListsNumbered(g) /\ DecoysPaired(g)
      /\ EditorOnScreen(g) = EditorOnScreen(form) => CardsOpen(g)
  BY ListsLeftAlone DEF FormInv
<1>3. ListsNumbered(form') /\ DecoysPaired(form') /\ CardsOpen(form')
  BY <1>1, <1>2, MountedHolds
<1> QED
  BY <1>3 DEF FormInv, ListsNumbered, DecoysPaired, CardsOpen, EditorOnScreen, Searching,
              CurrentDecoyDrafts, OpenIds, Numbered

\* A click that changes the list on screen.
LEMMA ListClick ==
    ASSUME FormInv, NEW shown \in RecordLists, Showing(shown), NEW g, FormClick(g),
           ListChanged(form, g, shown), DecoysPaired(g)
    PROVE  FormInv'
<1>1. form' = Mounted(g, form)
  BY DEF FormClick
<1>2. ListsNumbered(g) /\ CardsOpen(g)
  BY ListStep DEF FormInv, Showing
<1>3. ListsNumbered(form') /\ DecoysPaired(form') /\ CardsOpen(form')
  BY <1>1, <1>2, MountedHolds
<1> QED
  BY <1>3 DEF FormInv, ListsNumbered, DecoysPaired, CardsOpen, EditorOnScreen, Searching,
              CurrentDecoyDrafts, OpenIds, Numbered

\* A new record has the next number.
LEMMA NewRecords ==
    ASSUME NEW f
    PROVE  /\ "id" \in DOMAIN NewListener(f) /\ NewListener(f).id = f.nextId
           /\ "id" \in DOMAIN NewUpstream(f) /\ NewUpstream(f).id = f.nextId
  BY DEF NewListener, NewUpstream

\* Fields of a listener or an upstream that are edited are not its number.
LEMMA ListenerKept ==
    ASSUME NEW f, NEW i, "id" \in DOMAIN f.listeners[i], NEW key, NEW value,
           key \in {"transport", "port", "announce", "cidrs", "synlimit"}
    PROVE  \E r : /\ "id" \in DOMAIN r /\ r.id = f.listeners[i].id
                  /\ EditListener(f, i, key, value)
                        = RecordPut(f, "listeners", i, r)
<1> DEFINE x == f.listeners[i]
           r == IF key = "transport" THEN ListenerForTransport(x, value)
                ELSE [x EXCEPT ![key] = value]
<1>1. "id" \in DOMAIN r /\ r.id = x.id
  BY DEF ListenerForTransport
<1>2. CASE key = "transport"
  <2>1. EditListener(f, i, key, value)
            = RecordPut(f, "listeners", i, ListenerForTransport(x, value))
    BY <1>2 DEF EditListener, RecordPut
  <2> QED
    BY <1>1, <1>2, <2>1
<1>3. CASE key # "transport"
  <2>1. EditListener(f, i, key, value)
            = RecordPut(f, "listeners", i, [x EXCEPT ![key] = value])
    BY <1>3 DEF EditListener, RecordPut
  <2> QED
    BY <1>1, <1>3, <2>1
<1> QED
  BY <1>2, <1>3

\* Another document: nothing is put away, and the cards are counted again.
LEMMA ReplacedHolds ==
    ASSUME FormInv, NEW gone \in BOOLEAN, DocumentReplaced(gone)
    PROVE  FormInv'
<1> DEFINE n == form.nextId
           d == << >>
           k == [id \in DOMAIN form.kept |-> << >>]
           v == IF gone THEN Tail(form.vhosts) ELSE form.vhosts
           s == IF gone THEN Tail(form.listeners) ELSE form.listeners
           e == IF Showing("vhosts") THEN {1} ELSE form.expanded
           f == [form EXCEPT !.drafts = d, !.kept = k, !.vhosts = v, !.listeners = s,
                             !.expanded = e]
           o == UNION {{f[l][i].id : i \in f.expanded \intersect DOMAIN f[l]}
                       : l \in {x \in RecordLists : Showing(x)}}
           g == [f EXCEPT !.opened = o]
<1>0. /\ DOMAIN form = FormFields /\ n \in Nat
      /\ Numbered(form.vhosts, n) /\ Numbered(form.listeners, n) /\ Numbered(form.upstreams, n)
  BY ThreeLists DEF FormInv, ListsNumbered
<1>1. FormClick(g) /\ (gone => form.vhosts # << >> /\ Len(form.listeners) > 1)
  BY <1>0 DEF DocumentReplaced, FormFields
<1>2. e \in SUBSET Nat
  BY DEF FormInv, ListsNumbered
<1>3. Numbered(v, n) /\ \A j \in DOMAIN v : v[j].id \in DOMAIN form.kept
  <2>0. \A j \in DOMAIN form.vhosts : form.vhosts[j].id \in DOMAIN form.kept
    BY DEF FormInv, DecoysPaired
  <2>1. CASE gone
    <3> DEFINE w == form.vhosts
    <3>1. w # << >> /\ v = Tail(w) /\ Numbered(w, n)
      BY <1>0, <1>1, <2>1
    <3>2. DOMAIN w = 1..Len(w) /\ Len(w) \in Nat
      BY <3>1, NumberedDomain
    <3> HIDE DEF w, v, n
    <3>3. Numbered(v, n) /\ Len(v) = Len(w) - 1 /\ DOMAIN v = 1..Len(v)
          /\ \A j \in 1..Len(v) : v[j] = w[j + 1]
      BY <1>0, <3>1, FirstGone
    <3>4. \A j \in DOMAIN w : w[j].id \in DOMAIN form.kept
      BY <2>0 DEF w
    <3>5. ASSUME NEW j \in DOMAIN v PROVE v[j].id \in DOMAIN form.kept
      <4>1. j \in 1..Len(v) /\ j + 1 \in DOMAIN w
        BY <3>2, <3>3
      <4> QED
        BY <3>3, <3>4, <4>1
    <3> QED
      BY <3>3, <3>5
  <2>2. CASE ~gone
    BY <1>0, <2>0, <2>2
  <2> QED
    BY <2>1, <2>2
<1>4. Numbered(s, n)
  <2>1. CASE gone
    <3> DEFINE w == form.listeners
    <3>1. v = v /\ s = Tail(w) /\ Numbered(w, n) /\ Len(w) > 1
      BY <1>0, <1>1, <2>1
    <3>2. w # << >>
      BY <3>1
    <3> HIDE DEF w, s, n
    <3> QED
      BY <1>0, <3>1, <3>2, FirstGone
  <2>2. CASE ~gone
    BY <1>0, <2>2
  <2> QED
    BY <2>1, <2>2
<1>5. \A id \in DOMAIN form.kept : id \in DOMAIN k /\ k[id] = << >>
  OBVIOUS
<1> HIDE DEF n, d, k, v, s, e
<1>6. /\ DOMAIN f = FormFields /\ f.vhosts = v /\ f.listeners = s /\ f.expanded = e
      /\ f.upstreams = form.upstreams
  BY <1>0 DEF FormFields
<1> HIDE DEF o
<1>7. /\ DOMAIN g = FormFields /\ g.vhosts = v /\ g.listeners = s /\ g.expanded = e
      /\ g.upstreams = form.upstreams /\ g.drafts = d /\ g.kept = k /\ g.opened = o
      /\ g.nextId = n /\ g.advanced = form.advanced /\ g.query = form.query
      /\ g.group = form.group /\ g.present = form.present
  BY <1>0 DEF FormFields, n
<1>8. \A l \in RecordLists : g[l] = f[l]
  BY <1>6, <1>7, ThreeLists
<1>9. EditorOnScreen(g) = EditorOnScreen(form)
  BY <1>7, SameEditor
<1>10. ASSUME NEW l \in RecordLists, Showing(l) PROVE o = OpenIds(f[l], f.expanded)
  <2>1. {x \in RecordLists : Showing(x)} = {l}
    BY <1>10, ThreeLists DEF Showing
  <2> HIDE DEF f
  <2> QED
    BY <2>1 DEF o, OpenIds
<1> HIDE DEF f, g
<1>11. ListsNumbered(g)
  BY <1>0, <1>2, <1>3, <1>4, <1>7, ThreeLists DEF ListsNumbered
<1>12. DecoysPaired(g)
  <2>1. \A j \in DOMAIN g.vhosts : CurrentDecoyDrafts(g)[j] = << >>
    BY <1>7 DEF CurrentDecoyDrafts, d
  <2> QED
    BY <1>3, <1>5, <1>7, <2>1 DEF DecoysPaired
<1>13. CardsOpen(g)
  BY <1>6, <1>7, <1>8, <1>9, <1>10 DEF CardsOpen, Showing
<1>14. form' = Mounted(g, form)
  BY <1>1 DEF FormClick
<1>15. ListsNumbered(form') /\ DecoysPaired(form') /\ CardsOpen(form')
  BY <1>11, <1>12, <1>13, <1>14, MountedHolds
<1> QED
  BY <1>15 DEF FormInv, ListsNumbered, DecoysPaired, CardsOpen, EditorOnScreen, Searching,
              CurrentDecoyDrafts, OpenIds, Numbered

\* Cards and records of the lists.
LEMMA RecordsHold ==
    ASSUME FormInv, NEW i,
           \/ \E shown \in RecordLists : CardToggled(shown, i)
           \/ ListenerDuplicated(i) \/ ListenerDeleted(i) \/ ListenerEdited(i)
           \/ UpstreamDuplicated(i) \/ UpstreamDeleted(i) \/ UpstreamEdited(i)
    PROVE  FormInv'
<1>0. ListsNumbered(form) /\ DecoysPaired(form) /\ CardsOpen(form) /\ DOMAIN form = FormFields
  BY DEF FormInv, ListsNumbered
<1>l. RecordLists = {"vhosts", "listeners", "upstreams"}
  BY ThreeLists
<1>1. ASSUME NEW shown \in RecordLists, CardToggled(shown, i) PROVE FormInv'
  <2> DEFINE g == ToggleCard(form, shown, i)
  <2>1. FormClick(g) /\ Showing(shown) /\ i \in DOMAIN form[shown]
    BY <1>1 DEF CardToggled
  <2>2. OpenIds(form[shown], form.expanded) = form.opened
    BY <1>0, <2>1, ShownCards DEF Showing
  <2>3. /\ ListChanged(form, g, shown)
        /\ g.vhosts = form.vhosts /\ g.drafts = form.drafts /\ g.kept = form.kept
    BY <1>0, <2>1, <2>2, CardFlipped
  <2> HIDE DEF g
  <2>4. DecoysPaired(g)
    BY <1>0, <2>3, DecoysLeftAlone
  <2> QED
    BY <2>1, <2>3, <2>4, ListClick
<1>2. ASSUME NEW shown \in {"listeners", "upstreams"}, Showing(shown), i \in DOMAIN form[shown],
             FormClick(DuplicateRecord(form, shown, i))
      PROVE  FormInv'
  <2> DEFINE g == DuplicateRecord(form, shown, i)
  <2>3. /\ ListChanged(form, g, shown)
        /\ g.vhosts = form.vhosts /\ g.drafts = form.drafts /\ g.kept = form.kept
    BY <1>0, <1>l, <1>2, Duplicated
  <2> HIDE DEF g
  <2>4. DecoysPaired(g)
    BY <1>0, <2>3, DecoysLeftAlone
  <2> QED
    BY <1>l, <1>2, <2>3, <2>4, ListClick DEF g
<1>3. ASSUME NEW shown \in {"listeners", "upstreams"}, Showing(shown), i \in DOMAIN form[shown],
             FormClick(DeleteRecord(form, shown, i))
      PROVE  FormInv'
  <2> DEFINE g == DeleteRecord(form, shown, i)
  <2>2. OpenIds(form[shown], form.expanded) = form.opened
    BY <1>0, <1>l, <1>3, ShownCards DEF Showing
  <2>3. /\ ListChanged(form, g, shown)
        /\ g.vhosts = form.vhosts /\ g.drafts = form.drafts /\ g.kept = form.kept
    BY <1>0, <1>l, <1>3, <2>2, Deleted
  <2> HIDE DEF g
  <2>4. DecoysPaired(g)
    BY <1>0, <2>3, DecoysLeftAlone
  <2> QED
    BY <1>l, <1>3, <2>3, <2>4, ListClick DEF g
<1>4. ASSUME NEW shown \in {"listeners", "upstreams"}, Showing(shown), i \in DOMAIN form[shown],
             NEW r, "id" \in DOMAIN r, r.id = form[shown][i].id,
             FormClick(RecordPut(form, shown, i, r))
      PROVE  FormInv'
  <2> DEFINE g == RecordPut(form, shown, i, r)
  <2>2. OpenIds(form[shown], form.expanded) = form.opened
    BY <1>0, <1>l, <1>4, ShownCards DEF Showing
  <2>3. /\ ListChanged(form, g, shown)
        /\ g.vhosts = form.vhosts /\ g.drafts = form.drafts /\ g.kept = form.kept
    BY <1>0, <1>l, <1>4, <2>2, Edited
  <2> HIDE DEF g
  <2>4. DecoysPaired(g)
    BY <1>0, <2>3, DecoysLeftAlone
  <2> QED
    BY <1>l, <1>4, <2>3, <2>4, ListClick DEF g
<1>i. \A shown \in {"listeners", "upstreams"} : \A j \in DOMAIN form[shown] : "id" \in DOMAIN form[shown][j]
  BY <1>0, <1>l, NumberedDomain DEF ListsNumbered, Numbered
<1>5. CASE ListenerDuplicated(i)
  BY <1>2, <1>5 DEF ListenerDuplicated
<1>6. CASE ListenerDeleted(i)
  BY <1>3, <1>6 DEF ListenerDeleted
<1>7. CASE ListenerEdited(i)
  <2>1. PICK key \in ListenerFieldsForRecord(form.listeners[i], form.advanced) :
            \E value \in ListenerInputs[key] : FormClick(EditListener(form, i, key, value))
    BY <1>7 DEF ListenerEdited
  <2>2. PICK value \in ListenerInputs[key] : FormClick(EditListener(form, i, key, value))
    BY <2>1
  <2>3. key \in {"transport", "port", "announce", "cidrs", "synlimit"}
    BY DEF ListenerFieldsForRecord
  <2>4. Showing("listeners") /\ i \in DOMAIN form.listeners
    BY <1>7 DEF ListenerEdited
  <2>5. PICK r : /\ "id" \in DOMAIN r /\ r.id = form.listeners[i].id
                 /\ EditListener(form, i, key, value) = RecordPut(form, "listeners", i, r)
    BY <1>i, <2>3, <2>4, ListenerKept
  <2> QED
    BY <1>4, <2>2, <2>4, <2>5
<1>8. CASE UpstreamDuplicated(i)
  BY <1>2, <1>8 DEF UpstreamDuplicated
<1>9. CASE UpstreamDeleted(i)
  BY <1>3, <1>9 DEF UpstreamDeleted
<1>10. CASE UpstreamEdited(i)
  <2>1. PICK key \in UpstreamFieldsForRecord(form.upstreams[i], form.advanced) :
            \E value \in UpstreamInputs[key] : FormClick([form EXCEPT !.upstreams[i][key] = value])
    BY <1>10 DEF UpstreamEdited
  <2>2. PICK value \in UpstreamInputs[key] : FormClick([form EXCEPT !.upstreams[i][key] = value])
    BY <2>1
  <2>3. key \in {"type", "enabled", "address"}
    BY DEF UpstreamFieldsForRecord
  <2>4. Showing("upstreams") /\ i \in DOMAIN form.upstreams
    BY <1>10 DEF UpstreamEdited
  <2> DEFINE r == [form.upstreams[i] EXCEPT ![key] = value]
  <2>5. "id" \in DOMAIN r /\ r.id = form.upstreams[i].id
    BY <1>i, <2>3, <2>4
  <2>6. FormClick(RecordPut(form, "upstreams", i, r))
    BY <2>2 DEF RecordPut
  <2> HIDE DEF r
  <2> QED
    BY <1>4, <2>4, <2>5, <2>6
<1> QED
  BY <1>1, <1>5, <1>6, <1>7, <1>8, <1>9, <1>10

\* Virtual hosts, their texts and their decoys.
LEMMA VhostsHold ==
    ASSUME FormInv, NEW i,
           \/ VhostDuplicated(i) \/ VhostDeleted(i) \/ VhostTyped(i)
           \/ \E mode \in DecoyModes : DecoyModeChosen(i, mode)
    PROVE  FormInv'
<1>0. /\ ListsNumbered(form) /\ DecoysPaired(form) /\ CardsOpen(form)
      /\ "vhosts" \in RecordLists
  BY ThreeLists DEF FormInv
<1>1. Showing("vhosts") /\ i \in DOMAIN form.vhosts
  BY DEF VhostDuplicated, VhostDeleted, VhostTyped, DecoyModeChosen
<1>2. OpenIds(form.vhosts, form.expanded) = form.opened
  BY <1>0, <1>1, ShownCards DEF Showing
<1>3. "id" \in DOMAIN form.vhosts[i]
  BY <1>0, <1>1, NumberedDomain DEF ListsNumbered, Numbered
<1>4. CASE VhostDuplicated(i)
  <2> DEFINE g == DuplicateVhost(form, i)
  <2>1. FormClick(g)
    BY <1>4 DEF VhostDuplicated
  <2>2. ListChanged(form, g, "vhosts") /\ DecoysPaired(g)
    BY <1>0, <1>1, VhostCopied
  <2> HIDE DEF g
  <2> QED
    BY <1>0, <1>1, <2>1, <2>2, ListClick
<1>5. CASE VhostDeleted(i)
  <2> DEFINE g == DeleteVhost(form, i)
  <2>1. FormClick(g)
    BY <1>5 DEF VhostDeleted
  <2>2. ListChanged(form, g, "vhosts") /\ DecoysPaired(g)
    BY <1>0, <1>1, <1>2, VhostGone
  <2> HIDE DEF g
  <2> QED
    BY <1>0, <1>1, <2>1, <2>2, ListClick
<1>6. ASSUME NEW r, "id" \in DOMAIN r, r.id = form.vhosts[i].id,
             FormClick(RecordPut(form, "vhosts", i, r))
      PROVE  FormInv'
  <2> DEFINE g == RecordPut(form, "vhosts", i, r)
  <2>1. /\ ListChanged(form, g, "vhosts") /\ g.drafts = form.drafts /\ g.kept = form.kept
        /\ DOMAIN g.vhosts = DOMAIN form.vhosts
        /\ \A j \in DOMAIN form.vhosts : g.vhosts[j].id = form.vhosts[j].id
    BY <1>0, <1>1, <1>2, <1>6, Edited
  <2> HIDE DEF g
  <2>2. DecoysPaired(g)
    BY <1>0, <2>1, DecoysFollowIds
  <2> QED
    BY <1>0, <1>1, <1>6, <2>1, <2>2, ListClick DEF g
<1>7. CASE VhostTyped(i)
  <2>1. ASSUME NEW b \in BOOLEAN, FormClick([form EXCEPT !.vhosts[i].filled = b]) PROVE FormInv'
    <3> DEFINE r == [form.vhosts[i] EXCEPT !.filled = b]
    <3>1. "id" \in DOMAIN r /\ r.id = form.vhosts[i].id
      BY <1>3
    <3>2. FormClick(RecordPut(form, "vhosts", i, r))
      BY <2>1 DEF RecordPut
    <3> HIDE DEF r
    <3> QED
      BY <1>6, <3>1, <3>2
  <2>2. ASSUME NEW t \in TypedTexts, FormClick([form EXCEPT !.vhosts[i].decoy.upstream = t])
        PROVE  FormInv'
    <3> DEFINE r == [form.vhosts[i] EXCEPT !.decoy = [form.vhosts[i].decoy EXCEPT !.upstream = t]]
    <3>1. "id" \in DOMAIN r /\ r.id = form.vhosts[i].id
      BY <1>3
    <3>2. FormClick(RecordPut(form, "vhosts", i, r))
      BY <2>2 DEF RecordPut
    <3> HIDE DEF r
    <3> QED
      BY <1>6, <3>1, <3>2
  <2>3. ASSUME NEW t \in TypedTexts, FormClick([form EXCEPT !.vhosts[i].decoy.directory = t])
        PROVE  FormInv'
    <3> DEFINE r == [form.vhosts[i] EXCEPT !.decoy = [form.vhosts[i].decoy EXCEPT !.directory = t]]
    <3>1. "id" \in DOMAIN r /\ r.id = form.vhosts[i].id
      BY <1>3
    <3>2. FormClick(RecordPut(form, "vhosts", i, r))
      BY <2>3 DEF RecordPut
    <3> HIDE DEF r
    <3> QED
      BY <1>6, <3>1, <3>2
  <2>4. \/ \E b \in BOOLEAN : FormClick([form EXCEPT !.vhosts[i].filled = b])
        \/ \E t \in TypedTexts : \/ FormClick([form EXCEPT !.vhosts[i].decoy.upstream = t])
                                 \/ FormClick([form EXCEPT !.vhosts[i].decoy.directory = t])
    BY <1>7 DEF VhostTyped
  <2> QED
    BY <2>1, <2>2, <2>3, <2>4
<1>8. ASSUME NEW mode \in DecoyModes, DecoyModeChosen(i, mode) PROVE FormInv'
  <2> DEFINE g == OnDecoyModeChange(form, i, mode)
  <2>1. FormClick(g)
    BY <1>8 DEF DecoyModeChosen
  <2>2. ListChanged(form, g, "vhosts") /\ DecoysPaired(g)
    BY <1>0, <1>1, <1>2, DecoyChanged
  <2> HIDE DEF g
  <2> QED
    BY <1>0, <1>1, <2>1, <2>2, ListClick
<1> QED
  BY <1>4, <1>5, <1>7, <1>8

\* New records.
LEMMA NewRecordsHold ==
    ASSUME FormInv, ListenerAdded \/ UpstreamAdded \/ VhostAdded
    PROVE  FormInv'
<1>0. /\ ListsNumbered(form) /\ DecoysPaired(form) /\ CardsOpen(form)
      /\ RecordLists = {"vhosts", "listeners", "upstreams"}
  BY ThreeLists DEF FormInv
<1>1. ASSUME NEW shown \in {"listeners", "upstreams"}, Showing(shown), NEW r, "id" \in DOMAIN r,
             r.id = form.nextId, FormClick(AddRecord(form, shown, r))
      PROVE  FormInv'
  <2> DEFINE g == AddRecord(form, shown, r)
  <2>1. /\ ListChanged(form, g, shown)
        /\ g.vhosts = form.vhosts /\ g.drafts = form.drafts /\ g.kept = form.kept
    BY <1>0, <1>1, Added
  <2> HIDE DEF g
  <2>2. DecoysPaired(g)
    BY <1>0, <2>1, DecoysLeftAlone
  <2> QED
    BY <1>0, <1>1, <2>1, <2>2, ListClick DEF g
<1>2. CASE ListenerAdded
  BY <1>1, <1>2, NewRecords DEF ListenerAdded
<1>3. CASE UpstreamAdded
  BY <1>1, <1>3, NewRecords DEF UpstreamAdded
<1>4. CASE VhostAdded
  <2> DEFINE g == AddVhost(form)
  <2>1. FormClick(g) /\ Showing("vhosts")
    BY <1>4 DEF VhostAdded
  <2>2. ListChanged(form, g, "vhosts") /\ DecoysPaired(g)
    BY <1>0, VhostNew
  <2> HIDE DEF g
  <2> QED
    BY <1>0, <2>1, <2>2, ListClick
<1> QED
  BY <1>2, <1>3, <1>4

\* A click that writes a field which is neither a list nor a card.
OtherFields ==
    {"group", "advanced", "query", "enabled", "carriers", "flags", "notice",
     "domains", "masks", "number", "map", "json"}

\* One or two fields written.
FieldPut(f, key, x) == [f EXCEPT ![key] = x]
FieldsPut(f, key, x, other, y) == [f EXCEPT ![key] = x, ![other] = y]

\* One such field.
LEMMA FieldClick ==
    ASSUME FormInv, NEW key \in OtherFields, NEW x, FormClick(FieldPut(form, key, x))
    PROVE  FormInv'
<1> DEFINE g == FieldPut(form, key, x)
<1>1. DOMAIN form = FormFields
  BY DEF FormInv, ListsNumbered
<1>2. /\ DOMAIN g = DOMAIN form
      /\ g.vhosts = form.vhosts /\ g.listeners = form.listeners
      /\ g.upstreams = form.upstreams /\ g.drafts = form.drafts /\ g.kept = form.kept
      /\ g.expanded = form.expanded /\ g.opened = form.opened /\ g.nextId = form.nextId
  BY <1>1 DEF FieldPut, OtherFields, FormFields
<1> HIDE DEF g
<1> QED
  BY <1>2, PlainClick DEF g

\* Two such fields.
LEMMA FieldsClick ==
    ASSUME FormInv, NEW key \in OtherFields, NEW x, NEW other \in OtherFields, NEW y,
           FormClick(FieldsPut(form, key, x, other, y))
    PROVE  FormInv'
<1> DEFINE g == FieldsPut(form, key, x, other, y)
<1>1. DOMAIN form = FormFields
  BY DEF FormInv, ListsNumbered
<1>2. /\ DOMAIN g = DOMAIN form
      /\ g.vhosts = form.vhosts /\ g.listeners = form.listeners
      /\ g.upstreams = form.upstreams /\ g.drafts = form.drafts /\ g.kept = form.kept
      /\ g.expanded = form.expanded /\ g.opened = form.opened /\ g.nextId = form.nextId
  BY <1>1 DEF FieldsPut, OtherFields, FormFields
<1> HIDE DEF g
<1> QED
  BY <1>2, PlainClick DEF g

\* The search field edits a virtual host that has no card on screen.
LEMMA SearchedDecoy ==
    ASSUME FormInv, Searching(form), NEW i \in DOMAIN form.vhosts, NEW m,
           FormClick([form EXCEPT !.vhosts[i].decoy.mode = m])
    PROVE  FormInv'
<1>0. /\ ListsNumbered(form) /\ DecoysPaired(form) /\ "vhosts" \in RecordLists
      /\ EditorOnScreen(form) = "generic"
  BY ThreeLists DEF FormInv, EditorOnScreen
<1>1. "id" \in DOMAIN form.vhosts[i]
  BY <1>0, NumberedDomain DEF ListsNumbered, Numbered
<1> DEFINE r == [form.vhosts[i] EXCEPT !.decoy = [form.vhosts[i].decoy EXCEPT !.mode = m]]
           g == RecordPut(form, "vhosts", i, r)
<1>2. "id" \in DOMAIN r /\ r.id = form.vhosts[i].id
  BY <1>1
<1>3. FormClick(g)
  BY DEF RecordPut
<1> HIDE DEF r
<1>4. /\ ListsNumbered(g) /\ EditorOnScreen(g) = EditorOnScreen(form)
      /\ g.drafts = form.drafts /\ g.kept = form.kept
      /\ DOMAIN g.vhosts = DOMAIN form.vhosts
      /\ \A j \in DOMAIN form.vhosts : g.vhosts[j].id = form.vhosts[j].id
  BY <1>0, <1>2, Edited
<1> HIDE DEF g
<1>5. DecoysPaired(g)
  BY <1>0, <1>4, DecoysFollowIds
<1>6. CardsOpen(g)
  BY <1>0, <1>4 DEF CardsOpen, ListOf, RecordLists
<1>7. ListsNumbered(form') /\ DecoysPaired(form') /\ CardsOpen(form')
  BY <1>3, <1>4, <1>5, <1>6, MountedHolds DEF FormClick
<1> QED
  BY <1>7 DEF FormInv, ListsNumbered, DecoysPaired, CardsOpen, EditorOnScreen, Searching,
              CurrentDecoyDrafts, OpenIds, Numbered

\* The other editors, the groups, the mode and the search.
LEMMA OthersHold ==
    ASSUME FormInv,
           \/ \E g \in Groups : SelectGroup(g)
           \/ SwitchMode \/ TypeQuery
           \/ WebToggled \/ CarriersEdited \/ TlsEdited \/ GenericEdited
           \/ \E mode \in ModeFlags : ModePressed(mode)
           \/ \E flag \in RouteFlags : RouteToggled(flag)
    PROVE  FormInv'
<1>0. {"group", "advanced", "query", "enabled", "carriers", "flags", "notice",
       "domains", "masks", "number", "map", "json"} = OtherFields
  BY DEF OtherFields
<1>1. ASSUME NEW g \in Groups, SelectGroup(g) PROVE FormInv'
  <2> DEFINE no == FALSE
  <2>1. FormClick(FieldsPut(form, "group", g, "query", no))
    BY <1>1 DEF SelectGroup, FieldsPut
  <2> HIDE DEF no
  <2> QED
    BY <1>0, <2>1, FieldsClick
<1>2. CASE SwitchMode
  <2> DEFINE x == ~form.advanced
  <2>1. FormClick(FieldPut(form, "advanced", x))
    BY <1>2 DEF SwitchMode, FieldPut
  <2> HIDE DEF x
  <2> QED
    BY <1>0, <2>1, FieldClick
<1>3. CASE TypeQuery
  <2> DEFINE x == ~form.query
  <2>1. FormClick(FieldPut(form, "query", x))
    BY <1>3 DEF TypeQuery, FieldPut
  <2> HIDE DEF x
  <2> QED
    BY <1>0, <2>1, FieldClick
<1>4. CASE WebToggled
  <2> DEFINE x == ~form.enabled
  <2>1. FormClick(FieldPut(form, "enabled", x))
    BY <1>4 DEF WebToggled, FieldPut
  <2> HIDE DEF x
  <2> QED
    BY <1>0, <2>1, FieldClick
<1>5. CASE CarriersEdited
  <2>1. PICK order \in CarrierEdits(form) : FormClick(SetCarriers(form, order))
    BY <1>5 DEF CarriersEdited
  <2>2. FormClick(FieldPut(form, "carriers", order))
    BY <2>1 DEF SetCarriers, SetConfigValue, FieldPut
  <2> QED
    BY <1>0, <2>2, FieldClick
<1>6. CASE TlsEdited
  <2>1. \/ \E d \in DomainEdits(form.domains) : FormClick([form EXCEPT !.domains = d])
        \/ \E m \in MaskEdits(form.masks) : FormClick([form EXCEPT !.masks = m])
    BY <1>6 DEF TlsEdited
  <2>2. ASSUME NEW d, FormClick([form EXCEPT !.domains = d]) PROVE FormInv'
    <3>1. FormClick(FieldPut(form, "domains", d))
      BY <2>2 DEF FieldPut
    <3> QED
      BY <1>0, <3>1, FieldClick
  <2>3. ASSUME NEW m, FormClick([form EXCEPT !.masks = m]) PROVE FormInv'
    <3>1. FormClick(FieldPut(form, "masks", m))
      BY <2>3 DEF FieldPut
    <3> QED
      BY <1>0, <3>1, FieldClick
  <2> QED
    BY <2>1, <2>2, <2>3
<1>f. ASSUME NEW x, FormClick([form EXCEPT !.flags = x]) PROVE FormInv'
  <2>1. FormClick(FieldPut(form, "flags", x))
    BY <1>f DEF FieldPut
  <2> QED
    BY <1>0, <2>1, FieldClick
<1>7. CASE GenericEdited
  <2>1. ASSUME NEW x, FormClick([form EXCEPT !.number = x]) PROVE FormInv'
    <3>1. FormClick(FieldPut(form, "number", x))
      BY <2>1 DEF FieldPut
    <3> QED
      BY <1>0, <3>1, FieldClick
  <2>2. ASSUME NEW x, FormClick([form EXCEPT !.json = x]) PROVE FormInv'
    <3>1. FormClick(FieldPut(form, "json", x))
      BY <2>2 DEF FieldPut
    <3> QED
      BY <1>0, <3>1, FieldClick
  <2>3. CASE \E input \in {"", "letters", "1.5", "2", "unsafe"}, kind \in {"integer", "decimal"} :
                FormClick([form EXCEPT !.number = NumberTyped(kind, @, input)])
    <3>1. PICK input \in {"", "letters", "1.5", "2", "unsafe"}, kind \in {"integer", "decimal"} :
                FormClick([form EXCEPT !.number = NumberTyped(kind, form.number, input)])
      BY <2>3
    <3> DEFINE x == NumberTyped(kind, form.number, input)
    <3>2. FormClick([form EXCEPT !.number = x])
      BY <3>1
    <3> HIDE DEF x
    <3> QED
      BY <2>1, <3>2
  <2>4. CASE \E text \in {"{}", "[1]", "not json"} : FormClick(JsonTyped(form, text))
    <3>1. PICK text \in {"{}", "[1]", "not json"} : FormClick(JsonTyped(form, text))
      BY <2>4
    <3> DEFINE x == [text |-> text, invalid |-> FALSE]
    <3>2. FormClick([form EXCEPT !.json = x])
      BY <3>1 DEF JsonTyped
    <3> HIDE DEF x
    <3> QED
      BY <2>2, <3>2
  <2>5. CASE FormClick(JsonBlur(form))
    <3>1. CASE form.json.text = "not json"
      <4> DEFINE x == [form.json EXCEPT !.invalid = TRUE]
      <4>1. FormClick([form EXCEPT !.json = x])
        BY <2>5, <3>1 DEF JsonBlur
      <4> HIDE DEF x
      <4> QED
        BY <2>2, <4>1
    <3>2. CASE form.json.text # "not json"
      <4> DEFINE x == [form.json EXCEPT !.invalid = FALSE]
                 y == form.json.text
      <4>1. FormClick(FieldsPut(form, "map", y, "json", x))
        BY <2>5, <3>2 DEF JsonBlur, FieldsPut
      <4> HIDE DEF x, y
      <4> QED
        BY <1>0, <4>1, FieldsClick
    <3> QED
      BY <3>1, <3>2
  <2>6. CASE \E m \in ModeFlags : FormClick([form EXCEPT !.flags = Flip(@, m)])
    <3>1. PICK m \in ModeFlags : FormClick([form EXCEPT !.flags = Flip(form.flags, m)])
      BY <2>6
    <3> DEFINE x == Flip(form.flags, m)
    <3>2. FormClick([form EXCEPT !.flags = x])
      BY <3>1
    <3> HIDE DEF x
    <3> QED
      BY <1>f, <3>2
  <2>7. CASE /\ Searching(form)
             /\ \E i \in DOMAIN form.vhosts, m \in DecoyModes :
                    FormClick([form EXCEPT !.vhosts[i].decoy.mode = m])
    BY <2>7, SearchedDecoy
  <2> QED
    BY <1>7, <2>3, <2>4, <2>5, <2>6, <2>7 DEF GenericEdited
<1>8. ASSUME NEW mode \in ModeFlags, ModePressed(mode) PROVE FormInv'
  <2> DEFINE x == Flip(form.flags, mode)
             no == FALSE
             yes == TRUE
  <2>1. \/ FormClick(FieldPut(form, "notice", yes))
        \/ FormClick(FieldsPut(form, "notice", no, "flags", x))
    BY <1>8 DEF ModePressed, PressMode, FieldPut, FieldsPut
  <2> HIDE DEF x, no, yes
  <2> QED
    BY <1>0, <2>1, FieldClick, FieldsClick
<1>9. ASSUME NEW flag \in RouteFlags, RouteToggled(flag) PROVE FormInv'
  <2> DEFINE x == Flip(form.flags, flag)
  <2>1. FormClick([form EXCEPT !.flags = x])
    BY <1>9 DEF RouteToggled
  <2> HIDE DEF x
  <2> QED
    BY <1>f, <2>1
<1> QED
  BY <1>1, <1>2, <1>3, <1>4, <1>5, <1>6, <1>7, <1>8, <1>9

\* Every click keeps the invariant.
LEMMA FormSteps ==
    ASSUME FormInv, FormNext
    PROVE  FormInv'
<1>1. CASE \E gone \in BOOLEAN : DocumentReplaced(gone)
  BY <1>1, ReplacedHolds
<1>2. ASSUME NEW i \in 1..MaxRecords,
             \/ \E shown \in RecordLists : CardToggled(shown, i)
             \/ ListenerDuplicated(i) \/ ListenerDeleted(i) \/ ListenerEdited(i)
             \/ UpstreamDuplicated(i) \/ UpstreamDeleted(i) \/ UpstreamEdited(i)
      PROVE  FormInv'
  BY <1>2, RecordsHold
<1>3. ASSUME NEW i \in 1..MaxRecords,
             \/ VhostDuplicated(i) \/ VhostDeleted(i) \/ VhostTyped(i)
             \/ \E mode \in DecoyModes : DecoyModeChosen(i, mode)
      PROVE  FormInv'
  BY <1>3, VhostsHold
<1>4. CASE ListenerAdded \/ UpstreamAdded \/ VhostAdded
  BY <1>4, NewRecordsHold
<1>5. CASE \/ \E g \in Groups : SelectGroup(g)
           \/ SwitchMode \/ TypeQuery
           \/ WebToggled \/ CarriersEdited \/ TlsEdited \/ GenericEdited
           \/ \E mode \in ModeFlags : ModePressed(mode)
           \/ \E flag \in RouteFlags : RouteToggled(flag)
  BY <1>5, OthersHold
<1> QED
  BY <1>1, <1>2, <1>3, <1>4, <1>5 DEF FormNext

\* The first document.
LEMMA FormStarts ==
    ASSUME FormInit
    PROVE  FormInv
<1>1. PICK g \in {"web", "listeners"}, p \in {Groups, {"routing"}} : form = FirstForm(g, p)
  BY DEF FormInit
<1> DEFINE v == <<Vhost(1), Vhost(2)>>
           s == <<[id |-> 3, transport |-> "mtproxy", synlimit |-> FALSE,
                   announce |-> "none", cidrs |-> "none", port |-> 443]>>
           u == << >>
<1>2. Len(v) = 2 /\ v[1].id = 1 /\ v[2].id = 2 /\ DOMAIN v = 1..2
      /\ "id" \in DOMAIN v[1] /\ "id" \in DOMAIN v[2]
  <2>1. Len(v) = 2 /\ DOMAIN v = 1..2 /\ v[1] = Vhost(1) /\ v[2] = Vhost(2)
    OBVIOUS
  <2>2. \A n : "id" \in DOMAIN Vhost(n) /\ Vhost(n).id = n
    BY DEF Vhost
  <2> HIDE DEF v
  <2> QED
    BY <2>1, <2>2
<1>3. Len(s) = 1 /\ s[1].id = 3 /\ DOMAIN s = 1..1 /\ "id" \in DOMAIN s[1]
  OBVIOUS
<1>4. Len(u) = 0 /\ DOMAIN u = 1..0
  OBVIOUS
<1>5. v \in Seq(ToSet(v)) /\ s \in Seq(ToSet(s)) /\ u \in Seq(ToSet(u))
  <2>1. v \in Seq({Vhost(1), Vhost(2)}) /\ s \in Seq({s[1]}) /\ u \in Seq({})
    OBVIOUS
  <2> HIDE DEF v, s, u
  <2> QED
    BY <2>1, OwnElements
<1>6. /\ form.vhosts = v /\ form.listeners = s /\ form.upstreams = u /\ form.group = g
      /\ form.advanced = FALSE /\ form.present = p /\ form.expanded = {1}
      /\ form.nextId = 4 /\ form.kept = [id \in 1..2 |-> << >>] /\ form.drafts = << >>
      /\ form.opened = FirstOpened(g, p) /\ DOMAIN form = FormFields
  BY <1>1 DEF FormFields, FirstForm
<1>f. FirstOpened("web", p) = {1} /\ ("listeners" \in p => FirstOpened("listeners", p) = {3})
  BY DEF FirstOpened
<1> HIDE DEF v, s, u
<1>7. Numbered(v, 4) /\ Numbered(s, 4) /\ Numbered(u, 4)
  BY <1>2, <1>3, <1>4, <1>5 DEF Numbered
<1>8. ListsNumbered(form)
  BY <1>6, <1>7, ThreeLists DEF ListsNumbered
<1>9. DecoysPaired(form)
  BY <1>2, <1>6 DEF DecoysPaired, CurrentDecoyDrafts
<1>10. OpenIds(v, {1}) = {1} /\ OpenIds(s, {1}) = {3}
  BY <1>2, <1>3 DEF OpenIds
<1>11. /\ EditorOnScreen(form) = "web" => g = "web"
       /\ EditorOnScreen(form) = "listeners" => g = "listeners" /\ g \in p
       /\ EditorOnScreen(form) # "upstreams"
  BY <1>6 DEF EditorOnScreen, Searching
<1>12. CardsOpen(form)
  <2> DEFINE one == {1}
  <2>0. form.expanded = one /\ OpenIds(v, one) = {1} /\ OpenIds(s, one) = {3}
    BY <1>6, <1>10
  <2> HIDE DEF one
  <2>1. EditorOnScreen(form) = "web" => OpenIds(form.vhosts, form.expanded) = form.opened
    BY <1>6, <1>11, <1>f, <2>0
  <2>2. EditorOnScreen(form) = "listeners" => OpenIds(form.listeners, form.expanded) = form.opened
    BY <1>6, <1>11, <1>f, <2>0
  <2>3. RecordLists = {"vhosts", "listeners", "upstreams"} /\ ListOf["vhosts"] = "web"
        /\ ListOf["listeners"] = "listeners" /\ ListOf["upstreams"] = "upstreams"
    BY DEF RecordLists, ListOf
  <2> QED
    BY <1>11, <2>1, <2>2, <2>3 DEF CardsOpen
<1> QED
  BY <1>8, <1>9, <1>12 DEF FormInv

\* The invariant is what the property says, and more.
LEMMA FormsPaired ==
    ASSUME FormInv
    PROVE  DecoysStayWithTheirHost /\ CardsFollowRecords
  BY DEF FormInv, DecoysPaired, CardsOpen, OpenIds, DecoysStayWithTheirHost,
         CardsFollowRecords, Showing

-----------------------------------------------------------------------------
(***************************************************************************)
(* The journal. Two recursive functions, unfolded: the ring after the lines*)
(* held back, and the rows of the pages read. Each is shown to exist for every*)
(* length by the least length for which it would not.                      *)
(***************************************************************************)

\* A set of numbers that is not empty has a least one.
LEMMA LeastNumber ==
    ASSUME NEW S, S \subseteq Nat, S # {}
    PROVE  \E n \in S : \A m \in S : n <= m
<1> DEFINE R == OpToRel(<, Nat)
<1>1. IsWellFoundedOn(R, Nat)
  BY NatLessThanWellFounded
<1>2. \A x, y \in Nat : x < y => <<x, y>> \in R
  BY DEF OpToRel
<1> HIDE DEF R
<1>3. PICK n \in S : \A y \in S : ~(<<y, n>> \in R)
  BY <1>1, WFMin
<1>4. ASSUME NEW m \in S PROVE n <= m
  <2>1. m \in Nat /\ n \in Nat /\ ~(<<m, n>> \in R)
    BY <1>3
  <2>2. ~(m < n)
    BY <1>2, <2>1
  <2> QED
    BY <2>1, <2>2
<1> QED
  BY <1>4

\* The ring after each line put back.
IsFlushes(g, lines, pending, N) == g = [n \in 0..N |-> IF n = 0 THEN lines ELSE CapPush(g[n - 1], pending[n])]

\* Such a function exists for every length.
LEMMA FlushesExist ==
    ASSUME NEW lines, NEW pending, NEW N, N \in Nat
    PROVE  \E g : IsFlushes(g, lines, pending, N)
<1> DEFINE Flushes(g, k) == g = [n \in 0..k |-> IF n = 0 THEN lines ELSE CapPush(g[n - 1], pending[n])]
           T == {k \in 0..N : ~\E g : Flushes(g, k)}
<1> SUFFICES \E g : Flushes(g, N)
  BY DEF IsFlushes
<1>1. CASE T = {}
  <2>1. N \in 0..N /\ N \notin T
    BY <1>1
  <2> QED
    BY <2>1, Zenon
<1>2. CASE T # {}
  <2>1. T \subseteq Nat
    OBVIOUS
  <2> HIDE DEF T
  <2>2. PICK k \in T : \A m \in T : k <= m
    BY <1>2, <2>1, LeastNumber
  <2>3. k \in 0..N /\ ~\E g : Flushes(g, k)
    BY <2>2 DEF T
  <2>4. k # 0
    <3>1. Flushes([n \in 0..0 |-> lines], 0)
      OBVIOUS
    <3> QED
      BY <2>3, <3>1
  <2>5. k - 1 \in 0..N /\ k - 1 \notin T
    BY <2>2, <2>3, <2>4
  <2>6. PICK g : Flushes(g, k - 1)
    BY <2>5 DEF T
  <2> DEFINE h == [n \in 0..k |-> IF n = k THEN CapPush(g[k - 1], pending[k]) ELSE g[n]]
  <2>7. \A n \in 0..(k - 1) : h[n] = g[n] /\ g[n] = IF n = 0 THEN lines ELSE CapPush(g[n - 1], pending[n])
    <3>1. \A n \in 0..(k - 1) : h[n] = g[n]
      BY <2>3, <2>4
    <3>2. \A n \in 0..(k - 1) : g[n] = IF n = 0 THEN lines ELSE CapPush(g[n - 1], pending[n])
      BY <2>6
    <3> QED
      BY <3>1, <3>2
  <2>8. ASSUME NEW n \in 0..k
        PROVE  h[n] = IF n = 0 THEN lines ELSE CapPush(h[n - 1], pending[n])
    <3>1. CASE n = k
      <4>1. h[k] = CapPush(g[k - 1], pending[k])
        BY <2>3
      <4>2. h[k - 1] = g[k - 1]
        BY <2>3, <2>4, <2>7
      <4> QED
        BY <2>4, <3>1, <4>1, <4>2
    <3>2. CASE n # k /\ n = 0
      <4>1. n \in 0..(k - 1) /\ n = 0
        BY <2>3, <3>2
      <4>2. h[n] = g[n] /\ g[n] = lines
        BY <2>7, <4>1
      <4> QED
        BY <4>1, <4>2
    <3>3. CASE n # k /\ n # 0
      <4>1. n \in 0..(k - 1) /\ n - 1 \in 0..(k - 1)
        BY <2>3, <3>3
      <4>2. h[n] = CapPush(g[n - 1], pending[n]) /\ h[n - 1] = g[n - 1]
        BY <2>7, <3>3, <4>1
      <4> QED
        BY <3>3, <4>2
    <3> QED
      BY <3>1, <3>2, <3>3
  <2>9. h = [n \in 0..k |-> h[n]]
    OBVIOUS
  <2> HIDE DEF h
  <2>10. Flushes(h, k)
    BY <2>8, <2>9
  <2> QED
    BY <2>3, <2>10
<1> QED
  BY <1>1, <1>2

\* Flushed, unfolded.
LEMMA FlushUnfold ==
    ASSUME NEW S, NEW lines, NEW pending \in Seq(S), NEW F, F = Flushed(lines, pending)
    PROVE  /\ F[0] = lines
           /\ \A n \in 1..Len(pending) : F[n] = CapPush(F[n - 1], pending[n])
<1> DEFINE N == Len(pending)
<1>1. N \in Nat /\ N = Len(pending)
  OBVIOUS
<1>2. F = CHOOSE g : IsFlushes(g, lines, pending, N)
  BY DEF Flushed, IsFlushes
<1> HIDE DEF N
<1>3. \E g : IsFlushes(g, lines, pending, N)
  BY <1>1, FlushesExist
<1>4. IsFlushes(F, lines, pending, N)
  BY <1>2, <1>3
<1>5. \A n \in 0..N : F[n] = IF n = 0 THEN lines ELSE CapPush(F[n - 1], pending[n])
  BY <1>4 DEF IsFlushes
<1>6. \A n \in 1..N : n \in 0..N /\ n # 0
  BY <1>1
<1>7. 0 \in 0..N
  BY <1>1
<1> QED
  BY <1>5, <1>6, <1>7 DEF N

\* Rows, and the rows of one more page.
RowsBelow(a, b) == a \o b

\* The rows of the first pages.
IsJoins(g, pages, N) == g = [n \in 0..N |-> IF n = 0 THEN <<>> ELSE RowsBelow(g[n - 1], pages[n])]

\* Such a function exists for every length.
LEMMA PagesExist ==
    ASSUME NEW pages, NEW N, N \in Nat
    PROVE  \E g : IsJoins(g, pages, N)
<1> DEFINE Joins(g, k) == g = [n \in 0..k |-> IF n = 0 THEN <<>> ELSE RowsBelow(g[n - 1], pages[n])]
           T == {k \in 0..N : ~\E g : Joins(g, k)}
<1> SUFFICES \E g : Joins(g, N)
  BY DEF IsJoins
<1>1. CASE T = {}
  <2>1. N \in 0..N /\ N \notin T
    BY <1>1
  <2> QED
    BY <2>1, Zenon
<1>2. CASE T # {}
  <2>1. T \subseteq Nat
    OBVIOUS
  <2> HIDE DEF T
  <2>2. PICK k \in T : \A m \in T : k <= m
    BY <1>2, <2>1, LeastNumber
  <2>3. k \in 0..N /\ ~\E g : Joins(g, k)
    BY <2>2 DEF T
  <2>4. k # 0
    <3>1. Joins([n \in 0..0 |-> <<>>], 0)
      OBVIOUS
    <3> QED
      BY <2>3, <3>1
  <2>5. k - 1 \in 0..N /\ k - 1 \notin T
    BY <2>2, <2>3, <2>4
  <2>6. PICK g : Joins(g, k - 1)
    BY <2>5 DEF T
  <2> DEFINE h == [n \in 0..k |-> IF n = k THEN RowsBelow(g[k - 1], pages[k]) ELSE g[n]]
  <2>7. \A n \in 0..(k - 1) : h[n] = g[n] /\ g[n] = IF n = 0 THEN <<>> ELSE RowsBelow(g[n - 1], pages[n])
    <3>1. \A n \in 0..(k - 1) : h[n] = g[n]
      BY <2>3, <2>4
    <3>2. \A n \in 0..(k - 1) : g[n] = IF n = 0 THEN <<>> ELSE RowsBelow(g[n - 1], pages[n])
      BY <2>6
    <3> QED
      BY <3>1, <3>2
  <2>8. ASSUME NEW n \in 0..k
        PROVE  h[n] = IF n = 0 THEN <<>> ELSE RowsBelow(h[n - 1], pages[n])
    <3>1. CASE n = k
      <4>1. h[k] = RowsBelow(g[k - 1], pages[k])
        BY <2>3
      <4>2. h[k - 1] = g[k - 1]
        BY <2>3, <2>4, <2>7
      <4> QED
        BY <2>4, <3>1, <4>1, <4>2
    <3>2. CASE n # k /\ n = 0
      <4>1. n \in 0..(k - 1) /\ n = 0
        BY <2>3, <3>2
      <4>2. h[n] = g[n] /\ g[n] = <<>>
        BY <2>7, <4>1
      <4> QED
        BY <4>1, <4>2
    <3>3. CASE n # k /\ n # 0
      <4>1. n \in 0..(k - 1) /\ n - 1 \in 0..(k - 1)
        BY <2>3, <3>3
      <4>2. h[n] = RowsBelow(g[n - 1], pages[n]) /\ h[n - 1] = g[n - 1]
        BY <2>7, <3>3, <4>1
      <4> QED
        BY <3>3, <4>2
    <3> QED
      BY <3>1, <3>2, <3>3
  <2>9. h = [n \in 0..k |-> h[n]]
    OBVIOUS
  <2> HIDE DEF h
  <2>10. Joins(h, k)
    BY <2>8, <2>9
  <2> QED
    BY <2>3, <2>10
<1> QED
  BY <1>1, <1>2

\* RowsOfPages, unfolded.
LEMMA PagesUnfold ==
    ASSUME NEW S, NEW pages \in Seq(S), NEW R, R = RowsOfPages(pages)
    PROVE  /\ R[0] = <<>>
           /\ \A n \in 1..Len(pages) : R[n] = RowsBelow(R[n - 1], pages[n])
<1> DEFINE N == Len(pages)
<1>1. N \in Nat /\ N = Len(pages)
  OBVIOUS
<1>2. R = CHOOSE g : IsJoins(g, pages, N)
  BY DEF RowsOfPages, RowsBelow, IsJoins
<1> HIDE DEF N
<1>3. \E g : IsJoins(g, pages, N)
  BY <1>1, PagesExist
<1>4. IsJoins(R, pages, N)
  BY <1>2, <1>3
<1>5. \A n \in 0..N : R[n] = IF n = 0 THEN <<>> ELSE RowsBelow(R[n - 1], pages[n])
  BY <1>4 DEF IsJoins
<1>6. \A n \in 1..N : n \in 0..N /\ n # 0
  BY <1>1
<1>7. 0 \in 0..N
  BY <1>1
<1> QED
  BY <1>5, <1>6, <1>7 DEF N

\* t is s with x pushed behind the newest of its lines.
IsPushed(S, s, x, t) ==
    /\ t \in Seq(S) /\ Len(t) = IF Len(s) = RingCap THEN RingCap ELSE Len(s) + 1
    /\ Len(t) <= RingCap /\ Len(t) > 0
    /\ t[Len(t)] = x
    /\ \A i \in 1..(Len(t) - 1) : t[i] = s[i + (Len(s) + 1 - Len(t))]

\* A line pushed into a ring is the last, behind the newest of the others.
LEMMA Pushed ==
    ASSUME NEW S, NEW s \in Seq(S), NEW x \in S, NEW t, t = CapPush(s, x), Len(s) <= RingCap
    PROVE  IsPushed(S, s, x, t)
<1> USE DEF IsPushed
<1> DEFINE n == Len(s)
           u == IF n >= RingCap THEN SubSeq(s, n - RingCap + 2, n) ELSE s
<1>0. n \in Nat /\ n = Len(s) /\ RingCap \in Nat \ {0} /\ n <= RingCap
  BY LogStreamAssumption
<1>1. t = Append(u, x)
  BY DEF CapPush
<1>2. CASE n = RingCap
  <2>1. u = SubSeq(s, 2, n)
    BY <1>0, <1>2
  <2>2. /\ u \in Seq(S) /\ Len(u) = n - 1
        /\ \A i \in 1..(n - 1) : u[i] = s[i + 1]
    BY <1>0, <1>2, <2>1
  <2> HIDE DEF u, n
  <2>3. /\ t \in Seq(S) /\ Len(t) = n /\ t[n] = x
        /\ \A i \in 1..(n - 1) : t[i] = u[i]
    BY <1>0, <1>1, <1>2, <2>2, AppendProperties
  <2>4. \A i \in 1..(n - 1) : t[i] = s[i + (n + 1 - n)]
    <3>1. \A i \in 1..(n - 1) : i + (n + 1 - n) = i + 1
      BY <1>0
    <3> QED
      BY <2>2, <2>3, <3>1
  <2> QED
    BY <1>0, <1>2, <2>3, <2>4
<1>3. CASE n # RingCap
  <2>1. u = s
    BY <1>0, <1>3
  <2> HIDE DEF u, n
  <2>3. /\ t \in Seq(S) /\ Len(t) = n + 1 /\ t[n + 1] = x
        /\ \A i \in 1..n : t[i] = s[i]
    BY <1>0, <1>1, <2>1, AppendProperties
  <2>4. \A i \in 1..n : i + (n + 1 - (n + 1)) = i
    BY <1>0
  <2>5. n + 1 - 1 = n
    BY <1>0
  <2> QED
    BY <1>0, <1>3, <2>3, <2>4, <2>5
<1> QED
  BY <1>2, <1>3

\* A ring that shows the newest of `lines` and the first n lines held back.
NewestOf(S, t, lines, pending, n) ==
    /\ t \in Seq(S) /\ Len(t) <= RingCap /\ Len(t) <= Len(lines) + n
    /\ Len(t) = Len(lines) + n \/ Len(t) = RingCap
    /\ \A i \in 1..Len(t) :
          t[i] = IF Len(lines) + n - Len(t) + i <= Len(lines)
                 THEN lines[Len(lines) + n - Len(t) + i] ELSE pending[n - Len(t) + i]

\* One more line put back.
LEMMA PutBack ==
    ASSUME NEW S, NEW lines \in Seq(S), NEW pending \in Seq(S), NEW n \in 1..Len(pending),
           NEW s, NewestOf(S, s, lines, pending, n - 1), NEW t, t = CapPush(s, pending[n])
    PROVE  NewestOf(S, t, lines, pending, n)
<1> DEFINE L == Len(lines)
           m == Len(s)
           k == Len(t)
           x == pending[n]
<1>1. L \in Nat /\ n \in Nat /\ n >= 1 /\ x \in S /\ RingCap \in Nat \ {0}
  BY LogStreamAssumption
<1>2. s \in Seq(S) /\ Len(s) <= RingCap /\ m \in Nat
  BY DEF NewestOf
<1>3. m <= L + (n - 1) /\ (m = L + (n - 1) \/ m = RingCap)
  BY DEF NewestOf
<1>4. \A i \in 1..m : s[i] = IF L + (n - 1) - m + i <= L THEN lines[L + (n - 1) - m + i] ELSE pending[(n - 1) - m + i]
  BY DEF NewestOf
<1>5. t = CapPush(s, x)
  OBVIOUS
<1> HIDE DEF x
<1>6. /\ t \in Seq(S) /\ Len(t) = IF Len(s) = RingCap THEN RingCap ELSE Len(s) + 1
      /\ Len(t) <= RingCap /\ Len(t) > 0
      /\ t[Len(t)] = x
      /\ \A i \in 1..(Len(t) - 1) : t[i] = s[i + (Len(s) + 1 - Len(t))]
  <2>1. IsPushed(S, s, x, t)
    BY <1>1, <1>2, <1>5, Pushed
  <2> QED
    BY <2>1 DEF IsPushed
<1>7. k \in Nat /\ k = (IF m = RingCap THEN RingCap ELSE m + 1) /\ k > 0 /\ k <= RingCap
  BY <1>6
<1>8. t[k] = x /\ \A i \in 1..(k - 1) : t[i] = s[i + (m + 1 - k)]
  BY <1>6
<1>9. L = Len(lines) /\ m = Len(s) /\ k = Len(t)
  OBVIOUS
<1> HIDE DEF L, m, k
<1>10. k <= L + n /\ (k = L + n \/ k = RingCap)
  BY <1>1, <1>2, <1>3, <1>7
<1>11. ASSUME NEW i \in 1..k
       PROVE  t[i] = IF L + n - k + i <= L THEN lines[L + n - k + i] ELSE pending[n - k + i]
  <2>1. CASE i = k
    <3>1. ~(L + n - k + i <= L) /\ n - k + i = n
      BY <1>1, <1>7, <2>1
    <3> QED
      BY <1>8, <2>1, <3>1 DEF x
  <2>2. CASE i # k
    <3> DEFINE o == i + (m + 1 - k)
    <3>1. i \in 1..(k - 1) /\ o \in 1..m
      BY <1>2, <1>7, <2>2
    <3>2. L + (n - 1) - m + o = L + n - k + i /\ (n - 1) - m + o = n - k + i
      BY <1>1, <1>2, <1>7
    <3>3. t[i] = s[o]
      BY <1>8, <3>1
    <3> HIDE DEF o
    <3>4. s[o] = IF L + (n - 1) - m + o <= L THEN lines[L + (n - 1) - m + o] ELSE pending[(n - 1) - m + o]
      BY <1>4, <3>1
    <3> QED
      BY <3>2, <3>3, <3>4
  <2> QED
    BY <2>1, <2>2
<1> QED
  BY <1>6, <1>7, <1>9, <1>10, <1>11 DEF NewestOf

\* What a resumed feed shows: the newest of what it showed and held back.
LEMMA FlushShows ==
    ASSUME NEW S, NEW lines \in Seq(S), NEW pending \in Seq(S), Len(lines) <= RingCap,
           NEW F, F = Flushed(lines, pending), NEW n \in 0..Len(pending)
    PROVE  NewestOf(S, F[n], lines, pending, n)
<1> DEFINE N == Len(pending)
           T == {k \in 0..N : ~NewestOf(S, F[k], lines, pending, k)}
<1>1. /\ F[0] = lines /\ N \in Nat
      /\ \A k \in 1..N : F[k] = CapPush(F[k - 1], pending[k])
  BY FlushUnfold
<1>2. N = Len(pending) /\ n \in 0..N
  OBVIOUS
<1> HIDE DEF N
<1>3. CASE T = {}
  BY <1>2, <1>3
<1>4. CASE T # {}
  <2>1. T \subseteq Nat
    OBVIOUS
  <2> HIDE DEF T
  <2>2. PICK k \in T : \A m \in T : k <= m
    BY <1>4, <2>1, LeastNumber
  <2>3. k \in 0..N /\ ~NewestOf(S, F[k], lines, pending, k)
    BY <2>2 DEF T
  <2>4. NewestOf(S, lines, lines, pending, 0)
    <3> DEFINE L == Len(lines)
    <3>1. L \in Nat /\ L = Len(lines) /\ L <= RingCap
      OBVIOUS
    <3> HIDE DEF L
    <3>2. \A i \in 1..L : L + 0 - L + i = i /\ i <= L
      BY <3>1
    <3> QED
      BY <3>1, <3>2 DEF NewestOf
  <2>5. k # 0
    BY <1>1, <2>3, <2>4
  <2>6. k \in 1..N /\ k - 1 \in 0..N /\ k - 1 \notin T
    BY <1>1, <2>2, <2>3, <2>5
  <2>7. NewestOf(S, F[k - 1], lines, pending, k - 1)
    BY <2>6 DEF T
  <2> DEFINE s == F[k - 1]
             t == F[k]
  <2>8. k \in 1..Len(pending) /\ NewestOf(S, s, lines, pending, k - 1) /\ t = CapPush(s, pending[k])
    BY <1>1, <1>2, <2>6, <2>7
  <2> HIDE DEF s, t
  <2>9. NewestOf(S, t, lines, pending, k)
    BY <2>8, PutBack
  <2> QED
    BY <2>3, <2>9 DEF t
<1> QED
  BY <1>3, <1>4

-----------------------------------------------------------------------------
(***************************************************************************)
(* The ring: what it shows and what it holds back are runs of numbers, however*)
(* often it is paused, cleared and resumed and however much is dropped.    *)
(***************************************************************************)

\* A line of the feed.
Line == [id : Int, level : LineKinds]

\* The lines of s are numbered one after another, the last one `last`.
Consecutive(s, last) == \A i \in 1..Len(s) : s[i].id = last - Len(s) + i

\* What is on screen and what is held back are runs of numbers; the second
\* continues the first, or fills the ring by itself.
RingOf(lines, pending, nextId) ==
    /\ lines \in Seq(Line) /\ pending \in Seq(Line) /\ nextId \in Int
    /\ Len(lines) <= RingCap /\ Len(pending) <= RingCap
    /\ Consecutive(pending, nextId - 1)
    /\ \E last \in Int : /\ Consecutive(lines, last)
                         /\ Len(pending) = RingCap \/ last = nextId - 1 - Len(pending)

\* The ring; nothing is held back unless it is paused.
RingInv(g) ==
    /\ RingOf(g.lines, g.pending, g.nextId)
    /\ g.paused \in BOOLEAN
    /\ ~g.paused => g.pending = << >>
    /\ g = [lines |-> g.lines, paused |-> g.paused, pending |-> g.pending, nextId |-> g.nextId]

\* A pushed line that has the next number keeps the numbers in order.
LEMMA PushNumbers ==
    ASSUME NEW s \in Seq(Line), NEW x \in Line, NEW t, IsPushed(Line, s, x, t),
           NEW m \in Int, Consecutive(s, m), x.id = m + 1
    PROVE  Consecutive(t, m + 1)
<1> DEFINE n == Len(s)
           k == Len(t)
<1>1. n \in Nat /\ k \in Nat /\ RingCap \in Nat \ {0} /\ n = Len(s) /\ k = Len(t)
  BY LogStreamAssumption DEF IsPushed
<1>2. k = (IF n = RingCap THEN RingCap ELSE n + 1) /\ t[k] = x
  BY DEF IsPushed
<1>3. \A i \in 1..(k - 1) : t[i] = s[i + (n + 1 - k)]
  BY DEF IsPushed
<1>4. \A i \in 1..n : s[i].id = m - n + i
  BY DEF Consecutive
<1> HIDE DEF n, k
<1>5. ASSUME NEW i \in 1..k PROVE t[i].id = (m + 1) - k + i
  <2>1. CASE i = k
    BY <1>1, <1>2, <2>1
  <2>2. CASE i # k
    <3>1. i \in 1..(k - 1) /\ i + (n + 1 - k) \in 1..n
      BY <1>1, <1>2, <2>2
    <3>2. t[i].id = m - n + (i + (n + 1 - k))
      BY <1>3, <1>4, <3>1
    <3> QED
      BY <1>1, <3>1, <3>2
  <2> QED
    BY <2>1, <2>2
<1> QED
  BY <1>1, <1>5 DEF Consecutive

\* A line arrives on a running feed.
LEMMA PushShown ==
    ASSUME NEW lines, NEW nextId, NEW level \in LineKinds, RingOf(lines, << >>, nextId),
           NEW t, t = CapPush(lines, [id |-> nextId, level |-> level])
    PROVE  RingOf(t, << >>, nextId + 1)
<1> DEFINE x == [id |-> nextId, level |-> level]
<1>1. /\ lines \in Seq(Line) /\ nextId \in Int /\ Len(lines) <= RingCap
      /\ RingCap \in Nat \ {0} /\ << >> \in Seq(Line) /\ Len(<< >>) = 0
  BY LogStreamAssumption DEF RingOf
<1>2. x \in Line /\ x.id = nextId /\ t = CapPush(lines, x)
  BY <1>1 DEF Line
<1>3. PICK last \in Int : /\ Consecutive(lines, last)
                          /\ Len(<< >>) = RingCap \/ last = nextId - 1 - Len(<< >>)
  BY DEF RingOf
<1>4. last + 1 = nextId
  BY <1>1, <1>3
<1> HIDE DEF x
<1>5. IsPushed(Line, lines, x, t)
  BY <1>1, <1>2, Pushed
<1>6. Consecutive(t, last + 1)
  BY <1>1, <1>2, <1>3, <1>4, <1>5, PushNumbers
<1>7. t \in Seq(Line) /\ Len(t) <= RingCap
  BY <1>5 DEF IsPushed
<1>8. Consecutive(<< >>, nextId + 1 - 1)
  BY <1>1 DEF Consecutive
<1>9. last + 1 \in Int /\ last + 1 = (nextId + 1) - 1 - 0
  BY <1>1, <1>4
<1> QED
  BY <1>1, <1>6, <1>7, <1>8, <1>9 DEF RingOf

\* A line arrives on a paused feed.
LEMMA PushHeld ==
    ASSUME NEW lines, NEW pending, NEW nextId, NEW level \in LineKinds,
           RingOf(lines, pending, nextId),
           NEW t, t = CapPush(pending, [id |-> nextId, level |-> level])
    PROVE  RingOf(lines, t, nextId + 1)
<1> DEFINE x == [id |-> nextId, level |-> level]
<1>1. /\ lines \in Seq(Line) /\ pending \in Seq(Line) /\ nextId \in Int
      /\ Len(lines) <= RingCap /\ Len(pending) <= RingCap /\ Consecutive(pending, nextId - 1)
      /\ RingCap \in Nat \ {0}
  BY LogStreamAssumption DEF RingOf
<1>2. x \in Line /\ x.id = (nextId - 1) + 1 /\ t = CapPush(pending, x) /\ nextId - 1 \in Int
  BY <1>1 DEF Line
<1>3. PICK last \in Int : /\ Consecutive(lines, last)
                          /\ Len(pending) = RingCap \/ last = nextId - 1 - Len(pending)
  BY DEF RingOf
<1> HIDE DEF x
<1>4. IsPushed(Line, pending, x, t)
  BY <1>1, <1>2, Pushed
<1> DEFINE m == nextId - 1
<1>5. m \in Int /\ Consecutive(pending, m) /\ x.id = m + 1 /\ m + 1 = (nextId + 1) - 1
  BY <1>1, <1>2
<1> HIDE DEF m
<1>6. Consecutive(t, m + 1)
  BY <1>1, <1>2, <1>4, <1>5, PushNumbers
<1>7. /\ t \in Seq(Line) /\ Len(t) <= RingCap
      /\ Len(t) = IF Len(pending) = RingCap THEN RingCap ELSE Len(pending) + 1
  BY <1>4 DEF IsPushed
<1>8. Len(t) = RingCap \/ last = (nextId + 1) - 1 - Len(t)
  BY <1>1, <1>3, <1>7
<1>9. Consecutive(t, (nextId + 1) - 1)
  BY <1>5, <1>6
<1> QED
  BY <1>1, <1>3, <1>7, <1>8, <1>9 DEF RingOf

\* The feed is resumed.
LEMMA ResumeShows ==
    ASSUME NEW lines, NEW pending, NEW nextId, RingOf(lines, pending, nextId),
           NEW t, t = Flushed(lines, pending)[Len(pending)]
    PROVE  RingOf(t, << >>, nextId)
<1> DEFINE n == Len(pending)
           L == Len(lines)
           k == Len(t)
           F == Flushed(lines, pending)
<1>1. /\ lines \in Seq(Line) /\ pending \in Seq(Line) /\ nextId \in Int
      /\ L <= RingCap /\ n <= RingCap /\ Consecutive(pending, nextId - 1)
      /\ RingCap \in Nat \ {0} /\ << >> \in Seq(Line) /\ Len(<< >>) = 0
      /\ n \in Nat /\ L \in Nat /\ n = Len(pending) /\ L = Len(lines)
  BY LogStreamAssumption DEF RingOf
<1>2. PICK last \in Int : Consecutive(lines, last) /\ (n = RingCap \/ last = nextId - 1 - n)
  BY DEF RingOf
<1>3. F = Flushed(lines, pending) /\ t = F[n] /\ n \in 0..Len(pending) /\ Len(lines) <= RingCap
  BY <1>1
<1> HIDE DEF F
<1>4. NewestOf(Line, F[n], lines, pending, n)
  BY <1>1, <1>3, FlushShows
<1>5. /\ t \in Seq(Line) /\ k \in Nat /\ k <= RingCap /\ k <= L + n
      /\ k = L + n \/ k = RingCap
  BY <1>3, <1>4 DEF NewestOf
<1>6. \A i \in 1..k : t[i] = IF L + n - k + i <= L THEN lines[L + n - k + i] ELSE pending[n - k + i]
  BY <1>3, <1>4 DEF NewestOf
<1>7. (\A i \in 1..L : lines[i].id = last - L + i) /\ \A i \in 1..n : pending[i].id = nextId - 1 - n + i
  BY <1>1, <1>2 DEF Consecutive
<1>8. k = Len(t)
  OBVIOUS
<1> HIDE DEF n, L, k
<1>9. ASSUME NEW i \in 1..k PROVE t[i].id = nextId - 1 - k + i
  <2>1. CASE L + n - k + i <= L
    <3> DEFINE j == L + n - k + i
    <3>1. j \in 1..L /\ n # RingCap
      BY <1>1, <1>5, <2>1
    <3>2. t[i] = lines[j]
      BY <1>6, <2>1
    <3>3. last - L + j = nextId - 1 - k + i
      <4>1. last = nextId - 1 - n
        BY <1>2, <3>1
      <4>2. n \in Int /\ L \in Int /\ k \in Int /\ i \in Int /\ nextId \in Int
        BY <1>1, <1>5
      <4> QED
        BY <4>1, <4>2
    <3> HIDE DEF j
    <3>4. lines[j].id = last - L + j
      BY <1>7, <3>1
    <3> QED
      BY <3>2, <3>3, <3>4
  <2>2. CASE ~(L + n - k + i <= L)
    <3> DEFINE j == n - k + i
    <3>1. j \in 1..n
      BY <1>1, <1>5, <2>2
    <3>2. t[i] = pending[j]
      BY <1>6, <2>2
    <3>3. nextId - 1 - n + j = nextId - 1 - k + i
      BY <1>1, <1>5
    <3> HIDE DEF j
    <3>4. pending[j].id = nextId - 1 - n + j
      BY <1>7, <3>1
    <3> QED
      BY <3>2, <3>3, <3>4
  <2> QED
    BY <2>1, <2>2
<1>10. Consecutive(t, nextId - 1) /\ Consecutive(<< >>, nextId - 1)
  <2>1. \A i \in 1..Len(t) : t[i].id = (nextId - 1) - Len(t) + i
    BY <1>8, <1>9
  <2>2. \A i \in 1..Len(<< >>) : FALSE
    BY <1>1
  <2> QED
    BY <2>1, <2>2 DEF Consecutive
<1>11. nextId - 1 \in Int /\ nextId - 1 = nextId - 1 - 0
  BY <1>1
<1> QED
  BY <1>1, <1>5, <1>8, <1>10, <1>11 DEF RingOf

\* The feed is cleared, or new.
LEMMA EmptyRing ==
    ASSUME NEW nextId \in Int
    PROVE  RingOf(<< >>, << >>, nextId)
<1>1. << >> \in Seq(Line) /\ Len(<< >>) = 0 /\ RingCap \in Nat
  BY LogStreamAssumption
<1>2. Consecutive(<< >>, nextId - 1) /\ nextId - 1 \in Int /\ nextId - 1 = nextId - 1 - 0
  BY <1>1 DEF Consecutive
<1> QED
  BY <1>1, <1>2 DEF RingOf

\* Every change of the ring keeps the invariant.
LEMMA RingSteps ==
    ASSUME NEW g, RingInv(g), NEW h,
           \/ h = NewRing \/ \E level \in LineKinds : h = PushLine(g, level)
           \/ g.paused /\ h = ResumeRing(g)
           \/ ~g.paused /\ h = PauseRing(g)
           \/ h = ClearRing(g)
    PROVE  RingInv(h)
<1>1. /\ RingOf(g.lines, g.pending, g.nextId) /\ g.paused \in BOOLEAN
      /\ ~g.paused => g.pending = << >>
      /\ g.nextId \in Int
  BY DEF RingInv, RingOf
<1>2. g = [lines |-> g.lines, paused |-> g.paused, pending |-> g.pending, nextId |-> g.nextId]
  BY DEF RingInv
<1> DEFINE ls == g.lines
           ps == g.pending
           id == g.nextId
           pz == g.paused
<1>3. CASE h = NewRing
  <2>1. RingOf(<< >>, << >>, 1)
    BY EmptyRing
  <2>2. /\ h.lines = << >> /\ h.pending = << >> /\ h.nextId = 1 /\ h.paused = FALSE
        /\ h = [lines |-> h.lines, paused |-> h.paused, pending |-> h.pending, nextId |-> h.nextId]
    BY <1>3 DEF NewRing
  <2> QED
    BY <2>1, <2>2 DEF RingInv
<1>4. CASE \E level \in LineKinds : h = PushLine(g, level)
  <2>1. PICK level \in LineKinds : h = PushLine(g, level)
    BY <1>4
  <2>2. CASE g.paused
    <3> DEFINE t == CapPush(ps, [id |-> id, level |-> level])
    <3>1. h = [lines |-> ls, paused |-> pz, pending |-> t, nextId |-> id + 1]
      BY <1>2, <2>1, <2>2 DEF PushLine, PendingPush
    <3>2. t = CapPush(ps, [id |-> id, level |-> level])
      OBVIOUS
    <3> HIDE DEF t
    <3>3. RingOf(ls, t, id + 1)
      BY <1>1, <3>2, PushHeld
    <3>4. /\ h.lines = ls /\ h.paused = pz /\ h.pending = t /\ h.nextId = id + 1
          /\ h = [lines |-> h.lines, paused |-> h.paused, pending |-> h.pending, nextId |-> h.nextId]
      BY <3>1
    <3> QED
      BY <1>1, <2>2, <3>3, <3>4 DEF RingInv
  <2>3. CASE ~g.paused
    <3> DEFINE t == CapPush(ls, [id |-> id, level |-> level])
    <3>1. h = [lines |-> t, paused |-> pz, pending |-> ps, nextId |-> id + 1]
      BY <1>2, <2>1, <2>3 DEF PushLine
    <3>2. t = CapPush(ls, [id |-> id, level |-> level])
      OBVIOUS
    <3> HIDE DEF t
    <3>3. RingOf(ls, << >>, id) /\ ps = << >>
      BY <1>1, <2>3
    <3>4. RingOf(t, << >>, id + 1)
      BY <3>2, <3>3, PushShown
    <3>5. /\ h.lines = t /\ h.paused = pz /\ h.pending = << >> /\ h.nextId = id + 1
          /\ h = [lines |-> h.lines, paused |-> h.paused, pending |-> h.pending, nextId |-> h.nextId]
      BY <3>1, <3>3
    <3> QED
      BY <1>1, <3>4, <3>5 DEF RingInv
  <2> QED
    BY <1>1, <2>2, <2>3
<1>5. CASE g.paused /\ h = ResumeRing(g)
  <2> DEFINE t == Flushed(ls, ps)[Len(ps)]
  <2>1. h = [lines |-> t, paused |-> FALSE, pending |-> << >>, nextId |-> id]
    BY <1>2, <1>5 DEF ResumeRing
  <2>2. t = Flushed(ls, ps)[Len(ps)]
    OBVIOUS
  <2> HIDE DEF t
  <2>3. RingOf(t, << >>, id)
    BY <1>1, <2>2, ResumeShows
  <2>4. /\ h.lines = t /\ h.paused = FALSE /\ h.pending = << >> /\ h.nextId = id
        /\ h = [lines |-> h.lines, paused |-> h.paused, pending |-> h.pending, nextId |-> h.nextId]
    BY <2>1
  <2> QED
    BY <2>3, <2>4 DEF RingInv
<1>6. CASE ~g.paused /\ h = PauseRing(g)
  <2>1. h = [lines |-> ls, paused |-> TRUE, pending |-> ps, nextId |-> id]
    BY <1>2, <1>6 DEF PauseRing
  <2>2. /\ h.lines = ls /\ h.paused = TRUE /\ h.pending = ps /\ h.nextId = id
        /\ h = [lines |-> h.lines, paused |-> h.paused, pending |-> h.pending, nextId |-> h.nextId]
    BY <2>1
  <2> QED
    BY <1>1, <2>2 DEF RingInv
<1>7. CASE h = ClearRing(g)
  <2>1. h = [lines |-> << >>, paused |-> pz, pending |-> << >>, nextId |-> id]
    BY <1>2, <1>7 DEF ClearRing
  <2>2. RingOf(<< >>, << >>, id)
    BY <1>1, EmptyRing
  <2>3. /\ h.lines = << >> /\ h.paused = pz /\ h.pending = << >> /\ h.nextId = id
        /\ h = [lines |-> h.lines, paused |-> h.paused, pending |-> h.pending, nextId |-> h.nextId]
    BY <2>1
  <2> QED
    BY <1>1, <2>2, <2>3 DEF RingInv
<1> QED
  BY <1>3, <1>4, <1>5, <1>6, <1>7

\* A ring in order shows no gap.
LEMMA RingShowsNoGap ==
    ASSUME NEW g, RingInv(g)
    PROVE  \A i \in 1..(Len(g.lines) - 1) : g.lines[i + 1].id = g.lines[i].id + 1
<1> DEFINE s == g.lines
           n == Len(s)
<1>1. PICK last \in Int : Consecutive(s, last)
  BY DEF RingInv, RingOf
<1>2. s \in Seq(Line) /\ n \in Nat
  BY DEF RingInv, RingOf
<1>3. \A i \in 1..n : s[i].id = last - n + i
  BY <1>1 DEF Consecutive
<1> HIDE DEF n
<1>4. ASSUME NEW i \in 1..(n - 1) PROVE s[i + 1].id = s[i].id + 1
  <2>1. i \in 1..n /\ i + 1 \in 1..n
    BY <1>2
  <2>2. s[i].id = last - n + i /\ s[i + 1].id = last - n + (i + 1)
    BY <1>3, <2>1
  <2> QED
    BY <1>2, <2>2
<1> QED
  BY <1>4 DEF n

-----------------------------------------------------------------------------
(***************************************************************************)
(* The history of actions: every page goes on where the rows end, whatever is*)
(* recorded in between.                                                    *)
(***************************************************************************)

\* The rows of the first pages are rows.
LEMMA RowsAreRows ==
    ASSUME NEW pages \in Seq(Seq(Nat)), NEW R, R = RowsOfPages(pages), NEW n \in 0..Len(pages)
    PROVE  R[n] \in Seq(Nat)
<1> DEFINE N == Len(pages)
           T == {k \in 0..N : R[k] \notin Seq(Nat)}
<1>1. /\ R[0] = << >> /\ N \in Nat
      /\ \A k \in 1..N : R[k] = RowsBelow(R[k - 1], pages[k])
  BY PagesUnfold
<1>2. N = Len(pages) /\ n \in 0..N
  OBVIOUS
<1> HIDE DEF N
<1>3. CASE T = {}
  BY <1>2, <1>3
<1>4. CASE T # {}
  <2>1. T \subseteq Nat
    OBVIOUS
  <2> HIDE DEF T
  <2>2. PICK k \in T : \A m \in T : k <= m
    BY <1>4, <2>1, LeastNumber
  <2>3. k \in 0..N /\ R[k] \notin Seq(Nat)
    BY <2>2 DEF T
  <2>4. k # 0
    <3>1. << >> \in Seq(Nat)
      OBVIOUS
    <3> QED
      BY <1>1, <2>3, <3>1
  <2>5. k \in 1..N /\ k - 1 \in 0..N /\ k - 1 \notin T
    BY <1>1, <2>2, <2>3, <2>4
  <2>6. R[k - 1] \in Seq(Nat)
    BY <2>5 DEF T
  <2>7. pages[k] \in Seq(Nat)
    BY <1>2, <2>5
  <2>8. R[k] = RowsBelow(R[k - 1], pages[k])
    BY <1>1, <2>5
  <2>9. R[k] \in Seq(Nat)
    BY <2>6, <2>7, <2>8 DEF RowsBelow
  <2> QED
    BY <2>3, <2>9
<1> QED
  BY <1>3, <1>4

\* One more page leaves the rows of the others alone.
LEMMA RowsStay ==
    ASSUME NEW pages \in Seq(Seq(Nat)), NEW page \in Seq(Nat),
           NEW R, R = RowsOfPages(pages), NEW Q, Q = RowsOfPages(Append(pages, page)),
           NEW n \in 0..Len(pages)
    PROVE  Q[n] = R[n]
<1> DEFINE N == Len(pages)
           more == Append(pages, page)
           T == {k \in 0..N : Q[k] # R[k]}
<1>1. /\ R[0] = << >> /\ N \in Nat
      /\ \A k \in 1..N : R[k] = RowsBelow(R[k - 1], pages[k])
  BY PagesUnfold
<1>2. more \in Seq(Seq(Nat)) /\ Len(more) = N + 1 /\ \A k \in 1..N : more[k] = pages[k]
  OBVIOUS
<1>3. N = Len(pages) /\ n \in 0..N /\ Q = RowsOfPages(more)
  OBVIOUS
<1> HIDE DEF N, more
<1>4. Q[0] = << >> /\ \A k \in 1..Len(more) : Q[k] = RowsBelow(Q[k - 1], more[k])
  BY <1>2, <1>3, PagesUnfold
<1>5. CASE T = {}
  BY <1>3, <1>5
<1>6. CASE T # {}
  <2>1. T \subseteq Nat
    OBVIOUS
  <2> HIDE DEF T
  <2>2. PICK k \in T : \A m \in T : k <= m
    BY <1>6, <2>1, LeastNumber
  <2>3. k \in 0..N /\ Q[k] # R[k]
    BY <2>2 DEF T
  <2>4. k # 0
    BY <1>1, <1>4, <2>3
  <2>5. k \in 1..N /\ k - 1 \in 0..N /\ k - 1 \notin T /\ k \in 1..Len(more)
    BY <1>1, <1>2, <2>2, <2>3, <2>4
  <2>6. Q[k - 1] = R[k - 1]
    BY <2>5 DEF T
  <2>7. Q[k] = RowsBelow(Q[k - 1], pages[k]) /\ R[k] = RowsBelow(R[k - 1], pages[k])
    BY <1>1, <1>2, <1>4, <2>5
  <2> QED
    BY <2>3, <2>6, <2>7
<1> QED
  BY <1>5, <1>6

\* The rows of all the pages.
AllRows(pages) == RowsOfPages(pages)[Len(pages)]

\* One more page is added below the rows.
LEMMA PageAdded ==
    ASSUME NEW pages \in Seq(Seq(Nat)), NEW page \in Seq(Nat)
    PROVE  /\ AllRows(pages) \in Seq(Nat)
           /\ AllRows(Append(pages, page)) = AllRows(pages) \o page
<1> DEFINE N == Len(pages)
           more == Append(pages, page)
           R == RowsOfPages(pages)
           Q == RowsOfPages(more)
<1>1. /\ N \in Nat /\ N \in 0..Len(pages) /\ N = Len(pages)
      /\ more \in Seq(Seq(Nat)) /\ Len(more) = N + 1 /\ more[N + 1] = page
      /\ AllRows(pages) = R[N] /\ AllRows(more) = Q[N + 1]
  BY DEF AllRows
<1>2. R = RowsOfPages(pages) /\ Q = RowsOfPages(more) /\ Q = RowsOfPages(Append(pages, page))
  OBVIOUS
<1> HIDE DEF N, R, Q
<1>3. R[N] \in Seq(Nat)
  BY <1>1, <1>2, RowsAreRows
<1>4. Q[N] = R[N]
  BY <1>1, <1>2, RowsStay
<1> HIDE DEF more
<1>5. \A k \in 1..Len(more) : Q[k] = RowsBelow(Q[k - 1], more[k])
  BY <1>1, <1>2, PagesUnfold
<1>6. N + 1 \in 1..Len(more) /\ (N + 1) - 1 = N
  BY <1>1
<1>7. Q[N + 1] = RowsBelow(Q[N], page)
  BY <1>1, <1>5, <1>6
<1> QED
  BY <1>1, <1>3, <1>4, <1>7 DEF RowsBelow, more

\* The last page is at the bottom of the rows.
LEMMA LastPageEnds ==
    ASSUME NEW pages \in Seq(Seq(Nat)), Len(pages) > 0, NEW page, page = pages[Len(pages)],
           Len(page) > 0
    PROVE  /\ page \in Seq(Nat) /\ AllRows(pages) \in Seq(Nat) /\ Len(AllRows(pages)) > 0
           /\ AllRows(pages)[Len(AllRows(pages))] = page[Len(page)]
<1> DEFINE N == Len(pages)
           R == RowsOfPages(pages)
<1>1. /\ N \in Nat /\ N > 0 /\ N \in 0..Len(pages) /\ N - 1 \in 0..Len(pages) /\ N \in 1..Len(pages)
      /\ AllRows(pages) = R[N] /\ page \in Seq(Nat) /\ page = pages[N]
  BY DEF AllRows
<1>2. R = RowsOfPages(pages)
  OBVIOUS
<1> HIDE DEF N, R
<1>3. R[N] \in Seq(Nat) /\ R[N - 1] \in Seq(Nat)
  BY <1>1, <1>2, RowsAreRows
<1>4. \A k \in 1..Len(pages) : R[k] = RowsBelow(R[k - 1], pages[k])
  BY <1>2, PagesUnfold
<1> DEFINE a == R[N - 1]
           b == R[N]
<1>5. b = a \o page /\ a \in Seq(Nat) /\ b \in Seq(Nat)
  BY <1>1, <1>3, <1>4 DEF RowsBelow
<1> HIDE DEF a, b
<1>6. /\ Len(b) = Len(a) + Len(page) /\ Len(a) \in Nat /\ Len(page) \in Nat
      /\ Len(b) \in 1..(Len(a) + Len(page)) /\ Len(b) > Len(a) /\ Len(b) - Len(a) = Len(page)
  BY <1>1, <1>5
<1>7. b[Len(b)] = page[Len(b) - Len(a)]
  BY <1>1, <1>5, <1>6
<1> QED
  BY <1>1, <1>3, <1>6, <1>7 DEF b

\* The rows of e go back one action at a time from `top`.
Falls(e, top) == \A i \in 1..Len(e) : e[i] = top + 1 - i

\* The history read so far: it goes back one action at a time, and a page is
\* asked for only below a row.
AuditInv(a) ==
    /\ a = [log |-> a.log, pages |-> a.pages, busy |-> a.busy, failed |-> a.failed]
    /\ a.log \in Nat /\ a.pages \in Seq(Seq(Nat))
    /\ \E top \in Int : Falls(AllRows(a.pages), top)
    /\ a.busy = "more" => NextPageParam(a) # 0

\* The newest action below a cursor.
NewestBelow(log, before) == IF before = 0 THEN log ELSE before - 1

\* A page the server answers.
LEMMA PageFalls ==
    ASSUME NEW log \in Nat, NEW before \in Nat, NEW page, page = AuditPage(log, before)
    PROVE  /\ page \in Seq(Nat)
           /\ \A i \in 1..Len(page) : page[i] = NewestBelow(log, before) + 1 - i
<1> DEFINE newest == IF before = 0 THEN log ELSE before - 1
           n == IF newest < PageSize THEN newest ELSE PageSize
<1>1. newest \in Nat /\ n \in Nat /\ n <= newest
  <2>1. PageSize \in Nat /\ newest \in Nat
    BY LogStreamAssumption
  <2> QED
    BY <2>1
<1>2. page = [i \in 1..n |-> newest + 1 - i]
  BY DEF AuditPage
<1> HIDE DEF newest, n
<1>3. \A i \in 1..n : newest + 1 - i \in Nat
  BY <1>1
<1>4. page \in [1..n -> Nat]
  BY <1>2, <1>3
<1>5. page \in Seq(Nat) /\ Len(page) = n
  BY <1>1, <1>4
<1>6. \A i \in 1..Len(page) : page[i] = newest + 1 - i
  BY <1>2, <1>5
<1> QED
  BY <1>5, <1>6 DEF newest, NewestBelow

\* One page alone.
LEMMA OnePageRows ==
    ASSUME NEW page \in Seq(Nat)
    PROVE  << page >> \in Seq(Seq(Nat)) /\ AllRows(<< page >>) = page
<1> DEFINE none == << >>
<1>1. none \in Seq(Seq(Nat)) /\ Append(none, page) = << page >> /\ Len(none) = 0
  OBVIOUS
<1>2. AllRows(none) = << >>
  <2>1. RowsOfPages(none)[0] = << >>
    BY <1>1, PagesUnfold
  <2> QED
    BY <1>1, <2>1 DEF AllRows
<1>3. none \in Seq(Seq(Nat))
  BY <1>1
<1> HIDE DEF none
<1>4. AllRows(Append(none, page)) = AllRows(none) \o page
  BY <1>3, PageAdded
<1>5. << >> \o page = page
  OBVIOUS
<1> QED
  BY <1>1, <1>2, <1>4, <1>5

\* A page is asked for below the last row read.
LEMMA AskedBelow ==
    ASSUME NEW a, AuditInv(a), NEW c, c = NextPageParam(a), c # 0,
           NEW e, e = AllRows(a.pages)
    PROVE  c \in Nat /\ e \in Seq(Nat) /\ Len(e) > 0 /\ e[Len(e)] = c
<1> DEFINE pages == a.pages
           page == Last(pages)
<1>1. pages \in Seq(Seq(Nat)) /\ PageSize \in Nat \ {0}
  BY LogStreamAssumption DEF AuditInv
<1>2. pages # << >> /\ ~(Len(page) < PageSize) /\ c = Last(page)
  BY DEF NextPageParam
<1>3. Len(pages) > 0 /\ Len(pages) \in Nat /\ page = pages[Len(pages)]
  BY <1>1, <1>2 DEF Last
<1>4. page \in Seq(Nat)
  BY <1>1, <1>3
<1>5. Len(page) \in Nat /\ Len(page) > 0
  BY <1>1, <1>2, <1>4
<1>6. c = page[Len(page)] /\ c \in Nat
  BY <1>2, <1>4, <1>5 DEF Last
<1>7. e = AllRows(pages)
  OBVIOUS
<1> HIDE DEF page, pages
<1>8. /\ AllRows(pages) \in Seq(Nat) /\ Len(AllRows(pages)) > 0
      /\ AllRows(pages)[Len(AllRows(pages))] = page[Len(page)]
  BY <1>1, <1>3, <1>5, LastPageEnds
<1> QED
  BY <1>6, <1>7, <1>8

\* The next page goes on where the rows end.
LEMMA MoreFalls ==
    ASSUME NEW e \in Seq(Nat), NEW page \in Seq(Nat), NEW top \in Int, Falls(e, top),
           NEW c \in Nat, Len(e) > 0, e[Len(e)] = c,
           \A i \in 1..Len(page) : page[i] = c - i
    PROVE  Falls(e \o page, top)
<1> DEFINE n == Len(e)
           m == Len(page)
           r == e \o page
<1>1. /\ n \in Nat /\ m \in Nat /\ n > 0 /\ Len(r) = n + m
      /\ \A i \in 1..n : r[i] = e[i]
      /\ \A i \in 1..m : r[n + i] = page[i]
  OBVIOUS
<1>2. (\A i \in 1..n : e[i] = top + 1 - i) /\ (\A i \in 1..m : page[i] = c - i) /\ e[n] = c
  BY DEF Falls
<1> HIDE DEF n, m, r
<1>3. c = top + 1 - n
  BY <1>1, <1>2
<1>4. ASSUME NEW i \in 1..(n + m) PROVE r[i] = top + 1 - i
  <2>1. CASE i <= n
    <3>1. i \in 1..n
      BY <1>1, <2>1
    <3> QED
      BY <1>1, <1>2, <3>1
  <2>2. CASE ~(i <= n)
    <3> DEFINE j == i - n
    <3>1. j \in 1..m /\ n + j = i
      BY <1>1, <2>2
    <3>2. c - j = top + 1 - i
      BY <1>1, <1>3
    <3> HIDE DEF j
    <3>3. r[n + j] = c - j
      BY <1>1, <1>2, <3>1
    <3> QED
      BY <3>1, <3>2, <3>3
  <2> QED
    BY <2>1, <2>2
<1> QED
  BY <1>1, <1>4 DEF Falls, r

\* The history before its first page.
LEMMA FirstAudit == AuditInv(NewAudit)
<1> DEFINE none == << >>
<1>1. none \in Seq(Seq(Nat)) /\ Len(none) = 0
  OBVIOUS
<1>2. AllRows(none) = << >>
  <2>1. RowsOfPages(none)[0] = << >>
    BY <1>1, PagesUnfold
  <2> QED
    BY <1>1, <2>1 DEF AllRows
<1>3. Falls(<< >>, 0) /\ 0 \in Int
  BY DEF Falls
<1>4. /\ NewAudit.log = 0 /\ NewAudit.pages = none /\ NewAudit.busy = "first"
      /\ NewAudit = [log |-> NewAudit.log, pages |-> NewAudit.pages,
                     busy |-> NewAudit.busy, failed |-> NewAudit.failed]
  BY DEF NewAudit
<1> QED
  BY <1>1, <1>2, <1>3, <1>4 DEF AuditInv

\* Whatever does not touch the pages leaves the rows and the cursor alone.
LEMMA PagesKept ==
    ASSUME NEW a, AuditInv(a), NEW b, NEW log \in Nat, NEW busy, NEW failed,
           b = [log |-> log, pages |-> a.pages, busy |-> busy, failed |-> failed],
           busy = "more" => NextPageParam(a) # 0
    PROVE  AuditInv(b)
<1>1. b.log = log /\ b.pages = a.pages /\ b.busy = busy /\ b.failed = failed
  OBVIOUS
<1>2. NextPageParam(b) = NextPageParam(a)
  BY <1>1 DEF NextPageParam
<1>3. a.pages \in Seq(Seq(Nat)) /\ \E top \in Int : Falls(AllRows(a.pages), top)
  BY DEF AuditInv
<1>4. b = [log |-> b.log, pages |-> b.pages, busy |-> b.busy, failed |-> b.failed]
  BY <1>1
<1> QED
  BY <1>1, <1>2, <1>3, <1>4 DEF AuditInv

\* A page arrives: the first, or one more.
LEMMA PageArrives ==
    ASSUME NEW a, AuditInv(a), NEW b, NEW page,
           page = AuditPage(a.log, IF a.busy = "first" THEN 0 ELSE NextPageParam(a)),
           a.busy # "none", a.busy \in {"none", "first", "more"},
           b = [log |-> a.log, pages |-> IF a.busy = "first" THEN << page >> ELSE Append(a.pages, page),
                busy |-> "none", failed |-> FALSE]
    PROVE  AuditInv(b)
<1> DEFINE rows == AllRows(a.pages)
           c == NextPageParam(a)
           log == a.log
<1>1. log \in Nat /\ a.pages \in Seq(Seq(Nat)) /\ (a.busy = "more" => c # 0)
  BY DEF AuditInv
<1>2. b.log = log /\ b.busy = "none" /\ b.failed = FALSE
  OBVIOUS
<1>3. b = [log |-> b.log, pages |-> b.pages, busy |-> b.busy, failed |-> b.failed]
  OBVIOUS
<1>4. CASE a.busy = "first"
  <2>1. page = AuditPage(log, 0) /\ 0 \in Nat /\ b.pages = << page >>
    BY <1>4
  <2>2. page \in Seq(Nat) /\ \A i \in 1..Len(page) : page[i] = NewestBelow(log, 0) + 1 - i
    BY <1>1, <2>1, PageFalls
  <2>3. << page >> \in Seq(Seq(Nat)) /\ AllRows(<< page >>) = page
    BY <2>2, OnePageRows
  <2>4. Falls(page, log) /\ log \in Int
    BY <1>1, <2>2 DEF Falls, NewestBelow
  <2> QED
    BY <1>1, <1>2, <1>3, <2>1, <2>3, <2>4 DEF AuditInv
<1>5. CASE a.busy # "first"
  <2>1. c # 0 /\ page = AuditPage(log, c) /\ b.pages = Append(a.pages, page)
    BY <1>1, <1>5
  <2>2. PICK top \in Int : Falls(rows, top)
    BY DEF AuditInv
  <2>3. c = NextPageParam(a) /\ rows = AllRows(a.pages)
    OBVIOUS
  <2> HIDE DEF c, rows
  <2>11. c # 0 /\ AuditInv(a)
    BY <2>1
  <2>4. c \in Nat /\ rows \in Seq(Nat) /\ Len(rows) > 0 /\ rows[Len(rows)] = c
    BY <2>3, <2>11, AskedBelow
  <2>5. page \in Seq(Nat) /\ \A i \in 1..Len(page) : page[i] = NewestBelow(log, c) + 1 - i
    <3>1. log \in Nat /\ c \in Nat /\ page = AuditPage(log, c)
      BY <1>1, <2>1, <2>4
    <3> HIDE DEF log
    <3>2. PICK p : p = page
      OBVIOUS
    <3>3. p = AuditPage(log, c)
      BY <3>1, <3>2
    <3>4. p \in Seq(Nat)
      BY <3>1, <3>3, PageFalls, Zenon
    <3>5. \A i \in 1..Len(p) : p[i] = NewestBelow(log, c) + 1 - i
      BY <3>1, <3>3, PageFalls, Zenon
    <3> QED
      BY <3>2, <3>4, <3>5
  <2>6. \A i \in 1..Len(page) : page[i] = c - i
    <3>1. c \in Int /\ c # 0 /\ Len(page) \in Nat
      BY <2>1, <2>4, <2>5
    <3>2. \A i \in 1..Len(page) : i \in Int /\ (c - 1) + 1 - i = c - i
      BY <3>1
    <3> QED
      BY <2>5, <3>1, <3>2 DEF NewestBelow
  <2>7. Falls(rows \o page, top)
    BY <2>2, <2>4, <2>5, <2>6, MoreFalls
  <2>8. AllRows(Append(a.pages, page)) = AllRows(a.pages) \o page
    BY <1>1, <2>5, PageAdded
  <2>9. Append(a.pages, page) \in Seq(Seq(Nat))
    BY <1>1, <2>5
  <2> QED
    BY <1>1, <1>2, <1>3, <2>1, <2>2, <2>3, <2>7, <2>8, <2>9 DEF AuditInv
<1> QED
  BY <1>4, <1>5

\* Rows that fall skip no action.
LEMMA HistoryHasNoGap ==
    ASSUME NEW a, AuditInv(a), NEW e, e = AuditEntries(a)
    PROVE  \A i \in 1..(Len(e) - 1) : e[i + 1] = e[i] - 1
<1> DEFINE n == Len(e)
<1>1. e = AllRows(a.pages)
  BY DEF AuditEntries, AllRows
<1>2. PICK top \in Int : Falls(e, top)
  BY <1>1 DEF AuditInv
<1>3. e \in Seq(Nat) /\ n \in Nat
  <2>1. a.pages \in Seq(Seq(Nat)) /\ << >> \in Seq(Nat)
    BY DEF AuditInv
  <2>2. AllRows(a.pages) \in Seq(Nat)
    BY <2>1, PageAdded
  <2> QED
    BY <1>1, <2>2
<1>4. \A i \in 1..n : e[i] = top + 1 - i
  BY <1>2 DEF Falls
<1> HIDE DEF n
<1>5. ASSUME NEW i \in 1..(n - 1) PROVE e[i + 1] = e[i] - 1
  <2>1. i \in 1..n /\ i + 1 \in 1..n
    BY <1>3
  <2>2. e[i] = top + 1 - i /\ e[i + 1] = top + 1 - (i + 1)
    BY <1>4, <2>1
  <2> QED
    BY <1>3, <2>2
<1> QED
  BY <1>5 DEF n

-----------------------------------------------------------------------------
(***************************************************************************)
(* The page.                                                               *)
(***************************************************************************)

\* The journal's feed and history are in order.
JournalInOrder == RingInv(ring) /\ AuditInv(audit) /\ audit.busy \in {"none", "first", "more"}

\* The page opens with neither.
LEMMA OpensInOrder == JournalInit => JournalInOrder
<1> SUFFICES ASSUME JournalInit PROVE JournalInOrder
  OBVIOUS
<1>1. ring = NewRing /\ audit = NewAudit
  BY DEF JournalInit
<1>2. RingInv(NewRing)
  <2>1. RingOf(<< >>, << >>, 1)
    BY EmptyRing
  <2> QED
    BY <2>1 DEF RingInv, NewRing
<1>3. NewAudit.busy = "first"
  BY DEF NewAudit
<1> QED
  BY <1>1, <1>2, <1>3, FirstAudit DEF JournalInOrder

\* Every step of the page keeps them in order.
LEMMA StaysInOrder == JournalInOrder /\ JournalNext => JournalInOrder'
<1> SUFFICES ASSUME JournalInOrder, JournalNext PROVE JournalInOrder'
  OBVIOUS
<1>1. RingInv(ring) /\ AuditInv(audit) /\ audit.busy \in {"none", "first", "more"}
  BY DEF JournalInOrder
\* What a step does to the ring and to the history.
<1>2. \/ ring' = ring
      \/ ring' = NewRing \/ \E level \in LineKinds : ring' = PushLine(ring, level)
      \/ ring' = IF ring.paused THEN ResumeRing(ring) ELSE PauseRing(ring)
      \/ ring' = ClearRing(ring)
  BY DEF JournalNext, HostAnswers, SwitchService, OpenEvent, HeartbeatEvent,
         StaleTimer, LogEndEvent, LogEvent, SourceErrorEvent, ErrorEvent,
         ProbeAnswer, RetryAfterPasses, ReconnectTimer, RetryButton,
         TogglePause, ClearButton, VisibilityChange, PressLevel, TypeSearch,
         SetMode, Scroll, ShowEarlierButton, TailButtonPressed, TailAnswer,
         ActionRecorded, AuditAnswer, AuditFails, AuditRetry, FetchNextPage,
         Streams, Filters, Lists, Audits, MountViewer, logVars
<1>3. \/ audit' = audit
      \/ ActionRecorded \/ AuditAnswer \/ AuditFails \/ AuditRetry \/ FetchNextPage
  BY DEF JournalNext, HostAnswers, SwitchService, OpenEvent, HeartbeatEvent,
         StaleTimer, LogEndEvent, LogEvent, SourceErrorEvent, ErrorEvent,
         ProbeAnswer, RetryAfterPasses, ReconnectTimer, RetryButton,
         TogglePause, ClearButton, VisibilityChange, PressLevel, TypeSearch,
         SetMode, Scroll, ShowEarlierButton, TailButtonPressed, TailAnswer,
         Streams, Filters, Lists, MountViewer
<1>4. RingInv(ring')
  <2>1. CASE ring' = ring
    BY <1>1, <2>1
  <2>2. CASE ring' # ring
    <3>1. ring.paused \in BOOLEAN
      BY <1>1 DEF RingInv
    <3>2. \/ ring' = NewRing \/ \E level \in LineKinds : ring' = PushLine(ring, level)
          \/ ring.paused /\ ring' = ResumeRing(ring)
          \/ ~ring.paused /\ ring' = PauseRing(ring)
          \/ ring' = ClearRing(ring)
      BY <1>2, <2>2, <3>1
    <3> QED
      BY <1>1, <3>2, RingSteps
  <2> QED
    BY <2>1, <2>2
<1>5. AuditInv(audit') /\ audit'.busy \in {"none", "first", "more"}
  <2>0. /\ audit = [log |-> audit.log, pages |-> audit.pages, busy |-> audit.busy, failed |-> audit.failed]
        /\ audit.log \in Nat /\ (audit.busy = "more" => NextPageParam(audit) # 0)
    BY <1>1 DEF AuditInv
  <2>1. CASE audit' = audit
    BY <1>1, <2>1
  <2>2. CASE ActionRecorded
    <3>1. audit' = [audit EXCEPT !.log = @ + 1]
      BY <2>2 DEF ActionRecorded, Audits
    <3>2. audit' = [log |-> audit.log + 1, pages |-> audit.pages, busy |-> audit.busy, failed |-> audit.failed]
      BY <2>0, <3>1
    <3>3. audit.log + 1 \in Nat /\ audit'.busy = audit.busy
      BY <2>0, <3>2
    <3> QED
      BY <1>1, <2>0, <3>2, <3>3, PagesKept
  <2>3. CASE AuditAnswer
    <3> DEFINE cursor == IF audit.busy = "first" THEN 0 ELSE NextPageParam(audit)
               page == AuditPage(audit.log, cursor)
    <3>1. /\ audit.busy # "none"
          /\ audit' = [audit EXCEPT !.busy = "none", !.failed = FALSE,
                        !.pages = IF audit.busy = "first" THEN <<page>> ELSE Append(@, page)]
      BY <2>3 DEF AuditAnswer, Audits
    <3>2. audit' = [log |-> audit.log,
                    pages |-> IF audit.busy = "first" THEN << page >> ELSE Append(audit.pages, page),
                    busy |-> "none", failed |-> FALSE]
      BY <2>0, <3>1
    <3>3. page = AuditPage(audit.log, IF audit.busy = "first" THEN 0 ELSE NextPageParam(audit))
      OBVIOUS
    <3>4. audit'.busy = "none"
      BY <3>2
    <3> HIDE DEF page, cursor
    <3>5. AuditInv(audit')
      BY <1>1, <3>1, <3>2, <3>3, PageArrives
    <3> QED
      BY <3>4, <3>5
  <2>4. CASE AuditFails
    <3>1. audit' = [audit EXCEPT !.busy = "none", !.failed = TRUE]
      BY <2>4 DEF AuditFails, Audits
    <3>2. audit' = [log |-> audit.log, pages |-> audit.pages, busy |-> "none", failed |-> TRUE]
      BY <2>0, <3>1
    <3>3. audit'.busy = "none"
      BY <3>2
    <3>4. AuditInv(audit')
      BY <1>1, <2>0, <3>2, PagesKept
    <3> QED
      BY <3>3, <3>4
  <2>5. CASE AuditRetry
    <3>1. audit' = [audit EXCEPT !.busy = "first"]
      BY <2>5 DEF AuditRetry, Audits
    <3>2. audit' = [log |-> audit.log, pages |-> audit.pages, busy |-> "first", failed |-> audit.failed]
      BY <2>0, <3>1
    <3>3. audit'.busy = "first"
      BY <3>2
    <3>4. AuditInv(audit')
      BY <1>1, <2>0, <3>2, PagesKept
    <3> QED
      BY <3>3, <3>4
  <2>6. CASE FetchNextPage
    <3>1. NextPageParam(audit) # 0 /\ audit' = [audit EXCEPT !.busy = "more"]
      BY <2>6 DEF FetchNextPage, Audits
    <3>2. audit' = [log |-> audit.log, pages |-> audit.pages, busy |-> "more", failed |-> audit.failed]
      BY <2>0, <3>1
    <3>3. audit'.busy = "more"
      BY <3>2
    <3>4. AuditInv(audit')
      BY <1>1, <2>0, <3>1, <3>2, PagesKept
    <3> QED
      BY <3>3, <3>4
  <2> QED
    BY <1>3, <2>1, <2>2, <2>3, <2>4, <2>5, <2>6
<1> QED
  BY <1>4, <1>5 DEF JournalInOrder

\* What is in order has no gaps.
LEMMA InOrderHasNoGaps == JournalInOrder => NoGaps
<1> SUFFICES ASSUME JournalInOrder PROVE NoGaps
  OBVIOUS
<1>1. \A i \in 1..(Len(ring.lines) - 1) : ring.lines[i + 1].id = ring.lines[i].id + 1
  BY RingShowsNoGap DEF JournalInOrder
<1> DEFINE e == AuditEntries(audit)
<1>2. e = AuditEntries(audit) /\ AuditInv(audit)
  BY DEF JournalInOrder
<1> HIDE DEF e
<1>3. \A i \in 1..(Len(e) - 1) : e[i + 1] = e[i] - 1
  BY <1>2, HistoryHasNoGap
<1> QED
  BY <1>1, <1>3 DEF NoGaps, e

-----------------------------------------------------------------------------
(***************************************************************************)
(* The counters page: the answers it keeps to compare are of one run of Telemt,*)
(* however renders, resets and restarts interleave, unless a restart passed*)
(* unseen.                                                                 *)
(***************************************************************************)

\* The counters the page compares.
Connections == "core.connections_total"
Timeouts == "core.handshake_timeouts_total"
TimeoutClass == "core.connections_bad_by_class.timeout"

\* An answer: its values are of known paths, the total of connections and the
\* breakdown among them.
Answered(r) ==
    /\ Connections \in DOMAIN r.values /\ TimeoutClass \in DOMAIN r.values
    /\ DOMAIN r.values \subseteq CounterPaths
    /\ \A p \in DOMAIN r.values : r.values[p] \in Int
    /\ r.at > 0

\* What the page keeps of the answers: while no restart passed unseen, the last
\* two and the baseline are of one run.
DeltasOf(cur, prev, base, unseen) ==
    /\ cur = NoReading \/ Answered(cur)
    /\ prev = NoReading \/ Answered(prev)
    /\ base = NoReading \/ Answered(base)
    /\ cur = NoReading => prev = NoReading /\ base = NoReading
    /\ ~unseen /\ prev # NoReading => prev.run = cur.run
    /\ ~unseen /\ base # NoReading => base.run = cur.run

\* The proxy's counters.
ZeroInv(z) ==
    /\ DOMAIN z = {"run", "up", "value", "known"}
    /\ z.value \in [CounterPaths -> Int]
    /\ z.known \subseteq CounterPaths /\ Connections \in z.known /\ TimeoutClass \in z.known

DeltaFields == {"atMs", "current", "previous", "baseline", "token", "restarted", "reset",
                "tab", "filter", "status", "unseen"}
CountersInv ==
    /\ ZeroInv(zero) /\ ctrTime \in Nat /\ DOMAIN deltas = DeltaFields
    /\ deltas.unseen \in BOOLEAN
    /\ DeltasOf(deltas.current, deltas.previous, deltas.baseline, deltas.unseen)

\* The page opens with no answer.
LEMMA CountersOpen == CountersInit => CountersInv
<1> SUFFICES ASSUME CountersInit PROVE CountersInv
  OBVIOUS
<1>1. ZeroInv(zero) /\ ctrTime \in Nat
  BY DEF CountersInit, ZeroInv, CounterPaths, Scalars, Breakdown, Connections, Timeouts, TimeoutClass
<1>2. deltas = EmptyDeltas
  BY DEF CountersInit
<1>3. /\ DOMAIN deltas = DeltaFields /\ deltas.unseen = FALSE
      /\ deltas.current = NoReading /\ deltas.previous = NoReading /\ deltas.baseline = NoReading
  BY <1>2 DEF EmptyDeltas, DeltaFields
<1>4. DeltasOf(NoReading, NoReading, NoReading, FALSE)
  BY DEF DeltasOf
<1> QED
  BY <1>1, <1>3, <1>4 DEF CountersInv

\* The proxy moves on, or starts anew.
LEMMA ZeroMoves == ZeroInv(zero) /\ CountersMove => ZeroInv(zero')
<1> SUFFICES ASSUME ZeroInv(zero), CountersMove PROVE ZeroInv(zero')
  OBVIOUS
<1>0. /\ Connections \in CounterPaths /\ Timeouts \in CounterPaths /\ TimeoutClass \in CounterPaths
      /\ CounterPaths = {Connections, Timeouts, TimeoutClass}
      /\ Connections # Timeouts /\ TimeoutClass # Timeouts /\ Connections # TimeoutClass
  BY DEF CounterPaths, Scalars, Breakdown, Connections, Timeouts, TimeoutClass
<1>1. CASE \E grown \in SUBSET CounterPaths :
             zero' = [zero EXCEPT !.up = @ + 1, !.known = CounterPaths,
                                  !.value = [p \in CounterPaths |-> @[p] + IF p \in grown THEN 1 ELSE 0]]
  <2>1. PICK grown \in SUBSET CounterPaths :
             zero' = [zero EXCEPT !.up = @ + 1, !.known = CounterPaths,
                                  !.value = [p \in CounterPaths |-> @[p] + IF p \in grown THEN 1 ELSE 0]]
    BY <1>1
  <2> DEFINE old == zero.value
             new == [p \in CounterPaths |-> old[p] + IF p \in grown THEN 1 ELSE 0]
  <2>2. old \in [CounterPaths -> Int]
    BY DEF ZeroInv
  <2>3. zero'.value = new /\ zero'.known = CounterPaths /\ DOMAIN zero' = DOMAIN zero
    BY <2>1 DEF ZeroInv
  <2>4. new \in [CounterPaths -> Int]
    BY <2>2
  <2> QED
    BY <1>0, <2>3, <2>4 DEF ZeroInv
<1>2. CASE \E known \in {CounterPaths, CounterPaths \ {Timeouts}} :
             zero' = [run |-> zero.run + 1, up |-> 0, value |-> [p \in CounterPaths |-> 0], known |-> known]
  <2>1. PICK known \in {CounterPaths, CounterPaths \ {Timeouts}} :
             zero' = [run |-> zero.run + 1, up |-> 0, value |-> [p \in CounterPaths |-> 0], known |-> known]
    BY <1>2
  <2>2. /\ zero'.value = [p \in CounterPaths |-> 0] /\ zero'.known = known
        /\ DOMAIN zero' = {"run", "up", "value", "known"}
    BY <2>1
  <2> QED
    BY <1>0, <2>2 DEF ZeroInv
<1> QED
  BY <1>1, <1>2 DEF CountersMove, Connections, Timeouts

\* What the poll answers.
LEMMA PollAnswers ==
    ASSUME ZeroInv(zero), NEW r, NEW at, at \in Nat, at > 0,
           r = [run |-> zero.run, up |-> zero.up, at |-> at, values |-> ReadCounterValues]
    PROVE  Answered(r) /\ r # NoReading /\ r.run = zero.run
<1>1. r.values = [p \in zero.known |-> zero.value[p]] /\ r.at = at
  BY DEF ReadCounterValues
<1>2. r # NoReading
  BY <1>1 DEF NoReading
<1>3. zero.value \in [CounterPaths -> Int]
  BY DEF ZeroInv
<1>4. Answered(r)
  BY <1>1, <1>3 DEF Answered, ZeroInv
<1> QED
  BY <1>2, <1>4

\* A new answer is taken in.
LEMMA Takes ==
    ASSUME NEW cur, NEW prev, NEW base, NEW unseen \in BOOLEAN, DeltasOf(cur, prev, base, unseen),
           NEW r, Answered(r), r # NoReading, NEW restarted, restarted = CountersRestarted(cur, r),
           NEW prev2, prev2 = IF restarted THEN NoReading ELSE cur,
           NEW base2, base2 = IF restarted \/ base = NoReading THEN r ELSE base,
           NEW unseen2, unseen2 = (~restarted /\ (unseen \/ (cur # NoReading /\ cur.run # r.run)))
    PROVE  DeltasOf(r, prev2, base2, unseen2)
<1>0. restarted \in BOOLEAN
  BY DEF CountersRestarted
<1>1. CASE restarted
  BY <1>1 DEF DeltasOf
<1>2. CASE ~restarted
  <2>1. prev2 = cur /\ base2 = IF base = NoReading THEN r ELSE base
    BY <1>2
  <2>2. ~unseen2 => ~unseen /\ (cur # NoReading => cur.run = r.run)
    BY <1>2
  <2>3. base # NoReading => cur # NoReading
    BY DEF DeltasOf
  <2> QED
    BY <2>1, <2>2, <2>3 DEF DeltasOf
<1> QED
  BY <1>0, <1>1, <1>2

\* A reset anchors the changes on the last answer.
LEMMA Resets ==
    ASSUME NEW cur, NEW prev, NEW base, NEW unseen, DeltasOf(cur, prev, base, unseen)
    PROVE  DeltasOf(cur, prev, cur, unseen)
  BY DEF DeltasOf

\* One render keeps what the page keeps of the answers.
LEMMA CountersRenderKeeps ==
    ASSUME CountersInv, CountersRender
    PROVE  CountersInv'
<1>1. PICK answered \in BOOLEAN, reset \in BOOLEAN :
        LET reading == [run |-> zero.run, up |-> zero.up, at |-> ctrTime + 1, values |-> ReadCounterValues]
            pressed == [deltas EXCEPT !.reset = (@ + IF reset THEN 1 ELSE 0) % 2]
            taken == [TakeReading(pressed, reading) EXCEPT
                        !.status = "ready",
                        !.unseen = /\ ~CountersRestarted(pressed.current, reading)
                                   /\ \/ pressed.unseen
                                      \/ pressed.current # NoReading /\ pressed.current.run # reading.run]
        IN /\ deltas' = FollowReset(IF answered THEN taken ELSE pressed)
           /\ UNCHANGED <<zero, ctrTime>>
  BY Zenon DEF CountersRender
<1> DEFINE reading == [run |-> zero.run, up |-> zero.up, at |-> ctrTime + 1, values |-> ReadCounterValues]
           pressed == [deltas EXCEPT !.reset = (@ + IF reset THEN 1 ELSE 0) % 2]
           unseen2 == /\ ~CountersRestarted(pressed.current, reading)
                      /\ \/ pressed.unseen
                         \/ pressed.current # NoReading /\ pressed.current.run # reading.run
           took == TakeReading(pressed, reading)
           taken == [took EXCEPT !.status = "ready", !.unseen = unseen2]
           held == IF answered THEN taken ELSE pressed
<1>2. deltas' = FollowReset(held) /\ UNCHANGED <<zero, ctrTime>>
  BY <1>1, Zenon
<1>3. /\ ZeroInv(zero) /\ ctrTime \in Nat /\ DOMAIN deltas = DeltaFields /\ deltas.unseen \in BOOLEAN
      /\ DeltasOf(deltas.current, deltas.previous, deltas.baseline, deltas.unseen)
  BY DEF CountersInv
<1>4. /\ DOMAIN pressed = DeltaFields /\ pressed.unseen = deltas.unseen
      /\ pressed.current = deltas.current /\ pressed.previous = deltas.previous
      /\ pressed.baseline = deltas.baseline
  BY <1>3 DEF DeltaFields
<1>5. reading = [run |-> zero.run, up |-> zero.up, at |-> ctrTime + 1, values |-> ReadCounterValues]
  OBVIOUS
<1> HIDE DEF pressed, reading
<1>6. Answered(reading) /\ reading # NoReading
  BY <1>3, <1>5, PollAnswers
<1> DEFINE cur == pressed.current
           prev == pressed.previous
           base == pressed.baseline
           restarted == CountersRestarted(cur, reading)
           prev2 == IF restarted THEN NoReading ELSE cur
           base2 == IF restarted \/ base = NoReading THEN reading ELSE base
<1>7. /\ DOMAIN took = DeltaFields
      /\ took.current = reading /\ took.previous = prev2 /\ took.baseline = base2
  BY <1>4 DEF TakeReading, DeltaFields
<1> HIDE DEF took
<1>8. /\ DOMAIN taken = DeltaFields /\ taken.unseen = unseen2
      /\ taken.current = reading /\ taken.previous = prev2 /\ taken.baseline = base2
  BY <1>7 DEF DeltaFields
<1>9. unseen2 \in BOOLEAN
  <2>1. CASE unseen2
    BY <2>1, Zenon
  <2>2. CASE ~unseen2
    BY <2>2, Zenon
  <2> QED
    BY <1>3, <1>4, Zenon DEF CountersRestarted
<1>10. DeltasOf(reading, prev2, base2, unseen2)
  <2>1. DeltasOf(cur, prev, base, pressed.unseen) /\ pressed.unseen \in BOOLEAN
    BY <1>3, <1>4
  <2>2. unseen2 = (~restarted /\ (pressed.unseen \/ (cur # NoReading /\ cur.run # reading.run)))
    OBVIOUS
  <2> DEFINE u == pressed.unseen
  <2>3. /\ restarted = CountersRestarted(cur, reading)
        /\ prev2 = IF restarted THEN NoReading ELSE cur
        /\ base2 = IF restarted \/ base = NoReading THEN reading ELSE base
        /\ unseen2 = (~restarted /\ (u \/ (cur # NoReading /\ cur.run # reading.run)))
        /\ DeltasOf(cur, prev, base, u) /\ u \in BOOLEAN
    BY <2>1, <2>2
  <2> HIDE DEF restarted, prev2, base2, unseen2, cur, prev, base, u
  <2> QED
    BY <1>6, <2>3, Takes
<1> HIDE DEF taken, unseen2, prev2, base2
<1>11. /\ DOMAIN held = DeltaFields /\ held.unseen \in BOOLEAN
       /\ DeltasOf(held.current, held.previous, held.baseline, held.unseen)
  <2>1. CASE answered
    <3>1. held = taken
      BY <2>1
    <3> QED
      BY <1>8, <1>9, <1>10, <3>1
  <2>2. CASE ~answered
    <3>1. held = pressed
      BY <2>2
    <3> QED
      BY <1>3, <1>4, <3>1
  <2> QED
    BY <2>1, <2>2
<1> HIDE DEF held
<1>12. /\ DOMAIN FollowReset(held) = DeltaFields /\ FollowReset(held).unseen = held.unseen
       /\ FollowReset(held).current = held.current /\ FollowReset(held).previous = held.previous
       /\ FollowReset(held).baseline \in {held.baseline, held.current}
  BY <1>11 DEF FollowReset, DeltaFields
<1>13. DeltasOf(held.current, held.previous, held.current, held.unseen)
  BY <1>11, Resets
<1>14. /\ DOMAIN deltas' = DeltaFields /\ deltas'.unseen \in BOOLEAN
       /\ DeltasOf(deltas'.current, deltas'.previous, deltas'.baseline, deltas'.unseen)
  BY <1>2, <1>11, <1>12, <1>13
<1> QED
  BY <1>2, <1>3, <1>14 DEF CountersInv

\* Every step of the page.
LEMMA CountersSteps == CountersInv /\ CountersNext => CountersInv'
<1> SUFFICES ASSUME CountersInv, CountersNext PROVE CountersInv'
  OBVIOUS
<1>0. /\ ZeroInv(zero) /\ ctrTime \in Nat /\ DOMAIN deltas = DeltaFields /\ deltas.unseen \in BOOLEAN
      /\ DeltasOf(deltas.current, deltas.previous, deltas.baseline, deltas.unseen)
  BY DEF CountersInv
<1>1. CASE CountersMove
  <2>1. ZeroInv(zero')
    BY <1>0, <1>1, ZeroMoves
  <2>2. ctrTime' = ctrTime + 1 /\ deltas' = deltas
    BY <1>1 DEF CountersMove
  <2> QED
    BY <1>0, <2>1, <2>2 DEF CountersInv
<1>2. CASE CountersRender
  BY <1>2, CountersRenderKeeps
<1>3. CASE CountersFail \/ CountersTab
  <2>1. \E f \in {"status", "tab", "filter"} : \E v : deltas' = [deltas EXCEPT ![f] = v]
    BY <1>3 DEF CountersFail, CountersTab
  <2>2. /\ DOMAIN deltas' = DeltaFields /\ deltas'.current = deltas.current
        /\ deltas'.previous = deltas.previous /\ deltas'.baseline = deltas.baseline
        /\ deltas'.unseen = deltas.unseen
    BY <1>0, <2>1 DEF DeltaFields
  <2>3. zero' = zero /\ ctrTime' = ctrTime
    BY <1>3 DEF CountersFail, CountersTab
  <2> QED
    BY <1>0, <2>2, <2>3 DEF CountersInv
<1> QED
  BY <1>1, <1>2, <1>3 DEF CountersNext

\* No change is the empty one.
LEMMA NoChange == [p \in {} |-> 0] = << >>
<1> DEFINE f == [p \in {} |-> 0]
<1>1. f = [p \in 1..0 |-> 0]
  OBVIOUS
<1>2. f \in [1..0 -> {0}]
  BY <1>1
<1>3. f \in Seq({0}) /\ Len(f) = 0
  BY <1>2, SeqDef
<1> QED
  BY <1>3, EmptySeq

\* The change between two answers, for the paths both have.
Between(from, to, c) ==
    /\ from # NoReading
    /\ c = [p \in DOMAIN from.values \cap DOMAIN to.values |-> to.values[p] - from.values[p]]

\* A change is shown between two answers.
LEMMA ChangeShown ==
    ASSUME NEW from, NEW to, NEW ordered, ordered \in BOOLEAN, NEW c, c = Changes(from, to, ordered)
    PROVE  c = << >> \/ Between(from, to, c)
  BY NoChange DEF Changes, Between

\* What the page keeps is what its figures need.
LEMMA KeptIsHonest == CountersInv => DeltasWithinRun
<1> SUFFICES ASSUME CountersInv PROVE DeltasWithinRun
  OBVIOUS
<1> DEFINE cur == deltas.current
           prev == deltas.previous
           base == deltas.baseline
           w == SinceWindow
<1>1. DeltasOf(cur, prev, base, deltas.unseen) /\ deltas.unseen \in BOOLEAN
  BY DEF CountersInv
<1>2. w = Changes(prev, cur, TRUE)
  BY DEF SinceWindow
<1>3. \/ w = << >>
      \/ prev # NoReading /\ w = [p \in DOMAIN prev.values \cap DOMAIN cur.values |-> cur.values[p] - prev.values[p]]
  <2> HIDE DEF w, cur, prev
  <2>1. TRUE \in BOOLEAN
    OBVIOUS
  <2> QED
    <3>1. w = << >> \/ Between(prev, cur, w)
      BY <1>2, <2>1, ChangeShown
    <3> QED
      BY <3>1 DEF Between
<1>4. w # << >> /\ ~deltas.unseen => prev.run = cur.run
  BY <1>1, <1>3 DEF DeltasOf
<1>5. SinceOpen # << >> /\ ~deltas.unseen => base.run = cur.run
  <2>1. SinceOpen = << >> \/ SinceOpen = Changes(base, cur, FALSE)
    BY NoChange DEF SinceOpen
  <2>2. Changes(base, cur, FALSE) = << >> \/ base # NoReading
    <3> DEFINE c == Changes(base, cur, FALSE)
    <3>1. c = Changes(base, cur, FALSE) /\ FALSE \in BOOLEAN
      OBVIOUS
    <3> HIDE DEF c, cur, base
    <3>2. c = << >> \/ base # NoReading
      <4>1. c = << >> \/ Between(base, cur, c)
        BY <3>1, ChangeShown
      <4> QED
        BY <4>1 DEF Between
    <3> QED
      BY <3>2 DEF c
  <2> QED
    BY <1>1, <2>1, <2>2 DEF DeltasOf
<1>6. DOMAIN << >> = {}
  OBVIOUS
<1>7. w # << >> => /\ Answered(prev) /\ Answered(cur)
                   /\ DOMAIN w = DOMAIN prev.values \cap DOMAIN cur.values
                   /\ Connections \in DOMAIN w
                   /\ \A p \in DOMAIN w : w[p] = cur.values[p] - prev.values[p]
  <2> SUFFICES ASSUME w # << >>
               PROVE  /\ Answered(prev) /\ Answered(cur)
                      /\ DOMAIN w = DOMAIN prev.values \cap DOMAIN cur.values
                      /\ Connections \in DOMAIN w
                      /\ \A p \in DOMAIN w : w[p] = cur.values[p] - prev.values[p]
    OBVIOUS
  <2>1. Answered(prev) /\ Answered(cur)
    BY <1>1, <1>3 DEF DeltasOf
  <2>2. w = [p \in DOMAIN prev.values \cap DOMAIN cur.values |-> cur.values[p] - prev.values[p]]
    BY <1>3
  <2> HIDE DEF w, cur, prev
  <2>3. /\ DOMAIN w = DOMAIN prev.values \cap DOMAIN cur.values
        /\ \A p \in DOMAIN w : w[p] = cur.values[p] - prev.values[p]
    BY <2>2
  <2> QED
    BY <2>1, <2>3 DEF Answered
<1>8. CountersHero # "info" => Connections \in DOMAIN w
  BY DEF CountersHero, Connections
<1>9. CountersHero = "warn" => NewFailureSignals(w) # {}
  BY DEF CountersHero
<1>10. CountersHero = "ok" => NewFailureSignals(w) = {}
  BY DEF CountersHero
<1>11. CountersHero = "warn" => ExplorerWarnings # {} /\ ActivityPanel.state = "active"
  <2> SUFFICES ASSUME CountersHero = "warn" PROVE ExplorerWarnings # {} /\ ActivityPanel.state = "active"
    OBVIOUS
  <2>1. ActivityPanel.state = "active"
    BY DEF ActivityPanel
  <2>2. PICK p \in DOMAIN w \ Breakdown : IsFailureCounterPath(p) /\ w[p] > 0
    BY <1>9 DEF NewFailureSignals
  <2>3. w # << >>
    BY <1>6, <2>2
  <2>4. p \in DOMAIN cur.values /\ p \in Scalars /\ w[p] \in Int
    BY <1>7, <2>2, <2>3 DEF Answered, CounterPaths
  <2>5. w[p] # 0
    BY <2>2, <2>4
  <2>6. p \in ExplorerRows
    BY <2>2, <2>4, <2>5 DEF ExplorerRows
  <2> QED
    BY <2>1, <2>2, <2>6 DEF ExplorerWarnings
<1>12. CountersHero = "ok" => ExplorerWarnings = {}
  <2>1. Scalars \cap Breakdown = {}
    BY DEF Scalars, Breakdown
  <2> QED
    BY <1>10, <2>1 DEF ExplorerWarnings, ExplorerRows, NewFailureSignals
<1> QED
  BY <1>4, <1>5, <1>11, <1>12 DEF DeltasWithinRun
=============================================================================
