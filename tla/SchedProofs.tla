---------------------------- MODULE SchedProofs ----------------------------
(***************************************************************************)
(* Proofs of the safety properties of Sched, for any set of threads and of *)
(* cyclic functions.                                                       *)
(***************************************************************************)
EXTENDS Sched, SequenceTheorems, TLAPS

-----------------------------------------------------------------------------
(* Sequences with a stretch taken out, and with an element put in *)

\* Taking the elements between positions i and j out of a sequence keeps the
\* ones up to i and the ones from j on, in order (list_del(), hlist_del()).
LEMMA CutSeq ==
  ASSUME NEW S, NEW s \in Seq(S), NEW i \in 0..Len(s), NEW j \in (i + 1)..(Len(s) + 1)
  PROVE  LET r == SubSeq(s, 1, i) \o SubSeq(s, j, Len(s))
         IN /\ r \in Seq(S)
            /\ Len(r) = Len(s) - (j - i - 1)
            /\ \A k \in 1..i : r[k] = s[k]
            /\ \A k \in (i + 1)..Len(r) : r[k] = s[k + (j - i - 1)]
<1> DEFINE a == SubSeq(s, 1, i)
           b == SubSeq(s, j, Len(s))
<1>0. Len(s) \in Nat /\ \A k \in 1..Len(s) : s[k] \in S
  BY LenProperties, ElementOfSeq
<1>1. /\ a \in Seq(S) /\ Len(a) = i
      /\ \A k \in 1..i : a[k] = s[k]
  <2>1. \A k \in 1..i : s[k] \in S
    BY <1>0
  <2>2. /\ a \in Seq(S)
        /\ Len(a) = IF 1 <= i THEN i - 1 + 1 ELSE 0
        /\ \A k \in 1..(i - 1 + 1) : a[k] = s[1 + k - 1]
    BY <1>0, <2>1, SubSeqProperties
  <2> QED BY <1>0, <2>2
<1>2. /\ b \in Seq(S) /\ Len(b) = Len(s) - j + 1
      /\ \A k \in 1..Len(b) : b[k] = s[j + k - 1]
  <2>1. \A k \in j..Len(s) : s[k] \in S
    BY <1>0
  <2>2. /\ b \in Seq(S)
        /\ Len(b) = IF j <= Len(s) THEN Len(s) - j + 1 ELSE 0
        /\ \A k \in 1..(Len(s) - j + 1) : b[k] = s[j + k - 1]
    BY <1>0, <2>1, SubSeqProperties
  <2> QED BY <1>0, <2>2
<1>3. /\ a \o b \in Seq(S)
      /\ Len(a \o b) = Len(a) + Len(b)
      /\ \A k \in 1..(Len(a) + Len(b)) :
           (a \o b)[k] = IF k <= Len(a) THEN a[k] ELSE b[k - Len(a)]
  BY <1>1, <1>2, ConcatProperties
<1> HIDE DEF a, b
<1>4. Len(a \o b) = Len(s) - (j - i - 1)
  BY <1>0, <1>1, <1>2, <1>3
<1>5. \A k \in 1..i : (a \o b)[k] = s[k]
  BY <1>0, <1>1, <1>2, <1>3
<1>6. \A k \in (i + 1)..Len(a \o b) : (a \o b)[k] = s[k + (j - i - 1)]
  BY <1>0, <1>1, <1>2, <1>3
<1> QED BY <1>3, <1>4, <1>5, <1>6 DEF a, b

\* Putting an element in front of position i (list_add_tail()) keeps the
\* others in order.
LEMMA InsertSeq ==
  ASSUME NEW S, NEW s \in Seq(S), NEW i \in 1..Len(s), NEW x \in S
  PROVE  LET r == SubSeq(s, 1, i - 1) \o <<x>> \o SubSeq(s, i, Len(s))
         IN /\ r \in Seq(S)
            /\ Len(r) = Len(s) + 1
            /\ \A k \in 1..(i - 1) : r[k] = s[k]
            /\ r[i] = x
            /\ \A k \in (i + 1)..Len(r) : r[k] = s[k - 1]
<1> DEFINE a == SubSeq(s, 1, i - 1)
           b == SubSeq(s, i, Len(s))
           c == a \o <<x>>
<1>0. Len(s) \in Nat /\ \A k \in 1..Len(s) : s[k] \in S
  BY LenProperties, ElementOfSeq
<1>1. /\ a \in Seq(S) /\ Len(a) = i - 1
      /\ \A k \in 1..(i - 1) : a[k] = s[k]
  <2>1. \A k \in 1..(i - 1) : s[k] \in S
    BY <1>0
  <2>2. /\ a \in Seq(S)
        /\ Len(a) = IF 1 <= i - 1 THEN (i - 1) - 1 + 1 ELSE 0
        /\ \A k \in 1..((i - 1) - 1 + 1) : a[k] = s[1 + k - 1]
    BY <1>0, <2>1, SubSeqProperties
  <2> QED BY <1>0, <2>2
<1>2. /\ b \in Seq(S) /\ Len(b) = Len(s) - i + 1
      /\ \A k \in 1..Len(b) : b[k] = s[i + k - 1]
  <2>1. \A k \in i..Len(s) : s[k] \in S
    BY <1>0
  <2>2. /\ b \in Seq(S)
        /\ Len(b) = IF i <= Len(s) THEN Len(s) - i + 1 ELSE 0
        /\ \A k \in 1..(Len(s) - i + 1) : b[k] = s[i + k - 1]
    BY <1>0, <2>1, SubSeqProperties
  <2> QED BY <1>0, <2>2
<1>3. <<x>> \in Seq(S) /\ Len(<<x>>) = 1 /\ <<x>>[1] = x
  OBVIOUS
<1> HIDE DEF a, b
<1>4. /\ c \in Seq(S)
      /\ Len(c) = Len(a) + Len(<<x>>)
      /\ \A k \in 1..(Len(a) + Len(<<x>>)) :
           c[k] = IF k <= Len(a) THEN a[k] ELSE <<x>>[k - Len(a)]
  BY <1>1, <1>3, ConcatProperties
<1>5. Len(c) = i /\ c[i] = x /\ \A k \in 1..(i - 1) : c[k] = s[k]
  BY <1>0, <1>1, <1>3, <1>4
<1>5a. c \in Seq(S) /\ b \in Seq(S)
  BY <1>2, <1>4
<1> HIDE DEF c
<1>6. /\ c \o b \in Seq(S)
      /\ Len(c \o b) = Len(c) + Len(b)
      /\ \A k \in 1..(Len(c) + Len(b)) :
           (c \o b)[k] = IF k <= Len(c) THEN c[k] ELSE b[k - Len(c)]
  BY <1>5a, ConcatProperties
<1>7. Len(c \o b) = Len(s) + 1
  BY <1>0, <1>2, <1>5, <1>6
<1>8. \A k \in 1..(i - 1) : (c \o b)[k] = s[k]
  BY <1>0, <1>2, <1>5, <1>6
<1>9. (c \o b)[i] = x
  BY <1>0, <1>2, <1>5, <1>6
<1>10. \A k \in (i + 1)..Len(c \o b) : (c \o b)[k] = s[k - 1]
  BY <1>0, <1>2, <1>5, <1>6, <1>7
<1> QED BY <1>6, <1>7, <1>8, <1>9, <1>10 DEF a, b, c

\* PosOf() finds an element that is there.
LEMMA PosInList ==
  ASSUME NEW s, NEW x \in InList(s)
  PROVE  PosOf(x, s) \in DOMAIN s /\ s[PosOf(x, s)] = x
BY DEF InList, PosOf

-----------------------------------------------------------------------------
(* uthread_schedule() *)

\* uthread_schedule() keeps the list in order, starting with the main thread,
\* drops only threads that are done, and switches to one that is not.
LEMMA ScheduleKeepsThreads ==
  ASSUME TypeOK, LiveThreadsListed, uthread_schedule
  PROVE  /\ ring' \in Seq(AllThreads)
         /\ ring'[1] = Main
         /\ \A i, j \in DOMAIN ring' : ring'[i] = ring'[j] => i = j
         /\ InList(ring') \subseteq InList(ring)
         /\ \A t \in InList(ring) : pc[t] # "done" => t \in InList(ring')
         /\ current' \in AllThreads
         /\ pc[current'] \notin {"none", "done"}
<1> DEFINE p == PosOf(current, ring)
<1>0. /\ ring \in Seq(AllThreads) /\ Len(ring) \in Nat /\ DOMAIN ring = 1..Len(ring)
      /\ \A k \in 1..Len(ring) : ring[k] \in AllThreads
  BY LenProperties, ElementOfSeq DEF TypeOK
<1>1. current \in InList(ring)
  BY DEF LiveThreadsListed, TypeOK
<1>2. p \in 1..Len(ring) /\ ring[p] = current
  BY <1>0, <1>1, PosInList
<1>3. PICK j \in (p + 1)..(Len(ring) + 1) :
        /\ ring' = SubSeq(ring, 1, p) \o SubSeq(ring, j, Len(ring))
        /\ \A k \in (p + 1)..(j - 1) : pc[ring[k]] = "done"
        /\ \/ current' = Main
           \/ j <= Len(ring) /\ current' = ring[j] /\ pc[ring[j]] # "done"
  <2>1. CASE Ahead(p) = {} /\ ring' = SubSeq(ring, 1, p) /\ current' = Main
    <3>1. \A k \in (p + 1)..Len(ring) : pc[ring[k]] = "done"
      BY <2>1 DEF Ahead
    <3>2. SubSeq(ring, Len(ring) + 1, Len(ring)) = <<>>
      BY <1>0, SubSeqEmpty
    <3>3. \A k \in 1..p : ring[k] \in AllThreads
      BY <1>0, <1>2
    <3>4. SubSeq(ring, 1, p) \in Seq(AllThreads)
      BY <1>0, <1>2, <3>3, SubSeqProperties
    <3>5. SubSeq(ring, 1, p) \o <<>> = SubSeq(ring, 1, p)
      BY <3>4, ConcatEmptySeq
    <3>6. Len(ring) + 1 \in (p + 1)..(Len(ring) + 1) /\ (Len(ring) + 1) - 1 = Len(ring)
      BY <1>0, <1>2
    <3>7. ring' = SubSeq(ring, 1, p) \o SubSeq(ring, Len(ring) + 1, Len(ring))
      BY <2>1, <3>2, <3>5
    <3>8. \A k \in (p + 1)..((Len(ring) + 1) - 1) : pc[ring[k]] = "done"
      BY <3>1, <3>6
    <3> QED BY <2>1, <3>6, <3>7, <3>8
  <2>2. CASE \E k \in Ahead(p) :
               /\ IsFirst(k, Ahead(p))
               /\ ring' = SubSeq(ring, 1, p) \o SubSeq(ring, k, Len(ring))
               /\ current' = ring[k]
    <3>1. PICK k \in Ahead(p) :
               /\ IsFirst(k, Ahead(p))
               /\ ring' = SubSeq(ring, 1, p) \o SubSeq(ring, k, Len(ring))
               /\ current' = ring[k]
      BY <2>2
    <3>2. k \in (p + 1)..Len(ring) /\ pc[ring[k]] # "done"
      BY <3>1 DEF Ahead
    <3>3. \A m \in (p + 1)..(k - 1) : pc[ring[m]] = "done"
      BY <1>0, <1>2, <3>1, <3>2 DEF Ahead, IsFirst
    <3>4. k \in (p + 1)..(Len(ring) + 1) /\ k <= Len(ring)
      BY <1>0, <1>2, <3>2
    <3> QED BY <3>1, <3>2, <3>3, <3>4
  <2> QED BY <2>1, <2>2 DEF uthread_schedule
<1> HIDE DEF p
<1>4. /\ ring' \in Seq(AllThreads)
      /\ Len(ring') = Len(ring) - (j - p - 1)
      /\ \A k \in 1..p : ring'[k] = ring[k]
      /\ \A k \in (p + 1)..Len(ring') : ring'[k] = ring[k + (j - p - 1)]
  <2>1. p \in 0..Len(ring)
    BY <1>0, <1>2
  <2> QED BY <1>0, <1>3, <2>1, CutSeq
<1>5. Len(ring') \in Nat /\ DOMAIN ring' = 1..Len(ring')
  BY <1>4, LenProperties
<1> DEFINE old(k) == IF k <= p THEN k ELSE k + (j - p - 1)
<1>6. \A k \in 1..Len(ring') : old(k) \in 1..Len(ring) /\ ring'[k] = ring[old(k)]
  BY <1>0, <1>2, <1>3, <1>4, <1>5
<1>7. \A k, m \in 1..Len(ring') : old(k) = old(m) => k = m
  BY <1>0, <1>2, <1>3, <1>5
<1>8. \A k \in 1..Len(ring) : k <= p \/ k >= j => \E m \in 1..Len(ring') : ring'[m] = ring[k]
  <2> SUFFICES ASSUME NEW k \in 1..Len(ring), k <= p \/ k >= j
               PROVE  \E m \in 1..Len(ring') : ring'[m] = ring[k]
    OBVIOUS
  <2>1. CASE k <= p
    BY <1>0, <1>2, <1>3, <1>4, <1>5, <2>1
  <2>2. CASE k >= j
    <3> DEFINE m == k - (j - p - 1)
    <3>1. m \in (p + 1)..Len(ring') /\ m + (j - p - 1) = k
      BY <1>0, <1>2, <1>3, <1>4, <1>5, <2>2
    <3>2. ring'[m] = ring[k]
      BY <1>4, <3>1
    <3>3. m \in 1..Len(ring')
      BY <1>0, <1>2, <1>5, <3>1
    <3> QED BY <3>2, <3>3
  <2> QED BY <2>1, <2>2
<1> HIDE DEF old
<1>9. ring'[1] = Main
  <2>1. 1 \in 1..p
    BY <1>0, <1>2
  <2> QED BY <1>4, <2>1 DEF LiveThreadsListed
<1>10. \A i, m \in DOMAIN ring' : ring'[i] = ring'[m] => i = m
  BY <1>0, <1>5, <1>6, <1>7 DEF LiveThreadsListed
<1>11. InList(ring') \subseteq InList(ring)
  BY <1>0, <1>5, <1>6 DEF InList
<1>12. \A t \in InList(ring) : pc[t] # "done" => t \in InList(ring')
  <2> SUFFICES ASSUME NEW k \in 1..Len(ring), pc[ring[k]] # "done"
               PROVE  ring[k] \in InList(ring')
    BY <1>0 DEF InList
  <2>1. k <= p \/ k >= j
    BY <1>0, <1>2, <1>3
  <2> QED BY <1>5, <1>8, <2>1 DEF InList
<1>13. current' \in AllThreads /\ pc[current'] \notin {"none", "done"}
  <2>1. CASE current' = Main
    <3>1. 1 \in DOMAIN ring
      BY <1>0, <1>2
    <3>2. Main \in InList(ring)
      BY <3>1 DEF InList, LiveThreadsListed
    <3> QED BY <2>1, <3>2 DEF AllThreads, LiveThreadsListed
  <2>2. CASE j <= Len(ring) /\ current' = ring[j] /\ pc[ring[j]] # "done"
    <3>1. j \in DOMAIN ring
      BY <1>0, <1>2, <1>3, <2>2
    <3>2. ring[j] \in InList(ring)
      BY <3>1 DEF InList
    <3> QED BY <1>0, <2>2, <3>1, <3>2 DEF LiveThreadsListed
  <2> QED BY <1>3, <2>1, <2>2
<1> QED BY <1>4, <1>9, <1>10, <1>11, <1>12, <1>13

-----------------------------------------------------------------------------
(* The list of cyclic functions *)

Distinct(s) == \A i, j \in DOMAIN s : s[i] = s[j] => i = j

\* hlist_del() takes out the one entry and nothing else.
LEMMA UnlinkedFacts ==
  ASSUME cyclic_list \in Seq(Cyclics), Distinct(cyclic_list), NEW c \in Cyclics
  PROVE  /\ Unlinked(c) \in Seq(Cyclics)
         /\ Distinct(Unlinked(c))
         /\ InList(Unlinked(c)) = InList(cyclic_list) \ {c}
<1>0. Len(cyclic_list) \in Nat /\ DOMAIN cyclic_list = 1..Len(cyclic_list)
  BY LenProperties
<1>1. CASE c \notin InList(cyclic_list)
  BY <1>1 DEF Unlinked
<1>2. CASE c \in InList(cyclic_list)
  <2> DEFINE p == PosOf(c, cyclic_list)
             r == SubSeq(cyclic_list, 1, p - 1) \o SubSeq(cyclic_list, p + 1, Len(cyclic_list))
  <2>1. p \in 1..Len(cyclic_list) /\ cyclic_list[p] = c
    BY <1>0, <1>2, PosInList
  <2>2. Unlinked(c) = r
    BY <1>2 DEF Unlinked
  <2> HIDE DEF p
  <2>3. p - 1 \in 0..Len(cyclic_list) /\ p + 1 \in ((p - 1) + 1)..(Len(cyclic_list) + 1)
    BY <1>0, <2>1
  <2>4. /\ r \in Seq(Cyclics)
        /\ Len(r) = Len(cyclic_list) - ((p + 1) - (p - 1) - 1)
        /\ \A k \in 1..(p - 1) : r[k] = cyclic_list[k]
        /\ \A k \in ((p - 1) + 1)..Len(r) : r[k] = cyclic_list[k + ((p + 1) - (p - 1) - 1)]
    BY <2>3, CutSeq
  <2> HIDE DEF r
  <2>5. Len(r) = Len(cyclic_list) - 1 /\ DOMAIN r = 1..Len(r)
    BY <1>0, <2>1, <2>4, LenProperties
  <2> DEFINE old(k) == IF k < p THEN k ELSE k + 1
  <2>6. \A k \in 1..Len(r) : old(k) \in 1..Len(cyclic_list) /\ old(k) # p /\ r[k] = cyclic_list[old(k)]
    BY <1>0, <2>1, <2>4, <2>5
  <2>7. \A k, m \in 1..Len(r) : old(k) = old(m) => k = m
    BY <1>0, <2>1, <2>5
  <2>8. \A m \in 1..Len(cyclic_list) : m # p => \E k \in 1..Len(r) : old(k) = m
    <3> SUFFICES ASSUME NEW m \in 1..Len(cyclic_list), m # p
                 PROVE  \E k \in 1..Len(r) : old(k) = m
      OBVIOUS
    <3>1. CASE m < p
      BY <1>0, <2>1, <2>5, <3>1
    <3>2. CASE m > p
      <4>1. m - 1 \in 1..Len(r) /\ old(m - 1) = m
        BY <1>0, <2>1, <2>5, <3>2
      <4> QED BY <4>1
    <3> QED BY <1>0, <2>1, <3>1, <3>2
  <2> HIDE DEF old
  <2>9. Distinct(r)
    BY <1>0, <2>5, <2>6, <2>7 DEF Distinct
  <2>10. InList(r) = InList(cyclic_list) \ {c}
    <3>1. \A k \in 1..Len(r) : r[k] \in InList(cyclic_list) /\ r[k] # c
      BY <1>0, <2>1, <2>6 DEF InList, Distinct
    <3>2. \A m \in 1..Len(cyclic_list) : cyclic_list[m] # c => cyclic_list[m] \in InList(r)
      BY <1>0, <2>1, <2>5, <2>6, <2>8 DEF InList
    <3> QED BY <1>0, <2>5, <3>1, <3>2 DEF InList
  <2> QED BY <2>2, <2>4, <2>9, <2>10
<1> QED BY <1>1, <1>2

\* hlist_add_head() of an entry that is not in the list
LEMMA PrependFacts ==
  ASSUME NEW S, NEW s \in Seq(S), Distinct(s), NEW x \in S, x \notin InList(s)
  PROVE  /\ <<x>> \o s \in Seq(S)
         /\ Distinct(<<x>> \o s)
         /\ InList(<<x>> \o s) = InList(s) \cup {x}
<1>1. <<x>> \in Seq(S) /\ Len(<<x>>) = 1 /\ <<x>>[1] = x
  OBVIOUS
<1>2. Len(s) \in Nat /\ DOMAIN s = 1..Len(s)
  BY LenProperties
<1> DEFINE r == <<x>> \o s
<1>3. /\ r \in Seq(S)
      /\ Len(r) = Len(<<x>>) + Len(s)
      /\ \A i \in 1..(Len(<<x>>) + Len(s)) :
           r[i] = IF i <= Len(<<x>>) THEN <<x>>[i] ELSE s[i - Len(<<x>>)]
  BY <1>1, ConcatProperties
<1> HIDE DEF r
<1>4. /\ Len(r) = Len(s) + 1 /\ DOMAIN r = 1..(Len(s) + 1)
      /\ r[1] = x
      /\ \A i \in 2..(Len(s) + 1) : i - 1 \in 1..Len(s) /\ r[i] = s[i - 1]
  BY <1>1, <1>2, <1>3, LenProperties
<1>5. \A i \in 1..Len(s) : s[i] # x
  BY <1>2 DEF InList
<1>6. Distinct(r)
  <2> SUFFICES ASSUME NEW i \in 1..(Len(s) + 1), NEW j \in 1..(Len(s) + 1), r[i] = r[j]
               PROVE  i = j
    BY <1>4 DEF Distinct
  <2>1. CASE i = 1 \/ j = 1
    BY <1>2, <1>4, <1>5, <2>1
  <2>2. CASE i # 1 /\ j # 1
    <3>1. i \in 2..(Len(s) + 1) /\ j \in 2..(Len(s) + 1)
      BY <1>2, <2>2
    <3>2. i - 1 \in DOMAIN s /\ j - 1 \in DOMAIN s /\ s[i - 1] = s[j - 1]
      BY <1>2, <1>4, <3>1
    <3>3. i - 1 = j - 1
      BY <3>2 DEF Distinct
    <3> QED BY <1>2, <3>3
  <2> QED BY <2>1, <2>2
<1>7. InList(r) = InList(s) \cup {x}
  <2>1. \A i \in 1..(Len(s) + 1) : r[i] \in InList(s) \cup {x}
    BY <1>2, <1>4 DEF InList
  <2>2. \A i \in 1..Len(s) : s[i] \in InList(r)
    <3> TAKE i \in 1..Len(s)
    <3>1. i + 1 \in 2..(Len(s) + 1) /\ (i + 1) - 1 = i
      BY <1>2
    <3>2. r[i + 1] = s[i]
      BY <1>4, <3>1
    <3>3. i + 1 \in DOMAIN r
      BY <1>2, <1>4
    <3> QED BY <3>2, <3>3 DEF InList
  <2>3. x \in InList(r)
    BY <1>2, <1>4 DEF InList
  <2> QED BY <1>2, <1>4, <2>1, <2>2, <2>3 DEF InList
<1> QED BY <1>3, <1>6, <1>7 DEF r

\* The entry after a registered one is another registered one, or none.
LEMMA NextOfFacts ==
  ASSUME cyclic_list \in Seq(Cyclics), NEW c \in InList(cyclic_list)
  PROVE  NextOf(c) \in InList(cyclic_list) \cup {Nil}
<1> DEFINE p == PosOf(c, cyclic_list)
<1>0. Len(cyclic_list) \in Nat /\ DOMAIN cyclic_list = 1..Len(cyclic_list)
  BY LenProperties
<1>1. p \in 1..Len(cyclic_list) /\ cyclic_list[p] = c
  BY <1>0, PosInList
<1>1a. p \in Nat /\ 1 <= p /\ p <= Len(cyclic_list)
  BY <1>0, <1>1
<1>2a. NextOf(c) = IF p = Len(cyclic_list) THEN Nil ELSE cyclic_list[p + 1]
  BY DEF NextOf
<1> HIDE DEF p
<1>3. CASE p = Len(cyclic_list)
  BY <1>2a, <1>3
<1>4. CASE p # Len(cyclic_list)
  <2> DEFINE n == Len(cyclic_list)
  <2>1. n \in Nat /\ p \in Nat /\ p <= n /\ p # n
    BY <1>0, <1>1a, <1>4
  <2> HIDE DEF n
  <2>2. p < n
    BY <2>1
  <2>3. p \in Nat /\ Len(cyclic_list) \in Nat /\ 1 <= p /\ p < Len(cyclic_list)
    BY <1>0, <1>1a, <2>2 DEF n
  <2>4. p + 1 \in 1..Len(cyclic_list)
    BY <2>3
  <2>5. cyclic_list[p + 1] \in InList(cyclic_list)
    BY <1>0, <2>4 DEF InList
  <2> QED BY <1>2a, <1>4, <2>5
<1> QED BY <1>3, <1>4

-----------------------------------------------------------------------------
(* The invariant *)

\* The scheduler starts in a state that satisfies the invariant.
LEMMA InitInv == Init => IInv
<1> SUFFICES ASSUME Init PROVE IInv
  OBVIOUS
<1>1. ring = <<Main>> /\ Len(ring) = 1 /\ DOMAIN ring = 1..1 /\ ring[1] = Main /\ InList(ring) = {Main}
  BY DEF Init, InList
<1>2. TypeOK
  <2>1. ring \in Seq(AllThreads)
    BY <1>1 DEF AllThreads
  <2>2. cyclic_list \in Seq(Cyclics)
    BY DEF Init
  <2>3. pc \in [AllThreads -> {"none", "run", "lock", "loop", "callback", "cb_lock", "done"}]
    BY DEF Init
  <2>5. iter \in [pos : Cyclics \cup {Nil, Poison}, tmp : Cyclics \cup {Nil, Poison}]
    BY DEF Init
  <2>6. current \in AllThreads
    BY DEF Init, AllThreads
  <2> QED BY <2>1, <2>2, <2>3, <2>5, <2>6 DEF Init, TypeOK
<1>3. LiveThreadsListed
  BY <1>1, ThreadAssumption DEF Init, LiveThreadsListed, AllThreads
<1>4. MutexExclusion
  BY DEF Init, MutexExclusion
<1>5. CyclicRunIsExclusive /\ LoopHasTheCPU
  BY DEF Init, CyclicRunIsExclusive, InCyclicRun, LoopHasTheCPU
<1>6. CyclicListOK
  BY DEF Init, CyclicListOK
<1> QED BY <1>2, <1>3, <1>4, <1>5, <1>6 DEF IInv

\* uthread_mutex_lock() is left where it was entered, or waits there.
LEMMA LockPlace ==
  ASSUME NEW t \in AllThreads, uthread_mutex_lock(t)
  PROVE  /\ pc[t] \in {"run", "lock", "callback", "cb_lock"}
         /\ \E v \in {"run", "lock", "callback", "cb_lock"} :
              /\ pc' = [pc EXCEPT ![t] = v]
              /\ v \in {"callback", "cb_lock"} <=> pc[t] \in {"callback", "cb_lock"}
<1>1. pc[t] \in {"run", "lock", "callback", "cb_lock"}
  BY DEF uthread_mutex_lock, InCode, Code, Waiting
<1>2. pc' = [pc EXCEPT ![t] = Waits(pc[t])] \/ pc' = [pc EXCEPT ![t] = Returns(pc[t])]
  BY DEF uthread_mutex_lock
<1>3. CASE pc[t] \in {"run", "lock"}
  <2>1. Waits(pc[t]) = "lock" /\ Returns(pc[t]) = "run"
    BY <1>3 DEF Waits, Returns
  <2> QED BY <1>2, <1>3, <2>1
<1>4. CASE pc[t] \in {"callback", "cb_lock"}
  <2>1. Waits(pc[t]) = "cb_lock" /\ Returns(pc[t]) = "callback"
    BY <1>4 DEF Waits, Returns
  <2> QED BY <1>2, <1>4, <2>1
<1> QED BY <1>1, <1>3, <1>4

\* The steps in which the current thread changes, or the list of threads
LEMMA ThreadStep ==
  ASSUME IInv, Next
  PROVE  /\ ring' \in Seq(AllThreads) /\ current' \in AllThreads
         /\ LiveThreadsListed'
<1> USE DEF IInv
<1>0. /\ ring \in Seq(AllThreads) /\ Len(ring) \in Nat /\ DOMAIN ring = 1..Len(ring)
      /\ pc \in [AllThreads -> {"none", "run", "lock", "loop", "callback", "cb_lock", "done"}]
      /\ current \in AllThreads
  BY LenProperties DEF TypeOK
<1>a. current \in InList(ring)
  BY DEF LiveThreadsListed, TypeOK
\* Where threads stay alive as they are and the list is unchanged
<1>b. ASSUME UNCHANGED <<ring, current>>,
             pc' \in [AllThreads -> {"none", "run", "lock", "loop", "callback", "cb_lock", "done"}],
             \A t \in AllThreads : /\ pc'[t] = "none" <=> pc[t] = "none"
                                   /\ pc'[t] = "done" <=> pc[t] = "done"
      PROVE  ring' \in Seq(AllThreads) /\ current' \in AllThreads /\ LiveThreadsListed'
  <2>1. InList(ring') = InList(ring)
    BY <1>b DEF InList
  <2>2. Main \in AllThreads
    BY DEF AllThreads
  <2> QED BY <1>0, <1>b, <2>1, <2>2 DEF LiveThreadsListed
\* Where the current thread yields
<1>c. ASSUME uthread_schedule,
             pc' \in [AllThreads -> {"none", "run", "lock", "loop", "callback", "cb_lock", "done"}],
             \A t \in AllThreads : /\ pc'[t] = "none" <=> pc[t] = "none"
                                   /\ pc'[t] = "done" <=> pc[t] = "done"
      PROVE  ring' \in Seq(AllThreads) /\ current' \in AllThreads /\ LiveThreadsListed'
  <2>1. /\ ring' \in Seq(AllThreads)
        /\ ring'[1] = Main
        /\ \A i, j \in DOMAIN ring' : ring'[i] = ring'[j] => i = j
        /\ InList(ring') \subseteq InList(ring)
        /\ \A t \in InList(ring) : pc[t] # "done" => t \in InList(ring')
        /\ current' \in AllThreads
        /\ pc[current'] \notin {"none", "done"}
    BY <1>c, ScheduleKeepsThreads
  <2>2. InList(ring)' = InList(ring')
    BY DEF InList
  <2>3. Main \in AllThreads
    BY DEF AllThreads
  <2>4. InList(ring') \subseteq {t \in AllThreads : pc'[t] # "none"}
    BY <1>c, <2>1 DEF LiveThreadsListed
  <2>5. {t \in AllThreads : pc'[t] \notin {"none", "done"}} \subseteq InList(ring')
    BY <1>c, <2>1 DEF LiveThreadsListed
  <2>6. pc'[current'] \notin {"none", "done"} /\ pc'[Main] # "done"
    BY <1>c, <2>1, <2>3 DEF LiveThreadsListed
  <2> QED BY <2>1, <2>2, <2>4, <2>5, <2>6 DEF LiveThreadsListed
<1>1. ASSUME NEW t \in Threads, uthread_create(t)
      PROVE  ring' \in Seq(AllThreads) /\ current' \in AllThreads /\ LiveThreadsListed'
  <2> DEFINE p == PosOf(current, ring)
  <2>0. t \in AllThreads /\ t # Main /\ Main \in AllThreads
    BY ThreadAssumption DEF AllThreads
  <2>1. /\ current' = current /\ pc[t] = "none" /\ pc' = [pc EXCEPT ![t] = "run"]
        /\ ring' = IF p = 1 THEN Append(ring, t)
                   ELSE SubSeq(ring, 1, p - 1) \o <<t>> \o SubSeq(ring, p, Len(ring))
    BY <1>1 DEF uthread_create
  <2>2. p \in 1..Len(ring)
    BY <1>0, <1>a, PosInList
  <2> HIDE DEF p
  <2>3. t \notin InList(ring)
    BY <2>1 DEF LiveThreadsListed
  <2>4. PICK q \in 2..(Len(ring) + 1) :
          /\ ring' \in Seq(AllThreads) /\ Len(ring') = Len(ring) + 1
          /\ \A k \in 1..(q - 1) : ring'[k] = ring[k]
          /\ ring'[q] = t
          /\ \A k \in (q + 1)..Len(ring') : ring'[k] = ring[k - 1]
    <3>1. CASE p = 1
      <4>1. ring' = Append(ring, t)
        BY <2>1, <3>1
      <4>2. /\ ring' \in Seq(AllThreads) /\ Len(ring') = Len(ring) + 1
            /\ \A k \in 1..Len(ring) : ring'[k] = ring[k]
            /\ ring'[Len(ring) + 1] = t
        BY <1>0, <2>0, <4>1, AppendProperties
      <4>3. Len(ring) + 1 \in 2..(Len(ring) + 1) /\ (Len(ring) + 1) - 1 = Len(ring)
        BY <1>0, <2>2
      <4>4. \A k \in ((Len(ring) + 1) + 1)..Len(ring') : ring'[k] = ring[k - 1]
        BY <1>0, <4>2
      <4> QED BY <4>2, <4>3, <4>4
    <3>2. CASE p # 1
      <4>1. ring' = SubSeq(ring, 1, p - 1) \o <<t>> \o SubSeq(ring, p, Len(ring))
        BY <2>1, <3>2
      <4>2. /\ ring' \in Seq(AllThreads) /\ Len(ring') = Len(ring) + 1
            /\ \A k \in 1..(p - 1) : ring'[k] = ring[k]
            /\ ring'[p] = t
            /\ \A k \in (p + 1)..Len(ring') : ring'[k] = ring[k - 1]
        BY <1>0, <2>0, <2>2, <4>1, InsertSeq
      <4>3. p \in 2..(Len(ring) + 1)
        BY <1>0, <2>2, <3>2
      <4> QED BY <4>2, <4>3
    <3> QED BY <3>1, <3>2
  <2>5. Len(ring') \in Nat /\ DOMAIN ring' = 1..(Len(ring) + 1) /\ q \in Nat
    BY <1>0, <2>4, LenProperties
  <2> DEFINE old(k) == IF k < q THEN k ELSE k - 1
  <2>6. \A k \in 1..(Len(ring) + 1) : k # q => old(k) \in 1..Len(ring) /\ ring'[k] = ring[old(k)]
    BY <1>0, <2>4, <2>5
  <2>7. \A k, m \in 1..(Len(ring) + 1) : k # q /\ m # q /\ old(k) = old(m) => k = m
    BY <1>0, <2>4, <2>5
  <2>8. \A m \in 1..Len(ring) : \E k \in 1..(Len(ring) + 1) : ring'[k] = ring[m]
    <3> SUFFICES ASSUME NEW m \in 1..Len(ring)
                 PROVE  \E k \in 1..(Len(ring) + 1) : ring'[k] = ring[m]
      OBVIOUS
    <3>1. CASE m < q
      BY <1>0, <2>4, <2>5, <3>1
    <3>2. CASE ~(m < q)
      <4>1. m + 1 \in (q + 1)..Len(ring') /\ (m + 1) - 1 = m
        BY <1>0, <2>4, <2>5, <3>2
      <4>2. ring'[m + 1] = ring[m]
        BY <2>4, <4>1
      <4>3. m + 1 \in 1..(Len(ring) + 1)
        BY <1>0
      <4> QED BY <4>2, <4>3
    <3> QED BY <3>1, <3>2
  <2> HIDE DEF old
  <2>9. \A m \in 1..Len(ring) : ring[m] # t
    BY <1>0, <2>3 DEF InList
  <2>10. \A i, j \in DOMAIN ring' : ring'[i] = ring'[j] => i = j
    BY <1>0, <2>4, <2>5, <2>6, <2>7, <2>9 DEF LiveThreadsListed
  <2>11. InList(ring') = InList(ring) \cup {t}
    <3>1. \A k \in 1..(Len(ring) + 1) : ring'[k] \in InList(ring) \cup {t}
      BY <1>0, <2>4, <2>6 DEF InList
    <3>2. \A x \in InList(ring) : x \in InList(ring')
      BY <1>0, <2>5, <2>8 DEF InList
    <3>3. t \in InList(ring')
      <4>1. q \in DOMAIN ring'
        BY <1>0, <2>4, <2>5
      <4> QED BY <2>4, <4>1 DEF InList
    <3>4. \A x \in InList(ring') : x \in InList(ring) \cup {t}
      BY <2>5, <3>1 DEF InList
    <3> QED BY <3>2, <3>3, <3>4
  <2>12. ring'[1] = Main
    <3>1. 1 \in 1..(q - 1)
      BY <2>4, <2>5
    <3> QED BY <2>4, <3>1 DEF LiveThreadsListed
  <2>13. /\ InList(ring') \subseteq {u \in AllThreads : pc'[u] # "none"}
         /\ {u \in AllThreads : pc'[u] \notin {"none", "done"}} \subseteq InList(ring')
    <3>1. pc'[t] = "run" /\ \A u \in AllThreads \ {t} : pc'[u] = pc[u]
      BY <1>0, <2>0, <2>1
    <3>2. /\ InList(ring) \subseteq {u \in AllThreads : pc[u] # "none"}
          /\ {u \in AllThreads : pc[u] \notin {"none", "done"}} \subseteq InList(ring)
      BY DEF LiveThreadsListed
    <3>3. \A u \in InList(ring') : u \in AllThreads /\ pc'[u] # "none"
      BY <2>0, <2>11, <3>1, <3>2
    <3>4. \A u \in AllThreads : pc'[u] \notin {"none", "done"} => u \in InList(ring')
      BY <2>11, <3>1, <3>2
    <3> QED BY <3>3, <3>4
  <2>14. pc'[current'] \notin {"none", "done"} /\ pc'[Main] # "done"
    BY <1>0, <2>0, <2>1 DEF LiveThreadsListed
  <2>15. InList(ring)' = InList(ring')
    BY DEF InList
  <2> QED BY <1>0, <2>1, <2>4, <2>10, <2>12, <2>13, <2>14, <2>15 DEF LiveThreadsListed
<1>2. ASSUME NEW t \in Threads, uthread_trampoline(t)
      PROVE  ring' \in Seq(AllThreads) /\ current' \in AllThreads /\ LiveThreadsListed'
  <2>1. /\ ring' = ring /\ current' = Main /\ t # Main /\ t \in AllThreads
        /\ pc[t] = "run" /\ pc' = [pc EXCEPT ![t] = "done"]
    BY <1>2 DEF uthread_trampoline, AllThreads
  <2>2. Main \in AllThreads /\ Main \in InList(ring)
    <3>1. 1 \in DOMAIN ring
      BY <1>0, <1>a DEF InList
    <3> QED BY <3>1 DEF LiveThreadsListed, InList, AllThreads
  <2>3. InList(ring)' = InList(ring)
    BY <2>1 DEF InList
  <2>4. pc[Main] \notin {"none", "done"}
    BY <2>2 DEF LiveThreadsListed
  <2> QED BY <1>0, <2>1, <2>2, <2>3, <2>4 DEF LiveThreadsListed
<1>4. ASSUME NEW t \in AllThreads, uthread_mutex_lock(t)
      PROVE  ring' \in Seq(AllThreads) /\ current' \in AllThreads /\ LiveThreadsListed'
  <2>1. /\ pc[t] \in {"run", "lock", "callback", "cb_lock"}
        /\ \E v \in {"run", "lock", "callback", "cb_lock"} : pc' = [pc EXCEPT ![t] = v]
    BY <1>4, LockPlace
  <2>2. uthread_schedule \/ UNCHANGED threadvars
    BY <1>4 DEF uthread_mutex_lock
  <2> QED BY <1>0, <1>b, <1>c, <2>1, <2>2 DEF threadvars
<1>5. ASSUME NEW t \in AllThreads, uthread_mutex_trylock(t) \/ uthread_mutex_unlock(t)
      PROVE  ring' \in Seq(AllThreads) /\ current' \in AllThreads /\ LiveThreadsListed'
  BY <1>0, <1>5, <1>b DEF uthread_mutex_trylock, uthread_mutex_unlock, threadvars
<1>6. ASSUME NEW t \in AllThreads, yield(t)
      PROVE  ring' \in Seq(AllThreads) /\ current' \in AllThreads /\ LiveThreadsListed'
  BY <1>0, <1>6, <1>c DEF yield
<1>7. ASSUME NEW t \in AllThreads, cyclic_run(t) \/ cyclic_loop(t) \/ callback_return(t)
      PROVE  ring' \in Seq(AllThreads) /\ current' \in AllThreads /\ LiveThreadsListed'
  <2>1. /\ UNCHANGED <<ring, current>>
        /\ \/ pc' = pc
           \/ /\ pc[t] \in {"run", "loop", "callback"}
              /\ \E v \in {"loop", "callback"} : pc' = [pc EXCEPT ![t] = v]
    BY <1>7 DEF cyclic_run, cyclic_loop, callback_return, threadvars
  <2> QED BY <1>0, <1>b, <2>1
<1>8. ASSUME NEW t \in AllThreads, schedule(t)
      PROVE  ring' \in Seq(AllThreads) /\ current' \in AllThreads /\ LiveThreadsListed'
  <2>1. uthread_schedule /\ pc[t] = "loop" /\ pc' = [pc EXCEPT ![t] = "run"]
    BY <1>8 DEF schedule
  <2> QED BY <1>0, <1>c, <2>1
<1>9. ASSUME NEW c \in Cyclics, cyclic_register(c) \/ cyclic_unregister(c) \/ TimePasses(c)
      PROVE  ring' \in Seq(AllThreads) /\ current' \in AllThreads /\ LiveThreadsListed'
  <2>1. UNCHANGED <<ring, current>> /\ pc' = pc
    BY <1>9 DEF cyclic_register, cyclic_unregister, TimePasses, threadvars
  <2> QED BY <1>0, <1>b, <2>1
<1>10. ASSUME cyclic_unregister_all
       PROVE  ring' \in Seq(AllThreads) /\ current' \in AllThreads /\ LiveThreadsListed'
  <2>1. UNCHANGED <<ring, current>> /\ pc' = pc
    BY <1>10 DEF cyclic_unregister_all, threadvars
  <2> QED BY <1>0, <1>b, <2>1
<1>11. ASSUME cyclic_fault
       PROVE  ring' \in Seq(AllThreads) /\ current' \in AllThreads /\ LiveThreadsListed'
  BY <1>0, <1>11, <1>b DEF cyclic_fault, vars
<1> QED BY <1>1, <1>2, <1>4, <1>5, <1>6, <1>7, <1>8, <1>9, <1>10, <1>11 DEF Next

\* Locking, unlocking and yielding keep the facts on the mutex.
LEMMA MutexStep ==
  ASSUME IInv, Next
  PROVE  /\ mutex' \in {"UNLOCKED", "LOCKED"}
         /\ owners' \subseteq AllThreads
         /\ MutexExclusion'
<1> DEFINE Goal == /\ mutex' \in {"UNLOCKED", "LOCKED"}
                   /\ owners' \subseteq AllThreads
                   /\ MutexExclusion'
<1>0. /\ mutex \in {"UNLOCKED", "LOCKED"} /\ owners \subseteq AllThreads
      /\ MutexExclusion
  BY DEF IInv, TypeOK
<1>a. ASSUME UNCHANGED mutexvars PROVE Goal
  BY <1>0, <1>a DEF mutexvars, MutexExclusion
<1>2. ASSUME NEW t \in AllThreads, uthread_mutex_lock(t) PROVE Goal
  <2>1. \/ UNCHANGED mutexvars
        \/ mutex = "UNLOCKED" /\ mutex' = "LOCKED" /\ owners' = owners \cup {t}
    BY <1>2 DEF uthread_mutex_lock
  <2> QED BY <1>0, <1>a, <2>1 DEF MutexExclusion
<1>3. ASSUME NEW t \in AllThreads, uthread_mutex_trylock(t) PROVE Goal
  <2>1. \/ UNCHANGED mutexvars
        \/ mutex = "UNLOCKED" /\ mutex' = "LOCKED" /\ owners' = owners \cup {t}
    BY <1>3 DEF uthread_mutex_trylock
  <2> QED BY <1>0, <1>a, <2>1 DEF MutexExclusion
<1>4. ASSUME NEW t \in AllThreads, uthread_mutex_unlock(t) PROVE Goal
  BY <1>0, <1>4 DEF uthread_mutex_unlock, MutexExclusion
<1>5. ASSUME NEW t \in AllThreads,
             yield(t) \/ cyclic_run(t) \/ cyclic_loop(t) \/ callback_return(t) \/ schedule(t)
      PROVE  Goal
  BY <1>a, <1>5 DEF yield, cyclic_run, cyclic_loop, callback_return, schedule
<1>6. ASSUME NEW t \in Threads, uthread_create(t) \/ uthread_trampoline(t) PROVE Goal
  BY <1>a, <1>6 DEF uthread_create, uthread_trampoline
<1>7. ASSUME NEW c \in Cyclics, cyclic_register(c) \/ cyclic_unregister(c) \/ TimePasses(c)
      PROVE  Goal
  BY <1>a, <1>7 DEF cyclic_register, cyclic_unregister, TimePasses
<1>8. ASSUME cyclic_unregister_all \/ cyclic_fault PROVE Goal
  BY <1>a, <1>8 DEF cyclic_unregister_all, cyclic_fault, vars, mutexvars
<1> QED BY <1>2, <1>3, <1>4, <1>5, <1>6, <1>7, <1>8 DEF Next

\* The part of the invariant about cyclic functions
CyclicInv ==
  /\ pc \in [AllThreads -> {"none", "run", "lock", "loop", "callback", "cb_lock", "done"}]
  /\ cyclic_list \in Seq(Cyclics)
  /\ due \subseteq Cyclics
  /\ running \in BOOLEAN
  /\ iter \in [pos : Cyclics \cup {Nil, Poison}, tmp : Cyclics \cup {Nil, Poison}]
  /\ CyclicRunIsExclusive
  /\ CyclicListOK
  /\ LoopHasTheCPU

\* What a step of the walk finds after an entry has the type of a pointer.
LEMMA NextOfType ==
  ASSUME cyclic_list \in Seq(Cyclics), NEW c
  PROVE  NextOf(c) \in Cyclics \cup {Nil, Poison}
<1>1. \A x \in InList(cyclic_list) : x \in Cyclics
  BY ElementOfSeq, LenProperties DEF InList
<1>2. CASE c \in InList(cyclic_list)
  BY <1>1, <1>2, NextOfFacts
<1>3. CASE c \notin InList(cyclic_list)
  BY <1>3 DEF NextOf
<1> QED BY <1>2, <1>3

\* What the steps on the list of cyclic functions do with it
LEMMA ListChange ==
  ASSUME CyclicInv, NEW c \in Cyclics
  PROVE  /\ Unlinked(c) \in Seq(Cyclics)
         /\ Distinct(Unlinked(c))
         /\ InList(Unlinked(c)) = InList(cyclic_list) \ {c}
         /\ <<c>> \o Unlinked(c) \in Seq(Cyclics)
         /\ Distinct(<<c>> \o Unlinked(c))
         /\ InList(<<c>> \o Unlinked(c)) = InList(cyclic_list) \cup {c}
<1>1. cyclic_list \in Seq(Cyclics) /\ Distinct(cyclic_list)
  BY DEF CyclicInv, CyclicListOK, Distinct
<1>2. /\ Unlinked(c) \in Seq(Cyclics)
      /\ Distinct(Unlinked(c))
      /\ InList(Unlinked(c)) = InList(cyclic_list) \ {c}
  BY <1>1, UnlinkedFacts
<1>3. /\ <<c>> \o Unlinked(c) \in Seq(Cyclics)
      /\ Distinct(<<c>> \o Unlinked(c))
      /\ InList(<<c>> \o Unlinked(c)) = InList(Unlinked(c)) \cup {c}
  BY <1>2, PrependFacts
<1> QED BY <1>2, <1>3

\* Registering, unregistering and the walk keep the facts on the list of
\* cyclic functions.
LEMMA CyclicStep ==
  ASSUME IInv, Next
  PROVE  CyclicInv'
<1>0. CyclicInv /\ current \in AllThreads /\ current' \in AllThreads
  BY ThreadStep DEF IInv, TypeOK, CyclicInv
<1>b. \A x : x \in InList(cyclic_list) => x \in Cyclics
  BY <1>0, ElementOfSeq, LenProperties DEF InList, CyclicInv
\* Where no thread enters or leaves cyclic_run() or its loop, and who is in the
\* loop keeps the CPU
<1>c. ASSUME UNCHANGED <<running, iter>>, due' \subseteq Cyclics,
             cyclic_list' \in Seq(Cyclics), Distinct(cyclic_list'),
             pc' \in [AllThreads -> {"none", "run", "lock", "loop", "callback", "cb_lock", "done"}],
             \A t \in AllThreads : /\ InCyclicRun(t)' <=> InCyclicRun(t)
                                   /\ pc'[t] = "loop" <=> pc[t] = "loop",
             current' = current \/ pc[current] # "loop"
      PROVE  CyclicInv'
  <2>1. CyclicRunIsExclusive'
    BY <1>0, <1>c DEF CyclicInv, CyclicRunIsExclusive
  <2>2. LoopHasTheCPU'
    BY <1>0, <1>c DEF CyclicInv, LoopHasTheCPU
  <2>3. CyclicListOK'
    BY <1>c DEF CyclicListOK, Distinct
  <2> QED BY <1>0, <1>c, <2>1, <2>2, <2>3 DEF CyclicInv
<1>d. cyclic_list \in Seq(Cyclics) /\ Distinct(cyclic_list)
  BY <1>0 DEF CyclicInv, CyclicListOK, Distinct
<1>1. ASSUME NEW t \in Threads, uthread_create(t) \/ uthread_trampoline(t) PROVE CyclicInv'
  <2>1. t \in AllThreads
    BY DEF AllThreads
  <2>2. UNCHANGED cyclicvars /\ \E v \in {"run", "done"} : pc' = [pc EXCEPT ![t] = v]
    BY <1>1 DEF uthread_create, uthread_trampoline
  <2>3. pc[t] \in {"none", "run"}
    BY <1>1 DEF uthread_create, uthread_trampoline
  <2>4. current' = current \/ pc[current] # "loop"
    BY <1>1 DEF uthread_create, uthread_trampoline
  <2>5. /\ pc' \in [AllThreads -> {"none", "run", "lock", "loop", "callback", "cb_lock", "done"}]
        /\ \A u \in AllThreads : /\ InCyclicRun(u)' <=> InCyclicRun(u)
                                 /\ pc'[u] = "loop" <=> pc[u] = "loop"
    BY <1>0, <2>1, <2>2, <2>3 DEF CyclicInv, InCyclicRun
  <2>6. cyclic_list' = cyclic_list /\ due' = due /\ UNCHANGED <<running, iter>>
    BY <2>2 DEF cyclicvars
  <2> QED BY <1>0, <1>c, <1>d, <2>4, <2>5, <2>6 DEF CyclicInv
<1>2. ASSUME NEW t \in AllThreads,
             uthread_mutex_lock(t) \/ uthread_mutex_trylock(t)
               \/ uthread_mutex_unlock(t) \/ yield(t)
      PROVE  CyclicInv'
  <2>1. UNCHANGED cyclicvars /\ pc[current] # "loop"
    BY <1>2 DEF uthread_mutex_lock, uthread_mutex_trylock, uthread_mutex_unlock, yield,
                InCode, Code, Waiting
  <2>2. \/ pc' = pc
        \/ /\ pc[t] \in {"run", "lock", "callback", "cb_lock"}
           /\ \E v \in {"run", "lock", "callback", "cb_lock"} :
                /\ pc' = [pc EXCEPT ![t] = v]
                /\ v \in {"callback", "cb_lock"} <=> pc[t] \in {"callback", "cb_lock"}
    BY <1>2, LockPlace DEF uthread_mutex_trylock, uthread_mutex_unlock, yield
  <2>3. /\ pc' \in [AllThreads -> {"none", "run", "lock", "loop", "callback", "cb_lock", "done"}]
        /\ \A u \in AllThreads : /\ InCyclicRun(u)' <=> InCyclicRun(u)
                                 /\ pc'[u] = "loop" <=> pc[u] = "loop"
    BY <1>0, <2>2 DEF CyclicInv, InCyclicRun
  <2>4. cyclic_list' = cyclic_list /\ due' = due /\ UNCHANGED <<running, iter>>
    BY <2>1 DEF cyclicvars
  <2> QED BY <1>0, <1>c, <1>d, <2>1, <2>3, <2>4 DEF CyclicInv
<1>3. ASSUME NEW t \in AllThreads, cyclic_run(t) PROVE CyclicInv'
  <2>1. /\ current = t /\ current' = current
        /\ cyclic_list # <<>> /\ ~running /\ running' = TRUE
        /\ iter' = [pos |-> cyclic_list[1], tmp |-> Nil]
        /\ pc' = [pc EXCEPT ![t] = "loop"]
        /\ cyclic_list' = cyclic_list /\ due' = due
    BY <1>3 DEF cyclic_run, First, threadvars
  <2>2. 1 \in DOMAIN cyclic_list
    BY <1>0, <2>1, LenProperties, EmptySeq DEF CyclicInv
  <2>3. cyclic_list[1] \in InList(cyclic_list)
    BY <2>2 DEF InList
  <2>4. \A u \in AllThreads : ~InCyclicRun(u)
    BY <1>0, <2>1 DEF CyclicInv, CyclicRunIsExclusive
  <2>5. \A u \in AllThreads : u # t => pc'[u] \notin {"loop", "callback", "cb_lock"}
    BY <1>0, <2>1, <2>4 DEF CyclicInv, InCyclicRun
  <2>6. pc'[t] = "loop" /\ pc' \in [AllThreads -> {"none", "run", "lock", "loop", "callback", "cb_lock", "done"}]
    BY <1>0, <2>1 DEF CyclicInv
  <2>7. CyclicRunIsExclusive'
    BY <2>1, <2>5, <2>6 DEF CyclicRunIsExclusive, InCyclicRun
  <2>8. LoopHasTheCPU'
    BY <2>1, <2>5 DEF LoopHasTheCPU
  <2>9. CyclicListOK'
    BY <1>0, <2>1 DEF CyclicListOK, CyclicInv
  <2>10. iter' \in [pos : Cyclics \cup {Nil, Poison}, tmp : Cyclics \cup {Nil, Poison}]
    BY <1>b, <2>1, <2>3
  <2> QED BY <1>0, <2>1, <2>6, <2>7, <2>8, <2>9, <2>10 DEF CyclicInv
<1>4. ASSUME NEW t \in AllThreads, cyclic_loop(t) PROVE CyclicInv'
  <2> DEFINE n == NextOf(iter.pos)
  <2>1. /\ pc[t] = "loop" /\ current = t /\ current' = current
        /\ cyclic_list' = cyclic_list /\ running' = running
        /\ due' \subseteq due
        /\ \/ pc' = [pc EXCEPT ![t] = "callback"] /\ iter' = [iter EXCEPT !.tmp = n]
           \/ pc' = pc /\ iter' = [pos |-> n, tmp |-> Nil]
    BY <1>4 DEF cyclic_loop, threadvars
  <2>2. n \in Cyclics \cup {Nil, Poison}
    BY <1>d, NextOfType
  <2> HIDE DEF n
  <2>3. iter' \in [pos : Cyclics \cup {Nil, Poison}, tmp : Cyclics \cup {Nil, Poison}]
    <3>1. CASE iter' = [iter EXCEPT !.tmp = n]
      BY <1>0, <2>2, <3>1 DEF CyclicInv
    <3>2. CASE iter' = [pos |-> n, tmp |-> Nil]
      BY <2>2, <3>2
    <3> QED BY <2>1, <3>1, <3>2
  <2>4. /\ pc' \in [AllThreads -> {"none", "run", "lock", "loop", "callback", "cb_lock", "done"}]
        /\ \A u \in AllThreads : /\ InCyclicRun(u)' <=> InCyclicRun(u)
                                 /\ pc'[u] = "loop" => pc[u] = "loop"
    BY <1>0, <2>1 DEF CyclicInv, InCyclicRun
  <2>5. CyclicRunIsExclusive' /\ LoopHasTheCPU'
    BY <1>0, <2>1, <2>4 DEF CyclicInv, CyclicRunIsExclusive, LoopHasTheCPU
  <2>6. CyclicListOK'
    BY <1>0, <2>1 DEF CyclicListOK, CyclicInv
  <2> QED BY <1>0, <2>1, <2>3, <2>4, <2>5, <2>6 DEF CyclicInv
<1>5. ASSUME NEW t \in AllThreads, callback_return(t) PROVE CyclicInv'
  <2>1. /\ pc[t] = "callback" /\ pc' = [pc EXCEPT ![t] = "loop"]
        /\ current = t /\ current' = current
        /\ iter' = [pos |-> iter.tmp, tmp |-> Nil]
        /\ cyclic_list' = cyclic_list /\ running' = running /\ due' = due
    BY <1>5 DEF callback_return, threadvars
  <2>2. /\ pc' \in [AllThreads -> {"none", "run", "lock", "loop", "callback", "cb_lock", "done"}]
        /\ \A u \in AllThreads : /\ InCyclicRun(u)' <=> InCyclicRun(u)
                                 /\ u # t => pc'[u] = pc[u]
    BY <1>0, <2>1 DEF CyclicInv, InCyclicRun
  <2>3. CyclicRunIsExclusive'
    BY <1>0, <2>1, <2>2 DEF CyclicInv, CyclicRunIsExclusive
  <2>4. LoopHasTheCPU'
    BY <1>0, <2>1, <2>2 DEF CyclicInv, LoopHasTheCPU
  <2>5. CyclicListOK'
    BY <1>0, <2>1 DEF CyclicListOK, CyclicInv
  <2>6. iter' \in [pos : Cyclics \cup {Nil, Poison}, tmp : Cyclics \cup {Nil, Poison}]
    BY <1>0, <2>1 DEF CyclicInv
  <2> QED BY <1>0, <2>1, <2>2, <2>3, <2>4, <2>5, <2>6 DEF CyclicInv
<1>6. ASSUME NEW t \in AllThreads, schedule(t) PROVE CyclicInv'
  <2>1. /\ pc[t] = "loop" /\ pc' = [pc EXCEPT ![t] = "run"] /\ running' = FALSE
        /\ UNCHANGED <<cyclic_list, due, iter>>
    BY <1>6 DEF schedule
  <2>2. /\ pc' \in [AllThreads -> {"none", "run", "lock", "loop", "callback", "cb_lock", "done"}]
        /\ \A u \in AllThreads : pc'[u] \notin {"loop", "callback", "cb_lock"}
    BY <1>0, <2>1 DEF CyclicInv, CyclicRunIsExclusive, InCyclicRun
  <2>3. CyclicRunIsExclusive' /\ LoopHasTheCPU'
    BY <2>1, <2>2 DEF CyclicRunIsExclusive, InCyclicRun, LoopHasTheCPU
  <2>4. CyclicListOK'
    BY <1>0, <2>1 DEF CyclicListOK, CyclicInv
  <2> QED BY <1>0, <2>1, <2>2, <2>3, <2>4 DEF CyclicInv
<1>7. ASSUME NEW c \in Cyclics, cyclic_register(c) \/ cyclic_unregister(c) PROVE CyclicInv'
  <2>1. /\ UNCHANGED <<current, pc, running, iter>> /\ due' \subseteq Cyclics
        /\ cyclic_list' = Unlinked(c) \/ cyclic_list' = <<c>> \o Unlinked(c)
    BY <1>0, <1>7 DEF cyclic_register, cyclic_unregister, threadvars, CyclicInv
  <2>2. cyclic_list' \in Seq(Cyclics) /\ Distinct(cyclic_list')
    BY <1>0, <2>1, ListChange
  <2>3. \A u \in AllThreads : (InCyclicRun(u)' <=> InCyclicRun(u)) /\ pc'[u] = pc[u]
    BY <2>1 DEF InCyclicRun
  <2> QED BY <1>0, <1>c, <2>1, <2>2, <2>3 DEF CyclicInv
<1>8. ASSUME NEW c \in Cyclics, TimePasses(c) PROVE CyclicInv'
  <2>1. UNCHANGED <<current, pc, running, iter, cyclic_list>> /\ due' \subseteq Cyclics
    BY <1>0, <1>8 DEF TimePasses, threadvars, CyclicInv
  <2>2. \A u \in AllThreads : (InCyclicRun(u)' <=> InCyclicRun(u)) /\ pc'[u] = pc[u]
    BY <2>1 DEF InCyclicRun
  <2> QED BY <1>0, <1>c, <1>d, <2>1, <2>2 DEF CyclicInv
<1>9. ASSUME cyclic_unregister_all PROVE CyclicInv'
  <2>1. UNCHANGED <<current, pc, running, iter>> /\ due' = {} /\ cyclic_list' = <<>>
    BY <1>9 DEF cyclic_unregister_all, threadvars
  <2>2. cyclic_list' \in Seq(Cyclics) /\ Distinct(cyclic_list')
    BY <2>1 DEF Distinct
  <2>3. \A u \in AllThreads : (InCyclicRun(u)' <=> InCyclicRun(u)) /\ pc'[u] = pc[u]
    BY <2>1 DEF InCyclicRun
  <2> QED BY <1>0, <1>c, <2>1, <2>2, <2>3 DEF CyclicInv
<1>10. ASSUME cyclic_fault PROVE CyclicInv'
  <2>1. UNCHANGED <<current, pc, running, iter, cyclic_list, due>>
    BY <1>10 DEF cyclic_fault, vars
  <2>2. \A u \in AllThreads : (InCyclicRun(u)' <=> InCyclicRun(u)) /\ pc'[u] = pc[u]
    BY <2>1 DEF InCyclicRun
  <2> QED BY <1>0, <1>c, <1>d, <2>1, <2>2 DEF CyclicInv
<1> QED BY <1>1, <1>2, <1>3, <1>4, <1>5, <1>6, <1>7, <1>8, <1>9, <1>10 DEF Next

\* IInv is inductive.
LEMMA StepInv ==
  ASSUME IInv, [Next]_vars
  PROVE  IInv'
<1>1. CASE Next
  <2>1. CyclicInv'
    BY <1>1, CyclicStep
  <2>2. ring' \in Seq(AllThreads) /\ current' \in AllThreads /\ LiveThreadsListed'
    BY <1>1, ThreadStep
  <2>3. mutex' \in {"UNLOCKED", "LOCKED"} /\ owners' \subseteq AllThreads /\ MutexExclusion'
    BY <1>1, MutexStep
  <2> QED BY <2>1, <2>2, <2>3 DEF CyclicInv, IInv, TypeOK
<1>2. CASE UNCHANGED vars
  BY <1>2 DEF vars, IInv, TypeOK, LiveThreadsListed, MutexExclusion, CyclicRunIsExclusive,
              InCyclicRun, CyclicListOK, LoopHasTheCPU, InList
<1> QED BY <1>1, <1>2

-----------------------------------------------------------------------------
(* The walk of the list *)

\* A walk that is in the list leaves it only where its next entry, or all
\* entries, are unregistered.
LEMMA WalkStep ==
  ASSUME IInv, CursorInList, Next
  PROVE  CursorInList' \/ cyclic_unregister(iter.tmp) \/ cyclic_unregister_all
<1>0. CyclicInv /\ cyclic_list \in Seq(Cyclics) /\ current \in AllThreads
  BY DEF IInv, TypeOK, CyclicInv
\* Where the walk stays where it is
<1>a. ASSUME UNCHANGED <<cyclic_list, iter>>,
             \A u \in AllThreads :
               /\ pc'[u] = "loop" => pc[u] = "loop"
               /\ pc'[u] \in {"callback", "cb_lock"} => pc[u] \in {"callback", "cb_lock"}
      PROVE  CursorInList'
  <2>1. InList(cyclic_list)' = InList(cyclic_list)
    BY <1>a DEF InList
  <2> QED BY <1>a, <2>1 DEF CursorInList
\* Where code that is not the loop changes the list
<1>b. ASSUME UNCHANGED <<pc, iter>>, InCode(current),
             \A u \in AllThreads : pc[u] \in {"callback", "cb_lock"}
                                     => iter.tmp \in InList(cyclic_list') \cup {Nil}
      PROVE  CursorInList'
  <2>1. \A u \in AllThreads : pc[u] # "loop"
    BY <1>0, <1>b DEF CyclicInv, LoopHasTheCPU, InCode, Code
  <2>2. InList(cyclic_list)' = InList(cyclic_list')
    BY DEF InList
  <2> QED BY <1>b, <2>1, <2>2 DEF CursorInList
<1>1. ASSUME NEW t \in Threads, uthread_create(t) \/ uthread_trampoline(t) PROVE CursorInList'
  <2>1. t \in AllThreads /\ UNCHANGED <<cyclic_list, iter>>
        /\ \E v \in {"run", "done"} : pc' = [pc EXCEPT ![t] = v]
    BY <1>1 DEF uthread_create, uthread_trampoline, cyclicvars, AllThreads
  <2> QED BY <1>0, <1>a, <2>1 DEF CyclicInv
<1>2. ASSUME NEW t \in AllThreads,
             uthread_mutex_lock(t) \/ uthread_mutex_trylock(t)
               \/ uthread_mutex_unlock(t) \/ yield(t)
      PROVE  CursorInList'
  <2>1. UNCHANGED <<cyclic_list, iter>>
    BY <1>2 DEF uthread_mutex_lock, uthread_mutex_trylock, uthread_mutex_unlock, yield, cyclicvars
  <2>2. \/ pc' = pc
        \/ \E v \in {"run", "lock", "callback", "cb_lock"} :
             /\ pc' = [pc EXCEPT ![t] = v]
             /\ v \in {"callback", "cb_lock"} <=> pc[t] \in {"callback", "cb_lock"}
    BY <1>2, LockPlace DEF uthread_mutex_trylock, uthread_mutex_unlock, yield
  <2> QED BY <1>0, <1>a, <2>1, <2>2 DEF CyclicInv
<1>3. ASSUME NEW t \in AllThreads, cyclic_run(t) PROVE CursorInList'
  <2>1. /\ cyclic_list # <<>> /\ ~running
        /\ iter' = [pos |-> cyclic_list[1], tmp |-> Nil]
        /\ pc' = [pc EXCEPT ![t] = "loop"] /\ cyclic_list' = cyclic_list
    BY <1>3 DEF cyclic_run, First
  <2>2. 1 \in DOMAIN cyclic_list
    BY <1>0, <2>1, LenProperties, EmptySeq
  <2>3. iter'.pos \in InList(cyclic_list') /\ InList(cyclic_list)' = InList(cyclic_list')
    BY <2>1, <2>2 DEF InList
  <2>4. \A u \in AllThreads : pc'[u] \notin {"callback", "cb_lock"}
    BY <1>0, <2>1 DEF CyclicInv, CyclicRunIsExclusive, InCyclicRun
  <2> QED BY <2>3, <2>4 DEF CursorInList
<1>4. ASSUME NEW t \in AllThreads, cyclic_loop(t) PROVE CursorInList'
  <2> DEFINE n == NextOf(iter.pos)
  <2>1. /\ pc[t] = "loop" /\ iter.pos \in Cyclics
        /\ cyclic_list' = cyclic_list
        /\ \/ pc' = [pc EXCEPT ![t] = "callback"] /\ iter' = [iter EXCEPT !.tmp = n]
           \/ pc' = pc /\ iter' = [pos |-> n, tmp |-> Nil]
    BY <1>4 DEF cyclic_loop
  <2>2. iter.pos \in InList(cyclic_list)
    BY <2>1, ThreadAssumption DEF CursorInList
  <2>3. n \in InList(cyclic_list) \cup {Nil}
    BY <1>0, <2>2, NextOfFacts
  <2> HIDE DEF n
  <2>4. \A u \in AllThreads : u # t => pc[u] \notin {"loop", "callback", "cb_lock"}
    BY <1>0, <2>1 DEF CyclicInv, CyclicRunIsExclusive, InCyclicRun
  <2>5. InList(cyclic_list)' = InList(cyclic_list)
    BY <2>1 DEF InList
  <2>6. CASE pc' = [pc EXCEPT ![t] = "callback"] /\ iter' = [iter EXCEPT !.tmp = n]
    <3>1. iter'.tmp = n /\ pc'[t] = "callback" /\ \A u \in AllThreads : u # t => pc'[u] = pc[u]
      BY <1>0, <2>6 DEF CyclicInv
    <3> QED BY <2>3, <2>4, <2>5, <3>1 DEF CursorInList
  <2>7. CASE pc' = pc /\ iter' = [pos |-> n, tmp |-> Nil]
    BY <2>1, <2>3, <2>4, <2>5, <2>7 DEF CursorInList
  <2> QED BY <2>1, <2>6, <2>7
<1>5. ASSUME NEW t \in AllThreads, callback_return(t) PROVE CursorInList'
  <2>1. /\ pc[t] = "callback" /\ pc' = [pc EXCEPT ![t] = "loop"]
        /\ iter' = [pos |-> iter.tmp, tmp |-> Nil] /\ cyclic_list' = cyclic_list
    BY <1>5 DEF callback_return
  <2>2. iter.tmp \in InList(cyclic_list) \cup {Nil}
    BY <2>1 DEF CursorInList
  <2>3. \A u \in AllThreads : pc'[u] \notin {"callback", "cb_lock"}
    BY <1>0, <2>1 DEF CyclicInv, CyclicRunIsExclusive, InCyclicRun
  <2>4. InList(cyclic_list)' = InList(cyclic_list)
    BY <2>1 DEF InList
  <2> QED BY <2>1, <2>2, <2>3, <2>4 DEF CursorInList
<1>6. ASSUME NEW t \in AllThreads, schedule(t) PROVE CursorInList'
  <2>1. pc' = [pc EXCEPT ![t] = "run"] /\ UNCHANGED <<cyclic_list, iter>>
    BY <1>6 DEF schedule
  <2> QED BY <1>0, <1>a, <2>1 DEF CyclicInv
<1>7. ASSUME NEW c \in Cyclics, cyclic_register(c) PROVE CursorInList'
  <2>1. UNCHANGED <<pc, iter>> /\ InCode(current) /\ cyclic_list' = <<c>> \o Unlinked(c)
    BY <1>7 DEF cyclic_register
  <2>2. InList(cyclic_list) \subseteq InList(cyclic_list')
    BY <1>0, <2>1, ListChange
  <2>3. \A u \in AllThreads : pc[u] \in {"callback", "cb_lock"}
                                => iter.tmp \in InList(cyclic_list') \cup {Nil}
    BY <2>2 DEF CursorInList
  <2> QED BY <1>b, <2>1, <2>3
<1>8. ASSUME NEW c \in Cyclics, cyclic_unregister(c), c # iter.tmp PROVE CursorInList'
  <2>1. UNCHANGED <<pc, iter>> /\ InCode(current) /\ cyclic_list' = Unlinked(c)
    BY <1>8 DEF cyclic_unregister
  <2>2. InList(cyclic_list') = InList(cyclic_list) \ {c}
    BY <1>0, <2>1, ListChange
  <2>3. \A u \in AllThreads : pc[u] \in {"callback", "cb_lock"}
                                => iter.tmp \in InList(cyclic_list') \cup {Nil}
    BY <1>8, <2>2 DEF CursorInList
  <2> QED BY <1>b, <2>1, <2>3
<1>9. ASSUME NEW c \in Cyclics, TimePasses(c) PROVE CursorInList'
  BY <1>9, <1>a DEF TimePasses
<1>10. ASSUME cyclic_fault PROVE CursorInList'
  BY <1>10, <1>a DEF cyclic_fault, vars
<1> QED BY <1>1, <1>2, <1>3, <1>4, <1>5, <1>6, <1>7, <1>8, <1>9, <1>10 DEF Next

-----------------------------------------------------------------------------

\* The inductive invariant of threads, mutex and cyclic functions holds.
THEOREM InvariantHolds == Spec => []IInv
<1>1. Init => IInv
  BY InitInv
<1>2. IInv /\ [Next]_vars => IInv'
  BY StepInv
<1> QED BY <1>1, <1>2, PTL DEF Spec

\* A mutex never has two owners (uthread_mutex_lock() and its relatives).
THEOREM MutexIsExclusive == Spec => []MutexExclusion
<1>1. IInv => MutexExclusion
  BY DEF IInv
<1> QED BY <1>1, InvariantHolds, PTL

\* uthread_schedule() never loses a thread that has not finished.
THEOREM NoThreadIsLost == Spec => []LiveThreadsListed
<1>1. IInv => LiveThreadsListed
  BY DEF IInv
<1> QED BY <1>1, InvariantHolds, PTL

\* uthread_grp_done() is exact: it is true when every thread created in the
\* group has returned, and only then.
THEOREM GrpDoneCorrect == Spec => []GrpDoneIsExact
<1>1. IInv => GrpDoneIsExact
  <2> SUFFICES ASSUME IInv, NEW t \in Threads
               PROVE  uthread_grp_done(GroupOf[t])
                        <=> \A u \in Threads : GroupOf[u] = GroupOf[t] => pc[u] \in {"none", "done"}
    BY DEF GrpDoneIsExact
  <2>1. /\ InList(ring) \subseteq {u \in AllThreads : pc[u] # "none"}
        /\ {u \in AllThreads : pc[u] \notin {"none", "done"}} \subseteq InList(ring)
    BY DEF IInv, LiveThreadsListed
  <2>2. \A u \in InList(ring) \ {Main} : u \in Threads /\ pc[u] # "none"
    BY <2>1 DEF AllThreads
  <2>3. \A u \in Threads : pc[u] \notin {"none", "done"} => u \in InList(ring) \ {Main}
    BY <2>1, ThreadAssumption DEF AllThreads
  <2> QED BY <2>2, <2>3 DEF uthread_grp_done
<1> QED BY <1>1, InvariantHolds, PTL

\* cyclic_run() is never entered by two threads, whatever threads and cyclic
\* functions do; and no step makes its walk follow an entry that has left the
\* list but the one that unregisters the entry that comes next.
THEOREM CyclicRunIsSafe == Spec => CyclicWalkIsSafe
<1>1. ASSUME IInv, IInv', [Next]_vars
      PROVE  [/\ CyclicRunIsExclusive'
              /\ CursorInList => CursorInList' \/ cyclic_unregister(iter.tmp)
                                   \/ cyclic_unregister_all]_vars
  BY <1>1, WalkStep DEF IInv
<1> QED BY <1>1, InvariantHolds, PTL DEF Spec, CyclicWalkIsSafe
=============================================================================
