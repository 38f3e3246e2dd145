----------------------------- MODULE LmbProofs ------------------------------
(***************************************************************************)
(* Proofs about the lists of lib/lmb.c, for any number of regions,         *)
(* addresses and banks: the regions of either list stay disjoint and in    *)
(* ascending order, the searches find the places there are, and reserving  *)
(* and freeing are exact.                                                  *)
(***************************************************************************)
EXTENDS Lmb, FiniteSetTheorems, TLAPS

\* Regions with flags in F
Regions(F) == {r \in [base : Addrs, size : Sizes, flags : F] : End(r) <= AddrMax + 1}

\* Every two regions ascend, not only neighbours.
Ascends(A) == \A i, j \in 1..Len(A) : i < j => End(A[i]) <= A[j].base
Good(A, F) == A \in Seq(Regions(F)) /\ Ascends(A)

\* Memory has no flags.
LmbInv ==
  /\ bank \in 0..Len(Banks)
  /\ Good(available_mem, {LMB_NONE})
  /\ Good(used_mem, Flags)

-----------------------------------------------------------------------------
(* Regions and lists *)

\* A region is its base, size and flags,
LEMMA RegionIs ==
  ASSUME NEW F, NEW x \in Regions(F)
  PROVE  /\ x.base \in Nat /\ x.size \in Nat /\ x.size > 0 /\ x.flags \in F
         /\ End(x) = x.base + x.size /\ End(x) \in Nat /\ End(x) <= AddrMax + 1 /\ x.base < End(x)
         /\ x = Region(x.base, x.size, x.flags)
  BY AddrAssumption DEF Regions, Addrs, Sizes, End, Region

\* and any within the address space is one.
LEMMA RegionMade ==
  ASSUME NEW F, NEW b \in Nat, NEW s \in Nat, s > 0, b + s <= AddrMax + 1, NEW f \in F
  PROVE  /\ Region(b, s, f) \in Regions(F)
         /\ Region(b, s, f).base = b /\ Region(b, s, f).size = s /\ Region(b, s, f).flags = f
         /\ End(Region(b, s, f)) = b + s
<1>1. b \in Addrs /\ s \in Sizes
  BY AddrAssumption DEF Addrs, Sizes
<1> QED BY <1>1 DEF Regions, End, Region

\* A range that is asked for is within the address space.
LEMMA RangeIs ==
  ASSUME NEW r \in Ranges
  PROVE  /\ r.base \in Nat /\ r.size \in Nat /\ r.size > 0 /\ AddrMax \in Nat
         /\ End(r) = r.base + r.size /\ End(r) \in Nat /\ End(r) <= AddrMax + 1
  BY AddrAssumption DEF Ranges, Addrs, End

\* It makes a region.
LEMMA NewRegion ==
  ASSUME NEW F, NEW r \in Ranges, NEW f \in F
  PROVE  /\ Region(r.base, r.size, f) \in Regions(F)
         /\ Region(r.base, r.size, f).base = r.base
         /\ End(Region(r.base, r.size, f)) = End(r)
<1>1. r.base \in Nat /\ r.size \in Nat /\ r.size > 0 /\ r.base + r.size <= AddrMax + 1
  BY RangeIs
<1>2. r.base \in Addrs /\ r.size \in Sizes /\ AddrMax \in Nat
  BY <1>1, AddrAssumption DEF Addrs, Sizes
<1> QED BY <1>1, <1>2 DEF Region, Regions, End

\* The elements of two lists that are joined
LEMMA Joined ==
  ASSUME NEW T, NEW s \in Seq(T), NEW r \in Seq(T)
  PROVE  /\ s \o r \in Seq(T) /\ Len(s \o r) = Len(s) + Len(r)
         /\ \A i \in 1..Len(s) : (s \o r)[i] = s[i]
         /\ \A i \in 1..(Len(s) + Len(r)) : i > Len(s) => (s \o r)[i] = r[i - Len(s)]
  OBVIOUS

\* The list A with region g instead of the regions i to m (none if m = i - 1)
Splice(A, i, m, g) == SubSeq(A, 1, i - 1) \o <<g>> \o SubSeq(A, m + 1, Len(A))

\* Its elements,
LEMMA SpliceIs ==
  ASSUME NEW T, NEW A \in Seq(T), NEW i \in 1..(Len(A) + 1), NEW m \in (i - 1)..Len(A), NEW g \in T
  PROVE  /\ Splice(A, i, m, g) \in Seq(T)
         /\ Len(Splice(A, i, m, g)) = Len(A) - m + i
         /\ \A k \in 1..(i - 1) : Splice(A, i, m, g)[k] = A[k]
         /\ Splice(A, i, m, g)[i] = g
         /\ \A k \in (i + 1)..(Len(A) - m + i) : Splice(A, i, m, g)[k] = A[k - i + m]
<1> DEFINE p == SubSeq(A, 1, i - 1)
           q == SubSeq(A, m + 1, Len(A))
           u == p \o <<g>>
<1>1. Len(A) \in Nat /\ i \in Nat /\ m \in Nat
  OBVIOUS
<1>2. p \in Seq(T) /\ Len(p) = i - 1 /\ \A k \in 1..(i - 1) : p[k] = A[k]
  <2>1. \A k \in 1..(i - 1) : k \in 1..Len(A) /\ A[k] \in T
    BY <1>1
  <2> QED BY <1>1, <2>1
<1>3. q \in Seq(T) /\ Len(q) = Len(A) - m /\ \A k \in 1..(Len(A) - m) : q[k] = A[k + m]
  <2>1. \A k \in (m + 1)..Len(A) : A[k] \in T
    BY <1>1
  <2> QED BY <1>1, <2>1
<1> HIDE DEF p, q
<1>4. /\ u \in Seq(T) /\ Len(u) = i /\ u[i] = g /\ \A k \in 1..(i - 1) : u[k] = A[k]
  BY <1>1, <1>2
<1> HIDE DEF u
<1>5. /\ u \o q \in Seq(T) /\ Len(u \o q) = i + (Len(A) - m)
      /\ \A k \in 1..i : (u \o q)[k] = u[k]
      /\ \A k \in (i + 1)..(i + (Len(A) - m)) : (u \o q)[k] = q[k - i]
  <2>0. u \in Seq(T) /\ q \in Seq(T)
    BY <1>3, <1>4
  <2>1. /\ u \o q \in Seq(T) /\ Len(u \o q) = Len(u) + Len(q)
        /\ \A k \in 1..Len(u) : (u \o q)[k] = u[k]
        /\ \A k \in 1..(Len(u) + Len(q)) : k > Len(u) => (u \o q)[k] = q[k - Len(u)]
    BY <2>0, Joined
  <2> QED BY <1>1, <1>3, <1>4, <2>1
<1>6. \A k \in (i + 1)..(Len(A) - m + i) : (u \o q)[k] = A[k - i + m]
  <2> SUFFICES ASSUME NEW k \in (i + 1)..(Len(A) - m + i) PROVE (u \o q)[k] = A[k - i + m]
    OBVIOUS
  <2>1. k - i \in 1..(Len(A) - m) /\ k \in (i + 1)..(i + (Len(A) - m)) /\ k - i + m = (k - i) + m
    BY <1>1
  <2> QED BY <1>3, <1>5, <2>1
<1>7. Splice(A, i, m, g) = u \o q
  BY DEF Splice, p, q, u
<1>8. \A k \in 1..(i - 1) : (u \o q)[k] = A[k]
  BY <1>1, <1>4, <1>5
<1>9. (u \o q)[i] = g /\ Len(u \o q) = Len(A) - m + i
  BY <1>1, <1>4, <1>5
<1> QED BY <1>5, <1>6, <1>7, <1>8, <1>9

\* and their order: the new region is between what is left on either side.
Spliced(A, i, m, S, F) ==
  /\ A \in Seq(Regions(F)) /\ i \in 1..(Len(A) + 1) /\ m \in (i - 1)..Len(A)
  /\ S \in Seq(Regions(F)) /\ Len(S) = Len(A) - m + i
  /\ \A k \in 1..(i - 1) : S[k] = A[k]
  /\ \A k \in (i + 1)..(Len(A) - m + i) : S[k] = A[k - i + m]
  /\ \A k, l \in 1..Len(A) : k < l /\ k \notin i..m /\ l \notin i..m => End(A[k]) <= A[l].base
  /\ \A k \in 1..(i - 1) : End(A[k]) <= S[i].base
  /\ \A k \in (m + 1)..Len(A) : End(S[i]) <= A[k].base

\* The list is then in order.
LEMMA SplicedGood ==
  ASSUME NEW F, NEW A, NEW i, NEW m, NEW S, Spliced(A, i, m, S, F)
  PROVE  Good(S, F)
<1> DEFINE n == Len(A) - m + i
<1>1. /\ S \in Seq(Regions(F)) /\ Len(S) = n /\ (\A k \in 1..(i - 1) : S[k] = A[k])
      /\ \A k \in (i + 1)..n : S[k] = A[k - i + m]
  BY DEF Spliced
<1>0. /\ A \in Seq(Regions(F)) /\ i \in 1..(Len(A) + 1) /\ m \in (i - 1)..Len(A)
      /\ \A k, l \in 1..Len(A) : k < l /\ k \notin i..m /\ l \notin i..m => End(A[k]) <= A[l].base
      /\ \A k \in 1..(i - 1) : End(A[k]) <= S[i].base
      /\ \A k \in (m + 1)..Len(A) : End(S[i]) <= A[k].base
  BY DEF Spliced
<1>2. Len(A) \in Nat /\ i \in Nat /\ m \in Nat /\ i <= n /\ n \in Nat
  BY <1>0
<1>3. \A k \in (i + 1)..n : k - i + m \in (m + 1)..Len(A) /\ k - i + m \in 1..Len(A) /\ k - i + m \notin i..m
  BY <1>2
<1>4. \A k \in 1..(i - 1) : k \in 1..Len(A) /\ k \notin i..m
  BY <1>0, <1>2
<1>5. ASSUME NEW k \in 1..n, NEW l \in 1..n, k < l PROVE End(S[k]) <= S[l].base
  <2>1. CASE k < i /\ l < i
    <3>1. k \in 1..(i - 1) /\ l \in 1..(i - 1)
      BY <1>2, <2>1
    <3> QED BY <1>0, <1>1, <1>4, <1>5, <3>1
  <2>2. CASE k < i /\ l = i
    <3>1. k \in 1..(i - 1)
      BY <1>2, <2>2
    <3> QED BY <1>0, <1>1, <2>2, <3>1
  <2>3. CASE k < i /\ l > i
    <3>1. k \in 1..(i - 1) /\ l \in (i + 1)..n
      BY <1>2, <2>3
    <3>2. k < l - i + m
      BY <1>0, <1>2, <3>1
    <3> QED BY <1>0, <1>1, <1>3, <1>4, <3>1, <3>2
  <2>4. CASE k = i /\ l > i
    <3>1. l \in (i + 1)..n
      BY <1>2, <2>4
    <3> QED BY <1>0, <1>1, <1>3, <2>4, <3>1
  <2>5. CASE k > i /\ l > i
    <3>1. k \in (i + 1)..n /\ l \in (i + 1)..n
      BY <1>2, <2>5
    <3>2. k - i + m < l - i + m
      BY <1>2, <1>5
    <3> QED BY <1>0, <1>1, <1>3, <3>1, <3>2
  <2> QED BY <1>2, <1>5, <2>1, <2>2, <2>3, <2>4, <2>5
<1> QED BY <1>1, <1>5 DEF Good, Ascends

\* The same for the list itself
LEMMA SpliceGood ==
  ASSUME NEW F, NEW A \in Seq(Regions(F)), NEW i \in 1..(Len(A) + 1), NEW m \in (i - 1)..Len(A),
         NEW g \in Regions(F),
         \A k, l \in 1..Len(A) : k < l /\ k \notin i..m /\ l \notin i..m => End(A[k]) <= A[l].base,
         \A k \in 1..(i - 1) : End(A[k]) <= g.base,
         \A k \in (m + 1)..Len(A) : End(g) <= A[k].base
  PROVE  Good(Splice(A, i, m, g), F)
<1> DEFINE S == Splice(A, i, m, g)
<1>1. /\ S \in Seq(Regions(F)) /\ Len(S) = Len(A) - m + i /\ (\A k \in 1..(i - 1) : S[k] = A[k])
      /\ S[i] = g /\ \A k \in (i + 1)..(Len(A) - m + i) : S[k] = A[k - i + m]
  BY SpliceIs
<1> HIDE DEF S
<1>2. /\ \A k \in 1..(i - 1) : End(A[k]) <= S[i].base
      /\ \A k \in (m + 1)..Len(A) : End(S[i]) <= A[k].base
  BY <1>1
<1>3. Spliced(A, i, m, S, F)
  BY <1>1, <1>2 DEF Spliced
<1>4. Good(S, F)
  BY <1>3, SplicedGood
<1> QED BY <1>4 DEF S

\* A set of numbers has a smallest one,
LEMMA Smallest ==
  ASSUME NEW I, I \subseteq Nat, I # {}
  PROVE  Min(I) \in I /\ \A y \in I : Min(I) <= y
<1> DEFINE R == OpToRel(<, Nat)
<1>1. \A y, x \in Nat : y < x => <<y, x>> \in R
  <2>1. R = {ss \in Nat \X Nat : ss[1] < ss[2]}
    BY DEF OpToRel
  <2> HIDE DEF R
  <2> SUFFICES ASSUME NEW y \in Nat, NEW x \in Nat, y < x PROVE <<y, x>> \in R
    OBVIOUS
  <2>2. <<y, x>> \in Nat \X Nat /\ <<y, x>>[1] = y /\ <<y, x>>[2] = x
    OBVIOUS
  <2>3. <<y, x>>[1] < <<y, x>>[2]
    BY <2>2
  <2> QED BY <2>1, <2>2, <2>3, Zenon
<1>2. IsWellFoundedOn(R, Nat)
  BY NatLessThanWellFounded
<1> HIDE DEF R
<1>3. PICK x \in I : \A y \in I : ~(<<y, x>> \in R)
  BY <1>2, WFMin
<1>4. \A y \in I : x <= y
  <2> SUFFICES ASSUME NEW y \in I, ~(x <= y) PROVE FALSE
    OBVIOUS
  <2>1. x \in Nat /\ y \in Nat /\ y < x
    OBVIOUS
  <2> QED BY <1>1, <1>3, <2>1, Zenon
<1> QED BY <1>4 DEF Min

\* and a largest one, if it is bounded.
LEMMA Largest ==
  ASSUME NEW n \in Nat, NEW I, I \subseteq 0..n, I # {}
  PROVE  Max(I) \in I /\ \A y \in I : y <= Max(I)
<1> DEFINE J == {n - k : k \in I}
<1>1. J \subseteq Nat /\ J # {}
  <2>1. \A k \in I : n - k \in Nat
    OBVIOUS
  <2>2. PICK k \in I : TRUE
    OBVIOUS
  <2>3. n - k \in J
    OBVIOUS
  <2> QED BY <2>1, <2>3
<1>2. Min(J) \in J /\ \A y \in J : Min(J) <= y
  BY <1>1, Smallest
<1>3. PICK x \in I : Min(J) = n - x
  BY <1>2
<1>4. \A y \in I : y <= x
  <2> SUFFICES ASSUME NEW y \in I PROVE y <= x
    OBVIOUS
  <2>1. n - y \in J /\ x \in 0..n /\ y \in 0..n
    OBVIOUS
  <2> HIDE DEF J
  <2> QED BY <1>2, <1>3, <2>1
<1>5. \A y \in I : x >= y
  BY <1>3, <1>4
<1> QED BY <1>5 DEF Max

\* The smaller and the larger of two numbers
LEMMA OfTwo ==
  ASSUME NEW a \in Int, NEW b \in Int
  PROVE  Min({a, b}) = (IF a <= b THEN a ELSE b) /\ Max({a, b}) = (IF a >= b THEN a ELSE b)
  BY DEF Min, Max

\* Consecutive numbers from i on
LEMMA Consecutive ==
  ASSUME NEW i \in Nat, NEW n \in Nat, NEW I, I \subseteq i..n, i \in I,
         \A k \in I : \A l \in i..k : l \in I
  PROVE  /\ Max(I) \in i..n /\ I = i..Max(I) /\ Cardinality(I) = Max(I) - i + 1
<1>1. I \subseteq 0..n /\ I # {}
  OBVIOUS
<1>2. Max(I) \in I /\ \A y \in I : y <= Max(I)
  BY <1>1, Largest
<1>3. Max(I) \in i..n
  BY <1>2
<1>4. I = i..Max(I)
  <2>1. \A y \in I : y \in i..Max(I)
    BY <1>2, <1>3
  <2>2. \A y \in i..Max(I) : y \in I
    BY <1>2
  <2> QED BY <2>1, <2>2
<1>5. Cardinality(i..Max(I)) = Max(I) - i + 1
  BY <1>3, FS_Interval
<1> QED BY <1>3, <1>4, <1>5

\* The first numbers of a list
LEMMA Initial ==
  ASSUME NEW n \in Nat, NEW I, I \subseteq 1..n, \A k \in I : \A l \in 1..k : l \in I
  PROVE  Cardinality(I) \in 0..n /\ I = 1..Cardinality(I)
<1>1. CASE I = {}
  <2>1. Cardinality(I) = 0
    BY <1>1, FS_EmptySet
  <2> QED BY <1>1, <2>1
<1>2. CASE I # {}
  <2>1. PICK k \in I : TRUE
    BY <1>2
  <2>2. 1 \in I
    BY <2>1
  <2>3. /\ Max(I) \in 1..n /\ I = 1..Max(I) /\ Cardinality(I) = Max(I) - 1 + 1
    BY <2>2, Consecutive
  <2>4. Cardinality(I) = Max(I)
    BY <2>3
  <2> QED BY <2>3, <2>4
<1> QED BY <1>1, <1>2

-----------------------------------------------------------------------------
(* What a list says of an address *)

\* Region q holds address a with flags x,
Covers(q, a, x) == q.base <= a /\ a < End(q) /\ q.flags = x
\* some region of the list does,
At(A, a, x) == \E k \in 1..Len(A) : Covers(A[k], a, x)
\* list B says the same as A,
Same(A, B) == \A a \in Nat : \A x : At(B, a, x) <=> At(A, a, x)
\* and it says the same except that r is reserved with f.
Adds(A, r, f, B) ==
  \A a \in Nat : \A x : At(B, a, x) <=> IF r.base <= a /\ a < End(r) THEN x = f ELSE At(A, a, x)
\* r lies within one region, and list B says the same as A except that r is free.
Holds(A, r) == \E k \in 1..Len(A) : A[k].base <= r.base /\ End(r) <= End(A[k])
Frees(A, r, B) == \A a \in Nat : \A x : At(B, a, x) <=> At(A, a, x) /\ ~(r.base <= a /\ a < End(r))

\* A list in which region g takes the place of others
LEMMA SpliceAt ==
  ASSUME NEW T, NEW A \in Seq(T), NEW i \in 1..(Len(A) + 1), NEW m \in (i - 1)..Len(A), NEW g \in T,
         NEW a, NEW x
  PROVE  At(Splice(A, i, m, g), a, x) <=>
           Covers(g, a, x) \/ \E k \in 1..Len(A) : (k < i \/ k > m) /\ Covers(A[k], a, x)
<1> DEFINE S == Splice(A, i, m, g)
           n == Len(A) - m + i
<1>1. /\ Len(S) = n /\ (\A k \in 1..(i - 1) : S[k] = A[k])
      /\ S[i] = g /\ \A k \in (i + 1)..n : S[k] = A[k - i + m]
  BY SpliceIs
<1> HIDE DEF S
<1>2. Len(A) \in Nat /\ i \in Nat /\ m \in Nat /\ i <= n /\ n \in Nat
  OBVIOUS
<1>3. ASSUME NEW k \in 1..n, Covers(S[k], a, x)
      PROVE  Covers(g, a, x) \/ \E l \in 1..Len(A) : (l < i \/ l > m) /\ Covers(A[l], a, x)
  <2>1. CASE k < i
    <3>1. k \in 1..(i - 1) /\ k \in 1..Len(A)
      BY <1>2, <2>1
    <3> QED BY <1>1, <1>3, <2>1, <3>1
  <2>2. CASE k = i
    BY <1>1, <1>3, <2>2
  <2>3. CASE k > i
    <3>1. k \in (i + 1)..n /\ k - i + m \in 1..Len(A) /\ k - i + m > m
      BY <1>2, <2>3
    <3>2. S[k] = A[k - i + m]
      BY <1>1, <3>1
    <3> QED BY <1>3, <3>1, <3>2
  <2> QED BY <1>2, <2>1, <2>2, <2>3
<1>4. ASSUME NEW l \in 1..Len(A), l < i \/ l > m, Covers(A[l], a, x) PROVE \E k \in 1..n : Covers(S[k], a, x)
  <2>1. CASE l < i
    <3>1. l \in 1..(i - 1) /\ l \in 1..n
      BY <1>2, <2>1
    <3> QED BY <1>1, <1>4, <3>1
  <2>2. CASE l > m
    <3>1. l - m + i \in (i + 1)..n /\ l - m + i \in 1..n /\ (l - m + i) - i + m = l
      BY <1>2, <2>2
    <3>2. S[l - m + i] = A[l]
      BY <1>1, <3>1
    <3> QED BY <1>4, <3>1, <3>2
  <2> QED BY <1>4, <2>1, <2>2
<1>5. i \in 1..n
  BY <1>2
<1>6. At(S, a, x) <=> Covers(g, a, x) \/ \E k \in 1..Len(A) : (k < i \/ k > m) /\ Covers(A[k], a, x)
  <2> HIDE DEF n
  <2> QED BY <1>1, <1>3, <1>4, <1>5 DEF At
<1> QED BY <1>6 DEF S

-----------------------------------------------------------------------------
(* Adding a region *)

\* lmb_resize_regions() makes one region of those that r overlaps from region i
\* on, or finds one with flags among them.  Region i may reach into those
\* above it, but no further than r.
LEMMA ResizeGood ==
  ASSUME NEW F, NEW A \in Seq(Regions(F)), NEW i \in 1..Len(A), NEW r,
         r.base \in Nat, r.size \in Nat, r.size > 0, End(r) = r.base + r.size, End(r) <= AddrMax + 1,
         lmb_addrs_overlap(r, A[i]),
         \A k, l \in 1..Len(A) : k < l /\ k # i => End(A[k]) <= A[l].base,
         \A k \in 1..(i - 1) : End(A[k]) <= r.base,
         \A k \in (i + 1)..Len(A) : r.base <= A[k].base,
         End(A[i]) <= End(r) \/ \A k \in (i + 1)..Len(A) : End(A[i]) <= A[k].base
  PROVE  \/ /\ lmb_resize_regions(A, i, r) = Failed(A)
            /\ \E k \in i..Len(A) : lmb_addrs_overlap(r, A[k]) /\ A[k].flags # LMB_NONE
         \/ /\ lmb_resize_regions(A, i, r).ret = 0
            /\ Good(lmb_resize_regions(A, i, r).lst, F)
            /\ i <= Len(lmb_resize_regions(A, i, r).lst)
            /\ Adds(A, r, LMB_NONE, lmb_resize_regions(A, i, r).lst)
<1> DEFINE over == {k \in i..Len(A) : lmb_addrs_overlap(r, A[k])}
           m == Max(over)
           base == Min({r.base, A[i].base})
           end == Max({End(A[m]), End(r)})
           g == Region(base, end - base, A[i].flags)
<1>1. Len(A) \in Nat /\ i \in Nat /\ \A k \in 1..Len(A) : A[k] \in Regions(F)
  OBVIOUS
<1>2. \A k \in 1..Len(A) : /\ A[k].base \in Nat /\ A[k].size \in Nat /\ A[k].size > 0 /\ A[k].flags \in F
                           /\ End(A[k]) = A[k].base + A[k].size /\ End(A[k]) \in Nat
                           /\ End(A[k]) <= AddrMax + 1 /\ A[k].base < End(A[k])
  BY <1>1, RegionIs
<1>0. r.base \in Nat /\ End(r) \in Nat /\ r.base < End(r) /\ AddrMax \in Nat
  BY AddrAssumption
<1>3. ASSUME NEW k \in over, NEW l \in i..k PROVE l \in over
  <2>1. k \in i..Len(A) /\ r.base < End(A[k]) /\ A[k].base < End(r) /\ l \in i..Len(A) /\ l \in 1..Len(A)
    BY <1>1 DEF lmb_addrs_overlap
  <2>2. CASE l = i
    BY <2>1, <2>2
  <2>3. CASE l = k
    BY <2>3
  <2>4. CASE l # i /\ l # k
    <3>1. l < k /\ l \in (i + 1)..Len(A) /\ k \in 1..Len(A)
      BY <1>1, <2>1, <2>4
    <3>2. End(A[l]) <= A[k].base /\ r.base <= A[l].base
      BY <2>1, <2>4, <3>1
    <3>3. A[l].base \in Nat /\ A[l].base < End(A[l]) /\ End(A[l]) \in Nat /\ A[k].base \in Nat
      BY <1>2, <2>1, <3>1
    <3>4. A[k].base < End(r) /\ r.base \in Nat /\ End(r) \in Nat
      BY <1>0, <2>1
    <3>5. r.base < End(A[l]) /\ A[l].base < End(r)
      BY <3>2, <3>3, <3>4
    <3> QED BY <2>1, <3>5 DEF lmb_addrs_overlap
  <2> QED BY <2>2, <2>3, <2>4
<1>4. m \in i..Len(A) /\ over = i..m /\ Cardinality(over) = m - i + 1
  <2>1. i \in over /\ over \subseteq i..Len(A)
    BY <1>1
  <2> HIDE DEF over
  <2> QED BY <1>1, <1>3, <2>1, Consecutive
<1>5. CASE \E k \in over : A[k].flags # LMB_NONE
  BY <1>5 DEF lmb_resize_regions
<1>6. CASE ~ \E k \in over : A[k].flags # LMB_NONE
  <2>1. lmb_resize_regions(A, i, r) = Done(SubSeq(A, 1, i - 1) \o <<g>> \o SubSeq(A, i + Cardinality(over), Len(A)))
    BY <1>6 DEF lmb_resize_regions
  <2>2. i + Cardinality(over) = m + 1
    BY <1>1, <1>4
  <2>3. lmb_resize_regions(A, i, r) = Done(Splice(A, i, m, g))
    BY <2>1, <2>2 DEF Splice
  <2>4. m \in 1..Len(A) /\ m \in Nat
    BY <1>1, <1>4
  <2>5. \A k \in (m + 1)..Len(A) :
          k \notin over /\ k \in 1..Len(A) /\ k \in (i + 1)..Len(A) /\ k \in i..Len(A) /\ m < k
    <3> HIDE DEF over, m
    <3> QED BY <1>1, <1>4
  <2>6. \A k \in (m + 1)..Len(A) : End(r) <= A[k].base
    <3> SUFFICES ASSUME NEW k \in (m + 1)..Len(A) PROVE End(r) <= A[k].base
      OBVIOUS
    <3>1. ~(r.base < End(A[k]) /\ A[k].base < End(r))
      BY <2>5 DEF lmb_addrs_overlap
    <3>2. r.base <= A[k].base
      BY <2>5
    <3>3. A[k].base \in Nat /\ A[k].base < End(A[k]) /\ End(A[k]) \in Nat
      BY <1>2, <2>5
    <3> QED BY <1>0, <3>1, <3>2, <3>3
  <2>7. \A k \in (m + 1)..Len(A) : End(A[m]) <= A[k].base
    <3> SUFFICES ASSUME NEW k \in (m + 1)..Len(A) PROVE End(A[m]) <= A[k].base
      OBVIOUS
    <3>1. CASE m # i
      <4>1. m < k
        BY <2>4, <2>5
      <4> QED BY <2>4, <2>5, <3>1, <4>1
    <3>2. CASE m = i
      <4>1. End(r) <= A[k].base /\ A[k].base \in Nat /\ End(A[i]) \in Nat /\ k \in (i + 1)..Len(A)
        BY <1>2, <2>5, <2>6
      <4>2. End(A[i]) <= A[k].base
        BY <1>0, <4>1
      <4> QED BY <3>2, <4>2
    <3> QED BY <3>1, <3>2
  <2> HIDE DEF over, m
  <2>20. /\ A[i].base \in Int /\ A[i].base < End(A[i]) /\ A[i].base \in Nat /\ A[i].flags \in F
         /\ End(A[m]) \in Int /\ r.base \in Int /\ End(r) \in Int /\ End(A[m]) <= AddrMax + 1
         /\ End(A[m]) \in Nat
    BY <1>0, <1>2, <2>4
  <2>8. base = (IF r.base <= A[i].base THEN r.base ELSE A[i].base)
    BY <2>20, OfTwo
  <2>9. end = (IF End(A[m]) >= End(r) THEN End(A[m]) ELSE End(r))
    BY <2>20, OfTwo
  <2> HIDE DEF base, end
  <2>10. base \in Nat /\ end \in Nat /\ end - base \in Nat /\ end - base > 0 /\ base + (end - base) <= AddrMax + 1
    BY <1>0, <2>8, <2>9, <2>20
  <2>11. g \in Regions(F) /\ g.base = base /\ End(g) = base + (end - base) /\ g.flags = A[i].flags
    BY <2>10, <2>20, RegionMade
  <2> HIDE DEF g
  <2>12. End(g) = end
    BY <2>10, <2>11
  <2>13. \A k \in (m + 1)..Len(A) : End(g) <= A[k].base
    BY <2>6, <2>7, <2>9, <2>12
  <2>14. \A k \in 1..(i - 1) : End(A[k]) <= g.base
    <3> SUFFICES ASSUME NEW k \in 1..(i - 1) PROVE End(A[k]) <= g.base
      OBVIOUS
    <3>1. k \in 1..Len(A) /\ k < i /\ k # i
      BY <1>1
    <3>2. End(A[k]) <= A[i].base /\ End(A[k]) <= r.base
      BY <3>1
    <3> QED BY <2>8, <2>11, <3>2
  <2>15. \A k, l \in 1..Len(A) : k < l /\ k \notin i..m /\ l \notin i..m => End(A[k]) <= A[l].base
    <3>1. i \in i..m
      BY <1>1, <1>4
    <3> QED BY <3>1
  <2>16. i \in 1..(Len(A) + 1) /\ m \in (i - 1)..Len(A)
    BY <1>1, <1>4
  <2>17. Good(Splice(A, i, m, g), F)
    BY <2>11, <2>13, <2>14, <2>15, <2>16, SpliceGood
  <2>18. Len(Splice(A, i, m, g)) = Len(A) - m + i
    <3>1. g \in Regions(F)
      BY <2>11
    <3>2. /\ Splice(A, i, m, g) \in Seq(Regions(F)) /\ Len(Splice(A, i, m, g)) = Len(A) - m + i
          /\ Splice(A, i, m, g)[i] = g
      BY <2>16, <3>1, SpliceIs
    <3> QED BY <3>2
  <2>19. i <= Len(Splice(A, i, m, g))
    BY <1>1, <2>4, <2>18
  <2>21. \A k \in i..m : A[k].flags = LMB_NONE /\ k \in 1..Len(A) /\ lmb_addrs_overlap(r, A[k])
    BY <1>1, <1>4, <1>6 DEF over
  <2>22. g.flags = LMB_NONE /\ i \in i..m /\ m \in i..m
    BY <1>1, <1>4, <2>11, <2>21
  <2>23. ASSUME NEW a \in Nat, NEW k \in i..m, A[k].base <= a, a < End(A[k]) PROVE g.base <= a /\ a < End(g)
    <3>1. A[k].base \in Nat /\ End(A[k]) \in Nat /\ k \in 1..Len(A)
      BY <1>2, <2>21
    <3>2. g.base <= A[k].base
      <4>1. CASE k = i
        BY <2>8, <2>11, <2>20, <4>1
      <4>2. CASE k # i
        <5>0. k \in (i + 1)..Len(A)
          BY <1>1, <1>4, <3>1, <4>2
        <5>1. r.base <= A[k].base
          BY <5>0
        <5> QED BY <1>0, <2>8, <2>11, <2>20, <3>1, <5>1
      <4> QED BY <4>1, <4>2
    <3>3. End(A[k]) <= End(g)
      <4>1. CASE k = m
        BY <1>0, <2>9, <2>12, <2>20, <4>1
      <4>2. CASE k # m /\ (k # i \/ \A l \in (i + 1)..Len(A) : End(A[i]) <= A[l].base)
        <5>1. k < m /\ (k = i => m \in (i + 1)..Len(A))
          BY <1>1, <1>4, <2>4, <4>2
        <5>2. End(A[k]) <= A[m].base
          BY <2>4, <3>1, <4>2, <5>1
        <5>3. A[m].base < End(A[m]) /\ A[m].base \in Nat
          BY <1>2, <2>4
        <5> QED BY <1>0, <2>9, <2>12, <2>20, <3>1, <5>2, <5>3
      <4>3. CASE k = i /\ End(A[i]) <= End(r)
        BY <1>0, <2>9, <2>12, <2>20, <3>1, <4>3
      <4> QED BY <4>1, <4>2, <4>3
    <3>4. g.base \in Nat /\ End(g) \in Nat
      BY <2>10, <2>11, <2>12
    <3> QED BY <2>23, <3>1, <3>2, <3>3, <3>4
  <2>24. ASSUME NEW a \in Nat, g.base <= a, a < End(g)
         PROVE  \/ r.base <= a /\ a < End(r)
                \/ A[i].base <= a /\ a < End(A[i])
                \/ A[m].base <= a /\ a < End(A[m])
    <3>1. r.base < End(A[i]) /\ A[m].base < End(r)
      BY <2>21, <2>22 DEF lmb_addrs_overlap
    <3>2. End(A[i]) \in Nat /\ A[m].base \in Nat
      BY <1>2, <2>4
    <3>3. base <= a /\ a < end
      BY <2>11, <2>12, <2>24
    <3> QED BY <1>0, <2>8, <2>9, <2>20, <3>1, <3>2, <3>3
  <2>25. ASSUME NEW a \in Nat, NEW x
         PROVE  At(Splice(A, i, m, g), a, x) <=> IF r.base <= a /\ a < End(r) THEN x = LMB_NONE ELSE At(A, a, x)
    <3>1. At(Splice(A, i, m, g), a, x) <=>
            Covers(g, a, x) \/ \E k \in 1..Len(A) : (k < i \/ k > m) /\ Covers(A[k], a, x)
      BY <2>11, <2>16, SpliceAt
    <3>2. CASE r.base <= a /\ a < End(r)
      <4>1. g.base <= a /\ a < End(g)
        BY <1>0, <2>8, <2>9, <2>10, <2>11, <2>12, <2>20, <3>2
      <4>2. ASSUME NEW k \in 1..Len(A), k < i \/ k > m PROVE ~Covers(A[k], a, x)
        <5>1. CASE k < i
          <6>1. k \in 1..(i - 1)
            BY <1>1, <5>1
          <6>2. End(A[k]) <= r.base /\ End(A[k]) \in Nat
            BY <1>2, <6>1
          <6> QED BY <1>0, <3>2, <6>2 DEF Covers
        <5>2. CASE k > m
          <6>1. k \in (m + 1)..Len(A)
            BY <1>1, <2>4, <5>2
          <6>2. End(r) <= A[k].base /\ A[k].base \in Nat
            BY <1>2, <2>6, <6>1
          <6> QED BY <1>0, <3>2, <6>2 DEF Covers
        <5> QED BY <4>2, <5>1, <5>2
      <4> QED BY <2>22, <3>1, <3>2, <4>1, <4>2 DEF Covers
    <3>3. CASE ~(r.base <= a /\ a < End(r))
      <4>1. ASSUME NEW k \in 1..Len(A) PROVE k < i \/ k > m \/ k \in i..m
        BY <1>1, <2>4
      <4>2. Covers(g, a, x) => \E k \in i..m : Covers(A[k], a, x)
        BY <2>21, <2>22, <2>24, <3>3 DEF Covers
      <4>3. (\E k \in i..m : Covers(A[k], a, x)) => Covers(g, a, x)
        BY <2>21, <2>22, <2>23 DEF Covers
      <4>4. \A k \in i..m : k \in 1..Len(A)
        BY <2>21
      <4> QED BY <3>1, <3>3, <4>1, <4>2, <4>3, <4>4 DEF At
    <3> QED BY <3>2, <3>3
  <2>26. Adds(A, r, LMB_NONE, Splice(A, i, m, g))
    BY <2>25 DEF Adds
  <2> QED BY <2>3, <2>17, <2>19, <2>26 DEF Done
<1> QED BY <1>5, <1>6

\* The list with another base and size in region i
SetRegion(A, i, b, s) == [A EXCEPT ![i] = Region(b, s, A[i].flags)]

\* Its elements,
LEMMA Changed ==
  ASSUME NEW F, NEW A \in Seq(Regions(F)), NEW i \in 1..Len(A), NEW b \in Nat, NEW s \in Nat, s > 0,
         b + s <= AddrMax + 1
  PROVE  /\ SetRegion(A, i, b, s) \in Seq(Regions(F)) /\ Len(SetRegion(A, i, b, s)) = Len(A)
         /\ SetRegion(A, i, b, s)[i] = Region(b, s, A[i].flags)
         /\ SetRegion(A, i, b, s)[i].base = b /\ SetRegion(A, i, b, s)[i].size = s
         /\ SetRegion(A, i, b, s)[i].flags = A[i].flags /\ End(SetRegion(A, i, b, s)[i]) = b + s
         /\ \A k \in 1..Len(A) : k # i => SetRegion(A, i, b, s)[k] = A[k]
<1>1. A[i] \in Regions(F) /\ A[i].flags \in F
  BY RegionIs
<1> DEFINE g == Region(b, s, A[i].flags)
           B == SetRegion(A, i, b, s)
<1>3. g \in Regions(F) /\ g.base = b /\ g.size = s /\ g.flags = A[i].flags /\ End(g) = b + s
  BY <1>1, RegionMade
<1>4. B = [A EXCEPT ![i] = g]
  BY DEF SetRegion
<1> HIDE DEF g, B
<1>5. B \in Seq(Regions(F)) /\ Len(B) = Len(A) /\ B[i] = g /\ \A k \in 1..Len(A) : k # i => B[k] = A[k]
  BY <1>3, <1>4
<1> QED BY <1>3, <1>5 DEF g, B

\* and the list without region i
LEMMA Without ==
  ASSUME NEW T, NEW A \in Seq(T), NEW i \in 1..Len(A), NEW B, B = RemoveAt(A, i)
  PROVE  /\ B \in Seq(T) /\ Len(B) = Len(A) - 1
         /\ \A k \in 1..(i - 1) : B[k] = A[k]
         /\ \A k \in i..(Len(A) - 1) : B[k] = A[k + 1]
<1> DEFINE p == SubSeq(A, 1, i - 1)
           q == SubSeq(A, i + 1, Len(A))
<1>1. Len(A) \in Nat /\ i \in Nat
  OBVIOUS
<1>2. p \in Seq(T) /\ Len(p) = i - 1 /\ \A k \in 1..(i - 1) : p[k] = A[k]
  <2>1. \A k \in 1..(i - 1) : k \in 1..Len(A) /\ A[k] \in T
    BY <1>1
  <2> QED BY <1>1, <2>1
<1>3. q \in Seq(T) /\ Len(q) = Len(A) - i /\ \A k \in 1..(Len(A) - i) : q[k] = A[k + i]
  <2>1. \A k \in (i + 1)..Len(A) : A[k] \in T
    BY <1>1
  <2> QED BY <1>1, <2>1
<1>4. B = p \o q
  BY DEF RemoveAt
<1> HIDE DEF p, q
<1>5. p \in Seq(T) /\ q \in Seq(T)
  BY <1>2, <1>3
<1>6. /\ p \o q \in Seq(T) /\ Len(p \o q) = Len(p) + Len(q)
      /\ \A k \in 1..Len(p) : (p \o q)[k] = p[k]
      /\ \A k \in 1..(Len(p) + Len(q)) : k > Len(p) => (p \o q)[k] = q[k - Len(p)]
  BY <1>5, Joined
<1>7. ASSUME NEW k \in i..(Len(A) - 1) PROVE B[k] = A[k + 1]
  <2>1. k \in 1..(Len(p) + Len(q)) /\ k > Len(p) /\ k - Len(p) \in 1..(Len(A) - i) /\ (k - Len(p)) + i = k + 1
    BY <1>1, <1>2, <1>3
  <2> QED BY <1>3, <1>4, <1>6, <2>1
<1>8. Len(B) = Len(A) - 1 /\ B \in Seq(T)
  BY <1>1, <1>2, <1>3, <1>4, <1>6
<1>9. \A k \in 1..(i - 1) : B[k] = A[k]
  BY <1>1, <1>2, <1>4, <1>6
<1> QED BY <1>7, <1>8, <1>9

\* What these lists say
LEMMA ChangedAt ==
  ASSUME NEW F, NEW A \in Seq(Regions(F)), NEW i \in 1..Len(A), NEW b \in Nat, NEW s \in Nat, s > 0,
         b + s <= AddrMax + 1, NEW a, NEW x
  PROVE  At(SetRegion(A, i, b, s), a, x) <=>
           \/ b <= a /\ a < b + s /\ x = A[i].flags
           \/ \E k \in 1..Len(A) : k # i /\ Covers(A[k], a, x)
<1> DEFINE B == SetRegion(A, i, b, s)
<1>1. /\ B \in Seq(Regions(F)) /\ Len(B) = Len(A)
      /\ B[i].base = b /\ B[i].flags = A[i].flags /\ End(B[i]) = b + s
      /\ \A k \in 1..Len(A) : k # i => B[k] = A[k]
  BY Changed
<1> HIDE DEF B
<1>2. Covers(B[i], a, x) <=> b <= a /\ a < b + s /\ x = A[i].flags
  BY <1>1 DEF Covers
<1>3. At(B, a, x) <=> Covers(B[i], a, x) \/ \E k \in 1..Len(A) : k # i /\ Covers(A[k], a, x)
  BY <1>1 DEF At
<1> QED BY <1>2, <1>3 DEF B

\* without a region
LEMMA WithoutAt ==
  ASSUME NEW T, NEW A \in Seq(T), NEW i \in 1..Len(A), NEW a, NEW x
  PROVE  At(RemoveAt(A, i), a, x) <=> \E k \in 1..Len(A) : k # i /\ Covers(A[k], a, x)
<1> DEFINE B == RemoveAt(A, i)
<1>0. B = RemoveAt(A, i)
  OBVIOUS
<1> HIDE DEF B
<1>1. /\ B \in Seq(T) /\ Len(B) = Len(A) - 1
      /\ (\A k \in 1..(i - 1) : B[k] = A[k])
      /\ \A k \in i..(Len(A) - 1) : B[k] = A[k + 1]
  BY <1>0, Without
<1>2. Len(A) \in Nat /\ i \in Nat
  OBVIOUS
<1>3. ASSUME NEW k \in 1..Len(B), Covers(B[k], a, x) PROVE \E l \in 1..Len(A) : l # i /\ Covers(A[l], a, x)
  <2>1. CASE k < i
    <3>1. k \in 1..(i - 1) /\ k \in 1..Len(A) /\ k # i
      BY <1>2, <2>1
    <3> QED BY <1>1, <1>3, <3>1
  <2>2. CASE ~(k < i)
    <3>1. k \in i..(Len(A) - 1) /\ k + 1 \in 1..Len(A) /\ k + 1 # i
      BY <1>1, <1>2, <2>2
    <3> QED BY <1>1, <1>3, <3>1
  <2> QED BY <2>1, <2>2
<1>4. ASSUME NEW l \in 1..Len(A), l # i, Covers(A[l], a, x) PROVE \E k \in 1..Len(B) : Covers(B[k], a, x)
  <2>1. CASE l < i
    <3>1. l \in 1..(i - 1) /\ l \in 1..Len(B)
      BY <1>1, <1>2, <2>1
    <3> QED BY <1>1, <1>4, <3>1
  <2>2. CASE ~(l < i)
    <3>1. l - 1 \in i..(Len(A) - 1) /\ l - 1 \in 1..Len(B) /\ (l - 1) + 1 = l
      BY <1>1, <1>2, <1>4, <2>2
    <3>2. B[l - 1] = A[l]
      BY <1>1, <3>1
    <3> QED BY <1>4, <3>1, <3>2
  <2> QED BY <2>1, <2>2
<1>5. At(B, a, x) <=> \E k \in 1..Len(A) : k # i /\ Covers(A[k], a, x)
  BY <1>3, <1>4 DEF At
<1> QED BY <1>5 DEF B

\* A region that meets none in the list finds its place in it.
LEMMA InsertGood ==
  ASSUME NEW F, NEW A, Good(A, F), NEW g \in Regions(F),
         \A k \in 1..Len(A) : End(A[k]) <= g.base \/ End(g) <= A[k].base
  PROVE  Good(InsertSorted(A, g), F) /\ Adds(A, g, g.flags, InsertSorted(A, g))
<1> DEFINE I == {k \in DOMAIN A : A[k].base <= g.base}
           m == Cardinality(I)
<1>1. A \in Seq(Regions(F)) /\ Len(A) \in Nat /\ DOMAIN A = 1..Len(A) /\ Ascends(A)
  BY DEF Good
<1>2. \A k \in 1..Len(A) : A[k].base \in Nat /\ End(A[k]) \in Nat /\ A[k].base < End(A[k])
  BY <1>1, RegionIs
<1>3. g.base \in Nat /\ End(g) \in Nat /\ g.base < End(g)
  BY RegionIs
<1>4. ASSUME NEW k \in I, NEW l \in 1..k PROVE l \in I
  <2>1. k \in 1..Len(A) /\ l \in 1..Len(A) /\ A[k].base <= g.base
    BY <1>1
  <2>2. CASE l = k
    BY <2>2
  <2>3. CASE l # k
    <3>1. End(A[l]) <= A[k].base
      BY <1>1, <2>1, <2>3 DEF Ascends
    <3>2. A[l].base <= g.base
      BY <1>2, <1>3, <2>1, <3>1
    <3> QED BY <1>1, <2>1, <3>2
  <2> QED BY <2>2, <2>3
<1>5. m \in 0..Len(A) /\ I = 1..m
  <2>1. I \subseteq 1..Len(A)
    BY <1>1
  <2> HIDE DEF I
  <2> QED BY <1>1, <1>4, <2>1, Initial
<1>6. \A k \in 1..Len(A) : k \in 1..m <=> A[k].base <= g.base
  <2>1. \A k \in 1..Len(A) : k \in I <=> A[k].base <= g.base
    BY <1>1
  <2> QED BY <1>5, <2>1
<1>7. InsertSorted(A, g) = Splice(A, m + 1, m, g)
  <2>1. InsertSorted(A, g) = InsertAt(A, 1 + m, g)
    BY DEF InsertSorted
  <2>2. 1 + m = m + 1 /\ (m + 1) - 1 = m
    BY <1>5
  <2> HIDE DEF m
  <2> QED BY <2>1, <2>2 DEF InsertAt, Splice
<1> HIDE DEF m, I
<1>8. m + 1 \in 1..(Len(A) + 1) /\ m \in ((m + 1) - 1)..Len(A) /\ (m + 1)..m = {} /\ (m + 1) - 1 = m
  BY <1>1, <1>5
<1>9. ASSUME NEW k \in 1..((m + 1) - 1) PROVE End(A[k]) <= g.base
  <2>1. k \in 1..m /\ k \in 1..Len(A)
    BY <1>1, <1>5
  <2>2. A[k].base <= g.base
    BY <1>6, <2>1
  <2> QED BY <1>2, <1>3, <2>1, <2>2
<1>10. ASSUME NEW k \in (m + 1)..Len(A) PROVE End(g) <= A[k].base
  <2>1. k \notin 1..m /\ k \in 1..Len(A)
    BY <1>1, <1>5
  <2>2. ~(A[k].base <= g.base)
    BY <1>6, <2>1
  <2> QED BY <1>2, <1>3, <2>1, <2>2
<1>11. \A k, l \in 1..Len(A) : k < l => End(A[k]) <= A[l].base
  BY <1>1 DEF Ascends
<1>12. Good(Splice(A, m + 1, m, g), F)
  BY <1>1, <1>8, <1>9, <1>10, <1>11, SpliceGood
<1>13. ASSUME NEW a \in Nat, NEW x
       PROVE  At(Splice(A, m + 1, m, g), a, x) <=>
                IF g.base <= a /\ a < End(g) THEN x = g.flags ELSE At(A, a, x)
  <2> DEFINE i == m + 1
  <2>1. i \in 1..(Len(A) + 1) /\ m \in (i - 1)..Len(A) /\ A \in Seq(Regions(F))
    BY <1>1, <1>8
  <2>2. i = m + 1 /\ m \in Nat
    BY <1>5
  <2> HIDE DEF i
  <2>3. At(Splice(A, i, m, g), a, x) <=>
          Covers(g, a, x) \/ \E k \in 1..Len(A) : (k < i \/ k > m) /\ Covers(A[k], a, x)
    BY <2>1, SpliceAt
  <2>4. \A k \in 1..Len(A) : k < i \/ k > m
    BY <1>1, <2>2
  <2>5. At(Splice(A, i, m, g), a, x) <=> Covers(g, a, x) \/ At(A, a, x)
    BY <2>3, <2>4 DEF At
  <2>6. CASE g.base <= a /\ a < End(g)
    <3>1. ASSUME NEW k \in 1..Len(A) PROVE ~Covers(A[k], a, x)
      <4>1. End(A[k]) <= g.base \/ End(g) <= A[k].base
        OBVIOUS
      <4> QED BY <1>2, <1>3, <2>6, <4>1 DEF Covers
    <3>2. Covers(g, a, x) <=> x = g.flags
      BY <2>6 DEF Covers
    <3> QED BY <2>2, <2>5, <2>6, <3>1, <3>2 DEF At
  <2>7. CASE ~(g.base <= a /\ a < End(g))
    BY <2>2, <2>5, <2>7 DEF Covers
  <2> QED BY <2>6, <2>7
<1>14. Adds(A, g, g.flags, Splice(A, m + 1, m, g))
  BY <1>13 DEF Adds
<1> QED BY <1>7, <1>12, <1>14

\* The loop of lmb_add_region_flags() leaves an ascending list, except that
\* region i may reach into those above it if all of them have no flags.
Reaches(A, i, F) ==
  /\ A \in Seq(Regions(F)) /\ i \in 1..Len(A)
  /\ \A k, l \in 1..Len(A) : k < l /\ k # i => End(A[k]) <= A[l].base
  /\ \A k \in (i + 1)..Len(A) :
       /\ A[i].base <= A[k].base
       /\ End(A[i]) <= A[k].base \/ (A[k].flags = LMB_NONE /\ A[i].flags = LMB_NONE)

\* It is in order if region i ends before the next one.
LEMMA ReachesGood ==
  ASSUME NEW F, NEW A, NEW i, Reaches(A, i, F), i < Len(A) => End(A[i]) <= A[i + 1].base
  PROVE  Good(A, F)
<1>1. A \in Seq(Regions(F)) /\ i \in 1..Len(A) /\ Len(A) \in Nat
      /\ \A k, l \in 1..Len(A) : k < l /\ k # i => End(A[k]) <= A[l].base
  BY DEF Reaches
<1>2. \A k \in 1..Len(A) : A[k].base \in Nat /\ End(A[k]) \in Nat /\ A[k].base < End(A[k])
  BY <1>1, RegionIs
<1>3. ASSUME NEW l \in 1..Len(A), i < l PROVE End(A[i]) <= A[l].base
  <2>1. i + 1 \in 1..Len(A) /\ End(A[i]) <= A[i + 1].base
    BY <1>1, <1>3
  <2>2. CASE l = i + 1
    BY <2>1, <2>2
  <2>3. CASE l # i + 1
    <3>1. End(A[i + 1]) <= A[l].base
      BY <1>1, <1>3, <2>1, <2>3
    <3>2. A[i + 1].base < End(A[i + 1]) /\ A[i + 1].base \in Nat /\ End(A[i + 1]) \in Nat /\ End(A[i]) \in Nat /\ A[l].base \in Nat
      BY <1>1, <1>2, <2>1
    <3> QED BY <2>1, <3>1, <3>2
  <2> QED BY <2>2, <2>3
<1> QED BY <1>1, <1>3 DEF Good, Ascends

\* What follows the loop puts it in order.
LEMMA NextGood ==
  ASSUME NEW F, NEW c, NEW A, A = c.lst, NEW i, Reaches(A, i, F)
  PROVE  /\ Good(CoalesceNext(c, i).lst, F)
         /\ CoalesceNext(c, i) = c \/ (CoalesceNext(c, i).met = TRUE /\ CoalesceNext(c, i).ret = 0)
         /\ Same(A, CoalesceNext(c, i).lst)
<1> DEFINE chk == lmb_regions_check(A, i, i + 1)
<1>0. Same(A, A)
  BY DEF Same
<1>1. A \in Seq(Regions(F)) /\ i \in 1..Len(A) /\ Len(A) \in Nat /\ i \in Nat
      /\ \A k, l \in 1..Len(A) : k < l /\ k # i => End(A[k]) <= A[l].base
  BY DEF Reaches
<1>2. \A k \in 1..Len(A) : /\ A[k].base \in Nat /\ A[k].size \in Nat /\ A[k].size > 0
                           /\ End(A[k]) \in Nat /\ A[k].base < End(A[k]) /\ End(A[k]) <= AddrMax + 1
                           /\ End(A[k]) = A[k].base + A[k].size
  BY <1>1, RegionIs
<1>3. CASE i >= Len(A)
  <2>1. CoalesceNext(c, i) = c
    BY <1>1, <1>3 DEF CoalesceNext
  <2>2. Good(A, F)
    BY <1>1, <1>3, ReachesGood
  <2> QED BY <1>0, <2>1, <2>2
<1>4. CASE i < Len(A)
  <2>1. i + 1 \in 1..Len(A) /\ i + 1 \in (i + 1)..Len(A)
    BY <1>1, <1>4
  <2>2. /\ A[i].base <= A[i + 1].base
        /\ End(A[i]) <= A[i + 1].base \/ (A[i + 1].flags = LMB_NONE /\ A[i].flags = LMB_NONE)
    BY <2>1 DEF Reaches
  <2>3. /\ A[i].base \in Nat /\ End(A[i]) \in Nat /\ A[i].base < End(A[i])
        /\ A[i + 1].base \in Nat /\ End(A[i + 1]) \in Nat /\ A[i + 1].base < End(A[i + 1])
    BY <1>1, <1>2, <2>1
  <2>4. /\ chk = "LMB_RGN_ADJACENT" => CoalesceNext(c, i) = [ret |-> 0, met |-> TRUE, lst |-> lmb_coalesce_regions(A, i)]
        /\ chk = "LMB_RGN_OVERLAP" => CoalesceNext(c, i) =
             [ret |-> lmb_resize_regions(A, i, A[i]).ret, met |-> TRUE, lst |-> lmb_resize_regions(A, i, A[i]).lst]
        /\ chk = "no" => CoalesceNext(c, i) = c
    BY <1>1, <1>4 DEF CoalesceNext
  <2>5. /\ chk \in {"no", "LMB_RGN_ADJACENT", "LMB_RGN_OVERLAP"}
        /\ chk = "no" => \/ A[i].flags # A[i + 1].flags
                         \/ ~lmb_addrs_overlap(A[i], A[i + 1])
        /\ chk = "LMB_RGN_OVERLAP" => lmb_addrs_overlap(A[i], A[i + 1])
        /\ chk = "LMB_RGN_ADJACENT" => lmb_addrs_adjacent(A[i], A[i + 1]) # 0 /\ A[i].flags = A[i + 1].flags
    BY DEF lmb_regions_check
  <2> HIDE DEF chk
  <2>6. CASE chk = "no"
    <3>1. End(A[i]) <= A[i + 1].base
      <4>1. CASE A[i].flags # A[i + 1].flags
        BY <2>2, <4>1
      <4>2. CASE ~lmb_addrs_overlap(A[i], A[i + 1])
        BY <2>2, <2>3, <4>2 DEF lmb_addrs_overlap
      <4> QED BY <2>5, <2>6, <4>1, <4>2
    <3>2. Good(A, F)
      BY <3>1, ReachesGood
    <3> QED BY <1>0, <2>4, <2>6, <3>2
  <2>7. CASE chk = "LMB_RGN_OVERLAP"
    <3>1. A[i + 1].base < End(A[i])
      BY <2>5, <2>7 DEF lmb_addrs_overlap
    <3>2. A[i].flags = LMB_NONE
      BY <2>2, <2>3, <3>1
    <3>3. ASSUME NEW k \in i..Len(A), lmb_addrs_overlap(A[i], A[k]) PROVE A[k].flags = LMB_NONE
      <4>1. CASE k = i
        BY <3>2, <4>1
      <4>2. CASE k # i
        <5>1. k \in (i + 1)..Len(A) /\ k \in 1..Len(A)
          BY <1>1, <4>2
        <5>2. A[k].base < End(A[i]) /\ A[k].base \in Nat
          BY <1>2, <3>3, <5>1 DEF lmb_addrs_overlap
        <5>3. ~(End(A[i]) <= A[k].base)
          BY <2>3, <5>2
        <5> QED BY <5>1, <5>3 DEF Reaches
      <4> QED BY <4>1, <4>2
    <3>4. /\ A[i].base \in Nat /\ A[i].size \in Nat /\ A[i].size > 0 /\ End(A[i]) = A[i].base + A[i].size
          /\ End(A[i]) <= AddrMax + 1
      BY <1>1, <1>2
    <3>5. lmb_addrs_overlap(A[i], A[i]) /\ (\A k \in 1..(i - 1) : End(A[k]) <= A[i].base)
          /\ (\A k \in (i + 1)..Len(A) : A[i].base <= A[k].base) /\ End(A[i]) <= End(A[i])
      <4>1. lmb_addrs_overlap(A[i], A[i]) /\ End(A[i]) <= End(A[i])
        BY <2>3 DEF lmb_addrs_overlap
      <4>2. \A k \in (i + 1)..Len(A) : A[i].base <= A[k].base
        BY DEF Reaches
      <4>3. ASSUME NEW k \in 1..(i - 1) PROVE End(A[k]) <= A[i].base
        <5>1. k \in 1..Len(A) /\ k < i /\ k # i
          BY <1>1
        <5> QED BY <1>1, <5>1
      <4> QED BY <4>1, <4>2, <4>3
    <3> DEFINE r == A[i]
    <3>6. \/ /\ lmb_resize_regions(A, i, r) = Failed(A)
             /\ \E k \in i..Len(A) : lmb_addrs_overlap(r, A[k]) /\ A[k].flags # LMB_NONE
          \/ /\ Good(lmb_resize_regions(A, i, r).lst, F) /\ lmb_resize_regions(A, i, r).ret = 0
             /\ Adds(A, r, LMB_NONE, lmb_resize_regions(A, i, r).lst)
      <4> HIDE DEF r
      <4>1. /\ r.base \in Nat /\ r.size \in Nat /\ r.size > 0 /\ End(r) = r.base + r.size
            /\ End(r) <= AddrMax + 1 /\ lmb_addrs_overlap(r, A[i]) /\ End(A[i]) <= End(r)
            /\ (\A k \in 1..(i - 1) : End(A[k]) <= r.base) /\ \A k \in (i + 1)..Len(A) : r.base <= A[k].base
        BY <3>4, <3>5 DEF r
      <4> QED BY <1>1, <4>1, ResizeGood
    <3>7. ASSUME NEW a \in Nat, NEW x, r.base <= a, a < End(r) PROVE x = LMB_NONE <=> At(A, a, x)
      <4>1. Covers(A[i], a, LMB_NONE)
        BY <3>2, <3>7 DEF Covers
      <4>2. ASSUME NEW k \in 1..Len(A), Covers(A[k], a, x) PROVE x = LMB_NONE
        <5>1. A[k].base \in Nat /\ End(A[k]) \in Nat /\ A[k].base <= a /\ a < End(A[k]) /\ x = A[k].flags
          BY <1>2, <4>2 DEF Covers
        <5>2. CASE k < i
          <6>1. End(A[k]) <= A[i].base
            BY <1>1, <5>2
          <6> QED BY <2>3, <3>7, <5>1, <6>1
        <5>3. CASE ~(k < i)
          <6>1. k \in i..Len(A)
            BY <1>1, <5>3
          <6>2. lmb_addrs_overlap(A[i], A[k])
            BY <2>3, <3>7, <5>1 DEF lmb_addrs_overlap
          <6> QED BY <3>3, <5>1, <6>1, <6>2
        <5> QED BY <5>2, <5>3
      <4> QED BY <1>1, <4>1, <4>2 DEF At
    <3> HIDE DEF r
    <3>8. Adds(A, r, LMB_NONE, lmb_resize_regions(A, i, r).lst) => Same(A, lmb_resize_regions(A, i, r).lst)
      BY <3>7 DEF Adds, Same
    <3> QED BY <2>4, <2>7, <3>3, <3>6, <3>8 DEF r
  <2>8. CASE chk = "LMB_RGN_ADJACENT"
    <3> DEFINE j == i + 1
               B == SetRegion(A, i, A[i].base, A[i].size + A[i + 1].size)
               S == RemoveAt(B, j)
    <3>1. A[i + 1].base = End(A[i])
      BY <2>2, <2>3, <2>5, <2>8 DEF lmb_addrs_adjacent
    <3>2. /\ A[i].base \in Nat /\ A[i].size + A[i + 1].size \in Nat /\ A[i].size + A[i + 1].size > 0
          /\ A[i].base + (A[i].size + A[i + 1].size) = End(A[i + 1]) /\ End(A[i + 1]) <= AddrMax + 1
      <4>1. /\ A[i].base \in Nat /\ A[i].size \in Nat /\ A[i].size > 0 /\ End(A[i]) = A[i].base + A[i].size
            /\ A[i + 1].base \in Nat /\ A[i + 1].size \in Nat /\ A[i + 1].size > 0
            /\ End(A[i + 1]) = A[i + 1].base + A[i + 1].size /\ End(A[i + 1]) <= AddrMax + 1
        BY <1>1, <1>2, <2>1
      <4> QED BY <3>1, <4>1
    <3>3. B = [A EXCEPT ![i].size = @ + A[i + 1].size]
      <4>1. A \in Seq(Regions(F)) /\ i \in 1..Len(A)
        BY <1>1
      <4>2. A[i] = Region(A[i].base, A[i].size, A[i].flags)
        BY <4>1, RegionIs
      <4>3. [A[i] EXCEPT !.size = @ + A[i + 1].size] = Region(A[i].base, A[i].size + A[i + 1].size, A[i].flags)
        BY <4>2 DEF Region
      <4> QED BY <4>1, <4>3 DEF SetRegion
    <3>4. /\ B \in Seq(Regions(F)) /\ Len(B) = Len(A) /\ B[i].base = A[i].base /\ End(B[i]) = End(A[i + 1])
          /\ B[i].flags = A[i].flags
          /\ \A k \in 1..Len(A) : k # i => B[k] = A[k]
      <4> HIDE DEF B
      <4> DEFINE b == A[i].base
                 s == A[i].size + A[i + 1].size
      <4>0. /\ A \in Seq(Regions(F)) /\ i \in 1..Len(A) /\ b \in Nat /\ s \in Nat /\ s > 0
            /\ b + s <= AddrMax + 1 /\ B = SetRegion(A, i, b, s) /\ b + s = End(A[i + 1])
        BY <1>1, <3>2 DEF B
      <4> HIDE DEF b, s
      <4>1. /\ B \in Seq(Regions(F)) /\ Len(B) = Len(A) /\ B[i].base = b /\ End(B[i]) = b + s
            /\ B[i].flags = A[i].flags
            /\ \A k \in 1..Len(A) : k # i => B[k] = A[k]
        <5>0. A \in Seq(Regions(F)) /\ i \in 1..Len(A) /\ b \in Nat /\ s \in Nat /\ s > 0 /\ b + s <= AddrMax + 1
          BY <4>0
        <5>1. /\ SetRegion(A, i, b, s) \in Seq(Regions(F)) /\ Len(SetRegion(A, i, b, s)) = Len(A)
              /\ SetRegion(A, i, b, s)[i].base = b /\ End(SetRegion(A, i, b, s)[i]) = b + s
              /\ SetRegion(A, i, b, s)[i].flags = A[i].flags
              /\ \A k \in 1..Len(A) : k # i => SetRegion(A, i, b, s)[k] = A[k]
          BY <5>0, Changed
        <5> QED BY <4>0, <5>1
      <4> QED BY <4>0, <4>1 DEF b
    <3> HIDE DEF B
    <3>5. /\ S \in Seq(Regions(F)) /\ Len(S) = Len(B) - 1 /\ (\A k \in 1..i : S[k] = B[k])
          /\ \A k \in (i + 1)..(Len(B) - 1) : S[k] = B[k + 1]
      <4>1. B \in Seq(Regions(F)) /\ j \in 1..Len(B)
        BY <2>1, <3>4
      <4>2. j = i + 1 /\ j - 1 = i
        BY <1>1
      <4> HIDE DEF j
      <4>3. S = RemoveAt(B, j)
        OBVIOUS
      <4> HIDE DEF S
      <4>4. /\ S \in Seq(Regions(F)) /\ Len(S) = Len(B) - 1 /\ (\A k \in 1..(j - 1) : S[k] = B[k])
            /\ \A k \in j..(Len(B) - 1) : S[k] = B[k + 1]
        BY <4>1, <4>3, Without
      <4> QED BY <4>2, <4>4
    <3> HIDE DEF S, j
    <3>6. /\ Len(S) = Len(A) - (i + 1) + i /\ (\A k \in 1..(i - 1) : S[k] = A[k]) /\ S[i] = B[i]
          /\ \A k \in (i + 1)..(Len(A) - (i + 1) + i) : S[k] = A[k - i + (i + 1)]
      <4>0. Len(A) \in Nat /\ i \in Nat
        BY <1>1
      <4>1. Len(A) - (i + 1) + i = Len(A) - 1
        BY <4>0
      <4>2. \A k \in 1..(i - 1) : k \in 1..i /\ k \in 1..Len(A) /\ k # i
        BY <1>1
      <4>3. ASSUME NEW k \in (i + 1)..(Len(A) - 1) PROVE S[k] = A[k - i + (i + 1)]
        <5>1. k + 1 = k - i + (i + 1) /\ k + 1 \in 1..Len(A) /\ k + 1 # i
          BY <1>1
        <5> QED BY <3>4, <3>5, <5>1
      <4>4. i \in 1..i
        BY <1>1
      <4> QED BY <3>4, <3>5, <4>1, <4>2, <4>3, <4>4
    <3>7. \A k, l \in 1..Len(A) : k < l /\ k \notin i..(i + 1) /\ l \notin i..(i + 1) => End(A[k]) <= A[l].base
      <4>1. i \in i..(i + 1)
        BY <1>1
      <4> QED BY <1>1, <4>1
    <3>8. ASSUME NEW k \in 1..(i - 1) PROVE End(A[k]) <= B[i].base
      <4>1. k \in 1..Len(A) /\ k < i /\ k # i
        BY <1>1
      <4> QED BY <1>1, <3>4, <4>1
    <3>9. ASSUME NEW k \in ((i + 1) + 1)..Len(A) PROVE End(B[i]) <= A[k].base
      <4>1. k \in 1..Len(A) /\ i + 1 < k /\ i + 1 # i
        BY <1>1
      <4> QED BY <1>1, <2>1, <3>4, <4>1
    <3>10. i \in 1..(Len(A) + 1) /\ i + 1 \in (i - 1)..Len(A)
      BY <1>1, <1>4
    <3>11. Good(S, F)
      <4>1. A \in Seq(Regions(F)) /\ S \in Seq(Regions(F))
        BY <1>1, <3>5
      <4>2. j = i + 1
        BY DEF j
      <4>3. /\ Len(S) = Len(A) - j + i /\ (\A k \in 1..(i - 1) : S[k] = A[k])
            /\ \A k \in (i + 1)..(Len(A) - j + i) : S[k] = A[k - i + j]
        BY <3>6, <4>2
      <4>4. \A k, l \in 1..Len(A) : k < l /\ k \notin i..j /\ l \notin i..j => End(A[k]) <= A[l].base
        BY <3>7, <4>2
      <4>5. /\ \A k \in 1..(i - 1) : End(A[k]) <= S[i].base
            /\ \A k \in (j + 1)..Len(A) : End(S[i]) <= A[k].base
        BY <3>6, <3>8, <3>9, <4>2
      <4>6. i \in 1..(Len(A) + 1) /\ j \in (i - 1)..Len(A)
        BY <3>10, <4>2
      <4>7. Spliced(A, i, j, S, F)
        BY <4>1, <4>3, <4>4, <4>5, <4>6 DEF Spliced
      <4> QED BY <4>7, SplicedGood
    <3>12. lmb_coalesce_regions(A, i) = S
      BY <3>3 DEF lmb_coalesce_regions, S, j
    <3>13. ASSUME NEW a \in Nat, NEW x PROVE At(S, a, x) <=> At(A, a, x)
      <4>1. B \in Seq(Regions(F)) /\ j \in 1..Len(B) /\ j = i + 1 /\ Len(B) = Len(A)
        BY <2>1, <3>4 DEF j
      <4>2. At(S, a, x) <=> \E k \in 1..Len(B) : k # j /\ Covers(B[k], a, x)
        BY <4>1, WithoutAt DEF S
      <4>3. i \in 1..Len(A) /\ j \in 1..Len(A) /\ i # j
        BY <1>1, <4>1
      <4>4. Covers(B[i], a, x) <=> Covers(A[i], a, x) \/ Covers(A[j], a, x)
        <5>1. A[i].flags = A[j].flags /\ B[i].flags = A[i].flags
          BY <2>5, <2>8, <3>4, <4>1
        <5>2. A[j].base = End(A[i]) /\ B[i].base = A[i].base /\ End(B[i]) = End(A[j])
          BY <3>1, <3>4, <4>1
        <5>3. A[i].base <= End(A[i]) /\ A[j].base <= End(A[j]) /\ End(A[i]) \in Nat /\ End(A[j]) \in Nat
              /\ A[i].base \in Nat
          BY <2>3, <4>1
        <5> QED BY <5>1, <5>2, <5>3 DEF Covers
      <4>5. \A k \in 1..Len(A) : k # i => B[k] = A[k]
        BY <3>4
      <4> QED BY <4>1, <4>2, <4>3, <4>4, <4>5 DEF At
    <3>14. Same(A, S)
      BY <3>13 DEF Same
    <3> QED BY <2>4, <2>8, <3>11, <3>12, <3>14
  <2> QED BY <2>5, <2>6, <2>7, <2>8
<1>5. i >= Len(A) \/ i < Len(A)
  BY <1>1
<1> QED BY <1>3, <1>4, <1>5

\* A list in order is one in which region i reaches into no other.
LEMMA GoodReaches ==
  ASSUME NEW F, NEW A, Good(A, F), NEW i \in 1..Len(A)
  PROVE  Reaches(A, i, F)
<1>1. A \in Seq(Regions(F)) /\ Len(A) \in Nat /\ \A k, l \in 1..Len(A) : k < l => End(A[k]) <= A[l].base
  BY DEF Good, Ascends
<1>2. \A k \in 1..Len(A) : A[k].base \in Nat /\ End(A[k]) \in Nat /\ A[k].base < End(A[k])
  BY <1>1, RegionIs
<1>3. ASSUME NEW k \in (i + 1)..Len(A) PROVE A[i].base <= A[k].base /\ End(A[i]) <= A[k].base
  <2>1. k \in 1..Len(A) /\ i < k
    BY <1>1
  <2>2. End(A[i]) <= A[k].base
    BY <1>1, <2>1
  <2>3. A[i].base \in Nat /\ End(A[i]) \in Nat /\ A[i].base < End(A[i]) /\ A[k].base \in Nat
    BY <1>2, <2>1
  <2> QED BY <2>2, <2>3
<1> QED BY <1>1, <1>3 DEF Reaches

\* The loop stops at the first region that r meets;
StopsIn(A, i, r, f) ==
  i \in 1..Len(A) /\ Meets(r, f, A[i]) /\ \A k \in 1..(i - 1) : ~Meets(r, f, A[k])

\* there r is above the regions passed and not above the rest.
LEMMA StopsAt ==
  ASSUME NEW F, NEW A, Good(A, F), NEW r \in Ranges, NEW f, NEW i, StopsIn(A, i, r, f)
  PROVE  /\ \A k \in 1..(i - 1) : End(A[k]) <= r.base
         /\ \A k \in (i + 1)..Len(A) : r.base <= A[k].base
<1>1. A \in Seq(Regions(F)) /\ Len(A) \in Nat /\ \A k, l \in 1..Len(A) : k < l => End(A[k]) <= A[l].base
  BY DEF Good, Ascends
<1>0. i \in 1..Len(A) /\ Meets(r, f, A[i]) /\ \A k \in 1..(i - 1) : ~Meets(r, f, A[k])
  BY DEF StopsIn
<1>2. \A k \in 1..Len(A) : A[k].base \in Nat /\ End(A[k]) \in Nat /\ A[k].base < End(A[k])
  BY <1>1, RegionIs
<1>3. r.base \in Nat /\ End(r) \in Nat /\ r.base < End(r)
  BY RangeIs
<1>4. A[i].base \in Nat /\ End(A[i]) \in Nat /\ A[i].base < End(A[i])
  BY <1>0, <1>2
<1>5. r.base <= End(A[i]) /\ A[i].base <= End(r)
  BY <1>0, <1>3, <1>4 DEF Meets, lmb_addrs_adjacent, lmb_addrs_overlap
<1>6. ASSUME NEW k \in 1..(i - 1) PROVE End(A[k]) <= r.base
  <2>1. k \in 1..Len(A) /\ k < i
    BY <1>0, <1>1
  <2>2. End(A[k]) <= A[i].base /\ A[k].base \in Nat /\ End(A[k]) \in Nat /\ A[k].base < End(A[k])
    BY <1>0, <1>1, <1>2, <2>1
  <2>3. ~(r.base < End(A[k]) /\ A[k].base < End(r))
    BY <1>0 DEF Meets, lmb_addrs_overlap
  <2> QED BY <1>3, <1>4, <1>5, <2>2, <2>3
<1>7. ASSUME NEW k \in (i + 1)..Len(A) PROVE r.base <= A[k].base
  <2>1. k \in 1..Len(A) /\ i < k
    BY <1>0, <1>1
  <2>2. End(A[i]) <= A[k].base /\ A[k].base \in Nat
    BY <1>0, <1>1, <1>2, <2>1
  <2> QED BY <1>3, <1>4, <1>5, <2>2
<1> QED BY <1>6, <1>7

\* A region that grows down over r and up to a new end, no further than regions
\* that may be merged with it
LEMMA GrownReaches ==
  ASSUME NEW F, NEW A, Good(A, F), NEW i \in 1..Len(A), NEW b \in Nat, NEW s \in Nat, s > 0,
         b + s <= AddrMax + 1, b <= A[i].base,
         \A k \in 1..(i - 1) : End(A[k]) <= b,
         \A k \in (i + 1)..Len(A) :
           b + s <= A[k].base \/ (A[k].flags = LMB_NONE /\ A[i].flags = LMB_NONE)
  PROVE  Reaches(SetRegion(A, i, b, s), i, F)
<1> DEFINE B == SetRegion(A, i, b, s)
<1>1. A \in Seq(Regions(F)) /\ Len(A) \in Nat /\ \A k, l \in 1..Len(A) : k < l => End(A[k]) <= A[l].base
  BY DEF Good, Ascends
<1>2. \A k \in 1..Len(A) : A[k].base \in Nat /\ End(A[k]) \in Nat /\ A[k].base < End(A[k])
  BY <1>1, RegionIs
<1>3. /\ B \in Seq(Regions(F)) /\ Len(B) = Len(A)
      /\ B[i].base = b /\ B[i].flags = A[i].flags /\ End(B[i]) = b + s
      /\ \A k \in 1..Len(A) : k # i => B[k] = A[k]
  BY <1>1, Changed
<1> HIDE DEF B
<1>4. ASSUME NEW k \in 1..Len(B), NEW l \in 1..Len(B), k < l, k # i PROVE End(B[k]) <= B[l].base
  <2>1. k \in 1..Len(A) /\ l \in 1..Len(A) /\ B[k] = A[k]
    BY <1>3, <1>4
  <2>2. CASE l = i
    <3>1. k \in 1..(i - 1)
      BY <1>1, <1>4, <2>1, <2>2
    <3> QED BY <1>3, <2>1, <2>2, <3>1
  <2>3. CASE l # i
    BY <1>1, <1>3, <1>4, <2>1, <2>3
  <2> QED BY <2>2, <2>3
<1>5. ASSUME NEW k \in (i + 1)..Len(B)
      PROVE  /\ B[i].base <= B[k].base
             /\ End(B[i]) <= B[k].base \/ (B[k].flags = LMB_NONE /\ B[i].flags = LMB_NONE)
  <2>1. k \in 1..Len(A) /\ i < k /\ k # i /\ k \in (i + 1)..Len(A)
    BY <1>1, <1>3
  <2>2. B[k] = A[k] /\ End(A[i]) <= A[k].base
    BY <1>1, <1>3, <2>1
  <2>3. A[i].base \in Nat /\ End(A[i]) \in Nat /\ A[i].base < End(A[i]) /\ A[k].base \in Nat
    BY <1>2, <2>1
  <2>4. b <= A[k].base
    BY <2>2, <2>3
  <2> QED BY <1>3, <2>1, <2>2, <2>4
<1>6. i \in 1..Len(B)
  BY <1>3
<1>7. Reaches(B, i, F)
  BY <1>3, <1>4, <1>5, <1>6 DEF Reaches
<1> QED BY <1>7 DEF B

\* A region that grows over r and nothing else adds r, if r may be reserved.
LEMMA GrownAdds ==
  ASSUME NEW F, NEW A \in Seq(Regions(F)), NEW i \in 1..Len(A), NEW b \in Nat, NEW s \in Nat, s > 0,
         b + s <= AddrMax + 1, NEW r \in Ranges, NEW f, lmb_can_reserve_region(A, r, f), f = A[i].flags,
         \A a \in Nat : b <= a /\ a < b + s <=> \/ r.base <= a /\ a < End(r)
                                                \/ A[i].base <= a /\ a < End(A[i])
  PROVE  Adds(A, r, f, SetRegion(A, i, b, s))
<1> SUFFICES ASSUME NEW a \in Nat, NEW x
             PROVE  At(SetRegion(A, i, b, s), a, x) <=>
                      IF r.base <= a /\ a < End(r) THEN x = f ELSE At(A, a, x)
  BY DEF Adds
<1>1. At(SetRegion(A, i, b, s), a, x) <=>
        \/ b <= a /\ a < b + s /\ x = f
        \/ \E k \in 1..Len(A) : k # i /\ Covers(A[k], a, x)
  BY ChangedAt
<1>2. CASE r.base <= a /\ a < End(r)
  <2>1. ASSUME NEW k \in 1..Len(A), Covers(A[k], a, x) PROVE x = f
    <3>1. A[k].base \in Nat /\ End(A[k]) \in Nat /\ r.base \in Nat /\ End(r) \in Nat /\ k \in DOMAIN A
      BY RegionIs, RangeIs
    <3>2. lmb_addrs_overlap(r, A[k])
      BY <1>2, <2>1, <3>1 DEF Covers, lmb_addrs_overlap
    <3> QED BY <2>1, <3>1, <3>2 DEF Covers, lmb_can_reserve_region
  <2> QED BY <1>1, <1>2, <2>1
<1>3. CASE ~(r.base <= a /\ a < End(r))
  <2>1. Covers(A[i], a, x) <=> b <= a /\ a < b + s /\ x = f
    BY <1>3 DEF Covers
  <2> QED BY <1>1, <1>3, <2>1 DEF At
<1> QED BY <1>2, <1>3

\* What the loop leaves: a list in which r is, that the region next to it may
\* have to be merged in; or the list as it was, and r is still to be inserted.
Leaves(A, i, r, f, c, F) ==
  \/ c.ret = 0 /\ c.met = TRUE /\ Reaches(c.lst, i, F) /\ Adds(A, r, f, c.lst)
  \/ /\ c.ret = 0 /\ c.met = FALSE /\ c.lst = A
     /\ Good(InsertSorted(A, Region(r.base, r.size, f)), F)
     /\ Adds(A, r, f, InsertSorted(A, Region(r.base, r.size, f)))

\* It does so at any region that r meets.
LEMMA CoalesceGood ==
  ASSUME NEW F, NEW A, Good(A, F), NEW r \in Ranges, NEW f \in F, lmb_can_reserve_region(A, r, f),
         NEW i, StopsIn(A, i, r, f), NEW c, c = Coalesce(A, i, r, f)
  PROVE  Leaves(A, i, r, f, c, F)
<1> DEFINE adj == lmb_addrs_adjacent(r, A[i])
           below == [A EXCEPT ![i].base = @ - r.size, ![i].size = @ + r.size]
<1>0. i \in 1..Len(A) /\ Meets(r, f, A[i])
  BY DEF StopsIn
<1>1. A \in Seq(Regions(F)) /\ Len(A) \in Nat /\ \A k, l \in 1..Len(A) : k < l => End(A[k]) <= A[l].base
  BY DEF Good, Ascends
<1>2. \A k \in 1..Len(A) : /\ A[k].base \in Nat /\ A[k].size \in Nat /\ A[k].size > 0
                           /\ End(A[k]) \in Nat /\ A[k].base < End(A[k]) /\ End(A[k]) <= AddrMax + 1
                           /\ End(A[k]) = A[k].base + A[k].size
  BY <1>0, <1>1, RegionIs
<1>3. /\ r.base \in Nat /\ r.size \in Nat /\ r.size > 0 /\ End(r) = r.base + r.size
      /\ End(r) \in Nat /\ r.base < End(r) /\ End(r) <= AddrMax + 1
  BY RangeIs
<1>4. /\ A[i].base \in Nat /\ A[i].size \in Nat /\ A[i].size > 0 /\ End(A[i]) = A[i].base + A[i].size
      /\ End(A[i]) \in Nat /\ A[i].base < End(A[i]) /\ End(A[i]) <= AddrMax + 1
      /\ A[i] = Region(A[i].base, A[i].size, A[i].flags)
  BY <1>0, <1>1, <1>2, RegionIs
<1>5. /\ \A k \in 1..(i - 1) : End(A[k]) <= r.base
      /\ \A k \in (i + 1)..Len(A) : r.base <= A[k].base
  BY StopsAt
<1>6. /\ adj \in {1, 0, -1}
      /\ adj = 1 => A[i].base = End(r)
      /\ adj = -1 => r.base = End(A[i])
      /\ adj = 0 => lmb_addrs_overlap(r, A[i])
      /\ adj = -1 => f = A[i].flags \/ lmb_addrs_overlap(r, A[i])
  BY <1>0 DEF Meets, lmb_addrs_adjacent
<1>7. /\ adj = 1 /\ f = A[i].flags => c = [ret |-> 0, met |-> TRUE, lst |-> below]
      /\ adj = 1 /\ f # A[i].flags => c = [ret |-> 0, met |-> FALSE, lst |-> A]
      /\ adj = -1 => c = [ret |-> 0, met |-> TRUE, lst |-> [A EXCEPT ![i].size = @ + r.size]]
      /\ adj = 0 => c = [ret |-> lmb_resize_regions(A, i, r).ret, met |-> TRUE,
                         lst |-> lmb_resize_regions(A, i, r).lst]
  BY DEF Coalesce
<1> HIDE DEF adj, below
<1>8. \A k \in (i + 1)..Len(A) : k \in 1..Len(A) /\ End(A[i]) <= A[k].base /\ A[k].base \in Nat
                                 /\ End(A[k]) \in Nat /\ A[k].base < End(A[k])
  <2> SUFFICES ASSUME NEW k \in (i + 1)..Len(A)
               PROVE  k \in 1..Len(A) /\ End(A[i]) <= A[k].base /\ A[k].base \in Nat
                      /\ End(A[k]) \in Nat /\ A[k].base < End(A[k])
    OBVIOUS
  <2>1. k \in 1..Len(A) /\ i < k
    BY <1>0, <1>1
  <2> QED BY <1>0, <1>1, <1>2, <2>1
<1>9. CASE adj = 1 /\ f = A[i].flags
  <2> DEFINE b == A[i].base - r.size
             s == A[i].size + r.size
  <2>1. c.ret = 0 /\ c.met = TRUE /\ c.lst = below
    BY <1>7, <1>9
  <2>2. [[A[i] EXCEPT !.base = @ - r.size] EXCEPT !.size = @ + r.size] = Region(b, s, A[i].flags)
    <3>1. [A[i] EXCEPT !.base = @ - r.size] = Region(b, A[i].size, A[i].flags)
      BY <1>4 DEF Region
    <3>2. [Region(b, A[i].size, A[i].flags) EXCEPT !.size = @ + r.size] = Region(b, s, A[i].flags)
      BY DEF Region
    <3> QED BY <3>1, <3>2
  <2>3. c.lst = SetRegion(A, i, b, s)
    <3> DEFINE g == Region(b, s, A[i].flags)
    <3>1. [[A[i] EXCEPT !.base = @ - r.size] EXCEPT !.size = @ + r.size] = g
      BY <2>2
    <3> HIDE DEF g
    <3>2. below = [A EXCEPT ![i] = g]
      BY <1>0, <1>1, <3>1 DEF below
    <3> QED BY <2>1, <3>2 DEF SetRegion, g
  <2>4. b = r.base /\ s \in Nat /\ s > 0 /\ b + s = End(A[i]) /\ b + s <= AddrMax + 1 /\ b <= A[i].base /\ b \in Nat
    BY <1>3, <1>4, <1>6, <1>9
  <2> HIDE DEF b, s
  <2>5. /\ \A k \in 1..(i - 1) : End(A[k]) <= b
        /\ \A k \in (i + 1)..Len(A) :
             b + s <= A[k].base \/ (A[k].flags = LMB_NONE /\ A[i].flags = LMB_NONE)
    BY <1>5, <1>8, <2>4
  <2>6. Reaches(SetRegion(A, i, b, s), i, F)
    BY <2>4, <2>5, <1>0, GrownReaches
  <2>7. \A a \in Nat : b <= a /\ a < b + s <=> \/ r.base <= a /\ a < End(r)
                                               \/ A[i].base <= a /\ a < End(A[i])
    BY <1>3, <1>4, <1>6, <1>9, <2>4
  <2>8. Adds(A, r, f, SetRegion(A, i, b, s))
    BY <1>0, <1>1, <1>9, <2>4, <2>7, GrownAdds
  <2> QED BY <2>1, <2>3, <2>6, <2>8 DEF Leaves
<1>10. CASE adj = 1 /\ f # A[i].flags
  <2> DEFINE new == Region(r.base, r.size, f)
  <2>1. c.ret = 0 /\ c.met = FALSE /\ c.lst = A
    BY <1>7, <1>10
  <2>2. new \in Regions(F) /\ new.base = r.base /\ End(new) = End(r)
    BY NewRegion
  <2> HIDE DEF new
  <2>3. ASSUME NEW k \in 1..Len(A) PROVE End(A[k]) <= r.base \/ End(r) <= A[k].base
    <3>1. CASE k < i
      <4>1. k \in 1..(i - 1)
        BY <1>0, <1>1, <3>1
      <4> QED BY <1>5, <4>1
    <3>2. CASE k = i
      BY <1>3, <1>6, <1>10, <3>2
    <3>3. CASE k > i
      <4>1. k \in (i + 1)..Len(A)
        BY <1>0, <1>1, <3>3
      <4>2. End(A[i]) <= A[k].base /\ A[k].base \in Nat
        BY <1>8, <4>1
      <4> QED BY <1>3, <1>4, <1>6, <1>10, <4>2
    <3> QED BY <1>0, <1>1, <3>1, <3>2, <3>3
  <2>4. \A k \in 1..Len(A) : End(A[k]) <= new.base \/ End(new) <= A[k].base
    BY <2>2, <2>3
  <2>5. Good(InsertSorted(A, new), F) /\ Adds(A, new, new.flags, InsertSorted(A, new))
    BY <2>2, <2>4, InsertGood
  <2>6. new.flags = f
    BY DEF new, Region
  <2>7. Adds(A, r, f, InsertSorted(A, new))
    BY <2>2, <2>5, <2>6 DEF Adds
  <2> QED BY <2>1, <2>5, <2>7 DEF Leaves, new
<1>11. CASE adj = -1
  <2> DEFINE b == A[i].base
             s == A[i].size + r.size
  <2>1. c.ret = 0 /\ c.met = TRUE /\ c.lst = [A EXCEPT ![i].size = @ + r.size]
    BY <1>7, <1>11
  <2>2. [A[i] EXCEPT !.size = @ + r.size] = Region(b, s, A[i].flags)
    BY <1>4 DEF Region
  <2>3. c.lst = SetRegion(A, i, b, s)
    BY <1>0, <1>1, <2>1, <2>2 DEF SetRegion
  <2>4. s \in Nat /\ s > 0 /\ b + s = End(r) /\ b + s <= AddrMax + 1 /\ b <= A[i].base /\ b \in Nat
    BY <1>3, <1>4, <1>6, <1>11
  <2>5. f = A[i].flags
    BY <1>3, <1>4, <1>6, <1>11 DEF lmb_addrs_overlap
  <2>6. ASSUME NEW k \in (i + 1)..Len(A)
        PROVE  End(r) <= A[k].base \/ (A[k].flags = LMB_NONE /\ A[i].flags = LMB_NONE)
    <3>1. CASE lmb_addrs_overlap(r, A[k])
      <4>1. k \in DOMAIN A
        BY <1>0, <1>1, <1>8
      <4>2. f = LMB_NONE /\ f = A[k].flags
        BY <3>1, <4>1 DEF lmb_can_reserve_region
      <4> QED BY <2>5, <4>2
    <3>2. CASE ~lmb_addrs_overlap(r, A[k])
      <4>1. r.base <= A[k].base /\ A[k].base \in Nat /\ A[k].base < End(A[k]) /\ End(A[k]) \in Nat
        BY <1>5, <1>8
      <4>2. ~(r.base < End(A[k]) /\ A[k].base < End(r))
        BY <3>2 DEF lmb_addrs_overlap
      <4> QED BY <1>3, <4>1, <4>2
    <3> QED BY <3>1, <3>2
  <2>7. ASSUME NEW k \in 1..(i - 1) PROVE End(A[k]) <= b
    <3>1. k \in 1..Len(A) /\ k < i
      BY <1>0, <1>1
    <3> QED BY <1>0, <1>1, <3>1
  <2> HIDE DEF b, s
  <2>8. \A k \in (i + 1)..Len(A) :
          b + s <= A[k].base \/ (A[k].flags = LMB_NONE /\ A[i].flags = LMB_NONE)
    BY <2>4, <2>6
  <2>9. Reaches(SetRegion(A, i, b, s), i, F)
    BY <2>4, <2>7, <2>8, <1>0, GrownReaches
  <2>10. \A a \in Nat : b <= a /\ a < b + s <=> \/ r.base <= a /\ a < End(r)
                                                \/ A[i].base <= a /\ a < End(A[i])
    BY <1>3, <1>4, <1>6, <1>11, <2>4 DEF b
  <2>11. Adds(A, r, f, SetRegion(A, i, b, s))
    BY <1>0, <1>1, <2>4, <2>5, <2>10, GrownAdds
  <2> QED BY <2>1, <2>3, <2>9, <2>11 DEF Leaves
<1>12. CASE adj = 0
  <2> DEFINE res == lmb_resize_regions(A, i, r)
  <2>1. c.ret = res.ret /\ c.met = TRUE /\ c.lst = res.lst
    BY <1>7, <1>12
  <2>2. \A k \in (i + 1)..Len(A) : End(A[i]) <= A[k].base
    BY <1>8
  <2>3. /\ A \in Seq(Regions(F)) /\ lmb_addrs_overlap(r, A[i])
        /\ \A k, l \in 1..Len(A) : k < l /\ k # i => End(A[k]) <= A[l].base
    BY <1>0, <1>1, <1>6, <1>12
  <2>4. \/ \E k \in i..Len(A) : lmb_addrs_overlap(r, A[k]) /\ A[k].flags # LMB_NONE
        \/ /\ res.ret = 0 /\ Good(res.lst, F) /\ i <= Len(res.lst)
           /\ Adds(A, r, LMB_NONE, res.lst)
    BY <1>3, <1>5, <2>2, <2>3, <1>0, ResizeGood
  <2>5. f = LMB_NONE /\ \A k \in i..Len(A) : lmb_addrs_overlap(r, A[k]) => A[k].flags = LMB_NONE
    <3>1. i \in DOMAIN A /\ \A k \in i..Len(A) : k \in DOMAIN A
      BY <1>0, <1>1
    <3> QED BY <2>3, <3>1 DEF lmb_can_reserve_region
  <2>6. res.ret = 0 /\ Good(res.lst, F) /\ i <= Len(res.lst) /\ Adds(A, r, f, res.lst)
    BY <2>4, <2>5
  <2>7. Leaves(A, i, r, f, c, F)
    <3> HIDE DEF res
    <3>1. res.lst \in Seq(Regions(F))
      BY <2>6 DEF Good
    <3>2. i \in 1..Len(res.lst)
      BY <1>0, <2>6, <3>1
    <3>3. Reaches(res.lst, i, F)
      BY <2>6, <3>2, GoodReaches
    <3> QED BY <2>1, <2>6, <3>3 DEF Leaves
  <2> QED BY <2>7
<1> QED BY <1>6, <1>9, <1>10, <1>11, <1>12

\* In a coalesced list no two neighbours are to be merged.
LEMMA NothingNext ==
  ASSUME NEW F, NEW A, Good(A, F), Coalesced(A), NEW i \in 1..Len(A), NEW c, c.lst = A
  PROVE  CoalesceNext(c, i) = c
<1>1. A \in Seq(Regions(F)) /\ Len(A) \in Nat /\ \A k, l \in 1..Len(A) : k < l => End(A[k]) <= A[l].base
  BY DEF Good, Ascends
<1>2. CASE i >= Len(A)
  BY <1>1, <1>2 DEF CoalesceNext
<1>3. CASE i < Len(A)
  <2> DEFINE j == i + 1
  <2>1. j \in 1..Len(A) /\ i < j /\ i \in 1..(Len(A) - 1) /\ j = i + 1
    BY <1>1, <1>3
  <2>2. End(A[i]) = A[j].base => A[i].flags # A[j].flags
    BY <2>1 DEF Coalesced
  <2> HIDE DEF j
  <2>3. End(A[i]) <= A[j].base
    BY <1>1, <2>1
  <2>4. /\ A[i].base \in Nat /\ End(A[i]) \in Nat /\ A[i].base < End(A[i])
        /\ A[j].base \in Nat /\ End(A[j]) \in Nat /\ A[j].base < End(A[j])
    BY <1>1, <2>1, RegionIs
  <2>5. ~lmb_addrs_overlap(A[i], A[j])
    BY <2>3, <2>4 DEF lmb_addrs_overlap
  <2>6. A[i].flags = A[j].flags => lmb_addrs_adjacent(A[i], A[j]) = 0
    BY <2>2, <2>3, <2>4 DEF lmb_addrs_adjacent
  <2>7. lmb_regions_check(A, i, j) = "no"
    BY <2>5, <2>6 DEF lmb_regions_check
  <2>8. lmb_regions_check(A, i, i + 1) = "no" => CoalesceNext(c, i) = c
    BY <1>1, <1>3 DEF CoalesceNext
  <2> QED BY <2>1, <2>7, <2>8
<1> QED BY <1>1, <1>2, <1>3

\* lmb_add_region_flags() keeps the order, if r overlaps nothing but regions
\* without flags, and has none itself if it does.  To a coalesced list it adds r
\* and nothing else.
LEMMA AddGood ==
  ASSUME NEW F, NEW A, Good(A, F), NEW r \in Ranges, NEW f \in F, lmb_can_reserve_region(A, r, f)
  PROVE  /\ Good(lmb_add_region_flags(A, r, f).lst, F)
         /\ lmb_add_region_flags(A, r, f).ret = 0
         /\ Coalesced(A) => Adds(A, r, f, lmb_add_region_flags(A, r, f).lst)
<1> DEFINE stops == {k \in DOMAIN A : Meets(r, f, A[k])}
           i == Min(stops)
           c1 == Coalesce(A, i, r, f)
           c2 == CoalesceNext(c1, i)
           new == Region(r.base, r.size, f)
<1>1. A \in Seq(Regions(F)) /\ Len(A) \in Nat /\ DOMAIN A = 1..Len(A)
  BY DEF Good
<1>2. /\ stops = {} => lmb_add_region_flags(A, r, f) = Done(InsertSorted(A, new))
      /\ stops # {} /\ c1.ret # 0 => lmb_add_region_flags(A, r, f) = Failed(c1.lst)
      /\ stops # {} /\ c1.ret = 0 /\ c2.ret # 0 => lmb_add_region_flags(A, r, f) = Failed(c2.lst)
      /\ stops # {} /\ c1.ret = 0 /\ c2.ret = 0 /\ c2.met = TRUE => lmb_add_region_flags(A, r, f) = Done(c2.lst)
      /\ stops # {} /\ c1.ret = 0 /\ c2.ret = 0 /\ c2.met = FALSE =>
           lmb_add_region_flags(A, r, f) = Done(InsertSorted(c2.lst, new))
  BY DEF lmb_add_region_flags
<1>3. CASE stops = {}
  <2>1. r.base \in Nat /\ r.size \in Nat /\ r.size > 0 /\ r.base + r.size <= AddrMax + 1 /\ End(r) = r.base + r.size
    BY RangeIs
  <2>2. new \in Regions(F) /\ new.base = r.base /\ End(new) = End(r) /\ new.flags = f
    BY NewRegion DEF Region
  <2>3. ASSUME NEW k \in 1..Len(A) PROVE End(A[k]) <= new.base \/ End(new) <= A[k].base
    <3>1. A[k].base \in Nat /\ End(A[k]) \in Nat
      BY <1>1, RegionIs
    <3>2. ~lmb_addrs_overlap(r, A[k])
      BY <1>1, <1>3 DEF Meets
    <3> HIDE DEF new
    <3> QED BY <2>1, <2>2, <3>1, <3>2 DEF lmb_addrs_overlap
  <2> HIDE DEF new, stops, c1, c2, i
  <2>4. Good(InsertSorted(A, new), F) /\ Adds(A, new, new.flags, InsertSorted(A, new))
    BY <2>2, <2>3, InsertGood
  <2>5. Adds(A, r, f, InsertSorted(A, new))
    BY <2>2, <2>4 DEF Adds
  <2> QED BY <1>2, <1>3, <2>4, <2>5 DEF Done
<1>4. CASE stops # {}
  <2>1. stops \subseteq Nat
    BY <1>1
  <2>2. i \in stops /\ \A y \in stops : i <= y
    BY <1>4, <2>1, Smallest
  <2>3. i \in 1..Len(A) /\ Meets(r, f, A[i])
    <3> HIDE DEF i
    <3> QED BY <1>1, <2>2
  <2>4. ASSUME NEW k \in 1..(i - 1) PROVE ~Meets(r, f, A[k])
    <3> HIDE DEF i
    <3>1. k \in DOMAIN A /\ k < i
      BY <1>1, <2>3
    <3>2. k \notin stops
      <4> HIDE DEF stops
      <4> QED BY <2>2, <2>3, <3>1
    <3> QED BY <3>1, <3>2
  <2> HIDE DEF stops, i
  <2>5. \/ c1.ret = 0 /\ c1.met = TRUE /\ Reaches(c1.lst, i, F) /\ Adds(A, r, f, c1.lst)
        \/ /\ c1.ret = 0 /\ c1.met = FALSE /\ c1.lst = A /\ Good(InsertSorted(A, new), F)
           /\ Adds(A, r, f, InsertSorted(A, new))
    <3>1. c1 = Coalesce(A, i, r, f)
      OBVIOUS
    <3>2. StopsIn(A, i, r, f)
      BY <2>3, <2>4 DEF StopsIn
    <3> HIDE DEF c1
    <3>3. Leaves(A, i, r, f, c1, F)
      BY <3>1, <3>2, CoalesceGood
    <3> QED BY <3>3 DEF Leaves
  <2> HIDE DEF c1
  <2>6. Reaches(c1.lst, i, F)
    BY <2>3, <2>5, GoodReaches
  <2>7. /\ Good(c2.lst, F) /\ (c2 = c1 \/ (c2.met = TRUE /\ c2.ret = 0)) /\ Same(c1.lst, c2.lst)
    BY <2>6, NextGood
  <2>8. Coalesced(A) /\ c1.met = FALSE => c2 = c1
    BY <2>3, <2>5, NothingNext
  <2> HIDE DEF c2
  <2>9. CASE c2.met = TRUE
    <3>1. lmb_add_region_flags(A, r, f) = Done(c2.lst)
      BY <1>2, <1>4, <2>5, <2>7, <2>9
    <3>2. Coalesced(A) => Adds(A, r, f, c1.lst)
      BY <2>5, <2>8, <2>9
    <3>3. Coalesced(A) => Adds(A, r, f, c2.lst)
      BY <2>7, <3>2 DEF Adds, Same
    <3> QED BY <2>7, <3>1, <3>3 DEF Done
  <2>10. CASE c2.met # TRUE
    <3>1. c2 = c1 /\ c2.ret = 0 /\ c2.met = FALSE /\ c2.lst = A
      BY <2>5, <2>7, <2>10
    <3>2. lmb_add_region_flags(A, r, f) = Done(InsertSorted(A, new))
      BY <1>2, <1>4, <3>1
    <3>3. Good(InsertSorted(A, new), F) /\ Adds(A, r, f, InsertSorted(A, new))
      BY <2>5, <3>1
    <3> QED BY <3>2, <3>3 DEF Done
  <2> QED BY <2>9, <2>10
<1> QED BY <1>3, <1>4

-----------------------------------------------------------------------------
(* Freeing a range *)

\* A region that shrinks stays between its neighbours.
LEMMA CutGood ==
  ASSUME NEW F, NEW A, Good(A, F), NEW i \in 1..Len(A), NEW b \in Nat, NEW s \in Nat, s > 0,
         A[i].base <= b, b + s <= End(A[i])
  PROVE  /\ Good(SetRegion(A, i, b, s), F)
         /\ Len(SetRegion(A, i, b, s)) = Len(A) /\ End(SetRegion(A, i, b, s)[i]) = b + s
         /\ SetRegion(A, i, b, s)[i].flags = A[i].flags
         /\ \A k \in 1..Len(A) : k # i => SetRegion(A, i, b, s)[k] = A[k]
<1> DEFINE B == SetRegion(A, i, b, s)
<1>1. A \in Seq(Regions(F)) /\ Len(A) \in Nat /\ \A k, l \in 1..Len(A) : k < l => End(A[k]) <= A[l].base
  BY DEF Good, Ascends
<1>2. \A k \in 1..Len(A) : A[k].base \in Nat /\ End(A[k]) \in Nat /\ End(A[k]) <= AddrMax + 1
  BY <1>1, RegionIs
<1>3. b + s <= AddrMax + 1
  <2>1. End(A[i]) \in Nat /\ End(A[i]) <= AddrMax + 1 /\ AddrMax \in Nat
    BY <1>2, AddrAssumption
  <2> QED BY <2>1
<1>4. /\ B \in Seq(Regions(F)) /\ Len(B) = Len(A)
      /\ B[i].base = b /\ B[i].flags = A[i].flags /\ End(B[i]) = b + s
      /\ \A k \in 1..Len(A) : k # i => B[k] = A[k]
  BY <1>1, <1>3, Changed
<1> HIDE DEF B
<1>5. \A k \in 1..Len(A) : A[k].base <= B[k].base /\ End(B[k]) <= End(A[k])
  <2> SUFFICES ASSUME NEW k \in 1..Len(A) PROVE A[k].base <= B[k].base /\ End(B[k]) <= End(A[k])
    OBVIOUS
  <2>1. CASE k = i
    BY <1>4, <2>1
  <2>2. CASE k # i
    <3>1. B[k] = A[k] /\ A[k].base \in Nat /\ End(A[k]) \in Nat
      BY <1>2, <1>4, <2>2
    <3> QED BY <3>1
  <2> QED BY <2>1, <2>2
<1>6. \A k \in 1..Len(A) : B[k].base \in Nat /\ End(B[k]) \in Nat
  BY <1>4, RegionIs
<1>7. ASSUME NEW k \in 1..Len(B), NEW l \in 1..Len(B), k < l PROVE End(B[k]) <= B[l].base
  <2>1. k \in 1..Len(A) /\ l \in 1..Len(A)
    BY <1>4
  <2>2. End(A[k]) <= A[l].base
    BY <1>1, <1>7, <2>1
  <2>3. A[l].base <= B[l].base /\ End(B[k]) <= End(A[k]) /\ B[l].base \in Nat /\ End(B[k]) \in Nat
        /\ A[l].base \in Nat /\ End(A[k]) \in Nat
    BY <1>2, <1>5, <1>6, <2>1
  <2> QED BY <2>2, <2>3
<1>8. Good(B, F)
  BY <1>4, <1>7 DEF Good, Ascends
<1> QED BY <1>4, <1>8 DEF B

\* A list without one of its regions stays in order.
LEMMA RemoveGood ==
  ASSUME NEW F, NEW A, Good(A, F), NEW i \in 1..Len(A)
  PROVE  Good(RemoveAt(A, i), F)
<1> DEFINE B == RemoveAt(A, i)
           at(k) == IF k < i THEN k ELSE k + 1
<1>1. A \in Seq(Regions(F)) /\ Len(A) \in Nat /\ \A k, l \in 1..Len(A) : k < l => End(A[k]) <= A[l].base
  BY DEF Good, Ascends
<1>2. B = RemoveAt(A, i)
  OBVIOUS
<1> HIDE DEF B
<1>3. /\ B \in Seq(Regions(F)) /\ Len(B) = Len(A) - 1
      /\ (\A k \in 1..(i - 1) : B[k] = A[k])
      /\ \A k \in i..(Len(A) - 1) : B[k] = A[k + 1]
  BY <1>1, <1>2, Without
<1>4. ASSUME NEW k \in 1..Len(B) PROVE at(k) \in 1..Len(A) /\ B[k] = A[at(k)]
  <2>1. CASE k < i
    <3>1. k \in 1..(i - 1) /\ at(k) = k
      BY <2>1
    <3> QED BY <1>1, <1>3, <3>1
  <2>2. CASE ~(k < i)
    <3>1. k \in i..(Len(A) - 1) /\ at(k) = k + 1
      BY <1>1, <1>3, <2>2
    <3> QED BY <1>1, <1>3, <3>1
  <2> QED BY <2>1, <2>2
<1>5. ASSUME NEW k \in 1..Len(B), NEW l \in 1..Len(B), k < l PROVE End(B[k]) <= B[l].base
  <2>1. at(k) < at(l)
    BY <1>5
  <2>2. at(k) \in 1..Len(A) /\ at(l) \in 1..Len(A) /\ B[k] = A[at(k)] /\ B[l] = A[at(l)]
    BY <1>4
  <2> HIDE DEF at
  <2> QED BY <1>1, <2>1, <2>2
<1>6. Good(B, F)
  BY <1>3, <1>5 DEF Good, Ascends
<1> QED BY <1>6 DEF B

\* Outside r, the list says what region i, which holds r, says there and what
\* the other regions say.
LEMMA OutsideIs ==
  ASSUME NEW F, NEW A, Good(A, F), NEW i \in 1..Len(A), NEW r \in Ranges,
         A[i].base <= r.base, End(r) <= End(A[i]), NEW a \in Nat, NEW x
  PROVE  At(A, a, x) /\ ~(r.base <= a /\ a < End(r)) <=>
           \/ Covers(A[i], a, x) /\ ~(r.base <= a /\ a < End(r))
           \/ \E k \in 1..Len(A) : k # i /\ Covers(A[k], a, x)
<1>1. A \in Seq(Regions(F)) /\ Len(A) \in Nat /\ \A k, l \in 1..Len(A) : k < l => End(A[k]) <= A[l].base
  BY DEF Good, Ascends
<1>2. \A k \in 1..Len(A) : A[k].base \in Nat /\ End(A[k]) \in Nat
  BY <1>1, RegionIs
<1>3. r.base \in Nat /\ End(r) \in Nat
  BY RangeIs
<1>4. ASSUME NEW k \in 1..Len(A), k # i, Covers(A[k], a, x) PROVE ~(r.base <= a /\ a < End(r))
  <2>1. End(A[k]) <= A[i].base \/ End(A[i]) <= A[k].base
    BY <1>1, <1>4
  <2> QED BY <1>2, <1>3, <1>4, <2>1 DEF Covers
<1> QED BY <1>4 DEF At

\* A coalesced list is so when one of its regions is cut at its end.
LEMMA CutCoalesced ==
  ASSUME NEW F, NEW A, Good(A, F), Coalesced(A), NEW i \in 1..Len(A), NEW s \in Nat, s > 0,
         A[i].base + s < End(A[i])
  PROVE  Coalesced(SetRegion(A, i, A[i].base, s))
<1> DEFINE b == A[i].base
           B == SetRegion(A, i, b, s)
<1>1. A \in Seq(Regions(F)) /\ Len(A) \in Nat /\ \A k, l \in 1..Len(A) : k < l => End(A[k]) <= A[l].base
  BY DEF Good, Ascends
<1>2. \A k \in 1..Len(A) : A[k].base \in Nat /\ End(A[k]) \in Nat /\ End(A[k]) <= AddrMax + 1 /\ AddrMax \in Nat
  BY <1>1, RegionIs, AddrAssumption
<1>3. b \in Nat /\ b = A[i].base /\ b + s <= AddrMax + 1
  BY <1>2
<1> HIDE DEF b
<1>4. /\ Len(B) = Len(A) /\ B[i].base = b /\ B[i].flags = A[i].flags /\ End(B[i]) = b + s
      /\ \A k \in 1..Len(A) : k # i => B[k] = A[k]
  BY <1>1, <1>3, Changed
<1> HIDE DEF B
<1>5. ASSUME NEW k \in 1..(Len(B) - 1), End(B[k]) = B[k + 1].base PROVE B[k].flags # B[k + 1].flags
  <2> DEFINE l == k + 1
  <2>1. k \in 1..Len(A) /\ l \in 1..Len(A) /\ k < l /\ k \in 1..(Len(A) - 1)
    BY <1>1, <1>4
  <2>2. End(A[k]) = A[l].base => A[k].flags # A[l].flags
    BY <2>1 DEF Coalesced
  <2>3. End(A[k]) <= A[l].base
    BY <1>1, <2>1
  <2>4. End(B[k]) = B[l].base
    BY <1>5
  <2> HIDE DEF l
  <2>5. B[l].base = A[l].base /\ B[l].flags = A[l].flags /\ B[k].flags = A[k].flags
    BY <1>3, <1>4, <2>1
  <2>6. CASE k = i
    BY <1>2, <1>3, <1>4, <2>1, <2>3, <2>4, <2>5, <2>6
  <2>7. CASE k # i
    <3>1. End(B[k]) = End(A[k])
      BY <1>4, <2>1, <2>7
    <3> QED BY <2>2, <2>4, <2>5, <3>1 DEF l
  <2> QED BY <2>6, <2>7
<1>6. Coalesced(B)
  BY <1>5 DEF Coalesced
<1> QED BY <1>6 DEF B, b

\* _lmb_free() keeps the order.  It fails if no region holds r; a coalesced list
\* is left without r and nothing else is given up.
LEMMA FreeGood ==
  ASSUME NEW F, NEW A, Good(A, F), NEW r \in Ranges
  PROVE  /\ Good(lmb_free_list(A, r).lst, F)
         /\ Holds(A, r) => lmb_free_list(A, r).ret = 0
         /\ ~Holds(A, r) => lmb_free_list(A, r).ret # 0 /\ lmb_free_list(A, r).lst = A
         /\ Holds(A, r) /\ Coalesced(A) => Frees(A, r, lmb_free_list(A, r).lst)
<1> DEFINE holds == {k \in DOMAIN A : A[k].base <= r.base /\ End(r) <= End(A[k])}
           i == Min(holds)
           cut == [A EXCEPT ![i].base = End(r), ![i].size = @ - r.size]
           head == [A EXCEPT ![i].size = @ - r.size]
           low == [A EXCEPT ![i].size = r.base - A[i].base]
           high == [base |-> End(r), size |-> End(A[i]) - End(r)]
<1>1. A \in Seq(Regions(F)) /\ Len(A) \in Nat /\ DOMAIN A = 1..Len(A)
      /\ \A k, l \in 1..Len(A) : k < l => End(A[k]) <= A[l].base
  BY DEF Good, Ascends
<1>2. /\ holds = {} => lmb_free_list(A, r) = [ret |-> -14, lst |-> A]
      /\ holds # {} /\ A[i].base = r.base /\ End(A[i]) = End(r) => lmb_free_list(A, r) = Done(RemoveAt(A, i))
      /\ holds # {} /\ A[i].base = r.base /\ End(A[i]) # End(r) => lmb_free_list(A, r) = Done(cut)
      /\ holds # {} /\ A[i].base # r.base /\ End(A[i]) = End(r) => lmb_free_list(A, r) = Done(head)
      /\ holds # {} /\ A[i].base # r.base /\ End(A[i]) # End(r) =>
           lmb_free_list(A, r) = lmb_add_region_flags(low, high, A[i].flags)
  BY DEF lmb_free_list
<1>0. Holds(A, r) <=> holds # {}
  BY <1>1 DEF Holds
<1>3. CASE holds = {}
  <2> HIDE DEF holds
  <2> QED BY <1>0, <1>2, <1>3
<1>4. CASE holds # {}
  <2>1. holds \subseteq Nat
    BY <1>1
  <2>2. i \in holds
    BY <1>4, <2>1, Smallest
  <2>3. i \in 1..Len(A) /\ A[i].base <= r.base /\ End(r) <= End(A[i])
    <3> HIDE DEF i
    <3> QED BY <1>1, <2>2
  <2> HIDE DEF holds, i
  <2>4. /\ A[i].base \in Nat /\ A[i].size \in Nat /\ End(A[i]) \in Nat /\ End(A[i]) = A[i].base + A[i].size
        /\ End(A[i]) <= AddrMax + 1 /\ A[i] = Region(A[i].base, A[i].size, A[i].flags) /\ A[i].flags \in F
    BY <1>1, <2>3, RegionIs
  <2>5. r.base \in Nat /\ r.size \in Nat /\ r.size > 0 /\ End(r) = r.base + r.size /\ End(r) \in Nat
    BY RangeIs
  <2>6. ASSUME NEW B, Good(B, F), lmb_free_list(A, r).lst = B, lmb_free_list(A, r).ret = 0,
                Coalesced(A) => \A a \in Nat : \A x : At(B, a, x) <=>
                  \/ Covers(A[i], a, x) /\ ~(r.base <= a /\ a < End(r))
                  \/ \E k \in 1..Len(A) : k # i /\ Covers(A[k], a, x)
         PROVE  /\ Good(lmb_free_list(A, r).lst, F)
                /\ Holds(A, r) => lmb_free_list(A, r).ret = 0
                /\ ~Holds(A, r) => lmb_free_list(A, r).ret # 0 /\ lmb_free_list(A, r).lst = A
                /\ Holds(A, r) /\ Coalesced(A) => Frees(A, r, lmb_free_list(A, r).lst)
    <3>1. ASSUME NEW a \in Nat, NEW x
          PROVE  At(A, a, x) /\ ~(r.base <= a /\ a < End(r)) <=>
                   \/ Covers(A[i], a, x) /\ ~(r.base <= a /\ a < End(r))
                   \/ \E k \in 1..Len(A) : k # i /\ Covers(A[k], a, x)
      BY <2>3, OutsideIs
    <3>2. Coalesced(A) => Frees(A, r, B)
      BY <2>6, <3>1 DEF Frees
    <3> QED BY <1>0, <1>4, <2>6, <3>2
  <2>7. CASE A[i].base = r.base /\ End(A[i]) = End(r)
    <3> DEFINE B == RemoveAt(A, i)
    <3>1. Good(B, F) /\ lmb_free_list(A, r) = Done(B)
      BY <1>2, <1>4, <2>3, <2>7, RemoveGood
    <3>2. ASSUME NEW a \in Nat, NEW x
          PROVE  At(B, a, x) <=> \/ Covers(A[i], a, x) /\ ~(r.base <= a /\ a < End(r))
                                 \/ \E k \in 1..Len(A) : k # i /\ Covers(A[k], a, x)
      <4>1. At(B, a, x) <=> \E k \in 1..Len(A) : k # i /\ Covers(A[k], a, x)
        BY <1>1, <2>3, WithoutAt
      <4>2. Covers(A[i], a, x) => r.base <= a /\ a < End(r)
        BY <2>7 DEF Covers
      <4> QED BY <4>1, <4>2
    <3> HIDE DEF B
    <3>3. lmb_free_list(A, r).lst = B /\ lmb_free_list(A, r).ret = 0
      BY <3>1 DEF Done
    <3> QED BY <2>6, <3>1, <3>2, <3>3
  <2>8. CASE A[i].base = r.base /\ End(A[i]) # End(r)
    <3> DEFINE b == End(r)
               s == A[i].size - r.size
    <3>1. b \in Nat /\ s \in Nat /\ s > 0 /\ A[i].base <= b /\ b + s <= End(A[i])
      BY <2>3, <2>4, <2>5, <2>8
    <3>2. [A[i] EXCEPT !.base = End(r)] = Region(b, A[i].size, A[i].flags)
      BY <2>4 DEF Region
    <3>3. [Region(b, A[i].size, A[i].flags) EXCEPT !.size = @ - r.size] = Region(b, s, A[i].flags)
      BY DEF Region
    <3>4. cut = SetRegion(A, i, b, s)
      <4> DEFINE g == Region(b, s, A[i].flags)
      <4>1. [[A[i] EXCEPT !.base = End(r)] EXCEPT !.size = @ - r.size] = g
        BY <3>2, <3>3
      <4> HIDE DEF g
      <4>2. cut = [A EXCEPT ![i] = g]
        BY <1>1, <2>3, <4>1
      <4> QED BY <4>2 DEF SetRegion, g
    <3> HIDE DEF b, s, cut
    <3>5. Good(SetRegion(A, i, b, s), F)
      BY <2>3, <3>1, CutGood
    <3>6. ASSUME NEW a \in Nat, NEW x
          PROVE  At(SetRegion(A, i, b, s), a, x) <=>
                   \/ Covers(A[i], a, x) /\ ~(r.base <= a /\ a < End(r))
                   \/ \E k \in 1..Len(A) : k # i /\ Covers(A[k], a, x)
      <4>0. b + s <= AddrMax + 1
        BY <2>4, <3>1, AddrAssumption
      <4>1. At(SetRegion(A, i, b, s), a, x) <=>
              \/ b <= a /\ a < b + s /\ x = A[i].flags
              \/ \E k \in 1..Len(A) : k # i /\ Covers(A[k], a, x)
        BY <1>1, <2>3, <3>1, <4>0, ChangedAt
      <4>2. b <= a /\ a < b + s /\ x = A[i].flags <=>
              Covers(A[i], a, x) /\ ~(r.base <= a /\ a < End(r))
        BY <2>3, <2>4, <2>5, <2>8 DEF Covers, b, s
      <4> QED BY <4>1, <4>2
    <3>7. lmb_free_list(A, r).lst = SetRegion(A, i, b, s) /\ lmb_free_list(A, r).ret = 0
      BY <1>2, <1>4, <2>8, <3>4 DEF Done
    <3> QED BY <2>6, <3>5, <3>6, <3>7
  <2>9. CASE A[i].base # r.base /\ End(A[i]) = End(r)
    <3> DEFINE b == A[i].base
               s == A[i].size - r.size
    <3>1. b \in Nat /\ s \in Nat /\ s > 0 /\ A[i].base <= b /\ b + s <= End(A[i])
      BY <2>3, <2>4, <2>5, <2>9
    <3>2. [A[i] EXCEPT !.size = @ - r.size] = Region(b, s, A[i].flags)
      BY <2>4 DEF Region
    <3>3. head = SetRegion(A, i, b, s)
      BY <1>1, <2>3, <3>2 DEF SetRegion
    <3> HIDE DEF b, s, head
    <3>4. Good(SetRegion(A, i, b, s), F)
      BY <2>3, <3>1, CutGood
    <3>5. ASSUME NEW a \in Nat, NEW x
          PROVE  At(SetRegion(A, i, b, s), a, x) <=>
                   \/ Covers(A[i], a, x) /\ ~(r.base <= a /\ a < End(r))
                   \/ \E k \in 1..Len(A) : k # i /\ Covers(A[k], a, x)
      <4>0. b + s <= AddrMax + 1
        BY <2>4, <3>1, AddrAssumption
      <4>1. At(SetRegion(A, i, b, s), a, x) <=>
              \/ b <= a /\ a < b + s /\ x = A[i].flags
              \/ \E k \in 1..Len(A) : k # i /\ Covers(A[k], a, x)
        BY <1>1, <2>3, <3>1, <4>0, ChangedAt
      <4>2. b <= a /\ a < b + s /\ x = A[i].flags <=>
              Covers(A[i], a, x) /\ ~(r.base <= a /\ a < End(r))
        BY <2>3, <2>4, <2>5, <2>9 DEF Covers, b, s
      <4> QED BY <4>1, <4>2
    <3>6. lmb_free_list(A, r).lst = SetRegion(A, i, b, s) /\ lmb_free_list(A, r).ret = 0
      BY <1>2, <1>4, <2>9, <3>3 DEF Done
    <3> QED BY <2>6, <3>4, <3>5, <3>6
  <2>10. CASE A[i].base # r.base /\ End(A[i]) # End(r)
    <3> DEFINE b == A[i].base
               s == r.base - A[i].base
               B == SetRegion(A, i, b, s)
    <3>1. b \in Nat /\ s \in Nat /\ s > 0 /\ A[i].base <= b /\ b + s <= End(A[i]) /\ b + s = r.base
      BY <2>3, <2>4, <2>5, <2>10
    <3>2. [A[i] EXCEPT !.size = r.base - A[i].base] = Region(b, s, A[i].flags)
      BY <2>4 DEF Region
    <3>3. low = B
      BY <1>1, <2>3, <3>2 DEF SetRegion
    <3>4. high \in Ranges
      <4>0. /\ End(r) \in Nat /\ End(A[i]) \in Nat /\ End(r) < End(A[i]) /\ End(A[i]) <= AddrMax + 1
            /\ AddrMax \in Nat
        BY <2>3, <2>4, <2>5, <2>10, AddrAssumption
      <4>1. End(r) \in Addrs /\ End(A[i]) - End(r) \in 1..(AddrMax + 1)
            /\ End(r) + (End(A[i]) - End(r)) <= AddrMax + 1
        BY <4>0 DEF Addrs
      <4> QED BY <4>1 DEF Ranges
    <3>5. high.base = End(r) /\ End(high) = End(A[i])
      BY <2>4, <2>5 DEF End
    <3> HIDE DEF b, s, low, high
    <3>6. /\ Good(B, F) /\ Len(B) = Len(A) /\ End(B[i]) = b + s
          /\ \A k \in 1..Len(A) : k # i => B[k] = A[k]
      BY <2>3, <3>1, CutGood
    <3> HIDE DEF B
    <3>7. ASSUME NEW k \in DOMAIN B PROVE ~lmb_addrs_overlap(high, B[k])
      <4>1. k \in 1..Len(A)
        BY <3>6 DEF Good
      <4>2. A[k].base \in Nat /\ End(A[k]) \in Nat /\ A[k].base < End(A[k])
        BY <1>1, <4>1, RegionIs
      <4>3. CASE k = i
        BY <2>5, <3>1, <3>5, <3>6, <4>3 DEF lmb_addrs_overlap
      <4>4. CASE k < i
        <5>1. End(A[k]) <= A[i].base /\ B[k] = A[k]
          BY <1>1, <2>3, <3>6, <4>1, <4>4
        <5> QED BY <2>3, <2>4, <2>5, <3>5, <4>2, <5>1 DEF lmb_addrs_overlap
      <4>5. CASE k > i
        <5>1. End(A[i]) <= A[k].base /\ B[k] = A[k]
          BY <1>1, <2>3, <3>6, <4>1, <4>5
        <5> QED BY <2>3, <2>4, <2>5, <3>5, <4>2, <5>1 DEF lmb_addrs_overlap
      <4> QED BY <2>3, <4>1, <4>3, <4>4, <4>5
    <3>8. lmb_can_reserve_region(B, high, A[i].flags)
      BY <3>7 DEF lmb_can_reserve_region
    <3> DEFINE L == lmb_add_region_flags(B, high, A[i].flags)
    <3>9. Good(L.lst, F) /\ L.ret = 0 /\ (Coalesced(B) => Adds(B, high, A[i].flags, L.lst))
      BY <2>4, <3>4, <3>6, <3>8, AddGood
    <3>10. Coalesced(A) => Coalesced(B)
      <4>1. A[i].base + s < End(A[i])
        BY <2>3, <2>4, <2>5, <2>10, <3>1 DEF b
      <4>2. Coalesced(A) => Coalesced(SetRegion(A, i, A[i].base, s))
        BY <2>3, <3>1, <4>1, CutCoalesced
      <4> QED BY <4>2 DEF B, b
    <3>11. lmb_free_list(A, r) = L
      BY <1>2, <1>4, <2>10, <3>3
    <3> HIDE DEF L
    <3>12. ASSUME Coalesced(A), NEW a \in Nat, NEW x
           PROVE  At(L.lst, a, x) <=> \/ Covers(A[i], a, x) /\ ~(r.base <= a /\ a < End(r))
                                      \/ \E k \in 1..Len(A) : k # i /\ Covers(A[k], a, x)
      <4>0. b + s <= AddrMax + 1
        BY <2>4, <3>1, AddrAssumption
      <4>1. At(B, a, x) <=> \/ b <= a /\ a < b + s /\ x = A[i].flags
                            \/ \E k \in 1..Len(A) : k # i /\ Covers(A[k], a, x)
        BY <1>1, <2>3, <3>1, <4>0, ChangedAt DEF B
      <4>2. At(L.lst, a, x) <=> IF End(r) <= a /\ a < End(A[i]) THEN x = A[i].flags ELSE At(B, a, x)
        BY <3>5, <3>9, <3>10, <3>12 DEF Adds
      <4>3. CASE End(r) <= a /\ a < End(A[i])
        <5>1. ASSUME NEW k \in 1..Len(A), k # i PROVE ~Covers(A[k], a, x)
          <6>1. End(A[k]) <= A[i].base \/ End(A[i]) <= A[k].base
            BY <1>1, <2>3, <5>1
          <6>2. A[k].base \in Nat /\ End(A[k]) \in Nat
            BY <1>1, RegionIs
          <6> QED BY <2>3, <2>4, <2>5, <4>3, <6>1, <6>2 DEF Covers
        <5>2. x = A[i].flags <=> Covers(A[i], a, x) /\ ~(r.base <= a /\ a < End(r))
          BY <2>3, <2>4, <2>5, <4>3 DEF Covers
        <5> QED BY <4>2, <4>3, <5>1, <5>2
      <4>4. CASE ~(End(r) <= a /\ a < End(A[i]))
        <5>1. b <= a /\ a < b + s /\ x = A[i].flags <=>
                Covers(A[i], a, x) /\ ~(r.base <= a /\ a < End(r))
          BY <2>3, <2>4, <2>5, <4>4, <3>1 DEF Covers, b
        <5> QED BY <4>1, <4>2, <4>4, <5>1
      <4> QED BY <4>3, <4>4
    <3> QED BY <2>6, <3>9, <3>11, <3>12
  <2> QED BY <2>7, <2>8, <2>9, <2>10
<1> QED BY <1>3, <1>4

-----------------------------------------------------------------------------
(* Looking for a place *)

\* Aligned addresses: the highest one up to a,
LEMMA Aligned ==
  ASSUME NEW a \in Nat, NEW d \in Nat \ {0}
  PROVE  AlignDown(a, d) \in Nat /\ AlignDown(a, d) <= a /\ AlignDown(a, d) % d = 0
<1>1. AlignDown(a, d) \in Nat /\ AlignDown(a, d) <= a
  BY DEF AlignDown
<1>2. AlignDown(a, d) % d = 0
  BY DEF AlignDown
<1> QED BY <1>1, <1>2

\* above which there is no other
LEMMA AlignedBelow ==
  ASSUME NEW a \in Nat, NEW d \in Nat \ {0}, NEW p \in Nat, p % d = 0, p <= a
  PROVE  p <= AlignDown(a, d)
<1>1. p = d * (p \div d) /\ p \div d \in Nat
  OBVIOUS
<1>2. a < d * (a \div d) + d /\ a \div d \in Nat
  OBVIOUS
<1>3. p \div d <= a \div d
  <2> SUFFICES ASSUME p \div d >= a \div d + 1 PROVE FALSE
    BY <1>1, <1>2
  <2>1. d * (p \div d) >= d * (a \div d + 1)
    BY <1>1, <1>2
  <2> QED BY <1>1, <1>2, <2>1
<1> QED BY <1>1, <1>2, <1>3 DEF AlignDown

\* No reserved region is in the way of `size' at p.
Clear(used, p, size) == \A j \in 1..Len(used) : End(used[j]) <= p \/ p + size <= used[j].base
Blocker(used, p, size) == lmb_overlaps_region(used, [base |-> p, size |-> size])

\* lmb_overlaps_region() finds one that is, or 0.
LEMMA BlockerIs ==
  ASSUME NEW F, NEW used, Good(used, F), NEW p \in Nat, NEW size \in Nat, size > 0
  PROVE  /\ Blocker(used, p, size) = 0 <=> Clear(used, p, size)
         /\ Blocker(used, p, size) # 0 => /\ Blocker(used, p, size) \in 1..Len(used)
                                          /\ p < End(used[Blocker(used, p, size)])
                                          /\ used[Blocker(used, p, size)].base < p + size
<1> DEFINE r == [base |-> p, size |-> size]
           over == {k \in DOMAIN used : lmb_addrs_overlap(r, used[k])}
           b == Blocker(used, p, size)
<1>1. used \in Seq(Regions(F)) /\ Len(used) \in Nat /\ DOMAIN used = 1..Len(used)
  BY DEF Good
<1>2. r.base = p /\ End(r) = p + size
  BY DEF End
<1>3. b = IF over = {} THEN 0 ELSE Min(over)
  BY DEF Blocker, lmb_overlaps_region
<1>4. \A k \in 1..Len(used) : k \in over <=> p < End(used[k]) /\ used[k].base < p + size
  <2> HIDE DEF r
  <2> QED BY <1>1, <1>2 DEF lmb_addrs_overlap
<1>5. \A k \in 1..Len(used) : End(used[k]) \in Nat /\ used[k].base \in Nat
  BY <1>1, RegionIs
<1>6. over \subseteq 1..Len(used)
  BY <1>1
<1> HIDE DEF over, b
<1>7. Clear(used, p, size) <=> over = {}
  <2>1. \A k \in 1..Len(used) : k \in over <=> ~(End(used[k]) <= p \/ p + size <= used[k].base)
    BY <1>4, <1>5
  <2> QED BY <1>6, <2>1 DEF Clear
<1>8. CASE over = {}
  BY <1>3, <1>7, <1>8 DEF b
<1>9. CASE over # {}
  <2>1. over \subseteq Nat
    BY <1>6
  <2>2. b \in over
    BY <1>3, <1>9, <2>1, Smallest
  <2>3. b \in 1..Len(used) /\ b # 0
    BY <1>6, <2>2
  <2> QED BY <1>4, <1>7, <1>9, <2>2, <2>3 DEF b
<1> QED BY <1>8, <1>9

\* One turn of the search in a region of memory m, at b
AllocTurn(g, used, m, size, align, b) ==
  IF b = 0 \/ b < m.base THEN 0
  ELSE IF Blocker(used, b, size) = 0 THEN b
  ELSE IF used[Blocker(used, b, size)].base < size THEN 0
  ELSE g[AlignDown(used[Blocker(used, b, size)].base - size, align)]

\* The search goes down: where it goes on is below b.
LEMMA TurnsDown ==
  ASSUME NEW F, NEW used, Good(used, F), NEW size \in Nat, size > 0, NEW align \in Nat \ {0}, NEW b \in Nat,
         Blocker(used, b, size) # 0, ~(used[Blocker(used, b, size)].base < size)
  PROVE  /\ AlignDown(used[Blocker(used, b, size)].base - size, align) \in 0..(b - 1)
         /\ used[Blocker(used, b, size)].base - size \in Nat
<1> DEFINE k == Blocker(used, b, size)
           a == used[k].base - size
<1>1. used \in Seq(Regions(F))
  BY DEF Good
<1>2. k \in 1..Len(used) /\ used[k].base < b + size
  BY BlockerIs
<1>3. used[k].base \in Nat
  BY <1>1, <1>2, RegionIs
<1>4. a \in Nat /\ a < b
  <2> HIDE DEF k
  <2>1. ~(used[k].base < size)
    BY DEF k
  <2> QED BY <1>2, <1>3, <2>1
<1> HIDE DEF a
<1>5. AlignDown(a, align) \in Nat /\ AlignDown(a, align) <= a
  BY <1>4, Aligned
<1>6. AlignDown(a, align) \in 0..(b - 1)
  BY <1>4, <1>5
<1> QED BY <1>4, <1>6 DEF a

\* g is the search at the addresses below n.
Searches(g, n, used, m, size, align) ==
  g = [b \in 0..(n - 1) |-> AllocTurn(g, used, m, size, align, b)]

\* As it goes down, it is well defined at any number of addresses.
LEMMA SearchExists ==
  ASSUME NEW F, NEW used, Good(used, F), NEW m, NEW size \in Nat, size > 0, NEW align \in Nat \ {0}, NEW n \in Nat
  PROVE  \E g : Searches(g, n, used, m, size, align)
<1> DEFINE Sol(x) == \E g : g = [b \in 0..(x - 1) |-> AllocTurn(g, used, m, size, align, b)]
           I == {x \in Nat : ~Sol(x)}
<1> SUFFICES ASSUME I # {} PROVE FALSE
  BY DEF Searches
<1>1. Min(I) \in I /\ \A y \in I : Min(I) <= y
  BY Smallest
<1>2. PICK x \in I : \A y \in I : x <= y
  BY <1>1
<1>3. x \in Nat /\ ~Sol(x) /\ \A y \in Nat : y < x => Sol(y)
  BY <1>2
<1>4. CASE x = 0
  <2> DEFINE g == [b \in 0..(0 - 1) |-> 0]
  <2>1. 0..(0 - 1) = {}
    OBVIOUS
  <2>2. g = [b \in 0..(0 - 1) |-> AllocTurn(g, used, m, size, align, b)]
    BY <2>1
  <2> QED BY <1>3, <1>4, <2>2
<1>5. CASE x # 0
  <2>1. x - 1 \in Nat /\ x - 1 < x
    BY <1>3, <1>5
  <2>2. Sol(x - 1)
    BY <1>3, <2>1
  <2>3. PICK g : g = [b \in 0..((x - 1) - 1) |-> AllocTurn(g, used, m, size, align, b)]
    BY <2>2
  <2> DEFINE h == [b \in 0..(x - 1) |-> AllocTurn(g, used, m, size, align, b)]
  <2>4. ASSUME NEW b \in 0..((x - 1) - 1) PROVE h[b] = g[b]
    <3>1. b \in 0..(x - 1)
      BY <1>3
    <3> QED BY <2>3, <3>1
  <2>5. ASSUME NEW b \in 0..(x - 1)
        PROVE  AllocTurn(g, used, m, size, align, b) = AllocTurn(h, used, m, size, align, b)
    <3> HIDE DEF h
    <3>1. CASE Blocker(used, b, size) # 0 /\ ~(used[Blocker(used, b, size)].base < size)
      <4>1. AlignDown(used[Blocker(used, b, size)].base - size, align) \in 0..(b - 1)
        BY <3>1, TurnsDown
      <4>2. AlignDown(used[Blocker(used, b, size)].base - size, align) \in 0..((x - 1) - 1)
        BY <1>3, <4>1
      <4> QED BY <2>4, <4>2 DEF AllocTurn
    <3>2. CASE ~(Blocker(used, b, size) # 0 /\ ~(used[Blocker(used, b, size)].base < size))
      BY <3>2 DEF AllocTurn
    <3> QED BY <3>1, <3>2
  <2>6. h = [b \in 0..(x - 1) |-> AllocTurn(h, used, m, size, align, b)]
    BY <2>5
  <2>7. Sol(x)
    BY <2>6
  <2> QED BY <1>3, <2>7
<1> QED BY <1>4, <1>5

\* v is the highest place for `size' in m from b down, 0 if there is none.
IsHighest(used, m, size, align, b, v) ==
  /\ v \in Nat
  /\ v # 0 => v <= b /\ v % align = 0 /\ m.base <= v /\ Clear(used, v, size)
  /\ \A p \in 1..b : p % align = 0 /\ m.base <= p /\ Clear(used, p, size) => p <= v

\* The search from an aligned address finds it: a region in the way is in the
\* way of every place from its base, less `size', to b.
LEMMA SearchIsHighest ==
  ASSUME NEW F, NEW used, Good(used, F), NEW m, m.base \in Nat, NEW size \in Nat, size > 0,
         NEW align \in Nat \ {0}, NEW g, g = [b \in Addrs |-> AllocTurn(g, used, m, size, align, b)],
         NEW c \in Addrs, c % align = 0
  PROVE  IsHighest(used, m, size, align, c, g[c])
<1> DEFINE I == {b \in Addrs : b % align = 0 /\ ~IsHighest(used, m, size, align, b, g[b])}
<1> SUFFICES ASSUME I # {} PROVE FALSE
  OBVIOUS
<1>1. I \subseteq Nat /\ Addrs \subseteq Nat /\ Addrs = 0..AddrMax /\ AddrMax \in Nat
  BY AddrAssumption DEF Addrs
<1>2. PICK b \in I : \A y \in I : b <= y
  BY <1>1, Smallest
<1>3. /\ b \in Addrs /\ b \in Nat /\ b % align = 0 /\ ~IsHighest(used, m, size, align, b, g[b])
      /\ \A y \in Addrs : y < b /\ y % align = 0 => IsHighest(used, m, size, align, y, g[y])
  BY <1>1, <1>2
<1>4. g[b] = AllocTurn(g, used, m, size, align, b)
  BY <1>3
<1> DEFINE k == Blocker(used, b, size)
           a == AlignDown(used[k].base - size, align)
<1>5. /\ k = 0 <=> Clear(used, b, size)
      /\ k # 0 => k \in 1..Len(used) /\ b < End(used[k]) /\ used[k].base < b + size
  BY <1>3, BlockerIs
<1>6. \A p \in 1..b : p \in Nat /\ p <= b /\ p > 0
  BY <1>3
<1>7. CASE b = 0 \/ b < m.base
  <2>1. g[b] = 0
    BY <1>4, <1>7 DEF AllocTurn
  <2>2. ASSUME NEW p \in 1..b PROVE ~(m.base <= p)
    <3>1. p \in Nat /\ p <= b /\ p > 0 /\ b \in Nat
      BY <1>3
    <3> QED BY <1>7, <3>1
  <2> QED BY <1>3, <2>1, <2>2 DEF IsHighest
<1>8. CASE ~(b = 0 \/ b < m.base) /\ k = 0
  <2>1. g[b] = b
    BY <1>4, <1>8 DEF AllocTurn
  <2>2. m.base <= b /\ Clear(used, b, size)
    BY <1>3, <1>5, <1>8
  <2> HIDE DEF k
  <2> QED BY <1>3, <1>6, <2>1, <2>2 DEF IsHighest
<1>9. CASE ~(b = 0 \/ b < m.base) /\ k # 0
  <2>1. used[k].base \in Nat /\ End(used[k]) \in Nat
    <3>1. used \in Seq(Regions(F)) /\ k \in 1..Len(used)
      BY <1>5, <1>9 DEF Good
    <3> QED BY <3>1, RegionIs
  <2>2. ASSUME NEW p \in 1..b, Clear(used, p, size) PROVE p + size <= used[k].base
    <3>1. End(used[k]) <= p \/ p + size <= used[k].base
      BY <1>5, <1>9, <2>2 DEF Clear
    <3>2. p \in Nat /\ p <= b /\ b < End(used[k])
      BY <1>5, <1>6, <1>9
    <3> HIDE DEF k
    <3> QED BY <1>3, <2>1, <3>1, <3>2
  <2>3. CASE used[k].base < size
    <3>1. g[b] = 0
      BY <1>4, <1>9, <2>3 DEF AllocTurn
    <3>2. ASSUME NEW p \in 1..b PROVE ~Clear(used, p, size)
      <4> SUFFICES ASSUME Clear(used, p, size) PROVE FALSE
        OBVIOUS
      <4>1. p + size <= used[k].base /\ p \in Nat
        BY <1>6, <2>2
      <4> HIDE DEF k
      <4> QED BY <2>1, <2>3, <4>1
    <3> QED BY <1>3, <3>1, <3>2 DEF IsHighest
  <2>4. CASE ~(used[k].base < size)
    <3>1. g[b] = g[a]
      BY <1>4, <1>9, <2>4 DEF AllocTurn
    <3>2. a \in 0..(b - 1) /\ used[k].base - size \in Nat
      BY <1>3, <1>9, <2>4, TurnsDown
    <3>3. a % align = 0
      BY <3>2, Aligned
    <3>4. ASSUME NEW p \in 1..b, p % align = 0, Clear(used, p, size) PROVE p \in 1..a
      <4>1. p + size <= used[k].base /\ p \in Nat /\ p > 0
        BY <1>6, <2>2, <3>4
      <4>2. p <= used[k].base - size
        <5> HIDE DEF k
        <5> QED BY <2>1, <4>1
      <4>3. p <= a
        BY <3>2, <3>4, <4>1, <4>2, AlignedBelow
      <4> HIDE DEF a
      <4> QED BY <3>2, <4>1, <4>3
    <3> HIDE DEF a, k
    <3>5. a \in Addrs /\ a < b
      BY <1>1, <1>3, <3>2
    <3>6. IsHighest(used, m, size, align, a, g[a])
      BY <1>3, <3>3, <3>5
    <3>7. IsHighest(used, m, size, align, b, g[a])
      <4>1. g[a] \in Nat /\ (g[a] # 0 => g[a] <= a /\ g[a] % align = 0 /\ m.base <= g[a] /\ Clear(used, g[a], size))
            /\ \A p \in 1..a : p % align = 0 /\ m.base <= p /\ Clear(used, p, size) => p <= g[a]
        BY <3>6 DEF IsHighest
      <4>2. g[a] # 0 => g[a] <= b
        BY <1>1, <1>3, <3>5, <4>1
      <4> QED BY <3>4, <4>1, <4>2 DEF IsHighest
    <3> QED BY <1>3, <3>1, <3>7
  <2> QED BY <2>3, <2>4
<1> QED BY <1>7, <1>8, <1>9

\* _lmb_alloc_base() in one region of memory finds the highest place that ends
\* by `top'.
LEMMA InRegionIsHighest ==
  ASSUME NEW F, NEW used, Good(used, F), NEW m, m.base \in Nat, NEW size \in Nat, size > 0,
         NEW align \in Nat \ {0}, NEW top \in Nat, size <= top, top <= AddrMax + 1
  PROVE  IsHighest(used, m, size, align, top - size, AllocInRegion(used, m, size, align, top))
<1> DEFINE G(g) == g = [b \in Addrs |-> AllocTurn(g, used, m, size, align, b)]
           from == CHOOSE g : G(g)
           c == AlignDown(top - size, align)
           v == from[c]
<1>1. AllocInRegion(used, m, size, align, top) = v
  BY DEF AllocInRegion, AllocTurn, Blocker
<1>2. AddrMax + 1 \in Nat /\ Addrs = 0..((AddrMax + 1) - 1)
  BY AddrAssumption DEF Addrs
<1>3. \E g : G(g)
  <2> DEFINE n == AddrMax + 1
  <2>1. n \in Nat /\ Addrs = 0..(n - 1)
    BY <1>2
  <2> HIDE DEF n
  <2>2. \E g : Searches(g, n, used, m, size, align)
    BY <2>1, SearchExists
  <2> QED BY <2>1, <2>2 DEF Searches
<1>4. G(from)
  BY <1>3
<1> HIDE DEF from
<1>5. top - size \in Nat /\ top - size <= AddrMax
  BY AddrAssumption
<1>6. c \in Nat /\ c <= top - size /\ c % align = 0
  BY <1>5, Aligned
<1>7. c \in Addrs
  <2> HIDE DEF c
  <2> QED BY <1>5, <1>6, AddrAssumption DEF Addrs
<1>8. IsHighest(used, m, size, align, c, from[c])
  <2>1. from = [b \in Addrs |-> AllocTurn(from, used, m, size, align, b)]
    BY <1>4
  <2> HIDE DEF c
  <2> QED BY <1>6, <1>7, <2>1, SearchIsHighest
<1>9. ASSUME NEW p \in 1..(top - size), p % align = 0 PROVE p \in 1..c
  <2>1. p \in Nat /\ p <= top - size /\ p > 0
    BY <1>5
  <2>2. p <= c
    BY <1>5, <1>9, <2>1, AlignedBelow
  <2> HIDE DEF c
  <2> QED BY <1>6, <2>1, <2>2
<1> HIDE DEF c
<1>10. v # 0 /\ v \in Nat /\ v <= c => v <= top - size
  BY <1>5, <1>6
<1>11. IsHighest(used, m, size, align, top - size, v)
  <2> HIDE DEF v
  <2>1. IsHighest(used, m, size, align, c, v)
    BY <1>8 DEF v
  <2> QED BY <1>9, <1>10, <2>1 DEF IsHighest
<1> QED BY <1>1, <1>11

\* A place for `size' below max_addr, if there is one, in a region of memory i
InMemory(avail, size, i, p) == avail[i].base <= p /\ p + size <= End(avail[i])
Fitting(used, size, align, max_addr, p) ==
  /\ p \in Nat /\ p # 0 /\ p % align = 0 /\ Clear(used, p, size)
  /\ max_addr # LMB_ALLOC_ANYWHERE => p + size <= max_addr

\* b is the highest of them in all regions of memory, 0 if there is none.
BestPlace(avail, used, size, align, max_addr, b) ==
  /\ b \in Nat
  /\ b # 0 => /\ Fitting(used, size, align, max_addr, b)
              /\ \E i \in 1..Len(avail) : InMemory(avail, size, i, b)
  /\ \A i \in 1..Len(avail), p \in Nat :
       Fitting(used, size, align, max_addr, p) /\ InMemory(avail, size, i, p) => b # 0 /\ p <= b

\* _lmb_alloc_base() up to the reservation finds the highest place of all: the
\* highest one in the last region of memory that has any.
LEMMA PlaceIsHighest ==
  ASSUME NEW E, NEW avail, Good(avail, E), NEW F, NEW used, Good(used, F), NEW size \in Nat, size > 0,
         NEW align \in Nat \ {0}, NEW max_addr \in Addrs, max_addr = LMB_ALLOC_ANYWHERE \/ max_addr >= size,
         NEW b, b = AllocPlace(avail, used, size, align, max_addr)
  PROVE  BestPlace(avail, used, size, align, max_addr, b)
<1> DEFINE top(i) == AllocTop(avail[i], size, max_addr)
           place(i) == AllocInRegion(used, avail[i], size, align, top(i))
           fits == {i \in DOMAIN avail : /\ avail[i].size >= size
                                         /\ max_addr = LMB_ALLOC_ANYWHERE \/ avail[i].base < max_addr
                                         /\ place(i) # 0}
           mx == Max(fits)
<1>1. /\ avail \in Seq(Regions(E)) /\ Len(avail) \in Nat /\ DOMAIN avail = 1..Len(avail)
      /\ \A k, l \in 1..Len(avail) : k < l => End(avail[k]) <= avail[l].base
  BY DEF Good, Ascends
<1>2. \A i \in 1..Len(avail) : /\ avail[i].base \in Nat /\ avail[i].size \in Nat /\ End(avail[i]) \in Nat
                               /\ End(avail[i]) = avail[i].base + avail[i].size
                               /\ End(avail[i]) <= AddrMax + 1
  BY <1>1, RegionIs
<1>3. b = IF fits = {} THEN 0 ELSE place(mx)
  BY DEF AllocPlace
<1>4. max_addr \in Nat /\ max_addr <= AddrMax /\ AddrMax \in Nat
  BY AddrAssumption DEF Addrs
<1>5. ASSUME NEW i \in 1..Len(avail), avail[i].size >= size
      PROVE  /\ top(i) \in Nat /\ size <= top(i) /\ top(i) <= AddrMax + 1 /\ top(i) <= End(avail[i])
             /\ max_addr # LMB_ALLOC_ANYWHERE => top(i) <= max_addr
             /\ \A p \in Nat : p + size <= End(avail[i]) /\ (max_addr # LMB_ALLOC_ANYWHERE => p + size <= max_addr)
                                 => p + size <= top(i)
  <2>1. /\ avail[i].base \in Nat /\ avail[i].size \in Nat /\ End(avail[i]) \in Nat
        /\ End(avail[i]) = avail[i].base + avail[i].size /\ End(avail[i]) <= AddrMax + 1
    BY <1>2
  <2>2. size <= End(avail[i])
    BY <1>5, <2>1
  <2>3. CASE max_addr = LMB_ALLOC_ANYWHERE
    <3>1. top(i) = End(avail[i])
      BY <2>3 DEF AllocTop
    <3> QED BY <2>1, <2>2, <2>3, <3>1
  <2>4. CASE max_addr # LMB_ALLOC_ANYWHERE
    <3>1. top(i) = IF End(avail[i]) <= max_addr THEN End(avail[i]) ELSE max_addr
      <4>1. End(avail[i]) \in Int /\ max_addr \in Int
        BY <1>4, <2>1
      <4> QED BY <2>4, <4>1, OfTwo DEF AllocTop
    <3>2. max_addr >= size
      BY <2>4
    <3> HIDE DEF top
    <3> QED BY <1>4, <2>1, <2>2, <2>4, <3>1, <3>2
  <2> QED BY <2>3, <2>4
<1>6. ASSUME NEW i \in 1..Len(avail), avail[i].size >= size
      PROVE  IsHighest(used, avail[i], size, align, top(i) - size, place(i))
  <2>1. avail[i].base \in Nat /\ top(i) \in Nat /\ size <= top(i) /\ top(i) <= AddrMax + 1
    BY <1>2, <1>5, <1>6
  <2> HIDE DEF top
  <2> QED BY <2>1, InRegionIsHighest
<1> HIDE DEF top, place
<1>7. ASSUME NEW i \in 1..Len(avail), NEW p \in Nat, Fitting(used, size, align, max_addr, p),
             InMemory(avail, size, i, p)
      PROVE  i \in fits /\ p <= place(i)
  <2>1. /\ avail[i].base \in Nat /\ avail[i].size \in Nat /\ End(avail[i]) = avail[i].base + avail[i].size
        /\ avail[i].base <= p /\ p + size <= End(avail[i])
    BY <1>2, <1>7 DEF InMemory
  <2>2. avail[i].size >= size
    BY <2>1
  <2>3. /\ p # 0 /\ p % align = 0 /\ Clear(used, p, size)
        /\ max_addr # LMB_ALLOC_ANYWHERE => p + size <= max_addr
    BY <1>7 DEF Fitting
  <2>4. max_addr = LMB_ALLOC_ANYWHERE \/ avail[i].base < max_addr
    BY <1>4, <2>1, <2>3
  <2>5. p + size <= top(i) /\ top(i) \in Nat
    BY <1>5, <2>1, <2>2, <2>3
  <2>6. p \in 1..(top(i) - size)
    BY <2>3, <2>5
  <2>7. p <= place(i) /\ place(i) \in Nat
    BY <1>6, <2>1, <2>2, <2>3, <2>6 DEF IsHighest
  <2>8. place(i) # 0
    BY <2>3, <2>7
  <2> QED BY <1>1, <2>2, <2>4, <2>7, <2>8
<1>8. CASE fits = {}
  <2> HIDE DEF fits
  <2> QED BY <1>3, <1>7, <1>8 DEF BestPlace
<1>9. CASE fits # {}
  <2>1. fits \subseteq 0..Len(avail)
    BY <1>1
  <2>2. mx \in fits /\ \A y \in fits : y <= mx
    BY <1>1, <1>9, <2>1, Largest
  <2>3. mx \in 1..Len(avail) /\ avail[mx].size >= size /\ place(mx) # 0
    <3> HIDE DEF mx
    <3> QED BY <1>1, <2>2
  <2> HIDE DEF fits, mx
  <2>4. b = place(mx) /\ b # 0
    BY <1>3, <1>9, <2>3
  <2>5. IsHighest(used, avail[mx], size, align, top(mx) - size, b)
    BY <1>6, <2>3, <2>4
  <2>6. b \in Nat /\ b <= top(mx) - size /\ b % align = 0 /\ avail[mx].base <= b /\ Clear(used, b, size)
    BY <2>4, <2>5 DEF IsHighest
  <2>7. /\ top(mx) \in Nat /\ top(mx) <= End(avail[mx]) /\ End(avail[mx]) \in Nat
        /\ max_addr # LMB_ALLOC_ANYWHERE => top(mx) <= max_addr
    BY <1>2, <1>5, <2>3
  <2>8. b + size <= top(mx)
    BY <2>6, <2>7
  <2>9. b + size <= End(avail[mx]) /\ (max_addr # LMB_ALLOC_ANYWHERE => b + size <= max_addr)
    BY <1>4, <2>6, <2>7, <2>8
  <2>10. Fitting(used, size, align, max_addr, b) /\ InMemory(avail, size, mx, b)
    BY <2>4, <2>6, <2>9 DEF Fitting, InMemory
  <2>11. ASSUME NEW i \in 1..Len(avail), NEW p \in Nat, Fitting(used, size, align, max_addr, p),
                InMemory(avail, size, i, p)
         PROVE  p <= b
    <3>1. i \in fits /\ p <= place(i) /\ i <= mx
      BY <1>7, <2>2, <2>11
    <3>2. CASE i = mx
      BY <2>4, <3>1, <3>2
    <3>3. CASE i # mx
      <4>1. End(avail[i]) <= avail[mx].base /\ avail[mx].base \in Nat /\ End(avail[i]) \in Nat
        BY <1>1, <1>2, <2>3, <3>1, <3>3
      <4>2. p + size <= End(avail[i])
        BY <2>11 DEF InMemory
      <4> QED BY <2>6, <4>1, <4>2
    <3> QED BY <3>2, <3>3
  <2> QED BY <2>3, <2>4, <2>6, <2>10, <2>11 DEF BestPlace
<1> QED BY <1>8, <1>9

-----------------------------------------------------------------------------
(* Counting the places *)

Rising(q) == \A k, l \in 1..Len(q) : k < l => q[k] < q[l]

\* Two lists of numbers, the second above the first, joined
LEMMA RisingJoined ==
  ASSUME NEW p \in Seq(Nat), NEW q \in Seq(Nat), Rising(p), Rising(q),
         \A x \in ToSet(p), y \in ToSet(q) : x < y
  PROVE  p \o q \in Seq(Nat) /\ ToSet(p \o q) = ToSet(p) \cup ToSet(q) /\ Rising(p \o q)
<1> DEFINE u == p \o q
<1>1. /\ u \in Seq(Nat) /\ Len(u) = Len(p) + Len(q)
      /\ (\A i \in 1..Len(p) : u[i] = p[i])
      /\ \A i \in 1..(Len(p) + Len(q)) : i > Len(p) => u[i] = q[i - Len(p)]
  BY Joined
<1>2. Len(p) \in Nat /\ Len(q) \in Nat /\ DOMAIN p = 1..Len(p) /\ DOMAIN q = 1..Len(q)
  OBVIOUS
<1> HIDE DEF u
<1>3. DOMAIN u = 1..(Len(p) + Len(q))
  BY <1>1
<1>4. ASSUME NEW i \in 1..(Len(p) + Len(q))
      PROVE  \/ i \in 1..Len(p) /\ u[i] = p[i] /\ u[i] \in ToSet(p)
             \/ i > Len(p) /\ i - Len(p) \in 1..Len(q) /\ u[i] = q[i - Len(p)] /\ u[i] \in ToSet(q)
  <2>1. CASE i <= Len(p)
    <3>1. i \in 1..Len(p)
      BY <1>2, <2>1
    <3> QED BY <1>1, <1>2, <3>1 DEF ToSet
  <2>2. CASE ~(i <= Len(p))
    <3>1. i > Len(p) /\ i - Len(p) \in 1..Len(q)
      BY <1>2, <2>2
    <3> QED BY <1>1, <1>2, <3>1 DEF ToSet
  <2> QED BY <2>1, <2>2
<1>5. ToSet(u) = ToSet(p) \cup ToSet(q)
  <2>1. ASSUME NEW x \in ToSet(u) PROVE x \in ToSet(p) \cup ToSet(q)
    <3>1. PICK i \in DOMAIN u : x = u[i]
      BY DEF ToSet
    <3> QED BY <1>3, <1>4, <3>1
  <2>2. ASSUME NEW x \in ToSet(p) PROVE x \in ToSet(u)
    <3>1. PICK i \in 1..Len(p) : x = p[i]
      BY <1>2 DEF ToSet
    <3>2. i \in DOMAIN u /\ u[i] = x
      BY <1>1, <1>2, <1>3, <3>1
    <3> QED BY <3>2 DEF ToSet
  <2>3. ASSUME NEW x \in ToSet(q) PROVE x \in ToSet(u)
    <3>1. PICK i \in 1..Len(q) : x = q[i]
      BY <1>2 DEF ToSet
    <3>2. i + Len(p) \in 1..(Len(p) + Len(q)) /\ i + Len(p) > Len(p) /\ (i + Len(p)) - Len(p) = i
      BY <1>2
    <3>3. i + Len(p) \in DOMAIN u /\ u[i + Len(p)] = x
      BY <1>1, <1>3, <3>1, <3>2
    <3> QED BY <3>3 DEF ToSet
  <2> QED BY <2>1, <2>2, <2>3
<1>6. ASSUME NEW k \in 1..Len(u), NEW l \in 1..Len(u), k < l PROVE u[k] < u[l]
  <2>1. k \in 1..(Len(p) + Len(q)) /\ l \in 1..(Len(p) + Len(q))
    BY <1>1
  <2>2. CASE l \in 1..Len(p)
    <3>1. k \in 1..Len(p)
      BY <1>2, <1>6, <2>1, <2>2
    <3> QED BY <1>1, <1>6, <2>2, <3>1 DEF Rising
  <2>3. CASE l > Len(p) /\ k \in 1..Len(p)
    <3>1. u[k] \in ToSet(p) /\ u[l] \in ToSet(q)
      BY <1>2, <1>4, <2>1, <2>3
    <3> QED BY <3>1
  <2>4. CASE k > Len(p)
    <3>1. l > Len(p)
      BY <1>2, <1>6, <2>1, <2>4
    <3>2. /\ k - Len(p) \in 1..Len(q) /\ u[k] = q[k - Len(p)]
          /\ l - Len(p) \in 1..Len(q) /\ u[l] = q[l - Len(p)]
      BY <1>2, <1>4, <2>1, <2>4, <3>1
    <3>3. k - Len(p) < l - Len(p)
      BY <1>2, <1>6, <2>1
    <3> QED BY <3>2, <3>3 DEF Rising
  <2> QED BY <1>2, <2>1, <2>2, <2>3, <2>4
<1>7. Rising(u)
  BY <1>6 DEF Rising
<1> QED BY <1>1, <1>5, <1>7 DEF u

\* The lists s[1] to s[x] joined, one after the other
Flattens(f, s, x) == f = [i \in 1..x |-> IF i = 1 THEN s[i] ELSE f[i - 1] \o s[i]]

\* They can be, for any number of lists.
LEMMA FlattenExists ==
  ASSUME NEW s, NEW n \in Nat
  PROVE  \E f : Flattens(f, s, n)
<1> DEFINE Sol(x) == \E f : f = [i \in 1..x |-> IF i = 1 THEN s[i] ELSE f[i - 1] \o s[i]]
           I == {x \in Nat : ~Sol(x)}
<1> SUFFICES ASSUME I # {} PROVE FALSE
  BY DEF Flattens
<1>1. Min(I) \in I /\ \A y \in I : Min(I) <= y
  BY Smallest
<1>2. PICK x \in I : \A y \in I : x <= y
  BY <1>1
<1>3. x \in Nat /\ ~Sol(x) /\ \A y \in Nat : y < x => Sol(y)
  <2> HIDE DEF Sol
  <2> QED BY <1>2
<1>4. CASE x = 0
  <2> DEFINE g == [i \in 1..0 |-> 0]
  <2>1. 1..0 = {}
    OBVIOUS
  <2>2. g = [i \in 1..0 |-> IF i = 1 THEN s[i] ELSE g[i - 1] \o s[i]]
    BY <2>1
  <2> QED BY <1>3, <1>4, <2>2
<1>5. CASE x # 0
  <2>1. x - 1 \in Nat /\ x - 1 < x
    BY <1>3, <1>5
  <2>2. Sol(x - 1)
    BY <1>3, <2>1
  <2>3. PICK f : f = [i \in 1..(x - 1) |-> IF i = 1 THEN s[i] ELSE f[i - 1] \o s[i]]
    BY <2>2
  <2> DEFINE h == [i \in 1..x |-> IF i = 1 THEN s[i] ELSE f[i - 1] \o s[i]]
  <2>4. ASSUME NEW i \in 1..(x - 1) PROVE h[i] = f[i]
    <3>1. i \in 1..x
      BY <1>3
    <3> QED BY <2>3, <3>1
  <2>5. ASSUME NEW i \in 1..x
        PROVE  (IF i = 1 THEN s[i] ELSE f[i - 1] \o s[i]) = (IF i = 1 THEN s[i] ELSE h[i - 1] \o s[i])
    <3> HIDE DEF h
    <3>1. CASE i = 1
      BY <3>1
    <3>2. CASE i # 1
      <4>1. i - 1 \in 1..(x - 1)
        BY <1>3, <3>2
      <4>2. h[i - 1] = f[i - 1]
        BY <2>4, <4>1
      <4> QED BY <3>2, <4>2
    <3> QED BY <3>1, <3>2
  <2>6. h = [i \in 1..x |-> IF i = 1 THEN s[i] ELSE h[i - 1] \o s[i]]
    BY <2>5
  <2>7. Sol(x)
    BY <2>6
  <2> QED BY <1>3, <2>7
<1> QED BY <1>4, <1>5

\* Lists of numbers, each above the ones before
Stacked(s) ==
  /\ s \in Seq(Seq(Nat))
  /\ \A i \in 1..Len(s) : Rising(s[i])
  /\ \A i, j \in 1..Len(s) : i < j => \A x \in ToSet(s[i]), y \in ToSet(s[j]) : x < y

\* Flattening makes one ascending list of all of them.
LEMMA FlattenIs ==
  ASSUME NEW s, Stacked(s)
  PROVE  /\ FlattenSeq(s) \in Seq(Nat) /\ Rising(FlattenSeq(s))
         /\ \A x : x \in ToSet(FlattenSeq(s)) <=> \E i \in 1..Len(s) : x \in ToSet(s[i])
<1>1. /\ s \in Seq(Seq(Nat)) /\ Len(s) \in Nat /\ \A i \in 1..Len(s) : s[i] \in Seq(Nat) /\ Rising(s[i])
  BY DEF Stacked
<1>2. CASE Len(s) = 0
  <2>1. FlattenSeq(s) = s
    BY <1>2 DEF FlattenSeq
  <2>2. s = <<>>
    BY <1>1, <1>2
  <2>3. s \in Seq(Nat) /\ Len(s) = 0 /\ DOMAIN s = {} /\ 1..Len(s) = {}
    BY <2>2
  <2>4. ToSet(s) = {}
    BY <2>3 DEF ToSet
  <2>5. Rising(s)
    BY <2>3 DEF Rising
  <2> QED BY <2>1, <2>3, <2>4, <2>5
<1>3. CASE Len(s) # 0
  <2> DEFINE f == CHOOSE g : g = [i \in 1..Len(s) |-> IF i = 1 THEN s[i] ELSE g[i - 1] \o s[i]]
             Is(i) == /\ f[i] \in Seq(Nat) /\ Rising(f[i])
                      /\ \A x : x \in ToSet(f[i]) <=> \E j \in 1..i : x \in ToSet(s[j])
             I == {i \in 1..Len(s) : ~Is(i)}
  <2>1. FlattenSeq(s) = f[Len(s)]
    BY <1>3 DEF FlattenSeq
  <2>2. f = [i \in 1..Len(s) |-> IF i = 1 THEN s[i] ELSE f[i - 1] \o s[i]]
    <3>1. \E g : Flattens(g, s, Len(s))
      BY <1>1, FlattenExists
    <3> QED BY <3>1 DEF Flattens
  <2> HIDE DEF f
  <2>3. ASSUME NEW i \in 1..Len(s), \A j \in 1..Len(s) : j < i => Is(j) PROVE Is(i)
    <3>1. CASE i = 1
      <4>1. f[i] = s[i]
        BY <2>2, <3>1
      <4>2. 1..i = {i}
        BY <3>1
      <4> QED BY <1>1, <4>1, <4>2
    <3>2. CASE i # 1
      <4> DEFINE p == f[i - 1]
                 q == s[i]
      <4>1. f[i] = p \o q
        BY <2>2, <3>2
      <4>2. i - 1 \in 1..Len(s) /\ i - 1 < i
        BY <1>1, <3>2
      <4>3. Is(i - 1)
        BY <2>3, <4>2
      <4>4. p \in Seq(Nat) /\ q \in Seq(Nat) /\ Rising(p) /\ Rising(q)
        BY <1>1, <4>3
      <4>5. ASSUME NEW x \in ToSet(p), NEW y \in ToSet(q) PROVE x < y
        <5>1. PICK j \in 1..(i - 1) : x \in ToSet(s[j])
          BY <4>3
        <5>2. j \in 1..Len(s) /\ j < i
          BY <1>1, <4>2
        <5> QED BY <5>1, <5>2 DEF Stacked
      <4> HIDE DEF p, q
      <4>6. p \o q \in Seq(Nat) /\ ToSet(p \o q) = ToSet(p) \cup ToSet(q) /\ Rising(p \o q)
        BY <4>4, <4>5, RisingJoined
      <4>7. \A x : x \in ToSet(p) <=> \E j \in 1..(i - 1) : x \in ToSet(s[j])
        BY <4>3 DEF p
      <4>8. 1..i = (1..(i - 1)) \cup {i}
        BY <4>2
      <4>9. \A x : x \in ToSet(f[i]) <=> \E j \in 1..i : x \in ToSet(s[j])
        BY <4>1, <4>6, <4>7, <4>8 DEF q
      <4> QED BY <4>1, <4>6, <4>9
    <3> QED BY <3>1, <3>2
  <2> HIDE DEF Is
  <2>4. I = {}
    <3> SUFFICES ASSUME I # {} PROVE FALSE
      OBVIOUS
    <3>1. I \subseteq Nat
      OBVIOUS
    <3>2. PICK i \in I : \A y \in I : i <= y
      BY <3>1, Smallest
    <3>3. i \in 1..Len(s) /\ ~Is(i)
      BY <3>2
    <3>4. ASSUME NEW j \in 1..Len(s), j < i PROVE Is(j)
      BY <1>1, <3>2, <3>3, <3>4
    <3> QED BY <2>3, <3>3, <3>4
  <2>5. Len(s) \in 1..Len(s)
    BY <1>1, <1>3
  <2>6. Is(Len(s))
    BY <2>4, <2>5
  <2> QED BY <2>1, <2>6 DEF Is
<1> QED BY <1>2, <1>3

\* Multiples of d
LEMMA Multiple ==
  ASSUME NEW d \in Nat \ {0}, NEW k \in Nat
  PROVE  d * k \in Nat /\ (d * k) % d = 0 /\ (d * k) \div d = k
  OBVIOUS

\* are in the order of their factors.
LEMMA MultipleOrder ==
  ASSUME NEW d \in Nat \ {0}, NEW k \in Nat, NEW l \in Nat
  PROVE  k <= l <=> d * k <= d * l
<1>1. CASE k <= l
  <2>1. d * k <= d * l
    BY <1>1
  <2> QED BY <1>1, <2>1
<1>2. CASE ~(k <= l)
  <2>1. k >= l + 1
    BY <1>2
  <2>2. d * k >= d * (l + 1)
    BY <2>1
  <2>3. d * (l + 1) = d * l + d
    OBVIOUS
  <2>4. d * k \in Int /\ d * l \in Int
    OBVIOUS
  <2> QED BY <1>2, <2>2, <2>3, <2>4
<1> QED BY <1>1, <1>2

\* The lowest aligned address from a up
LEMMA AlignedAbove ==
  ASSUME NEW a \in Nat, NEW d \in Nat \ {0}
  PROVE  /\ AlignUp(a, d) \in Nat /\ a <= AlignUp(a, d) /\ AlignUp(a, d) % d = 0
         /\ \A p \in Nat : p % d = 0 /\ a <= p => AlignUp(a, d) <= p
<1> DEFINE c == a + d - 1
           q == c \div d
<1>1. c \in Nat /\ AlignUp(a, d) = AlignDown(c, d)
  BY DEF AlignUp
<1> HIDE DEF c
<1>2. AlignDown(c, d) \in Nat /\ AlignDown(c, d) <= c /\ AlignDown(c, d) % d = 0
  BY <1>1, Aligned
<1>3. q \in Nat /\ AlignDown(c, d) = d * q /\ c < d * q + d
  BY <1>1 DEF AlignDown
<1> HIDE DEF q
<1>4. a <= AlignDown(c, d)
  BY <1>2, <1>3 DEF c
<1>5. ASSUME NEW p \in Nat, p % d = 0, a <= p PROVE AlignDown(c, d) <= p
  <2>1. p = d * (p \div d) /\ p \div d \in Nat
    BY <1>5
  <2> DEFINE l == p \div d
  <2> HIDE DEF l
  <2>2. l \in Nat /\ l + 1 \in Nat /\ d * (l + 1) = p + d
    BY <2>1 DEF l
  <2>3. ~(d * (l + 1) <= d * q)
    BY <1>2, <1>3, <1>5, <2>2 DEF c
  <2>4. ~(l + 1 <= q)
    BY <1>3, <2>2, <2>3, MultipleOrder
  <2>5. q <= l
    BY <1>3, <2>2, <2>4
  <2>6. d * q <= d * l
    BY <1>3, <2>2, <2>5, MultipleOrder
  <2>7. p = d * l
    BY <2>1 DEF l
  <2> QED BY <1>3, <2>6, <2>7
<1> QED BY <1>1, <1>2, <1>4, <1>5

\* The places in a gap from `from' up to `to'
LEMMA GapSlotsAre ==
  ASSUME NEW from \in Nat, NEW to \in Nat, NEW size \in Nat, size > 0, NEW align \in Nat \ {0}
  PROVE  /\ GapSlots(from, to, size, align) \in Seq(Nat) /\ Rising(GapSlots(from, to, size, align))
         /\ \A p : p \in ToSet(GapSlots(from, to, size, align)) <=>
                     p \in Nat /\ p % align = 0 /\ from <= p /\ p + size <= to
<1> DEFINE d == align
           first == AlignUp(from, align)
           last == AlignDown(to - size, align)
           len == (last - first) \div align + 1
           slots == [n \in 1..len |-> first + (n - 1) * align]
<1>1. /\ first \in Nat /\ from <= first /\ first % align = 0
      /\ \A p \in Nat : p % align = 0 /\ from <= p => first <= p
  BY AlignedAbove
<1>2. GapSlots(from, to, size, align) = IF to > first /\ to - first >= size THEN slots ELSE <<>>
  BY DEF GapSlots
<1> HIDE DEF first
<1>3. CASE ~(to > first /\ to - first >= size)
  <2>1. GapSlots(from, to, size, align) = <<>>
    BY <1>2, <1>3
  <2>2. <<>> \in Seq(Nat) /\ Rising(<<>>) /\ ToSet(<<>>) = {}
    BY DEF Rising, ToSet
  <2>3. ASSUME NEW p \in Nat, p % align = 0, from <= p, p + size <= to PROVE FALSE
    <3>1. first <= p
      BY <1>1, <2>3
    <3> QED BY <1>1, <1>3, <2>3, <3>1
  <2> QED BY <2>1, <2>2, <2>3
<1>4. CASE to > first /\ to - first >= size
  <2> DEFINE a == to - size
             k == first \div d
             l == last \div d
  <2>1. a \in Nat /\ first <= a
    BY <1>1, <1>4
  <2> HIDE DEF a
  <2>2. last = AlignDown(a, align)
    BY DEF a
  <2> HIDE DEF last
  <2>3. last \in Nat /\ last <= a /\ last % align = 0 /\ first <= last
    BY <1>1, <2>1, <2>2, Aligned, AlignedBelow
  <2>4. k \in Nat /\ first = d * k /\ l \in Nat /\ last = d * l
    BY <1>1, <2>3
  <2> HIDE DEF k, l
  <2>5. k <= l
    BY <2>3, <2>4, MultipleOrder
  <2>6. l - k \in Nat /\ last - first = d * (l - k)
    BY <2>4, <2>5
  <2>7. len = l - k + 1
    <3>1. (d * (l - k)) \div d = l - k
      BY <2>6, Multiple
    <3> QED BY <2>6, <3>1
  <2> HIDE DEF len
  <2>8. ASSUME NEW n \in 1..len
        PROVE  k + (n - 1) \in Nat /\ k + (n - 1) <= l /\ slots[n] = d * (k + (n - 1))
    <3>1. slots[n] = first + (n - 1) * d
      OBVIOUS
    <3>2. n - 1 \in Nat /\ k + (n - 1) \in Nat /\ k + (n - 1) <= l
      BY <2>4, <2>6, <2>7
    <3>3. d * k + (n - 1) * d = d * (k + (n - 1))
      BY <2>4, <3>2
    <3> QED BY <2>4, <3>1, <3>2, <3>3
  <2>9. len \in Nat
    BY <2>4, <2>6, <2>7
  <2>10. slots \in Seq(Nat) /\ Len(slots) = len /\ DOMAIN slots = 1..len
    <3>1. \A n \in 1..len : slots[n] \in Nat
      BY <2>8, Multiple
    <3>2. slots \in [1..len -> Nat]
      BY <3>1
    <3> HIDE DEF slots
    <3> QED BY <2>9, <3>2
  <2> HIDE DEF slots
  <2>11. ASSUME NEW x \in 1..len, NEW y \in 1..len, x < y PROVE slots[x] < slots[y]
    <3> DEFINE u == k + (x - 1)
               v == k + (y - 1)
    <3>1. u \in Nat /\ v \in Nat /\ ~(v <= u)
      BY <2>4, <2>9, <2>8, <2>11
    <3>2. slots[x] = d * u /\ slots[y] = d * v
      BY <2>8
    <3> HIDE DEF u, v
    <3>3. ~(d * v <= d * u) /\ d * v \in Nat /\ d * u \in Nat
      BY <3>1, MultipleOrder, Multiple
    <3> QED BY <3>2, <3>3
  <2>12. Rising(slots)
    BY <2>10, <2>11 DEF Rising
  <2>13. ASSUME NEW p \in ToSet(slots) PROVE p \in Nat /\ p % align = 0 /\ from <= p /\ p + size <= to
    <3>1. PICK n \in 1..len : p = slots[n]
      BY <2>10 DEF ToSet
    <3> DEFINE u == k + (n - 1)
    <3>2. u \in Nat /\ u <= l /\ k <= u /\ p = d * u
      BY <2>4, <2>8, <2>9, <3>1
    <3> HIDE DEF u
    <3>3. p \in Nat /\ p % align = 0
      BY <3>2, Multiple
    <3>4. d * k <= d * u /\ d * u <= d * l
      BY <2>4, <3>2, MultipleOrder
    <3>5. first <= p /\ p <= last
      BY <2>4, <3>2, <3>4
    <3> QED BY <1>1, <2>1, <2>3, <3>3, <3>5 DEF a
  <2>14. ASSUME NEW p \in Nat, p % align = 0, from <= p, p + size <= to PROVE p \in ToSet(slots)
    <3> DEFINE u == p \div d
    <3>1. u \in Nat /\ p = d * u
      BY <2>14
    <3> HIDE DEF u
    <3>2. first <= p
      BY <1>1, <2>14
    <3>3. p <= a
      BY <2>14 DEF a
    <3>4. p <= last
      BY <2>1, <2>2, <2>14, <3>3, AlignedBelow
    <3>5. k <= u /\ u <= l
      <4>1. d * k <= d * u /\ d * u <= d * l
        BY <2>4, <3>1, <3>2, <3>4
      <4> QED BY <2>4, <3>1, <4>1, MultipleOrder
    <3> DEFINE n == u - k + 1
    <3>6. n \in 1..len /\ k + (n - 1) = u
      BY <2>4, <2>7, <3>1, <3>5
    <3> HIDE DEF n
    <3>7. slots[n] = p
      BY <2>8, <3>1, <3>6
    <3> QED BY <2>10, <3>6, <3>7 DEF ToSet
  <2> QED BY <1>2, <1>4, <2>10, <2>12, <2>13, <2>14
<1> QED BY <1>3, <1>4

\* The end of the regions passed before reserved region j, or the base of m
Passed(used, m, j) == Max({m.base} \cup {End(used[k]) : k \in 1..(j - 1)})
\* The places in the gap before it, as lmb_walk_slots() counts them
GapBefore(used, m, j, size, align) ==
  IF Passed(used, m, j) >= End(m) THEN <<>>
  ELSE IF j > Len(used) THEN GapSlots(Passed(used, m, j), End(m), size, align)
  ELSE IF End(used[j]) <= Passed(used, m, j) THEN <<>>
  ELSE GapSlots(Passed(used, m, j), Min({used[j].base, End(m)}), size, align)

\* The regions passed end by p, and m begins by p, when the gap does.
LEMMA PassedIs ==
  ASSUME NEW F, NEW used, Good(used, F), NEW m, m.base \in Nat, NEW j \in 1..(Len(used) + 1)
  PROVE  /\ Passed(used, m, j) \in Nat
         /\ \A p \in Nat : Passed(used, m, j) <= p <=>
                             m.base <= p /\ \A k \in 1..(j - 1) : End(used[k]) <= p
<1> DEFINE S == {m.base} \cup {End(used[k]) : k \in 1..(j - 1)}
           prev == End(used[j - 1])
<1>1. /\ used \in Seq(Regions(F)) /\ Len(used) \in Nat /\ j \in Nat
      /\ \A k, l \in 1..Len(used) : k < l => End(used[k]) <= used[l].base
  BY DEF Good, Ascends
<1>2. \A k \in 1..Len(used) : End(used[k]) \in Nat /\ used[k].base \in Nat /\ used[k].base < End(used[k])
  BY <1>1, RegionIs
<1>3. \A k \in 1..(j - 1) : k \in 1..Len(used)
  BY <1>1
<1>4. \E x \in S : \A y \in S : x >= y
  <2>1. CASE j = 1
    <3>1. 1..(j - 1) = {}
      BY <2>1
    <3>2. S = {m.base}
      BY <3>1
    <3> HIDE DEF S
    <3> QED BY <3>2
  <2>2. CASE j # 1
    <3>1. j - 1 \in 1..(j - 1) /\ j - 1 \in 1..Len(used)
      BY <1>1, <2>2
    <3>2. prev \in S /\ m.base \in S /\ prev \in Nat
      BY <1>2, <3>1
    <3>3. ASSUME NEW k \in 1..(j - 1) PROVE End(used[k]) <= prev /\ End(used[k]) \in Nat
      <4>1. CASE k = j - 1
        BY <1>2, <3>1, <4>1
      <4>2. CASE k # j - 1
        <5>1. k < j - 1 /\ k \in 1..Len(used)
          BY <1>1, <1>3, <4>2
        <5>2. End(used[k]) <= used[j - 1].base /\ used[j - 1].base \in Nat /\ used[j - 1].base < prev
              /\ End(used[k]) \in Nat
          BY <1>1, <1>2, <3>1, <5>1
        <5> HIDE DEF prev
        <5> QED BY <3>2, <5>2
      <4> QED BY <4>1, <4>2
    <3>4. CASE prev >= m.base
      <4>1. \A y \in S : prev >= y
        <5> HIDE DEF prev
        <5> QED BY <3>2, <3>3, <3>4
      <4> QED BY <3>2, <4>1
    <3>5. CASE ~(prev >= m.base)
      <4>1. \A y \in S : m.base >= y
        <5> HIDE DEF prev
        <5> QED BY <3>2, <3>3, <3>5
      <4> QED BY <3>2, <4>1
    <3> QED BY <3>4, <3>5
  <2> QED BY <2>1, <2>2
<1>5. Max(S) \in S /\ \A y \in S : Max(S) >= y
  <2> HIDE DEF S
  <2> QED BY <1>4 DEF Max
<1>6. S \subseteq Nat
  BY <1>2, <1>3
<1>7. Max(S) \in Nat /\ \A y \in S : y \in Nat
  BY <1>5, <1>6
<1>8. ASSUME NEW p \in Nat, Max(S) <= p PROVE m.base <= p /\ \A k \in 1..(j - 1) : End(used[k]) <= p
  <2>1. \A y \in S : y <= p
    <3> HIDE DEF S
    <3> QED BY <1>5, <1>7, <1>8
  <2> QED BY <2>1
<1>9. ASSUME NEW p \in Nat, m.base <= p, \A k \in 1..(j - 1) : End(used[k]) <= p PROVE Max(S) <= p
  <2>1. \A y \in S : y <= p
    BY <1>9
  <2> HIDE DEF S
  <2> QED BY <1>5, <2>1
<1> QED BY <1>7, <1>8, <1>9 DEF Passed

\* The gap before reserved region j
LEMMA GapIs ==
  ASSUME NEW F, NEW used, Good(used, F), NEW m, m.base \in Nat, End(m) \in Nat, NEW size \in Nat, size > 0,
         NEW align \in Nat \ {0}, NEW j \in 1..(Len(used) + 1)
  PROVE  /\ GapBefore(used, m, j, size, align) \in Seq(Nat) /\ Rising(GapBefore(used, m, j, size, align))
         /\ \A p : p \in ToSet(GapBefore(used, m, j, size, align)) <=>
                     /\ p \in Nat /\ p % align = 0 /\ Passed(used, m, j) <= p /\ p + size <= End(m)
                     /\ j <= Len(used) => p + size <= used[j].base
<1> DEFINE cur == Passed(used, m, j)
           g == GapBefore(used, m, j, size, align)
           In(p) == /\ p \in Nat /\ p % align = 0 /\ cur <= p /\ p + size <= End(m)
                    /\ j <= Len(used) => p + size <= used[j].base
<1>1. used \in Seq(Regions(F)) /\ Len(used) \in Nat /\ j \in Nat
  BY DEF Good
<1>2. cur \in Nat
  BY PassedIs
<1>3. j <= Len(used) => /\ End(used[j]) \in Nat /\ used[j].base \in Nat /\ used[j].base < End(used[j])
  <2>1. j <= Len(used) => used[j] \in Regions(F)
    BY <1>1
  <2> QED BY <2>1, RegionIs
<1>4. /\ cur >= End(m) => g = <<>>
      /\ ~(cur >= End(m)) /\ j > Len(used) => g = GapSlots(cur, End(m), size, align)
      /\ ~(cur >= End(m)) /\ ~(j > Len(used)) /\ End(used[j]) <= cur => g = <<>>
      /\ ~(cur >= End(m)) /\ ~(j > Len(used)) /\ ~(End(used[j]) <= cur) =>
           g = GapSlots(cur, Min({used[j].base, End(m)}), size, align)
  BY DEF GapBefore
<1> HIDE DEF cur, g
<1>5. <<>> \in Seq(Nat) /\ Rising(<<>>) /\ ToSet(<<>>) = {}
  BY DEF Rising, ToSet
<1>6. g \in Seq(Nat) /\ Rising(g) /\ \A p : p \in ToSet(g) <=> In(p)
  <2>1. CASE cur >= End(m)
    <3>1. \A p : ~In(p)
      BY <1>2, <2>1
    <3> QED BY <1>4, <1>5, <2>1, <3>1
  <2>2. CASE ~(cur >= End(m)) /\ j > Len(used)
    <3> DEFINE to == End(m)
    <3>1. to \in Nat /\ g = GapSlots(cur, to, size, align)
      BY <1>4, <2>2
    <3>2. \A p : In(p) <=> p \in Nat /\ p % align = 0 /\ cur <= p /\ p + size <= to
      BY <1>1, <2>2
    <3> HIDE DEF to, In
    <3> QED BY <1>2, <3>1, <3>2, GapSlotsAre
  <2>3. CASE ~(cur >= End(m)) /\ ~(j > Len(used)) /\ End(used[j]) <= cur
    <3>1. \A p : ~In(p)
      BY <1>1, <1>2, <1>3, <2>3
    <3> QED BY <1>4, <1>5, <2>3, <3>1
  <2>4. CASE ~(cur >= End(m)) /\ ~(j > Len(used)) /\ ~(End(used[j]) <= cur)
    <3> DEFINE to == Min({used[j].base, End(m)})
    <3>1. j <= Len(used) /\ used[j].base \in Nat
      BY <1>1, <1>3, <2>4
    <3>2. to = IF used[j].base <= End(m) THEN used[j].base ELSE End(m)
      BY <3>1, OfTwo
    <3>3. to \in Nat /\ g = GapSlots(cur, to, size, align)
      BY <1>4, <2>4, <3>1, <3>2
    <3> HIDE DEF to
    <3>4. ASSUME NEW p PROVE In(p) <=> p \in Nat /\ p % align = 0 /\ cur <= p /\ p + size <= to
      <4>1. p \in Nat => (p + size <= to <=> p + size <= End(m) /\ p + size <= used[j].base)
        BY <3>1, <3>2
      <4> QED BY <3>1, <4>1
    <3> HIDE DEF In
    <3> QED BY <1>2, <3>3, <3>4, GapSlotsAre
  <2> QED BY <2>1, <2>2, <2>3, <2>4
<1> QED BY <1>6 DEF g, cur

\* A list of lists, of any length
LEMMA ListIs ==
  ASSUME NEW T, NEW n \in Nat, NEW s, s \in [1..n -> T]
  PROVE  s \in Seq(T) /\ Len(s) = n /\ DOMAIN s = 1..n
  OBVIOUS

\* The places in a region of memory m
MemSlots(used, m, size, align) ==
  FlattenSeq([j \in 1..(Len(used) + 1) |-> GapBefore(used, m, j, size, align)])

\* are those in m that no reserved region is in the way of: a place is in the
\* gap before the first reserved region above it.
LEMMA MemSlotsAre ==
  ASSUME NEW F, NEW used, Good(used, F), NEW m, m.base \in Nat, End(m) \in Nat, NEW size \in Nat, size > 0,
         NEW align \in Nat \ {0}
  PROVE  /\ MemSlots(used, m, size, align) \in Seq(Nat) /\ Rising(MemSlots(used, m, size, align))
         /\ \A p : p \in ToSet(MemSlots(used, m, size, align)) <=>
                     /\ p \in Nat /\ p % align = 0 /\ m.base <= p /\ p + size <= End(m)
                     /\ Clear(used, p, size)
<1> DEFINE n == Len(used) + 1
           gap(j) == GapBefore(used, m, j, size, align)
           s == [j \in 1..n |-> gap(j)]
<1>1. /\ used \in Seq(Regions(F)) /\ Len(used) \in Nat /\ n \in Nat
      /\ \A k, l \in 1..Len(used) : k < l => End(used[k]) <= used[l].base
  BY DEF Good, Ascends
<1>2. \A k \in 1..Len(used) : End(used[k]) \in Nat /\ used[k].base \in Nat /\ used[k].base < End(used[k])
  BY <1>1, RegionIs
<1>3. \A j \in 1..n :
        /\ gap(j) \in Seq(Nat) /\ Rising(gap(j))
        /\ \A p : p \in ToSet(gap(j)) <=>
                    /\ p \in Nat /\ p % align = 0 /\ Passed(used, m, j) <= p /\ p + size <= End(m)
                    /\ j <= Len(used) => p + size <= used[j].base
  BY GapIs
<1>4. \A j \in 1..n, p \in Nat : Passed(used, m, j) <= p <=>
                                   m.base <= p /\ \A k \in 1..(j - 1) : End(used[k]) <= p
  BY PassedIs
<1> HIDE DEF gap
<1>5. s \in [1..n -> Seq(Nat)]
  BY <1>3
<1>6. \A j \in 1..n : s[j] = gap(j)
  OBVIOUS
<1>7. MemSlots(used, m, size, align) = FlattenSeq(s)
  BY DEF MemSlots, gap
<1> HIDE DEF s, n
<1>8. s \in Seq(Seq(Nat)) /\ Len(s) = n
  BY <1>1, <1>5, ListIs
<1>9. ASSUME NEW i \in 1..n, NEW j \in 1..n, i < j, NEW x \in ToSet(gap(i)), NEW y \in ToSet(gap(j)) PROVE x < y
  <2>1. i \in 1..Len(used) /\ i \in 1..(j - 1) /\ i <= Len(used)
    BY <1>1, <1>9 DEF n
  <2>2. x \in Nat /\ x + size <= used[i].base /\ y \in Nat /\ Passed(used, m, j) <= y
    BY <1>3, <2>1
  <2>3. End(used[i]) <= y
    BY <1>4, <2>1, <2>2
  <2>4. End(used[i]) \in Nat /\ used[i].base \in Nat /\ used[i].base < End(used[i])
    BY <1>2, <2>1
  <2> QED BY <2>2, <2>3, <2>4
<1>10. Stacked(s)
  <2>1. \A i \in 1..Len(s) : Rising(s[i])
    BY <1>3, <1>6, <1>8
  <2>2. ASSUME NEW i \in 1..Len(s), NEW j \in 1..Len(s), i < j, NEW x \in ToSet(s[i]), NEW y \in ToSet(s[j])
        PROVE  x < y
    BY <1>6, <1>8, <1>9, <2>2
  <2> QED BY <1>8, <2>1, <2>2 DEF Stacked
<1> DEFINE q == FlattenSeq(s)
<1>11. q \in Seq(Nat) /\ Rising(q) /\ \A x : x \in ToSet(q) <=> \E i \in 1..n : x \in ToSet(gap(i))
  BY <1>6, <1>8, <1>10, FlattenIs
<1> HIDE DEF q
<1>12. ASSUME NEW p \in ToSet(q)
       PROVE  p \in Nat /\ p % align = 0 /\ m.base <= p /\ p + size <= End(m) /\ Clear(used, p, size)
  <2>1. PICK j \in 1..n : p \in ToSet(gap(j))
    BY <1>11
  <2>2. /\ p \in Nat /\ p % align = 0 /\ Passed(used, m, j) <= p /\ p + size <= End(m)
        /\ j <= Len(used) => p + size <= used[j].base
    BY <1>3, <2>1
  <2>3. m.base <= p /\ \A k \in 1..(j - 1) : End(used[k]) <= p
    BY <1>4, <2>2
  <2>4. ASSUME NEW k \in 1..Len(used) PROVE End(used[k]) <= p \/ p + size <= used[k].base
    <3>1. CASE k < j
      <4>1. k \in 1..(j - 1)
        BY <1>1, <3>1
      <4> QED BY <2>3, <4>1
    <3>2. CASE k = j
      BY <1>1, <2>2, <3>2
    <3>3. CASE k > j
      <4>1. j \in 1..Len(used) /\ j <= Len(used)
        BY <1>1, <3>3
      <4>2. p + size <= used[j].base /\ End(used[j]) <= used[k].base
        BY <1>1, <2>2, <3>3, <4>1
      <4>3. End(used[j]) \in Nat /\ used[j].base \in Nat /\ used[j].base < End(used[j]) /\ used[k].base \in Nat
        BY <1>2, <4>1
      <4> QED BY <2>2, <4>2, <4>3
    <3> QED BY <1>1, <3>1, <3>2, <3>3
  <2> QED BY <2>2, <2>3, <2>4 DEF Clear
<1>13. ASSUME NEW p \in Nat, p % align = 0, m.base <= p, p + size <= End(m), Clear(used, p, size)
       PROVE  p \in ToSet(q)
  <2> DEFINE above == {k \in 1..Len(used) : p + size <= used[k].base}
             j == IF above = {} THEN n ELSE Min(above)
  <2>1. /\ j \in 1..n /\ (j <= Len(used) => p + size <= used[j].base)
        /\ \A k \in 1..(j - 1) : k \in 1..Len(used) /\ ~(p + size <= used[k].base)
    <3>1. CASE above = {}
      <4>1. j = n
        BY <3>1
      <4> HIDE DEF j
      <4> QED BY <1>1, <3>1, <4>1 DEF n
    <3>2. CASE above # {}
      <4>1. above \subseteq Nat
        OBVIOUS
      <4>2. j \in above /\ \A y \in above : j <= y
        BY <3>2, <4>1, Smallest
      <4> HIDE DEF j
      <4>3. j \in 1..Len(used) /\ p + size <= used[j].base
        BY <4>2
      <4>4. ASSUME NEW k \in 1..(j - 1) PROVE k \in 1..Len(used) /\ ~(p + size <= used[k].base)
        <5>1. k \in 1..Len(used) /\ ~(j <= k)
          BY <1>1, <4>3
        <5> QED BY <4>2, <5>1
      <4> QED BY <1>1, <4>3, <4>4 DEF n
    <3> QED BY <3>1, <3>2
  <2> HIDE DEF j
  <2>2. \A k \in 1..(j - 1) : End(used[k]) <= p
    BY <1>13, <2>1 DEF Clear
  <2>3. Passed(used, m, j) <= p
    BY <1>4, <1>13, <2>1, <2>2
  <2>4. p \in ToSet(gap(j))
    BY <1>3, <1>13, <2>1, <2>3
  <2> QED BY <1>11, <2>1, <2>4
<1> QED BY <1>7, <1>11, <1>12, <1>13 DEF q

\* lmb_walk_slots() counts the places in the regions of memory in turn.
LEMMA WalkIs ==
  ASSUME NEW E, NEW avail, Good(avail, E), NEW F, NEW used, Good(used, F), NEW size \in Nat, size > 0,
         NEW align \in Nat \ {0}, NEW w, w = lmb_walk_slots(avail, used, size, align)
  PROVE  /\ w \in Seq(Nat) /\ Rising(w)
         /\ \A p : p \in ToSet(w) <=>
                     /\ p \in Nat /\ p % align = 0 /\ Clear(used, p, size)
                     /\ \E i \in 1..Len(avail) : InMemory(avail, size, i, p)
<1> DEFINE n == Len(avail)
           mem(i) == MemSlots(used, avail[i], size, align)
           s == [i \in 1..n |-> mem(i)]
<1>1. /\ avail \in Seq(Regions(E)) /\ n \in Nat /\ DOMAIN avail = 1..n
      /\ \A k, l \in 1..n : k < l => End(avail[k]) <= avail[l].base
  BY DEF Good, Ascends
<1>2. \A i \in 1..n : End(avail[i]) \in Nat /\ avail[i].base \in Nat
  BY <1>1, RegionIs
<1>3. \A i \in 1..n :
        /\ mem(i) \in Seq(Nat) /\ Rising(mem(i))
        /\ \A p : p \in ToSet(mem(i)) <=> /\ p \in Nat /\ p % align = 0 /\ avail[i].base <= p
                                          /\ p + size <= End(avail[i]) /\ Clear(used, p, size)
  BY <1>2, MemSlotsAre
<1>4. w = FlattenSeq(s)
  BY <1>1 DEF lmb_walk_slots, MemSlots, GapBefore, Passed
<1> HIDE DEF mem
<1>5. s \in [1..n -> Seq(Nat)]
  BY <1>3
<1>6. \A i \in 1..n : s[i] = mem(i)
  OBVIOUS
<1> HIDE DEF s, n
<1>7. s \in Seq(Seq(Nat)) /\ Len(s) = n
  BY <1>1, <1>5, ListIs
<1>8. ASSUME NEW i \in 1..n, NEW j \in 1..n, i < j, NEW x \in ToSet(mem(i)), NEW y \in ToSet(mem(j)) PROVE x < y
  <2>1. x \in Nat /\ x + size <= End(avail[i]) /\ y \in Nat /\ avail[j].base <= y
    BY <1>3
  <2>2. End(avail[i]) <= avail[j].base /\ End(avail[i]) \in Nat /\ avail[j].base \in Nat
    BY <1>1, <1>2, <1>8
  <2> QED BY <2>1, <2>2
<1>9. Stacked(s)
  <2>1. \A i \in 1..Len(s) : Rising(s[i])
    BY <1>3, <1>6, <1>7
  <2>2. ASSUME NEW i \in 1..Len(s), NEW j \in 1..Len(s), i < j, NEW x \in ToSet(s[i]), NEW y \in ToSet(s[j])
        PROVE  x < y
    BY <1>6, <1>7, <1>8, <2>2
  <2> QED BY <1>7, <2>1, <2>2 DEF Stacked
<1>10. w \in Seq(Nat) /\ Rising(w) /\ \A x : x \in ToSet(w) <=> \E i \in 1..n : x \in ToSet(mem(i))
  BY <1>4, <1>6, <1>7, <1>9, FlattenIs
<1> QED BY <1>3, <1>10 DEF InMemory, n

-----------------------------------------------------------------------------
(* The operations *)

\* lmb_reserve() keeps the order.
LEMMA ReserveGood ==
  ASSUME NEW F, NEW used, Good(used, F), NEW r \in Ranges, NEW f \in F
  PROVE  Good(lmb_reserve(used, r, f).lst, F)
<1>1. CASE lmb_can_reserve_region(used, r, f)
  <2>1. Good(lmb_add_region_flags(used, r, f).lst, F)
    BY <1>1, AddGood
  <2> QED BY <1>1, <2>1 DEF lmb_reserve
<1>2. CASE ~lmb_can_reserve_region(used, r, f)
  BY <1>2 DEF lmb_reserve
<1> QED BY <1>1, <1>2

\* A size that fits in memory at p makes a range of the address space.
LEMMA FitsInSpace ==
  ASSUME NEW E, NEW avail, Good(avail, E), NEW i \in 1..Len(avail), NEW p \in Nat, NEW size \in Sizes,
         InMemory(avail, size, i, p)
  PROVE  [base |-> p, size |-> size] \in Ranges
<1>1. avail \in Seq(Regions(E))
  BY DEF Good
<1>2. End(avail[i]) \in Nat /\ End(avail[i]) <= AddrMax + 1
  BY <1>1, RegionIs
<1>3. AddrMax \in Nat /\ size \in Nat /\ size > 0 /\ size \in 1..(AddrMax + 1)
  BY AddrAssumption DEF Sizes
<1>4. p + size <= AddrMax + 1
  BY <1>2, <1>3 DEF InMemory
<1>5. p \in Addrs
  BY <1>3, <1>4 DEF Addrs
<1> QED BY <1>3, <1>4, <1>5 DEF Ranges

\* The first banks, the reservations and what they become keep LmbInv.
LEMMA InitInv == Init => LmbInv
<1> SUFFICES ASSUME Init PROVE LmbInv
  OBVIOUS
<1>1. available_mem = <<>> /\ used_mem = <<>> /\ bank = 0
  BY DEF Init
<1>2. Banks \in Seq(Ranges)
  BY BanksAssumption
<1>3. 0 \in 0..Len(Banks)
  BY <1>2
<1>4. \A F : Good(<<>>, F)
  BY DEF Good, Ascends
<1> QED BY <1>1, <1>3, <1>4 DEF LmbInv

\* So does every operation.
LEMMA StepInv == LmbInv /\ [Next]_vars => LmbInv'
<1> SUFFICES ASSUME LmbInv, [Next]_vars PROVE LmbInv'
  OBVIOUS
<1>1. bank \in 0..Len(Banks) /\ Good(available_mem, {LMB_NONE}) /\ Good(used_mem, Flags)
  BY DEF LmbInv
<1>2. Banks \in Seq(Ranges) /\ LMB_NONE \in Flags
  BY BanksAssumption, FlagsAssumption
<1>3. CASE UNCHANGED vars
  BY <1>1, <1>3 DEF vars, LmbInv, Good, Ascends
<1>4. CASE AddBank
  <2>1. /\ bank' = bank + 1 /\ used_mem' = used_mem /\ bank # Len(Banks)
        /\ available_mem' = lmb_add_region_flags(available_mem, Banks[bank + 1], LMB_NONE).lst
    BY <1>4 DEF AddBank, Ready
  <2> DEFINE r == Banks[bank + 1]
  <2>2. bank + 1 \in 0..Len(Banks) /\ r \in Ranges
    BY <1>1, <1>2, <2>1
  <2> HIDE DEF r
  <2>3. lmb_can_reserve_region(available_mem, r, LMB_NONE)
    <3>1. available_mem \in Seq(Regions({LMB_NONE}))
      BY <1>1 DEF Good
    <3>2. ASSUME NEW k \in DOMAIN available_mem PROVE LMB_NONE = available_mem[k].flags
      <4>1. available_mem[k] \in Regions({LMB_NONE})
        BY <3>1
      <4> QED BY <4>1, RegionIs
    <3> QED BY <3>2 DEF lmb_can_reserve_region
  <2>4. Good(lmb_add_region_flags(available_mem, r, LMB_NONE).lst, {LMB_NONE})
    BY <1>1, <2>2, <2>3, AddGood
  <2>5. Good(available_mem', {LMB_NONE})
    BY <2>1, <2>4 DEF r
  <2> QED BY <1>1, <2>1, <2>2, <2>5 DEF LmbInv
<1>5. ASSUME available_mem' = available_mem, bank' = bank, Good(used_mem', Flags) PROVE LmbInv'
  BY <1>1, <1>5 DEF LmbInv
<1>6. ASSUME NEW r \in Ranges, Free(r) PROVE LmbInv'
  <2>1. used_mem' = lmb_free_list(used_mem, r).lst /\ available_mem' = available_mem /\ bank' = bank
    BY <1>6 DEF Free
  <2>2. Good(lmb_free_list(used_mem, r).lst, Flags)
    BY <1>1, FreeGood
  <2> QED BY <1>5, <2>1, <2>2
<1>7. ASSUME NEW r \in Ranges, NEW f \in Flags, Reserve(r, f) \/ AllocAddr(r, f) PROVE LmbInv'
  <2>1. used_mem' = lmb_reserve(used_mem, r, f).lst /\ available_mem' = available_mem /\ bank' = bank
    BY <1>7 DEF Reserve, AllocAddr
  <2>2. Good(lmb_reserve(used_mem, r, f).lst, Flags)
    BY <1>1, ReserveGood
  <2> QED BY <1>5, <2>1, <2>2
<1>8. ASSUME NEW size \in Sizes, NEW align \in Aligns, NEW f \in Flags, AllocRandom(size, align, f) PROVE LmbInv'
  <2> DEFINE w == lmb_walk_slots(available_mem, used_mem, size, align)
  <2>1. PICK b \in ToSet(w) : used_mem' = lmb_reserve(used_mem, [base |-> b, size |-> size], f).lst
    BY <1>8 DEF AllocRandom
  <2>2. available_mem' = available_mem /\ bank' = bank
    BY <1>8 DEF AllocRandom
  <2>3. size \in Nat /\ size > 0 /\ align \in Nat \ {0}
    BY AddrAssumption, AlignsAssumption DEF Sizes
  <2>4. b \in Nat /\ \E i \in 1..Len(available_mem) : InMemory(available_mem, size, i, b)
    BY <1>1, <2>1, <2>3, WalkIs
  <2>5. [base |-> b, size |-> size] \in Ranges
    BY <1>1, <2>4, FitsInSpace
  <2>6. Good(lmb_reserve(used_mem, [base |-> b, size |-> size], f).lst, Flags)
    BY <1>1, <2>5, ReserveGood
  <2> QED BY <1>5, <2>1, <2>2, <2>6
<1>9. ASSUME NEW size \in Sizes, NEW align \in Aligns, NEW f \in Flags, NEW max_addr \in MaxAddrs,
             Alloc(size, align, max_addr, f)
      PROVE  LmbInv'
  <2> DEFINE b == AllocPlace(available_mem, used_mem, size, align, max_addr)
             r == [base |-> b, size |-> size]
  <2>1. /\ max_addr # LMB_ALLOC_ANYWHERE => max_addr >= size
        /\ b # 0 /\ used_mem' = lmb_add_region_flags(used_mem, r, f).lst
        /\ available_mem' = available_mem /\ bank' = bank
    BY <1>9 DEF Alloc
  <2>2. size \in Nat /\ size > 0 /\ align \in Nat \ {0} /\ max_addr \in Addrs
    BY AddrAssumption, AlignsAssumption DEF Sizes
  <2>3. max_addr = LMB_ALLOC_ANYWHERE \/ max_addr >= size
    BY <2>1
  <2>4. /\ b \in Nat /\ Fitting(used_mem, size, align, max_addr, b)
        /\ \E i \in 1..Len(available_mem) : InMemory(available_mem, size, i, b)
    <3>1. b = AllocPlace(available_mem, used_mem, size, align, max_addr)
      OBVIOUS
    <3> HIDE DEF b
    <3>2. BestPlace(available_mem, used_mem, size, align, max_addr, b)
      BY <1>1, <2>2, <2>3, <3>1, PlaceIsHighest
    <3> QED BY <2>1, <3>2 DEF BestPlace
  <2> HIDE DEF b
  <2>5. r \in Ranges
    BY <1>1, <2>4, FitsInSpace
  <2>6. r.base = b /\ End(r) = b + size
    BY DEF End
  <2> HIDE DEF r
  <2>7. lmb_can_reserve_region(used_mem, r, f)
    <3>1. ASSUME NEW k \in DOMAIN used_mem PROVE ~lmb_addrs_overlap(r, used_mem[k])
      <4>1. used_mem \in Seq(Regions(Flags))
        BY <1>1 DEF Good
      <4>2. k \in 1..Len(used_mem) /\ used_mem[k] \in Regions(Flags)
        BY <4>1
      <4>3. End(used_mem[k]) \in Nat /\ used_mem[k].base \in Nat
        BY <4>2, RegionIs
      <4>4. End(used_mem[k]) <= b \/ b + size <= used_mem[k].base
        BY <2>4, <4>2 DEF Fitting, Clear
      <4> QED BY <2>2, <2>4, <2>6, <4>3, <4>4 DEF lmb_addrs_overlap
    <3> QED BY <3>1 DEF lmb_can_reserve_region
  <2>8. Good(lmb_add_region_flags(used_mem, r, f).lst, Flags)
    BY <1>1, <2>5, <2>7, AddGood
  <2> QED BY <1>5, <2>1, <2>8
<1> QED BY <1>3, <1>4, <1>6, <1>7, <1>8, <1>9 DEF Next

\* It holds throughout.
LEMMA AlwaysInv == Spec => []LmbInv
  BY InitInv, StepInv, PTL DEF Spec

-----------------------------------------------------------------------------
(* The theorems *)

\* Whatever is reserved, allocated and freed in any order, the regions of
\* memory and the reserved ones are not empty, ascend and are disjoint:
\* coalescing, lmb_resize_regions() and the splitting of lmb_free() never leave
\* a list out of order, in an address space of any size.
THEOREM SortedTheorem == Spec => []RegionsSorted
<1>1. ASSUME NEW F, NEW A, Good(A, F) PROVE Sorted(A)
  <2>1. A \in Seq(Regions(F)) /\ Len(A) \in Nat /\ \A k, l \in 1..Len(A) : k < l => End(A[k]) <= A[l].base
    BY <1>1 DEF Good, Ascends
  <2>2. \A i \in DOMAIN A : A[i].size > 0
    BY <2>1, RegionIs
  <2>3. \A i \in 1..(Len(A) - 1) : i \in 1..Len(A) /\ i + 1 \in 1..Len(A) /\ i < i + 1
    BY <2>1
  <2> QED BY <2>1, <2>2, <2>3 DEF Sorted
<1>2. LmbInv => RegionsSorted
  BY <1>1 DEF LmbInv, RegionsSorted
<1> QED BY <1>2, AlwaysInv, PTL

\* The places for a region, by the numbers of the regions in the lists
LEMMA PlacesAre ==
  ASSUME LmbInv, NEW size \in Sizes, NEW align \in Aligns
  PROVE  \A p : p \in Places(size, align) <=>
                  /\ p \in Nat /\ p % align = 0 /\ Clear(used_mem, p, size)
                  /\ \E i \in 1..Len(available_mem) : InMemory(available_mem, size, i, p)
<1>1. Good(available_mem, {LMB_NONE}) /\ Good(used_mem, Flags)
  BY DEF LmbInv
<1>2. DOMAIN available_mem = 1..Len(available_mem) /\ DOMAIN used_mem = 1..Len(used_mem)
  BY <1>1 DEF Good
<1>3. \A p : Clear(used_mem, p, size) <=> \A u \in ToSet(used_mem) : End(u) <= p \/ p + size <= u.base
  BY <1>2 DEF Clear, ToSet
<1>4. \A p : (\E i \in 1..Len(available_mem) : InMemory(available_mem, size, i, p)) <=>
             \E m \in ToSet(available_mem) : m.base <= p /\ p + size <= End(m)
  BY <1>2 DEF InMemory, ToSet
<1>5. ASSUME NEW p \in Nat, NEW i \in 1..Len(available_mem), InMemory(available_mem, size, i, p) PROVE p \in Addrs
  <2>1. [base |-> p, size |-> size] \in Ranges
    BY <1>1, <1>5, FitsInSpace
  <2> QED BY <2>1 DEF Ranges
<1>6. Addrs \subseteq Nat
  BY AddrAssumption DEF Addrs
<1> QED BY <1>3, <1>4, <1>5, <1>6 DEF Places

\* _lmb_alloc_base() returns the highest place there is below max_addr, and
\* fails only when there is none, whatever was reserved before: stepping below
\* the reserved region in the way never skips a place, and alignment is kept.
THEOREM HighestTheorem == Spec => []AllocIsHighest
<1>1. ASSUME LmbInv PROVE AllocIsHighest
  <2> SUFFICES ASSUME NEW size \in Sizes, NEW align \in Aligns, NEW max_addr \in Addrs,
                      max_addr = LMB_ALLOC_ANYWHERE \/ max_addr >= size, NEW below,
                      below = {p \in Places(size, align) \ {0} :
                                 max_addr # LMB_ALLOC_ANYWHERE => p + size <= max_addr},
                      NEW b, b = AllocPlace(available_mem, used_mem, size, align, max_addr)
               PROVE  b = IF below = {} THEN 0 ELSE Max(below)
    BY DEF AllocIsHighest
  <2>1. Good(available_mem, {LMB_NONE}) /\ Good(used_mem, Flags)
    BY <1>1 DEF LmbInv
  <2>2. size \in Nat /\ size > 0 /\ align \in Nat \ {0}
    BY AddrAssumption, AlignsAssumption DEF Sizes
  <2>3. /\ b \in Nat
        /\ b # 0 => /\ Fitting(used_mem, size, align, max_addr, b)
                    /\ \E i \in 1..Len(available_mem) : InMemory(available_mem, size, i, b)
        /\ \A i \in 1..Len(available_mem), p \in Nat :
             Fitting(used_mem, size, align, max_addr, p) /\ InMemory(available_mem, size, i, p) => b # 0 /\ p <= b
    <3>1. BestPlace(available_mem, used_mem, size, align, max_addr, b)
      BY <2>1, <2>2, PlaceIsHighest
    <3> QED BY <3>1 DEF BestPlace
  <2>4. \A p : p \in below <=>
                 /\ p \in Nat /\ Fitting(used_mem, size, align, max_addr, p)
                 /\ \E i \in 1..Len(available_mem) : InMemory(available_mem, size, i, p)
    BY <1>1, PlacesAre DEF Fitting
  <2>5. CASE b = 0
    <3>1. below = {}
      BY <2>3, <2>4, <2>5
    <3> QED BY <2>5, <3>1
  <2>6. CASE b # 0
    <3>1. b \in below
      BY <2>3, <2>4, <2>6
    <3>2. \A p \in below : p \in Nat /\ b >= p
      BY <2>3, <2>4
    <3> DEFINE x == Max(below)
    <3>3. x \in below /\ \A p \in below : x >= p
      BY <3>1, <3>2 DEF Max
    <3> HIDE DEF x
    <3>4. x >= b /\ b >= x /\ x \in Nat
      BY <3>1, <3>2, <3>3
    <3>5. x = b
      BY <2>3, <3>4
    <3> QED BY <3>1, <3>5 DEF x
  <2> QED BY <2>5, <2>6
<1> QED BY <1>1, AlwaysInv, PTL

\* lmb_walk_slots() counts every place for a region exactly once, in ascending
\* order, and nothing else: the random choice of lmb_alloc_random() is uniform
\* over the places and never lands on a reservation or outside memory.
THEOREM SlotsTheorem == Spec => []SlotsAreThePlaces
<1>1. ASSUME LmbInv PROVE SlotsAreThePlaces
  <2> SUFFICES ASSUME NEW size \in Sizes, NEW align \in Aligns, NEW w,
                      w = lmb_walk_slots(available_mem, used_mem, size, align)
               PROVE  /\ ToSet(w) = Places(size, align)
                      /\ \A n \in 1..(Len(w) - 1) : w[n] < w[n + 1]
    BY DEF SlotsAreThePlaces
  <2>1. Good(available_mem, {LMB_NONE}) /\ Good(used_mem, Flags)
    BY <1>1 DEF LmbInv
  <2>2. size \in Nat /\ size > 0 /\ align \in Nat \ {0}
    BY AddrAssumption, AlignsAssumption DEF Sizes
  <2>3. /\ w \in Seq(Nat) /\ Rising(w)
        /\ \A p : p \in ToSet(w) <=>
                    /\ p \in Nat /\ p % align = 0 /\ Clear(used_mem, p, size)
                    /\ \E i \in 1..Len(available_mem) : InMemory(available_mem, size, i, p)
    BY <2>1, <2>2, WalkIs
  <2>4. ToSet(w) = Places(size, align)
    BY <1>1, <2>3, PlacesAre
  <2>5. \A n \in 1..(Len(w) - 1) : n \in 1..Len(w) /\ n + 1 \in 1..Len(w) /\ n < n + 1
    BY <2>3
  <2> QED BY <2>3, <2>4, <2>5 DEF Rising
<1> QED BY <1>1, AlwaysInv, PTL

-----------------------------------------------------------------------------
(* Exactness *)

\* AddrMap() has what the list says of an address,
LEMMA MapIs ==
  ASSUME NEW A, Good(A, Flags), NEW a \in Addrs, NEW x
  PROVE  At(A, a, x) <=> x # Unreserved /\ AddrMap(A)[a] = x
<1> DEFINE K == {k \in 1..Len(A) : A[k].base <= a /\ a < End(A[k])}
<1>1. A \in Seq(Regions(Flags)) /\ Len(A) \in Nat /\ DOMAIN A = 1..Len(A)
      /\ \A k, l \in 1..Len(A) : k < l => End(A[k]) <= A[l].base
  BY DEF Good, Ascends
<1>2. \A k \in 1..Len(A) : A[k].base \in Nat /\ End(A[k]) \in Nat /\ A[k].flags \in Flags
  BY <1>1, RegionIs
<1>3. a \in Nat
  BY AddrAssumption DEF Addrs
<1>4. \A k \in 1..Len(A) : A[k].flags # Unreserved
  BY <1>2, FlagsAssumption DEF Unreserved
<1>5. CASE \E k \in 1..Len(A) : A[k].base <= a /\ a < End(A[k])
  <2> DEFINE c == CHOOSE k \in 1..Len(A) : A[k].base <= a /\ a < End(A[k])
  <2>1. c \in 1..Len(A) /\ A[c].base <= a /\ a < End(A[c])
    BY <1>5
  <2>2. AddrMap(A)[a] = A[c].flags
    BY <1>1, <1>5 DEF AddrMap
  <2> HIDE DEF c
  <2>3. ASSUME NEW k \in 1..Len(A), A[k].base <= a, a < End(A[k]) PROVE k = c
    <3>1. ~(End(A[k]) <= A[c].base) /\ ~(End(A[c]) <= A[k].base)
      BY <1>2, <1>3, <2>1, <2>3
    <3>2. ~(k < c) /\ ~(c < k)
      BY <1>1, <2>1, <3>1
    <3> QED BY <2>1, <3>2
  <2>4. At(A, a, x) <=> A[c].flags = x
    BY <2>1, <2>3 DEF At, Covers
  <2> QED BY <1>4, <2>1, <2>2, <2>4
<1>6. CASE ~\E k \in 1..Len(A) : A[k].base <= a /\ a < End(A[k])
  <2>1. AddrMap(A)[a] = Unreserved
    BY <1>1, <1>6 DEF AddrMap
  <2>2. ~At(A, a, x)
    BY <1>6 DEF At, Covers
  <2> QED BY <2>1, <2>2
<1> QED BY <1>5, <1>6

\* so it has v if the list says v and nothing else.
LEMMA MapHas ==
  ASSUME NEW A, Good(A, Flags), NEW a \in Addrs, NEW v, \A x : At(A, a, x) <=> x # Unreserved /\ v = x
  PROVE  AddrMap(A)[a] = v
<1>1. \A x : At(A, a, x) <=> x # Unreserved /\ AddrMap(A)[a] = x
  BY MapIs
<1>2. CASE v = Unreserved
  <2>1. ~At(A, a, AddrMap(A)[a])
    BY <1>2
  <2> QED BY <1>1, <1>2, <2>1
<1>3. CASE v # Unreserved
  <2>1. At(A, a, v)
    BY <1>3
  <2> QED BY <1>1, <2>1
<1> QED BY <1>2, <1>3

\* lmb_reserve() of a coalesced list is exact.
LEMMA ReserveExact ==
  ASSUME Good(used_mem, Flags), Coalesced(used_mem), NEW r \in Ranges, NEW f \in Flags
  PROVE  ReserveIsExact(r, f)
<1> DEFINE A == used_mem
           res == lmb_reserve(A, r, f)
<1>1. r.base \in Nat /\ End(r) \in Nat /\ r.base < End(r) /\ End(r) <= AddrMax + 1 /\ AddrMax \in Nat
  BY RangeIs
<1>2. CASE lmb_can_reserve_region(A, r, f)
  <2>1. res = lmb_add_region_flags(A, r, f)
    BY <1>2 DEF lmb_reserve
  <2>2. Good(res.lst, Flags) /\ res.ret = 0 /\ Adds(A, r, f, res.lst)
    BY <1>2, <2>1, AddGood
  <2> DEFINE L == res.lst
  <2>3. Good(L, Flags) /\ Adds(A, r, f, L)
    BY <2>2
  <2>4. f # Unreserved
    BY FlagsAssumption DEF Unreserved
  <2> HIDE DEF L, res
  <2>5. ASSUME NEW a \in Addrs PROVE AddrMap(L)[a] = IF r.base <= a /\ a < End(r) THEN f ELSE AddrMap(A)[a]
    <3>1. a \in Nat
      BY AddrAssumption DEF Addrs
    <3>2. \A x : At(L, a, x) <=> IF r.base <= a /\ a < End(r) THEN x = f ELSE At(A, a, x)
      BY <2>3, <3>1 DEF Adds
    <3>3. \A x : At(A, a, x) <=> x # Unreserved /\ AddrMap(A)[a] = x
      BY MapIs
    <3> DEFINE v == IF r.base <= a /\ a < End(r) THEN f ELSE AddrMap(A)[a]
    <3>4. \A x : At(L, a, x) <=> x # Unreserved /\ v = x
      BY <2>4, <3>2, <3>3
    <3> HIDE DEF v
    <3>5. AddrMap(L)[a] = v
      BY <2>3, <3>4, MapHas
    <3> QED BY <3>5 DEF v
  <2>6. AddrMap(L) = With(AddrMap(A), r, f)
    <3>1. AddrMap(L) = [a \in Addrs |-> AddrMap(L)[a]]
      BY DEF AddrMap
    <3> QED BY <2>5, <3>1 DEF With
  <2>7. ASSUME NEW a \in r.base..(End(r) - 1), AddrMap(A)[a] # Unreserved
        PROVE  AddrMap(A)[a] = LMB_NONE /\ f = LMB_NONE
    <3>1. a \in Addrs /\ a \in Nat /\ r.base <= a /\ a < End(r)
      BY <1>1 DEF Addrs
    <3>2. At(A, a, AddrMap(A)[a])
      BY <2>7, <3>1, MapIs
    <3>3. PICK k \in 1..Len(A) : A[k].base <= a /\ a < End(A[k]) /\ A[k].flags = AddrMap(A)[a]
      BY <3>2 DEF At, Covers
    <3>4. A \in Seq(Regions(Flags)) /\ k \in DOMAIN A /\ A[k].base \in Nat /\ End(A[k]) \in Nat
      BY RegionIs DEF Good
    <3>5. lmb_addrs_overlap(r, A[k])
      BY <1>1, <3>1, <3>3, <3>4 DEF lmb_addrs_overlap
    <3> QED BY <1>2, <3>3, <3>4, <3>5 DEF lmb_can_reserve_region
  <2> QED BY <2>2, <2>6, <2>7 DEF ReserveIsExact, L, res
<1>3. CASE ~lmb_can_reserve_region(A, r, f)
  <2>1. res = [ret |-> -17, lst |-> A]
    BY <1>3 DEF lmb_reserve
  <2>2. res.ret # 0 /\ res.lst = A
    BY <2>1
  <2> QED BY <2>2 DEF ReserveIsExact
<1> QED BY <1>2, <1>3

\* In a coalesced list, a range that is reserved with the same flags throughout
\* lies within one region.
LEMMA OneRegion ==
  ASSUME NEW A, Good(A, Flags), Coalesced(A), NEW r \in Ranges
  PROVE  Holds(A, r) <=> \E f \in Flags : \A a \in r.base..(End(r) - 1) : AddrMap(A)[a] = f
<1>1. A \in Seq(Regions(Flags)) /\ Len(A) \in Nat /\ \A k, l \in 1..Len(A) : k < l => End(A[k]) <= A[l].base
  BY DEF Good, Ascends
<1>2. \A k \in 1..Len(A) : A[k].base \in Nat /\ End(A[k]) \in Nat /\ A[k].base < End(A[k]) /\ A[k].flags \in Flags
  BY <1>1, RegionIs
<1>3. r.base \in Nat /\ End(r) \in Nat /\ r.base < End(r) /\ End(r) <= AddrMax + 1 /\ AddrMax \in Nat
  BY RangeIs
<1>4. \A a \in r.base..(End(r) - 1) : a \in Addrs /\ a \in Nat /\ r.base <= a /\ a < End(r)
  BY <1>3 DEF Addrs
<1>5. ASSUME Holds(A, r) PROVE \E f \in Flags : \A a \in r.base..(End(r) - 1) : AddrMap(A)[a] = f
  <2>1. PICK k \in 1..Len(A) : A[k].base <= r.base /\ End(r) <= End(A[k])
    BY <1>5 DEF Holds
  <2>2. ASSUME NEW a \in r.base..(End(r) - 1) PROVE AddrMap(A)[a] = A[k].flags
    <3>1. Covers(A[k], a, A[k].flags)
      BY <1>2, <1>3, <1>4, <2>1 DEF Covers
    <3>2. At(A, a, A[k].flags)
      BY <3>1 DEF At
    <3> QED BY <1>4, <3>2, MapIs
  <2> QED BY <1>2, <2>2
<1>6. ASSUME NEW f \in Flags, \A a \in r.base..(End(r) - 1) : AddrMap(A)[a] = f PROVE Holds(A, r)
  <2>1. ASSUME NEW a \in r.base..(End(r) - 1)
        PROVE  \E k \in 1..Len(A) : A[k].base <= a /\ a < End(A[k]) /\ A[k].flags = f
    <3>1. AddrMap(A)[a] = f /\ f # Unreserved /\ a \in Addrs
      BY <1>4, <1>6, FlagsAssumption DEF Unreserved
    <3>2. At(A, a, f)
      BY <3>1, MapIs
    <3> QED BY <3>2 DEF At, Covers
  <2>2. r.base \in r.base..(End(r) - 1)
    BY <1>3
  <2>3. PICK k \in 1..Len(A) : A[k].base <= r.base /\ r.base < End(A[k]) /\ A[k].flags = f
    BY <2>1, <2>2
  <2>4. ASSUME ~(End(r) <= End(A[k])) PROVE FALSE
    <3>1. End(A[k]) \in r.base..(End(r) - 1)
      BY <1>2, <1>3, <2>3, <2>4
    <3>2. PICK l \in 1..Len(A) : A[l].base <= End(A[k]) /\ End(A[k]) < End(A[l]) /\ A[l].flags = f
      BY <2>1, <3>1
    <3>3. /\ A[k].base \in Nat /\ End(A[k]) \in Nat /\ A[k].base < End(A[k])
          /\ A[l].base \in Nat /\ End(A[l]) \in Nat /\ A[l].base < End(A[l])
      BY <1>2
    <3>4. k < l
      <4>1. k # l
        BY <3>2, <3>3
      <4>2. ~(End(A[l]) <= A[k].base)
        BY <3>2, <3>3
      <4> QED BY <1>1, <4>1, <4>2
    <3>5. End(A[k]) = A[l].base
      BY <1>1, <3>2, <3>3, <3>4
    <3> DEFINE j == k + 1
    <3>6. j \in 1..Len(A) /\ k < j /\ k \in 1..(Len(A) - 1) /\ (j < l \/ j = l)
      BY <1>1, <3>4
    <3>7. End(A[k]) = A[j].base => A[k].flags # A[j].flags
      BY <3>6 DEF Coalesced
    <3> HIDE DEF j
    <3>8. j # l
      BY <2>3, <3>2, <3>5, <3>7
    <3>9. End(A[k]) <= A[j].base /\ End(A[j]) <= A[l].base
      BY <1>1, <3>6, <3>8
    <3>10. A[j].base \in Nat /\ End(A[j]) \in Nat /\ A[j].base < End(A[j])
      BY <1>2, <3>6
    <3> QED BY <3>3, <3>5, <3>9, <3>10
  <2> QED BY <2>3, <2>4 DEF Holds
<1> QED BY <1>5, <1>6

\* _lmb_free() of a coalesced list is exact.
LEMMA FreeExact ==
  ASSUME Good(used_mem, Flags), Coalesced(used_mem), NEW r \in Ranges
  PROVE  FreeIsExact(r)
<1> DEFINE A == used_mem
           res == lmb_free_list(A, r)
           one == \E f \in Flags : \A a \in r.base..(End(r) - 1) : AddrMap(A)[a] = f
           L == res.lst
<1>1. /\ Good(L, Flags)
      /\ Holds(A, r) => res.ret = 0 /\ Frees(A, r, L)
      /\ ~Holds(A, r) => res.ret # 0 /\ L = A
  BY FreeGood
<1>2. Holds(A, r) <=> one
  BY OneRegion
<1>3. FreeIsExact(r) <=> IF one THEN res.ret = 0 /\ AddrMap(L) = With(AddrMap(A), r, Unreserved)
                         ELSE res.ret # 0 /\ L = A
  BY DEF FreeIsExact
<1> HIDE DEF one, L
<1>4. CASE Holds(A, r)
  <2>1. ASSUME NEW a \in Addrs
        PROVE  AddrMap(L)[a] = IF r.base <= a /\ a < End(r) THEN Unreserved ELSE AddrMap(A)[a]
    <3>1. a \in Nat
      BY AddrAssumption DEF Addrs
    <3>2. \A x : At(L, a, x) <=> At(A, a, x) /\ ~(r.base <= a /\ a < End(r))
      BY <1>1, <1>4, <3>1 DEF Frees
    <3>3. \A x : At(A, a, x) <=> x # Unreserved /\ AddrMap(A)[a] = x
      BY MapIs
    <3> DEFINE v == IF r.base <= a /\ a < End(r) THEN Unreserved ELSE AddrMap(A)[a]
    <3>4. \A x : At(L, a, x) <=> x # Unreserved /\ v = x
      BY <3>2, <3>3
    <3> HIDE DEF v
    <3>5. AddrMap(L)[a] = v
      BY <1>1, <3>4, MapHas
    <3> QED BY <3>5 DEF v
  <2>2. AddrMap(L) = With(AddrMap(A), r, Unreserved)
    <3>1. AddrMap(L) = [a \in Addrs |-> AddrMap(L)[a]]
      BY DEF AddrMap
    <3> QED BY <2>1, <3>1 DEF With
  <2> QED BY <1>1, <1>2, <1>3, <1>4, <2>2
<1>5. CASE ~Holds(A, r)
  BY <1>1, <1>2, <1>3, <1>5
<1> QED BY <1>4, <1>5

\* From a coalesced list, lmb_reserve() reserves the range it is asked for and
\* nothing else, or fails and changes nothing; lmb_free() gives up any part of one
\* reservation and nothing else.  So it is for every size of the address space
\* and every list that can be reached.
THEOREM ExactTheorem == Spec => []ExactWhenCoalesced
<1>1. LmbInv => ExactWhenCoalesced
  BY ReserveExact, FreeExact DEF LmbInv, ExactWhenCoalesced
<1> QED BY <1>1, AlwaysInv, PTL
=============================================================================
