--------------------------------- MODULE Lmb --------------------------------
(***************************************************************************)
(* Logical memory blocks (lib/lmb.c): the list of available memory and the *)
(* list of reserved regions, both sorted by address, with neighbours of    *)
(* equal flags coalesced as regions are added.  Everything U-Boot loads is *)
(* placed or checked with them.  Sizes and addresses are in units of the   *)
(* smallest region; no range reaches the end of the address space, so sums *)
(* do not overflow.                                                        *)
(***************************************************************************)
EXTENDS Integers, Sequences, FiniteSets, FiniteSetsExt, SequencesExt

CONSTANTS AddrMax,      \* the highest address
          Banks,        \* gd->dram[], in the order of the banks
          Flags,        \* the flags regions are reserved with
          Aligns,       \* the alignments asked for, powers of two
          MaxAddrs      \* the values of max_addr asked for

LMB_NONE == 0
LMB_ALLOC_ANYWHERE == 0

Addrs == 0..AddrMax
Ranges == {r \in [base : Addrs, size : 1..(AddrMax + 1)] :
             r.base + r.size <= AddrMax + 1}

ASSUME AddrAssumption == AddrMax \in Nat
ASSUME BanksAssumption ==
  /\ Banks \in Seq(Ranges)
  /\ \A i, j \in DOMAIN Banks : i # j =>
       \/ Banks[i].base + Banks[i].size <= Banks[j].base
       \/ Banks[j].base + Banks[j].size <= Banks[i].base
ASSUME FlagsAssumption == LMB_NONE \in Flags /\ Flags \subseteq Nat
ASSUME AlignsAssumption == Aligns \subseteq Nat \ {0} /\ MaxAddrs \subseteq Addrs

VARIABLES available_mem,  \* list of regions of memory
          used_mem,       \* list of reserved regions
          bank            \* the banks that lmb_add_memory() has added

vars == <<available_mem, used_mem, bank>>

Region(b, s, f) == [base |-> b, size |-> s, flags |-> f]
End(r) == r.base + r.size
AlignDown(a, align) == (a \div align) * align
AlignUp(a, align) == AlignDown(a + align - 1, align)

-----------------------------------------------------------------------------
(* Lists of regions *)

lmb_addrs_overlap(r1, r2) == r1.base < End(r2) /\ r2.base < End(r1)

lmb_addrs_adjacent(r1, r2) ==
  IF r2.base = End(r1) THEN 1 ELSE IF r1.base = End(r2) THEN -1 ELSE 0

lmb_regions_check(lst, i, j) ==
  CASE lst[i].flags # lst[j].flags -> "no"
    [] lst[i].flags = lst[j].flags /\ lmb_addrs_overlap(lst[i], lst[j]) ->
         "LMB_RGN_OVERLAP"
    [] lst[i].flags = lst[j].flags /\ ~lmb_addrs_overlap(lst[i], lst[j]) ->
         IF lmb_addrs_adjacent(lst[i], lst[j]) # 0
         THEN "LMB_RGN_ADJACENT" ELSE "no"

\* lmb_coalesce_regions(): lst[i + 1] is taken into lst[i].
lmb_coalesce_regions(lst, i) ==
  RemoveAt([lst EXCEPT ![i].size = @ + lst[i + 1].size], i + 1)

Failed(lst) == [ret |-> -1, lst |-> lst]
Done(lst) == [ret |-> 0, lst |-> lst]

\* lmb_resize_regions(): region i grows to hold r and every region from i on
\* that r overlaps; these are removed.
lmb_resize_regions(lst, i, r) ==
  LET over == {k \in i..Len(lst) : lmb_addrs_overlap(r, lst[k])}
      base == Min({r.base, lst[i].base})
      end  == Max({End(lst[Max(over)]), End(r)})
      grown == Region(base, end - base, lst[i].flags)
  IN IF \E k \in over : lst[k].flags # LMB_NONE
     THEN Failed(lst)
     ELSE Done(SubSeq(lst, 1, i - 1) \o <<grown>>
                 \o SubSeq(lst, i + Cardinality(over), Len(lst)))

\* Adding to the sorted table
InsertSorted(lst, r) ==
  InsertAt(lst, 1 + Cardinality({k \in DOMAIN lst : lst[k].base <= r.base}), r)

\* Mutated form: the flags of the region below are not compared.
Meets_anyflags(r, f, rgn) ==
  lmb_addrs_adjacent(r, rgn) # 0 \/ lmb_addrs_overlap(r, rgn)

\* The region at which the loop of lmb_add_region_flags() stops
Meets(r, f, rgn) ==
  \/ lmb_addrs_adjacent(r, rgn) = 1
  \/ lmb_addrs_adjacent(r, rgn) = -1 /\ f = rgn.flags
  \/ lmb_addrs_overlap(r, rgn)

\* What the loop does with region i, where it stops; `met' says that r has
\* gone into it.
Coalesce(lst, i, r, f) ==
  LET adj == lmb_addrs_adjacent(r, lst[i])
      same == f = lst[i].flags
  IN CASE adj = 1 /\ same ->
            [ret |-> 0, met |-> TRUE,
             lst |-> [lst EXCEPT ![i].base = @ - r.size, ![i].size = @ + r.size]]
       [] adj = 1 /\ ~same -> [ret |-> 0, met |-> FALSE, lst |-> lst]
       [] adj = -1 -> [ret |-> 0, met |-> TRUE,
                       lst |-> [lst EXCEPT ![i].size = @ + r.size]]
       [] adj = 0 -> LET res == lmb_resize_regions(lst, i, r)
                     IN [ret |-> res.ret, met |-> TRUE, lst |-> res.lst]

\* Mutated form: the neighbour above is not looked at.
CoalesceNext_never(c, i) == [ret |-> 0, met |-> c.met, lst |-> c.lst]

\* After the loop, region i against the next one
CoalesceNext(c, i) ==
  CASE i >= Len(c.lst) -> c
    [] i < Len(c.lst) ->
       LET chk == lmb_regions_check(c.lst, i, i + 1)
           res == lmb_resize_regions(c.lst, i, c.lst[i])
       IN CASE chk = "LMB_RGN_ADJACENT" ->
                 [ret |-> 0, met |-> TRUE, lst |-> lmb_coalesce_regions(c.lst, i)]
            [] chk = "LMB_RGN_OVERLAP" ->
                 [ret |-> res.ret, met |-> TRUE, lst |-> res.lst]
            [] chk = "no" -> c

\* lmb_add_region_flags(): r goes into a region it meets, or into the sorted
\* table when nothing was coalesced.
lmb_add_region_flags(lst, r, f) ==
  LET stops == {k \in DOMAIN lst : Meets(r, f, lst[k])}
      i == Min(stops)
      c1 == Coalesce(lst, i, r, f)
      c2 == CoalesceNext(c1, i)
      new == Region(r.base, r.size, f)
  IN CASE stops = {} -> Done(InsertSorted(lst, new))
       [] stops # {} ->
            CASE c1.ret # 0 -> Failed(c1.lst)
              [] c1.ret = 0 /\ c2.ret # 0 -> Failed(c2.lst)
              [] c1.ret = 0 /\ c2.ret = 0 /\ c2.met -> Done(c2.lst)
              [] c1.ret = 0 /\ c2.ret = 0 /\ ~c2.met ->
                   Done(InsertSorted(c2.lst, new))

\* _lmb_free(): the range must be within one region, which is removed, cut at
\* either end, or split.
lmb_free_list(lst, r) ==
  LET holds == {k \in DOMAIN lst : lst[k].base <= r.base /\ End(r) <= End(lst[k])}
      i == Min(holds)
      front == lst[i].base = r.base
      back == End(lst[i]) = End(r)
  IN CASE holds = {} -> [ret |-> -14, lst |-> lst]
       [] holds # {} ->
            CASE front /\ back -> Done(RemoveAt(lst, i))
              [] front /\ ~back ->
                   Done([lst EXCEPT ![i].base = End(r), ![i].size = @ - r.size])
              [] ~front /\ back -> Done([lst EXCEPT ![i].size = @ - r.size])
              [] ~front /\ ~back ->
                   lmb_add_region_flags(
                     [lst EXCEPT ![i].size = r.base - lst[i].base],
                     [base |-> End(r), size |-> End(lst[i]) - End(r)],
                     lst[i].flags)

\* lmb_overlaps_region(): the first region r overlaps, or 0
lmb_overlaps_region(lst, r) ==
  LET over == {k \in DOMAIN lst : lmb_addrs_overlap(r, lst[k])}
  IN IF over = {} THEN 0 ELSE Min(over)

-----------------------------------------------------------------------------
(* Reserving and allocating, as functions of the lists *)

\* An overlap is allowed only between LMB_NONE and LMB_NONE.
lmb_can_reserve_region(used, r, f) ==
  \A k \in DOMAIN used :
    lmb_addrs_overlap(r, used[k]) => f = LMB_NONE /\ f = used[k].flags

lmb_reserve(used, r, f) ==
  IF lmb_can_reserve_region(used, r, f)
  THEN lmb_add_region_flags(used, r, f)
  ELSE [ret |-> -17, lst |-> used]

\* _lmb_alloc_base() in one region of memory, from the highest place down: it
\* steps below the reserved region in the way until nothing is; 0 if no place.
AllocInRegion(used, m, size, align, top) ==
  LET from[b \in Addrs] ==
        LET k == lmb_overlaps_region(used, [base |-> b, size |-> size])
        IN IF b = 0 \/ b < m.base THEN 0
           ELSE IF k = 0 THEN b
           ELSE IF used[k].base < size THEN 0
           ELSE from[AlignDown(used[k].base - size, align)]
  IN from[AlignDown(top - size, align)]

\* Mutated form: max_addr bounds the base of the region, not its end.
AllocTop_base(m, size, max_addr) ==
  IF max_addr = LMB_ALLOC_ANYWHERE THEN End(m) ELSE Min({End(m), max_addr + size})

\* Where _lmb_alloc_base() starts in a region of memory
AllocTop(m, size, max_addr) ==
  IF max_addr = LMB_ALLOC_ANYWHERE THEN End(m) ELSE Min({End(m), max_addr})

\* _lmb_alloc_base() up to the reservation: the regions of memory from the
\* last to the first, without those that are too small or above max_addr.
AllocPlace(avail, used, size, align, max_addr) ==
  LET place(i) == AllocInRegion(used, avail[i], size, align,
                                AllocTop(avail[i], size, max_addr))
      fits == {i \in DOMAIN avail :
                 /\ avail[i].size >= size
                 /\ max_addr = LMB_ALLOC_ANYWHERE \/ avail[i].base < max_addr
                 /\ place(i) # 0}
  IN IF fits = {} THEN 0 ELSE place(Max(fits))

\* Mutated form: the last place in a gap is forgotten.
GapSlots_short(from, to, size, align) ==
  LET first == AlignUp(from, align)
      last == AlignDown(to - size, align)
  IN IF to > first /\ to - first >= size
     THEN [n \in 1..((last - first) \div align) |-> first + (n - 1) * align]
     ELSE <<>>

\* The aligned places for `size' in from..to-1, as lmb_walk_slots() counts them
GapSlots(from, to, size, align) ==
  LET first == AlignUp(from, align)
      last == AlignDown(to - size, align)
  IN IF to > first /\ to - first >= size
     THEN [n \in 1..((last - first) \div align + 1) |-> first + (n - 1) * align]
     ELSE <<>>

\* lmb_walk_slots(): the places in the order it counts them.  Before reserved
\* region j, `cur' is the end of the regions passed so far.
lmb_walk_slots(avail, used, size, align) ==
  LET cur(m, j) == Max({m.base} \cup {End(used[k]) : k \in 1..(j - 1)})
      gap(m, j) ==
        IF cur(m, j) >= End(m) THEN <<>>
        ELSE IF j > Len(used) THEN GapSlots(cur(m, j), End(m), size, align)
        ELSE IF End(used[j]) <= cur(m, j) THEN <<>>
        ELSE GapSlots(cur(m, j), Min({used[j].base, End(m)}), size, align)
  IN FlattenSeq([i \in DOMAIN avail |->
       FlattenSeq([j \in 1..(Len(used) + 1) |-> gap(avail[i], j)])])

\* lmb_alloc_addr() before it reserves: the range is within the region of
\* memory that it overlaps first.
AddrInMemory(avail, r) ==
  LET k == lmb_overlaps_region(avail, r)
  IN /\ k # 0
     /\ r.base >= avail[k].base
     /\ lmb_addrs_overlap(avail[k], [base |-> End(r) - 1, size |-> 1])

-----------------------------------------------------------------------------
(* Operations *)

Ready == bank = Len(Banks)
Sizes == 1..(AddrMax + 1)

\* lmb_add_memory(): one bank after the other
AddBank ==
  /\ ~Ready
  /\ bank' = bank + 1
  /\ available_mem' =
       lmb_add_region_flags(available_mem, Banks[bank'], LMB_NONE).lst
  /\ UNCHANGED used_mem

Reserve(r, f) ==
  /\ Ready
  /\ used_mem' = lmb_reserve(used_mem, r, f).lst
  /\ UNCHANGED <<available_mem, bank>>

Free(r) ==
  /\ Ready
  /\ used_mem' = lmb_free_list(used_mem, r).lst
  /\ UNCHANGED <<available_mem, bank>>

\* lmb_alloc() and lmb_alloc_base().  Callers ask for an end that leaves room
\* for the region (see the README on what happens when they do not).
Alloc(size, align, max_addr, f) ==
  LET b == AllocPlace(available_mem, used_mem, size, align, max_addr)
  IN /\ Ready
     /\ max_addr # LMB_ALLOC_ANYWHERE => max_addr >= size
     /\ b # 0
     /\ used_mem' = lmb_add_region_flags(used_mem,
                                         [base |-> b, size |-> size], f).lst
     /\ UNCHANGED <<available_mem, bank>>

\* lmb_alloc_random(): any of the places may be chosen.
AllocRandom(size, align, f) ==
  /\ Ready
  /\ \E b \in ToSet(lmb_walk_slots(available_mem, used_mem, size, align)) :
       used_mem' = lmb_reserve(used_mem, [base |-> b, size |-> size], f).lst
  /\ UNCHANGED <<available_mem, bank>>

AllocAddr(r, f) ==
  /\ Ready
  /\ AddrInMemory(available_mem, r)
  /\ used_mem' = lmb_reserve(used_mem, r, f).lst
  /\ UNCHANGED <<available_mem, bank>>

Init ==
  /\ available_mem = <<>>
  /\ used_mem = <<>>
  /\ bank = 0

Next ==
  \/ AddBank
  \/ \E r \in Ranges : Free(r) \/ \E f \in Flags : Reserve(r, f) \/ AllocAddr(r, f)
  \/ \E size \in Sizes, align \in Aligns, f \in Flags :
       \/ AllocRandom(size, align, f)
       \/ \E max_addr \in MaxAddrs : Alloc(size, align, max_addr, f)

Spec == Init /\ [][Next]_vars

-----------------------------------------------------------------------------

Sorted(lst) ==
  /\ \A i \in DOMAIN lst : lst[i].size > 0
  /\ \A i \in 1..(Len(lst) - 1) : End(lst[i]) <= lst[i + 1].base

\* The regions of either list are not empty, ascend and are disjoint, whatever
\* overlapping and adjacent reservations came and went: the searches of
\* lib/lmb.c and the merging in lmb_resize_regions() rely on it.
RegionsSorted == Sorted(available_mem) /\ Sorted(used_mem)

\* Neighbours with equal flags are one region.
Coalesced(lst) ==
  \A i \in 1..(Len(lst) - 1) :
    End(lst[i]) = lst[i + 1].base => lst[i].flags # lst[i + 1].flags

\* The flags an address is reserved with
Unreserved == -1
AddrMap(lst) ==
  [a \in Addrs |->
     IF \E k \in DOMAIN lst : lst[k].base <= a /\ a < End(lst[k])
     THEN lst[CHOOSE k \in DOMAIN lst : lst[k].base <= a /\ a < End(lst[k])].flags
     ELSE Unreserved]

With(m, r, f) == [a \in Addrs |-> IF r.base <= a /\ a < End(r) THEN f ELSE m[a]]

\* lmb_reserve() of r with flags f, as the map of addresses sees it: success
\* means that nothing but LMB_NONE asked for again was there, and that r and
\* nothing else is now reserved with f; failure changes nothing.
ReserveIsExact(r, f) ==
  LET res == lmb_reserve(used_mem, r, f)
      map == AddrMap(used_mem)
  IN IF res.ret = 0
     THEN /\ \A a \in r.base..(End(r) - 1) :
               map[a] = Unreserved \/ (map[a] = LMB_NONE /\ f = LMB_NONE)
          /\ AddrMap(res.lst) = With(map, r, f)
     ELSE res.lst = used_mem

\* Every reservation is exact, as lmb_reserve()'s return value says.
ReservesWhatItSays == \A r \in Ranges, f \in Flags : ReserveIsExact(r, f)

\* lmb_free() of r is possible for any part of one reservation: cutting and
\* splitting regions gives up r and nothing else.
FreeIsExact(r) ==
  LET res == lmb_free_list(used_mem, r)
      map == AddrMap(used_mem)
      one == \E f \in Flags : \A a \in r.base..(End(r) - 1) : map[a] = f
  IN IF one THEN res.ret = 0 /\ AddrMap(res.lst) = With(map, r, Unreserved)
     ELSE res.ret # 0 /\ res.lst = used_mem

\* Reserving and freeing are exact from a coalesced list: merging with
\* neighbours and overlapped regions, cutting and splitting lose no address and
\* take no other.
ExactWhenCoalesced ==
  Coalesced(used_mem) =>
    \A r \in Ranges : FreeIsExact(r) /\ \A f \in Flags : ReserveIsExact(r, f)

\* Where a region may be placed: in memory, free, aligned
Places(size, align) ==
  {b \in Addrs :
     /\ b % align = 0
     /\ \E m \in ToSet(available_mem) : m.base <= b /\ b + size <= End(m)
     /\ \A u \in ToSet(used_mem) : End(u) <= b \/ b + size <= u.base}

\* lmb_walk_slots() counts every place once, in ascending order, so the random
\* allocation is uniform over all of them and never lands on a reservation.
SlotsAreThePlaces ==
  \A size \in Sizes, align \in Aligns :
    LET slots == lmb_walk_slots(available_mem, used_mem, size, align)
    IN /\ ToSet(slots) = Places(size, align)
       /\ \A n \in 1..(Len(slots) - 1) : slots[n] < slots[n + 1]

\* _lmb_alloc_base() finds the highest place below max_addr, and fails only
\* when there is none (address 0 is never handed out).
AllocIsHighest ==
  \A size \in Sizes, align \in Aligns, max_addr \in Addrs :
    LET b == AllocPlace(available_mem, used_mem, size, align, max_addr)
        below == {p \in Places(size, align) \ {0} :
                    max_addr # LMB_ALLOC_ANYWHERE => p + size <= max_addr}
    IN max_addr = LMB_ALLOC_ANYWHERE \/ max_addr >= size =>
         b = IF below = {} THEN 0 ELSE Max(below)
=============================================================================
