------------------------------- MODULE Ashmem -------------------------------
(***************************************************************************)
(* Anonymous shared memory, mm/ashmem.c: areas whose unpinned pages are    *)
(* kept as ranges on a list of the area, and, until they are purged, on    *)
(* one LRU list that the shrinker empties when memory is short.            *)
(*                                                                         *)
(* ashmem_mutex is held for the whole of every operation that is one step  *)
(* here.  Sizes and offsets are in pages.                                  *)
(***************************************************************************)
EXTENDS Integers, Sequences, FiniteSets, KList, SequencesExt, FiniteSetsExt

CONSTANTS
    Area,
    Sizes,      \* the sizes an area may be given
    MaxSize,    \* a bound on them
    RangeId,    \* the struct ashmem_range there may be at a time, a bound
    ShrinkBatch, \* SHRINK_BATCH: with less than that shrink_slab() asks for no scan
    NULL

Page == 0 .. MaxSize - 1

(* struct ashmem_range. *)
RangeRec == [pgstart : 0 .. MaxSize, pgend : Page, purged : BOOLEAN]

ASSUME AshmemAssumption ==
    /\ MaxSize \in Nat /\ Sizes \subseteq 1 .. MaxSize
    /\ IsFiniteSet(RangeId)
    /\ ShrinkBatch \in Nat \ {0}
    /\ NULL \notin RangeId /\ NULL \notin Nat /\ NULL \notin RangeRec

VARIABLES
    size,           \* size[a]: asma->size; NULL while the area is not open
    file,           \* file[a]: the size of the backing file, or NULL
    set_size,       \* set_size[a]: the argument of a SET_SIZE that saw no file
    range,          \* range[n]: the struct ashmem_range n, or NULL
    unpinned_list,  \* unpinned_list[a]: its ranges
    ashmem_lru_list,
    lru_count,
    ashmem_mutex,   \* "dead": its holder waits for itself
    told,           \* the last step's ashmem_pin() answered ASHMEM_WAS_PURGED
    oom,            \* the last step's range_alloc() failed
    lost            \* lost[a]: the pages purged and not pinned since

ashVars == <<size, file, set_size, range, unpinned_list, ashmem_lru_list, lru_count,
             ashmem_mutex, told, oom, lost>>

(* No answer, and no lack of memory. *)
Quiet == told' = FALSE /\ oom' = FALSE

areaVars == <<size, file, set_size>>
listVars == <<range, unpinned_list, ashmem_lru_list, lru_count>>

AshInit ==
    /\ size = [a \in Area |-> NULL]
    /\ file = [a \in Area |-> NULL]
    /\ set_size = [a \in Area |-> NULL]
    /\ range = [n \in RangeId |-> NULL]
    /\ unpinned_list = [a \in Area |-> <<>>]
    /\ ashmem_lru_list = <<>>
    /\ lru_count = 0
    /\ ashmem_mutex = "free"
    /\ told = FALSE
    /\ oom = FALSE
    /\ lost = [a \in Area |-> {}]

-----------------------------------------------------------------------------
(* The macros on ranges; r is a struct ashmem_range. *)
range_size(r) == r.pgend - r.pgstart + 1

page_range_subsumes_range(r, start, end) == r.pgstart >= start /\ r.pgend <= end

page_range_subsumed_by_range(r, start, end) == r.pgstart <= start /\ r.pgend >= end

page_in_range(r, page) == r.pgstart <= page /\ r.pgend >= page

page_range_in_range_EndsOnly(r, start, end) ==
    page_in_range(r, start) \/ page_in_range(r, end)

page_range_in_range(r, start, end) ==
    \/ page_in_range(r, start)
    \/ page_in_range(r, end)
    \/ page_range_subsumes_range(r, start, end)

range_before_page(r, page) == r.pgend < page

Pages(r) == r.pgstart .. r.pgend

(* The pages that a set of ranges, S, has on the LRU list. *)
LruPages(rs, S) == MapThenSumSet(LAMBDA n : IF rs[n].purged THEN 0 ELSE range_size(rs[n]), S)

(* The ranges of the list seq that a walk reaches before range_before_page. *)
Reached(rs, seq, page) ==
    {i \in DOMAIN seq : \A j \in 1 .. i : ~range_before_page(rs[seq[j]], page)}

Free == {n \in RangeId : range[n] = NULL}

-----------------------------------------------------------------------------
ashmem_open(a) ==
    /\ size[a] = NULL
    /\ size' = [size EXCEPT ![a] = 0]
    /\ Quiet
    /\ UNCHANGED <<file, set_size, listVars, ashmem_mutex, lost>>

(* range_del() for every range in the set D, which area a loses. *)
range_del(a, D) ==
    /\ range' = [n \in RangeId |-> IF n \in D THEN NULL ELSE range[n]]
    /\ unpinned_list' = [unpinned_list EXCEPT ![a] = list_del_all(@, D)]
    /\ ashmem_lru_list' = list_del_all(ashmem_lru_list, D)
    /\ lru_count' = lru_count - LruPages(range, D)

ashmem_release(a) ==
    /\ size[a] # NULL /\ set_size[a] = NULL /\ ashmem_mutex = "free"
    /\ range_del(a, ToSet(unpinned_list[a]))
    /\ size' = [size EXCEPT ![a] = NULL]
    /\ file' = [file EXCEPT ![a] = NULL]
    /\ lost' = [lost EXCEPT ![a] = {}]
    /\ Quiet
    /\ UNCHANGED <<set_size, ashmem_mutex>>

(* ASHMEM_SET_SIZE tests asma->file and stores the size without the mutex. *)
set_size_test(a, n) ==
    /\ size[a] # NULL /\ set_size[a] = NULL
    /\ file[a] = NULL
    /\ set_size' = [set_size EXCEPT ![a] = n]
    /\ Quiet
    /\ UNCHANGED <<size, file, listVars, ashmem_mutex, lost>>

set_size_store(a) ==
    /\ set_size[a] # NULL
    /\ size' = [size EXCEPT ![a] = set_size[a]]
    /\ set_size' = [set_size EXCEPT ![a] = NULL]
    /\ Quiet
    /\ UNCHANGED <<file, listVars, ashmem_mutex, lost>>

(* ashmem_mmap() makes the backing file the first time it succeeds. *)
ashmem_mmap(a) ==
    /\ size[a] # NULL /\ ashmem_mutex = "free"
    /\ size[a] # 0 /\ file[a] = NULL
    /\ file' = [file EXCEPT ![a] = size[a]]
    /\ Quiet
    /\ UNCHANGED <<size, set_size, listVars, ashmem_mutex, lost>>

-----------------------------------------------------------------------------
(***************************************************************************)
(* ashmem_shrink() for nr_to_scan > 0 pages, called by vmscan and, with    *)
(* an earlier lru_count, by ASHMEM_PURGE_ALL_CACHES: the oldest ranges, as *)
(* many as it takes.                                                       *)
(***************************************************************************)
Scanned(nr_to_scan) ==
    {i \in DOMAIN ashmem_lru_list :
       MapThenSumSet(LAMBDA j : range_size(range[ashmem_lru_list[j]]), 1 .. i - 1) < nr_to_scan}

(* A shrinker that leaves the purged ranges on the LRU list. *)
ashmem_shrink_NoLru(nr_to_scan) ==
    LET S == {ashmem_lru_list[i] : i \in Scanned(nr_to_scan)}
    IN  /\ ashmem_mutex = "free" /\ S # {}
        /\ range' = [n \in RangeId |-> IF n \in S THEN [range[n] EXCEPT !.purged = TRUE] ELSE range[n]]
        /\ lost' = [a \in Area |-> lost[a] \cup
                      UNION {Pages(range[n]) : n \in S \cap ToSet(unpinned_list[a])}]
        /\ Quiet
        /\ UNCHANGED <<areaVars, unpinned_list, ashmem_lru_list, lru_count, ashmem_mutex>>

ashmem_shrink(nr_to_scan) ==
    LET S == {ashmem_lru_list[i] : i \in Scanned(nr_to_scan)}
    IN  /\ ashmem_mutex = "free" /\ S # {}
        /\ range' = [n \in RangeId |-> IF n \in S THEN [range[n] EXCEPT !.purged = TRUE] ELSE range[n]]
        /\ ashmem_lru_list' = list_del_all(ashmem_lru_list, S)
        /\ lru_count' = lru_count - LruPages(range, S)
        /\ lost' = [a \in Area |-> lost[a] \cup
                      UNION {Pages(range[n]) : n \in S \cap ToSet(unpinned_list[a])}]
        /\ Quiet
        /\ UNCHANGED <<areaVars, unpinned_list, ashmem_mutex>>

(***************************************************************************)
(* range_alloc() allocates with GFP_KERNEL under ashmem_mutex; when memory *)
(* is short the allocation calls shrink_slab().  This asks ashmem_shrink() *)
(* for lru_count, which lacks the ranges deleted so far, scans at most     *)
(* twice as many pages in whole batches, and for every batch               *)
(* ashmem_shrink() takes ashmem_mutex.                                     *)
(***************************************************************************)
ReclaimInside ==
    /\ 2 * lru_count' >= ShrinkBatch
    /\ ashmem_mutex' = "dead"
    /\ oom' = TRUE

-----------------------------------------------------------------------------
(***************************************************************************)
(* ashmem_pin().  The walk ends at the first range it punches a hole into. *)
(***************************************************************************)
PinHit(a, pgstart, pgend) ==
    LET seq == unpinned_list[a]
        Hit(i) == page_range_in_range(range[seq[i]], pgstart, pgend)
        Hole(i) == Hit(i) /\ range[seq[i]].pgstart < pgstart /\ range[seq[i]].pgend > pgend
    IN  {seq[i] : i \in {i \in Reached(range, seq, pgstart) :
                           Hit(i) /\ \A j \in 1 .. i - 1 : ~Hole(j)}}

(* The range r as cases 2 to 4 leave it. *)
PinShrink(r, pgstart, pgend) ==
    IF r.pgstart >= pgstart
    THEN [r EXCEPT !.pgstart = pgend + 1]
    ELSE [r EXCEPT !.pgend = pgstart - 1]

(* What every way through the pin does; the hits are split into cases 1    *)
(* and 2 to 4, and new is what range_alloc() adds for a hole in the range  *)
(* cut, on the list before it and at the end of the LRU list.              *)
PinLists(a, pgstart, pgend, new, cut) ==
    LET hit == PinHit(a, pgstart, pgend)
        gone == {n \in hit : page_range_subsumes_range(range[n], pgstart, pgend)}
        left == [n \in hit \ gone |-> PinShrink(range[n], pgstart, pgend)]
        seq == list_del_all(unpinned_list[a], gone)
        lru == list_del_all(ashmem_lru_list, gone)
        upper == [range[cut] EXCEPT !.pgstart = pgend + 1]
    IN  /\ range' = [n \in RangeId |-> CASE n \in gone -> NULL
                                       [] n \in hit \ gone -> left[n]
                                       [] n = new -> upper
                                       [] OTHER -> range[n]]
        /\ unpinned_list' =
             [unpinned_list EXCEPT ![a] = IF new = NULL THEN seq
                                          ELSE InsertAt(seq, CHOOSE i \in DOMAIN seq : seq[i] = cut, new)]
        /\ ashmem_lru_list' = IF new = NULL \/ range[cut].purged THEN lru ELSE Append(lru, new)
        /\ lru_count' = lru_count - LruPages(range, hit) + LruPages(left, hit \ gone)
                        + IF new = NULL \/ range[cut].purged THEN 0 ELSE range_size(upper)
        /\ told' = \E n \in hit : range[n].purged

ashmem_pin(a, pgstart, pgend) ==
    LET hole == {n \in PinHit(a, pgstart, pgend) :
                   range[n].pgstart < pgstart /\ range[n].pgend > pgend}
    IN  \/ /\ hole = {}
           /\ PinLists(a, pgstart, pgend, NULL, NULL)
           /\ lost' = [lost EXCEPT ![a] = @ \ (pgstart .. pgend)]
           /\ oom' = FALSE
           /\ UNCHANGED <<areaVars, ashmem_mutex>>
        \/ \E cut \in hole, new \in Free :
             /\ PinLists(a, pgstart, pgend, new, cut)
             /\ lost' = [lost EXCEPT ![a] = @ \ (pgstart .. pgend)]
             /\ oom' = FALSE
             /\ UNCHANGED <<areaVars, ashmem_mutex>>
        \/ \E cut \in hole : \* range_alloc() fails, and nobody looks
             /\ PinLists(a, pgstart, pgend, NULL, NULL)
             /\ lost' = [lost EXCEPT ![a] = @ \ (pgstart .. range[cut].pgend)]
             /\ oom' = TRUE
             /\ UNCHANGED <<areaVars, ashmem_mutex>>
        \/ /\ hole # {} \* range_alloc() comes before range_shrink()
           /\ told' = FALSE
           /\ UNCHANGED <<areaVars, listVars, lost>>
           /\ ReclaimInside

(* A merge that forgets that what it swallowed was purged. *)
Merge_NotPurged(m) ==
    LET hits == {i \in Reached(range, m.seq, m.pgstart) :
                   page_range_in_range(range[m.seq[i]], m.pgstart, m.pgend)}
        n == m.seq[Min(hits)]
    IN  IF hits = {} \/ m.inside THEN m
        ELSE IF page_range_subsumed_by_range(range[n], m.pgstart, m.pgend)
        THEN [m EXCEPT !.inside = TRUE]
        ELSE [m EXCEPT !.seq = list_del(@, n),
                       !.pgstart = IF range[n].pgstart < @ THEN range[n].pgstart ELSE @,
                       !.pgend = IF range[n].pgend > @ THEN range[n].pgend ELSE @]

-----------------------------------------------------------------------------
(***************************************************************************)
(* ashmem_unpin(): the request grows by every range it meets, each of      *)
(* which is deleted and the walk restarted, until it meets none or is      *)
(* inside one.                                                             *)
(***************************************************************************)
Merge(m) ==
    LET hits == {i \in Reached(range, m.seq, m.pgstart) :
                   page_range_in_range(range[m.seq[i]], m.pgstart, m.pgend)}
        n == m.seq[Min(hits)]
    IN  IF hits = {} \/ m.inside THEN m
        ELSE IF page_range_subsumed_by_range(range[n], m.pgstart, m.pgend)
        THEN [m EXCEPT !.inside = TRUE]
        ELSE [m EXCEPT !.seq = list_del(@, n),
                       !.pgstart = IF range[n].pgstart < @ THEN range[n].pgstart ELSE @,
                       !.pgend = IF range[n].pgend > @ THEN range[n].pgend ELSE @,
                       !.purged = @ \/ range[n].purged]

Merged(a, pgstart, pgend) ==
    LET M[k \in 0 .. Len(unpinned_list[a]) + 1] ==
          IF k = 0
          THEN [seq |-> unpinned_list[a], pgstart |-> pgstart, pgend |-> pgend,
                purged |-> FALSE, inside |-> FALSE]
          ELSE Merge(M[k - 1])
    IN  M[Len(unpinned_list[a]) + 1]

(* range_alloc() puts the new range before the first one that is before it. *)
UnpinAlloc(a, m, new) ==
    LET D == ToSet(unpinned_list[a]) \ ToSet(m.seq)
        r == [pgstart |-> m.pgstart, pgend |-> m.pgend, purged |-> m.purged]
        lru == list_del_all(ashmem_lru_list, D)
        at == Cardinality(Reached(range, m.seq, m.pgstart)) + 1
    IN  /\ range' = [n \in RangeId |-> IF n = new THEN r ELSE IF n \in D THEN NULL ELSE range[n]]
        /\ unpinned_list' = [unpinned_list EXCEPT ![a] = InsertAt(m.seq, at, new)]
        /\ ashmem_lru_list' = IF r.purged THEN lru ELSE Append(lru, new)
        /\ lru_count' = lru_count - LruPages(range, D) + IF r.purged THEN 0 ELSE range_size(r)

ashmem_unpin(a, pgstart, pgend) ==
    LET m == Merged(a, pgstart, pgend)
        D == ToSet(unpinned_list[a]) \ ToSet(m.seq)
    IN  /\ told' = FALSE
        /\ UNCHANGED areaVars
        /\ \/ /\ m.inside
              /\ range_del(a, D)
              /\ oom' = FALSE
              /\ UNCHANGED <<ashmem_mutex, lost>>
           \/ /\ ~m.inside
              /\ \E new \in Free : UnpinAlloc(a, m, new)
              /\ oom' = FALSE
              /\ UNCHANGED <<ashmem_mutex, lost>>
           \/ /\ ~m.inside \* range_alloc() fails: -ENOMEM, the merged ranges are gone
              /\ range_del(a, D)
              /\ lost' = [lost EXCEPT ![a] = @ \ UNION {Pages(range[n]) : n \in D}]
              /\ oom' = TRUE
              /\ UNCHANGED ashmem_mutex
           \/ /\ ~m.inside
              /\ range_del(a, D)
              /\ lost' = [lost EXCEPT ![a] = @ \ UNION {Pages(range[n]) : n \in D}]
              /\ ReclaimInside

(* ashmem_get_pin_status(): the answer. *)
IsUnpinned(a, pgstart, pgend) ==
    \E i \in Reached(range, unpinned_list[a], pgstart) :
      page_range_in_range(range[unpinned_list[a][i]], pgstart, pgend)

(***************************************************************************)
(* ashmem_pin_unpin(): the requests it lets through.  An offset at the end *)
(* of the area with len zero asks for no page at all, pgend = pgstart - 1. *)
(***************************************************************************)
ashmem_pin_unpin(a) ==
    /\ size[a] # NULL /\ file[a] # NULL
    /\ ashmem_mutex = "free"
    /\ \E pgstart \in 0 .. size[a] : \E pgend \in pgstart - 1 .. size[a] - 1 :
         /\ pgend < pgstart => pgstart = size[a]
         /\ ashmem_pin(a, pgstart, pgend) \/ ashmem_unpin(a, pgstart, pgend)

AshNext ==
    \/ \E a \in Area :
         \/ ashmem_open(a)
         \/ ashmem_release(a)
         \/ \E n \in Sizes : set_size_test(a, n)
         \/ set_size_store(a)
         \/ ashmem_mmap(a)
         \/ ashmem_pin_unpin(a)
    \/ \E n \in 1 .. MaxSize + 1 : ashmem_shrink(n)

AshSpec == AshInit /\ [][AshNext]_ashVars

-----------------------------------------------------------------------------
(* The types of the variables. *)
AshTypeOK ==
    /\ size \in [Area -> {NULL, 0} \cup Sizes]
    /\ file \in [Area -> {NULL} \cup Sizes]
    /\ set_size \in [Area -> {NULL} \cup Sizes]
    /\ range \in [RangeId -> {NULL} \cup RangeRec]
    /\ unpinned_list \in [Area -> Seq(RangeId)]
    /\ ashmem_lru_list \in Seq(RangeId)
    /\ lru_count \in Nat
    /\ ashmem_mutex \in {"free", "dead"}
    /\ told \in BOOLEAN /\ oom \in BOOLEAN
    /\ lost \in [Area -> SUBSET Page]

(***************************************************************************)
(* Every range in use is on the list of one area, the lists are sorted and *)
(* their ranges do not overlap, which the short cuts of the walks rely on; *)
(* the LRU list has exactly the ranges that are not purged, once each, and *)
(* lru_count is the number of their pages.                                 *)
(***************************************************************************)
ListsConsistent ==
    /\ \A a \in Area : NoDup(unpinned_list[a])
    /\ \A a, b \in Area : \A n \in RangeId :
         OnList(unpinned_list[a], n) /\ OnList(unpinned_list[b], n) => a = b
    /\ \A n \in RangeId : range[n] # NULL <=> \E a \in Area : OnList(unpinned_list[a], n)
    /\ \A a \in Area : \A i, j \in DOMAIN unpinned_list[a] :
         i < j => range[unpinned_list[a][i]].pgstart > range[unpinned_list[a][j]].pgend
    /\ NoDup(ashmem_lru_list)
    /\ \A n \in RangeId : OnList(ashmem_lru_list, n) <=> range[n] # NULL /\ ~range[n].purged
    /\ lru_count = LruPages(range, RangeId \ Free)

UnpinnedPages == [a \in Area |-> UNION {Pages(range[n]) : n \in ToSet(unpinned_list[a])}]

(***************************************************************************)
(* The lists of ranges keep the promise of AshmemPages: pinned pages are   *)
(* never purged, and a pin says so when a page it asks for was purged,     *)
(* however the ranges were split and merged in between.                    *)
(***************************************************************************)
AreaPages == INSTANCE AshmemPages WITH unpinned <- UnpinnedPages

ImplementsPages == AreaPages!Spec

(* Some page from s to e of area a is unpinned. *)
AnyUnpinned(a, s, e) == (s .. e) \cap UnpinnedPages[a] # {}

(***************************************************************************)
(* ashmem_get_pin_status() finds every unpinned page, although its walk    *)
(* stops at the first range before the request.                            *)
(***************************************************************************)
UnpinnedFound ==
    \A a \in Area : file[a] # NULL =>
      \A s \in 0 .. size[a] - 1 : \A e \in s .. size[a] - 1 :
        AnyUnpinned(a, s, e) => IsUnpinned(a, s, e)

(***************************************************************************)
(* What ashmem.c:559-561 says: the answer is ASHMEM_IS_UNPINNED if any     *)
(* page of the interval is unpinned, and ASHMEM_IS_PINNED otherwise.       *)
(***************************************************************************)
PinStatus ==
    \A a \in Area : file[a] # NULL =>
      \A s \in 0 .. size[a] - 1 : \A e \in s .. size[a] - 1 :
        IsUnpinned(a, s, e) <=> AnyUnpinned(a, s, e)

(***************************************************************************)
(* What ashmem.c says of its shrinker: it does not proceed at the risk of  *)
(* a deadlock.                                                             *)
(***************************************************************************)
NoSelfDeadlock == ashmem_mutex # "dead"
=============================================================================
