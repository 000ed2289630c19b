--------------------------------- MODULE Api --------------------------------
(***************************************************************************)
(* The public functions and the malloc override at work, in several        *)
(* threads: large allocations with their header, counters and registration *)
(* step by step over OsLayer, calloc, realloc and free over small and      *)
(* large blocks, and pointers of other allocators in the same process.     *)
(* Small blocks come from one segment that stays mapped; how the thread    *)
(* heaps serve them is in ThreadHeap, the registry's table in              *)
(* RegionRegistry.  Which sizes and alignments are served is in Layout.    *)
(***************************************************************************)
EXTENDS OsLayer

CONSTANTS
  LargeSize,               \* sizes requested beyond SMALL_SIZE_MAX
  MaxLarge,                \* bound on large blocks, handed out and under way
  MaxForeign               \* bound on pages others map

ASSUME ApiAssumption ==
  /\ LargeSize \subseteq SMALL_SIZE_MAX + 1 .. WORD - 1
  /\ MaxLarge \in Nat /\ MaxForeign \in Nat

VARIABLES
  live,                    \* the application's blocks and what they hold
  used,                    \* small blocks handed out by the heap
  registry,                \* the bases region_owns knows
  large_count, large_bytes

apiVars == <<live, used, registry, large_count, large_bytes>>

vars == <<osVars, th, apiVars>>

\* The small segment and its blocks, of the one size class.
SmallSegment == SEGMENT_SIZE

SmallBlock ==
  {block_at(SmallSegment, FIRST_USABLE_PAGE, SMALL_SIZE_MAX, k) :
     k \in 0 .. capacity(SMALL_SIZE_MAX) - 1}

Size == LargeSize \cup {SMALL_SIZE_MAX}

\* A block: where it is, the size asked for and what is in it.
Obj(p, size, val) == [p |-> p, size |-> size, val |-> val]

\* What thread t writes into a block it got uninitialised.
Data(t) == [kind |-> "data", by |-> t]

Idle == [pc |-> "idle", ret |-> "idle", base |-> 0, size |-> 0, n |-> 0, now |-> 0, prev |-> 0,
         op |-> "none", want |-> 0, old |-> Obj(0, 0, Zero), give |-> {}]

Init ==
  /\ own = Pages(SmallSegment, SEGMENT_SIZE) /\ foreign = {}
  /\ mem = [p \in Address |-> IF p = SmallSegment THEN [kind |-> "Small"] ELSE Zero]
  /\ bytes_mapped = SEGMENT_SIZE /\ peak_mapped = 2 * SEGMENT_SIZE /\ high = peak_mapped
  /\ th = [t \in Thread |-> Idle]
  /\ live = {} /\ used = {} /\ registry = {SmallSegment}
  /\ large_count = 0 /\ large_bytes = 0

-----------------------------------------------------------------------------

kind_of(p) == mem[region_base(p)].kind

hm_usable_size(p) ==
  LET h == mem[region_base(p)]
  IN IF h.kind = "Large" THEN h.mmap_size - h.offset ELSE SMALL_SIZE_MAX

\* The override's test, of a pointer's window of SEGMENT_SIZE bytes.
ours(p) == region_base(p) \in registry

\* Faulty: a recycled small block is not cleared.
Written_Dirty(t, l, p) ==
  CASE l.op = "malloc" -> Data(t)
    [] l.op = "calloc" -> mem[p]
    [] l.op = "realloc" -> mem[l.old.p]

\* What is in the new block at p when the caller gets it.  After malloc the
\* application writes; a small calloc is cleared, a large one left as mapped;
\* realloc copies.
Written(t, l, p) ==
  CASE l.op = "malloc" -> Data(t)
    [] l.op = "calloc" -> IF p \in SmallBlock THEN Zero ELSE mem[p]
    [] l.op = "realloc" -> mem[l.old.p]

\* What the caller may expect there.
Expected(t, l) ==
  CASE l.op = "malloc" -> Data(t) [] l.op = "calloc" -> Zero [] l.op = "realloc" -> l.old.val

\* Faulty: realloc returns without freeing the old block.
Got_Leaks(t, l, p) ==
  /\ live' = (live \ {l.old}) \cup {Obj(p, l.want, Expected(t, l))}
  /\ th' = [th EXCEPT ![t] = Idle]

\* The allocation has succeeded: malloc and calloc return, realloc goes on to
\* free the old block.
Got(t, l, p) ==
  LET new == Obj(p, l.want, Expected(t, l)) IN
  IF l.op = "realloc"
    THEN /\ live' = live \ {l.old}
         /\ th' = [th EXCEPT ![t] = [Idle EXCEPT !.pc = "free", !.old = l.old, !.give = {new}]]
    ELSE /\ live' = live \cup {new}
         /\ th' = [th EXCEPT ![t] = Idle]

\* hm_malloc on behalf of the call l.  A heap without a free block, and sizes
\* that overflow, return NULL and change nothing.
Allocate(t, l) ==
  \/ /\ l.want <= SMALL_SIZE_MAX
     /\ \E p \in SmallBlock \ used :
          /\ used' = used \cup {p}
          /\ mem' = [mem EXCEPT ![p] = Written(t, l, p)]
          /\ Got(t, l, p)
     /\ UNCHANGED <<own, foreign, bytes_mapped, peak_mapped, high, registry, large_count, large_bytes>>
  \/ /\ l.want > SMALL_SIZE_MAX /\ large_accepts(l.want, ALLOC_ALIGN)
     /\ os_alloc_aligned(t, large_mmap_size(l.want, ALLOC_ALIGN), [l EXCEPT !.ret = "header"])
     /\ UNCHANGED apiVars

\* alloc_large, from the return of os_alloc_aligned on: the header and the two
\* counters, which no step reads (out of memory: NULL, and a block being
\* resized stays).
Header(t) ==
  LET l == th[t] IN
  /\ l.pc = "header"
  /\ IF l.base = 0
       THEN th' = [th EXCEPT ![t] = Idle] /\ UNCHANGED <<mem, large_count, large_bytes>>
       ELSE /\ mem' = [mem EXCEPT ![l.base] = [kind |-> "Large", mmap_size |-> l.size,
                                               offset |-> large_offset(ALLOC_ALIGN)]]
            /\ large_count' = add(large_count, 1)
            /\ large_bytes' = add(large_bytes, l.size)
            /\ th' = [th EXCEPT ![t].pc = "register"]
  /\ UNCHANGED <<own, foreign, bytes_mapped, peak_mapped, high, live, used, registry>>

Register(t) ==
  LET l == th[t]
      p == l.base + large_offset(ALLOC_ALIGN)
  IN
  /\ l.pc = "register"
  /\ registry' = registry \cup {l.base}
  /\ mem' = [mem EXCEPT ![p] = Written(t, l, p)]
  /\ Got(t, l, p)
  /\ UNCHANGED <<own, foreign, bytes_mapped, peak_mapped, high, used, large_count, large_bytes>>

-----------------------------------------------------------------------------

\* hm_free of th[t].old.p up to region_unregister, or to the end.
hm_free(t) ==
  LET p == th[t].old.p IN
  /\ th[t].pc = "free"
  /\ IF kind_of(p) = "Large"
       THEN /\ large_count' = sub(large_count, 1)
            /\ large_bytes' = sub(large_bytes, mem[region_base(p)].mmap_size)
            /\ th' = [th EXCEPT ![t].pc = "unregister", ![t].base = region_base(p),
                                ![t].size = mem[region_base(p)].mmap_size]
            /\ UNCHANGED <<live, used>>
       ELSE /\ used' = used \ {p} /\ live' = live \cup th[t].give
            /\ th' = [th EXCEPT ![t] = Idle]
            /\ UNCHANGED <<large_count, large_bytes>>
  /\ UNCHANGED <<osVars, registry>>

\* Faulty: the region is unmapped first.
Unregister_Late(t) ==
  \/ /\ th[t].pc = "unregister"
     /\ munmap(th[t].base, th[t].size)
     /\ th' = [th EXCEPT ![t].pc = "munmapped"]
     /\ UNCHANGED <<bytes_mapped, peak_mapped, high, apiVars>>
  \/ /\ th[t].pc = "munmapped"
     /\ registry' = registry \ {th[t].base}
     /\ th' = [th EXCEPT ![t].pc = "sub", ![t].n = th[t].size, ![t].ret = "return"]
     /\ UNCHANGED <<osVars, live, used, large_count, large_bytes>>

Unregister(t) ==
  /\ th[t].pc = "unregister"
  /\ registry' = registry \ {th[t].base}
  /\ th' = [th EXCEPT ![t].pc = "munmap", ![t].ret = "return"]
  /\ UNCHANGED <<osVars, live, used, large_count, large_bytes>>

FreeRegion(t) ==
  /\ th[t].pc = "munmap"
  /\ os_free(t, th[t].base, th[t].size)
  /\ UNCHANGED apiVars

Return(t) ==
  /\ th[t].pc = "return"
  /\ live' = live \cup th[t].give
  /\ th' = [th EXCEPT ![t] = Idle]
  /\ UNCHANGED <<osVars, used, registry, large_count, large_bytes>>

Step(t) ==
  \/ OsStep(t) /\ UNCHANGED apiVars
  \/ Header(t) \/ Register(t)
  \/ hm_free(t) \/ Unregister(t) \/ FreeRegion(t) \/ Return(t)

-----------------------------------------------------------------------------
(* The application calls; it does not touch a block another call works on. *)

Busy == {th[t].old : t \in Thread}

LargeBlocks == {o \in live : o.p \notin SmallBlock}

\* The call l of an idle thread, within the bound on large blocks.
Begin(t, l) ==
  /\ th[t].pc = "idle"
  /\ l.want > SMALL_SIZE_MAX =>
       Cardinality(LargeBlocks) + Cardinality({u \in Thread : th[u].want > SMALL_SIZE_MAX}) < MaxLarge
  /\ Allocate(t, l)

Malloc(t, n) == Begin(t, [Idle EXCEPT !.op = "malloc", !.want = n])

Calloc(t, n) == Begin(t, [Idle EXCEPT !.op = "calloc", !.want = n])

\* checked_realloc.  What the real realloc would do with a block that is not
\* recognised is not modelled: see OursIsExact.
Realloc(t, o, n) ==
  /\ ours(o.p)
  /\ IF realloc_keeps(hm_usable_size(o.p), n)
       THEN /\ th[t].pc = "idle"
            /\ live' = (live \ {o}) \cup {[o EXCEPT !.size = n]}
            /\ UNCHANGED <<osVars, th, used, registry, large_count, large_bytes>>
       ELSE Begin(t, [Idle EXCEPT !.op = "realloc", !.want = n, !.old = o])

\* checked_free, likewise.
Free(t, o) ==
  /\ th[t].pc = "idle" /\ ours(o.p)
  /\ live' = live \ {o}
  /\ th' = [th EXCEPT ![t] = [Idle EXCEPT !.pc = "free", !.old = o]]
  /\ UNCHANGED <<osVars, used, registry, large_count, large_bytes>>

Call(t) ==
  \/ \E n \in Size : Malloc(t, n) \/ Calloc(t, n)
  \/ \E o \in live \ Busy : Free(t, o) \/ \E n \in Size : Realloc(t, o, n)

\* A block of another allocator: it comes, and goes through checked_free.
Foreign ==
  /\ \/ Cardinality(foreign) < MaxForeign /\ ForeignMap
     \/ \E a \in foreign : ~ours(a) /\ ForeignUnmap(a)
  /\ UNCHANGED <<own, mem, bytes_mapped, peak_mapped, high, th, apiVars>>

Next == Foreign \/ \E t \in Thread : Call(t) \/ Step(t)

Spec == Init /\ [][Next]_vars

-----------------------------------------------------------------------------

\* The bytes of a block that the application may use.
Bytes(o) == o.p .. o.p + o.size - 1

\* The region of a large block, from its header.
RegionPages(o) == Pages(region_base(o.p), mem[region_base(o.p)].mmap_size)

\* Whatever other threads allocate, resize, trim and unmap, and whether or not
\* a call fails half way: every block the application holds is mapped, apart
\* from all others, still has its header, and holds what was put there;
\* calloc's zeroes and what realloc had to carry over included.
LiveIntact ==
  /\ \A o \in live :
       /\ mem[o.p] = o.val
       /\ Pages(o.p, o.size) \subseteq own
       /\ kind_of(o.p) = IF o.p \in SmallBlock THEN "Small" ELSE "Large"
       /\ hm_usable_size(o.p) >= o.size
  /\ \A o, q \in live : o # q => Bytes(o) \cap Bytes(q) = {}

\* The override recognises every block the application holds, and takes no
\* pointer for its own whose window starts with somebody else's memory:
\* registration follows mapping, and unregistration precedes unmapping, also
\* when the kernel hands the same address to another thread at once.
OursWhileLive ==
  /\ \A o \in live : ours(o.p)
  /\ registry \subseteq own

\* What hm_stats reads.  Only a snapshot at a quiet point is promised.
hm_stats ==
  [bytes_reserved |-> bytes_mapped, peak_bytes_reserved |-> peak_mapped,
   large_allocations |-> large_count, large_bytes |-> large_bytes]

\* Nothing leaks and nothing is left over: between calls, the mapped pages are
\* those of the small segment and of the large blocks handed out, without the
\* slop of their over-sized mappings, and the heap's blocks are those the
\* application holds, failed reallocations included.  hm_stats says so too: no
\* interleaving of the counters' updates loses one.
QuietExact ==
  (\A t \in Thread : th[t].pc = "idle") =>
    LET regions == UNION {RegionPages(o) : o \in LargeBlocks} IN
    /\ own = Pages(SmallSegment, SEGMENT_SIZE) \cup regions
    /\ used = {o.p : o \in live} \cap SmallBlock
    /\ hm_stats.bytes_reserved = Cardinality(own) * PS
    /\ hm_stats.peak_bytes_reserved >= hm_stats.bytes_reserved
    /\ hm_stats.large_allocations = Cardinality(LargeBlocks)
    /\ hm_stats.large_bytes = PS * Cardinality(regions)

\* bytes_mapped at any moment, in calls or between them: the bytes mapped,
\* except that a region being made is added late, with its slop, and one being
\* given back is subtracted late.  So it never drops below zero.
BytesAccounted ==
  LET lag(t) ==      \* counted and no longer mapped
        CASE th[t].pc \in {"load", "cas"} -> SEGMENT_SIZE
          [] th[t].pc = "sub" -> th[t].n
          [] OTHER -> 0
      lead(t) ==     \* mapped and not yet counted
        CASE th[t].pc = "head" -> over(th[t].size, SEGMENT_SIZE)
          [] th[t].pc = "tail" -> over(th[t].size, SEGMENT_SIZE) - head(th[t].base, SEGMENT_SIZE)
          [] th[t].pc = "add" -> th[t].size
          [] OTHER -> 0
  IN bytes_mapped + MapThenSumSet(lead, Thread)
       = Cardinality(own) * PS + MapThenSumSet(lag, Thread)

\* Trimming and freeing unmap the allocator's own memory: pages of others,
\* which may come to lie in the gaps between two steps of a call, are never
\* unmapped by a step of a thread inside a call.
ForeignUntouched == [][th' # th => foreign \subseteq foreign']_vars

\* override.cpp: "Is this a pointer hmalloc handed out?"
OursIsExact == (\A o \in live : ours(o.p)) /\ (\A a \in foreign : ~ours(a))

=============================================================================
