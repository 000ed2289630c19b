# hmalloc in TLA+

A model of hmalloc, a multi-threaded `malloc`. It covers how blocks, pages and
segments move between threads, what is checked about that, and what is proved.
Paths are relative to the repository (`src/heap.cpp` is the allocator's
`heap.cpp`).

## The system

| Part | Code | What it does | Here |
|---|---|---|---|
| page free lists | `segment.h`, `heap.h`, `heap.cpp` | blocks of one size; an owner-only list and an atomic list that other threads push onto, both threaded through the blocks | `PageSpec`, `Page` |
| thread heap | `heap.h`, `heap.cpp` | one list of pages per size class, fast and slow malloc, local and remote free, thread exit | `ThreadHeap` |
| central heap | `central.cpp` | under one mutex: segments, their pools of pages, abandoned pages of exited threads, mapping and unmapping | `Central`, `CentralClients` |
| region registry | `region_registry.cpp` | hash set of mapped bases, under its own mutex | `RegionRegistry` |
| size classes | `size_class.h`, `constants.h` | size to class and back | `Layout` |
| geometry | `segment.h` | address to region, segment and page by masking | `Geometry` |
| large allocations | `hmalloc.cpp` | a mapping per allocation, its header at the base | `Geometry`, `Layout`, `Api` |
| public API | `hmalloc.cpp` | malloc, calloc, realloc, aligned_alloc, usable_size, free | `Layout`, `Api`; its small path is in `ThreadHeap` |
| operating system layer | `os.cpp` | aligned mapping with trimming, atomic accounting | `OsLayer` |
| override | `override.cpp` | routing of own and foreign pointers, the `malloc` family and operator new | `Api`, `Layout` |
| statistics | `hm_stats` and the counters it reads | sums over four parts without a common lock | `Api`, `Central`, in part |
| tests, benchmark | `tests/`, `bench/` | clients | read, not modelled |

How they interact. `malloc` pops from the head page of a class. When that page
has nothing, the slow path walks the class list; for each page it collects the
cross-thread list or carves more blocks. When no page has a block it takes one
from the central heap, which may first sweep the abandoned pages and, failing
that, map a segment and register it. `free` by the owner is unsynchronised. `free`
by anyone else is a compare-and-swap on the page's cross-thread list, whatever
becomes of the owner meanwhile. A page emptied by a local free goes back to the
pool unless it is the head of its class. A thread that exits collects each of
its pages and releases or abandons it. A segment with no page in use is unmapped
when more than `SEGMENT_CACHE` such segments exist.

A request above `SMALL_SIZE_MAX`, or one whose alignment no size class offers,
gets a mapping of its own: over-sized by one alignment, trimmed in front and
behind, with a header at its base that masking the user's pointer finds again,
and an entry in the region registry. `free` and `realloc` tell small from large
by the tag at the base. Under the override they first ask the registry whether
that base is the allocator's at all, and pass other pointers on.

## Modules

**`PageSpec`** is what a page promises, without pointers: each block has a
place (`bump`, `local`, `live`, `pushing`, `remote`), and `used` is the number
that decides when the page may be recycled. `PageSpecProofs` proves its properties.

**`Page`** is the same page with its pointers. `next` is the first word of each
block, which the application overwrites as it likes while it holds the block
(`JUNK`). A step touches at most one word that another thread may write.
`Exchange`, `Walk` and `Splice` are `page_collect` (and `collect_locked`, which
is the same code); `RemoteLoad`, `RemoteCas` and `RemoteRetry` are
`heap_free_remote`. The rest of the heap is a nondeterministic environment.
`ImplementsPromise` is the refinement of `PageSpec`: a detached list counts as
local from the exchange on, so the mapping subtracts it from `used`.
`PageProofs` has the invariant of `Page`, `PageTheorems` what follows from it.

**`Links`** defines what is found by following links from element to element, for
`Page` and `Central`. `LinkProofs` is about that.

**`Central`** has the central heap's data (record `mem`) and its functions as
operators from state to state, with every link explicit, because `Page::next`
serves three lists in turn. **`CentralClients`** runs them under the most
general callers; **`ThreadHeap`** runs them under the real ones. In
`CentralClients`, `due` is not in the code: it records which abandoned pages had all
their blocks freed when the sweep that is running began, so that
`GrowsOnlyWhenFull` can say that the sweep finds each of them, whatever list it
walks and whatever is freed meanwhile.

**`ThreadHeap`** composes heaps, pages and the central heap. A page's lists are
their lengths, as `Page` deals with the lists. The class lists are explicit. A
thread's step ends where it next touches what another thread may write. The
exit of a thread is five steps (collect, hand back, unregister, unmap, detach),
and others may act between any two, for instance by mapping a new heap at the
old address. `LateCalls` lets thread-local destructors call `malloc` and `free`
after `HeapGuard` has run. `HeapMayFail` lets the mapping of a heap fail.

**`RegionRegistry`** is the table, slot by slot: probing, tombstones, growth and
same-size rehash. Its operations are atomic since each holds the lock throughout.
The hash of each base is chosen arbitrarily at the start, so that nothing
depends on how well the multiplication mixes. A probe that would not end has no
step; `ProbesEnd` says when there is none. The operating system may refuse any
table.

**`Geometry`** has the arithmetic on addresses and sizes, at the width of a
machine word: masking, where blocks lie, the sizes `alloc_large` computes and
accepts, what `os_alloc_aligned` maps and cuts off. All constants are parameters.

**`Layout`** has what the public functions decide from sizes and alignments
alone: the class table and its reverse lookup, small or large, in place or
moved, served or refused, including `posix_memalign`, `valloc` and operator new.
Sums and `calloc`'s product wrap at the word, so a missing overflow test shows as a
block that is too small for what was asked.
One allocation is made, resized any number of times, and freed. `lookup(i)` is
stated without the running index of the loop that fills the table: the index
never moves back and the buckets grow, so each search may start at 0.

**`OsLayer`** is the operating system layer over an address space of OS pages,
some of them mapped by others: the mapping, the two trims, and each of the
atomic operations of `account_map` and `account_unmap` are steps of their own.
`high` is not in the code; it records the largest value `bytes_mapped` ever had.

**`Api`** composes it with the public functions and the override, in several
threads. `alloc_large` is mapping, header and counters, registration;
`free_large` is counters, unregistration, unmapping. Memory may run out at any
mapping. `mem` is what memory holds: headers at region bases, and the first byte
of each block for what the application put there, so that `calloc`'s zeroes and
`realloc`'s copy can be checked. `live` has the application's blocks. Small
blocks come from one segment that stays mapped. Other code of the process maps
pages wherever there is room, and frees them through the override.

The `MC*` modules only give constants and symmetry sets. A definition whose
comment begins with "Faulty" is a plausible mistake in the definition that
follows; it is used nowhere in the specifications. `PROJECT.json` names, for
each checked property, the faulty version that breaks it.

## Runs

| Run | Instance | Shows |
|---|---|---|
| `page_promise` | 4 blocks | `used` is exact, a pooled page is idle, no step takes a live block away |
| `page_lists` | 3 threads, 3 blocks, batches of 2 | lists end and hold only free blocks, each block is in one place, `used` counts what is outstanding, the private fields have one writer at a time, `Page` implements `PageSpec` |
| `page_progress` | 3 threads, 2 blocks | a collection ends while others free; remote frees are lock-free |
| `central_heap` | 2 threads, 2 segments of 2 pages | each page in one list, exact counters, sound segment lists, idle segments bounded, registered = mapped, pages with live blocks stay; a call maps a segment, or fails, only if no abandoned page had all its blocks freed when its sweep began; the lock is released |
| `heap_classes` | 2 threads, 2 classes, 2 pages | the whole small path: exact counts, no premature recycling, sound class lists, central heap sound; every call returns, unless other threads keep taking the central lock |
| `heap_rotation` | 2 threads, 1 class, 3 pages | the class lists where rotation and removal happen in the middle; the sweep's cursor stays valid while the sweep returns pages and unmaps segments; no heap is shared although addresses are reused; memory stays safe with calls after the guard and with heaps that cannot be mapped |
| `registry` | 5 bases, tables of 4, 8 and 16 | exact answers and counts, refused growth included; probes end unless growth was refused |
| `layout` | the code's constants, a word of 29 bits | every small size, and the edges of all others at every alignment: blocks hold the request, are aligned and lead back to page and segment or to the header; bounded waste; nothing refused that could be served |
| `api` | 2 threads, 6 segments of address space, 2 large blocks, 1 foreign page | live blocks are mapped, disjoint and keep their contents; the override knows them; nothing leaks, failed `realloc` included; exact statistics at quiet points; exact peak; no step unmaps memory of others |

Three runs state what the repository says and are violated; `PROJECT.json` has
the quotations.

| Run | What happens |
|---|---|
| `heap_late_leak` | `malloc` after the thread's guard has run makes a heap that nothing destroys; its pages keep an owner that is gone. |
| `heap_create_fails` | `heap_malloc` reads `h->pages[c]` before anyone tests `h` for null. |
| `override_window` | `ours` answers for a whole 4 MiB window. The part behind a trimmed large region may be another allocator's, and a block there is taken for hmalloc's own. |

Four more observations, made while modelling, that no run is kept for:

- A page emptied by another thread's free is not returned, although DESIGN.md
  says that a fully free page is; it stays in the class list until its owner
  walks there or exits.
- A region registered when the registry's first table cannot be mapped is not
  recorded (`dropped` in `RegionRegistry`). After refused growth of a later
  table the registry goes on inserting, up to the last empty slot; the next lookup of an
  absent base then does not end. `ProbesEnd` is stated with the premise that
  the growth wanted last was granted, and fails without it.
- `os.h` describes `unmap_calls` as the number of `os_free` calls; the trims of
  `os_alloc_aligned` are counted too.
- `scenario_scaling` in `bench/bench.cpp` steps the thread count by doubling
  and goes back to half the cores when it would pass them; with 3 cores it
  stays at 2 for ever.

### Bounds

- `Page`: two threads can contend for the compare-and-swap while a third
  collects, exits or sweeps. Three blocks give a cross-thread list with a middle
  and a batch that is cut short by the capacity.
- `Central`: two segments of two pages give partly used segments, an avail
  list whose head and tail differ, an abandoned list of up to four pages across
  segments, and more idle segments than the one that `SEGMENT_CACHE` lets stay,
  as in the code. Blocks per page are one, since the lists depend on `used`
  being zero or not. A sweep that unmaps a segment while its cursor is inside a page
  needs three segments; that case is in `heap_rotation`, which has three of
  one page. Three segments of two pages (6.6 million states) also
  satisfy the invariants; that takes 18 minutes and is not kept as a run.
- `Layout`: a word of 2^29 instead of 2^64, since TLC's integers have 32 bits.
  The other constants are the code's. What depends on the width is proved for
  every width.
- `Api`: segments of two OS pages, so that a mapping can start at either and be
  trimmed in front, behind or both; the one small block is a page, and a large
  region a segment and a half, so it reaches into a second window. Two large
  blocks fit into the six segments next to each other or apart, with a foreign
  page before, between or behind them. There is one large size, so `realloc` from
  large to large happens only in place. `override_window` uses larger segments,
  so that a window has a rest.
- `ThreadHeap`: a class list of three is the least with a middle. Two classes
  are needed for pages that change class, and pages of two blocks for frees that
  do not empty them. Three pages of two blocks (7.7 million states) also satisfy
  the invariants of `heap_rotation`, in 16 minutes. Heap addresses are as many as
  threads, so that addresses are reused. With late calls and failing heaps the
  system may stop (all heaps leaked, or a thread faulted), so `heap_rotation` does
  not check for deadlock; `heap_classes` does. The pages of `heap_classes` are
  carved at once; carving in batches is in `Page`.
- `RegionRegistry`: the first table has 4 slots instead of 1024. Five bases
  with hash values 0, 1, 2 and 7 reach every slot of it, collide, wrap around,
  fill it with tombstones, and make it double twice and rehash in place.
- Symmetry is used for safety only: over threads, segments, heap addresses and
  bases, none of which the code orders.

### Fairness

Weak fairness is assumed of the steps of a call that has begun, so a running
thread is scheduled; never of the application's calls. Of the central lock only
this is assumed: a thread gets it if it stays free. `std::mutex` promises no more, so `CallsReturn` is
conditional: a call returns unless other threads hold the lock again and again.
`LockReleased` needs no such condition, because a sweep visits a finite list to
which nobody can add while it runs. The loop that raises the peak needs no
fairness: `PeakLoopAdvances` says that each lost exchange brings a larger `prev`.

## Proofs

Each proof module holds for all values of the constants that the assumption of
the component's module admits. The assumptions are what the code gives:
positive sizes; a word of some number of bits; markers (`NULL`, `ABANDONED`, `EMPTY`, `TOMB`) that are none of
the things they stand beside; for `Geometry`, that page and segment sizes divide
each other and the word, that the header fits half a segment, and that powers of
two divide the larger ones; for `RegionRegistry`, a first table of at least two
slots (the code has 1024). No set of threads, bases or heap addresses is
assumed finite.

| Module | Theorem | What it shows for all constants |
|---|---|---|
| `PageSpecProofs` | `UsedIsExact`, `PoolHoldsIdlePages`, `LiveIsSafe`, `TypeCorrect` | what `PageSpec` promises |
| `PageProofs` | `PageInvariant` | `PInv`, the inductive invariant of `Page` |
| `PageTheorems` | `PageListsTerminate`, `PageBlocksPartitioned`, `PageOwnerPrivate`, `PageTypes` | the properties of run `page_lists` |
| `PageTheorems` | `PageImplementsPromise` | `Page` refines `PageSpec` |
| `RegistryProofs` | `RegistryOwnsExactly`, `RegistryProbesEnd`, `RegistryCountsExact` | all properties of run `registry` |
| `HeapProofs` | `HeapsNeverShared` | `HeapsDistinct` of run `heap_rotation` |
| `LayoutProofs` | `LargeAlwaysRecoverable`, `RefusalsJustified`, `LargeWaste` | `LargeRecoverable`, `RefusedOnlyIfImpossible`, the large half of `WasteBounded` |
| `LayoutProofs` | `LargeSound`, `BlockInPage`, `TrimExact` | the arithmetic of `alloc_large`, of a page's blocks and of the trims |
| `OsProofs` | `PeakExact`, `PeakLoopEnds` | `PeakIsHighWater`, `PeakLoopAdvances` |

**Lists.** `Links` defines what following links finds (`Follow`, a recursive
function of the number of links), and the properties are stated with it.
`Chain(f, x, z, S)` says that the links `f` lead from `x` through each element
of `S` once to `z`. The lemmas of `LinkProofs` show how pushing, popping, splicing, carving a
run and unrelated writes change `S`, and (`ChainFollow`) that `Follow` finds
exactly `S`. So the proofs about pages handle sets, never positions. Induction is
done with sets: a set of numbers has a least element (`LeastElement`), so one
that is closed under successor has them all (`Induction`).

**A page by itself (`PageSpecProofs`).** The inductive invariant is `IInv`:
types, exact count and idle pool together. The idle pool is not inductive
without the exact count, because recycling tests only `used = 0`. `LiveIsSafe`
needs the idle pool in turn: acquiring a page from the pool carves it afresh,
whatever was in it. Each action adds one block to, or takes one block or a whole
set from, the outstanding ones; lemmas `OneMore`, `OneLess` and `UsedZero` turn
that into arithmetic.

**The page with its pointers.** None of the properties of `Page` is inductive.
`PInv` has four parts:

- `TypeOK`;
- `LocalsOK`: what a thread's local variables mean at each position, in
  particular that before a compare-and-swap the block links to the head the
  thread has read, and that no two threads hold the same block;
- `ChargeOK`: `owner` and the list the page is on agree, and a thread that works
  on the private fields is the owner or holds the central lock while the page is
  abandoned. Two such threads are one (`OneWorker`);
- `ListsOK`: there are sets of local, cross-thread and detached blocks, each the
  `Chain` of its pointer, disjoint, which with the blocks in flight and the live
  ones make up the carved blocks; `used` is the number of all but the local
  ones. A collecting thread has walked over part of the detached set and its tail
  links to the rest (`Walked`).

There is a lemma per action. Besides preservation it says which set step the
action is: one of the ten kinds of `SetStep` (a block is served, blocks are
carved, a list is detached, joined, and so on). From there the refinement no
longer looks at pointers. `Mapping` says where the sets put a block in
`PageSpec`, and `PromisedStep` turns each kind into a step of `PageSpec` or a
stutter. `JUNK`, what the application writes into its blocks, may be anything,
even a block or `NULL`: the theorems say that no such word is ever followed.

**The registry.** A table `Holds` a set of bases if no base is in two slots and
the probe of each base of the set gets to its slot over slots that are not
empty. The inductive invariant `RInv` says that the table holds exactly the
recorded bases, that `size` and `tombs` count bases and tombstones, and that
unless the last wanted growth was refused there is an empty slot. Writing over the
first tombstone keeps this (`PutHolds`), a tombstone in place of a base
(`BuryHolds`), and the loop of `rehash` by induction over the old slots
(`CopyStep`, `RehashHolds`; `FillingExists` shows that the recursive function
that stands for the loop exists). `RoomLeft` gives the empty slot by counting, which
is where the load factor and `InitialCap >= 2` come in; `ProbeCovers` shows that a
probe visits every slot before it repeats, whatever the hash.

**Heaps.** `HeapsDistinct` does not say where the heap of a thread is that
destroys it. `HeapInv` adds this: registered up to `Unregister`, then mapped up to
`UnmapHeap`; only from there to `Detach` may another thread get the address.

**Layout.** The step is arithmetic, from uniqueness of quotient and remainder.
`OffsetFacts`: rounding the header up keeps it in the first segment, as
alignments above half a segment are refused. `TotalFacts`: the two overflow tests
leave sums that have not wrapped and are less than a page too large.
`BaseFound`: masking. `CallocProduct`: `calloc`'s test passes only products that
have not wrapped. `LargeRefused`: conversely the tests pass unless there is
no room; `OneFits` shows that the one byte into which `posix_memalign` and operator new
turn an empty request always has room. The inductive invariant `LargeInv` adds the shape of
`obj` and that its size and offset are numbers, which `realloc` in place needs to
know of the block it keeps.

**The peak.** `PeakIsHighWater` is not inductive: a thread between its addition
and its exchange may be the one that knows the maximum. `PeakInv` says that the
peak is the maximum or that such a thread holds it, and that what a thread has
read of the peak is no more than the peak.

Only model-checked:

- all liveness (`CollectEnds`, `PushLockFree`, `LockReleased`, `CallsReturn`):
  fairness and `ENABLED` are beyond the prover;
- `CentralClients`, and of `ThreadHeap` everything but `HeapsDistinct`. Their
  lists are chains too, but one field threads a page through three of them, and
  the invariant that relates them is not written down yet;
- `Api` but for the peak;
- `BlocksRecoverable` and the small half of `WasteBounded`, which depend on the
  class table as the loops of `build_size_classes` make it for the code's constants.
  `BlockInPage` has the part that holds for every block size.

## Abstractions

- Memory orders: atomics are sequentially consistent here. The acquire
  exchange and release push carry the block's link word; the model has them
  as single steps.
- A weak compare-and-swap that fails spuriously changes nothing, so it is a
  stuttering step.
- A double free, or a free of a pointer not from `malloc`, is outside the contract.
- In `Page` blocks have no contents but their first word, and in `Api` none but
  the first byte. In `ThreadHeap` sizes appear as classes.
- In `Central` a segment's registration and mapping change in one step; `Api`
  takes the same two calls apart for large regions. The registry is a set there.
- The two counters of large allocations change in one step with the header, and
  with the start of `free_large`: no step reads them, and `hm_stats` is looked at
  between calls only.
- The registry's mutex, which is taken inside the central lock, is not a lock in
  any module: its functions call only the operating system layer, which has no
  lock, so it is always the last one taken.
- A thread's first `malloc` maps its heap and enters it into the registry of heaps
  in one step (`MallocFirst`): in between, only that thread knows the address.
- `large_waste` is the room behind the block; the offset in front of it, which
  an alignment may make up to half a segment, is not counted.
- A foreign page is one OS page and one block.

## Not modelled

- The page-aligned fast path of `os_alloc_aligned`, which the registry's
  table and the heaps use, the counters of calls, and `os_purge`, which has no caller.
- `dlsym` and the allocator it finds; the report at exit.
- The heaps' malloc counters (`HMALLOC_STATS`), which are sums of relaxed
  counters that only their thread writes.
- Tests and benchmark: clients, timing loops and printing.

## Plan

1. `CentralSpec`: the central heap by sets instead of links, refined by
   `CentralClients`, and its invariants proved.
2. `Api` over `ThreadHeap` instead of one small segment, and over the registry's
   table, so that refused growth reaches the override.
3. Proofs: the lists of `Central` with `Chain`, then `NoPrematureRecycle`;
   `BytesAccounted` and `LiveIntact` of `Api`.
