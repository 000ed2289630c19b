------------------------------- MODULE Layout -------------------------------
(***************************************************************************)
(* What the public functions, and the override's, decide from sizes alone: *)
(* size class, small or large, in place or moved, served or refused.  One  *)
(* allocation is made, resized any number of times and freed; where its    *)
(* memory lies follows from Geometry.  That it is there and nobody else's  *)
(* is the subject of ThreadHeap for small blocks and of Api for large ones *)
(***************************************************************************)
EXTENDS Geometry, Sequences, FiniteSetsExt

CONSTANTS
  MallocSize, CallocArg, AlignedArg, ReallocSize     \* the arguments tried

ASSUME LayoutAssumption ==
  /\ MallocSize \cup ReallocSize \subseteq 0 .. WORD - 1
  /\ CallocArg \cup AlignedArg \subseteq (0 .. WORD - 1) \X (0 .. WORD - 1)

VARIABLE obj               \* the allocation, or what a call was refused

vars == obj

-----------------------------------------------------------------------------
(* size_class.h *)

octave(k) == [i \in 1 .. 4 |-> 2 ^ k + i * (2 ^ k \div 4)]

\* build_size_classes, first half.
SizeTable ==
  LET dense == [i \in 1 .. 64 \div ALLOC_ALIGN |-> i * ALLOC_ALIGN]
      ks == {k \in 6 .. 29 : 2 ^ k < SMALL_SIZE_MAX}
      steps == [j \in 1 .. 4 * Cardinality(ks) |-> octave(6 + (j - 1) \div 4)[1 + ((j - 1) % 4)]]
  IN dense \o SelectSeq(steps, LAMBDA s : s <= SMALL_SIZE_MAX)

kNumSizeClasses == Len(SizeTable)

class_to_size(c) == SizeTable[c + 1]

LARGE_CLASS == WORD

\* Faulty: the bucket's number is off by one.
lookup_Early(i) ==
  Min({c \in 0 .. kNumSizeClasses - 1 : c + 1 = kNumSizeClasses \/ class_to_size(c) >= i * ALLOC_ALIGN})

\* The second half: cls moves on until it holds the last byte of bucket i.
\* Buckets grow and cls never moves back, so it may as well start at 0.
lookup(i) ==
  Min({c \in 0 .. kNumSizeClasses - 1 : c + 1 = kNumSizeClasses \/ class_to_size(c) >= (i + 1) * ALLOC_ALIGN})

size_class(n) ==
  IF n > SMALL_SIZE_MAX THEN LARGE_CLASS
  ELSE lookup(((IF n = 0 THEN 1 ELSE n) - 1) \div ALLOC_ALIGN)

-----------------------------------------------------------------------------
(* hmalloc.cpp *)

Null == [kind |-> "null"]

heap_malloc(n) == [kind |-> "small", class |-> size_class(n)]

\* alloc_large, with memory available.
alloc_large(size, align) ==
  LET mmap_size == large_mmap_size(size, align)
  IN IF large_accepts(size, align) /\ os_accepts(mmap_size, SEGMENT_SIZE)
       THEN [kind |-> "large", offset |-> large_offset(align), mmap_size |-> mmap_size]
       ELSE Null

hm_malloc(size) ==
  IF size = 0 THEN Null
  ELSE IF size <= SMALL_SIZE_MAX THEN heap_malloc(size)
  ELSE alloc_large(size, ALLOC_ALIGN)

\* Faulty: the product is not tested for overflow.
hm_calloc_Unchecked(nmemb, size) ==
  LET total == (nmemb * size) % WORD
  IN IF nmemb = 0 \/ size = 0 THEN Null
     ELSE IF total <= SMALL_SIZE_MAX THEN heap_malloc(total)
     ELSE alloc_large(total, ALLOC_ALIGN)

hm_calloc(nmemb, size) ==
  LET total == (nmemb * size) % WORD
  IN IF nmemb = 0 \/ size = 0 \/ nmemb > (WORD - 1) \div size THEN Null
     ELSE IF total <= SMALL_SIZE_MAX THEN heap_malloc(total)
     ELSE alloc_large(total, ALLOC_ALIGN)

hm_aligned_alloc(alignment, size) ==
  LET need == IF size > alignment THEN size ELSE alignment
      classes == {c \in size_class(need) .. kNumSizeClasses - 1 : class_to_size(c) % alignment = 0}
  IN IF size = 0 \/ alignment \notin Pow2 THEN Null
     ELSE IF alignment <= ALLOC_ALIGN THEN hm_malloc(size)
     ELSE IF need <= SMALL_SIZE_MAX /\ classes # {} THEN heap_malloc(class_to_size(Min(classes)))
     ELSE IF alignment > SEGMENT_SIZE \div 2 THEN Null
     ELSE alloc_large(size, alignment)

hm_usable_size(o) ==
  IF o.kind = "large" THEN o.mmap_size - o.offset ELSE class_to_size(o.class)

-----------------------------------------------------------------------------
(* override.cpp: the entry points that do more than pass their arguments on *)

sizeof_void_ptr == 8

EINVAL == [kind |-> "EINVAL"]

\* Faulty: an empty request is passed on.
nonzero_Not(size) == size

nonzero(size) == IF size # 0 THEN size ELSE 1

\* Null stands for ENOMEM.
do_posix_memalign(alignment, size) ==
  IF alignment < sizeof_void_ptr \/ alignment \notin Pow2 THEN EINVAL
  ELSE hm_aligned_alloc(alignment, nonzero(size))

do_valloc(size) == hm_aligned_alloc(PS, size)

\* operator new; Null stands for bad_alloc, or for the nothrow form's NULL.
operator_new(s) == hm_malloc(nonzero(s))

operator_new_aligned(s, a) == hm_aligned_alloc(a, nonzero(s))

-----------------------------------------------------------------------------
(* obj: what a call has returned, and what it was asked for, by which call *)

Result(got, call, want, align) == [got |-> got, call |-> call, want |-> want, align |-> align]

NoObj == Result([kind |-> "none"], "none", 0, ALLOC_ALIGN)

Init == obj = NoObj

Malloc(n) == obj' = Result(hm_malloc(n), "malloc", n, ALLOC_ALIGN)

Calloc(nmemb, n) ==
  obj' = Result(hm_calloc(nmemb, n), "malloc", nmemb * n, ALLOC_ALIGN)

AlignedAlloc(alignment, n) ==
  obj' = Result(hm_aligned_alloc(alignment, n), "aligned", n, alignment)

PosixMemalign(alignment, n) ==
  obj' = Result(do_posix_memalign(alignment, n), "posix", n, alignment)

Valloc(n) == obj' = Result(do_valloc(n), "aligned", n, PS)

New(n) == obj' = Result(operator_new(n), "new", n, ALLOC_ALIGN)

AlignedNew(n, a) == obj' = Result(operator_new_aligned(n, a), "new", n, a)

\* A refused resize leaves the block as it was.
Realloc(n) ==
  /\ obj.got.kind \in {"small", "large"} /\ n # 0
  /\ LET moved == hm_malloc(n)
     IN obj' = IF realloc_keeps(hm_usable_size(obj.got), n)
                 THEN [obj EXCEPT !.want = n, !.call = "realloc"]
               ELSE IF moved = Null THEN obj
               ELSE Result(moved, "malloc", n, ALLOC_ALIGN)

\* hm_free, and hm_realloc to size 0; also forgets a refusal.
Free == obj # NoObj /\ obj' = NoObj

Allocate ==
  \/ \E n \in MallocSize : Malloc(n)
  \/ \E a \in CallocArg : Calloc(a[1], a[2])
  \/ \E a \in AlignedArg :
       \/ AlignedAlloc(a[1], a[2]) \/ PosixMemalign(a[1], a[2]) \/ AlignedNew(a[2], a[1])
       \/ New(a[2]) \/ Valloc(a[2])

Next ==
  \/ obj = NoObj /\ Allocate
  \/ \E n \in ReallocSize : Realloc(n)
  \/ Free

Spec == Init /\ [][Next]_vars

-----------------------------------------------------------------------------

\* What is served from a size class lies well: whichever block of whichever
\* page of whichever segment it is, it holds what was asked for, is aligned as
\* asked, stays inside its page, and masking its address gives back that page
\* and segment, never the header page.  What calloc was asked for is the true
\* product, so that a product that wraps to a small number shows here.
BlocksRecoverable ==
  obj.got.kind = "small" =>
    LET b == hm_usable_size(obj.got) IN
    /\ b >= obj.want
    /\ \A s \in {SEGMENT_SIZE, WORD - SEGMENT_SIZE},
          i \in {FIRST_USABLE_PAGE, PAGES_PER_SEGMENT - 1}, k \in 0 .. capacity(b) - 1 :
         LET p == block_at(s, i, b, k) IN
         /\ p % obj.align = 0
         /\ \A q \in {p, p + b - 1} : region_base(q) = s /\ page_index_of(q) = i

\* The large block o serves a request for want bytes, aligned to align.
LargeServes(o, want, align) ==
  /\ o.mmap_size < WORD /\ o.mmap_size % PS = 0
  /\ LARGE_OFFSET <= o.offset /\ o.offset + want <= o.mmap_size
  /\ \A k \in {1, WORD \div SEGMENT_SIZE - 1} :
       /\ region_base(k * SEGMENT_SIZE + o.offset) = k * SEGMENT_SIZE
       /\ (k * SEGMENT_SIZE + o.offset) % align = 0

\* What is served by a mapping of its own lies well: no sum or product that
\* led to its size has wrapped, so it holds what was asked for behind the
\* header and inside the mapping, is aligned as asked, and masking its address
\* gives back the header, for multi-segment regions too.
LargeRecoverable ==
  obj.got.kind = "large" => LargeServes(obj.got, obj.want, obj.align)

\* Behind its offset, a large block wastes less than a page when fresh and,
\* once resized in place, no more than half of what is above SMALL_SIZE_MAX.
LargeWasteBounded ==
  obj.got.kind = "large" =>
    \/ hm_usable_size(obj.got) < nonzero(obj.want) + PS
    \/ obj.call = "realloc" /\ hm_usable_size(obj.got) <= Max({SMALL_SIZE_MAX, 2 * obj.want})

\* Rounding wastes little: a quarter and one alignment step for a fresh small
\* block (test_size_class.cpp), a page or half for large ones.
WasteBounded ==
  /\ obj.got.kind = "small" /\ obj.call = "malloc" =>
       hm_usable_size(obj.got) <= obj.want + obj.want \div 4 + ALLOC_ALIGN
  /\ LargeWasteBounded

\* With memory available, nothing is refused that could be served: only empty
\* requests (not by posix_memalign and operator new, which must not report
\* them as lack of memory), malformed or huge alignments, and sizes that leave
\* no room for the header and the alignment slop in the address space.
RefusedOnlyIfImpossible ==
  obj.got.kind \in {"null", "EINVAL"} =>
    \/ obj.want = 0 /\ obj.call \notin {"posix", "new"}
    \/ obj.align < sizeof_void_ptr /\ obj.got.kind = "EINVAL"
    \/ obj.align \notin Pow2 \/ obj.align > SEGMENT_SIZE \div 2
    \/ obj.want + large_offset(obj.align) + PS + SEGMENT_SIZE > WORD

=============================================================================
