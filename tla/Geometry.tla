------------------------------ MODULE Geometry ------------------------------
(***************************************************************************)
(* Where memory lies: addresses to regions, segments and pages by masking, *)
(* the blocks of a page, the layout of a large region, and the trimming of *)
(* an over-sized mapping.  Addresses and sizes are machine words, so sums  *)
(* wrap at WORD.  The constants of constants.h are parameters here: the    *)
(* theorems hold for all of them, Layout checks the real ones, and Api a   *)
(* scaled-down address space.                                              *)
(***************************************************************************)
EXTENDS Naturals

CONSTANTS
  WORD_BITS,               \* the width of size_t and uintptr_t
  WORD,                    \* SIZE_MAX + 1
  PS,                      \* os_page_size()
  SEGMENT_SIZE, PAGE_SIZE, ALLOC_ALIGN, SMALL_SIZE_MAX,
  LARGE_OFFSET             \* sizeof(LargeHeader), rounded to ALLOC_ALIGN

ASSUME WordAssumption == WORD_BITS \in Nat /\ WORD = 2 ^ WORD_BITS

\* The words of which is_pow2 holds.
Pow2 == {2 ^ k : k \in 0 .. WORD_BITS - 1}

Divides(a, b) == b % a = 0

ASSUME GeometryAssumption ==
  /\ {WORD, PS, SEGMENT_SIZE, PAGE_SIZE, ALLOC_ALIGN, SMALL_SIZE_MAX, LARGE_OFFSET}
       \subseteq Nat \ {0}
  /\ Divides(PS, SEGMENT_SIZE) /\ Divides(PAGE_SIZE, SEGMENT_SIZE)
  /\ Divides(SEGMENT_SIZE, WORD) /\ SEGMENT_SIZE * 4 <= WORD
  /\ Divides(ALLOC_ALIGN, LARGE_OFFSET) /\ LARGE_OFFSET * 2 <= SEGMENT_SIZE
  /\ Pow2 \subseteq Nat \ {0} /\ ALLOC_ALIGN \in Pow2 /\ SEGMENT_SIZE \in Pow2
  /\ \A a, b \in Pow2 : a <= b => Divides(a, b)

\* size_t and uintptr_t addition.
add(a, b) == IF a + b < WORD THEN a + b ELSE a + b - WORD

\* x & ~(a - 1), for a power of two a.
mask(x, a) == x - (x % a)

round_up(n, a) == mask(add(n, a - 1), a)

-----------------------------------------------------------------------------
(* segment.h *)

PAGES_PER_SEGMENT == SEGMENT_SIZE \div PAGE_SIZE

FIRST_USABLE_PAGE == 1

region_base(p) == mask(p, SEGMENT_SIZE)

page_index_of(p) == (p % SEGMENT_SIZE) \div PAGE_SIZE

\* Page::capacity, and the k-th block of page i of the segment at s: area, as
\* map_segment sets it, and the block as page_extend carves it.
capacity(block_size) == PAGE_SIZE \div block_size

block_at(s, i, block_size, k) == s + i * PAGE_SIZE + k * block_size

-----------------------------------------------------------------------------
(* hmalloc.cpp: the sizes alloc_large computes and accepts, and whether    *)
(* hm_realloc moves a block                                                *)

large_offset(align) ==
  IF align > ALLOC_ALIGN THEN round_up(LARGE_OFFSET, align) ELSE LARGE_OFFSET

large_total(size, align) == add(large_offset(align), size)

large_mmap_size(size, align) == round_up(large_total(size, align), PS)

\* Faulty: the sum is not tested for overflow.
large_accepts_Unchecked(size, align) ==
  large_mmap_size(size, align) >= large_total(size, align)

large_accepts(size, align) ==
  /\ large_total(size, align) >= size
  /\ large_mmap_size(size, align) >= large_total(size, align)

\* Faulty: whatever fits is kept.
realloc_keeps_Always(old_usable, size) == size <= old_usable

\* hm_realloc returns the old block.
realloc_keeps(old_usable, size) ==
  size <= old_usable /\ (old_usable <= SMALL_SIZE_MAX \/ size > old_usable \div 2)

-----------------------------------------------------------------------------
(* os_alloc_aligned: what it refuses, what it maps and what it trims *)

os_accepts(size, alignment) ==
  /\ size # 0 /\ alignment # 0 /\ alignment \in Pow2
  /\ size % PS = 0 /\ alignment % PS = 0
  /\ alignment > PS => add(size, alignment) >= size

over(size, alignment) == IF alignment <= PS THEN size ELSE add(size, alignment)

aligned(base, alignment) == mask(add(base, alignment - 1), alignment)

head(base, alignment) == aligned(base, alignment) - base

\* Faulty: forgets the part cut off in front.
tail_NoHead(base, size, alignment) == over(size, alignment) - size

tail(base, size, alignment) == over(size, alignment) - head(base, alignment) - size

=============================================================================
