---------------------------- MODULE LayoutProofs ----------------------------
(***************************************************************************)
(* Layout and Geometry for every word size, page size, segment size and    *)
(* alignment that GeometryAssumption admits.  The arithmetic rests on one  *)
(* fact, that quotient and remainder are unique.                           *)
(***************************************************************************)
EXTENDS Layout, TLAPS

-----------------------------------------------------------------------------
(* Quotient and remainder *)

\* What \div and % compute.
LEMMA DivMod ==
  ASSUME NEW x \in Nat, NEW a \in Nat \ {0}
  PROVE  x % a \in 0 .. a - 1 /\ x \div a \in Nat /\ x = a * (x \div a) + (x % a)
BY Z3

\* Quotient and remainder are unique.
LEMMA Unique ==
  ASSUME NEW a \in Nat \ {0}, NEW q \in Nat, NEW p \in Nat, NEW r \in 0 .. a - 1,
         NEW s \in 0 .. a - 1, a * q + r = a * p + s
  PROVE  q = p /\ r = s
<1>1. CASE q > p
  <2>1. PICK d \in Nat \ {0} : q = p + d BY <1>1
  <2>2. a * q = a * p + a * d BY <2>1
  <2>3. a * d >= a BY <2>1
  <2> QED BY <2>2, <2>3
<1>2. CASE q < p
  <2>1. PICK d \in Nat \ {0} : p = q + d BY <1>2
  <2>2. a * p = a * q + a * d BY <2>1
  <2>3. a * d >= a BY <2>1
  <2> QED BY <2>2, <2>3
<1> QED BY <1>1, <1>2

LEMMA ModOf ==
  ASSUME NEW a \in Nat \ {0}, NEW q \in Nat, NEW r \in 0 .. a - 1, NEW x \in Nat, x = a * q + r
  PROVE  x % a = r /\ x \div a = q
<1> DEFINE p == x \div a
           s == x % a
<1>1. s \in 0 .. a - 1 /\ p \in Nat /\ x = a * p + s BY DivMod
<1> HIDE DEF p, s
<1>2. q = p /\ r = s BY <1>1, Unique
<1> QED BY <1>2 DEF p, s

\* The test hm_calloc makes is enough.
LEMMA ProductBound ==
  ASSUME NEW m \in Nat, NEW s \in Nat \ {0}, NEW n \in Nat, n <= m \div s
  PROVE  n * s <= m
<1> DEFINE q == m \div s
           r == m % s
<1>1. m = s * q + r /\ r \in 0 .. s - 1 /\ q \in Nat BY DivMod
<1>2. n <= q OBVIOUS
<1> HIDE DEF q, r
<1>3. PICK d \in Nat : q = n + d BY <1>1, <1>2
<1>4. s * q = n * s + s * d BY <1>3
<1>5. s * d \in Nat BY <1>3
<1> QED BY <1>1, <1>4, <1>5

\* Multiples add up.
LEMMA ModSum ==
  ASSUME NEW a \in Nat \ {0}, NEW x \in Nat, NEW y \in Nat, x % a = 0
  PROVE  (x + y) % a = y % a
<1> DEFINE q == x \div a
           p == y \div a
           r == y % a
<1>1. x = a * q /\ q \in Nat BY DivMod
<1>2. y = a * p + r /\ p \in Nat /\ r \in 0 .. a - 1 BY DivMod
<1> HIDE DEF q, p, r
<1>3. x + y = a * (q + p) + r BY <1>1, <1>2
<1>4. q + p \in Nat /\ x + y \in Nat BY <1>1, <1>2
<1>5. (x + y) % a = r BY <1>2, <1>3, <1>4, ModOf
<1> QED BY <1>5 DEF r

\* Divisibility is transitive.
LEMMA ModTrans ==
  ASSUME NEW a \in Nat \ {0}, NEW b \in Nat \ {0}, NEW c \in Nat, b % a = 0, c % b = 0
  PROVE  c % a = 0
<1> DEFINE q == b \div a
           p == c \div b
<1>1. b = a * q /\ q \in Nat BY DivMod
<1>2. c = b * p /\ p \in Nat BY DivMod
<1> HIDE DEF q, p
<1> DEFINE k == q * p
<1>3. c = a * k + 0 BY <1>1, <1>2
<1>4. k \in Nat BY <1>1, <1>2
<1>5. 0 \in 0 .. a - 1 OBVIOUS
<1> HIDE DEF k
<1> QED BY <1>3, <1>4, <1>5, ModOf

-----------------------------------------------------------------------------
(* Masking and rounding *)

LEMMA Constants ==
  /\ WORD \in Nat \ {0} /\ PS \in Nat \ {0} /\ SEGMENT_SIZE \in Nat \ {0}
  /\ PAGE_SIZE \in Nat \ {0} /\ ALLOC_ALIGN \in Nat \ {0} /\ SMALL_SIZE_MAX \in Nat \ {0}
  /\ LARGE_OFFSET \in Nat \ {0}
BY GeometryAssumption

\* A divisor is no larger.
LEMMA DivisorSmaller ==
  ASSUME NEW a \in Nat \ {0}, NEW b \in Nat \ {0}, Divides(a, b)
  PROVE  a <= b
<1> DEFINE q == b \div a
<1>1. b = a * q /\ q \in Nat BY DivMod DEF Divides
<1> HIDE DEF q
<1>2. q # 0 BY <1>1
<1> QED BY <1>1, <1>2

LEMMA MaskFacts ==
  ASSUME NEW x \in Nat, NEW a \in Nat \ {0}
  PROVE  /\ mask(x, a) \in Nat /\ mask(x, a) % a = 0
         /\ mask(x, a) <= x /\ x < mask(x, a) + a
<1> DEFINE q == x \div a
           r == x % a
           m == mask(x, a)
<1>1. x = a * q + r /\ r \in 0 .. a - 1 /\ q \in Nat BY DivMod
<1>2. m = x - r BY DEF mask
<1> HIDE DEF q, r, m
<1>3. m = a * q + 0 /\ m \in Nat BY <1>1, <1>2
<1>4. m % a = 0
  <2>1. 0 \in 0 .. a - 1 OBVIOUS
  <2> QED BY <1>1, <1>3, <2>1, ModOf
<1>5. m <= x /\ x < m + a BY <1>1, <1>2
<1> QED BY <1>3, <1>4, <1>5 DEF m

\* Rounding up where the sum does not wrap.
LEMMA RoundUp ==
  ASSUME NEW n \in Nat, NEW a \in Nat \ {0}, n + a - 1 < WORD
  PROVE  /\ round_up(n, a) \in Nat /\ round_up(n, a) % a = 0
         /\ n <= round_up(n, a) /\ round_up(n, a) < n + a
<1> DEFINE x == n + a - 1
           m == round_up(n, a)
<1>1. x \in Nat /\ a - 1 \in Nat OBVIOUS
<1>2. add(n, a - 1) = x BY <1>1, Constants DEF add
<1>3. m = mask(x, a) BY <1>2 DEF round_up
<1> HIDE DEF m
<1>4. m \in Nat /\ m % a = 0 /\ m <= x /\ x < m + a BY <1>1, <1>3, MaskFacts
<1>5. n <= m /\ m < n + a BY <1>4
<1> QED BY <1>4, <1>5 DEF m

-----------------------------------------------------------------------------
(* Where large blocks lie *)

\* The alignments for which alloc_large is called.
LargeAlign == {a \in Pow2 : a <= ALLOC_ALIGN \/ a <= SEGMENT_SIZE \div 2}

\* The offset is past the header, aligned, and inside the first segment.
LEMMA OffsetFacts ==
  ASSUME NEW align \in LargeAlign
  PROVE  /\ align \in Nat \ {0} /\ large_offset(align) \in Nat
         /\ LARGE_OFFSET <= large_offset(align) /\ large_offset(align) < SEGMENT_SIZE
         /\ large_offset(align) % align = 0
<1>1. align \in Nat \ {0} /\ align \in Pow2 BY GeometryAssumption DEF LargeAlign
<1>2. CASE align <= ALLOC_ALIGN
  <2>1. large_offset(align) = LARGE_OFFSET BY <1>1, <1>2, Constants DEF large_offset
  <2>2. ALLOC_ALIGN % align = 0 /\ LARGE_OFFSET % ALLOC_ALIGN = 0
    BY <1>1, <1>2, GeometryAssumption DEF Divides
  <2>3. LARGE_OFFSET % align = 0 BY <1>1, <2>2, Constants, ModTrans
  <2>4. LARGE_OFFSET < SEGMENT_SIZE BY Constants, GeometryAssumption
  <2> QED BY <1>1, <2>1, <2>3, <2>4, Constants
<1>3. CASE ~(align <= ALLOC_ALIGN)
  <2>1. large_offset(align) = round_up(LARGE_OFFSET, align) BY <1>1, <1>3, Constants DEF large_offset
  <2>2. align <= SEGMENT_SIZE \div 2 BY <1>3 DEF LargeAlign
  <2>3. LARGE_OFFSET + align <= SEGMENT_SIZE
    <3>1. LARGE_OFFSET * 2 <= SEGMENT_SIZE BY GeometryAssumption
    <3> QED BY <1>1, <2>2, <3>1, Constants
  <2>4. SEGMENT_SIZE < WORD BY Constants, GeometryAssumption
  <2>5. LARGE_OFFSET + align - 1 < WORD BY <1>1, <2>3, <2>4, Constants
  <2> QED BY <1>1, <2>1, <2>3, <2>5, Constants, RoundUp
<1> QED BY <1>2, <1>3

\* Masking an address in the first segment of a region gives its base.
LEMMA BaseFound ==
  ASSUME NEW k \in Nat, NEW x \in 0 .. SEGMENT_SIZE - 1
  PROVE  region_base(k * SEGMENT_SIZE + x) = k * SEGMENT_SIZE
<1> DEFINE b == k * SEGMENT_SIZE
           p == b + x
<1>1. p = SEGMENT_SIZE * k + x /\ p \in Nat /\ b \in Nat BY Constants
<1> HIDE DEF p
<1>2. p % SEGMENT_SIZE = x BY <1>1, Constants, ModOf
<1>3. p = b + x BY DEF p
<1> HIDE DEF b
<1>4. p - (p % SEGMENT_SIZE) = b BY <1>1, <1>2, <1>3, Constants
<1> QED BY <1>3, <1>4 DEF region_base, mask, b

\* The size and the rounded size have not wrapped when alloc_large accepts.
LEMMA TotalFacts ==
  ASSUME NEW size \in 0 .. WORD - 1, NEW align \in LargeAlign, large_accepts(size, align)
  PROVE  LET mmap_size == large_mmap_size(size, align) IN
         /\ mmap_size \in Nat /\ mmap_size < WORD /\ mmap_size % PS = 0
         /\ large_offset(align) + size <= mmap_size
         /\ mmap_size < large_offset(align) + size + PS
<1> DEFINE offset == large_offset(align)
           total == large_total(size, align)
           msz == large_mmap_size(size, align)
<1>1. offset \in Nat /\ offset < WORD
  BY OffsetFacts, Constants, GeometryAssumption
<1>2. total >= size /\ msz >= total BY DEF large_accepts
<1>3. total = add(offset, size) BY DEF large_total
<1> HIDE DEF offset
<1>4. total = offset + size /\ total \in Nat /\ total < WORD
  BY <1>1, <1>2, <1>3, Constants DEF add
<1>5. PS <= SEGMENT_SIZE BY Constants, GeometryAssumption, DivisorSmaller
<1>6. PS * 4 <= WORD BY <1>5, Constants, GeometryAssumption
<1>7. msz = mask(add(total, PS - 1), PS) BY DEF large_mmap_size, round_up
<1> HIDE DEF total, msz
<1> DEFINE y == add(total, PS - 1)
<1>8. y \in Nat /\ y < WORD BY <1>4, <1>6, Constants DEF add
<1>9. y = total + PS - 1 \/ (y <= PS - 2 /\ y + WORD = total + PS - 1)
  BY <1>4, <1>6, Constants DEF add
<1> HIDE DEF y
<1>10. msz \in Nat /\ msz % PS = 0 /\ msz <= y
  <2>1. msz = mask(y, PS) BY <1>7 DEF y
  <2> QED BY <1>8, <2>1, Constants, MaskFacts
<1>11. msz < WORD /\ offset + size <= msz BY <1>1, <1>2, <1>4, <1>8, <1>10, Constants
<1>12. msz < offset + size + PS
  <2>1. y <= total + PS - 1 BY <1>4, <1>6, <1>8, <1>9, Constants
  <2>2. msz <= y /\ msz \in Nat BY <1>10
  <2> QED BY <1>1, <1>4, <1>8, <2>1, <2>2, Constants
<1> QED BY <1>10, <1>11, <1>12 DEF msz, offset

\* For every size and every alignment: what alloc_large hands out serves the
\* request.
THEOREM LargeSound ==
  ASSUME NEW size \in 0 .. WORD - 1, NEW align \in LargeAlign,
         alloc_large(size, align).kind = "large"
  PROVE  LET o == alloc_large(size, align) IN
         o.mmap_size \in Nat /\ o.offset \in Nat /\ LargeServes(o, size, align)
<1> DEFINE o == alloc_large(size, align)
           off == large_offset(align)
           msz == large_mmap_size(size, align)
<1>1. large_accepts(size, align) /\ o = [kind |-> "large", offset |-> off, mmap_size |-> msz]
  BY DEF alloc_large, Null
<1>2. o.offset = off /\ o.mmap_size = msz BY <1>1
<1>3. msz \in Nat /\ msz < WORD /\ msz % PS = 0 /\ off + size <= msz BY <1>1, TotalFacts
<1>4. /\ align \in Nat \ {0} /\ off \in Nat /\ LARGE_OFFSET <= off /\ off < SEGMENT_SIZE
      /\ off % align = 0
  BY OffsetFacts
<1>5. SEGMENT_SIZE % align = 0
  <2>1. align <= SEGMENT_SIZE
    <3>1. ALLOC_ALIGN <= LARGE_OFFSET BY Constants, GeometryAssumption, DivisorSmaller
    <3> QED BY <1>4, <3>1, Constants, GeometryAssumption DEF LargeAlign
  <2> QED BY <2>1, GeometryAssumption DEF LargeAlign, Divides
<1> HIDE DEF o, off, msz
<1>6. ASSUME NEW k \in Nat
      PROVE  /\ region_base(k * SEGMENT_SIZE + off) = k * SEGMENT_SIZE
             /\ (k * SEGMENT_SIZE + off) % align = 0
  <2>1. off \in 0 .. SEGMENT_SIZE - 1 BY <1>4, Constants
  <2>2. region_base(k * SEGMENT_SIZE + off) = k * SEGMENT_SIZE BY <2>1, BaseFound
  <2> DEFINE b == k * SEGMENT_SIZE
  <2>3. b \in Nat /\ b = SEGMENT_SIZE * k + 0 BY Constants
  <2> HIDE DEF b
  <2>4. b % SEGMENT_SIZE = 0
    <3>1. 0 \in 0 .. SEGMENT_SIZE - 1 BY Constants
    <3> QED BY <2>3, <3>1, Constants, ModOf
  <2>5. b % align = 0 BY <1>4, <1>5, <2>3, <2>4, Constants, ModTrans
  <2>6. (b + off) % align = 0 BY <1>4, <2>3, <2>5, ModSum
  <2> QED BY <2>2, <2>6 DEF b
<1>7. 1 \in Nat /\ WORD \div SEGMENT_SIZE - 1 \in Nat
  <2> DEFINE q == WORD \div SEGMENT_SIZE
  <2>1. q \in Nat /\ WORD = SEGMENT_SIZE * q + (WORD % SEGMENT_SIZE) BY Constants, DivMod
  <2>2. WORD % SEGMENT_SIZE = 0 BY GeometryAssumption DEF Divides
  <2> HIDE DEF q
  <2>3. q # 0 BY <2>1, <2>2, Constants
  <2>4. q - 1 \in Nat BY <2>1, <2>3
  <2> QED BY <2>4 DEF q
<1>8. LargeServes(o, size, align) BY <1>2, <1>3, <1>4, <1>6, <1>7 DEF LargeServes
<1> QED BY <1>2, <1>3, <1>4, <1>8 DEF o

-----------------------------------------------------------------------------
(* Every large block any call hands out *)

LEMMA MallocLarge ==
  ASSUME NEW n \in 0 .. WORD - 1, hm_malloc(n).kind = "large"
  PROVE  hm_malloc(n) = alloc_large(n, ALLOC_ALIGN) /\ ALLOC_ALIGN \in LargeAlign
<1>1. hm_malloc(n) = alloc_large(n, ALLOC_ALIGN) BY DEF hm_malloc, heap_malloc, Null
<1>2. ALLOC_ALIGN \in LargeAlign BY GeometryAssumption, Constants DEF LargeAlign
<1> QED BY <1>1, <1>2

\* What serves an alignment serves its divisors.
LEMMA ServesDivisor ==
  ASSUME NEW o, o.offset \in Nat, NEW n, NEW a \in Pow2, a <= ALLOC_ALIGN,
         LargeServes(o, n, ALLOC_ALIGN)
  PROVE  LargeServes(o, n, a)
<1>1. a \in Nat \ {0} /\ ALLOC_ALIGN % a = 0 BY GeometryAssumption DEF Divides
<1>2. ASSUME NEW x \in Nat, x % ALLOC_ALIGN = 0 PROVE x % a = 0
  BY <1>1, <1>2, Constants, ModTrans
<1>3. \A k \in {1, WORD \div SEGMENT_SIZE - 1} : k * SEGMENT_SIZE + o.offset \in Nat
  <2> DEFINE q == WORD \div SEGMENT_SIZE
  <2>1. q \in Nat /\ WORD = SEGMENT_SIZE * q + (WORD % SEGMENT_SIZE) BY Constants, DivMod
  <2>2. WORD % SEGMENT_SIZE = 0 BY GeometryAssumption DEF Divides
  <2> HIDE DEF q
  <2>3. q # 0 BY <2>1, <2>2, Constants
  <2>4. \A k \in {1, q - 1} : k * SEGMENT_SIZE + o.offset \in Nat BY <2>1, <2>3, Constants
  <2> QED BY <2>4 DEF q
<1> QED BY <1>2, <1>3 DEF LargeServes

LargeOk(o, want, align) ==
  o.kind = "large" => o.mmap_size \in Nat /\ o.offset \in Nat /\ LargeServes(o, want, align)

LEMMA MallocOk ==
  ASSUME NEW n \in 0 .. WORD - 1
  PROVE  LargeOk(hm_malloc(n), n, ALLOC_ALIGN)
BY MallocLarge, LargeSound DEF LargeOk

\* What hm_calloc does not refuse has not wrapped, for all pairs of words.
LEMMA CallocProduct ==
  ASSUME NEW nmemb \in 0 .. WORD - 1, NEW n \in 0 .. WORD - 1,
         ~(nmemb = 0 \/ n = 0 \/ nmemb > (WORD - 1) \div n)
  PROVE  hm_calloc(nmemb, n) = hm_malloc(nmemb * n) /\ nmemb * n \in 0 .. WORD - 1
<1>1. WORD \in Nat \ {0} /\ WORD - 1 \in Nat /\ n \in Nat \ {0} /\ nmemb \in Nat \ {0}
  BY Constants
<1> DEFINE q == (WORD - 1) \div n
           total == nmemb * n
<1>2. q \in Nat BY <1>1, DivMod
<1>3. nmemb <= q
  <2>1. ~(nmemb > q) OBVIOUS
  <2> HIDE DEF q
  <2> QED BY <1>1, <1>2, <2>1
<1>4. total <= WORD - 1 BY <1>1, <1>3, ProductBound
<1>5. total \in Nat \ {0}
  <2>1. \A a, b \in Nat \ {0} : a * b \in Nat \ {0} OBVIOUS
  <2> QED BY <1>1, <2>1
<1>6. hm_calloc(nmemb, n) = IF total % WORD <= SMALL_SIZE_MAX THEN heap_malloc(total % WORD)
                            ELSE alloc_large(total % WORD, ALLOC_ALIGN)
  BY DEF hm_calloc
<1> HIDE DEF total
<1>7. total % WORD = total
  <2>1. total = WORD * 0 + total /\ total \in 0 .. WORD - 1 BY <1>1, <1>4, <1>5
  <2> QED BY <1>1, <2>1, ModOf
<1>8. hm_calloc(nmemb, n) = hm_malloc(total) /\ total \in 0 .. WORD - 1
  BY <1>1, <1>4, <1>5, <1>6, <1>7 DEF hm_malloc
<1> QED BY <1>8 DEF total

\* The product is the true one.
LEMMA CallocOk ==
  ASSUME NEW nmemb \in 0 .. WORD - 1, NEW n \in 0 .. WORD - 1
  PROVE  LargeOk(hm_calloc(nmemb, n), nmemb * n, ALLOC_ALIGN)
<1>1. CASE nmemb = 0 \/ n = 0 \/ nmemb > (WORD - 1) \div n
  BY <1>1 DEF hm_calloc, LargeOk, Null
<1>2. CASE ~(nmemb = 0 \/ n = 0 \/ nmemb > (WORD - 1) \div n)
  <2>1. hm_calloc(nmemb, n) = hm_malloc(nmemb * n) /\ nmemb * n \in 0 .. WORD - 1
    BY <1>2, CallocProduct
  <2> QED BY <2>1, MallocOk
<1> QED BY <1>1, <1>2

LEMMA AlignedOk ==
  ASSUME NEW a \in 0 .. WORD - 1, NEW n \in 0 .. WORD - 1
  PROVE  LargeOk(hm_aligned_alloc(a, n), n, a)
<1> DEFINE o == hm_aligned_alloc(a, n)
<1> SUFFICES ASSUME o.kind = "large"
             PROVE  o.mmap_size \in Nat /\ o.offset \in Nat /\ LargeServes(o, n, a)
  BY DEF LargeOk
<1>1. a \in Pow2 BY DEF hm_aligned_alloc, Null
<1>2. CASE a <= ALLOC_ALIGN
  <2>1. o = hm_malloc(n) BY <1>1, <1>2 DEF hm_aligned_alloc, Null
  <2>2. o.mmap_size \in Nat /\ o.offset \in Nat /\ LargeServes(o, n, ALLOC_ALIGN)
    BY <2>1, MallocOk DEF LargeOk
  <2> QED BY <1>1, <1>2, <2>2, ServesDivisor
<1>3. CASE ~(a <= ALLOC_ALIGN)
  <2>1. o = alloc_large(n, a) /\ ~(a > SEGMENT_SIZE \div 2)
    BY <1>1, <1>3 DEF hm_aligned_alloc, heap_malloc, Null
  <2>2. SEGMENT_SIZE \div 2 \in Nat BY Constants
  <2>3. a \in LargeAlign BY <1>1, <2>1, <2>2 DEF LargeAlign
  <2> QED BY <2>1, <2>3, LargeSound
<1> QED BY <1>2, <1>3

\* What serves one byte serves an empty request.
LEMMA NonzeroOk ==
  ASSUME NEW o, NEW n \in 0 .. WORD - 1, NEW a, LargeOk(o, nonzero(n), a)
  PROVE  LargeOk(o, n, a)
<1> SUFFICES ASSUME o.kind = "large" PROVE LargeOk(o, n, a) BY DEF LargeOk
<1>1. o.mmap_size \in Nat /\ o.offset \in Nat /\ LargeServes(o, nonzero(n), a) BY DEF LargeOk
<1>2. n <= nonzero(n) /\ nonzero(n) \in Nat BY Constants DEF nonzero
<1>3. o.offset + n <= o.mmap_size
  <2>1. o.offset + nonzero(n) <= o.mmap_size BY <1>1 DEF LargeServes
  <2> QED BY <1>1, <1>2, <2>1, Constants
<1> QED BY <1>1, <1>3 DEF LargeOk, LargeServes

LargeInv ==
  /\ obj = Result(obj.got, obj.call, obj.want, obj.align)
  /\ LargeOk(obj.got, obj.want, obj.align)

LEMMA ResultOk ==
  ASSUME NEW got, NEW call, NEW want, NEW align, LargeOk(got, want, align),
         obj' = Result(got, call, want, align)
  PROVE  LargeInv'
BY DEF LargeInv, Result, LargeOk, LargeServes, region_base, mask

\* LargeInv is inductive: realloc in place needs to know of the block it keeps
\* that its size and offset are numbers.
LEMMA LargeInvariant == Spec => []LargeInv
<1>1. Init => LargeInv BY DEF Init, LargeInv, NoObj, Result, LargeOk
<1>2. LargeInv /\ [Next]_vars => LargeInv'
  <2> SUFFICES ASSUME LargeInv, [Next]_vars PROVE LargeInv' OBVIOUS
  <2>0. nonzero(0) \in 0 .. WORD - 1 /\ \A n \in 0 .. WORD - 1 : nonzero(n) \in 0 .. WORD - 1
    <3>1. WORD >= 4 BY Constants, GeometryAssumption
    <3> QED BY <3>1, Constants DEF nonzero
  <2>1. ASSUME NEW n \in MallocSize, Malloc(n) PROVE LargeInv'
    BY <2>1, LayoutAssumption, MallocOk, ResultOk DEF Malloc
  <2>2. ASSUME NEW c \in CallocArg, Calloc(c[1], c[2]) PROVE LargeInv'
    <3>1. c[1] \in 0 .. WORD - 1 /\ c[2] \in 0 .. WORD - 1 BY LayoutAssumption
    <3> QED BY <2>2, <3>1, CallocOk, ResultOk DEF Calloc
  <2>3. ASSUME NEW c \in AlignedArg,
               \/ AlignedAlloc(c[1], c[2]) \/ PosixMemalign(c[1], c[2]) \/ AlignedNew(c[2], c[1])
               \/ New(c[2]) \/ Valloc(c[2])
        PROVE  LargeInv'
    <3> DEFINE a == c[1]
               n == c[2]
    <3>1. a \in 0 .. WORD - 1 /\ n \in 0 .. WORD - 1 BY LayoutAssumption
    <3> HIDE DEF a, n
    <3>2. nonzero(n) \in 0 .. WORD - 1 BY <2>0, <3>1
    <3>3. CASE AlignedAlloc(a, n) BY <3>1, <3>3, AlignedOk, ResultOk DEF AlignedAlloc
    <3>4. CASE PosixMemalign(a, n)
      <4>1. LargeOk(do_posix_memalign(a, n), n, a)
        <5>1. CASE do_posix_memalign(a, n) = EINVAL BY <5>1 DEF LargeOk, EINVAL
        <5>2. CASE do_posix_memalign(a, n) = hm_aligned_alloc(a, nonzero(n))
          BY <3>1, <3>2, <5>2, AlignedOk, NonzeroOk
        <5> QED BY <5>1, <5>2 DEF do_posix_memalign
      <4> QED BY <3>4, <4>1, ResultOk DEF PosixMemalign
    <3>5. CASE AlignedNew(n, a)
      BY <3>1, <3>2, <3>5, AlignedOk, NonzeroOk, ResultOk DEF AlignedNew, operator_new_aligned
    <3>6. CASE New(n)
      BY <3>1, <3>2, <3>6, MallocOk, NonzeroOk, ResultOk DEF New, operator_new
    <3>7. CASE Valloc(n)
      <4>1. PS \in 0 .. WORD - 1
        <5>1. PS <= SEGMENT_SIZE BY Constants, GeometryAssumption, DivisorSmaller
        <5> QED BY <5>1, Constants, GeometryAssumption
      <4> QED BY <3>1, <3>7, <4>1, AlignedOk, ResultOk DEF Valloc, do_valloc
    <3> QED BY <2>3, <3>3, <3>4, <3>5, <3>6, <3>7 DEF a, n
  <2>4. ASSUME NEW n \in ReallocSize, Realloc(n) PROVE LargeInv'
    <3>1. n \in 0 .. WORD - 1 BY LayoutAssumption
    <3>2. CASE realloc_keeps(hm_usable_size(obj.got), n)
      <4>1. obj' = [obj EXCEPT !.want = n, !.call = "realloc"] BY <2>4, <3>2 DEF Realloc
      <4>2. obj' = Result(obj.got, "realloc", n, obj.align)
        BY <4>1 DEF LargeInv, Result
      <4>3. LargeOk(obj.got, n, obj.align)
        <5> SUFFICES ASSUME obj.got.kind = "large"
                     PROVE  LargeServes(obj.got, n, obj.align)
          BY DEF LargeOk, LargeInv
        <5>1. obj.got.mmap_size \in Nat /\ obj.got.offset \in Nat BY DEF LargeInv, LargeOk
        <5>2. n <= obj.got.mmap_size - obj.got.offset
          BY <3>2 DEF realloc_keeps, hm_usable_size
        <5>3. obj.got.offset + n <= obj.got.mmap_size BY <3>1, <5>1, <5>2, Constants
        <5> QED BY <5>3 DEF LargeInv, LargeOk, LargeServes
      <4> QED BY <4>2, <4>3, ResultOk
    <3>3. CASE ~realloc_keeps(hm_usable_size(obj.got), n)
      <4>1. CASE hm_malloc(n) = Null
        <5>1. obj' = obj BY <2>4, <3>3, <4>1 DEF Realloc
        <5> QED BY <5>1 DEF LargeInv, LargeOk, LargeServes, region_base, mask, Result
      <4>2. CASE hm_malloc(n) # Null
        <5>1. obj' = Result(hm_malloc(n), "malloc", n, ALLOC_ALIGN)
          BY <2>4, <3>3, <4>2 DEF Realloc
        <5> QED BY <3>1, <5>1, MallocOk, ResultOk
      <4> QED BY <4>1, <4>2
    <3> QED BY <3>2, <3>3
  <2>5. ASSUME Free PROVE LargeInv'
    BY <2>5 DEF Free, LargeInv, NoObj, Result, LargeOk
  <2>6. CASE UNCHANGED vars
    BY <2>6 DEF vars, LargeInv, LargeOk, LargeServes, region_base, mask, Result
  <2> QED BY <2>1, <2>2, <2>3, <2>4, <2>5, <2>6 DEF Next, Allocate
<1> QED BY <1>1, <1>2, PTL DEF Spec

\* No arithmetic on the way to a large block has wrapped, for every word size
\* and every argument: alloc_large, hm_calloc, hm_aligned_alloc, hm_realloc
\* and the override's functions hand out blocks that hold what was asked for,
\* aligned, and whose header masking finds.
THEOREM LargeAlwaysRecoverable == Spec => []LargeRecoverable
<1>1. LargeInv => LargeRecoverable BY DEF LargeInv, LargeOk, LargeRecoverable
<1> QED BY <1>1, LargeInvariant, PTL

-----------------------------------------------------------------------------
(* What large blocks waste *)

FreshOk(got, want) == got.kind = "large" => hm_usable_size(got) < nonzero(want) + PS

LEMMA LargeFresh ==
  ASSUME NEW n \in 0 .. WORD - 1, NEW align \in LargeAlign
  PROVE  FreshOk(alloc_large(n, align), n)
<1> DEFINE o == alloc_large(n, align)
           off == large_offset(align)
           msz == large_mmap_size(n, align)
<1> SUFFICES ASSUME o.kind = "large" PROVE hm_usable_size(o) < nonzero(n) + PS BY DEF FreshOk
<1>1. large_accepts(n, align) /\ o = [kind |-> "large", offset |-> off, mmap_size |-> msz]
  BY DEF alloc_large, Null
<1>2. hm_usable_size(o) = msz - off BY <1>1 DEF hm_usable_size
<1>3. msz \in Nat /\ msz < off + n + PS BY <1>1, TotalFacts
<1>4. off \in Nat BY OffsetFacts
<1>5. n <= nonzero(n) /\ nonzero(n) \in Nat BY Constants DEF nonzero
<1> HIDE DEF o, off, msz
<1> QED BY <1>2, <1>3, <1>4, <1>5, Constants

LEMMA MallocFresh ==
  ASSUME NEW n \in 0 .. WORD - 1
  PROVE  FreshOk(hm_malloc(n), n)
BY MallocLarge, LargeFresh DEF FreshOk

LEMMA CallocFresh ==
  ASSUME NEW nmemb \in 0 .. WORD - 1, NEW n \in 0 .. WORD - 1
  PROVE  FreshOk(hm_calloc(nmemb, n), nmemb * n)
<1> SUFFICES ASSUME ~(nmemb = 0 \/ n = 0 \/ nmemb > (WORD - 1) \div n)
             PROVE  FreshOk(hm_calloc(nmemb, n), nmemb * n)
  BY DEF hm_calloc, FreshOk, Null
<1>1. hm_calloc(nmemb, n) = hm_malloc(nmemb * n) /\ nmemb * n \in 0 .. WORD - 1
  BY CallocProduct
<1> QED BY <1>1, MallocFresh

LEMMA AlignedFresh ==
  ASSUME NEW a \in 0 .. WORD - 1, NEW n \in 0 .. WORD - 1
  PROVE  FreshOk(hm_aligned_alloc(a, n), n)
<1> DEFINE o == hm_aligned_alloc(a, n)
<1> SUFFICES ASSUME o.kind = "large" PROVE FreshOk(o, n) BY DEF FreshOk
<1>1. a \in Pow2 BY DEF hm_aligned_alloc, Null
<1>2. CASE a <= ALLOC_ALIGN
  <2>1. o = hm_malloc(n) BY <1>1, <1>2 DEF hm_aligned_alloc, Null
  <2> QED BY <2>1, MallocFresh
<1>3. CASE ~(a <= ALLOC_ALIGN)
  <2>1. o = alloc_large(n, a) /\ ~(a > SEGMENT_SIZE \div 2)
    BY <1>1, <1>3 DEF hm_aligned_alloc, heap_malloc, Null
  <2>2. SEGMENT_SIZE \div 2 \in Nat BY Constants
  <2>3. a \in LargeAlign BY <1>1, <2>1, <2>2 DEF LargeAlign
  <2> QED BY <2>1, <2>3, LargeFresh
<1> QED BY <1>2, <1>3

LEMMA NonzeroFresh ==
  ASSUME NEW o, NEW n, FreshOk(o, nonzero(n))
  PROVE  FreshOk(o, n)
BY DEF FreshOk, nonzero

LEMMA ResultFresh ==
  ASSUME NEW got, NEW call, NEW want, NEW align, FreshOk(got, want),
         obj' = Result(got, call, want, align)
  PROVE  LargeWasteBounded'
<1>1. obj'.got = got /\ obj'.want = want BY DEF Result
<1> QED BY <1>1 DEF LargeWasteBounded, FreshOk

\* A maximum is no less than the two it is taken of.
LEMMA MaxOfTwo ==
  ASSUME NEW x \in Nat, NEW y \in Nat
  PROVE  Max({x, y}) \in Nat /\ x <= Max({x, y}) /\ y <= Max({x, y})
<1>1. \E m \in {x, y} : \A z \in {x, y} : z <= m OBVIOUS
<1>2. Max({x, y}) \in {x, y} /\ \A z \in {x, y} : z <= Max({x, y}) BY <1>1 DEF Max
<1> QED BY <1>2

\* What hm_realloc keeps is small, or no more than twice what is asked for.
LEMMA KeptWaste ==
  ASSUME NEW u \in Nat, NEW n \in Nat, realloc_keeps(u, n)
  PROVE  u <= Max({SMALL_SIZE_MAX, 2 * n})
<1>1. CASE u <= SMALL_SIZE_MAX BY <1>1, Constants, MaxOfTwo
<1>2. CASE n > u \div 2
  <2>1. u <= 2 * n BY <1>2
  <2>2. 2 * n \in Nat OBVIOUS
  <2> DEFINE m == Max({SMALL_SIZE_MAX, 2 * n})
  <2>3. m \in Nat /\ 2 * n <= m BY <2>2, Constants, MaxOfTwo
  <2> HIDE DEF m
  <2>4. u <= m BY <2>1, <2>2, <2>3
  <2> QED BY <2>4 DEF m
<1> QED BY <1>1, <1>2 DEF realloc_keeps

\* For every word and page size, alloc_large rounds up by less than a page
\* whatever the entry point, and hm_realloc keeps a large block only while at
\* least half of it is used or it is no larger than SMALL_SIZE_MAX.
THEOREM LargeWaste == Spec => []LargeWasteBounded
<1>1. Init => LargeWasteBounded BY DEF Init, LargeWasteBounded, NoObj, Result
<1>2. LargeInv /\ LargeWasteBounded /\ [Next]_vars => LargeWasteBounded'
  <2> SUFFICES ASSUME LargeInv, LargeWasteBounded, [Next]_vars PROVE LargeWasteBounded' OBVIOUS
  <2>1. ASSUME NEW n \in MallocSize, Malloc(n) PROVE LargeWasteBounded'
    BY <2>1, LayoutAssumption, MallocFresh, ResultFresh DEF Malloc
  <2>2. ASSUME NEW c \in CallocArg, Calloc(c[1], c[2]) PROVE LargeWasteBounded'
    <3>1. c[1] \in 0 .. WORD - 1 /\ c[2] \in 0 .. WORD - 1 BY LayoutAssumption
    <3> QED BY <2>2, <3>1, CallocFresh, ResultFresh DEF Calloc
  <2>3. ASSUME NEW c \in AlignedArg,
               \/ AlignedAlloc(c[1], c[2]) \/ PosixMemalign(c[1], c[2]) \/ AlignedNew(c[2], c[1])
               \/ New(c[2]) \/ Valloc(c[2])
        PROVE  LargeWasteBounded'
    <3> DEFINE a == c[1]
               n == c[2]
    <3>1. a \in 0 .. WORD - 1 /\ n \in 0 .. WORD - 1 BY LayoutAssumption
    <3> HIDE DEF a, n
    <3>2. nonzero(n) \in 0 .. WORD - 1
      <4>1. WORD >= 4 BY Constants, GeometryAssumption
      <4> QED BY <3>1, <4>1, Constants DEF nonzero
    <3>3. FreshOk(hm_aligned_alloc(a, nonzero(n)), n) BY <3>1, <3>2, AlignedFresh, NonzeroFresh
    <3>4. CASE AlignedAlloc(a, n) BY <3>1, <3>4, AlignedFresh, ResultFresh DEF AlignedAlloc
    <3>5. CASE PosixMemalign(a, n)
      <4>1. FreshOk(do_posix_memalign(a, n), n)
        BY <3>3 DEF do_posix_memalign, FreshOk, EINVAL
      <4> QED BY <3>5, <4>1, ResultFresh DEF PosixMemalign
    <3>6. CASE AlignedNew(n, a)
      BY <3>3, <3>6, ResultFresh DEF AlignedNew, operator_new_aligned
    <3>7. CASE New(n)
      BY <3>2, <3>7, MallocFresh, NonzeroFresh, ResultFresh DEF New, operator_new
    <3>8. CASE Valloc(n)
      <4>1. PS \in 0 .. WORD - 1
        <5>1. PS <= SEGMENT_SIZE BY Constants, GeometryAssumption, DivisorSmaller
        <5> QED BY <5>1, Constants, GeometryAssumption
      <4> QED BY <3>1, <3>8, <4>1, AlignedFresh, ResultFresh DEF Valloc, do_valloc
    <3> QED BY <2>3, <3>4, <3>5, <3>6, <3>7, <3>8 DEF a, n
  <2>4. ASSUME NEW n \in ReallocSize, Realloc(n) PROVE LargeWasteBounded'
    <3>1. n \in 0 .. WORD - 1 BY LayoutAssumption
    <3>2. CASE realloc_keeps(hm_usable_size(obj.got), n)
      <4>1. obj' = [obj EXCEPT !.want = n, !.call = "realloc"] BY <2>4, <3>2 DEF Realloc
      <4>2. obj' = Result(obj.got, "realloc", n, obj.align) BY <4>1 DEF LargeInv, Result
      <4>3. obj'.got = obj.got /\ obj'.call = "realloc" /\ obj'.want = n BY <4>2 DEF Result
      <4> SUFFICES ASSUME obj.got.kind = "large"
                   PROVE  hm_usable_size(obj.got) <= Max({SMALL_SIZE_MAX, 2 * n})
        BY <4>3 DEF LargeWasteBounded
      <4>4. obj.got.mmap_size \in Nat /\ obj.got.offset \in Nat BY DEF LargeInv, LargeOk
      <4>5. hm_usable_size(obj.got) = obj.got.mmap_size - obj.got.offset BY DEF hm_usable_size
      <4>6. n <= hm_usable_size(obj.got) BY <3>2 DEF realloc_keeps
      <4>7. hm_usable_size(obj.got) \in Nat BY <3>1, <4>4, <4>5, <4>6, Constants
      <4>8. n \in Nat BY <3>1, Constants
      <4> QED BY <3>2, <4>7, <4>8, KeptWaste
    <3>3. CASE ~realloc_keeps(hm_usable_size(obj.got), n)
      <4>1. CASE hm_malloc(n) = Null
        <5>1. obj' = obj BY <2>4, <3>3, <4>1 DEF Realloc
        <5> QED BY <5>1 DEF LargeWasteBounded
      <4>2. CASE hm_malloc(n) # Null
        <5>1. obj' = Result(hm_malloc(n), "malloc", n, ALLOC_ALIGN)
          BY <2>4, <3>3, <4>2 DEF Realloc
        <5> QED BY <3>1, <5>1, MallocFresh, ResultFresh
      <4> QED BY <4>1, <4>2
    <3> QED BY <3>2, <3>3
  <2>5. ASSUME Free PROVE LargeWasteBounded'
    BY <2>5 DEF Free, LargeWasteBounded, NoObj, Result
  <2>6. CASE UNCHANGED vars BY <2>6 DEF vars, LargeWasteBounded
  <2> QED BY <2>1, <2>2, <2>3, <2>4, <2>5, <2>6 DEF Next, Allocate
<1> QED BY <1>1, <1>2, LargeInvariant, PTL DEF Spec

-----------------------------------------------------------------------------
(* What is refused *)

\* No room for n bytes, the header and the slop of the two roundings.
TooBig(n, align) == n + large_offset(align) + PS + SEGMENT_SIZE > WORD

\* Unless there is no room, alloc_large's overflow tests and those of
\* os_alloc_aligned pass.
LEMMA LargeRefused ==
  ASSUME NEW n \in 0 .. WORD - 1, NEW align \in LargeAlign, alloc_large(n, align).kind # "large"
  PROVE  TooBig(n, align)
<1> SUFFICES ASSUME ~TooBig(n, align) PROVE FALSE OBVIOUS
<1> DEFINE off == large_offset(align)
           total == large_total(n, align)
           msz == large_mmap_size(n, align)
<1>1. off \in Nat /\ LARGE_OFFSET <= off BY OffsetFacts
<1>2. n + off + PS + SEGMENT_SIZE <= WORD BY <1>1, Constants DEF TooBig
<1>3. total = add(off, n) BY DEF large_total
<1>4. msz = round_up(total, PS) BY DEF large_mmap_size
<1>5. ~(large_accepts(n, align) /\ os_accepts(msz, SEGMENT_SIZE)) BY DEF alloc_large
<1>6. large_accepts(n, align) <=> total >= n /\ msz >= total BY DEF large_accepts
<1> HIDE DEF off, total, msz
<1>7. total = off + n /\ total \in Nat BY <1>1, <1>2, <1>3, Constants DEF add
<1>8. total + PS - 1 < WORD /\ total >= 1 BY <1>1, <1>2, <1>7, Constants
<1>9. msz \in Nat /\ total <= msz /\ msz < total + PS
  BY <1>4, <1>7, <1>8, Constants, RoundUp
<1>10. msz % PS = 0 BY <1>4, <1>7, <1>8, Constants, RoundUp
<1>11. add(msz, SEGMENT_SIZE) >= msz
  <2>1. n \in Nat OBVIOUS
  <2>2. msz + SEGMENT_SIZE < WORD BY <1>1, <1>2, <1>7, <1>9, <2>1, Constants
  <2> QED BY <1>9, <2>2, Constants DEF add
<1>12. SEGMENT_SIZE \in Pow2 /\ SEGMENT_SIZE % PS = 0 BY GeometryAssumption DEF Divides
<1>13. os_accepts(msz, SEGMENT_SIZE)
  <2>1. msz # 0 /\ SEGMENT_SIZE # 0 BY <1>8, <1>7, <1>9, Constants
  <2> QED BY <1>10, <1>11, <1>12, <2>1 DEF os_accepts
<1>14. large_accepts(n, align) BY <1>1, <1>6, <1>7, <1>9, Constants
<1> QED BY <1>5, <1>13, <1>14

Refused(got) == got.kind \in {"null", "EINVAL"}

LEMMA MallocRefused ==
  ASSUME NEW n \in 0 .. WORD - 1, Refused(hm_malloc(n))
  PROVE  hm_malloc(n) = Null /\ (n = 0 \/ TooBig(n, ALLOC_ALIGN))
<1>1. CASE n = 0 BY <1>1 DEF hm_malloc
<1>2. CASE n # 0
  <2>1. hm_malloc(n) = alloc_large(n, ALLOC_ALIGN)
    BY <1>2 DEF hm_malloc, heap_malloc, Refused
  <2>2. alloc_large(n, ALLOC_ALIGN) = Null BY <2>1 DEF alloc_large, Refused
  <2>3. ALLOC_ALIGN \in LargeAlign BY GeometryAssumption, Constants DEF LargeAlign
  <2> QED BY <2>1, <2>2, <2>3, LargeRefused DEF Null
<1> QED BY <1>1, <1>2

\* One byte, behind any header and at any alignment, always has room.
LEMMA OneFits ==
  ASSUME NEW align \in LargeAlign
  PROVE  ~TooBig(1, align)
<1>1. large_offset(align) \in Nat /\ large_offset(align) < SEGMENT_SIZE BY OffsetFacts
<1>2. PS <= SEGMENT_SIZE BY Constants, GeometryAssumption, DivisorSmaller
<1>3. SEGMENT_SIZE * 4 <= WORD BY GeometryAssumption
<1> QED BY <1>1, <1>2, <1>3, Constants DEF TooBig

\* The alignments hm_aligned_alloc takes.
BadAlign(a) == a \notin Pow2 \/ a > SEGMENT_SIZE \div 2

LEMMA AlignedRefused ==
  ASSUME NEW a \in 0 .. WORD - 1, NEW n \in 0 .. WORD - 1, Refused(hm_aligned_alloc(a, n))
  PROVE  n = 0 \/ BadAlign(a) \/ TooBig(n, a)
<1> SUFFICES ASSUME n # 0, ~BadAlign(a) PROVE TooBig(n, a) OBVIOUS
<1>1. a \in Pow2 /\ ~(a > SEGMENT_SIZE \div 2) BY DEF BadAlign
<1>2. a \in LargeAlign
  <2>1. SEGMENT_SIZE \div 2 \in Nat BY Constants
  <2> QED BY <1>1, <2>1 DEF LargeAlign
<1>3. CASE a <= ALLOC_ALIGN
  <2>1. hm_aligned_alloc(a, n) = hm_malloc(n) BY <1>1, <1>3 DEF hm_aligned_alloc
  <2>2. TooBig(n, ALLOC_ALIGN) BY <2>1, MallocRefused
  <2>3. large_offset(a) = large_offset(ALLOC_ALIGN) BY <1>3, Constants DEF large_offset
  <2> QED BY <2>2, <2>3 DEF TooBig
<1>4. CASE ~(a <= ALLOC_ALIGN)
  <2>1. hm_aligned_alloc(a, n) = alloc_large(n, a)
    BY <1>1, <1>4 DEF hm_aligned_alloc, heap_malloc, Refused
  <2>2. alloc_large(n, a).kind # "large" BY <2>1 DEF Refused
  <2> QED BY <1>2, <2>2, LargeRefused
<1> QED BY <1>3, <1>4

\* A product hm_calloc refuses does not fit a word.
LEMMA ProductTooBig ==
  ASSUME NEW m \in Nat, NEW s \in Nat \ {0}, NEW n \in Nat, n > m \div s
  PROVE  n * s > m
<1> DEFINE q == m \div s
           r == m % s
<1>1. m = s * q + r /\ r \in 0 .. s - 1 /\ q \in Nat BY DivMod
<1>2. n > q OBVIOUS
<1> HIDE DEF q, r
<1> DEFINE d == n - q - 1
<1>3. d \in Nat /\ n = q + 1 + d BY <1>1, <1>2
<1> HIDE DEF d
<1>4. n * s = s * q + s + s * d BY <1>1, <1>3
<1>5. s * d \in Nat BY <1>3
<1> QED BY <1>1, <1>4, <1>5

\* What a call that returned got may say no to.
RefusedOk(got, call, want, align) ==
  Refused(got) =>
    \/ want = 0 /\ call \notin {"posix", "new"}
    \/ align < sizeof_void_ptr /\ got.kind = "EINVAL"
    \/ BadAlign(align)
    \/ TooBig(want, align)

LEMMA ResultRefused ==
  ASSUME NEW got, NEW call, NEW want, NEW align, RefusedOk(got, call, want, align),
         obj' = Result(got, call, want, align)
  PROVE  RefusedOnlyIfImpossible'
BY DEF RefusedOnlyIfImpossible, RefusedOk, Refused, BadAlign, TooBig, Result

LEMMA MallocRefusedOk ==
  ASSUME NEW n \in 0 .. WORD - 1
  PROVE  RefusedOk(hm_malloc(n), "malloc", n, ALLOC_ALIGN)
BY MallocRefused DEF RefusedOk

LEMMA CallocRefusedOk ==
  ASSUME NEW nmemb \in 0 .. WORD - 1, NEW n \in 0 .. WORD - 1
  PROVE  RefusedOk(hm_calloc(nmemb, n), "malloc", nmemb * n, ALLOC_ALIGN)
<1>1. CASE nmemb = 0 \/ n = 0
  <2>1. nmemb * n = 0 BY <1>1
  <2> QED BY <2>1 DEF RefusedOk
<1>2. CASE ~(nmemb = 0 \/ n = 0)
  <2>0. WORD - 1 \in Nat /\ n \in Nat \ {0} /\ nmemb \in Nat BY <1>2, Constants
  <2> DEFINE q == (WORD - 1) \div n
             prod == nmemb * n
  <2>1. q \in Nat /\ prod \in Nat BY <2>0, DivMod
  <2>2. CASE nmemb > q
    <3>1. prod > WORD - 1 BY <2>0, <2>2, ProductTooBig
    <3> HIDE DEF prod
    <3>2. ALLOC_ALIGN \in LargeAlign BY GeometryAssumption, Constants DEF LargeAlign
    <3>3. large_offset(ALLOC_ALIGN) \in Nat BY <3>2, OffsetFacts
    <3>4. TooBig(prod, ALLOC_ALIGN) BY <2>1, <3>1, <3>3, Constants DEF TooBig
    <3> QED BY <3>4 DEF RefusedOk, prod
  <2>3. CASE ~(nmemb > q)
    <3>1. hm_calloc(nmemb, n) = hm_malloc(prod) /\ prod \in 0 .. WORD - 1
      BY <1>2, <2>3, CallocProduct
    <3> HIDE DEF prod
    <3> QED BY <3>1, MallocRefusedOk DEF prod
  <2> QED BY <2>2, <2>3
<1> QED BY <1>1, <1>2

\* A request that is not empty, or that is made one byte long, is refused
\* for its alignment or for lack of room only.
LEMMA NonzeroRefused ==
  ASSUME NEW a \in 0 .. WORD - 1, NEW n \in 0 .. WORD - 1, Refused(hm_aligned_alloc(a, nonzero(n)))
  PROVE  BadAlign(a) \/ TooBig(n, a)
<1> SUFFICES ASSUME ~BadAlign(a) PROVE TooBig(n, a) OBVIOUS
<1>1. nonzero(n) \in 0 .. WORD - 1 /\ nonzero(n) # 0
  <2>1. WORD >= 4 BY Constants, GeometryAssumption
  <2> QED BY <2>1, Constants DEF nonzero
<1>2. TooBig(nonzero(n), a) BY <1>1, AlignedRefused
<1>3. a \in LargeAlign
  <2>1. SEGMENT_SIZE \div 2 \in Nat BY Constants
  <2> QED BY <2>1 DEF LargeAlign, BadAlign
<1>4. n # 0 BY <1>2, <1>3, OneFits DEF nonzero
<1> QED BY <1>2, <1>4 DEF nonzero

\* With memory available, no entry point refuses what could be served, for
\* every word size: hm_malloc, hm_calloc, hm_aligned_alloc, posix_memalign,
\* valloc and operator new return null or an error only for empty requests,
\* bad alignments, and sizes without room for header and slop.
THEOREM RefusalsJustified == Spec => []RefusedOnlyIfImpossible
<1>1. Init => RefusedOnlyIfImpossible
  BY DEF Init, RefusedOnlyIfImpossible, NoObj, Result
<1>2. RefusedOnlyIfImpossible /\ [Next]_vars => RefusedOnlyIfImpossible'
  <2> SUFFICES ASSUME RefusedOnlyIfImpossible, [Next]_vars PROVE RefusedOnlyIfImpossible'
    OBVIOUS
  <2>1. ASSUME NEW n \in MallocSize, Malloc(n) PROVE RefusedOnlyIfImpossible'
    BY <2>1, LayoutAssumption, MallocRefusedOk, ResultRefused DEF Malloc
  <2>2. ASSUME NEW c \in CallocArg, Calloc(c[1], c[2]) PROVE RefusedOnlyIfImpossible'
    <3>1. c[1] \in 0 .. WORD - 1 /\ c[2] \in 0 .. WORD - 1 BY LayoutAssumption
    <3> QED BY <2>2, <3>1, CallocRefusedOk, ResultRefused DEF Calloc
  <2>3. ASSUME NEW c \in AlignedArg,
               \/ AlignedAlloc(c[1], c[2]) \/ PosixMemalign(c[1], c[2]) \/ AlignedNew(c[2], c[1])
               \/ New(c[2]) \/ Valloc(c[2])
        PROVE  RefusedOnlyIfImpossible'
    <3> DEFINE a == c[1]
               n == c[2]
    <3>1. a \in 0 .. WORD - 1 /\ n \in 0 .. WORD - 1 BY LayoutAssumption
    <3> HIDE DEF a, n
    <3>2. ASSUME NEW b \in 0 .. WORD - 1
          PROVE  RefusedOk(hm_aligned_alloc(b, n), "aligned", n, b)
      BY <3>1, AlignedRefused DEF RefusedOk
    <3>3. ASSUME NEW call PROVE RefusedOk(hm_aligned_alloc(a, nonzero(n)), call, n, a)
      BY <3>1, NonzeroRefused DEF RefusedOk
    <3>4. CASE AlignedAlloc(a, n) BY <3>1, <3>2, <3>4, ResultRefused DEF AlignedAlloc
    <3>5. CASE PosixMemalign(a, n)
      <4>1. RefusedOk(do_posix_memalign(a, n), "posix", n, a)
        <5>1. CASE a < sizeof_void_ptr \/ a \notin Pow2
          <6>1. do_posix_memalign(a, n).kind = "EINVAL" BY <5>1 DEF do_posix_memalign, EINVAL
          <6> QED BY <5>1, <6>1 DEF RefusedOk, BadAlign
        <5>2. CASE ~(a < sizeof_void_ptr \/ a \notin Pow2)
          BY <3>3, <5>2 DEF do_posix_memalign
        <5> QED BY <5>1, <5>2
      <4> QED BY <3>5, <4>1, ResultRefused DEF PosixMemalign
    <3>6. CASE AlignedNew(n, a)
      BY <3>3, <3>6, ResultRefused DEF AlignedNew, operator_new_aligned
    <3>7. CASE New(n)
      <4>1. nonzero(n) \in 0 .. WORD - 1 /\ nonzero(n) # 0
        <5>1. WORD >= 4 BY Constants, GeometryAssumption
        <5> QED BY <3>1, <5>1, Constants DEF nonzero
      <4>2. ALLOC_ALIGN \in LargeAlign BY GeometryAssumption, Constants DEF LargeAlign
      <4>3. RefusedOk(operator_new(n), "new", n, ALLOC_ALIGN)
        <5> SUFFICES ASSUME Refused(operator_new(n)) PROVE TooBig(n, ALLOC_ALIGN) BY DEF RefusedOk
        <5>1. TooBig(nonzero(n), ALLOC_ALIGN) BY <4>1, MallocRefused DEF operator_new
        <5>2. n # 0 BY <4>2, <5>1, OneFits DEF nonzero
        <5> QED BY <5>1, <5>2 DEF nonzero
      <4> QED BY <3>7, <4>3, ResultRefused DEF New
    <3>8. CASE Valloc(n)
      <4>1. PS \in 0 .. WORD - 1
        <5>1. PS <= SEGMENT_SIZE BY Constants, GeometryAssumption, DivisorSmaller
        <5> QED BY <5>1, Constants, GeometryAssumption
      <4> QED BY <3>2, <3>8, <4>1, ResultRefused DEF Valloc, do_valloc
    <3> QED BY <2>3, <3>4, <3>5, <3>6, <3>7, <3>8 DEF a, n
  <2>4. ASSUME NEW n \in ReallocSize, Realloc(n) PROVE RefusedOnlyIfImpossible'
    <3>1. n \in 0 .. WORD - 1 BY LayoutAssumption
    <3>2. obj.got.kind \in {"small", "large"} BY <2>4 DEF Realloc
    <3>3. CASE realloc_keeps(hm_usable_size(obj.got), n)
      <4>1. obj' = [obj EXCEPT !.want = n, !.call = "realloc"] BY <2>4, <3>3 DEF Realloc
      <4>2. obj'.got = obj.got BY <4>1
      <4> QED BY <3>2, <4>2 DEF RefusedOnlyIfImpossible
    <3>4. CASE ~realloc_keeps(hm_usable_size(obj.got), n)
      <4>1. CASE hm_malloc(n) = Null
        <5>1. obj' = obj BY <2>4, <3>4, <4>1 DEF Realloc
        <5> QED BY <3>2, <5>1 DEF RefusedOnlyIfImpossible
      <4>2. CASE hm_malloc(n) # Null
        <5>1. obj' = Result(hm_malloc(n), "malloc", n, ALLOC_ALIGN)
          BY <2>4, <3>4, <4>2 DEF Realloc
        <5> QED BY <3>1, <5>1, MallocRefusedOk, ResultRefused
      <4> QED BY <4>1, <4>2
    <3> QED BY <3>3, <3>4
  <2>5. ASSUME Free PROVE RefusedOnlyIfImpossible'
    BY <2>5 DEF Free, RefusedOnlyIfImpossible, NoObj, Result
  <2>6. CASE UNCHANGED vars BY <2>6 DEF vars, RefusedOnlyIfImpossible
  <2> QED BY <2>1, <2>2, <2>3, <2>4, <2>5, <2>6 DEF Next, Allocate
<1> QED BY <1>1, <1>2, PTL DEF Spec

-----------------------------------------------------------------------------
(* Where small blocks lie, and what os_alloc_aligned keeps *)

\* For every block size up to a page, whether or not it divides one: every
\* byte of every block that page_extend carves leads back to its segment and
\* its page, by the masks of segment_of and page_index_of.
THEOREM BlockInPage ==
  ASSUME NEW k \in Nat, NEW i \in 0 .. PAGES_PER_SEGMENT - 1, NEW b \in 1 .. PAGE_SIZE,
         NEW j \in 0 .. capacity(b) - 1, NEW x \in 0 .. b - 1
  PROVE  LET p == block_at(k * SEGMENT_SIZE, i, b, j) + x
         IN region_base(p) = k * SEGMENT_SIZE /\ page_index_of(p) = i
<1> DEFINE c == capacity(b)
           y == j * b + x
           pps == PAGES_PER_SEGMENT
           z == i * PAGE_SIZE + y
           p == block_at(k * SEGMENT_SIZE, i, b, j) + x
<1>1. c \in Nat /\ c = PAGE_SIZE \div b BY Constants, DivMod DEF capacity
<1>2. j + 1 \in Nat /\ j + 1 <= PAGE_SIZE \div b BY <1>1
<1>3. (j + 1) * b <= PAGE_SIZE BY <1>2, Constants, ProductBound
<1>4. (j + 1) * b = j * b + b /\ j * b \in Nat BY <1>1, Constants
<1>5. y \in 0 .. PAGE_SIZE - 1 BY <1>3, <1>4, Constants
<1>6. pps \in Nat /\ pps = SEGMENT_SIZE \div PAGE_SIZE BY Constants, DivMod DEF PAGES_PER_SEGMENT
<1>7. i \in Nat /\ i + 1 <= SEGMENT_SIZE \div PAGE_SIZE BY <1>6
<1>8. (i + 1) * PAGE_SIZE <= SEGMENT_SIZE BY <1>7, Constants, ProductBound
<1>9. (i + 1) * PAGE_SIZE = i * PAGE_SIZE + PAGE_SIZE /\ i * PAGE_SIZE \in Nat BY <1>7, Constants
<1> HIDE DEF y
<1>10. z \in 0 .. SEGMENT_SIZE - 1 BY <1>5, <1>8, <1>9, Constants
<1>11. z = PAGE_SIZE * i + y BY <1>5, <1>7, Constants
<1>12. z \div PAGE_SIZE = i
  <2> HIDE DEF z
  <2>1. z \in Nat BY <1>10, Constants
  <2> QED BY <1>5, <1>7, <1>11, <2>1, Constants, ModOf
<1>13. p = k * SEGMENT_SIZE + z
  <2>1. k * SEGMENT_SIZE \in Nat BY Constants
  <2> QED BY <1>1, <1>4, <1>9, <2>1, Constants DEF block_at, y
<1>14. region_base(p) = k * SEGMENT_SIZE BY <1>10, <1>13, BaseFound
<1>15. p % SEGMENT_SIZE = z
  <2> HIDE DEF z, p
  <2>1. p = SEGMENT_SIZE * k + z /\ p \in Nat BY <1>10, <1>13, Constants
  <2> QED BY <1>10, <2>1, Constants, ModOf
<1> QED BY <1>12, <1>14, <1>15 DEF page_index_of

\* For every size and alignment, wherever the kernel puts the over-sized
\* mapping: the part kept is aligned and lies inside it, and head, region and
\* tail make it up exactly.
THEOREM TrimExact ==
  ASSUME NEW size \in Nat \ {0}, NEW alignment \in Nat \ {0}, alignment > PS,
         NEW base \in Nat \ {0}, base + size + alignment <= WORD
  PROVE  /\ aligned(base, alignment) % alignment = 0
         /\ base <= aligned(base, alignment)
         /\ aligned(base, alignment) + size <= base + over(size, alignment)
         /\ head(base, alignment) + size + tail(base, size, alignment) = over(size, alignment)
         /\ head(base, alignment) + tail(base, size, alignment) = alignment
<1> DEFINE m == round_up(base, alignment)
<1>1. aligned(base, alignment) = m BY DEF aligned, round_up
<1>2. base + alignment - 1 < WORD BY Constants
<1>3. m \in Nat /\ m % alignment = 0 /\ base <= m /\ m < base + alignment BY <1>2, RoundUp
<1>4. over(size, alignment) = size + alignment BY Constants DEF over, add
<1> HIDE DEF m
<1>5. head(base, alignment) = m - base BY <1>1 DEF head
<1>6. tail(base, size, alignment) = alignment - (m - base)
  BY <1>3, <1>4, <1>5 DEF tail
<1> QED BY <1>1, <1>3, <1>4, <1>5, <1>6

=============================================================================
