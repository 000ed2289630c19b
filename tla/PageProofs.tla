----------------------------- MODULE PageProofs -----------------------------
(***************************************************************************)
(* The inductive invariant of Page, for any set of threads, any capacity   *)
(* and any batch.  A list is handled through the set of its blocks:        *)
(* Chain(next, h, NULL, S) says that the links lead from h through all of  *)
(* S, once each, to NULL.  Each lemma about an action shows that it keeps  *)
(* the invariant, and which sets of blocks it moves.                       *)
(***************************************************************************)
EXTENDS Page, LinkProofs

\* A thread is at work on the page's private fields.
Working(t) == pc[t] \in {"exchange", "walk", "available", "release", "handback", "swept"}

\* What a thread's local variables hold at each of its positions.
LocalsOK ==
  \A t \in Thread :
    /\ loc[t].blk # NULL <=> pc[t] \in {"load", "cas"}
    /\ loc[t].list # NULL <=> pc[t] = "walk"
    /\ pc[t] = "cas" => next[loc[t].blk] = loc[t].head
    /\ \A u \in Thread : t # u => loc[t].blk = NULL \/ loc[t].blk # loc[u].blk

\* The owner field tells which list holds the page, and whoever works on the
\* page is its owner or holds the central lock: there is at most one.
ChargeOK ==
  /\ \A t \in Thread : t_heap[t] \in {t, NULL}
  /\ linked = "pool" => owner = NULL /\ free = NULL /\ used = 0
  /\ linked = "heap" => owner \in Thread /\ t_heap[owner] = owner
  /\ linked = "abandoned" => owner = ABANDONED
  /\ \A t \in Thread : Working(t) =>
       \/ /\ linked = "heap" /\ owner = t /\ pc[t] # "swept"
          /\ pc[t] \in {"exchange", "walk"} => loc[t].ret \in {"available", "handback"}
       \/ /\ linked = "abandoned" /\ mtx = t /\ pc[t] \in {"exchange", "walk", "swept"}
          /\ pc[t] \in {"exchange", "walk"} => loc[t].ret = "swept"
  /\ \A t \in Thread : pc[t] = "release" => used = 0

\* A collecting thread has counted n blocks of the detached list, the last of
\* them tail, and the rest of the list follows.
Walked(t, D) ==
  /\ Chain(next, loc[t].list, NULL, D)
  /\ \E P \in SUBSET D : /\ loc[t].tail \in P
                         /\ Cardinality(P) = loc[t].n
                         /\ Chain(next, next[loc[t].tail], NULL, D \ P)

\* L is on the local list, R on the cross-thread list and D on a detached one;
\* with the blocks in flight and the live ones they are the carved blocks.
Shape(L, R, D) ==
  /\ Chain(next, free, NULL, L)
  /\ Chain(next, thread_free, NULL, R)
  /\ D # {} => \E t \in Thread : pc[t] = "walk"
  /\ \A t \in Thread : pc[t] = "walk" => Walked(t, D)
  /\ L \cap R = {} /\ L \cap D = {} /\ L \cap InFlight = {} /\ L \cap live = {}
  /\ R \cap D = {} /\ R \cap InFlight = {} /\ R \cap live = {}
  /\ D \cap InFlight = {} /\ D \cap live = {}
  /\ InFlight \cap live = {}
  /\ linked # "pool" => L \cup R \cup D \cup InFlight \cup live = 1 .. reserved
  /\ used = Cardinality(live \cup InFlight \cup R \cup D)

ListsOK == \E L, R, D \in SUBSET Block : Shape(L, R, D)

\* The inductive invariant.
PInv == TypeOK /\ LocalsOK /\ ChargeOK /\ ListsOK

-----------------------------------------------------------------------------
(* What a step does to the sets of blocks.  Every action is one of these. *)

\* The lists L, R and D become L2, R2 and D2.
Moves(L, R, D, L2, R2, D2) == Shape(L, R, D) /\ Shape(L2, R2, D2)'

SameHands == live' = live /\ InFlight' = InFlight

\* No block changes its place.
Still ==
  /\ \E L, R, D \in SUBSET Block : Moves(L, R, D, L, R, D)
  /\ SameHands /\ used' = used /\ (linked' = "pool" <=> linked = "pool")

\* The first local block goes to the application.
Serves ==
  /\ \E L, R, D \in SUBSET Block, b \in Block :
       /\ b = free /\ b \in L /\ live' = live \cup {b}
       /\ Moves(L, R, D, L \ {b}, R, D)
  /\ InFlight' = InFlight /\ used' = used + 1 /\ linked # "pool" /\ linked' = linked

\* New blocks N become local ones.
Carves ==
  /\ \E N, R, D \in SUBSET Block : /\ Moves({}, R, D, N, R, D)
                                   /\ N \cap (R \cup D \cup InFlight \cup live) = {}
  /\ SameHands /\ used' = used /\ linked # "pool" /\ linked' = linked

\* The cross-thread list is detached.
Detaches ==
  /\ \E L, R \in SUBSET Block : Moves(L, R, {}, L, {}, R)
  /\ SameHands /\ used' = used /\ linked # "pool" /\ linked' = linked

\* A detached list joins the local one, and used no longer counts it.
Joins ==
  /\ \E L, R, D \in SUBSET Block : Moves(L, R, D, D \cup L, R, {}) /\ used' = used - Cardinality(D)
  /\ SameHands /\ linked # "pool" /\ linked' = linked

\* The owner takes a live block back.
Frees ==
  /\ \E L, R \in SUBSET Block, b \in live : Moves(L, R, {}, L \cup {b}, R, {}) /\ live' = live \ {b}
  /\ InFlight' = InFlight /\ used' = used - 1 /\ linked # "pool" /\ linked' = linked

\* Another thread begins to give a live block back ...
Sends ==
  /\ \E L, R, D \in SUBSET Block : Moves(L, R, D, L, R, D)
  /\ \E b \in live : live' = live \ {b} /\ InFlight' = InFlight \cup {b}
  /\ used' = used /\ linked' = linked

\* ... and pushes it onto the cross-thread list.
Pushes ==
  /\ \E L, R, D \in SUBSET Block, b \in InFlight :
       Moves(L, R, D, L, R \cup {b}, D) /\ InFlight' = InFlight \ {b}
  /\ live' = live /\ used' = used /\ linked' = linked

\* The page goes to the pool: all its carved blocks are local ones.
Pools ==
  /\ \E L \in SUBSET Block : Moves(L, {}, {}, {}, {}, {})
  /\ SameHands /\ live = {} /\ InFlight = {}
  /\ used = 0 /\ used' = 0 /\ linked # "pool" /\ linked' = "pool"

\* The page comes out of the pool, nothing carved.
Takes ==
  /\ Moves({}, {}, {}, {}, {}, {})
  /\ SameHands /\ live = {} /\ InFlight = {}
  /\ used' = 0 /\ linked = "pool" /\ linked' # "pool"

SetStep == Still \/ Serves \/ Carves \/ Detaches \/ Joins \/ Frees \/ Sends \/ Pushes \/ Pools \/ Takes

-----------------------------------------------------------------------------
(* Consequences of the invariant *)

\* The initial values of the local variables are among their values.
LEMMA NoLocalsType ==
  NoLocals \in Locals /\ \A r \in {"idle", "available", "handback", "swept"} :
                           [NoLocals EXCEPT !.ret = r] \in Locals
<1> DEFINE Rets == {"idle", "available", "handback", "swept"}
           N == 0 .. Capacity
<1>1. NULL \in Ptr /\ 0 \in N
  BY PageAssumption DEF Ptr
<1>2. NoLocals \in [blk : Ptr, head : Ptr, list : Ptr, tail : Ptr, n : N, ret : Rets]
  <2>1. "idle" \in Rets
    OBVIOUS
  <2> HIDE DEF N, Rets
  <2> QED
    BY <1>1, <2>1 DEF NoLocals
<1>3. \A r \in Rets : [NoLocals EXCEPT !.ret = r]
                        \in [blk : Ptr, head : Ptr, list : Ptr, tail : Ptr, n : N, ret : Rets]
  <2> HIDE DEF N, Rets
  <2> QED
    BY <1>2
<1> QED
  BY <1>2, <1>3 DEF Locals

\* A set of blocks is finite and no larger than the page's capacity.
LEMMA BlocksFinite ==
  \A S \in SUBSET Block : IsFiniteSet(S) /\ Cardinality(S) \in 0 .. Capacity
<1>1. IsFiniteSet(Block) /\ Cardinality(Block) = Capacity
  BY FS_Interval, PageAssumption DEF Block
<1>2. ASSUME NEW S \in SUBSET Block
      PROVE  IsFiniteSet(S) /\ Cardinality(S) \in Nat /\ Cardinality(S) <= Capacity
  BY <1>1, FS_Subset, FS_CardinalityType
<1>3. QED
  BY <1>2, PageAssumption

\* At most one thread works on the private fields.
LEMMA OneWorker ==
  ASSUME ChargeOK, NEW t \in Thread, NEW u \in Thread, Working(t), Working(u)
  PROVE  t = u
BY DEF ChargeOK

\* While the owner is not at work, nobody is.
LEMMA OwnerWorks ==
  ASSUME TypeOK, ChargeOK, NEW t \in Thread, owner = t, ~Working(t), NEW u \in Thread
  PROVE  linked = "heap" /\ ~Working(u)
BY PageAssumption DEF TypeOK, ChargeOK

\* When used is 0 no block is out: none live, none in flight, none on the
\* cross-thread list and none detached.  This is what lets _pool_return (and
\* heap_free_local's and central_sweep's tests of used) give the page up.
LEMMA PoolIdle ==
  ASSUME TypeOK, ListsOK, used = 0
  PROVE  /\ live = {} /\ InFlight = {}
         /\ \A L, R, D \in SUBSET Block : Shape(L, R, D) => R = {} /\ D = {}
<1>1. ASSUME NEW L \in SUBSET Block, NEW R \in SUBSET Block, NEW D \in SUBSET Block, Shape(L, R, D)
      PROVE  live \cup InFlight \cup R \cup D = {}
  <2>1. live \cup InFlight \cup R \cup D \in SUBSET Block
    BY DEF TypeOK, InFlight
  <2>2. Cardinality(live \cup InFlight \cup R \cup D) = 0
    BY <1>1 DEF Shape
  <2>3. QED
    BY <2>1, <2>2, BlocksFinite, FS_EmptySet
<1>2. QED
  BY <1>1 DEF ListsOK

\* No thread's place in a collection changes.
WalkersStay == \A u \in Thread : /\ pc'[u] = "walk" <=> pc[u] = "walk"
                                 /\ pc[u] = "walk" => loc'[u] = loc[u]

\* A step that leaves the walker and the links of the detached list alone
\* leaves what the walker has counted as it was.
LEMMA WalkersKept ==
  ASSUME NEW L, NEW R, NEW D, Shape(L, R, D), WalkersStay, TypeOK, D \in SUBSET Block,
         \A y \in D : next'[y] = next[y]
  PROVE  /\ D # {} => \E t \in Thread : pc'[t] = "walk"
         /\ \A t \in Thread : pc'[t] = "walk" => Walked(t, D)'
<1>1. D # {} => \E t \in Thread : pc'[t] = "walk"
  BY DEF Shape, WalkersStay
<1>2. ASSUME NEW t \in Thread, pc'[t] = "walk" PROVE Walked(t, D)'
  <2>1. pc[t] = "walk" /\ loc'[t] = loc[t] /\ Walked(t, D)
    BY <1>2 DEF Shape, WalkersStay
  <2>2. Chain(next', loc[t].list, NULL, D)
    BY <2>1, ChainFrame DEF Walked
  <2>3. PICK P \in SUBSET D : /\ loc[t].tail \in P
                              /\ Cardinality(P) = loc[t].n
                              /\ Chain(next, next[loc[t].tail], NULL, D \ P)
    BY <2>1 DEF Walked
  <2>4. next'[loc[t].tail] = next[loc[t].tail]
    BY <2>3
  <2>5. Chain(next', next[loc[t].tail], NULL, D \ P)
    BY <2>3, ChainFrame
  <2>6. QED
    BY <2>1, <2>2, <2>3, <2>4, <2>5 DEF Walked
<1>3. QED
  BY <1>1, <1>2

\* The blocks in flight are those in the callers' hands.
LEMMA InFlightKept ==
  ASSUME \A u \in Thread : loc'[u].blk = loc[u].blk
  PROVE  InFlight' = InFlight
BY DEF InFlight

-----------------------------------------------------------------------------

\* The invariant holds of a page in the pool that nobody has used yet.
LEMMA InitPInv == Init => PInv
<1> SUFFICES ASSUME Init PROVE PInv
  OBVIOUS
<1>1. TypeOK
  <2>1. 0 \in 0 .. Capacity
    BY PageAssumption
  <2> QED
    BY <2>1, NoLocalsType DEF Init, TypeOK, Ptr
<1>2. LocalsOK /\ ChargeOK
  BY DEF Init, LocalsOK, ChargeOK, Working, NoLocals
<1>3. InFlight = {}
  BY PageAssumption DEF Init, InFlight, NoLocals
<1>4. Shape({}, {}, {})
  BY <1>3, ChainEmpty, FS_EmptySet DEF Init, Shape
<1>5. QED
  BY <1>1, <1>2, <1>4 DEF PInv, ListsOK

\* The owner hands out the first block of the local list.
LEMMA PopKeepsLists ==
  ASSUME TypeOK, ListsOK, page_pop, WalkersStay,
         \A u \in Thread : loc'[u].blk = loc[u].blk,
         UNCHANGED <<thread_free, linked>>, linked # "pool"
  PROVE  Serves /\ ListsOK' /\ used' \in 0 .. Capacity /\ live' \subseteq Block /\ free' \in Ptr
<1>1. PICK L, R, D \in SUBSET Block : Shape(L, R, D)
  BY DEF ListsOK
<1>2. PICK b \in Block : b = free
  BY DEF page_pop
<1>3. NULL \notin L
  BY PageAssumption
<1>4. b \in L /\ Chain(next, next[b], NULL, L \ {b})
  <2>1. Chain(next, b, NULL, L)
    BY <1>1, <1>2 DEF Shape
  <2>2. b \in L
    BY <1>3, <2>1, ChainHead, PageAssumption
  <2>3. QED
    BY <1>3, <2>1, <2>2, ChainPop
<1>5. next[b] \in Ptr
  BY <1>3, <1>4, ChainHead DEF Ptr
<1>6. InFlight' = InFlight /\ InFlight \in SUBSET Block
  BY InFlightKept DEF InFlight
<1>7. /\ D # {} => \E t \in Thread : pc'[t] = "walk"
      /\ \A t \in Thread : pc'[t] = "walk" => Walked(t, D)'
  BY <1>1, WalkersKept DEF page_pop
<1>8. live' = live \cup {b} /\ next' = next /\ free' = next[b] /\ used' = used + 1 /\ reserved' = reserved
  BY <1>2 DEF page_pop
<1>9. used' = Cardinality(live' \cup InFlight' \cup R \cup D)
  <2> DEFINE Out == live \cup InFlight \cup R \cup D
  <2>1. b \notin Out /\ Out \in SUBSET Block /\ Cardinality(Out) = used
    BY <1>1, <1>4, <1>6 DEF Shape, TypeOK
  <2>2. live' \cup InFlight' \cup R \cup D = Out \cup {b}
    BY <1>6, <1>8
  <2> HIDE DEF Out
  <2>3. Cardinality(Out \cup {b}) = Cardinality(Out) + 1
    BY <2>1, BlocksFinite, FS_AddElement
  <2>4. QED
    BY <1>8, <2>1, <2>2, <2>3
<1>10. Shape(L \ {b}, R, D)'
  BY <1>1, <1>4, <1>6, <1>7, <1>8, <1>9 DEF Shape
<1>11. live' \subseteq Block
  BY <1>8 DEF TypeOK
<1>12. used' \in 0 .. Capacity
  BY <1>6, <1>9, <1>11, BlocksFinite
<1>13. Serves
  BY <1>1, <1>2, <1>4, <1>6, <1>8, <1>10 DEF Serves, Moves
<1>14. ListsOK'
  BY <1>10 DEF ListsOK
<1>15. QED
  BY <1>5, <1>8, <1>11, <1>12, <1>13, <1>14

\* Steps that touch no block and no list.
LEMMA ListsKept ==
  ASSUME TypeOK, ListsOK, WalkersStay,
         \A u \in Thread : loc'[u].blk = loc[u].blk,
         UNCHANGED <<next, free, used, reserved, thread_free, live>>,
         linked' = "pool" <=> linked = "pool"
  PROVE  Still /\ ListsOK'
<1>1. PICK L, R, D \in SUBSET Block : Shape(L, R, D)
  BY DEF ListsOK
<1>2. InFlight' = InFlight
  BY InFlightKept
<1>3. /\ D # {} => \E t \in Thread : pc'[t] = "walk"
      /\ \A t \in Thread : pc'[t] = "walk" => Walked(t, D)'
  BY <1>1, WalkersKept
<1>4. Shape(L, R, D)'
  BY <1>1, <1>2, <1>3 DEF Shape
<1>5. QED
  BY <1>1, <1>2, <1>4 DEF ListsOK, Still, SameHands, Moves

\* pool_return forgets the local list; there is nothing else when used is 0.
LEMMA PoolReturnKeepsLists ==
  ASSUME TypeOK, ListsOK, WalkersStay, used = 0, pool_return, linked # "pool",
         \A u \in Thread : loc'[u].blk = loc[u].blk,
         UNCHANGED <<thread_free, live>>
  PROVE  Pools /\ ListsOK'
<1>1. PICK L, R, D \in SUBSET Block : Shape(L, R, D)
  BY DEF ListsOK
<1>2. InFlight' = InFlight
  BY InFlightKept
<1>3. /\ D # {} => \E t \in Thread : pc'[t] = "walk"
      /\ \A t \in Thread : pc'[t] = "walk" => Walked(t, D)'
  BY <1>1, WalkersKept DEF pool_return
<1>4. Chain(next, NULL, NULL, {})
  BY ChainEmpty
<1>5. Shape({}, R, D)'
  BY <1>1, <1>2, <1>3, <1>4 DEF Shape, pool_return
<1>6. R = {} /\ D = {} /\ live = {} /\ InFlight = {}
  BY <1>1, PoolIdle
<1>7. Pools
  BY <1>1, <1>2, <1>5, <1>6 DEF Pools, SameHands, Moves, pool_return
<1>8. QED
  BY <1>5, <1>7 DEF ListsOK

-----------------------------------------------------------------------------
(* Allocation *)

\* heap_malloc's fast path: a pop by the owner.
LEMMA HeapMallocInv ==
  ASSUME PInv, NEW t \in Thread, HeapMalloc(t)
  PROVE  PInv' /\ SetStep
<1> USE DEF PInv
<1>1. Serves /\ ListsOK' /\ used' \in 0 .. Capacity /\ live' \subseteq Block /\ free' \in Ptr
  BY PopKeepsLists DEF HeapMalloc, Owns, WalkersStay, central
<1>2. \A u \in Thread : ~Working(u)
  BY OwnerWorks DEF HeapMalloc, Owns, ChargeOK, Idle, Working
<1>3. TypeOK'
  BY <1>1 DEF HeapMalloc, page_pop, central, TypeOK
<1>4. LocalsOK' /\ ChargeOK'
  BY <1>2 DEF HeapMalloc, page_pop, central, LocalsOK, ChargeOK, Working, Owns
<1>5. QED
  BY <1>1, <1>3, <1>4 DEF SetStep

\* heap_malloc's slow path begins its collection.
LEMMA HeapMallocSlowInv ==
  ASSUME PInv, NEW t \in Thread, HeapMallocSlow(t)
  PROVE  PInv' /\ SetStep
<1> USE DEF PInv
<1>1. TypeOK'
  BY DEF HeapMallocSlow, Goto, private, central, TypeOK, Locals
<1>2. LocalsOK'
  BY DEF HeapMallocSlow, Goto, private, central, LocalsOK, TypeOK, Locals, Idle
<1>3. ChargeOK'
  BY OwnerWorks DEF HeapMallocSlow, Goto, private, central, ChargeOK, TypeOK, Locals, Idle, Owns, Working
<1>4. Still /\ ListsOK'
  BY ListsKept DEF HeapMallocSlow, Goto, private, central, TypeOK, Locals, Idle, WalkersStay
<1>5. QED
  BY <1>1, <1>2, <1>3, <1>4 DEF SetStep

\* page_malloc's pop after the collection or the extension.
LEMMA PopInv ==
  ASSUME PInv, NEW t \in Thread, Pop(t)
  PROVE  PInv' /\ SetStep
<1> USE DEF PInv
<1>0. WalkersStay /\ \A u \in Thread : loc'[u].blk = loc[u].blk
  BY DEF Pop, WalkersStay, Goto, TypeOK, Locals, LocalsOK, NoLocals
<1>1. Serves /\ ListsOK' /\ used' \in 0 .. Capacity /\ live' \subseteq Block /\ free' \in Ptr
  BY <1>0, PopKeepsLists DEF Pop, central, ChargeOK, Working
<1>2. \A u \in Thread : Working(u) => u = t
  BY OneWorker DEF Pop, Working
<1>3. TypeOK'
  BY <1>1, NoLocalsType DEF Pop, Goto, page_pop, central, TypeOK
<1>4. LocalsOK'
  BY DEF Pop, Goto, page_pop, LocalsOK, TypeOK, Locals, NoLocals
<1>5. ChargeOK'
  BY <1>2 DEF Pop, Goto, page_pop, central, TypeOK, ChargeOK, Working, Owns
<1>6. QED
  BY <1>1, <1>3, <1>4, <1>5 DEF SetStep

\* The slow path gives up on a full page.
LEMMA ExhaustedInv ==
  ASSUME PInv, NEW t \in Thread, Exhausted(t)
  PROVE  PInv' /\ SetStep
<1> USE DEF PInv
<1>0. WalkersStay /\ \A u \in Thread : loc'[u].blk = loc[u].blk
  BY DEF Exhausted, WalkersStay, Goto, TypeOK, Locals, LocalsOK, NoLocals
<1>1. Still /\ ListsOK'
  BY <1>0, ListsKept DEF Exhausted, private, central
<1>3. TypeOK'
  BY NoLocalsType DEF Exhausted, Goto, private, central, TypeOK
<1>4. LocalsOK'
  BY DEF Exhausted, Goto, LocalsOK, TypeOK, Locals, NoLocals
<1>5. ChargeOK'
  BY DEF Exhausted, Goto, private, central, TypeOK, ChargeOK, Working, Owns
<1>6. QED
  BY <1>1, <1>3, <1>4, <1>5 DEF SetStep

\* page_extend threads consecutive blocks of the bump area, which no list and
\* no thread has.
LEMMA PageExtendInv ==
  ASSUME PInv, NEW t \in Thread, page_extend(t)
  PROVE  PInv' /\ SetStep
<1> USE DEF PInv
<1>1. PICK L, R, D \in SUBSET Block : Shape(L, R, D)
  BY DEF ListsOK
<1>2. PICK first \in Block, last \in Block :
        /\ first = reserved + 1 /\ first <= last
        /\ free = NULL /\ free' = first /\ reserved' = last
        /\ next' = [b \in Block |-> IF b \in first .. last
                                      THEN IF b = last THEN NULL ELSE b + 1
                                      ELSE next[b]]
  <2> DEFINE l == IF reserved + Batch > Capacity THEN Capacity ELSE reserved + Batch
  <2>1. reserved + 1 \in Block /\ l \in Block /\ reserved + 1 <= l
    <3>1. reserved \in 0 .. Capacity /\ reserved < Capacity
      BY DEF page_extend, TypeOK
    <3> QED
      BY <3>1, PageAssumption DEF Block
  <2>2. free = NULL /\ free' = reserved + 1 /\ reserved' = l
    BY DEF page_extend
  <2>3. next' = [b \in Block |-> IF b \in reserved + 1 .. l
                                      THEN IF b = l THEN NULL ELSE b + 1
                                      ELSE next[b]]
    BY DEF page_extend
  <2> HIDE DEF l
  <2>4. QED
    BY <2>1, <2>2, <2>3
<1>3. /\ linked = "heap" /\ used' = used /\ live' = live /\ pc' = pc /\ loc' = loc
      /\ thread_free' = thread_free /\ linked' = linked
  BY DEF page_extend, central, ChargeOK, Working
<1>4. L = {}
  <2>1. NULL \notin L /\ Chain(next, NULL, NULL, L)
    BY <1>1, <1>2, PageAssumption DEF Shape
  <2>2. QED
    BY <2>1, ChainHead
<1>5. R \cup D \cup InFlight \cup live = 1 .. reserved
  BY <1>1, <1>3, <1>4 DEF Shape
<1> DEFINE N == first .. last
<1>6. N \in SUBSET Block /\ N \cap (1 .. reserved) = {} /\ (1 .. reserved) \cup N = 1 .. last
  <2>1. reserved \in 0 .. Capacity
    BY DEF TypeOK
  <2> QED
    BY <1>2, <2>1, PageAssumption DEF Block
<1>7. \A b \in N : next'[b] = IF b = last THEN NULL ELSE b + 1
  BY <1>2, <1>6
<1>8. \A b \in 1 .. reserved : next'[b] = next[b]
  <2>1. \A b \in 1 .. reserved : b \in Block /\ b \notin N
    <3>1. reserved \in 0 .. Capacity
      BY DEF TypeOK
    <3> QED
      BY <1>2, <3>1, PageAssumption DEF Block
  <2> HIDE DEF N
  <2> QED
    BY <1>2, <2>1 DEF N
<1>9. Chain(next', first, NULL, N)
  <2>1. first \in Nat /\ last \in Nat
    BY PageAssumption DEF Block
  <2>2. QED
    BY <1>2, <1>7, <2>1, ChainRun
<1> HIDE DEF N
<1>10. Chain(next', thread_free, NULL, R)
  <2>1. \A b \in R : next'[b] = next[b]
    BY <1>5, <1>8
  <2>2. QED
    BY <1>1, <2>1, ChainFrame DEF Shape
<1>11. InFlight' = InFlight
  BY <1>3, InFlightKept
<1>12. /\ D # {} => \E u \in Thread : pc'[u] = "walk"
       /\ \A u \in Thread : pc'[u] = "walk" => Walked(u, D)'
  <2>1. \A b \in D : next'[b] = next[b]
    BY <1>5, <1>8
  <2>2. WalkersStay
    BY <1>3 DEF WalkersStay
  <2>3. QED
    BY <1>1, <2>1, <2>2, WalkersKept
<1>13. N \cup R \cup D \cup InFlight \cup live = 1 .. last
  BY <1>5, <1>6
<1>14. N \cap R = {} /\ N \cap D = {} /\ N \cap InFlight = {} /\ N \cap live = {}
  BY <1>5, <1>6
<1>15. Shape(N, R, D)'
  BY <1>1, <1>2, <1>3, <1>9, <1>10, <1>11, <1>12, <1>13, <1>14 DEF Shape
<1>16. Carves /\ ListsOK'
  BY <1>1, <1>3, <1>4, <1>6, <1>11, <1>14, <1>15 DEF ListsOK, Carves, SameHands, Moves
<1>17. TypeOK'
  <2>1. \A b \in Block : b \in first .. last /\ b # last => b + 1 \in Block
    BY <1>2, PageAssumption DEF Block
  <2>2. next' \in [Block -> Ptr \cup {JUNK}]
    BY <1>2, <2>1 DEF TypeOK, Ptr
  <2>3. free' \in Ptr /\ reserved' \in 0 .. Capacity
    BY <1>2 DEF Ptr, Block
  <2>4. QED
    BY <2>2, <2>3 DEF page_extend, central, TypeOK
<1>18. LocalsOK'
  <2>1. ASSUME NEW u \in Thread, pc[u] = "cas" PROVE next'[loc[u].blk] = next[loc[u].blk]
    <3>1. loc[u].blk \in InFlight
      BY <2>1 DEF LocalsOK, TypeOK, Locals, Ptr, InFlight
    <3>2. QED
      BY <1>5, <1>8, <3>1
  <2>2. QED
    BY <1>3, <2>1 DEF LocalsOK
<1>19. ChargeOK'
  BY <1>2, <1>3 DEF page_extend, central, ChargeOK, Working
<1>20. QED
  BY <1>16, <1>17, <1>18, <1>19 DEF SetStep

-----------------------------------------------------------------------------
(* Collection *)

\* page_collect's exchange: the cross-thread list becomes the detached one,
\* whole, whatever was pushed before.
LEMMA ExchangeInv ==
  ASSUME PInv, NEW t \in Thread, Exchange(t)
  PROVE  PInv' /\ SetStep
<1> USE DEF PInv
<1>u. \A u \in Thread : Working(u) => u = t
  BY OneWorker DEF Exchange, Working
<1>r. loc[t].ret \in {"available", "handback", "swept"}
  BY DEF Exchange, ChargeOK, Working
<1>1. CASE thread_free = NULL
  <2>1. pc' = [pc EXCEPT ![t] = loc[t].ret] /\ loc' = loc /\ thread_free' = thread_free
    BY <1>1 DEF Exchange, Goto
  <2>2. TypeOK'
    BY <1>r, <2>1 DEF Exchange, private, central, TypeOK
  <2>3. LocalsOK'
    BY <1>r, <2>1 DEF Exchange, private, central, TypeOK, LocalsOK
  <2>4. ChargeOK'
    BY <1>r, <2>1 DEF Exchange, private, central, TypeOK, ChargeOK, Working
  <2>5. WalkersStay
    BY <1>r, <2>1 DEF Exchange, TypeOK, WalkersStay
  <2>6. Still /\ ListsOK'
    BY <2>1, <2>5, ListsKept DEF Exchange, private, central
  <2> QED
    BY <2>2, <2>3, <2>4, <2>6 DEF SetStep
<1>2. CASE thread_free # NULL
  <2>1. /\ pc' = [pc EXCEPT ![t] = "walk"] /\ thread_free' = NULL
        /\ loc' = [loc EXCEPT ![t] = [loc[t] EXCEPT !.list = thread_free, !.tail = thread_free, !.n = 1]]
        /\ UNCHANGED <<next, private, central, t_heap, live>>
    BY <1>2 DEF Exchange, Goto
  <2>2. PICK h \in Block : h = thread_free
    BY <1>2 DEF TypeOK, Ptr
  <2>3. /\ loc'[t].list = h /\ loc'[t].tail = h /\ loc'[t].n = 1
        /\ loc'[t].blk = loc[t].blk /\ loc'[t].head = loc[t].head /\ loc'[t].ret = loc[t].ret
        /\ \A u \in Thread : u # t => loc'[u] = loc[u] /\ pc'[u] = pc[u]
        /\ pc'[t] = "walk"
    BY <2>1, <2>2 DEF TypeOK, Locals
  <2>4. TypeOK'
    <3>1. 1 \in 0 .. Capacity
      BY PageAssumption
    <3>2. NULL \in Ptr
      BY DEF Ptr
    <3> QED
      BY <2>1, <2>2, <3>1, <3>2 DEF private, central, TypeOK, Locals
  <2>5. LocalsOK'
    BY <2>1, <2>2, <2>3, PageAssumption DEF Exchange, LocalsOK
  <2>6. ChargeOK'
    <3>1. pc[t] = "exchange" /\ \A u \in Thread : u # t => ~Working(u)'
      BY <1>u, <2>3 DEF Exchange, Working
    <3>2. \A u \in Thread : pc'[u] # "release"
      BY <2>3, <3>1 DEF Working
    <3> QED
      BY <2>1, <2>3, <3>1, <3>2 DEF private, central, ChargeOK, Working
  <2>8. linked # "pool"
    BY DEF Exchange, ChargeOK, Working
  <2>7. Detaches /\ ListsOK'
    <3>1. PICK L, R, D \in SUBSET Block : Shape(L, R, D)
      BY DEF ListsOK
    <3>2. \A u \in Thread : pc[u] # "walk"
      BY <1>u DEF Exchange, Working
    <3>3. D = {}
      BY <3>1, <3>2 DEF Shape
    <3>4. h \in R /\ NULL \notin R /\ Chain(next, h, NULL, R)
      BY <2>2, <3>1, ChainHead, PageAssumption DEF Shape
    <3>5. InFlight' = InFlight
      BY <2>3, InFlightKept
    <3>6. Walked(t, R)'
      <4>1. Chain(next, next[h], NULL, R \ {h})
        BY <3>4, ChainPop
      <4>2. Cardinality({h}) = 1
        BY FS_Singleton
      <4>3. {h} \in SUBSET R
        BY <3>4
      <4> QED
        BY <2>1, <2>3, <3>4, <4>1, <4>2, <4>3 DEF Walked
    <3>7. \A u \in Thread : pc'[u] = "walk" => u = t
      BY <2>3, <3>2
    <3>8. Chain(next, NULL, NULL, {})
      BY ChainEmpty
    <3>9. Shape(L, {}, R)'
      <4>1. live \cup InFlight \cup R \cup D = live \cup InFlight \cup {} \cup R
        BY <3>3
      <4> QED
        BY <2>1, <2>3, <3>1, <3>3, <3>5, <3>6, <3>7, <3>8, <4>1 DEF Shape, private, central
    <3> QED
      BY <2>1, <2>8, <3>1, <3>3, <3>5, <3>9 DEF ListsOK, Detaches, SameHands, Moves, private, central
  <2> QED
    BY <2>4, <2>5, <2>6, <2>7 DEF SetStep
<1> QED
  BY <1>1, <1>2

\* page_collect counts one more block of the detached list.
LEMMA WalkInv ==
  ASSUME PInv, NEW t \in Thread, Walk(t)
  PROVE  PInv' /\ SetStep
<1> USE DEF PInv
<1>1. PICK L, R, D \in SUBSET Block : Shape(L, R, D)
  BY DEF ListsOK
<1>2. Walked(t, D)
  BY <1>1 DEF Shape, Walk
<1>3. PICK P \in SUBSET D : /\ loc[t].tail \in P
                            /\ Cardinality(P) = loc[t].n
                            /\ Chain(next, next[loc[t].tail], NULL, D \ P)
  BY <1>2 DEF Walked
<1>4. PICK h \in Block : h = next[loc[t].tail]
  BY DEF Walk
<1>5. h \in D \ P /\ Chain(next, next[h], NULL, (D \ P) \ {h})
  <2>1. NULL \notin D \ P /\ h # NULL
    BY PageAssumption
  <2>2. h \in D \ P
    BY <1>3, <1>4, <2>1, ChainHead
  <2> QED
    BY <1>3, <1>4, <2>1, <2>2, ChainPop
<1>6. Cardinality(P \cup {h}) = loc[t].n + 1 /\ loc[t].n + 1 \in 0 .. Capacity
  <2>1. P \in SUBSET Block /\ P \cup {h} \in SUBSET Block
    OBVIOUS
  <2>2. Cardinality(P \cup {h}) = loc[t].n + 1
    BY <1>3, <1>5, <2>1, BlocksFinite, FS_AddElement
  <2> QED
    BY <2>1, <2>2, BlocksFinite
<1>7. /\ loc' = [loc EXCEPT ![t] = [loc[t] EXCEPT !.tail = h, !.n = loc[t].n + 1]]
      /\ UNCHANGED <<next, private, central, thread_free, t_heap, live, pc>>
  BY <1>4 DEF Walk
<1>8. /\ loc'[t].list = loc[t].list /\ loc'[t].tail = h /\ loc'[t].n = loc[t].n + 1
      /\ loc'[t].blk = loc[t].blk /\ loc'[t].head = loc[t].head /\ loc'[t].ret = loc[t].ret
      /\ \A u \in Thread : u # t => loc'[u] = loc[u]
  BY <1>7 DEF TypeOK, Locals
<1>9. TypeOK'
  <2>1. h \in Ptr
    BY DEF Ptr
  <2> QED
    BY <1>6, <1>7, <2>1 DEF private, central, TypeOK, Locals
<1>10. LocalsOK'
  BY <1>7, <1>8 DEF LocalsOK
<1>11. ChargeOK'
  BY <1>7, <1>8 DEF private, central, ChargeOK, Working
<1>12. Walked(t, D)'
  <2>1. (D \ P) \ {h} = D \ (P \cup {h}) /\ P \cup {h} \in SUBSET D
    BY <1>5
  <2> QED
    BY <1>2, <1>5, <1>6, <1>7, <1>8, <2>1 DEF Walked
<1>13. \A u \in Thread : pc[u] = "walk" => u = t
  BY OneWorker DEF Walk, Working
<1>14. InFlight' = InFlight
  BY <1>8, InFlightKept
<1>15. Shape(L, R, D)'
  BY <1>1, <1>7, <1>12, <1>13, <1>14 DEF Shape, private, central
<1> QED
  BY <1>1, <1>7, <1>9, <1>10, <1>11, <1>14, <1>15
  DEF ListsOK, SetStep, Still, SameHands, Moves, private, central

\* page_collect joins the detached list to the local one.
LEMMA SpliceInv ==
  ASSUME PInv, NEW t \in Thread, Splice(t)
  PROVE  PInv' /\ SetStep
<1> USE DEF PInv
<1>1. PICK L, R, D \in SUBSET Block : Shape(L, R, D)
  BY DEF ListsOK
<1>2. Walked(t, D)
  BY <1>1 DEF Shape, Splice
<1>3. PICK P \in SUBSET D : /\ loc[t].tail \in P
                            /\ Cardinality(P) = loc[t].n
                            /\ Chain(next, next[loc[t].tail], NULL, D \ P)
  BY <1>2 DEF Walked
<1>4. P = D
  <2>1. NULL \notin D \ P /\ next[loc[t].tail] = NULL
    BY PageAssumption DEF Splice
  <2>2. D \ P = {}
    BY <1>3, <2>1, ChainHead
  <2> QED
    BY <2>2
<1>5. PICK h \in Block, e \in D : h = loc[t].list /\ e = loc[t].tail
  <2>1. loc[t].list \in Block
    <3>1. loc[t].list # NULL
      BY DEF Splice, LocalsOK
    <3>2. loc[t].list \in Ptr
      BY DEF TypeOK, Locals
    <3> QED
      BY <3>1, <3>2 DEF Ptr
  <2> QED
    BY <1>3, <2>1
<1>6. /\ next' = [next EXCEPT ![e] = free] /\ free' = h /\ used' = used - Cardinality(D)
      /\ pc' = [pc EXCEPT ![t] = loc[t].ret]
      /\ loc' = [loc EXCEPT ![t] = [NoLocals EXCEPT !.ret = loc[t].ret]]
      /\ UNCHANGED <<reserved, central, thread_free, t_heap, live>>
  BY <1>3, <1>4, <1>5 DEF Splice, Goto
<1>7. Chain(next', h, NULL, D \cup L)
  <2>1. /\ Chain(next, h, NULL, D) /\ Chain(next, free, NULL, L) /\ D \cap L = {} /\ NULL \notin D
        /\ next[e] = NULL
    BY <1>1, <1>2, <1>5, PageAssumption DEF Walked, Shape, Splice
  <2>2. next'[e] = free /\ \A w \in D \cup L : w # e => next'[w] = next[w]
    BY <1>6 DEF TypeOK
  <2> QED
    BY <2>1, <2>2, ChainSplice
<1>8. Chain(next', thread_free, NULL, R)
  <2>1. \A w \in R : next'[w] = next[w]
    BY <1>1, <1>6 DEF Shape, TypeOK
  <2> QED
    BY <1>1, <2>1, ChainFrame DEF Shape
<1>r. loc[t].ret \in {"available", "handback", "swept"}
  BY DEF Splice, ChargeOK, Working
<1>9. /\ loc'[t].list = NULL /\ loc'[t].blk = NULL /\ loc[t].blk = NULL
      /\ \A u \in Thread : u # t => loc'[u] = loc[u] /\ pc'[u] = pc[u]
      /\ pc'[t] = loc[t].ret
  <2>1. loc[t].blk = NULL
    BY DEF Splice, LocalsOK
  <2>2. loc'[t] = [NoLocals EXCEPT !.ret = loc[t].ret]
    BY <1>6 DEF TypeOK
  <2>3. loc'[t].list = NULL /\ loc'[t].blk = NULL
    BY <2>2 DEF NoLocals
  <2> QED
    BY <1>6, <2>1, <2>3 DEF TypeOK
<1>10. \A u \in Thread : Working(u) => u = t
  BY OneWorker DEF Splice, Working
<1>11. \A u \in Thread : pc'[u] # "walk"
  BY <1>9, <1>10, <1>r DEF Working
<1>12. InFlight' = InFlight
  BY <1>9, InFlightKept
<1>13. used' = Cardinality(live \cup InFlight \cup R) /\ used' \in 0 .. Capacity
  <2> DEFINE Out == live \cup InFlight \cup R
  <2>1. Out \in SUBSET Block /\ Out \cap D = {} /\ used = Cardinality(Out \cup D)
    BY <1>1 DEF Shape, TypeOK, InFlight
  <2> HIDE DEF Out
  <2>2. /\ IsFiniteSet(Out) /\ IsFiniteSet(D) /\ Cardinality(Out) \in 0 .. Capacity
        /\ Cardinality(D) \in 0 .. Capacity
    BY <2>1, BlocksFinite
  <2>3. Cardinality(Out \cup D) = Cardinality(Out) + Cardinality(D) - Cardinality({})
    BY <2>1, <2>2, FS_Union
  <2>4. used' = Cardinality(Out)
    BY <1>6, <2>1, <2>2, <2>3, FS_EmptySet
  <2> QED
    BY <2>2, <2>4 DEF Out
<1>14. Shape(D \cup L, R, {})'
  <2>1. live \cup InFlight \cup R \cup {} = live \cup InFlight \cup R
    OBVIOUS
  <2>2. (D \cup L) \cup R \cup {} \cup InFlight \cup live = L \cup R \cup D \cup InFlight \cup live
    OBVIOUS
  <2> QED
    BY <1>1, <1>6, <1>7, <1>8, <1>11, <1>12, <1>13, <2>1, <2>2 DEF Shape, central
<1>15. Joins /\ ListsOK'
  <2>1. linked # "pool"
    BY DEF Splice, ChargeOK, Working
  <2> QED
    BY <1>1, <1>6, <1>12, <1>14, <2>1 DEF ListsOK, Joins, SameHands, Moves, central
<1>16. TypeOK'
  <2>1. next' \in [Block -> Ptr \cup {JUNK}] /\ free' \in Ptr
    BY <1>6 DEF TypeOK, Ptr
  <2>2. loc' \in [Thread -> Locals]
    BY <1>6, <1>r, NoLocalsType DEF TypeOK
  <2>3. pc' \in [Thread -> {"idle", "exchange", "walk", "available", "load", "cas",
                            "release", "handback", "swept"}]
    BY <1>6, <1>r DEF TypeOK
  <2> QED
    BY <1>6, <1>13, <2>1, <2>2, <2>3 DEF TypeOK, central
<1>17. LocalsOK'
  <2>1. ASSUME NEW u \in Thread, pc[u] = "cas" PROVE next'[loc[u].blk] = next[loc[u].blk]
    <3>1. loc[u].blk \in InFlight /\ loc[u].blk \in Block
      BY <2>1 DEF LocalsOK, TypeOK, Locals, Ptr, InFlight
    <3>2. loc[u].blk # e
      BY <1>1, <3>1 DEF Shape
    <3>3. QED
      BY <1>6, <3>1, <3>2 DEF TypeOK
  <2>2. \A u \in Thread : u # t => loc'[u] = loc[u] /\ pc'[u] = pc[u]
    BY <1>9
  <2>3. pc'[t] \notin {"load", "cas", "walk"}
    BY <1>9, <1>r
  <2>4. ASSUME NEW u \in Thread
        PROVE  /\ loc'[u].blk # NULL <=> pc'[u] \in {"load", "cas"}
               /\ loc'[u].list # NULL <=> pc'[u] = "walk"
               /\ pc'[u] = "cas" => next'[loc'[u].blk] = loc'[u].head
    BY <1>9, <2>1, <2>2, <2>3 DEF LocalsOK
  <2>5. \A u, v \in Thread : u # v => loc'[u].blk = NULL \/ loc'[u].blk # loc'[v].blk
    BY <1>9, <2>2 DEF LocalsOK
  <2>6. QED
    BY <2>4, <2>5 DEF LocalsOK
<1>18. ChargeOK'
  <2>1. \A u \in Thread : u # t => ~Working(u)'
    BY <1>9, <1>10 DEF Working
  <2>2. linked # "pool" /\ pc[t] = "walk"
    BY DEF Splice, ChargeOK, Working
  <2>3. \A u \in Thread : pc'[u] # "release"
    BY <1>9, <1>r, <2>1 DEF Working
  <2> QED
    BY <1>6, <1>9, <1>r, <2>1, <2>2, <2>3 DEF ChargeOK, Working, central
<1> QED
  BY <1>15, <1>16, <1>17, <1>18 DEF SetStep

-----------------------------------------------------------------------------
(* Freeing *)

\* While the page is in the pool the application has no block of it.
LEMMA LiveIsHeld ==
  ASSUME PInv, live # {}
  PROVE  linked # "pool" /\ owner # NULL
<1>1. linked # "pool"
  BY PoolIdle DEF PInv, ChargeOK
<1>2. QED
  BY <1>1, PageAssumption DEF PInv, ChargeOK, TypeOK

\* heap_free_local puts a live block at the head of the local list.
LEMMA FreeLocalInv ==
  ASSUME PInv, NEW t \in Thread, NEW b \in Block, FreeLocal(t, b)
  PROVE  PInv' /\ SetStep
<1> USE DEF PInv
<1>1. PICK L, R, D \in SUBSET Block : Shape(L, R, D)
  BY DEF ListsOK
<1>2. owner = t /\ linked = "heap" /\ pc[t] = "idle" /\ \A u \in Thread : ~Working(u)
  <2>1. owner = t
    BY LiveIsHeld DEF FreeLocal, ChargeOK
  <2>2. pc[t] = "idle" /\ ~Working(t)
    BY DEF FreeLocal, Idle, Working
  <2> QED
    BY <2>1, <2>2, OwnerWorks
<1>3. /\ live' = live \ {b} /\ b \in live /\ next' = [next EXCEPT ![b] = free] /\ free' = b /\ used' = used - 1
      /\ pc' = pc \/ (used' = 0 /\ pc' = [pc EXCEPT ![t] = "release"])
      /\ UNCHANGED <<reserved, central, thread_free, t_heap, loc>>
  BY DEF FreeLocal, Goto
<1>4. \A u \in Thread : pc'[u] = pc[u] \/ (u = t /\ pc'[u] = "release" /\ used' = 0)
  BY <1>3 DEF TypeOK
<1>5. \A y \in Block : y # b => next'[y] = next[y]
  BY <1>3 DEF TypeOK
<1>6. b \notin L /\ b \notin R /\ b \notin D /\ b \notin InFlight
  BY <1>1, <1>3 DEF Shape
<1>7. Chain(next', b, NULL, L \cup {b})
  <2>1. Chain(next, free, NULL, L) /\ next'[b] = free /\ \A y \in L : next'[y] = next[y]
    BY <1>1, <1>3, <1>5, <1>6 DEF Shape, TypeOK
  <2> QED
    BY <1>6, <2>1, ChainPush
<1>8. Chain(next', thread_free, NULL, R)
  <2>1. \A y \in R : next'[y] = next[y]
    BY <1>5, <1>6
  <2> QED
    BY <1>1, <2>1, ChainFrame DEF Shape
<1>9. InFlight' = InFlight
  BY <1>3, InFlightKept
<1>10. \A u \in Thread : pc'[u] # "walk"
  BY <1>2, <1>4 DEF Working
<1>11. D = {}
  BY <1>1, <1>2 DEF Shape, Working
<1>12. used' = Cardinality(live' \cup InFlight \cup R \cup D) /\ used' \in 0 .. Capacity
  <2> DEFINE Out == live \cup InFlight \cup R \cup D
  <2>1. Out \in SUBSET Block /\ b \in Out /\ used = Cardinality(Out)
    BY <1>1, <1>3 DEF Shape, TypeOK, InFlight
  <2>2. live' \cup InFlight \cup R \cup D = Out \ {b}
    BY <1>3, <1>6
  <2> HIDE DEF Out
  <2>3. Cardinality(Out \ {b}) = used - 1 /\ Cardinality(Out \ {b}) \in 0 .. Capacity
    BY <2>1, BlocksFinite, FS_RemoveElement
  <2> QED
    BY <1>3, <2>2, <2>3
<1>13. (L \cup {b}) \cup R \cup D \cup InFlight \cup live' = L \cup R \cup D \cup InFlight \cup live
  BY <1>3
<1>14. Shape(L \cup {b}, R, D)'
  BY <1>1, <1>3, <1>6, <1>7, <1>8, <1>9, <1>10, <1>11, <1>12, <1>13 DEF Shape, central
<1>15. Frees /\ ListsOK'
  BY <1>1, <1>2, <1>3, <1>9, <1>11, <1>14 DEF ListsOK, Frees, Moves, central
<1>16. TypeOK'
  <2>1. next' \in [Block -> Ptr \cup {JUNK}] /\ free' \in Ptr /\ live' \subseteq Block
    BY <1>3 DEF TypeOK, Ptr
  <2>2. pc' \in [Thread -> {"idle", "exchange", "walk", "available", "load", "cas",
                            "release", "handback", "swept"}]
    BY <1>3 DEF TypeOK
  <2> QED
    BY <1>3, <1>12, <2>1, <2>2 DEF TypeOK, central
<1>17. LocalsOK'
  <2>1. ASSUME NEW u \in Thread, pc[u] = "cas" PROVE next'[loc[u].blk] = next[loc[u].blk]
    <3>1. loc[u].blk \in InFlight /\ loc[u].blk \in Block
      BY <2>1 DEF LocalsOK, TypeOK, Locals, Ptr, InFlight
    <3> QED
      BY <1>5, <1>6, <3>1
  <2> QED
    BY <1>2, <1>3, <1>4, <2>1 DEF LocalsOK
<1>18. ChargeOK'
  BY <1>2, <1>3, <1>4 DEF ChargeOK, Working, central
<1> QED
  BY <1>15, <1>16, <1>17, <1>18 DEF SetStep

\* page_free_remote begins: the block leaves the application's hands.
LEMMA FreeRemoteInv ==
  ASSUME PInv, NEW t \in Thread, NEW b \in Block, FreeRemote(t, b)
  PROVE  PInv' /\ SetStep
<1> USE DEF PInv
<1>1. PICK L, R, D \in SUBSET Block : Shape(L, R, D)
  BY DEF ListsOK
<1>2. /\ b \in live /\ live' = live \ {b} /\ pc[t] = "idle"
      /\ pc' = [pc EXCEPT ![t] = "load"]
      /\ loc' = [loc EXCEPT ![t] = [loc[t] EXCEPT !.blk = b]]
      /\ UNCHANGED <<next, private, central, thread_free, t_heap>>
  BY DEF FreeRemote, Goto, Idle
<1>3. /\ loc'[t].blk = b /\ loc'[t].list = loc[t].list /\ pc'[t] = "load"
      /\ \A u \in Thread : u # t => loc'[u] = loc[u] /\ pc'[u] = pc[u]
  BY <1>2 DEF TypeOK, Locals
<1>4. \A u \in Thread : loc[u].blk # b
  BY <1>1, <1>2 DEF Shape, InFlight
<1>5. loc[t].blk = NULL
  BY <1>2 DEF LocalsOK
<1>6. InFlight' = InFlight \cup {b}
  BY <1>3, <1>5, PageAssumption DEF InFlight
<1>7. WalkersStay
  BY <1>2, <1>3 DEF WalkersStay
<1>8. /\ D # {} => \E u \in Thread : pc'[u] = "walk"
      /\ \A u \in Thread : pc'[u] = "walk" => Walked(u, D)'
  BY <1>1, <1>2, <1>7, WalkersKept
<1>9. /\ live' \cup InFlight' \cup R \cup D = live \cup InFlight \cup R \cup D
      /\ L \cup R \cup D \cup InFlight' \cup live' = L \cup R \cup D \cup InFlight \cup live
  BY <1>2, <1>6
<1>10. Shape(L, R, D)'
  BY <1>1, <1>2, <1>6, <1>8, <1>9 DEF Shape, private, central
<1>11. TypeOK'
  <2>1. b \in Ptr /\ live' \subseteq Block
    BY <1>2 DEF Ptr, TypeOK
  <2> QED
    BY <1>2, <2>1 DEF TypeOK, Locals, private, central
<1>12. LocalsOK'
  BY <1>2, <1>3, <1>4, PageAssumption DEF LocalsOK
<1>13. ChargeOK'
  BY <1>2, <1>3 DEF ChargeOK, Working, private, central
<1> QED
  BY <1>1, <1>2, <1>6, <1>10, <1>11, <1>12, <1>13
  DEF ListsOK, SetStep, Sends, Moves, private, central

\* Linking the block in flight to the head just read, the first time or after
\* a failed compare-and-swap.
LEMMA LinkInv ==
  ASSUME PInv, NEW t \in Thread, RemoteLoad(t) \/ RemoteRetry(t)
  PROVE  PInv' /\ SetStep
<1> USE DEF PInv
<1>1. PICK L, R, D \in SUBSET Block : Shape(L, R, D)
  BY DEF ListsOK
<1>2. PICK b \in Block : b = loc[t].blk
  <2>1. loc[t].blk # NULL /\ loc[t].blk \in Ptr
    BY DEF RemoteLoad, RemoteRetry, LocalsOK, TypeOK, Locals
  <2> QED
    BY <2>1 DEF Ptr
<1>3. /\ loc' = [loc EXCEPT ![t] = [loc[t] EXCEPT !.head = thread_free]]
      /\ next' = [next EXCEPT ![b] = thread_free]
      /\ pc[t] \in {"load", "cas"} /\ pc' = [pc EXCEPT ![t] = "cas"]
      /\ UNCHANGED <<private, central, thread_free, t_heap, live>>
  <2>1. CASE RemoteLoad(t)
    BY <1>2, <2>1 DEF RemoteLoad, Goto
  <2>2. CASE RemoteRetry(t)
    <3>1. pc' = [pc EXCEPT ![t] = "cas"]
      BY <2>2 DEF RemoteRetry, TypeOK
    <3> QED
      BY <1>2, <2>2, <3>1 DEF RemoteRetry
  <2> QED
    BY <2>1, <2>2
<1>4. /\ loc'[t].blk = b /\ loc'[t].list = loc[t].list /\ loc'[t].head = thread_free /\ pc'[t] = "cas"
      /\ \A u \in Thread : u # t => loc'[u] = loc[u] /\ pc'[u] = pc[u]
  BY <1>2, <1>3 DEF TypeOK, Locals
<1>5. b \in InFlight /\ b \notin L /\ b \notin R /\ b \notin D
  BY <1>1, <1>2 DEF Shape, InFlight
<1>6. next'[b] = thread_free /\ \A y \in Block : y # b => next'[y] = next[y]
  BY <1>3 DEF TypeOK
<1>7. Chain(next', free, NULL, L) /\ Chain(next', thread_free, NULL, R)
  <2>1. \A y \in L \cup R : next'[y] = next[y]
    BY <1>5, <1>6
  <2> QED
    BY <1>1, <2>1, ChainFrame DEF Shape
<1>8. InFlight' = InFlight
  BY <1>2, <1>4, InFlightKept
<1>9. /\ D # {} => \E u \in Thread : pc'[u] = "walk"
      /\ \A u \in Thread : pc'[u] = "walk" => Walked(u, D)'
  <2>1. \A y \in D : next'[y] = next[y]
    BY <1>5, <1>6
  <2>2. WalkersStay
    BY <1>3, <1>4 DEF WalkersStay
  <2> QED
    BY <1>1, <2>1, <2>2, WalkersKept
<1>10. Shape(L, R, D)'
  BY <1>1, <1>3, <1>7, <1>8, <1>9 DEF Shape, private, central
<1>11. TypeOK'
  <2>1. next' \in [Block -> Ptr \cup {JUNK}]
    BY <1>3 DEF TypeOK
  <2>2. loc' \in [Thread -> Locals]
    BY <1>3 DEF TypeOK, Locals
  <2> QED
    BY <1>3, <2>1, <2>2 DEF TypeOK, private, central
<1>12. LocalsOK'
  <2>1. ASSUME NEW u \in Thread, u # t, pc[u] = "cas" PROVE next'[loc[u].blk] = next[loc[u].blk]
    <3>1. loc[u].blk \in Block
      BY <2>1 DEF LocalsOK, TypeOK, Locals, Ptr
    <3>2. loc[u].blk # b
      BY <1>2, <2>1, <3>1, PageAssumption DEF LocalsOK
    <3> QED
      BY <1>6, <3>1, <3>2
  <2>2. ASSUME NEW u \in Thread
        PROVE  /\ loc'[u].blk # NULL <=> pc'[u] \in {"load", "cas"}
               /\ loc'[u].list # NULL <=> pc'[u] = "walk"
               /\ pc'[u] = "cas" => next'[loc'[u].blk] = loc'[u].head
    BY <1>2, <1>3, <1>4, <1>6, <2>1, PageAssumption DEF LocalsOK
  <2>3. \A u, v \in Thread : u # v => loc'[u].blk = NULL \/ loc'[u].blk # loc'[v].blk
    BY <1>2, <1>4 DEF LocalsOK
  <2> QED
    BY <2>2, <2>3 DEF LocalsOK
<1>13. ChargeOK'
  BY <1>3, <1>4 DEF ChargeOK, Working, private, central
<1> QED
  BY <1>1, <1>3, <1>8, <1>10, <1>11, <1>12, <1>13
  DEF ListsOK, SetStep, Still, SameHands, Moves, private, central

\* The compare-and-swap succeeds only if the block is still linked to the head.
LEMMA RemoteCasInv ==
  ASSUME PInv, NEW t \in Thread, RemoteCas(t)
  PROVE  PInv' /\ SetStep
<1> USE DEF PInv
<1>1. PICK L, R, D \in SUBSET Block : Shape(L, R, D)
  BY DEF ListsOK
<1>2. PICK b \in Block : b = loc[t].blk
  <2>1. loc[t].blk # NULL /\ loc[t].blk \in Ptr
    BY DEF RemoteCas, LocalsOK, TypeOK, Locals
  <2> QED
    BY <2>1 DEF Ptr
<1>3. /\ pc[t] = "cas" /\ next[b] = thread_free /\ thread_free' = b
      /\ pc' = [pc EXCEPT ![t] = "idle"] /\ loc' = [loc EXCEPT ![t] = NoLocals]
      /\ UNCHANGED <<next, private, central, t_heap, live>>
  BY <1>2 DEF RemoteCas, Goto, LocalsOK
<1>4. /\ loc'[t].blk = NULL /\ loc'[t].list = NULL /\ pc'[t] = "idle"
      /\ \A u \in Thread : u # t => loc'[u] = loc[u] /\ pc'[u] = pc[u]
  BY <1>3 DEF TypeOK, NoLocals
<1>5. b \in InFlight /\ b \notin L /\ b \notin R /\ b \notin D /\ b \notin live
  BY <1>1, <1>2 DEF Shape, InFlight
<1>6. InFlight' = InFlight \ {b}
  <2>1. \A u \in Thread : u # t => loc[u].blk # b
    BY <1>2, PageAssumption DEF LocalsOK
  <2> QED
    BY <1>2, <1>4, <2>1, PageAssumption DEF InFlight
<1>7. Chain(next, b, NULL, R \cup {b})
  BY <1>1, <1>3, <1>5, ChainPush DEF Shape
<1>8. WalkersStay
  BY <1>3, <1>4 DEF WalkersStay
<1>9. /\ D # {} => \E u \in Thread : pc'[u] = "walk"
      /\ \A u \in Thread : pc'[u] = "walk" => Walked(u, D)'
  BY <1>1, <1>3, <1>8, WalkersKept
<1>10. /\ live \cup InFlight' \cup (R \cup {b}) \cup D = live \cup InFlight \cup R \cup D
       /\ L \cup (R \cup {b}) \cup D \cup InFlight' \cup live = L \cup R \cup D \cup InFlight \cup live
  BY <1>5, <1>6
<1>11. Shape(L, R \cup {b}, D)'
  BY <1>1, <1>3, <1>5, <1>6, <1>7, <1>9, <1>10 DEF Shape, private, central
<1>12. TypeOK'
  BY <1>3, NoLocalsType DEF TypeOK, Ptr, private, central
<1>13. LocalsOK'
  BY <1>3, <1>4 DEF LocalsOK
<1>14. ChargeOK'
  BY <1>3, <1>4 DEF ChargeOK, Working, private, central
<1> QED
  BY <1>1, <1>3, <1>5, <1>6, <1>11, <1>12, <1>13, <1>14
  DEF ListsOK, SetStep, Pushes, Moves, private, central

-----------------------------------------------------------------------------
(* The page's way through the central heap *)

\* heap_free_local returns an empty page to the pool.
LEMMA ReleaseInv ==
  ASSUME PInv, NEW t \in Thread, Release(t)
  PROVE  PInv' /\ SetStep
<1> USE DEF PInv
<1>1. \A u \in Thread : Working(u) => u = t
  BY OneWorker DEF Release, Working
<1>2. used = 0 /\ loc' = loc
  BY DEF Release, ChargeOK
<1>3. pc[t] = "release" /\ pc' = [pc EXCEPT ![t] = "idle"]
  BY DEF Release, Goto
<1>4. Pools /\ ListsOK'
  BY <1>2, <1>3, PoolReturnKeepsLists DEF Release, ChargeOK, Working, WalkersStay, TypeOK
<1>5. TypeOK'
  BY <1>3 DEF Release, pool_return, TypeOK, Ptr
<1>6. LocalsOK'
  <2>1. next' = next /\ pc'[t] = "idle" /\ \A u \in Thread : u # t => pc'[u] = pc[u]
    BY <1>3 DEF Release, pool_return, TypeOK
  <2> QED
    BY <1>2, <1>3, <2>1 DEF LocalsOK
<1>7. ChargeOK'
  BY <1>1, <1>2, <1>3 DEF Release, pool_return, TypeOK, ChargeOK, Working
<1> QED
  BY <1>4, <1>5, <1>6, <1>7 DEF SetStep

\* Whatever the memory holds, the new page starts without lists; the pool had
\* it without a block out.
LEMMA AcquireInv ==
  ASSUME PInv, NEW t \in Thread, Acquire(t)
  PROVE  PInv' /\ SetStep
<1> USE DEF PInv
<1>1. /\ pc[t] = "idle" /\ pc' = [pc EXCEPT ![t] = "available"] /\ t_heap[t] = t
      /\ linked = "pool" /\ linked' = "heap" /\ owner' = t
      /\ free' = NULL /\ used' = 0 /\ reserved' = 0 /\ thread_free' = NULL
      /\ next' = [b \in Block |-> JUNK]
      /\ UNCHANGED <<mtx, t_heap, live, loc>>
  BY DEF Acquire, Goto, Idle, ChargeOK
<1>2. used = 0 /\ live = {} /\ InFlight = {}
  BY <1>1, PoolIdle DEF ChargeOK
<1>3. \A u \in Thread : ~Working(u) /\ pc'[u] # "walk" /\ (u # t => ~Working(u)')
  BY <1>1 DEF ChargeOK, Working, TypeOK
<1>4. \A u \in Thread : loc[u].blk = NULL
  BY <1>2 DEF TypeOK, Locals, Ptr, InFlight
<1>5. Shape({}, {}, {})'
  <2>1. InFlight' = {}
    BY <1>1, <1>2, InFlightKept
  <2>2. 1 .. 0 = {}
    OBVIOUS
  <2>3. Chain(next', NULL, NULL, {})
    BY ChainEmpty
  <2> QED
    BY <1>1, <1>2, <1>3, <2>1, <2>2, <2>3, FS_EmptySet DEF Shape
<1>6. TypeOK'
  <2>1. 0 \in 0 .. Capacity
    BY PageAssumption
  <2> QED
    BY <1>1, <2>1 DEF TypeOK, Ptr
<1>0. Shape({}, {}, {}) /\ InFlight' = InFlight
  <2>1. PICK L, R, D \in SUBSET Block : Shape(L, R, D)
    BY DEF ListsOK
  <2>2. R = {} /\ D = {}
    BY <1>2, <2>1, PoolIdle
  <2>3. NULL \notin L /\ Chain(next, NULL, NULL, L)
    BY <1>1, <2>1, PageAssumption DEF Shape, ChargeOK
  <2>4. L = {}
    BY <2>3, ChainHead
  <2> QED
    BY <1>1, <2>1, <2>2, <2>4, InFlightKept
<1>7. LocalsOK'
  <2>1. \A u \in Thread : loc'[u].blk = NULL /\ pc'[u] \notin {"load", "cas"}
    BY <1>1, <1>4 DEF LocalsOK, TypeOK
  <2>2. \A u \in Thread : loc'[u].list = NULL
    BY <1>1, <1>3 DEF LocalsOK, Working
  <2> QED
    BY <1>3, <2>1, <2>2 DEF LocalsOK
<1>8. ChargeOK'
  BY <1>1, <1>3 DEF ChargeOK, Working, TypeOK
<1> QED
  BY <1>0, <1>1, <1>2, <1>5, <1>6, <1>7, <1>8 DEF ListsOK, SetStep, Takes, SameHands, Moves

\* A thread's first allocation makes its heap.
LEMMA HeapCreateInv ==
  ASSUME PInv, NEW t \in Thread, HeapCreate(t)
  PROVE  PInv' /\ SetStep
<1> USE DEF PInv
<1>1. Still /\ ListsOK'
  BY ListsKept DEF HeapCreate, WalkersStay, private, central
<1>2. TypeOK' /\ LocalsOK'
  BY DEF HeapCreate, TypeOK, LocalsOK, private, central
<1>3. ChargeOK'
  BY DEF HeapCreate, TypeOK, ChargeOK, Working, private, central
<1> QED
  BY <1>1, <1>2, <1>3 DEF SetStep

\* A thread that holds no page leaves.
LEMMA ExitWithoutInv ==
  ASSUME PInv, NEW t \in Thread, ExitWithout(t)
  PROVE  PInv' /\ SetStep
<1> USE DEF PInv
<1>1. Still /\ ListsOK'
  BY ListsKept DEF ExitWithout, WalkersStay, private, central
<1>2. TypeOK' /\ LocalsOK'
  BY DEF ExitWithout, TypeOK, LocalsOK, private, central
<1>3. ChargeOK'
  BY DEF ExitWithout, Owns, TypeOK, ChargeOK, Working, private, central
<1> QED
  BY <1>1, <1>2, <1>3 DEF SetStep

\* A thread that holds the page leaves, and begins to hand it back.
LEMMA ExitInv ==
  ASSUME PInv, NEW t \in Thread, Exit(t)
  PROVE  PInv' /\ SetStep
<1> USE DEF PInv
<1>1. TypeOK'
  BY DEF Exit, Goto, private, central, TypeOK, Locals
<1>2. LocalsOK'
  BY DEF Exit, Goto, private, central, LocalsOK, TypeOK, Locals, Idle
<1>3. ChargeOK'
  BY OwnerWorks DEF Exit, Goto, private, central, ChargeOK, TypeOK, Locals, Idle, Owns, Working
<1>4. Still /\ ListsOK'
  BY ListsKept DEF Exit, Goto, private, central, TypeOK, Locals, Idle, WalkersStay
<1> QED
  BY <1>1, <1>2, <1>3, <1>4 DEF SetStep

\* heap_destroy gives the page up, to the pool or to the abandoned list.
LEMMA HandBackInv ==
  ASSUME PInv, NEW t \in Thread, HandBack(t)
  PROVE  PInv' /\ SetStep
<1> USE DEF PInv
<1>1. /\ pc[t] = "handback" /\ pc' = [pc EXCEPT ![t] = "idle"]
      /\ loc' = [loc EXCEPT ![t] = NoLocals] /\ t_heap' = [t_heap EXCEPT ![t] = NULL]
      /\ UNCHANGED <<mtx, thread_free, live>>
      /\ \/ used = 0 /\ pool_return
         \/ used # 0 /\ central_abandon_page
  BY DEF HandBack, Goto
<1>2. /\ \A u \in Thread : Working(u) => u = t
      /\ owner = t /\ linked = "heap"
  BY <1>1, OneWorker DEF ChargeOK, Working
<1>3. /\ loc'[t].blk = NULL /\ loc'[t].list = NULL /\ loc[t].blk = NULL
      /\ pc'[t] = "idle"
      /\ \A u \in Thread : u # t => loc'[u] = loc[u] /\ pc'[u] = pc[u] /\ t_heap'[u] = t_heap[u]
  BY <1>1 DEF TypeOK, LocalsOK, NoLocals
<1>4. WalkersStay /\ \A u \in Thread : loc'[u].blk = loc[u].blk
  BY <1>1, <1>3 DEF WalkersStay
<1>5. (Still \/ Pools) /\ ListsOK'
  <2>1. CASE used = 0 /\ pool_return
    BY <1>1, <1>2, <1>4, <2>1, PoolReturnKeepsLists
  <2>2. CASE central_abandon_page
    BY <1>1, <1>2, <1>4, <2>2, ListsKept DEF central_abandon_page, private
  <2> QED
    BY <1>1, <2>1, <2>2
<1>6. TypeOK'
  BY <1>1, NoLocalsType DEF TypeOK, pool_return, central_abandon_page, private, Ptr
<1>7. LocalsOK'
  <2>1. next' = next
    BY <1>1 DEF pool_return, central_abandon_page
  <2>2. ASSUME NEW u \in Thread
        PROVE  /\ loc'[u].blk # NULL <=> pc'[u] \in {"load", "cas"}
               /\ loc'[u].list # NULL <=> pc'[u] = "walk"
               /\ pc'[u] = "cas" => next'[loc'[u].blk] = loc'[u].head
    BY <1>3, <2>1 DEF LocalsOK
  <2>3. \A u, v \in Thread : u # v => loc'[u].blk = NULL \/ loc'[u].blk # loc'[v].blk
    BY <1>4 DEF LocalsOK
  <2> QED
    BY <2>2, <2>3 DEF LocalsOK
<1>8. ChargeOK'
  <2>1. \A u \in Thread : ~Working(u)'
    BY <1>2, <1>3 DEF Working
  <2>2. \A u \in Thread : t_heap'[u] \in {u, NULL}
    BY <1>1, <1>3 DEF ChargeOK, TypeOK
  <2>3. \A u \in Thread : pc'[u] # "release"
    BY <2>1 DEF Working
  <2> QED
    BY <1>1, <2>1, <2>2, <2>3 DEF ChargeOK, pool_return, central_abandon_page, private
<1> QED
  BY <1>5, <1>6, <1>7, <1>8 DEF SetStep

\* central_sweep takes the lock and begins to collect an abandoned page.
LEMMA SweepInv ==
  ASSUME PInv, NEW t \in Thread, Sweep(t)
  PROVE  PInv' /\ SetStep
<1> USE DEF PInv
<1>1. /\ pc[t] = "idle" /\ linked = "abandoned" /\ mtx = NULL /\ mtx' = t
      /\ pc' = [pc EXCEPT ![t] = "exchange"]
      /\ loc' = [loc EXCEPT ![t] = [loc[t] EXCEPT !.ret = "swept"]]
      /\ UNCHANGED <<next, private, owner, linked, thread_free, t_heap, live>>
  BY DEF Sweep, Goto, Idle
<1>2. /\ loc'[t].blk = loc[t].blk /\ loc'[t].list = loc[t].list /\ loc'[t].ret = "swept"
      /\ loc'[t].head = loc[t].head
      /\ pc'[t] = "exchange"
      /\ \A u \in Thread : u # t => loc'[u] = loc[u] /\ pc'[u] = pc[u]
  BY <1>1 DEF TypeOK, Locals
<1>3. TypeOK'
  BY <1>1 DEF TypeOK, Locals, private
<1>4. LocalsOK'
  BY <1>1, <1>2 DEF LocalsOK
<1>5. ChargeOK'
  <2>1. \A u \in Thread : ~Working(u)
    BY <1>1, PageAssumption DEF ChargeOK
  <2>2. \A u \in Thread : u # t => ~Working(u)' /\ pc'[u] # "release"
    BY <1>2, <2>1 DEF Working
  <2> QED
    BY <1>1, <1>2, <2>2 DEF ChargeOK, Working, private
<1>6. Still /\ ListsOK'
  BY <1>1, <1>2, ListsKept DEF WalkersStay, private
<1> QED
  BY <1>3, <1>4, <1>5, <1>6 DEF SetStep

\* central_sweep ends, and returns the page to the pool when used is 0.
LEMMA SweptInv ==
  ASSUME PInv, NEW t \in Thread, Swept(t)
  PROVE  PInv' /\ SetStep
<1> USE DEF PInv
<1>1. /\ pc[t] = "swept" /\ pc' = [pc EXCEPT ![t] = "idle"] /\ mtx' = NULL
      /\ loc' = [loc EXCEPT ![t] = NoLocals]
      /\ UNCHANGED <<thread_free, t_heap, live>>
      /\ \/ used = 0 /\ pool_return
         \/ used # 0 /\ UNCHANGED <<next, private, owner, linked>>
  BY DEF Swept, Goto
<1>2. linked = "abandoned" /\ \A u \in Thread : Working(u) => u = t
  BY <1>1, OneWorker DEF Working, ChargeOK
<1>3. /\ loc'[t].blk = NULL /\ loc'[t].list = NULL /\ loc[t].blk = NULL
      /\ pc'[t] = "idle"
      /\ \A u \in Thread : u # t => loc'[u] = loc[u] /\ pc'[u] = pc[u]
  BY <1>1 DEF TypeOK, LocalsOK, NoLocals
<1>4. WalkersStay /\ \A u \in Thread : loc'[u].blk = loc[u].blk
  BY <1>1, <1>3 DEF WalkersStay
<1>5. (Still \/ Pools) /\ ListsOK'
  <2>1. CASE used = 0 /\ pool_return
    BY <1>1, <1>2, <1>4, <2>1, PoolReturnKeepsLists
  <2>2. CASE UNCHANGED <<next, private, owner, linked>>
    BY <1>1, <1>4, <2>2, ListsKept DEF private
  <2> QED
    BY <1>1, <2>1, <2>2
<1>6. TypeOK'
  BY <1>1, NoLocalsType DEF TypeOK, pool_return, private, Ptr
<1>7. LocalsOK'
  <2>1. next' = next
    BY <1>1 DEF pool_return
  <2>2. ASSUME NEW u \in Thread
        PROVE  /\ loc'[u].blk # NULL <=> pc'[u] \in {"load", "cas"}
               /\ loc'[u].list # NULL <=> pc'[u] = "walk"
               /\ pc'[u] = "cas" => next'[loc'[u].blk] = loc'[u].head
    BY <1>3, <2>1 DEF LocalsOK
  <2>3. \A u, v \in Thread : u # v => loc'[u].blk = NULL \/ loc'[u].blk # loc'[v].blk
    BY <1>4 DEF LocalsOK
  <2> QED
    BY <2>2, <2>3 DEF LocalsOK
<1>8. ChargeOK'
  <2>1. \A u \in Thread : ~Working(u)'
    BY <1>2, <1>3 DEF Working
  <2>2. \A u \in Thread : pc'[u] # "release"
    BY <2>1 DEF Working
  <2> QED
    BY <1>1, <2>1, <2>2 DEF ChargeOK, pool_return, private
<1> QED
  BY <1>5, <1>6, <1>7, <1>8 DEF SetStep

\* What the application writes into its own blocks is on nobody's list.
LEMMA UserWriteInv ==
  ASSUME PInv, NEW b \in Block, UserWrite(b)
  PROVE  PInv' /\ SetStep
<1> USE DEF PInv
<1>1. PICK L, R, D \in SUBSET Block : Shape(L, R, D)
  BY DEF ListsOK
<1>2. b \notin L /\ b \notin R /\ b \notin D /\ b \notin InFlight
  BY <1>1 DEF Shape, UserWrite
<1>3. \A y \in Block : y # b => next'[y] = next[y]
  BY DEF UserWrite, TypeOK
<1>4. UNCHANGED <<free, used, reserved, owner, linked, mtx, thread_free, t_heap, live, pc, loc>>
  BY DEF UserWrite, private, central
<1>5. Chain(next', free, NULL, L) /\ Chain(next', thread_free, NULL, R)
  <2>1. \A y \in L \cup R : next'[y] = next[y]
    BY <1>2, <1>3
  <2> QED
    BY <1>1, <2>1, ChainFrame DEF Shape
<1>6. InFlight' = InFlight
  BY <1>4, InFlightKept
<1>7. /\ D # {} => \E u \in Thread : pc'[u] = "walk"
      /\ \A u \in Thread : pc'[u] = "walk" => Walked(u, D)'
  <2>1. \A y \in D : next'[y] = next[y]
    BY <1>2, <1>3
  <2>2. WalkersStay
    BY <1>4 DEF WalkersStay
  <2> QED
    BY <1>1, <2>1, <2>2, WalkersKept
<1>8. Shape(L, R, D)'
  BY <1>1, <1>4, <1>5, <1>6, <1>7 DEF Shape
<1>9. TypeOK'
  BY <1>4 DEF TypeOK, UserWrite
<1>10. LocalsOK'
  <2>1. ASSUME NEW u \in Thread, pc[u] = "cas" PROVE next'[loc[u].blk] = next[loc[u].blk]
    <3>1. loc[u].blk \in InFlight /\ loc[u].blk \in Block
      BY <2>1 DEF LocalsOK, TypeOK, Locals, Ptr, InFlight
    <3> QED
      BY <1>2, <1>3, <3>1
  <2> QED
    BY <1>4, <2>1 DEF LocalsOK
<1>11. ChargeOK'
  BY <1>4 DEF ChargeOK, Working
<1> QED
  BY <1>1, <1>4, <1>6, <1>8, <1>9, <1>10, <1>11 DEF ListsOK, SetStep, Still, SameHands, Moves

-----------------------------------------------------------------------------

\* Every step keeps the invariant, and moves blocks in one of the ways above.
LEMMA StepPInv == PInv /\ [Next]_vars => PInv' /\ SetStep
<1> SUFFICES ASSUME PInv, [Next]_vars PROVE PInv' /\ SetStep
  OBVIOUS
<1>1. CASE UNCHANGED vars
  <2>1. UNCHANGED <<next, free, used, reserved, owner, linked, mtx, thread_free, t_heap, live, pc, loc>>
    BY <1>1 DEF vars, private, central
  <2>2. TypeOK' /\ LocalsOK' /\ ChargeOK'
    BY <2>1 DEF PInv, TypeOK, LocalsOK, ChargeOK, Working
  <2>3. Still /\ ListsOK'
    BY <2>1, ListsKept DEF PInv, WalkersStay
  <2> QED
    BY <2>2, <2>3 DEF PInv, SetStep
<1>2. ASSUME NEW t \in Thread, Call(t) PROVE PInv' /\ SetStep
  BY <1>2, HeapMallocInv, HeapMallocSlowInv, FreeLocalInv, FreeRemoteInv, HeapCreateInv,
     AcquireInv, SweepInv, ExitInv, ExitWithoutInv DEF Call
<1>3. ASSUME NEW t \in Thread, Step(t) PROVE PInv' /\ SetStep
  BY <1>3, ExchangeInv, WalkInv, SpliceInv, LinkInv, RemoteCasInv, PageExtendInv, PopInv,
     ExhaustedInv, ReleaseInv, HandBackInv, SweptInv DEF Step, Collecting, Pushing
<1>4. QED
  BY <1>1, <1>2, <1>3, UserWriteInv DEF Next

\* The invariant holds in every reachable state, whatever the threads, the
\* capacity and the batch.
THEOREM PageInvariant == Spec => []PInv
BY InitPInv, StepPInv, PTL DEF Spec

=============================================================================
