--------------------------- MODULE PageSpecProofs ---------------------------
(***************************************************************************)
(* PageSpec for every capacity: the count is exact, and therefore a page   *)
(* is idle whenever it is in the pool and no step takes a live block away. *)
(***************************************************************************)
EXTENDS PageSpec, FiniteSetTheorems, TLAPS

\* The type invariant with the exact count is inductive: each action moves
\* blocks into or out of Outstanding and adjusts used by as many.
IInv == TypeOK /\ UsedExact /\ PooledIsIdle

\* Any set of blocks is finite, and its cardinality is a natural number.
LEMMA BlocksFinite ==
  \A S \in SUBSET Block : IsFiniteSet(S) /\ Cardinality(S) \in Nat
<1>1. IsFiniteSet(Block)
  BY FS_Interval, CapacityAssumption DEF Block
<1>2. QED
  BY <1>1, FS_Subset, FS_CardinalityType

\* An empty set of outstanding blocks is what used = 0 means.
LEMMA UsedZero ==
  ASSUME TypeOK, UsedExact
  PROVE  used = 0 <=> Outstanding = {}
<1>1. Outstanding \in SUBSET Block
  BY DEF Outstanding
<1>2. IsFiniteSet(Outstanding)
  BY <1>1, BlocksFinite
<1>3. QED
  BY <1>2, FS_EmptySet DEF UsedExact

\* When one block joins the outstanding ones the count grows by one.
LEMMA OneMore ==
  ASSUME NEW b \in Block, NEW S \in SUBSET Block, b \notin S
  PROVE  Cardinality(S \cup {b}) = Cardinality(S) + 1
BY BlocksFinite, FS_AddElement

\* When one block leaves them the count shrinks by one.
LEMMA OneLess ==
  ASSUME NEW b \in Block, NEW S \in SUBSET Block, b \in S
  PROVE  Cardinality(S \ {b}) = Cardinality(S) - 1
BY BlocksFinite, FS_RemoveElement

\* It holds of a page as map_segment makes it: in the pool, nothing carved.
THEOREM InitIInv == Init => IInv
<1> SUFFICES ASSUME Init PROVE IInv
  OBVIOUS
<1>1. TypeOK
  BY DEF Init, TypeOK, Places
<1>2. Outstanding = {}
  BY DEF Init, Outstanding
<1>3. Cardinality(Outstanding) = 0
  BY <1>2, FS_EmptySet
<1>4. QED
  BY <1>1, <1>2, <1>3 DEF IInv, UsedExact, PooledIsIdle, Init

\* Every step keeps the invariant: one case per action of PageSpec.
THEOREM NextIInv == IInv /\ [Next]_vars => IInv'
<1> SUFFICES ASSUME IInv, [Next]_vars PROVE IInv'
  OBVIOUS
<1> USE CapacityAssumption
<1>t. TypeOK /\ UsedExact /\ PooledIsIdle /\ Outstanding \in SUBSET Block
  BY DEF IInv, Outstanding
<1>1. CASE UNCHANGED vars
  BY <1>1, <1>t DEF IInv, TypeOK, UsedExact, PooledIsIdle, Outstanding, vars
<1>2. CASE Acquire
  <2>1. TypeOK'
    BY <1>2, <1>t DEF Acquire, TypeOK, Places
  <2>2. Outstanding' = {} /\ used' = 0
    BY <1>2 DEF Acquire, Outstanding
  <2>3. QED
    BY <2>1, <2>2, FS_EmptySet DEF IInv, UsedExact, PooledIsIdle
<1>3. ASSUME NEW S \in SUBSET Block, Extend(S) PROVE IInv'
  <2>1. TypeOK'
    BY <1>3, <1>t DEF Extend, TypeOK, Places
  <2>2. Outstanding' = Outstanding
    BY <1>3, <1>t DEF Extend, Outstanding, At, TypeOK, Places
  <2>3. QED
    BY <1>3, <1>t, <2>1, <2>2 DEF Extend, IInv, UsedExact, PooledIsIdle
<1>4. ASSUME NEW b \in Block, Alloc(b) PROVE IInv'
  <2>1. TypeOK'
    BY <1>4, <1>t DEF Alloc, TypeOK, Places
  <2>2. b \notin Outstanding /\ Outstanding' = Outstanding \cup {b}
    BY <1>4, <1>t DEF Alloc, Outstanding, TypeOK, Places
  <2>3. Cardinality(Outstanding') = used + 1
    BY <1>t, <2>2, OneMore DEF UsedExact
  <2>4. QED
    BY <1>4, <2>1, <2>3 DEF Alloc, IInv, UsedExact, PooledIsIdle
<1>5. ASSUME NEW b \in Block, FreeLocal(b) PROVE IInv'
  <2>1. b \in Outstanding /\ Outstanding' = Outstanding \ {b}
    BY <1>5, <1>t DEF FreeLocal, Outstanding, TypeOK, Places
  <2>2. Cardinality(Outstanding') = used - 1
    BY <1>t, <2>1, OneLess DEF UsedExact
  <2>3. used - 1 \in Nat
    BY <2>1, <2>2, BlocksFinite, <1>t
  <2>4. TypeOK'
    BY <1>5, <1>t, <2>3 DEF FreeLocal, TypeOK, Places
  <2>5. QED
    BY <1>5, <1>t, <2>1, <2>2, <2>4 DEF FreeLocal, IInv, UsedExact, PooledIsIdle
<1>6. ASSUME NEW b \in Block, FreeRemote(b) PROVE IInv'
  <2>1. TypeOK' /\ Outstanding' = Outstanding
    BY <1>6, <1>t DEF FreeRemote, TypeOK, Places, Outstanding
  <2>2. QED
    BY <1>6, <1>t, <2>1 DEF FreeRemote, IInv, UsedExact, PooledIsIdle
<1>7. ASSUME NEW b \in Block, Push(b) PROVE IInv'
  <2>1. TypeOK' /\ Outstanding' = Outstanding
    BY <1>7, <1>t DEF Push, TypeOK, Places, Outstanding
  <2>2. QED
    BY <1>7, <1>t, <2>1 DEF Push, IInv, UsedExact, PooledIsIdle
<1>8. CASE Collect
  <2>1. Outstanding' = Outstanding \ At("remote") /\ At("remote") \subseteq Outstanding
    BY <1>8, <1>t DEF Collect, Outstanding, At, TypeOK, Places
  <2>2. Cardinality(Outstanding') = Cardinality(Outstanding) - Cardinality(At("remote"))
    <3>1. IsFiniteSet(Outstanding) /\ Outstanding \cap At("remote") = At("remote")
      BY <1>t, <2>1, BlocksFinite
    <3>2. QED
      BY <2>1, <3>1, FS_Difference
  <2>3. used' = Cardinality(Outstanding')
    BY <1>8, <1>t, <2>2 DEF Collect, UsedExact
  <2>4. Outstanding' \in SUBSET Block
    BY <1>t, <2>1
  <2>5. TypeOK'
    BY <1>8, <1>t, <2>3, <2>4, BlocksFinite DEF Collect, TypeOK, Places
  <2>6. QED
    BY <1>8, <2>3, <2>5 DEF Collect, IInv, UsedExact, PooledIsIdle
<1>9. CASE Recycle
  <2>1. TypeOK' /\ Outstanding' = Outstanding
    BY <1>9, <1>t DEF Recycle, TypeOK, Places, Outstanding
  <2>2. Outstanding = {}
    BY <1>9, <1>t, UsedZero DEF Recycle
  <2>3. QED
    BY <1>9, <1>t, <2>1, <2>2 DEF Recycle, IInv, UsedExact, PooledIsIdle
<1>10. QED
  BY <1>1, <1>2, <1>3, <1>4, <1>5, <1>6, <1>7, <1>8, <1>9 DEF Next

\* Page::used is exact in every reachable state, for every page capacity: the
\* owner's decrements on local free and on collection match its increments.
THEOREM UsedIsExact == Spec => []UsedExact
<1>1. Spec => []IInv
  BY InitIInv, NextIInv, PTL DEF Spec
<1>2. IInv => UsedExact
  BY DEF IInv
<1>3. QED
  BY <1>1, <1>2, PTL

\* The page's fields keep their types.
THEOREM TypeCorrect == Spec => []TypeOK
<1>1. Spec => []IInv
  BY InitIInv, NextIInv, PTL DEF Spec
<1>2. IInv => TypeOK
  BY DEF IInv
<1>3. QED
  BY <1>1, <1>2, PTL

\* pool_return never receives a page with a block still outstanding.
THEOREM PoolHoldsIdlePages == Spec => []PooledIsIdle
<1>1. Spec => []IInv
  BY InitIInv, NextIInv, PTL DEF Spec
<1>2. IInv => PooledIsIdle
  BY DEF IInv
<1>3. QED
  BY <1>1, <1>2, PTL

\* Handing a page to a new owner, which a pool_return on the strength of
\* used = 0 makes possible, takes no block from the application: a live block
\* leaves its hands only by a free.
THEOREM LiveIsSafe == Spec => LiveLeavesByFree
<1> DEFINE Kept == \A b \in Block : place[b] = "live" => place'[b] \in {"live", "local", "pushing"}
<1>1. IInv /\ [Next]_vars => [Kept]_vars
  <2> SUFFICES ASSUME IInv, Next PROVE Kept
    BY DEF vars
  <2>t. TypeOK
    BY DEF IInv
  <2>1. CASE Acquire
    <3>1. Outstanding = {}
      BY <2>1 DEF Acquire, IInv, PooledIsIdle
    <3>2. QED
      BY <3>1 DEF Outstanding
  <2>2. CASE Recycle \/ Collect
    BY <2>2, <2>t DEF Recycle, Collect, TypeOK, Places
  <2>3. ASSUME NEW S \in SUBSET Block, Extend(S) PROVE Kept
    BY <2>3, <2>t DEF Extend, At, TypeOK, Places
  <2>4. ASSUME NEW b \in Block, Alloc(b) \/ FreeLocal(b) \/ FreeRemote(b) \/ Push(b)
        PROVE Kept
    BY <2>4, <2>t DEF Alloc, FreeLocal, FreeRemote, Push, TypeOK, Places
  <2>5. QED
    BY <2>1, <2>2, <2>3, <2>4 DEF Next
<1>2. Spec => []IInv
  BY InitIInv, NextIInv, PTL DEF Spec
<1>3. QED
  BY <1>1, <1>2, PTL DEF Spec, LiveLeavesByFree

=============================================================================
