---------------------------- MODULE PageTheorems ----------------------------
(***************************************************************************)
(* What the invariant of PageProofs says of a page: the properties of Page *)
(* for every set of threads, capacity and batch, and that Page implements  *)
(* the promise PageSpec.                                                   *)
(***************************************************************************)
EXTENDS PageProofs

(* The lists as the properties read them *)

\* Following the links finds the sets of the invariant.
Reads(L, R, D) ==
  /\ Nodes(free) = L /\ Terminated(free)
  /\ Nodes(thread_free) = R /\ Terminated(thread_free)
  /\ Detached = D /\ \A t \in Thread : Terminated(loc[t].list)

\* Following the links Capacity times reads exactly the blocks of a list,
\* and reaches its end.
LEMMA ReadChain ==
  ASSUME TypeOK, NEW h, NEW S \in SUBSET Block, Chain(next, h, NULL, S)
  PROVE  Nodes(h) = S /\ Terminated(h)
<1>1. DOMAIN next = Block /\ NULL \notin Block /\ Capacity \in Nat
  BY PageAssumption DEF TypeOK
<1>2. Cardinality(S) <= Capacity
  <2>1. Cardinality(S) \in 0 .. Capacity
    BY BlocksFinite
  <2> QED
    BY <1>1, <2>1
<1>3. Words(h) = S \cup {NULL}
  BY <1>1, <1>2, ChainFollow DEF Words
<1>4. QED
  BY <1>1, <1>3 DEF Nodes, Terminated

\* The lists the properties read off the links are the sets of the invariant.
THEOREM Reading == PInv => \A L, R, D \in SUBSET Block : Shape(L, R, D) => Reads(L, R, D)
<1> SUFFICES ASSUME PInv, NEW L \in SUBSET Block, NEW R \in SUBSET Block, NEW D \in SUBSET Block,
                    Shape(L, R, D)
             PROVE  Reads(L, R, D)
  OBVIOUS
<1>1. Nodes(free) = L /\ Terminated(free) /\ Nodes(thread_free) = R /\ Terminated(thread_free)
  BY ReadChain DEF PInv, Shape
<1>2. ASSUME NEW t \in Thread
      PROVE  /\ Nodes(loc[t].list) = IF pc[t] = "walk" THEN D ELSE {}
             /\ Terminated(loc[t].list)
  <2>1. CASE pc[t] = "walk"
    <3>1. Chain(next, loc[t].list, NULL, D) /\ TypeOK
      BY <2>1 DEF Shape, Walked, PInv
    <3>2. Nodes(loc[t].list) = D /\ Terminated(loc[t].list)
      BY <3>1, ReadChain
    <3> QED
      BY <2>1, <3>2
  <2>2. CASE pc[t] # "walk"
    <3>1. loc[t].list = NULL
      BY <2>2 DEF PInv, LocalsOK
    <3>2. Chain(next, NULL, NULL, {}) /\ {} \in SUBSET Block /\ TypeOK
      BY ChainEmpty DEF PInv
    <3>3. Nodes(NULL) = {} /\ Terminated(NULL)
      BY <3>2, ReadChain
    <3> QED
      BY <2>2, <3>1, <3>3
  <2> QED
    BY <2>1, <2>2
<1>3. Detached = D
  <2>1. D # {} => \E t \in Thread : pc[t] = "walk"
    BY DEF Shape
  <2> QED
    BY <1>2, <2>1 DEF Detached
<1> QED
  BY <1>1, <1>2, <1>3 DEF Reads

\* Every field and every local variable keeps its type; in particular used and
\* reserved never leave 0 .. Capacity and free and thread_free never hold a
\* word the application wrote.
THEOREM PageTypes == Spec => []TypeOK
<1>1. PInv => TypeOK
  BY DEF PInv
<1> QED
  BY <1>1, PageInvariant, PTL

\* Each of the page's lists ends: page_malloc, page_collect and the splice
\* never follow a link forever.
THEOREM PageListsTerminate == Spec => []ListsTerminate
<1>1. PInv => ListsTerminate
  <2> SUFFICES ASSUME PInv PROVE ListsTerminate
    OBVIOUS
  <2>1. PICK L, R, D \in SUBSET Block : Shape(L, R, D)
    BY DEF PInv, ListsOK
  <2> QED
    BY <2>1, Reading DEF Reads, ListsTerminate
<1> QED
  BY <1>1, PageInvariant, PTL

\* Every carved block is in exactly one place, and used counts exactly those
\* the page does not have back.
THEOREM PageBlocksPartitioned == Spec => []BlocksPartitioned
<1>1. PInv => BlocksPartitioned
  <2> SUFFICES ASSUME PInv PROVE BlocksPartitioned
    OBVIOUS
  <2>1. PICK L, R, D \in SUBSET Block : Shape(L, R, D)
    BY DEF PInv, ListsOK
  <2>2. Nodes(free) = L /\ Nodes(thread_free) = R /\ Detached = D
    BY <2>1, Reading DEF Reads
  <2>3. used = Cardinality(live \cup InFlight \cup Nodes(thread_free) \cup Detached)
    BY <2>1, <2>2 DEF Shape
  <2>4. ASSUME linked # "pool"
        PROVE  LET places == <<Nodes(free), Nodes(thread_free), Detached, InFlight, live>> IN
               /\ UNION {places[i] : i \in DOMAIN places} = 1 .. reserved
               /\ \A i, j \in DOMAIN places : i # j => places[i] \cap places[j] = {}
    <3> DEFINE places == <<L, R, D, InFlight, live>>
    <3>1. DOMAIN places = 1 .. 5
      OBVIOUS
    <3>2. places[1] = L /\ places[2] = R /\ places[3] = D /\ places[4] = InFlight /\ places[5] = live
      OBVIOUS
    <3> HIDE DEF places
    <3>3. \A i \in DOMAIN places : i = 1 \/ i = 2 \/ i = 3 \/ i = 4 \/ i = 5
      BY <3>1
    <3>4. UNION {places[i] : i \in DOMAIN places} = L \cup R \cup D \cup InFlight \cup live
      <4>1. 1 \in DOMAIN places /\ 2 \in DOMAIN places /\ 3 \in DOMAIN places /\ 4 \in DOMAIN places /\ 5 \in DOMAIN places
        BY <3>1
      <4> QED
        BY <3>2, <3>3, <4>1
    <3>5. ASSUME NEW i \in DOMAIN places, NEW j \in DOMAIN places, i # j
          PROVE  places[i] \cap places[j] = {}
      BY <2>1, <3>2, <3>3, <3>5 DEF Shape
    <3>6. UNION {places[i] : i \in DOMAIN places} = 1 .. reserved
      BY <2>1, <2>4, <3>4 DEF Shape
    <3> QED
      BY <2>2, <3>5, <3>6 DEF places
  <2>5. \A t, u \in Thread : t # u => loc[t].blk = NULL \/ loc[t].blk # loc[u].blk
    BY DEF PInv, LocalsOK
  <2> QED
    BY <2>3, <2>4, <2>5 DEF BlocksPartitioned
<1> QED
  BY <1>1, PageInvariant, PTL

\* Only the owner, or a thread holding the central lock over an abandoned or
\* pooled page, changes the fields the code leaves unsynchronised.
THEOREM PageOwnerPrivate == Spec => OwnerPrivate
<1> DEFINE Alone(t) == \A u \in Thread \ {t} : pc'[u] = pc[u] /\ loc'[u] = loc[u]
           Permitted == \/ \E t \in Thread : /\ owner = t /\ t_heap[t] = t
                                             /\ \A u \in Thread \ {t} : pc'[u] = pc[u] /\ loc'[u] = loc[u]
                        \/ \E t \in Thread : /\ linked = "abandoned" /\ mtx = t
                                             /\ \A u \in Thread \ {t} : pc'[u] = pc[u] /\ loc'[u] = loc[u]
                        \/ linked = "pool" /\ mtx = NULL
<1>1. PInv /\ [Next]_vars => [private' # private => Permitted]_vars
  <2> SUFFICES ASSUME PInv, Next, private' # private PROVE Permitted
    BY DEF vars
  <2> USE DEF PInv
  <2>1. ASSUME NEW t \in Thread, Call(t) \/ Step(t) PROVE Permitted
    <3>1. Alone(t)
      BY <2>1 DEF Call, Step, Collecting, Pushing, HeapMalloc, HeapMallocSlow, FreeLocal, FreeRemote,
        HeapCreate, Acquire, Sweep, Exit, ExitWithout, Exchange, Walk, Splice, RemoteLoad, RemoteCas,
        RemoteRetry, page_extend, Pop, Exhausted, Release, HandBack, Swept, Goto, TypeOK
    <3>2. CASE Working(t)
      BY <3>1, <3>2 DEF ChargeOK
    <3>3. CASE HeapMalloc(t)
      BY <3>1, <3>3 DEF HeapMalloc, Owns, ChargeOK
    <3>4. CASE \E b \in Block : FreeLocal(t, b)
      <4>1. owner = t
        BY <3>4, LiveIsHeld DEF FreeLocal, ChargeOK
      <4> QED
        BY <3>1, <4>1, PageAssumption DEF ChargeOK, TypeOK
    <3>5. CASE Acquire(t)
      BY <3>5 DEF Acquire
    <3>6. Working(t) \/ HeapMalloc(t) \/ (\E b \in Block : FreeLocal(t, b)) \/ Acquire(t)
      <4>1. CASE Call(t)
        BY <4>1 DEF Call, HeapMallocSlow, FreeRemote, HeapCreate, Sweep, Exit, ExitWithout, private
      <4>2. CASE Step(t)
        BY <4>2 DEF Step, Collecting, Pushing, Exchange, Walk, Splice, RemoteLoad, RemoteCas,
          RemoteRetry, page_extend, Pop, Exhausted, Release, HandBack, Swept, Working, private
      <4> QED
        BY <2>1, <4>1, <4>2
    <3> QED
      BY <3>2, <3>3, <3>4, <3>5, <3>6
  <2>2. ASSUME NEW b \in Block, UserWrite(b) PROVE Permitted
    BY <2>2 DEF UserWrite
  <2> QED
    BY <2>1, <2>2 DEF Next
<1>2. QED
  BY <1>1, PageInvariant, PTL DEF Spec, OwnerPrivate

-----------------------------------------------------------------------------
(* The page implements its promise *)

\* The place of a block, told by the sets of the invariant.
Spot(b, L, R, D) ==
  IF b \in live THEN "live"
  ELSE IF b \in InFlight THEN "pushing"
  ELSE IF b \in R THEN "remote"
  ELSE IF b \in L \cup D THEN "local"
  ELSE "bump"

\* The refinement mapping of Page, told by the sets of the invariant.
THEOREM Mapping ==
  PInv => \A L, R, D \in SUBSET Block : Shape(L, R, D) =>
            Detached = D /\ \A b \in Block : PlaceOf(b) = Spot(b, L, R, D)
<1> SUFFICES ASSUME PInv, NEW L \in SUBSET Block, NEW R \in SUBSET Block, NEW D \in SUBSET Block,
                    Shape(L, R, D)
             PROVE  Detached = D /\ \A b \in Block : PlaceOf(b) = Spot(b, L, R, D)
  OBVIOUS
<1>1. Nodes(free) = L /\ Nodes(thread_free) = R /\ Detached = D
  BY Reading DEF Reads
<1>2. ASSUME NEW b \in Block PROVE PlaceOf(b) = Spot(b, L, R, D)
  BY <1>1 DEF PlaceOf, Spot, Shape
<1> QED
  BY <1>1, <1>2

\* The same of the state a step leads to.
LEMMA MappingNext ==
  (PInv => \A L, R, D \in SUBSET Block : Shape(L, R, D) =>
             Detached = D /\ \A b \in Block : PlaceOf(b) = Spot(b, L, R, D))'
BY Mapping, PTL

\* What one step does to the mapping.
LEMMA Mapped ==
  ASSUME PInv, PInv',
         NEW L \in SUBSET Block, NEW R \in SUBSET Block, NEW D \in SUBSET Block,
         NEW L2 \in SUBSET Block, NEW R2 \in SUBSET Block, NEW D2 \in SUBSET Block,
         Moves(L, R, D, L2, R2, D2)
  PROVE  /\ Detached = D /\ Detached' = D2
         /\ \A b \in Block : PlaceOf(b) = Spot(b, L, R, D) /\ PlaceOf(b)' = Spot(b, L2, R2, D2)'
BY Mapping, MappingNext DEF Moves

\* Every way of moving blocks is a step of the promise, or none.
LEMMA PromisedStep ==
  ASSUME PInv, PInv', SetStep
  PROVE  [Promise!Next]_(Promise!vars)
<1>1. used \in Nat /\ used' \in Nat
  BY PageAssumption DEF PInv, TypeOK
<1>2. \A S \in SUBSET Block : Cardinality(S) \in Nat
  BY BlocksFinite, PageAssumption
<1>3. Cardinality({}) = 0
  BY FS_EmptySet
<1>4. CASE Still
  <2>1. PICK L, R, D \in SUBSET Block : Moves(L, R, D, L, R, D)
    BY <1>4 DEF Still
  <2>2. \A b \in Block : PlaceOf(b)' = PlaceOf(b)
    <3>1. \A b \in Block : PlaceOf(b) = Spot(b, L, R, D) /\ PlaceOf(b)' = Spot(b, L, R, D)'
      BY <2>1, Mapped
    <3> QED
      BY <1>4, <3>1 DEF Still, SameHands, Spot
  <2>3. Detached = D /\ Detached' = D
    BY <2>1, Mapped
  <2>4. used' = used /\ (linked' # "pool" <=> linked # "pool")
    BY <1>4 DEF Still
  <2>5. UNCHANGED Promise!vars
    BY <2>2, <2>3, <2>4 DEF Promise!vars
  <2> QED
    BY <2>5
<1>5. CASE Serves
  <2>1. PICK L, R, D \in SUBSET Block, b \in Block :
          /\ b = free /\ b \in L /\ live' = live \cup {b}
          /\ Moves(L, R, D, L \ {b}, R, D)
    BY <1>5 DEF Serves
  <2>2. b \notin live /\ b \notin InFlight /\ b \notin R
    BY <2>1 DEF Moves, Shape
  <2>3. \A c \in Block : PlaceOf(c) = Spot(c, L, R, D) /\ PlaceOf(c)' = Spot(c, L \ {b}, R, D)'
    BY <2>1, Mapped
  <2>4. /\ PlaceOf(b) = "local"
        /\ \A c \in Block : PlaceOf(c)' = IF c = b THEN "live" ELSE PlaceOf(c)
    BY <1>5, <2>1, <2>2, <2>3 DEF Serves, Spot
  <2>5. Detached = D /\ Detached' = D
    BY <2>1, Mapped
  <2>6. used' - Cardinality(Detached') = (used - Cardinality(Detached)) + 1
    BY <1>1, <1>2, <1>5, <2>5 DEF Serves
  <2>7. Promise!Alloc(b)
    BY <1>5, <2>4, <2>6 DEF Promise!Alloc, Serves
  <2> QED
    BY <2>7 DEF Promise!Next, Promise!Block, Block
<1>6. CASE Carves
  <2>1. PICK N, R, D \in SUBSET Block : /\ Moves({}, R, D, N, R, D)
                                        /\ N \cap (R \cup D \cup InFlight \cup live) = {}
    BY <1>6 DEF Carves
  <2>2. {} \in SUBSET Block
    OBVIOUS
  <2>3. \A c \in Block : PlaceOf(c) = Spot(c, {}, R, D) /\ PlaceOf(c)' = Spot(c, N, R, D)'
    BY <2>1, <2>2, Mapped
  <2>4. /\ \A c \in N : PlaceOf(c) = "bump"
        /\ \A c \in Block : PlaceOf(c)' = IF c \in N THEN "local" ELSE PlaceOf(c)
    BY <1>6, <2>1, <2>3 DEF Carves, SameHands, Spot
  <2>5. Detached = D /\ Detached' = D
    BY <2>1, <2>2, Mapped
  <2>6. N \subseteq Promise!At("bump")
    BY <2>4 DEF Promise!At, Promise!Block, Block
  <2>7. Promise!Extend(N)
    BY <1>6, <2>4, <2>5, <2>6 DEF Promise!Extend, Promise!Block, Block, Carves
  <2> QED
    BY <2>7 DEF Promise!Next, Promise!Block, Block
<1>7. CASE Detaches
  <2>1. PICK L, R \in SUBSET Block : Moves(L, R, {}, L, {}, R)
    BY <1>7 DEF Detaches
  <2>2. {} \in SUBSET Block
    OBVIOUS
  <2>3. \A c \in Block : PlaceOf(c) = Spot(c, L, R, {}) /\ PlaceOf(c)' = Spot(c, L, {}, R)'
    BY <2>1, <2>2, Mapped
  <2>4. R \cap InFlight = {} /\ R \cap live = {}
    BY <2>1 DEF Moves, Shape
  <2>5. \A c \in Block : /\ PlaceOf(c)' = IF PlaceOf(c) = "remote" THEN "local" ELSE PlaceOf(c)
                         /\ PlaceOf(c) = "remote" <=> c \in R
    BY <1>7, <2>3, <2>4 DEF Detaches, SameHands, Spot
  <2>6. Detached = {} /\ Detached' = R
    BY <2>1, <2>2, Mapped
  <2>7. Promise!At("remote") = R
    BY <2>5 DEF Promise!At, Promise!Block, Block
  <2>8. used' - Cardinality(Detached') = (used - Cardinality(Detached)) - Cardinality(Promise!At("remote"))
    BY <1>1, <1>2, <1>3, <1>7, <2>6, <2>7 DEF Detaches
  <2>9. Promise!Collect
    <3> DEFINE place == [c \in Block |-> PlaceOf(c)]
    <3>1. place' = [c \in Block |-> IF place[c] = "remote" THEN "local" ELSE place[c]]
      BY <2>5
    <3>2. linked # "pool" /\ linked' # "pool"
      BY <1>7 DEF Detaches
    <3>3. Promise!Cardinality(Promise!At("remote")) = Cardinality(Promise!At("remote"))
      BY DEF Promise!Cardinality, Promise!IsFiniteSet, Cardinality, IsFiniteSet
    <3> QED
      BY <2>8, <3>1, <3>2, <3>3 DEF Promise!Collect, Promise!Block, Block
  <2> QED
    BY <2>9 DEF Promise!Next
<1>8. CASE Joins
  <2>1. PICK L, R, D \in SUBSET Block :
          Moves(L, R, D, D \cup L, R, {}) /\ used' = used - Cardinality(D)
    BY <1>8 DEF Joins
  <2>2. {} \in SUBSET Block /\ D \cup L \in SUBSET Block
    OBVIOUS
  <2>3. \A c \in Block : PlaceOf(c) = Spot(c, L, R, D) /\ PlaceOf(c)' = Spot(c, D \cup L, R, {})'
    BY <2>1, <2>2, Mapped
  <2>4. \A c \in Block : PlaceOf(c)' = PlaceOf(c)
    BY <1>8, <2>3 DEF Joins, SameHands, Spot
  <2>5. Detached = D /\ Detached' = {}
    BY <2>1, <2>2, Mapped
  <2>6. used' - Cardinality(Detached') = used - Cardinality(Detached)
    BY <1>1, <1>2, <1>3, <2>1, <2>5
  <2>7. UNCHANGED Promise!vars
    BY <1>8, <2>4, <2>6 DEF Promise!vars, Joins
  <2> QED
    BY <2>7
<1>9. CASE Frees
  <2>1. PICK L, R \in SUBSET Block, b \in live :
          Moves(L, R, {}, L \cup {b}, R, {}) /\ live' = live \ {b}
    BY <1>9 DEF Frees
  <2>2. b \in Block
    BY DEF PInv, TypeOK
  <2>3. {} \in SUBSET Block /\ L \cup {b} \in SUBSET Block
    BY <2>2
  <2>4. \A c \in Block : PlaceOf(c) = Spot(c, L, R, {}) /\ PlaceOf(c)' = Spot(c, L \cup {b}, R, {})'
    BY <2>1, <2>3, Mapped
  <2>5. b \notin InFlight /\ b \notin R
    BY <2>1 DEF Moves, Shape
  <2>6. /\ PlaceOf(b) = "live"
        /\ \A c \in Block : PlaceOf(c)' = IF c = b THEN "local" ELSE PlaceOf(c)
    BY <1>9, <2>1, <2>2, <2>4, <2>5 DEF Frees, Spot
  <2>7. Detached = {} /\ Detached' = {}
    BY <2>1, <2>3, Mapped
  <2>8. used' - Cardinality(Detached') = (used - Cardinality(Detached)) - 1
    BY <1>1, <1>3, <1>9, <2>7 DEF Frees
  <2>9. Promise!FreeLocal(b)
    BY <1>9, <2>2, <2>6, <2>8 DEF Promise!FreeLocal, Frees
  <2> QED
    BY <2>2, <2>9 DEF Promise!Next, Promise!Block, Block
<1>10. CASE Sends
  <2>1. PICK L, R, D \in SUBSET Block : Moves(L, R, D, L, R, D)
    BY <1>10 DEF Sends
  <2>2. PICK b \in live : live' = live \ {b} /\ InFlight' = InFlight \cup {b}
    BY <1>10 DEF Sends
  <2>3. b \in Block
    BY DEF PInv, TypeOK
  <2>4. \A c \in Block : PlaceOf(c) = Spot(c, L, R, D) /\ PlaceOf(c)' = Spot(c, L, R, D)'
    BY <2>1, Mapped
  <2>5. /\ PlaceOf(b) = "live"
        /\ \A c \in Block : PlaceOf(c)' = IF c = b THEN "pushing" ELSE PlaceOf(c)
    BY <2>2, <2>3, <2>4 DEF Spot
  <2>6. Detached = D /\ Detached' = D
    BY <2>1, Mapped
  <2>7. Promise!FreeRemote(b)
    BY <1>10, <2>3, <2>5, <2>6 DEF Promise!FreeRemote, Sends
  <2> QED
    BY <2>3, <2>7 DEF Promise!Next, Promise!Block, Block
<1>11. CASE Pushes
  <2>1. PICK L, R, D \in SUBSET Block, b \in InFlight :
          Moves(L, R, D, L, R \cup {b}, D) /\ InFlight' = InFlight \ {b}
    BY <1>11 DEF Pushes
  <2>2. b \in Block /\ b \notin live
    BY <2>1 DEF InFlight, Moves, Shape
  <2>3. R \cup {b} \in SUBSET Block
    BY <2>2
  <2>4. \A c \in Block : PlaceOf(c) = Spot(c, L, R, D) /\ PlaceOf(c)' = Spot(c, L, R \cup {b}, D)'
    BY <2>1, <2>3, Mapped
  <2>5. /\ PlaceOf(b) = "pushing"
        /\ \A c \in Block : PlaceOf(c)' = IF c = b THEN "remote" ELSE PlaceOf(c)
    BY <1>11, <2>1, <2>2, <2>4 DEF Pushes, Spot
  <2>6. Detached = D /\ Detached' = D
    BY <2>1, <2>3, Mapped
  <2>7. Promise!Push(b)
    BY <1>11, <2>2, <2>5, <2>6 DEF Promise!Push, Pushes
  <2> QED
    BY <2>2, <2>7 DEF Promise!Next, Promise!Block, Block
<1>12. CASE Pools
  <2>1. PICK L \in SUBSET Block : Moves(L, {}, {}, {}, {}, {})
    BY <1>12 DEF Pools
  <2>2. {} \in SUBSET Block
    OBVIOUS
  <2>3. \A c \in Block : PlaceOf(c) = Spot(c, L, {}, {}) /\ PlaceOf(c)' = Spot(c, {}, {}, {})'
    BY <2>1, <2>2, Mapped
  <2>4. \A c \in Block : PlaceOf(c)' = IF PlaceOf(c) = "local" THEN "bump" ELSE PlaceOf(c)
    BY <1>12, <2>3 DEF Pools, SameHands, Spot
  <2>5. Detached = {} /\ Detached' = {}
    BY <2>1, <2>2, Mapped
  <2>6. used - Cardinality(Detached) = 0 /\ used' - Cardinality(Detached') = 0
    BY <1>3, <1>12, <2>5 DEF Pools
  <2>7. Promise!Recycle
    BY <1>12, <2>4, <2>6 DEF Promise!Recycle, Promise!Block, Block, Pools
  <2> QED
    BY <2>7 DEF Promise!Next
<1>13. CASE Takes
  <2>1. Moves({}, {}, {}, {}, {}, {}) /\ {} \in SUBSET Block
    BY <1>13 DEF Takes
  <2>2. \A c \in Block : PlaceOf(c)' = Spot(c, {}, {}, {})'
    BY <2>1, Mapped
  <2>3. \A c \in Block : PlaceOf(c)' = "bump"
    BY <1>13, <2>2 DEF Takes, SameHands, Spot
  <2>4. Detached' = {}
    BY <2>1, Mapped
  <2>5. used' - Cardinality(Detached') = 0
    BY <1>3, <1>13, <2>4 DEF Takes
  <2>6. Promise!Acquire
    BY <1>13, <2>3, <2>5 DEF Promise!Acquire, Promise!Block, Block, Takes
  <2> QED
    BY <2>6 DEF Promise!Next
<1> QED
  BY <1>4, <1>5, <1>6, <1>7, <1>8, <1>9, <1>10, <1>11, <1>12, <1>13 DEF SetStep

\* A page nobody has used maps to the promise's initial state.
LEMMA PromisedInit == Init => Promise!Init
<1> SUFFICES ASSUME Init PROVE Promise!Init
  OBVIOUS
<1>1. PInv
  BY InitPInv
<1>2. InFlight = {}
  BY PageAssumption DEF Init, InFlight, NoLocals
<1>3. Shape({}, {}, {}) /\ {} \in SUBSET Block
  BY <1>2, ChainEmpty, FS_EmptySet DEF Init, Shape
<1>4. Detached = {} /\ \A c \in Block : PlaceOf(c) = Spot(c, {}, {}, {})
  BY <1>1, <1>3, Mapping
<1>5. \A c \in Block : PlaceOf(c) = "bump"
  BY <1>2, <1>4 DEF Init, Spot
<1>6. used - Cardinality(Detached) = 0
  BY <1>4, FS_EmptySet DEF Init
<1> QED
  BY <1>5, <1>6 DEF Init, Promise!Init, Promise!Block, Block

\* The pointer-level page implements PageSpec: with the cross-thread list's
\* blocks counted as back from page_collect's exchange on, every step of
\* every thread is a step of the promise, or none.
THEOREM PageImplementsPromise == Spec => ImplementsPromise
<1>1. PInv /\ PInv' /\ SetStep => [Promise!Next]_(Promise!vars)
  BY PromisedStep
<1> QED
  BY <1>1, PromisedInit, PageInvariant, StepPInv, PTL DEF Spec, ImplementsPromise, Promise!Spec

====
