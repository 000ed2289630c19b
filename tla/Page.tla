-------------------------------- MODULE Page --------------------------------
(***************************************************************************)
(* One page at the level of its pointers.  The free lists are threaded     *)
(* through the blocks' own first word (Block::next), so a block is at the  *)
(* same time list node and application memory.  The owner works on free,   *)
(* used and reserved without synchronisation; every other thread only      *)
(* pushes onto thread_free with a compare-and-swap; a page whose owner has *)
(* exited is worked on by whichever thread sweeps it under the central     *)
(* lock.  A step touches at most one word that another thread may write;   *)
(* code between two such accesses is part of the earlier step.             *)
(*                                                                         *)
(* The rest of the heap appears only as far as it decides what happens to  *)
(* this page: whether the page is the head of its class, whether a walk    *)
(* reaches it and whether a sweep runs are choices here and are determined *)
(* in ThreadHeap and Central.  The heap of thread t is written t.          *)
(***************************************************************************)
EXTENDS Naturals, FiniteSets, Links

CONSTANTS
  Thread,
  Capacity,                \* Page::capacity
  Batch,                   \* blocks page_extend carves at a time
  NULL,
  JUNK,                    \* any word the application may leave in its memory
  ABANDONED                \* central.cpp's ABANDONED_OWNER

Block == 1 .. Capacity

\* NULL and ABANDONED are no block's and no heap's address; JUNK may be anything.
ASSUME PageAssumption ==
  /\ Capacity \in Nat \ {0}
  /\ Batch \in Nat \ {0}
  /\ NULL \notin Block
  /\ NULL \notin Thread /\ ABANDONED \notin Thread /\ ABANDONED # NULL

VARIABLES
  next,                    \* Block::next, the first word of every block
  free, used, reserved,    \* Page fields private to the owner
  owner,                   \* Page::owner
  thread_free,             \* Page::thread_free
  linked,                  \* which list holds the page: pool, heap, abandoned
  mtx,                     \* holder of CentralState::mtx
  t_heap,                  \* each thread's heap pointer
  live,                    \* blocks in the application's hands
  pc, loc                  \* each thread's position and local variables

private == <<free, used, reserved>>
central == <<owner, linked, mtx>>
vars == <<next, private, central, thread_free, t_heap, live, pc, loc>>

Ptr == Block \cup {NULL}

\* blk, head: heap_free_remote; list, tail, n: page_collect; ret: the code
\* that continues when the collection is done.
Locals == [blk : Ptr, head : Ptr, list : Ptr, tail : Ptr, n : 0 .. Capacity,
           ret : {"idle", "available", "handback", "swept"}]

NoLocals == [blk |-> NULL, head |-> NULL, list |-> NULL, tail |-> NULL, n |-> 0, ret |-> "idle"]

Init ==
  /\ next = [b \in Block |-> JUNK]
  /\ free = NULL /\ used = 0 /\ reserved = 0
  /\ owner = NULL /\ linked = "pool" /\ mtx = NULL
  /\ thread_free = NULL
  /\ t_heap = [t \in Thread |-> NULL]
  /\ live = {}
  /\ pc = [t \in Thread |-> "idle"]
  /\ loc = [t \in Thread |-> NoLocals]

Goto(t, l) == pc' = [pc EXCEPT ![t] = l]

Idle(t) == pc[t] = "idle"

Owns(t) == t_heap[t] # NULL /\ owner = t_heap[t] /\ linked = "heap"

-----------------------------------------------------------------------------
(* Allocation *)

\* page_pop, and the fast path of heap_malloc: hand out the first free block.
page_pop ==
  /\ free \in Block
  /\ free' = next[free]
  /\ used' = used + 1
  /\ live' = live \cup {free}
  /\ UNCHANGED <<next, reserved>>

HeapMalloc(t) ==
  /\ Idle(t) /\ Owns(t)
  /\ page_pop
  /\ UNCHANGED <<central, thread_free, t_heap, pc, loc>>

\* heap_malloc_slow reaches this page and its local list is empty.
HeapMallocSlow(t) ==
  /\ Idle(t) /\ Owns(t) /\ free = NULL
  /\ Goto(t, "exchange")
  /\ loc' = [loc EXCEPT ![t].ret = "available"]
  /\ UNCHANGED <<next, private, central, thread_free, t_heap, live>>

\* Faulty: the list is read but not detached.
Exchange_LoadOnly(t) ==
  /\ pc[t] = "exchange"
  /\ IF thread_free = NULL
       THEN Goto(t, loc[t].ret) /\ UNCHANGED loc
       ELSE /\ Goto(t, "walk")
            /\ loc' = [loc EXCEPT ![t].list = thread_free, ![t].tail = thread_free, ![t].n = 1]
  /\ UNCHANGED <<next, private, central, thread_free, t_heap, live>>

\* Faulty: waits for a remote free when there is none.
Exchange_Waits(t) ==
  /\ pc[t] = "exchange"
  /\ thread_free' = NULL
  /\ thread_free # NULL
  /\ Goto(t, "walk")
  /\ loc' = [loc EXCEPT ![t].list = thread_free, ![t].tail = thread_free, ![t].n = 1]
  /\ UNCHANGED <<next, private, central, t_heap, live>>

\* page_collect (collect_locked is the same code): detach the whole
\* cross-thread list with one exchange.
Exchange(t) ==
  /\ pc[t] = "exchange"
  /\ thread_free' = NULL
  /\ IF thread_free = NULL
       THEN Goto(t, loc[t].ret) /\ UNCHANGED loc
       ELSE /\ Goto(t, "walk")
            /\ loc' = [loc EXCEPT ![t].list = thread_free, ![t].tail = thread_free, ![t].n = 1]
  /\ UNCHANGED <<next, private, central, t_heap, live>>

\* Find and count the detached list's blocks.
Walk(t) ==
  /\ pc[t] = "walk" /\ next[loc[t].tail] \in Block
  /\ loc' = [loc EXCEPT ![t].tail = next[loc[t].tail], ![t].n = @ + 1]
  /\ UNCHANGED <<next, private, central, thread_free, t_heap, live, pc>>

\* Faulty: used is not corrected.
Splice_Uncounted(t) ==
  /\ pc[t] = "walk" /\ next[loc[t].tail] = NULL
  /\ next' = [next EXCEPT ![loc[t].tail] = free]
  /\ free' = loc[t].list
  /\ Goto(t, loc[t].ret)
  /\ loc' = [loc EXCEPT ![t] = [NoLocals EXCEPT !.ret = loc[t].ret]]
  /\ UNCHANGED <<used, reserved, central, thread_free, t_heap, live>>

\* Put the detached list in front of the local one.
Splice(t) ==
  /\ pc[t] = "walk" /\ next[loc[t].tail] = NULL
  /\ next' = [next EXCEPT ![loc[t].tail] = free]
  /\ free' = loc[t].list
  /\ used' = used - loc[t].n
  /\ Goto(t, loc[t].ret)
  /\ loc' = [loc EXCEPT ![t] = [NoLocals EXCEPT !.ret = loc[t].ret]]
  /\ UNCHANGED <<reserved, central, thread_free, t_heap, live>>

\* page_extend: thread the next batch of the bump area in front of free.
page_extend(t) ==
  LET last == IF reserved + Batch > Capacity THEN Capacity ELSE reserved + Batch IN
  /\ pc[t] = "available" /\ free = NULL /\ reserved < Capacity
  /\ next' = [b \in Block |-> IF b \in reserved + 1 .. last
                                THEN IF b = last THEN free ELSE b + 1
                                ELSE next[b]]
  /\ free' = reserved + 1
  /\ reserved' = last
  /\ UNCHANGED <<used, central, thread_free, t_heap, live, pc, loc>>

\* page_make_available succeeded: pop.
Pop(t) ==
  /\ pc[t] = "available"
  /\ page_pop
  /\ Goto(t, "idle")
  /\ loc' = [loc EXCEPT ![t] = NoLocals]
  /\ UNCHANGED <<central, thread_free, t_heap>>

\* page_make_available failed: the walk leaves this page.
Exhausted(t) ==
  /\ pc[t] = "available" /\ free = NULL /\ reserved = Capacity
  /\ Goto(t, "idle")
  /\ loc' = [loc EXCEPT ![t] = NoLocals]
  /\ UNCHANGED <<next, private, central, thread_free, t_heap, live>>

-----------------------------------------------------------------------------
(* Freeing *)

\* The owner's free, without synchronisation.  When the count reaches zero
\* heap_on_page_empty keeps the head page of a class and releases any other.
FreeLocal(t, b) ==
  /\ Idle(t) /\ b \in live
  /\ owner = t_heap[t]
  /\ live' = live \ {b}
  /\ next' = [next EXCEPT ![b] = free]
  /\ free' = b
  /\ used' = used - 1
  /\ \/ UNCHANGED pc
     \/ used' = 0 /\ Goto(t, "release")
  /\ UNCHANGED <<reserved, central, thread_free, t_heap, loc>>

\* Any other thread's free, a thread without a heap included.  The owner is
\* not looked at again: it may exit before the push below is done.
FreeRemote(t, b) ==
  /\ Idle(t) /\ b \in live
  /\ owner # t_heap[t]
  /\ live' = live \ {b}
  /\ Goto(t, "load")
  /\ loc' = [loc EXCEPT ![t].blk = b]
  /\ UNCHANGED <<next, private, central, thread_free, t_heap>>

\* Read the list's head and link the block in front of it.
RemoteLoad(t) ==
  /\ pc[t] = "load"
  /\ loc' = [loc EXCEPT ![t].head = thread_free]
  /\ next' = [next EXCEPT ![loc[t].blk] = thread_free]
  /\ Goto(t, "cas")
  /\ UNCHANGED <<private, central, thread_free, t_heap, live>>

RemoteCas(t) ==
  /\ pc[t] = "cas" /\ thread_free = loc[t].head
  /\ thread_free' = loc[t].blk
  /\ Goto(t, "idle")
  /\ loc' = [loc EXCEPT ![t] = NoLocals]
  /\ UNCHANGED <<next, private, central, t_heap, live>>

\* Faulty: the block keeps the link it had before the failed attempt.
RemoteRetry_StaleLink(t) ==
  /\ pc[t] = "cas" /\ thread_free # loc[t].head
  /\ loc' = [loc EXCEPT ![t].head = thread_free]
  /\ UNCHANGED <<next, private, central, thread_free, t_heap, live, pc>>

\* Faulty: the expected head is not reloaded.
RemoteRetry_StaleHead(t) ==
  /\ pc[t] = "cas" /\ thread_free # loc[t].head
  /\ next' = [next EXCEPT ![loc[t].blk] = loc[t].head]
  /\ UNCHANGED <<private, central, thread_free, t_heap, live, pc, loc>>

\* A failed compare-and-swap reloads the head, and the block is linked again.
\* (A weak one may also fail for no reason: then nothing changes.)
RemoteRetry(t) ==
  /\ pc[t] = "cas" /\ thread_free # loc[t].head
  /\ loc' = [loc EXCEPT ![t].head = thread_free]
  /\ next' = [next EXCEPT ![loc[t].blk] = thread_free]
  /\ UNCHANGED <<private, central, thread_free, t_heap, live, pc>>

-----------------------------------------------------------------------------
(* The page's way through the central heap *)

\* What pool_return does to the page.
pool_return ==
  /\ linked' = "pool"
  /\ owner' = NULL
  /\ free' = NULL
  /\ UNCHANGED <<next, used, reserved>>

\* central_release_page, called by heap_on_page_empty.
Release(t) ==
  /\ pc[t] = "release" /\ mtx = NULL
  /\ pool_return
  /\ Goto(t, "idle")
  /\ UNCHANGED <<mtx, thread_free, t_heap, live, loc>>

\* central_acquire_page hands the page to t's heap, and heap_malloc_slow goes
\* on to carve and pop.  The memory may hold another class's leftovers.
Acquire(t) ==
  /\ Idle(t) /\ t_heap[t] # NULL
  /\ linked = "pool" /\ mtx = NULL
  /\ linked' = "heap" /\ owner' = t_heap[t]
  /\ free' = NULL /\ used' = 0 /\ reserved' = 0
  /\ thread_free' = NULL
  /\ next' = [b \in Block |-> JUNK]
  /\ Goto(t, "available")
  /\ UNCHANGED <<mtx, t_heap, live, loc>>

HeapCreate(t) ==
  /\ Idle(t) /\ t_heap[t] = NULL
  /\ t_heap' = [t_heap EXCEPT ![t] = t]
  /\ UNCHANGED <<next, private, central, thread_free, live, pc, loc>>

\* heap_destroy on a thread that does not own this page.
ExitWithout(t) ==
  /\ Idle(t) /\ t_heap[t] # NULL /\ ~Owns(t)
  /\ t_heap' = [t_heap EXCEPT ![t] = NULL]
  /\ UNCHANGED <<next, private, central, thread_free, live, pc, loc>>

\* heap_destroy reaches this page: collect, then release or abandon.
Exit(t) ==
  /\ Idle(t) /\ Owns(t)
  /\ Goto(t, "exchange")
  /\ loc' = [loc EXCEPT ![t].ret = "handback"]
  /\ UNCHANGED <<next, private, central, thread_free, t_heap, live>>

\* Faulty: the owner is cleared, as if no thread had a null heap.
central_abandon_page_Null ==
  /\ linked' = "abandoned"
  /\ owner' = NULL
  /\ UNCHANGED <<next, private>>

central_abandon_page ==
  /\ linked' = "abandoned"
  /\ owner' = ABANDONED
  /\ UNCHANGED <<next, private>>

\* Faulty: the page is released whatever its count.
HandBack_Unchecked(t) ==
  /\ pc[t] = "handback" /\ mtx = NULL
  /\ pool_return
  /\ t_heap' = [t_heap EXCEPT ![t] = NULL]
  /\ Goto(t, "idle")
  /\ loc' = [loc EXCEPT ![t] = NoLocals]
  /\ UNCHANGED <<mtx, thread_free, live>>

HandBack(t) ==
  /\ pc[t] = "handback" /\ mtx = NULL
  /\ \/ used = 0 /\ pool_return
     \/ used # 0 /\ central_abandon_page
  /\ t_heap' = [t_heap EXCEPT ![t] = NULL]
  /\ Goto(t, "idle")
  /\ loc' = [loc EXCEPT ![t] = NoLocals]
  /\ UNCHANGED <<mtx, thread_free, live>>

\* sweep_abandoned reaches this page, run by a thread that needs a page and
\* holds the central lock until the page is dealt with.
Sweep(t) ==
  /\ Idle(t) /\ t_heap[t] # NULL
  /\ linked = "abandoned" /\ mtx = NULL
  /\ mtx' = t
  /\ Goto(t, "exchange")
  /\ loc' = [loc EXCEPT ![t].ret = "swept"]
  /\ UNCHANGED <<next, private, owner, linked, thread_free, t_heap, live>>

Swept(t) ==
  /\ pc[t] = "swept"
  /\ \/ used = 0 /\ pool_return
     \/ used # 0 /\ UNCHANGED <<next, private, owner, linked>>
  /\ mtx' = NULL
  /\ Goto(t, "idle")
  /\ loc' = [loc EXCEPT ![t] = NoLocals]
  /\ UNCHANGED <<thread_free, t_heap, live>>

-----------------------------------------------------------------------------

\* The application writes to memory it holds.
UserWrite(b) ==
  /\ b \in live /\ next[b] # JUNK
  /\ next' = [next EXCEPT ![b] = JUNK]
  /\ UNCHANGED <<private, central, thread_free, t_heap, live, pc, loc>>

\* The application's calls, and thread start and exit.
Call(t) ==
  \/ HeapMalloc(t) \/ HeapMallocSlow(t)
  \/ \E b \in Block : FreeLocal(t, b) \/ FreeRemote(t, b)
  \/ HeapCreate(t) \/ Acquire(t) \/ Sweep(t)
  \/ Exit(t) \/ ExitWithout(t)

Collecting(t) == Exchange(t) \/ Walk(t) \/ Splice(t)

Pushing(t) == RemoteLoad(t) \/ RemoteCas(t) \/ RemoteRetry(t)

\* A call that has started goes on.
Step(t) ==
  \/ Collecting(t) \/ Pushing(t)
  \/ page_extend(t) \/ Pop(t) \/ Exhausted(t)
  \/ Release(t) \/ HandBack(t) \/ Swept(t)

Next ==
  \/ \E t \in Thread : Call(t) \/ Step(t)
  \/ \E b \in Block : UserWrite(b)

Spec == Init /\ [][Next]_vars

\* A running thread keeps running; nothing is assumed of the application.
FairSpec == Spec /\ \A t \in Thread : WF_vars(Step(t))

-----------------------------------------------------------------------------
(* Reading the lists off the memory *)

\* The words met when following next from h, Capacity + 1 of them.
Words(h) == Follow(h, next, Capacity)

Nodes(h) == Words(h) \cap Block

\* A list ends in NULL: it has no cycle and runs into no foreign word.
Terminated(h) == NULL \in Words(h)

Detached == UNION {Nodes(loc[t].list) : t \in Thread}

InFlight == {loc[t].blk : t \in Thread} \cap Block

-----------------------------------------------------------------------------

TypeOK ==
  /\ next \in [Block -> Ptr \cup {JUNK}]
  /\ free \in Ptr /\ thread_free \in Ptr
  /\ used \in 0 .. Capacity /\ reserved \in 0 .. Capacity
  /\ owner \in Thread \cup {NULL, ABANDONED}
  /\ linked \in {"pool", "heap", "abandoned"}
  /\ mtx \in Thread \cup {NULL}
  /\ t_heap \in [Thread -> Thread \cup {NULL}]
  /\ live \subseteq Block
  /\ pc \in [Thread -> {"idle", "exchange", "walk", "available", "load", "cas",
                        "release", "handback", "swept"}]
  /\ loc \in [Thread -> Locals]

\* Whatever the application writes into its own blocks, and however frees
\* interleave with collections, following any of the page's lists meets only
\* blocks of the page and ends in NULL.
ListsTerminate ==
  /\ Terminated(free) /\ Terminated(thread_free)
  /\ \A t \in Thread : Terminated(loc[t].list)

\* Every carved block of a page that is out of the pool is in exactly one
\* place: on the local list, on the cross-thread list, in a list just
\* detached, inside a remote free, or in the application's hands.  No block is
\* handed out twice, freed into two lists, or lost.  used counts those that
\* are not on the local list, so a page is found idle precisely when it is.
BlocksPartitioned ==
  /\ linked # "pool" =>
       LET places == <<Nodes(free), Nodes(thread_free), Detached, InFlight, live>> IN
       /\ UNION {places[i] : i \in DOMAIN places} = 1 .. reserved
       /\ \A i, j \in DOMAIN places : i # j => places[i] \cap places[j] = {}
       /\ \A t, u \in Thread : t # u => loc[t].blk = NULL \/ loc[t].blk # loc[u].blk
  /\ used = Cardinality(live \cup InFlight \cup Nodes(thread_free) \cup Detached)

\* The unsynchronised fields are only ever written by one thread: the one
\* whose heap owns the page, or, once the page is abandoned, the one holding
\* the central lock.  Taking a page from the pool happens under the lock.
OwnerPrivate ==
  [][private' # private =>
       \/ \E t \in Thread : /\ owner = t /\ t_heap[t] = t
                            /\ \A u \in Thread \ {t} : pc'[u] = pc[u] /\ loc'[u] = loc[u]
       \/ \E t \in Thread : /\ linked = "abandoned" /\ mtx = t
                            /\ \A u \in Thread \ {t} : pc'[u] = pc[u] /\ loc'[u] = loc[u]
       \/ linked = "pool" /\ mtx = NULL]_vars

\* A collection ends although other threads keep freeing: it works on a list
\* it has detached.
CollectEnds ==
  \A t \in Thread : pc[t] \in {"exchange", "walk"} ~> pc[t] \notin {"exchange", "walk"}

\* Remote frees are lock-free: while some thread keeps losing its
\* compare-and-swap, other pushes keep succeeding.
PushLockFree ==
  \A t \in Thread : []<>(pc[t] # "cas") \/ []<><<\E u \in Thread : RemoteCas(u)>>_vars

-----------------------------------------------------------------------------
(* The page implements PageSpec.  A detached list counts as local from the *)
(* exchange on, although used is only corrected when it is spliced.        *)

PlaceOf(b) ==
  CASE b \in live                        -> "live"
    [] b \in InFlight                    -> "pushing"
    [] b \in Nodes(thread_free)          -> "remote"
    [] b \in Nodes(free) \cup Detached   -> "local"
    [] OTHER                             -> "bump"

Promise == INSTANCE PageSpec
             WITH place <- [b \in Block |-> PlaceOf(b)],
                  used  <- used - Cardinality(Detached),
                  held  <- linked # "pool"

\* Every step of the pointer-level page is a step of PageSpec or none.
ImplementsPromise == Promise!Spec

=============================================================================
