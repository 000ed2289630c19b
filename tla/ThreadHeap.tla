----------------------------- MODULE ThreadHeap -----------------------------
(***************************************************************************)
(* Thread heaps working against the central heap: allocation through the   *)
(* class lists, local and remote frees, the recycling of emptied pages,    *)
(* and thread exit up to the unmapping of the heap itself.  A page's lists *)
(* are their lengths here (Page.tla has the lists); the links between      *)
(* pages are explicit, because a class list, a segment's pool and the      *)
(* abandoned list share them.                                              *)
(*                                                                         *)
(* A thread's step ends where it next touches memory another thread may    *)
(* write: the cross-thread list of a page, or what a lock protects.        *)
(***************************************************************************)
EXTENDS Central

CONSTANTS
  Thread,
  HeapAddr,                \* addresses a Heap can be mapped at
  NumClasses,              \* kNumSizeClasses
  Capacity,                \* blocks in a page, for each class
  Batch,                   \* blocks page_extend carves, for each class
  EMPTY,                   \* &g_empty_page
  LateCalls,               \* may thread-local destructors run after HeapGuard's?
  HeapMayFail              \* may the mapping of a Heap fail?

Class == 1 .. NumClasses

ASSUME HeapAssumption ==
  /\ NumClasses \in Nat \ {0}
  /\ Capacity \in [Class -> Nat \ {0}]
  /\ Batch \in [Class -> Nat \ {0}]
  /\ LateCalls \in BOOLEAN /\ HeapMayFail \in BOOLEAN
  /\ NULL \notin HeapAddr

VARIABLES
  mem,                     \* the central heap and all pages, see Central
  mtx,                     \* holder of CentralState::mtx
  heap,                    \* Heap::pages of every heap
  heaps,                   \* heaps mapped from the operating system
  registry,                \* the list at g_registry
  t_heap,                  \* each thread's heap pointer
  life,                    \* running, past its HeapGuard, or gone
  live,                    \* blocks of each page in the application's hands
  pc, loc                  \* each thread's position and local variables

threadState == <<t_heap, life, pc, loc>>
heapState == <<heap, heaps, registry>>
vars == <<mem, mtx, heapState, live, threadState>>

\* c: size class; p: the page at hand; pp: the sweep's cursor, or the next
\* page of a heap being destroyed.
NoLocals == [c |-> 0, p |-> NULL, pp |-> NULL]

NoPages == [c \in Class |-> EMPTY]

Init ==
  /\ mem = CentralInit /\ mtx = NULL
  /\ heap = [h \in HeapAddr |-> NoPages] /\ heaps = {} /\ registry = {}
  /\ t_heap = [t \in Thread |-> NULL]
  /\ life = [t \in Thread |-> "running"]
  /\ live = [p \in Page |-> 0]
  /\ pc = [t \in Thread |-> "idle"]
  /\ loc = [t \in Thread |-> NoLocals]

At(t, l) == pc[t] = l

Goto(t, l, locals) ==
  /\ pc' = [pc EXCEPT ![t] = l]
  /\ loc' = [loc EXCEPT ![t] = locals]

Return(t) == Goto(t, "idle", NoLocals)

Callable(t) == At(t, "idle") /\ life[t] # "gone"

-----------------------------------------------------------------------------
(* A page serves a block *)

\* Faulty: reserved is not advanced.
page_extend_SameArea(m, p) ==
  LET c == m.page[p].size_class
      remaining == Capacity[c] - m.page[p].reserved
      batch == IF Batch[c] > remaining THEN remaining ELSE Batch[c]
  IN [m EXCEPT !.page[p].free = @ + batch]

page_extend(m, p) ==
  LET c == m.page[p].size_class
      remaining == Capacity[c] - m.page[p].reserved
      batch == IF Batch[c] > remaining THEN remaining ELSE Batch[c]
  IN [m EXCEPT !.page[p].free = @ + batch, !.page[p].reserved = @ + batch]

page_make_available(m, p) ==
  IF m.page[p].free > 0 THEN m
  ELSE LET r == page_collect(m, p)
       IN IF r.page[p].free > 0 \/ r.page[p].reserved = Capacity[r.page[p].size_class]
            THEN r ELSE page_extend(r, p)

page_pop(m, p) == [m EXCEPT !.page[p].free = @ - 1, !.page[p].used = @ + 1]

\* Faulty: the page after p still points back to it.
heap_rotate_to_front_StalePrev(m, head, p) ==
  LET before == m.page[p].prev
      after  == m.page[p].next
  IN [m EXCEPT !.page = [x \in Page |->
        CASE x = p -> [@[x] EXCEPT !.prev = NULL, !.next = head]
          [] x # p -> [@[x] EXCEPT !.next = IF x = before THEN after ELSE @,
                                   !.prev = IF x = head THEN p ELSE @]]]

\* Unlink p from its place and put it in front of the list that starts at head.
heap_rotate_to_front(m, head, p) ==
  LET before == m.page[p].prev
      after  == m.page[p].next
  IN [m EXCEPT !.page = [x \in Page |->
        CASE x = p -> [@[x] EXCEPT !.prev = NULL, !.next = head]
          [] x # p -> [@[x] EXCEPT !.next = IF x = before THEN after ELSE @,
                                   !.prev = IF x = head THEN p
                                            ELSE IF x = after THEN before ELSE @]]]

\* The block goes to the application, and p is the head of its class.
Serve(t, m, h, c, p) ==
  /\ mem' = page_pop(m, p)
  /\ heap' = [heap EXCEPT ![h][c] = p]
  /\ live' = [live EXCEPT ![p] = @ + 1]
  /\ Return(t)

-----------------------------------------------------------------------------
(* malloc *)

\* heap_malloc with a heap: pop from the head page, or take the slow path.
Malloc(t, c) ==
  /\ Callable(t) /\ t_heap[t] # NULL
  /\ LET h == t_heap[t]
         p == heap[h][c]
     IN \/ /\ p # EMPTY /\ mem.page[p].free > 0
           /\ Serve(t, mem, h, c, p)
        \/ /\ p # EMPTY /\ mem.page[p].free = 0
           /\ Goto(t, "walk", [NoLocals EXCEPT !.c = c, !.p = p])
           /\ UNCHANGED <<mem, heap, live>>
        \/ /\ p = EMPTY
           /\ Goto(t, "acquire", [NoLocals EXCEPT !.c = c])
           /\ UNCHANGED <<mem, heap, live>>
  /\ UNCHANGED <<mtx, heaps, registry, t_heap, life>>

\* heap_malloc without one: heap_create makes it, registers it and installs
\* it; every class then has no page yet.
MallocFirst(t, c) ==
  /\ Callable(t) /\ t_heap[t] = NULL
  /\ \E h \in HeapAddr \ heaps :
       /\ heap' = [heap EXCEPT ![h] = NoPages]
       /\ heaps' = heaps \cup {h}
       /\ registry' = registry \cup {h}
       /\ t_heap' = [t_heap EXCEPT ![t] = h]
  /\ Goto(t, "acquire", [NoLocals EXCEPT !.c = c])
  /\ UNCHANGED <<mem, mtx, live, life>>

\* heap_create returns null and heap_malloc reads h->pages[c] through it.  The
\* thread gets no further; that the others do is harmless, since in fact the
\* process ends.
MallocFault(t) ==
  /\ HeapMayFail /\ Callable(t) /\ t_heap[t] = NULL
  /\ Goto(t, "fault", NoLocals)
  /\ UNCHANGED <<mem, mtx, heapState, live, t_heap, life>>

\* Faulty: the walk does not move on from a page that has no block.
Walk_Stays(t) ==
  /\ At(t, "walk")
  /\ LET h == t_heap[t]
         c == loc[t].c
         p == loc[t].p
         m == page_make_available(mem, p)
     IN \/ /\ m.page[p].free > 0
           /\ Serve(t, IF p = heap[h][c] THEN m ELSE heap_rotate_to_front(m, heap[h][c], p), h, c, p)
        \/ /\ m.page[p].free = 0
           /\ mem' = m
           /\ Goto(t, "walk", loc[t])
           /\ UNCHANGED <<heap, live>>
  /\ UNCHANGED <<mtx, heaps, registry, t_heap, life>>

\* heap_malloc_slow tries one page of the class.
Walk(t) ==
  /\ At(t, "walk")
  /\ LET h == t_heap[t]
         c == loc[t].c
         p == loc[t].p
         m == page_make_available(mem, p)
     IN \/ /\ m.page[p].free > 0
           /\ Serve(t, IF p = heap[h][c] THEN m ELSE heap_rotate_to_front(m, heap[h][c], p), h, c, p)
        \/ /\ m.page[p].free = 0
           /\ mem' = m
           /\ IF mem.page[p].next = NULL
                THEN Goto(t, "acquire", [NoLocals EXCEPT !.c = c])
                ELSE Goto(t, "walk", [loc[t] EXCEPT !.p = mem.page[p].next])
           /\ UNCHANGED <<heap, live>>
  /\ UNCHANGED <<mtx, heaps, registry, t_heap, life>>

\* central_acquire_page has a page, and heap_malloc_slow finishes with it:
\* link it in as the new head, carve it, pop from it.
FinishWithPage(t, m) ==
  LET h == t_heap[t]
      c == loc[t].c
      p == first_free(m)
      head == IF heap[h][c] = EMPTY THEN NULL ELSE heap[h][c]
      taken == take_page(m, h, c)
      linked == [taken EXCEPT !.page = [x \in Page |->
                   CASE x = p    -> [@[x] EXCEPT !.prev = NULL, !.next = head]
                     [] x = head -> [@[x] EXCEPT !.prev = p]
                     [] OTHER    -> @[x]]]
  IN Serve(t, page_make_available(linked, p), h, c, p) /\ mtx' = NULL

Acquire(t) ==
  /\ At(t, "acquire") /\ mtx = NULL
  /\ \/ mem.avail # NULL /\ FinishWithPage(t, mem)
     \/ /\ mem.avail = NULL
        /\ mtx' = t
        /\ Goto(t, "sweep", loc[t])
        /\ UNCHANGED <<mem, heap, live>>
  /\ UNCHANGED <<heaps, registry, t_heap, life>>

SweepPage(t) ==
  /\ At(t, "sweep") /\ at_cursor(mem, loc[t].pp) # NULL
  /\ LET r == sweep_page(mem, loc[t].pp)
     IN mem' = r.mem /\ loc' = [loc EXCEPT ![t].pp = r.pp]
  /\ UNCHANGED <<mtx, heapState, live, t_heap, life, pc>>

\* The sweep is over: use what it reclaimed, or map a segment, or, when the
\* operating system has none, return null.
SweepDone(t) ==
  /\ At(t, "sweep") /\ at_cursor(mem, loc[t].pp) = NULL
  /\ \/ mem.avail # NULL /\ FinishWithPage(t, mem)
     \/ mem.avail = NULL /\ \E s \in Segment \ mem.mapped : FinishWithPage(t, map_segment(mem, s))
     \/ mem.avail = NULL /\ mtx' = NULL /\ Return(t) /\ UNCHANGED <<mem, heap, live>>
  /\ UNCHANGED <<heaps, registry, t_heap, life>>

-----------------------------------------------------------------------------
(* free *)

\* heap_on_page_empty keeps the page as head of its class, or unlinks it; the
\* release that follows needs the central lock.
unlink(m, p) ==
  LET before == m.page[p].prev
      after  == m.page[p].next
  IN [m EXCEPT !.page = [x \in Page |->
        CASE x = before -> [@[x] EXCEPT !.next = after]
          [] x = after  -> [@[x] EXCEPT !.prev = before]
          [] OTHER      -> @[x]]]

\* Faulty: an emptied page is kept wherever it is in its list.
FreeLocal_Kept(t, p) ==
  /\ Callable(t) /\ live[p] > 0
  /\ mem.page[p].owner = t_heap[t]
  /\ live' = [live EXCEPT ![p] = @ - 1]
  /\ mem' = [mem EXCEPT !.page[p].free = @ + 1, !.page[p].used = @ - 1]
  /\ UNCHANGED <<mtx, heapState, threadState>>

\* Faulty: an emptied page is released without being unlinked.
FreeLocal_NotUnlinked(t, p) ==
  /\ Callable(t) /\ live[p] > 0
  /\ mem.page[p].owner = t_heap[t]
  /\ live' = [live EXCEPT ![p] = @ - 1]
  /\ LET m == [mem EXCEPT !.page[p].free = @ + 1, !.page[p].used = @ - 1]
     IN /\ mem' = m
        /\ IF m.page[p].used = 0 /\ heap[m.page[p].owner][m.page[p].size_class] # p
             THEN Goto(t, "release", [NoLocals EXCEPT !.p = p])
             ELSE UNCHANGED <<pc, loc>>
  /\ UNCHANGED <<mtx, heapState, t_heap, life>>

FreeLocal(t, p) ==
  /\ Callable(t) /\ live[p] > 0
  /\ mem.page[p].owner = t_heap[t]
  /\ live' = [live EXCEPT ![p] = @ - 1]
  /\ LET m == [mem EXCEPT !.page[p].free = @ + 1, !.page[p].used = @ - 1]
     IN IF m.page[p].used = 0 /\ heap[m.page[p].owner][m.page[p].size_class] # p
          THEN mem' = unlink(m, p) /\ Goto(t, "release", [NoLocals EXCEPT !.p = p])
          ELSE mem' = m /\ UNCHANGED <<pc, loc>>
  /\ UNCHANGED <<mtx, heapState, t_heap, life>>

Release(t) ==
  /\ At(t, "release") /\ mtx = NULL
  /\ mem' = central_release_page(mem, loc[t].p)
  /\ Return(t)
  /\ UNCHANGED <<mtx, heapState, live, t_heap, life>>

FreeRemote(t, p) ==
  /\ Callable(t) /\ live[p] > 0
  /\ mem.page[p].owner # t_heap[t]
  /\ live' = [live EXCEPT ![p] = @ - 1]
  /\ Goto(t, "push", [NoLocals EXCEPT !.p = p])
  /\ UNCHANGED <<mem, mtx, heapState, t_heap, life>>

\* heap_free_remote's compare-and-swap succeeds.
Push(t) ==
  /\ At(t, "push")
  /\ mem' = [mem EXCEPT !.page[loc[t].p].thread_free = @ + 1]
  /\ Return(t)
  /\ UNCHANGED <<mtx, heapState, live, t_heap, life>>

-----------------------------------------------------------------------------
(* Thread exit: ~HeapGuard and heap_destroy *)

\* The first page of heap h at class c or above, with its class; NULL if none.
FirstPage(h, c) ==
  LET cs == {d \in Class : d >= c /\ heap[h][d] # EMPTY}
  IN IF cs = {} THEN [NoLocals EXCEPT !.c = NumClasses + 1]
     ELSE LET d == CHOOSE d \in cs : \A e \in cs : d <= e
          IN [NoLocals EXCEPT !.c = d, !.p = heap[h][d]]

Destroying(t, locals) ==
  Goto(t, IF locals.p = NULL THEN "unregister" ELSE "collect", locals)

\* A thread without a heap has not touched its guard: a destructor that still
\* allocates is part of its running, because the guard it then touches will
\* run after it.
Exit(t) ==
  /\ At(t, "idle") /\ life[t] = "running"
  /\ \/ /\ t_heap[t] = NULL
        /\ life' = [life EXCEPT ![t] = "gone"]
        /\ Return(t)
     \/ /\ t_heap[t] # NULL
        /\ Destroying(t, FirstPage(t_heap[t], 1))
        /\ UNCHANGED life
  /\ UNCHANGED <<mem, mtx, heapState, live, t_heap>>

\* heap_destroy saves the page's successor and collects its remote frees.
ExitCollect(t) ==
  /\ At(t, "collect")
  /\ mem' = page_collect(mem, loc[t].p)
  /\ Goto(t, "handback", [loc[t] EXCEPT !.pp = mem.page[loc[t].p].next])
  /\ UNCHANGED <<mtx, heapState, live, t_heap, life>>

\* Faulty: every page is released.
HandBack_Unchecked(t) ==
  /\ At(t, "handback") /\ mtx = NULL
  /\ LET h == t_heap[t]
         c == loc[t].c
         nx == loc[t].pp
     IN /\ mem' = central_release_page(mem, loc[t].p)
        /\ IF nx # NULL
             THEN Destroying(t, [loc[t] EXCEPT !.p = nx, !.pp = NULL]) /\ UNCHANGED heap
             ELSE Destroying(t, FirstPage(h, c + 1)) /\ heap' = [heap EXCEPT ![h][c] = EMPTY]
  /\ UNCHANGED <<mtx, heaps, registry, live, t_heap, life>>

\* Faulty: the successor is read after the page has changed lists.
HandBack_LateNext(t) ==
  /\ At(t, "handback") /\ mtx = NULL
  /\ LET h == t_heap[t]
         c == loc[t].c
         p == loc[t].p
         m == IF mem.page[p].used = 0 THEN central_release_page(mem, p)
                                      ELSE central_abandon_page(mem, p)
         nx == m.page[p].next
     IN /\ mem' = m
        /\ IF nx # NULL
             THEN Destroying(t, [loc[t] EXCEPT !.p = nx, !.pp = NULL]) /\ UNCHANGED heap
             ELSE Destroying(t, FirstPage(h, c + 1)) /\ heap' = [heap EXCEPT ![h][c] = EMPTY]
  /\ UNCHANGED <<mtx, heaps, registry, live, t_heap, life>>

\* It releases or abandons the page, and goes to the saved successor or the
\* next class.
HandBack(t) ==
  /\ At(t, "handback") /\ mtx = NULL
  /\ LET h == t_heap[t]
         c == loc[t].c
         p == loc[t].p
         nx == loc[t].pp
     IN /\ mem' = IF mem.page[p].used = 0 THEN central_release_page(mem, p)
                                          ELSE central_abandon_page(mem, p)
        /\ IF nx # NULL
             THEN Destroying(t, [loc[t] EXCEPT !.p = nx, !.pp = NULL]) /\ UNCHANGED heap
             ELSE Destroying(t, FirstPage(h, c + 1)) /\ heap' = [heap EXCEPT ![h][c] = EMPTY]
  /\ UNCHANGED <<mtx, heaps, registry, live, t_heap, life>>

Unregister(t) ==
  /\ At(t, "unregister")
  /\ registry' = registry \ {t_heap[t]}
  /\ Goto(t, "unmap", NoLocals)
  /\ UNCHANGED <<mem, mtx, heap, heaps, live, t_heap, life>>

\* os_free of the heap; its address may be mapped again at once.
UnmapHeap(t) ==
  /\ At(t, "unmap")
  /\ heaps' = heaps \ {t_heap[t]}
  /\ Goto(t, "detach", NoLocals)
  /\ UNCHANGED <<mem, mtx, heap, registry, live, t_heap, life>>

\* Faulty: the thread keeps the address of its unmapped heap.
Detach_Dangling(t) ==
  /\ At(t, "detach")
  /\ life' = [life EXCEPT ![t] = IF LateCalls THEN "unguarded" ELSE "gone"]
  /\ Return(t)
  /\ UNCHANGED <<mem, mtx, heapState, live, t_heap>>

\* The guard is done and will not run again; destructors registered before it
\* and those of pthread keys may still call malloc and free.
Detach(t) ==
  /\ At(t, "detach")
  /\ t_heap' = [t_heap EXCEPT ![t] = NULL]
  /\ life' = [life EXCEPT ![t] = IF LateCalls THEN "unguarded" ELSE "gone"]
  /\ Return(t)
  /\ UNCHANGED <<mem, mtx, heapState, live>>

\* The last thread-local destructor is done.
Vanish(t) ==
  /\ At(t, "idle") /\ life[t] = "unguarded"
  /\ life' = [life EXCEPT ![t] = "gone"]
  /\ UNCHANGED <<mem, mtx, heapState, live, t_heap, pc, loc>>

\* A new thread starts, with thread-local variables of its own.
Start(t) ==
  /\ life[t] = "gone"
  /\ life' = [life EXCEPT ![t] = "running"]
  /\ t_heap' = [t_heap EXCEPT ![t] = NULL]
  /\ UNCHANGED <<mem, mtx, heapState, live, pc, loc>>

-----------------------------------------------------------------------------

Call(t) ==
  \/ \E c \in Class : Malloc(t, c) \/ MallocFirst(t, c)
  \/ MallocFault(t)
  \/ \E p \in Page : FreeLocal(t, p) \/ FreeRemote(t, p)
  \/ Exit(t) \/ Vanish(t) \/ Start(t)

\* The steps of a call that has begun, as far as they need no lock ...
Unlocked(t) ==
  \/ Walk(t) \/ Push(t) \/ SweepPage(t) \/ SweepDone(t)
  \/ ExitCollect(t) \/ Unregister(t) \/ UnmapHeap(t) \/ Detach(t)

\* ... and those that take the central lock.
Locking(t) == Acquire(t) \/ Release(t) \/ HandBack(t)

Next == \E t \in Thread : Call(t) \/ Unlocked(t) \/ Locking(t)

Spec == Init /\ [][Next]_vars

\* A thread inside a call keeps running, and gets a lock that stays free.
FairSpec == Spec /\ \A t \in Thread : WF_vars(Unlocked(t) \/ Locking(t))

-----------------------------------------------------------------------------

TypeOK ==
  /\ mem.mapped \subseteq Segment
  /\ \A p \in Page : mem.page[p].in_use =>
       /\ mem.page[p].owner \in HeapAddr \cup {ABANDONED}
       /\ mem.page[p].size_class \in Class
       /\ \A n \in {mem.page[p].free, mem.page[p].used, mem.page[p].thread_free, live[p]} :
            n \in 0 .. mem.page[p].reserved
       /\ mem.page[p].reserved \in 0 .. Capacity[mem.page[p].size_class]
  /\ mtx \in Thread \cup {NULL}
  /\ heap \in [HeapAddr -> [Class -> Page \cup {EMPTY}]]
  /\ heaps \subseteq HeapAddr /\ registry \subseteq HeapAddr
  /\ t_heap \in [Thread -> HeapAddr \cup {NULL}]
  /\ life \in [Thread -> {"running", "unguarded", "gone"}]
  /\ pc \in [Thread -> {"idle", "walk", "acquire", "sweep", "release", "push", "collect",
                        "handback", "unregister", "unmap", "detach", "fault"}]
  /\ loc \in [Thread -> [c : 0 .. NumClasses + 1, p : Page \cup {NULL}, pp : Page \cup {NULL}]]

Pushers(p) == {t \in Thread : At(t, "push") /\ loc[t].p = p}

Destroys(t) == pc[t] \in {"collect", "handback", "unregister", "unmap", "detach"}

\* Threads that use their heap.
Users == {t \in Thread : t_heap[t] # NULL /\ ~Destroys(t)}

ClassList(h, c) ==
  IF heap[h][c] = EMPTY THEN {} ELSE PageChain(mem, heap[h][c]) \ {NULL}

\* Memory somebody may still touch stays: while a block of a page is live or a
\* remote free of it is under way, the page is neither pooled nor unmapped, and
\* it belongs to a mapped heap or is abandoned.  What decides it is Page::used,
\* kept by owners and sweeps in turn, which counts exactly the blocks live,
\* inside a remote free, or not yet collected; the other carved blocks are on
\* the local list.
NoPrematureRecycle ==
  /\ \A p \in Page : live[p] > 0 \/ Pushers(p) # {} =>
       /\ segment_of(p) \in mem.mapped
       /\ mem.page[p].in_use
       /\ mem.page[p].owner \in heaps \cup {ABANDONED}
  /\ \A p \in Page : mem.page[p].in_use =>
       /\ mem.page[p].used = live[p] + Cardinality(Pushers(p)) + mem.page[p].thread_free
       /\ mem.page[p].free + mem.page[p].used = mem.page[p].reserved

\* The class lists of a heap in use hold exactly the pages it owns (but for one
\* that is being released), each in the list of its class, doubly linked.  Only
\* a head can be without outstanding blocks: whatever is rotated or pushed in
\* front of a page, the page left behind has used > 0, so the owner's free that
\* empties it finds it and releases it.
ClassListsSound ==
  \A t \in Users :
    LET h == t_heap[t]
        listed == UNION {ClassList(h, c) : c \in Class}
        leaving == IF At(t, "release") THEN {loc[t].p} ELSE {}
    IN /\ {p \in Page : mem.page[p].owner = h} = listed \cup leaving
       /\ listed \cap leaving = {}
       /\ \A c \in Class : heap[h][c] # EMPTY =>
            /\ Ends(PageChain(mem, heap[h][c]))
            /\ mem.page[heap[h][c]].prev = NULL
       /\ \A c \in Class : \A p \in ClassList(h, c) :
            /\ mem.page[p].size_class = c
            /\ mem.page[p].next # NULL => mem.page[mem.page[p].next].prev = p
            /\ p # heap[h][c] => mem.page[p].used > 0

\* Heaps are mapped while anyone can reach them: through the registry, which
\* hm_stats walks, or as the heap of a thread.  No two threads share one, even
\* when the address of a destroyed heap is mapped again at once.
HeapsDistinct ==
  /\ registry \subseteq heaps
  /\ \A t \in Users : t_heap[t] \in registry
  /\ \A t, u \in Thread : t # u /\ t_heap[t] = t_heap[u] /\ t_heap[t] # NULL =>
       At(t, "detach") \/ At(u, "detach")

\* The central heap's lists and counters are sound under the real callers.
CentralSound ==
  /\ PagesPlaced(mem) /\ CountsAgree(mem) /\ SegmentsListed(mem)
  /\ FootprintBounded(mem) /\ RegionsAgree(mem)

\* The cursor of a sweep is always a link of an abandoned page that is still
\* mapped: returning the pages behind it, which may unmap their segments, never
\* takes away the page it points into.
CursorValid ==
  \A t \in Thread : At(t, "sweep") /\ loc[t].pp # NULL =>
    /\ mtx = t
    /\ loc[t].pp \in Abandoned(mem)
    /\ segment_of(loc[t].pp) \in mem.mapped

\* Every call returns, unless other threads take the central lock over and
\* over: nobody waits for a lock that is not used.
CallsReturn ==
  \A t \in Thread : []<>At(t, "idle") \/ []<>(mtx \notin {NULL, t})

\* What DESIGN.md says of thread exit, "its pages are handed back to the
\* central heap": a page that is out of the pool is abandoned or belongs to
\* the heap of a thread that is still there.
ExitHandsPagesBack ==
  \A p \in Page : mem.page[p].in_use /\ mem.page[p].owner # ABANDONED =>
    \E t \in Thread : life[t] # "gone" /\ t_heap[t] = mem.page[p].owner

\* What heap_create's comment says of a failed mapping, "OOM: caller's malloc
\* returns null": the caller does not read through the null heap.
FailedHeapReturnsNull == \A t \in Thread : ~At(t, "fault")

=============================================================================
