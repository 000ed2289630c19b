--------------------------- MODULE CentralClients ---------------------------
(***************************************************************************)
(* The central heap under the most general callers: each thread holds some *)
(* pages, has blocks of them live, and acquires, releases and abandons     *)
(* pages in any order the heap's code permits.  Which of its pages a       *)
(* thread prefers is left open (ThreadHeap says), so that more segments    *)
(* and more abandoned pages fit into a check.                              *)
(***************************************************************************)
EXTENDS Central

CONSTANTS
  Thread,
  Capacity                 \* Page::capacity

VARIABLES
  mem,                     \* the state under the central lock, see Central
  mtx,                     \* holder of CentralState::mtx
  pp,                      \* each thread's cursor in sweep_abandoned
  live,                    \* blocks of each page in the application's hands
  due                      \* history: what was reclaimable when the sweep began

vars == <<mem, mtx, pp, live, due>>

Init ==
  /\ mem = CentralInit
  /\ mtx = NULL
  /\ pp = [t \in Thread |-> NULL]
  /\ live = [p \in Page |-> 0]
  /\ due = {}

\* The abandoned pages that a sweep starting now has to return: all their
\* blocks are free, though the cross-thread list is not collected yet.
Reclaimable == {p \in Abandoned(mem) : mem.page[p].thread_free = mem.page[p].used}

\* A thread takes a page and allocates its first block from it.
Take(t, m) ==
  LET p == first_free(m) IN
  /\ mem' = [take_page(m, t, 0) EXCEPT !.page[p].used = 1]
  /\ live' = [live EXCEPT ![p] = 1]
  /\ mtx' = NULL
  /\ pp' = [pp EXCEPT ![t] = NULL]
  /\ due' = {}

\* central_acquire_page: some segment has a free page, or a sweep begins.
AcquirePage(t) ==
  /\ mtx = NULL
  /\ \/ mem.avail # NULL /\ Take(t, mem)
     \/ mem.avail = NULL /\ mtx' = t /\ due' = Reclaimable /\ UNCHANGED <<mem, pp, live>>

SweepPage(t) ==
  /\ mtx = t /\ at_cursor(mem, pp[t]) # NULL
  /\ LET r == sweep_page(mem, pp[t]) IN
       mem' = r.mem /\ pp' = [pp EXCEPT ![t] = r.pp]
  /\ UNCHANGED <<mtx, live, due>>

\* The sweep is over: use what it reclaimed, or map a segment, or give up.
SweepDone(t) ==
  /\ mtx = t /\ at_cursor(mem, pp[t]) = NULL
  /\ \/ mem.avail # NULL /\ Take(t, mem)
     \/ /\ mem.avail = NULL
        /\ \E s \in Segment \ mem.mapped : Take(t, map_segment(mem, s))
     \/ /\ mem.avail = NULL
        /\ mtx' = NULL /\ pp' = [pp EXCEPT ![t] = NULL] /\ due' = {}
        /\ UNCHANGED <<mem, live>>

\* Faulty: one block past the end of the page is carved.
Allocate_OverCapacity(t, p) ==
  /\ mtx # t /\ mem.page[p].owner = t /\ mem.page[p].used <= Capacity
  /\ mem' = [mem EXCEPT !.page[p].used = @ + 1,
                        !.page[p].free = IF @ > 0 THEN @ - 1 ELSE 0]
  /\ live' = [live EXCEPT ![p] = @ + 1]
  /\ UNCHANGED <<mtx, pp, due>>

\* Pop a free block, or carve one from the bump area.
Allocate(t, p) ==
  /\ mtx # t /\ mem.page[p].owner = t /\ mem.page[p].used < Capacity
  /\ mem' = [mem EXCEPT !.page[p].used = @ + 1,
                        !.page[p].free = IF @ > 0 THEN @ - 1 ELSE 0]
  /\ live' = [live EXCEPT ![p] = @ + 1]
  /\ UNCHANGED <<mtx, pp, due>>

FreeLocal(t, p) ==
  /\ mtx # t /\ mem.page[p].owner = t /\ live[p] > 0
  /\ mem' = [mem EXCEPT !.page[p].used = @ - 1, !.page[p].free = @ + 1]
  /\ live' = [live EXCEPT ![p] = @ - 1]
  /\ UNCHANGED <<mtx, pp, due>>

\* A free by a thread that does not own the page, for instance one without a
\* heap.  It needs no lock and may meet a sweep.
FreeRemote(p) ==
  /\ live[p] > 0
  /\ mem' = [mem EXCEPT !.page[p].thread_free = @ + 1]
  /\ live' = [live EXCEPT ![p] = @ - 1]
  /\ UNCHANGED <<mtx, pp, due>>

\* The owner lets go of a page: at once when a local free emptied it, or, on
\* thread exit, after collecting it.
Release(t, p) ==
  /\ mtx = NULL /\ mem.page[p].owner = t
  /\ LET m == page_collect(mem, p) IN
       m.page[p].used = 0 /\ mem' = central_release_page(m, p)
  /\ UNCHANGED <<mtx, pp, live, due>>

Abandon(t, p) ==
  /\ mtx = NULL /\ mem.page[p].owner = t
  /\ LET m == page_collect(mem, p) IN
       m.page[p].used # 0 /\ mem' = central_abandon_page(m, p)
  /\ UNCHANGED <<mtx, pp, live, due>>

Next ==
  \/ \E t \in Thread :
       \/ AcquirePage(t) \/ SweepPage(t) \/ SweepDone(t)
       \/ \E p \in Page : \/ Allocate(t, p) \/ FreeLocal(t, p)
                          \/ Release(t, p) \/ Abandon(t, p)
  \/ \E p \in Page : FreeRemote(p)

Spec == Init /\ [][Next]_vars

\* A sweep goes on until it is done; nothing else is assumed to happen.
FairSpec == Spec /\ \A t \in Thread : WF_vars(SweepPage(t) \/ SweepDone(t))

-----------------------------------------------------------------------------

TypeOK ==
  /\ mem.mapped \subseteq Segment
  /\ mem.page \in [Page -> [next : Page \cup {NULL}, prev : Page \cup {NULL},
                            owner : Thread \cup {NULL, ABANDONED}, in_use : BOOLEAN,
                            size_class : {0}, reserved : {0}, free : 0 .. Capacity,
                            used : 0 .. Capacity, thread_free : 0 .. Capacity]]
  /\ mtx \in Thread \cup {NULL}
  /\ pp \in [Thread -> Page \cup {NULL}]
  /\ live \in [Page -> 0 .. Capacity]

\* Every page is in one list, whatever the order of releases, abandonments
\* and sweeps, and even between two pages of a sweep.  An unmapped segment is in
\* no list, and the avail list has exactly the segments with a free page.
ListsSound == PagesPlaced(mem) /\ SegmentsListed(mem)

\* pages_in_use, free_page_count, abandoned_count, free_segments and
\* free_count are what the lists hold, so pool_return unmaps an idle segment as
\* soon as there are too many; the registry has the mapped ones.
CountsAreExact == CountsAgree(mem) /\ FootprintBounded(mem) /\ RegionsAgree(mem)

\* A segment is unmapped, and a page pooled, only when no block of it is in
\* the application's hands.
LivePagesStay ==
  \A p \in Page : live[p] > 0 => segment_of(p) \in mem.mapped /\ mem.page[p].in_use

\* Memory of exited threads is not left behind: a call maps a segment, or
\* fails, only if no abandoned page had all its blocks freed by the time its
\* sweep began.  What the sweep finds there it does not lose again by unmapping.
GrowsOnlyWhenFull ==
  [][\/ mem'.num_segments > mem.num_segments
     \/ mtx # NULL /\ mtx' = NULL /\ mem' = mem
     => due = {}]_vars

\* A sweep ends, so the central lock is always released, although other
\* threads go on freeing blocks of the pages being swept.
LockReleased == mtx # NULL ~> mtx = NULL

=============================================================================
