------------------------------ MODULE Central -------------------------------
(***************************************************************************)
(* The central heap: segments, their per-segment pools of free pages, the  *)
(* list of segments that have a free page, and the list of pages abandoned *)
(* by exited threads.  The lists are modelled by their links, because one  *)
(* field, Page::next, threads a page through its heap's class list, its    *)
(* segment's pool and the abandoned list in turn.                          *)
(*                                                                         *)
(* Everything the central lock protects is one record, m: the fields of    *)
(* CentralState, the segment and page headers, the segments mapped from    *)
(* the operating system and those in the region registry.  An operator     *)
(* takes m and returns it as the function of the same name leaves it.      *)
(* CentralClients and ThreadHeap give the operations their callers.        *)
(***************************************************************************)
EXTENDS Naturals, FiniteSets, Links

CONSTANTS
  Segment,                 \* addresses a segment can be mapped at
  Usable,                  \* USABLE_PAGES_PER_SEGMENT
  SEGMENT_CACHE,           \* fully free segments kept mapped
  NULL,
  ABANDONED                \* ABANDONED_OWNER

ASSUME CentralAssumption ==
  /\ Usable \in Nat \ {0}
  /\ SEGMENT_CACHE \in Nat

Page == Segment \X (1 .. Usable)

segment_of(p) == p[1]

PagesOf(s) == {s} \X (1 .. Usable)

\* Headers as a fresh mapping holds them.  free and thread_free are the
\* lengths of the page's two lists (Page.tla has the lists themselves).
FreshPage == [next |-> NULL, prev |-> NULL, owner |-> NULL, in_use |-> FALSE,
              size_class |-> 0, free |-> 0, used |-> 0, reserved |-> 0, thread_free |-> 0]

FreshSegment == [next |-> NULL, free_list |-> NULL, free_count |-> 0,
                 avail_prev |-> NULL, avail_next |-> NULL, in_avail |-> FALSE]

CentralInit ==
  [segments |-> NULL, avail |-> NULL, abandoned |-> NULL,
   num_segments |-> 0, free_segments |-> 0, free_page_count |-> 0,
   pages_in_use |-> 0, abandoned_count |-> 0,
   seg |-> [s \in Segment |-> FreshSegment], page |-> [p \in Page |-> FreshPage],
   mapped |-> {}, regions |-> {}]

-----------------------------------------------------------------------------
(* The two segment lists *)

avail_push(m, s) ==
  [m EXCEPT !.avail = s,
            !.seg = [x \in Segment |->
              CASE x = s       -> [@[x] EXCEPT !.avail_prev = NULL, !.avail_next = m.avail,
                                               !.in_avail = TRUE]
                [] x = m.avail -> [@[x] EXCEPT !.avail_prev = s]
                [] OTHER       -> @[x]]]

avail_remove(m, s) ==
  LET before == m.seg[s].avail_prev
      after  == m.seg[s].avail_next
  IN [m EXCEPT !.avail = IF before = NULL THEN after ELSE @,
               !.seg = [x \in Segment |->
                 CASE x = s      -> [@[x] EXCEPT !.avail_prev = NULL, !.avail_next = NULL,
                                                 !.in_avail = FALSE]
                   [] x = before -> [@[x] EXCEPT !.avail_next = after]
                   [] x = after  -> [@[x] EXCEPT !.avail_prev = before]
                   [] OTHER      -> @[x]]]

all_remove(m, s) ==
  IF m.segments = s
    THEN [m EXCEPT !.segments = m.seg[s].next]
    ELSE [m EXCEPT !.seg = [x \in Segment |->
            IF x \in m.mapped /\ @[x].next = s THEN [@[x] EXCEPT !.next = m.seg[s].next] ELSE @[x]]]

-----------------------------------------------------------------------------
(* Pages and segments *)

\* region_unregister and os_free: nothing in the segment exists any more.
unmap_segment(m, s) ==
  LET r == all_remove(avail_remove(m, s), s)
  IN [r EXCEPT !.num_segments = @ - 1,
               !.free_segments = @ - 1,
               !.free_page_count = @ - Usable,
               !.regions = @ \ {s},
               !.mapped = @ \ {s},
               !.seg[s] = FreshSegment,
               !.page = [p \in Page |-> IF p \in PagesOf(s) THEN FreshPage ELSE @[p]]]

\* What pool_return does before it considers unmapping the segment.
put_back(m, p) ==
  LET s == segment_of(p)
      put == [m EXCEPT !.page[p].in_use = FALSE,
                       !.page[p].owner = NULL,
                       !.page[p].free = 0,
                       !.page[p].prev = NULL,
                       !.page[p].next = m.seg[s].free_list,
                       !.seg[s].free_list = p,
                       !.seg[s].free_count = @ + 1,
                       !.free_page_count = @ + 1]
  IN IF m.seg[s].free_count = 0 THEN avail_push(put, s) ELSE put

\* Faulty: one idle segment more than the cache allows stays mapped.
pool_return_OffByOne(m, p) ==
  LET s == segment_of(p)
      listed == put_back(m, p)
      idle == [listed EXCEPT !.free_segments = @ + 1]
  IN IF listed.seg[s].free_count # Usable THEN listed
     ELSE IF idle.free_segments > SEGMENT_CACHE + 1 THEN unmap_segment(idle, s)
     ELSE idle

pool_return(m, p) ==
  LET s == segment_of(p)
      listed == put_back(m, p)
      idle == [listed EXCEPT !.free_segments = @ + 1]
  IN IF listed.seg[s].free_count # Usable THEN listed
     ELSE IF idle.free_segments > SEGMENT_CACHE THEN unmap_segment(idle, s)
     ELSE idle

\* map_segment once the operating system has provided the memory at s.
map_segment(m, s) ==
  LET pool == [i \in 1 .. Usable |->
                 [FreshPage EXCEPT !.next = IF i = 1 THEN NULL ELSE <<s, i - 1>>]]
      put == [m EXCEPT !.mapped = @ \cup {s},
                       !.seg[s] = [FreshSegment EXCEPT !.free_list = <<s, Usable>>,
                                                       !.free_count = Usable,
                                                       !.next = m.segments],
                       !.page = [p \in Page |-> IF p \in PagesOf(s) THEN pool[p[2]] ELSE @[p]],
                       !.free_page_count = @ + Usable,
                       !.segments = s,
                       !.num_segments = @ + 1,
                       !.free_segments = @ + 1]
  IN [avail_push(put, s) EXCEPT !.regions = @ \cup {s}]

\* The page central_acquire_page hands out when some segment has one.
first_free(m) == m.seg[m.avail].free_list

\* The rest of central_acquire_page: take that page for heap h and class c.
take_page(m, h, c) ==
  LET s == m.avail
      p == first_free(m)
      got == [m EXCEPT !.free_segments = IF m.seg[s].free_count = Usable THEN @ - 1 ELSE @,
                       !.seg[s].free_list = m.page[p].next,
                       !.seg[s].free_count = @ - 1,
                       !.free_page_count = @ - 1,
                       !.pages_in_use = @ + 1,
                       !.page[p] = [FreshPage EXCEPT !.in_use = TRUE, !.owner = h, !.size_class = c]]
  IN IF got.seg[s].free_count = 0 THEN avail_remove(got, s) ELSE got

central_release_page(m, p) ==
  pool_return([m EXCEPT !.pages_in_use = @ - 1], p)

central_abandon_page(m, p) ==
  [m EXCEPT !.page[p].owner = ABANDONED,
            !.page[p].prev = NULL,
            !.page[p].next = m.abandoned,
            !.abandoned = p,
            !.abandoned_count = @ + 1,
            !.pages_in_use = @ - 1]

\* Faulty: the cross-thread list is not emptied.
page_collect_LoadOnly(m, p) ==
  LET n == m.page[p].thread_free
  IN [m EXCEPT !.page[p].free = @ + n, !.page[p].used = @ - n]

\* page_collect and collect_locked: everything on the cross-thread list joins
\* the local one.
page_collect(m, p) ==
  LET n == m.page[p].thread_free
  IN [m EXCEPT !.page[p].thread_free = 0, !.page[p].free = @ + n, !.page[p].used = @ - n]

-----------------------------------------------------------------------------
(* sweep_abandoned, one page at a time: other threads free blocks of       *)
(* abandoned pages while it runs.  The cursor pp is the address of a link: *)
(* NULL for &g.abandoned, a page p for &p->next.                           *)

at_cursor(m, pp) == IF pp = NULL THEN m.abandoned ELSE m.page[pp].next

\* Faulty: the page is unlinked after pool_return has reused its link.
sweep_page_LateUnlink(m, pp) ==
  LET p == at_cursor(m, pp)
      c == page_collect(m, p)
      r == pool_return([c EXCEPT !.abandoned_count = @ - 1], p)
  IN IF c.page[p].used = 0
       THEN [mem |-> IF pp = NULL THEN [r EXCEPT !.abandoned = r.page[p].next]
                                  ELSE [r EXCEPT !.page[pp].next = r.page[p].next],
             pp |-> pp]
       ELSE [mem |-> c, pp |-> p]

\* Faulty: a page with one block outstanding is taken for idle.
sweep_page_OffByOne(m, pp) ==
  LET p == at_cursor(m, pp)
      c == page_collect(m, p)
      unlinked == IF pp = NULL THEN [c EXCEPT !.abandoned = c.page[p].next]
                               ELSE [c EXCEPT !.page[pp].next = c.page[p].next]
  IN IF c.page[p].used <= 1
       THEN [mem |-> pool_return([unlinked EXCEPT !.abandoned_count = @ - 1], p), pp |-> pp]
       ELSE [mem |-> c, pp |-> p]

\* Faulty: the cursor moves into the page just returned.
sweep_page_CursorIntoFreed(m, pp) ==
  LET p == at_cursor(m, pp)
      c == page_collect(m, p)
      unlinked == IF pp = NULL THEN [c EXCEPT !.abandoned = c.page[p].next]
                               ELSE [c EXCEPT !.page[pp].next = c.page[p].next]
  IN IF c.page[p].used = 0
       THEN [mem |-> pool_return([unlinked EXCEPT !.abandoned_count = @ - 1], p), pp |-> p]
       ELSE [mem |-> c, pp |-> p]

\* Faulty: the cross-thread list is not collected before used is tested.
sweep_page_Uncollected(m, pp) ==
  LET p == at_cursor(m, pp)
      unlinked == IF pp = NULL THEN [m EXCEPT !.abandoned = m.page[p].next]
                               ELSE [m EXCEPT !.page[pp].next = m.page[p].next]
  IN IF m.page[p].used = 0
       THEN [mem |-> pool_return([unlinked EXCEPT !.abandoned_count = @ - 1], p), pp |-> pp]
       ELSE [mem |-> m, pp |-> p]

\* Faulty: the cursor does not move past a page in use.
sweep_page_Stays(m, pp) ==
  LET p == at_cursor(m, pp)
      c == page_collect(m, p)
      unlinked == IF pp = NULL THEN [c EXCEPT !.abandoned = c.page[p].next]
                               ELSE [c EXCEPT !.page[pp].next = c.page[p].next]
  IN IF c.page[p].used = 0
       THEN [mem |-> pool_return([unlinked EXCEPT !.abandoned_count = @ - 1], p), pp |-> pp]
       ELSE [mem |-> c, pp |-> pp]

\* One round of the loop.
sweep_page(m, pp) ==
  LET p == at_cursor(m, pp)
      c == page_collect(m, p)
      unlinked == IF pp = NULL THEN [c EXCEPT !.abandoned = c.page[p].next]
                               ELSE [c EXCEPT !.page[pp].next = c.page[p].next]
  IN IF c.page[p].used = 0
       THEN [mem |-> pool_return([unlinked EXCEPT !.abandoned_count = @ - 1], p), pp |-> pp]
       ELSE [mem |-> c, pp |-> p]

-----------------------------------------------------------------------------
(* Reading the lists off the links *)

PageChain(m, x) == Follow(x, [p \in Page |-> m.page[p].next], Cardinality(Page))

Ends(chain) == NULL \in chain

Pool(m, s) == PageChain(m, m.seg[s].free_list) \ {NULL}

Abandoned(m) == PageChain(m, m.abandoned) \ {NULL}

AvailChain(m) == Follow(m.avail, [s \in Segment |-> m.seg[s].avail_next], Cardinality(Segment))

SegmentChain(m) == Follow(m.segments, [s \in Segment |-> m.seg[s].next], Cardinality(Segment))

InHeaps(m) == {p \in Page : m.page[p].in_use /\ m.page[p].owner # ABANDONED}

Full(m) == {s \in m.mapped : m.seg[s].free_count = Usable}

-----------------------------------------------------------------------------
(* What the central heap keeps true whenever its lock is free or a sweep is *)
(* between two pages.                                                       *)

\* The shared link fields stay consistent through every release, acquisition,
\* abandonment, sweep and unmapping: each pool, the abandoned list and both
\* segment lists end, and every page of a mapped segment is in exactly one of
\* its own segment's pool, the abandoned list and a heap.
PagesPlaced(m) ==
  LET mappedPages == {p \in Page : segment_of(p) \in m.mapped} IN
  /\ \A s \in m.mapped : Ends(PageChain(m, m.seg[s].free_list)) /\ Pool(m, s) \subseteq PagesOf(s)
  /\ Ends(PageChain(m, m.abandoned))
  /\ InHeaps(m) \cup Abandoned(m) \cup UNION {Pool(m, s) : s \in m.mapped} = mappedPages
  /\ InHeaps(m) \cap Abandoned(m) = {}
  /\ \A s \in m.mapped : Pool(m, s) \cap (InHeaps(m) \cup Abandoned(m)) = {}

\* The counters behind central_stats and the unmapping decision agree with
\* the lists: no page is counted twice or forgotten.
CountsAgree(m) ==
  /\ m.num_segments = Cardinality(m.mapped)
  /\ \A s \in m.mapped : m.seg[s].free_count = Cardinality(Pool(m, s))
  /\ m.free_segments = Cardinality(Full(m))
  /\ m.pages_in_use = Cardinality(InHeaps(m))
  /\ m.abandoned_count = Cardinality(Abandoned(m))
  /\ m.free_page_count + m.pages_in_use + m.abandoned_count = Usable * m.num_segments

\* The segment lists hold mapped segments only, the avail list exactly those
\* with a free page, doubly linked.
SegmentsListed(m) ==
  /\ SegmentChain(m) = m.mapped \cup {NULL}
  /\ AvailChain(m) = {s \in m.mapped : m.seg[s].free_count > 0} \cup {NULL}
  /\ \A s \in m.mapped : m.seg[s].in_avail <=> m.seg[s].free_count > 0
  /\ \A s \in AvailChain(m) \ {NULL} :
       LET after == m.seg[s].avail_next IN after # NULL => m.seg[after].avail_prev = s

\* Idle segments do not pile up: at most SEGMENT_CACHE of them stay mapped.
FootprintBounded(m) == Cardinality(Full(m)) <= SEGMENT_CACHE

\* The region registry knows exactly the mapped segments, so a pointer's
\* ownership test never meets a segment that is gone or misses one in use.
RegionsAgree(m) == m.regions = m.mapped

=============================================================================
