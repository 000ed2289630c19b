------------------------------ MODULE PageSpec ------------------------------
(***************************************************************************)
(* What one page promises, without pointers.  Every block of the page is   *)
(* in exactly one place, and "used" counts the blocks that are out of the  *)
(* owner's hands: held by the application, on their way back from another  *)
(* thread, or waiting on the cross-thread list.  The page goes back to the *)
(* central pool on the strength of used = 0 alone, so the count has to be  *)
(* exact.  Page.tla, the pointer-level model, implements this module.      *)
(***************************************************************************)
EXTENDS Naturals, FiniteSets

CONSTANT Capacity          \* Page::capacity, the blocks one page holds

ASSUME CapacityAssumption == Capacity \in Nat \ {0}

VARIABLES
  place,                   \* where each block is
  used,                    \* Page::used
  held                     \* TRUE while the page is out of the central pool

vars == <<place, used, held>>

Block == 1 .. Capacity

Places == {"bump",         \* in the bump area, never carved
           "local",        \* on the owner's list, Page::free
           "live",         \* in the application's hands
           "pushing",      \* inside heap_free_remote
           "remote"}       \* on Page::thread_free

At(p) == {b \in Block : place[b] = p}

Outstanding == {b \in Block : place[b] \in {"live", "pushing", "remote"}}

Init ==
  /\ place = [b \in Block |-> "bump"]
  /\ used = 0
  /\ held = FALSE

\* central_acquire_page hands out the whole page to be carved afresh.
Acquire ==
  /\ ~held
  /\ held' = TRUE
  /\ place' = [b \in Block |-> "bump"]
  /\ used' = 0

Extend(S) ==
  /\ held /\ S \subseteq At("bump")
  /\ place' = [b \in Block |-> IF b \in S THEN "local" ELSE place[b]]
  /\ UNCHANGED <<used, held>>

Alloc(b) ==
  /\ held /\ place[b] = "local"
  /\ place' = [place EXCEPT ![b] = "live"]
  /\ used' = used + 1
  /\ UNCHANGED held

FreeLocal(b) ==
  /\ place[b] = "live"
  /\ place' = [place EXCEPT ![b] = "local"]
  /\ used' = used - 1
  /\ UNCHANGED held

FreeRemote(b) ==
  /\ place[b] = "live"
  /\ place' = [place EXCEPT ![b] = "pushing"]
  /\ UNCHANGED <<used, held>>

Push(b) ==
  /\ place[b] = "pushing"
  /\ place' = [place EXCEPT ![b] = "remote"]
  /\ UNCHANGED <<used, held>>

\* Faulty: the collected blocks stay counted.
Collect_Uncounted ==
  /\ held
  /\ place' = [b \in Block |-> IF place[b] = "remote" THEN "local" ELSE place[b]]
  /\ UNCHANGED <<used, held>>

Collect ==
  /\ held
  /\ place' = [b \in Block |-> IF place[b] = "remote" THEN "local" ELSE place[b]]
  /\ used' = used - Cardinality(At("remote"))
  /\ UNCHANGED held

\* Faulty: the page goes back without a look at the count.
Recycle_Unchecked ==
  /\ held
  /\ held' = FALSE
  /\ place' = [b \in Block |-> IF place[b] = "local" THEN "bump" ELSE place[b]]
  /\ UNCHANGED used

\* pool_return forgets the local list.  It cannot take a block from anyone
\* else: what is outstanding stays outstanding.
Recycle ==
  /\ held /\ used = 0
  /\ held' = FALSE
  /\ place' = [b \in Block |-> IF place[b] = "local" THEN "bump" ELSE place[b]]
  /\ UNCHANGED used

Next ==
  \/ Acquire
  \/ \E S \in SUBSET Block : Extend(S)
  \/ \E b \in Block :
       \/ Alloc(b) \/ FreeLocal(b) \/ FreeRemote(b) \/ Push(b)
  \/ Collect
  \/ Recycle

Spec == Init /\ [][Next]_vars

-----------------------------------------------------------------------------

TypeOK ==
  /\ place \in [Block -> Places]
  /\ used \in Nat
  /\ held \in BOOLEAN

\* The owner's count is exact: it is the number of blocks that are live, in
\* flight from another thread, or parked on the cross-thread list.
UsedExact == used = Cardinality(Outstanding)

\* A page in the pool has no outstanding block, so whoever acquires it next
\* is not handed memory that somebody still uses.
PooledIsIdle == ~held => Outstanding = {}

\* No step takes a live block from the application, handing the page to a new
\* owner included: a block leaves "live" only by being freed.
LiveLeavesByFree ==
  [][\A b \in Block : place[b] = "live" => place'[b] \in {"live", "local", "pushing"}]_vars

=============================================================================
