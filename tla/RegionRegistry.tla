--------------------------- MODULE RegionRegistry ---------------------------
(***************************************************************************)
(* The registry of mapped regions: an open-addressing hash set with linear *)
(* probing and tombstones, every operation under the registry's lock.  The *)
(* callers register a region after mapping it and unregister it before     *)
(* unmapping it (central.cpp, hmalloc.cpp); the override asks for bases of *)
(* its own and of foreign regions.  How the multiplicative hash spreads    *)
(* the bases is left open: any assignment of hash values is considered.    *)
(***************************************************************************)
EXTENDS Naturals, FiniteSetsExt

CONSTANTS
  Region,                  \* segment-aligned base addresses, ours or foreign
  HashValue,               \* values of the mixed key before masking
  InitialCap,              \* slots of the first table, 1024 in the code
  EMPTY, TOMB

ASSUME RegistryAssumption ==
  /\ HashValue \subseteq Nat
  /\ InitialCap \in Nat \ {0, 1}
  /\ EMPTY \notin Region /\ TOMB \notin Region /\ EMPTY # TOMB

VARIABLES
  hash,                    \* the hash of each base, fixed
  r,                       \* struct Registry
  regions,                 \* regions mapped and passed to region_register
  dropped,                 \* those it did not record
  refused                  \* the last registration wanted room and got none

vars == <<hash, r, regions, dropped, refused>>

Entry == Region \cup {EMPTY, TOMB}

Init ==
  /\ hash \in [Region -> HashValue]
  /\ r = [slots |-> <<>>, cap |-> 0, size |-> 0, tombs |-> 0]
  /\ regions = {} /\ dropped = {} /\ refused = FALSE

-----------------------------------------------------------------------------

\* index_of; masking with cap - 1 is the remainder, cap being a power of two.
index_of(cap, key) == hash[key] % cap

\* The slot, d steps along the probe sequence of key.
ProbeSlot(cap, key, d) == (index_of(cap, key) + d) % cap

\* How far the probe for key goes: to the key itself or to an empty slot.
\* The set is empty when the loop in the code would not end.
ProbeStops(t, key) ==
  {d \in 0 .. t.cap - 1 : t.slots[ProbeSlot(t.cap, key, d)] \in {EMPTY, key}}

ProbeLength(t, key) == Min(ProbeStops(t, key))

Found(t, key) == ProbeSlot(t.cap, key, ProbeLength(t, key))

raw_insert(t, key) == [t EXCEPT !.slots[Found(t, key)] = key]

\* Rehash into a fresh table of n slots, in the order of the old one.
rehash(t, n) ==
  LET fresh == [t EXCEPT !.slots = [i \in 0 .. n - 1 |-> EMPTY], !.cap = n, !.tombs = 0]
      fill[i \in 0 .. t.cap] ==
        IF i = 0 THEN fresh
        ELSE IF t.slots[i - 1] \in Region THEN raw_insert(fill[i - 1], t.slots[i - 1])
        ELSE fill[i - 1]
  IN fill[t.cap]

\* Faulty: the tombstones are written off before the new table exists.
grow_locked_TombsFirst(t, n) ==
  {[t EXCEPT !.tombs = 0]} \cup (IF n = 0 THEN {} ELSE {rehash(t, n)})

\* The tables grow_locked can leave: the operating system may refuse memory,
\* and provides no table of no slots.
grow_locked(t, n) == {t} \cup (IF n = 0 THEN {} ELSE {rehash(t, n)})

\* Faulty: tombstones are not counted as load.
Crowded_LiveOnly(t) == (t.size + 1) * 10 >= t.cap * 7

\* Would one more entry bring the load to 70 percent?
Crowded(t) == (t.size + t.tombs + 1) * 10 >= t.cap * 7

\* The tables after growth for the load.
Roomier(t) ==
  IF Crowded(t)
    THEN grow_locked(t, IF t.size * 2 >= t.cap THEN t.cap * 2 ELSE t.cap)
    ELSE {t}

\* Put key into the first tombstone of its probe sequence, or at its end.
insert(t, key) ==
  LET graves == {d \in 0 .. ProbeLength(t, key) :
                   t.slots[ProbeSlot(t.cap, key, d)] = TOMB}
  IN IF t.slots[Found(t, key)] = key THEN t
     ELSE IF graves = {} THEN [raw_insert(t, key) EXCEPT !.size = @ + 1]
     ELSE [t EXCEPT !.slots[ProbeSlot(t.cap, key, Min(graves))] = key,
                    !.tombs = @ - 1,
                    !.size = @ + 1]

region_register(key) ==
  /\ key \notin regions
  /\ regions' = regions \cup {key}
  /\ \E first \in IF r.cap = 0 THEN grow_locked(r, InitialCap) ELSE {r} :
       \E t \in Roomier(first) :
         /\ refused' = (Crowded(first) /\ t = first)
         /\ \/ t.cap = 0 /\ r' = t /\ dropped' = dropped \cup {key}
            \/ /\ t.cap # 0 /\ ProbeStops(t, key) # {}
               /\ r' = insert(t, key) /\ UNCHANGED dropped
  /\ UNCHANGED hash

\* Faulty: the slot is emptied, which cuts the probe sequences through it.
bury_Emptied(t, key) == [t EXCEPT !.slots[Found(t, key)] = EMPTY, !.size = @ - 1]

\* Replace key by a tombstone.
bury(t, key) ==
  [t EXCEPT !.slots[Found(t, key)] = TOMB, !.size = @ - 1, !.tombs = @ + 1]

region_unregister(key) ==
  /\ key \in regions
  /\ regions' = regions \ {key}
  /\ dropped' = dropped \ {key}
  /\ \/ r.cap = 0 /\ UNCHANGED r
     \/ /\ r.cap # 0 /\ ProbeStops(r, key) # {}
        /\ r' = IF r.slots[Found(r, key)] = key THEN bury(r, key) ELSE r
  /\ UNCHANGED <<hash, refused>>

region_owns(key) == r.cap # 0 /\ r.slots[Found(r, key)] = key

Next == \E key \in Region : region_register(key) \/ region_unregister(key)

Spec == Init /\ [][Next]_vars

-----------------------------------------------------------------------------

\* Every probe ends: however registrations and unregistrations fill the table
\* with entries and tombstones, it has an empty slot, unless the growth wanted
\* last was refused.  region_owns and both updates loop until they meet one,
\* holding the lock.
ProbesEnd == r.cap # 0 /\ ~refused => \E i \in 0 .. r.cap - 1 : r.slots[i] = EMPTY

\* region_owns, where it returns, says yes for the recorded regions and for no
\* other base, through every reuse of a tombstone, rehash and refused growth.
OwnsExactly ==
  \A key \in Region : r.cap = 0 \/ ProbeStops(r, key) # {} =>
    (region_owns(key) <=> key \in regions \ dropped)

\* size and tombs, which decide when the table grows, are what it holds, and
\* no region is in it twice.
TableCountsExact ==
  LET In(S) == IF r.cap = 0 THEN {} ELSE {i \in 0 .. r.cap - 1 : r.slots[i] \in S} IN
  /\ r.tombs = Cardinality(In({TOMB}))
  /\ r.size = Cardinality(In(Region))
  /\ r.size = Cardinality(regions \ dropped)

=============================================================================
