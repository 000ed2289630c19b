--------------------------- MODULE RegistryProofs ---------------------------
(***************************************************************************)
(* The registry keeps its promises for any regions, any hash and any size  *)
(* of the first table.  The lemmas go from the arithmetic of the probe     *)
(* over writes to one slot and the loop of grow_locked to the two actions; *)
(* induction over the slots comes from LinkProofs.                         *)
(***************************************************************************)
EXTENDS RegionRegistry, LinkProofs

HashOK == hash \in [Region -> HashValue]

\* The slots of a table f of c slots that hold an entry of E.
In(f, c, E) == {i \in 0 .. c - 1 : f[i] \in E}

\* No slot before the d-th of the probe for key is empty.
Passes(f, c, key, d) == \A e \in 0 .. d - 1 : f[ProbeSlot(c, key, e)] # EMPTY

\* The d-th slot of the probe for key holds it, and the probe gets there.
Reaches(f, c, key, d) == f[ProbeSlot(c, key, d)] = key /\ Passes(f, c, key, d)

\* The table g is f with e written to slot i.
Writes(f, g, c, i, e) ==
  /\ g \in [0 .. c - 1 -> Entry] /\ i \in 0 .. c - 1 /\ g[i] = e
  /\ \A j \in 0 .. c - 1 : j # i => g[j] = f[j]

\* The table holds the regions of S, each in one slot that its probe reaches.
Holds(f, c, S) ==
  /\ f \in [0 .. c - 1 -> Entry]
  /\ S \subseteq Region
  /\ \A i \in 0 .. c - 1 : f[i] \in Region => f[i] \in S
  /\ \A i, j \in 0 .. c - 1 : f[i] \in Region /\ f[i] = f[j] => i = j
  /\ \A key \in S : \E d \in 0 .. c - 1 : Reaches(f, c, key, d)
  /\ Cardinality(In(f, c, Region)) = Cardinality(S)

-----------------------------------------------------------------------------
(* The probe sequence *)

\* A probe starts in the table ...
LEMMA IndexInTable ==
  ASSUME HashOK, NEW c \in Nat \ {0}, NEW key \in Region
  PROVE  index_of(c, key) \in 0 .. c - 1
<1>1. hash[key] \in Nat
  BY RegistryAssumption DEF HashOK
<1> QED
  BY <1>1 DEF index_of

\* ... and goes round it once.
LEMMA ProbeWraps ==
  ASSUME HashOK, NEW c \in Nat \ {0}, NEW key \in Region, NEW d \in 0 .. c - 1
  PROVE  ProbeSlot(c, key, d) = IF index_of(c, key) + d < c THEN index_of(c, key) + d
                                ELSE index_of(c, key) + d - c
<1> DEFINE x == index_of(c, key)
<1>1. x \in 0 .. c - 1
  BY IndexInTable
<1> HIDE DEF x
<1>2. CASE x + d < c
  <2>1. (x + d) % c = x + d
    BY <1>1, <1>2
  <2> QED
    BY <1>2, <2>1 DEF ProbeSlot, x
<1>3. CASE ~(x + d < c)
  <2>1. x + d - c \in 0 .. c - 1
    BY <1>1, <1>3
  <2>2. (x + d) % c = x + d - c
    BY <1>1, <2>1
  <2> QED
    BY <1>3, <2>2 DEF ProbeSlot, x
<1> QED
  BY <1>2, <1>3

\* It stays in the table, and meets every slot.
LEMMA ProbeCovers ==
  ASSUME HashOK, NEW c \in Nat \ {0}, NEW key \in Region
  PROVE  /\ \A d \in 0 .. c - 1 : ProbeSlot(c, key, d) \in 0 .. c - 1
         /\ \A i \in 0 .. c - 1 : \E d \in 0 .. c - 1 : ProbeSlot(c, key, d) = i
<1> DEFINE x == index_of(c, key)
<1>1. x \in 0 .. c - 1
  BY IndexInTable
<1>2. \A d \in 0 .. c - 1 : ProbeSlot(c, key, d) = IF x + d < c THEN x + d ELSE x + d - c
  BY ProbeWraps
<1> HIDE DEF x
<1>3. ASSUME NEW i \in 0 .. c - 1 PROVE \E d \in 0 .. c - 1 : ProbeSlot(c, key, d) = i
  <2>1. CASE i >= x
    <3>1. i - x \in 0 .. c - 1 /\ x + (i - x) = i
      BY <1>1, <2>1
    <3> QED
      BY <1>2, <3>1
  <2>2. CASE i < x
    <3>1. c + i - x \in 0 .. c - 1 /\ ~(x + (c + i - x) < c) /\ x + (c + i - x) - c = i
      BY <1>1, <2>2
    <3> QED
      BY <1>2, <3>1
  <2> QED
    BY <1>1, <2>1, <2>2
<1> QED
  BY <1>1, <1>2, <1>3

\* The loops stop at the first slot that is empty or holds the key.
LEMMA ProbeStopsFirst ==
  ASSUME HashOK, NEW t, t.cap \in Nat \ {0}, NEW key \in Region, ProbeStops(t, key) # {}
  PROVE  /\ ProbeLength(t, key) \in 0 .. t.cap - 1
         /\ Found(t, key) \in 0 .. t.cap - 1
         /\ t.slots[Found(t, key)] \in {EMPTY, key}
         /\ \A e \in 0 .. ProbeLength(t, key) - 1 : t.slots[ProbeSlot(t.cap, key, e)] \notin {EMPTY, key}
<1> DEFINE S == ProbeStops(t, key)
           m == ProbeLength(t, key)
<1>1. S \subseteq 0 .. t.cap - 1
  BY DEF ProbeStops
<1>2. \E x \in S : \A y \in S : x <= y
  <2>1. S \in SUBSET Nat
    BY <1>1
  <2> QED
    BY <2>1, LeastElement
<1>3. m \in S /\ \A y \in S : m <= y
  BY <1>2 DEF ProbeLength, Min
<1> HIDE DEF m
<1>4. m \in 0 .. t.cap - 1 /\ t.slots[ProbeSlot(t.cap, key, m)] \in {EMPTY, key}
  BY <1>3 DEF ProbeStops
<1>5. \A e \in 0 .. m - 1 : t.slots[ProbeSlot(t.cap, key, e)] \notin {EMPTY, key}
  BY <1>3, <1>4 DEF ProbeStops
<1>6. ProbeSlot(t.cap, key, m) \in 0 .. t.cap - 1
  BY <1>4, ProbeCovers
<1> QED
  BY <1>4, <1>5, <1>6 DEF m, Found

\* They stop if there is an empty slot anywhere.
LEMMA ProbeStopsAtEmpty ==
  ASSUME HashOK, NEW t, t.cap \in Nat \ {0}, NEW key \in Region,
         NEW i \in 0 .. t.cap - 1, t.slots[i] = EMPTY
  PROVE  ProbeStops(t, key) # {}
<1>1. PICK d \in 0 .. t.cap - 1 : ProbeSlot(t.cap, key, d) = i
  BY ProbeCovers
<1> QED
  BY <1>1 DEF ProbeStops

\* A probe for a region the table holds finds it; a probe for another base,
\* where it stops, stops at an empty slot.
LEMMA ProbeTells ==
  ASSUME HashOK, NEW t, t.cap \in Nat \ {0}, NEW S, Holds(t.slots, t.cap, S), NEW key \in Region
  PROVE  /\ key \in S => ProbeStops(t, key) # {} /\ t.slots[Found(t, key)] = key
         /\ key \notin S /\ ProbeStops(t, key) # {} => t.slots[Found(t, key)] = EMPTY
<1>1. ASSUME key \in S PROVE ProbeStops(t, key) # {} /\ t.slots[Found(t, key)] = key
  <2>1. PICK d \in 0 .. t.cap - 1 : Reaches(t.slots, t.cap, key, d)
    BY <1>1 DEF Holds
  <2>2. d \in ProbeStops(t, key)
    BY <2>1 DEF Reaches, ProbeStops
  <2> DEFINE m == ProbeLength(t, key)
  <2>3. m \in 0 .. t.cap - 1 /\ t.slots[Found(t, key)] \in {EMPTY, key}
        /\ \A e \in 0 .. m - 1 : t.slots[ProbeSlot(t.cap, key, e)] \notin {EMPTY, key}
    BY <2>2, ProbeStopsFirst
  <2>4. Found(t, key) = ProbeSlot(t.cap, key, m)
    BY DEF Found
  <2> HIDE DEF m
  <2>5. m <= d
    BY <2>1, <2>3 DEF Reaches
  <2>6. CASE m = d
    BY <2>1, <2>2, <2>4, <2>6 DEF Reaches
  <2>7. CASE m < d
    <3>1. m \in 0 .. d - 1
      BY <2>3, <2>7
    <3> QED
      BY <2>1, <2>2, <2>3, <2>4, <3>1 DEF Reaches, Passes
  <2> QED
    BY <2>3, <2>5, <2>6, <2>7
<1>2. ASSUME key \notin S, ProbeStops(t, key) # {} PROVE t.slots[Found(t, key)] = EMPTY
  <2>1. Found(t, key) \in 0 .. t.cap - 1 /\ t.slots[Found(t, key)] \in {EMPTY, key}
    BY <1>2, ProbeStopsFirst
  <2> QED
    BY <1>2, <2>1 DEF Holds
<1> QED
  BY <1>1, <1>2

-----------------------------------------------------------------------------
(* Counting slots *)

\* The slots of a table are finitely many.
LEMMA SlotsFinite ==
  ASSUME NEW c \in Nat, NEW f, NEW E
  PROVE  IsFiniteSet(In(f, c, E)) /\ Cardinality(In(f, c, E)) \in 0 .. c
<1>1. IsFiniteSet(0 .. c - 1) /\ Cardinality(0 .. c - 1) = c
  BY FS_Interval
<1>2. In(f, c, E) \in SUBSET (0 .. c - 1)
  BY DEF In
<1>3. IsFiniteSet(In(f, c, E)) /\ Cardinality(In(f, c, E)) <= c
  BY <1>1, <1>2, FS_Subset
<1> QED
  BY <1>3, FS_CardinalityType

\* A table whose entries and tombstones are fewer than its slots has room.
LEMMA RoomLeft ==
  ASSUME NEW c \in Nat \ {0}, NEW f \in [0 .. c - 1 -> Entry],
         Cardinality(In(f, c, Region)) + Cardinality(In(f, c, {TOMB})) < c
  PROVE  \E i \in 0 .. c - 1 : f[i] = EMPTY
<1> SUFFICES ASSUME \A i \in 0 .. c - 1 : f[i] # EMPTY PROVE FALSE
  OBVIOUS
<1> DEFINE A == In(f, c, Region)
           B == In(f, c, {TOMB})
<1>1. A \cup B = 0 .. c - 1
  BY DEF In, Entry
<1>2. A \cap B = {}
  BY RegistryAssumption DEF In
<1>3. IsFiniteSet(A) /\ IsFiniteSet(B) /\ Cardinality(A) \in Nat /\ Cardinality(B) \in Nat
  <2>1. IsFiniteSet(A) /\ IsFiniteSet(B)
    BY SlotsFinite
  <2> QED
    BY <2>1, FS_CardinalityType
<1> Cardinality(A) + Cardinality(B) < c
  OBVIOUS
<1> HIDE DEF A, B
<1>4. Cardinality(A \cup B) = Cardinality(A) + Cardinality(B) - Cardinality(A \cap B)
  BY <1>3, FS_Union
<1>5. Cardinality(A \cap B) = 0
  BY <1>2, FS_EmptySet
<1>6. Cardinality(0 .. c - 1) = c
  BY FS_Interval
<1>7. Cardinality(A \cup B) = c
  BY <1>1, <1>6
<1> QED
  BY <1>3, <1>4, <1>5, <1>7

-----------------------------------------------------------------------------
(* Changing one slot *)

\* A region put where its probe finds an empty slot or a tombstone, with
\* nothing empty before it, is held with all that was held.
LEMMA PutHolds ==
  ASSUME HashOK, NEW c \in Nat \ {0}, NEW f, NEW S, Holds(f, c, S), IsFiniteSet(S),
         NEW key \in Region \ S, NEW d \in 0 .. c - 1,
         NEW i, i = ProbeSlot(c, key, d), f[i] \in {EMPTY, TOMB}, Passes(f, c, key, d),
         NEW g, Writes(f, g, c, i, key)
  PROVE  Holds(g, c, S \cup {key})
<1>1. i \in 0 .. c - 1
  BY DEF Writes
<1>2. f \in [0 .. c - 1 -> Entry] /\ S \subseteq Region
  BY DEF Holds
<1>3. /\ g \in [0 .. c - 1 -> Entry] /\ g[i] = key
      /\ \A j \in 0 .. c - 1 : j # i => g[j] = f[j]
  BY DEF Writes
<1>4. f[i] \notin Region /\ f[i] # key /\ key # EMPTY /\ key # TOMB
  BY RegistryAssumption
<1>5. \A j \in 0 .. c - 1 : g[j] \in Region => g[j] \in S \cup {key}
  BY <1>3 DEF Holds
<1>6. \A j, k \in 0 .. c - 1 : g[j] \in Region /\ g[j] = g[k] => j = k
  BY <1>3, <1>4 DEF Holds
<1>7. ASSUME NEW k \in S \cup {key}, NEW e \in 0 .. c - 1, Passes(f, c, k, e)
      PROVE  Passes(g, c, k, e)
  <2>1. ASSUME NEW n \in 0 .. e - 1 PROVE g[ProbeSlot(c, k, n)] # EMPTY
    <3>1. n \in 0 .. c - 1 /\ k \in Region
      BY <1>2
    <3>2. ProbeSlot(c, k, n) \in 0 .. c - 1
      BY <3>1, ProbeCovers
    <3>3. f[ProbeSlot(c, k, n)] # EMPTY
      BY <1>7 DEF Passes
    <3> QED
      BY <1>3, <1>4, <3>2, <3>3
  <2> QED
    BY <2>1 DEF Passes
<1>8. ASSUME NEW k \in S \cup {key}
      PROVE  \E e \in 0 .. c - 1 : Reaches(g, c, k, e)
  <2>1. CASE k = key
    <3>1. Reaches(g, c, key, d)
      BY <1>3, <1>7 DEF Reaches
    <3> QED
      BY <2>1, <3>1
  <2>2. CASE k \in S
    <3>1. PICK e \in 0 .. c - 1 : Reaches(f, c, k, e)
      BY <2>2 DEF Holds
    <3>2. ProbeSlot(c, k, e) \in 0 .. c - 1 /\ k \in Region
      BY <1>2, <2>2, ProbeCovers
    <3>3. g[ProbeSlot(c, k, e)] = k
      BY <1>3, <1>4, <3>1, <3>2 DEF Reaches
    <3>4. Reaches(g, c, k, e)
      BY <1>7, <3>1, <3>3 DEF Reaches
    <3> QED
      BY <3>4
  <2> QED
    BY <2>1, <2>2
<1>9. In(g, c, Region) = In(f, c, Region) \cup {i} /\ i \notin In(f, c, Region)
  BY <1>1, <1>3, <1>4 DEF In
<1>10. Cardinality(In(g, c, Region)) = Cardinality(S \cup {key})
  <2>1. IsFiniteSet(In(f, c, Region))
    BY SlotsFinite
  <2>2. Cardinality(In(g, c, Region)) = Cardinality(In(f, c, Region)) + 1
    BY <1>9, <2>1, FS_AddElement
  <2>3. Cardinality(S \cup {key}) = Cardinality(S) + 1
    BY FS_AddElement
  <2> QED
    BY <2>2, <2>3 DEF Holds
<1> QED
  BY <1>2, <1>3, <1>5, <1>6, <1>8, <1>10 DEF Holds

\* What an assignment to a slot writes.
LEMMA Written ==
  ASSUME NEW c \in Nat \ {0}, NEW f \in [0 .. c - 1 -> Entry], NEW i \in 0 .. c - 1,
         NEW e \in Entry, NEW g, g = [f EXCEPT ![i] = e]
  PROVE  Writes(f, g, c, i, e)
BY DEF Writes

\* A tombstone in a region's place leaves all others within reach.
LEMMA BuryHolds ==
  ASSUME HashOK, NEW c \in Nat \ {0}, NEW f, NEW S, Holds(f, c, S), IsFiniteSet(S),
         NEW key \in S, NEW i \in 0 .. c - 1, f[i] = key, NEW g, Writes(f, g, c, i, TOMB)
  PROVE  Holds(g, c, S \ {key})
<1>1. f \in [0 .. c - 1 -> Entry] /\ S \subseteq Region
  BY DEF Holds
<1>2. /\ g \in [0 .. c - 1 -> Entry] /\ g[i] = TOMB
      /\ \A j \in 0 .. c - 1 : j # i => g[j] = f[j]
  BY DEF Writes
<1>3. key \in Region /\ TOMB \notin Region /\ TOMB # EMPTY /\ key # TOMB
  BY <1>1, RegistryAssumption
<1>4. \A j \in 0 .. c - 1 : g[j] \in Region => g[j] \in S \ {key}
  BY <1>2, <1>3 DEF Holds
<1>5. \A j, k \in 0 .. c - 1 : g[j] \in Region /\ g[j] = g[k] => j = k
  BY <1>2, <1>3 DEF Holds
<1>6. ASSUME NEW k \in S \ {key}
      PROVE  \E e \in 0 .. c - 1 : Reaches(g, c, k, e)
  <2>1. PICK e \in 0 .. c - 1 : Reaches(f, c, k, e)
    BY DEF Holds
  <2>2. \A n \in 0 .. c - 1 : ProbeSlot(c, k, n) \in 0 .. c - 1
    BY <1>1, ProbeCovers
  <2>3. g[ProbeSlot(c, k, e)] = k
    <3>1. f[ProbeSlot(c, k, e)] = k /\ ProbeSlot(c, k, e) \in 0 .. c - 1
      BY <2>1, <2>2 DEF Reaches
    <3>2. ProbeSlot(c, k, e) # i
      BY <3>1
    <3> QED
      BY <1>2, <3>1, <3>2
  <2>4. ASSUME NEW n \in 0 .. e - 1 PROVE g[ProbeSlot(c, k, n)] # EMPTY
    <3>1. ProbeSlot(c, k, n) \in 0 .. c - 1 /\ f[ProbeSlot(c, k, n)] # EMPTY
      BY <2>1, <2>2 DEF Reaches, Passes
    <3> QED
      BY <1>2, <1>3, <3>1
  <2> QED
    BY <2>3, <2>4 DEF Reaches, Passes
<1>7. In(g, c, Region) = In(f, c, Region) \ {i} /\ i \in In(f, c, Region)
  BY <1>2, <1>3 DEF In
<1>8. Cardinality(In(g, c, Region)) = Cardinality(S \ {key})
  <2>1. IsFiniteSet(In(f, c, Region))
    BY SlotsFinite
  <2>2. Cardinality(In(g, c, Region)) = Cardinality(In(f, c, Region)) - 1
    BY <1>7, <2>1, FS_RemoveElement
  <2>3. Cardinality(S \ {key}) = Cardinality(S) - 1
    BY FS_RemoveElement
  <2> QED
    BY <2>2, <2>3 DEF Holds
<1> QED
  BY <1>1, <1>2, <1>4, <1>5, <1>6, <1>8 DEF Holds

Tombs(f, c) == Cardinality(In(f, c, {TOMB}))

\* A region written over a tombstone makes one tombstone less, over an empty
\* slot it leaves them.
LEMMA PutTombs ==
  ASSUME NEW c \in Nat \ {0}, NEW f, NEW g, NEW i, NEW key \in Region, Writes(f, g, c, i, key)
  PROVE  Tombs(g, c) = IF f[i] = TOMB THEN Tombs(f, c) - 1 ELSE Tombs(f, c)
<1>1. key # TOMB
  BY RegistryAssumption
<1>2. In(g, c, {TOMB}) = In(f, c, {TOMB}) \ {i}
  BY <1>1 DEF In, Writes
<1>3. i \in In(f, c, {TOMB}) <=> f[i] = TOMB
  BY DEF In, Writes
<1>4. IsFiniteSet(In(f, c, {TOMB}))
  BY SlotsFinite
<1> DEFINE A == In(f, c, {TOMB})
           B == In(g, c, {TOMB})
<1>5. Cardinality(B) = IF i \in A THEN Cardinality(A) - 1 ELSE Cardinality(A)
  <2> HIDE DEF A, B
  <2>1. IsFiniteSet(A) /\ B = A \ {i}
    BY <1>2, <1>4 DEF A, B
  <2> QED
    BY <2>1, FS_RemoveElement
<1> QED
  BY <1>3, <1>5 DEF Tombs

\* A tombstone written over a region makes one more.
LEMMA BuryTombs ==
  ASSUME NEW c \in Nat \ {0}, NEW f, NEW g, NEW i, f[i] \in Region, Writes(f, g, c, i, TOMB)
  PROVE  Tombs(g, c) = Tombs(f, c) + 1
<1>1. f[i] # TOMB
  BY RegistryAssumption
<1>2. In(g, c, {TOMB}) = In(f, c, {TOMB}) \cup {i} /\ i \notin In(f, c, {TOMB})
  BY <1>1 DEF In, Writes
<1>3. IsFiniteSet(In(f, c, {TOMB}))
  BY SlotsFinite
<1> DEFINE A == In(f, c, {TOMB})
           B == In(g, c, {TOMB})
<1>4. Cardinality(B) = Cardinality(A) + 1
  <2> HIDE DEF A, B
  <2>1. IsFiniteSet(A) /\ B = A \cup {i} /\ i \notin A
    BY <1>2, <1>3 DEF A, B
  <2> QED
    BY <2>1, FS_AddElement
<1> QED
  BY <1>4 DEF Tombs

-----------------------------------------------------------------------------
(* Rehashing *)

\* A table is a record with these fields.
IsTable(t) == t = [slots |-> t.slots, cap |-> t.cap, size |-> t.size, tombs |-> t.tombs]

\* raw_insert, where its probe stops.
LEMMA RawInsertHolds ==
  ASSUME HashOK, NEW t, IsTable(t), t.cap \in Nat \ {0},
         NEW S, Holds(t.slots, t.cap, S), IsFiniteSet(S),
         NEW key \in Region \ S, ProbeStops(t, key) # {}
  PROVE  LET u == raw_insert(t, key)
         IN /\ IsTable(u) /\ u.cap = t.cap /\ u.size = t.size /\ u.tombs = t.tombs
            /\ Holds(u.slots, u.cap, S \cup {key})
            /\ Cardinality(In(u.slots, u.cap, {TOMB})) = Cardinality(In(t.slots, t.cap, {TOMB}))
<1> DEFINE u == raw_insert(t, key)
           d == ProbeLength(t, key)
           i == ProbeSlot(t.cap, key, d)
<1> SUFFICES /\ IsTable(u) /\ u.cap = t.cap /\ u.size = t.size /\ u.tombs = t.tombs
             /\ Holds(u.slots, u.cap, S \cup {key})
             /\ Cardinality(In(u.slots, u.cap, {TOMB})) = Cardinality(In(t.slots, t.cap, {TOMB}))
  OBVIOUS
<1>1. /\ d \in 0 .. t.cap - 1 /\ Found(t, key) \in 0 .. t.cap - 1
      /\ \A e \in 0 .. d - 1 : t.slots[ProbeSlot(t.cap, key, e)] \notin {EMPTY, key}
  BY ProbeStopsFirst
<1>2. Found(t, key) = i
  BY DEF Found
<1>3. t.slots[i] = EMPTY
  BY <1>2, ProbeTells
<1>4. /\ u.cap = t.cap /\ u.size = t.size /\ u.tombs = t.tombs
      /\ u.slots = [t.slots EXCEPT ![i] = key]
      /\ IsTable(u)
  BY <1>2 DEF raw_insert, IsTable
<1> HIDE DEF u, d, i
<1>5. Writes(t.slots, u.slots, t.cap, i, key)
  BY <1>1, <1>2, <1>4 DEF Holds, Writes, Entry
<1>6. Holds(u.slots, t.cap, S \cup {key})
  <2>1. Passes(t.slots, t.cap, key, d)
    BY <1>1 DEF Passes
  <2>2. i = ProbeSlot(t.cap, key, d)
    BY DEF i
  <2> QED
    BY <1>1, <1>3, <1>5, <2>1, <2>2, PutHolds
<1>7. Cardinality(In(u.slots, t.cap, {TOMB})) = Cardinality(In(t.slots, t.cap, {TOMB}))
  <2>1. t.slots[i] # TOMB
    BY <1>3, RegistryAssumption
  <2>2. Tombs(u.slots, t.cap) = Tombs(t.slots, t.cap)
    BY <1>5, <2>1, PutTombs
  <2> QED
    BY <2>2 DEF Tombs
<1> QED
  BY <1>4, <1>6, <1>7

\* The regions in the first i slots of the table t.
Upto(t, i) == {t.slots[j] : j \in 0 .. i - 1} \cap Region

\* What the loop of grow_locked has made of t after i slots.
Copied(u, t, n, i) ==
  /\ IsTable(u) /\ u.cap = n /\ u.size = t.size /\ u.tombs = 0
  /\ Holds(u.slots, n, Upto(t, i))
  /\ Cardinality(In(u.slots, n, {TOMB})) = 0

\* One turn of that loop.
CopyNext(u, t, i) == IF t.slots[i] \in Region THEN raw_insert(u, t.slots[i]) ELSE u

\* Each turn copies one more slot, if all the regions fit.
LEMMA CopyStep ==
  ASSUME HashOK, NEW t, t.cap \in Nat, NEW S, Holds(t.slots, t.cap, S), IsFiniteSet(S),
         NEW n \in Nat \ {0}, Cardinality(S) < n,
         NEW i \in 0 .. t.cap - 1, NEW u, Copied(u, t, n, i)
  PROVE  Copied(CopyNext(u, t, i), t, n, i + 1)
<1> DEFINE key == t.slots[i]
<1>1. Upto(t, i + 1) = IF key \in Region THEN Upto(t, i) \cup {key} ELSE Upto(t, i)
  <2>1. 0 .. (i + 1) - 1 = (0 .. i - 1) \cup {i}
    OBVIOUS
  <2> QED
    BY <2>1 DEF Upto
<1>2. CASE key \notin Region
  BY <1>1, <1>2 DEF CopyNext, Copied
<1>3. CASE key \in Region
  <2>1. key \notin Upto(t, i)
    BY <1>3 DEF Upto, Holds
  <2>2. Upto(t, i) \in SUBSET S
    BY DEF Upto, Holds
  <2>3. IsFiniteSet(Upto(t, i)) /\ Cardinality(Upto(t, i)) <= Cardinality(S)
    BY <2>2, FS_Subset
  <2>4. Cardinality(Upto(t, i)) \in Nat /\ Cardinality(S) \in Nat
    BY <2>3, FS_CardinalityType
  <2>5. \E j \in 0 .. n - 1 : u.slots[j] = EMPTY
    <3>1. Cardinality(In(u.slots, n, Region)) = Cardinality(Upto(t, i)) /\ u.slots \in [0 .. n - 1 -> Entry]
      BY DEF Copied, Holds
    <3>2. Cardinality(In(u.slots, n, {TOMB})) = 0
      BY DEF Copied
    <3>3. Cardinality(In(u.slots, n, Region)) + Cardinality(In(u.slots, n, {TOMB})) < n
      BY <2>3, <2>4, <3>1, <3>2
    <3> QED
      BY <3>1, <3>3, RoomLeft
  <2>6. ProbeStops(u, key) # {}
    BY <1>3, <2>5, ProbeStopsAtEmpty DEF Copied
  <2> DEFINE v == raw_insert(u, key)
  <2>7. /\ IsTable(v) /\ v.cap = u.cap /\ v.size = u.size /\ v.tombs = u.tombs
        /\ Holds(v.slots, v.cap, Upto(t, i) \cup {key})
        /\ Cardinality(In(v.slots, v.cap, {TOMB})) = Cardinality(In(u.slots, u.cap, {TOMB}))
    BY <1>3, <2>1, <2>3, <2>6, RawInsertHolds DEF Copied
  <2>8. CopyNext(u, t, i) = v
    BY <1>3 DEF CopyNext
  <2> HIDE DEF v
  <2> QED
    BY <1>1, <1>3, <2>7, <2>8 DEF Copied
<1> QED
  BY <1>2, <1>3

\* The states of the new table through the loop of grow_locked, slot by slot.
Filling(g, t, fresh, m) ==
  g = [i \in 0 .. m |-> IF i = 0 THEN fresh ELSE CopyNext(g[i - 1], t, i - 1)]

\* The loop can be followed for any number of slots ...
LEMMA FillingExists ==
  ASSUME NEW t, NEW fresh, NEW m \in Nat
  PROVE  \E g : Filling(g, t, fresh, m)
<1> DEFINE N == {k \in Nat : \E g : Filling(g, t, fresh, k)}
<1>1. 0 \in N
  <2> DEFINE g == [i \in 0 .. 0 |-> fresh]
  <2>1. Filling(g, t, fresh, 0)
    BY DEF Filling
  <2> QED
    BY <2>1
<1>2. ASSUME NEW k \in N PROVE k + 1 \in N
  <2>1. k \in Nat /\ k + 1 \in Nat
    OBVIOUS
  <2>2. PICK g : Filling(g, t, fresh, k)
    OBVIOUS
  <2> DEFINE h == [i \in 0 .. k + 1 |-> IF i = k + 1 THEN CopyNext(g[k], t, k) ELSE g[i]]
  <2>3. ASSUME NEW i \in 0 .. k + 1
        PROVE  h[i] = IF i = 0 THEN fresh ELSE CopyNext(h[i - 1], t, i - 1)
    <3>1. CASE i = k + 1
      <4>1. i # 0 /\ i - 1 = k /\ k \in 0 .. k + 1 /\ k # k + 1
        BY <2>1, <3>1
      <4>2. h[i] = CopyNext(g[k], t, k) /\ h[k] = g[k]
        BY <3>1, <4>1
      <4> QED
        BY <4>1, <4>2
    <3>2. CASE i # k + 1
      <4>1. i \in 0 .. k /\ (i # 0 => i - 1 \in 0 .. k + 1 /\ i - 1 # k + 1)
        BY <2>1, <3>2
      <4>2. h[i] = g[i] /\ (i # 0 => h[i - 1] = g[i - 1])
        BY <3>2, <4>1
      <4>3. g[i] = IF i = 0 THEN fresh ELSE CopyNext(g[i - 1], t, i - 1)
        BY <2>2, <4>1 DEF Filling
      <4> QED
        BY <4>2, <4>3
    <3> QED
      BY <3>1, <3>2
  <2>4. Filling(h, t, fresh, k + 1)
    BY <2>3 DEF Filling
  <2> QED
    BY <2>1, <2>4
<1>3. N = Nat
  BY <1>1, <1>2, Induction
<1> QED
  BY <1>3

\* ... and so a rehash into a table with more slots than there are regions
\* keeps the regions and drops the tombstones.
LEMMA RehashHolds ==
  ASSUME HashOK, NEW t, IsTable(t), t.cap \in Nat, NEW S, Holds(t.slots, t.cap, S), IsFiniteSet(S),
         NEW n \in Nat \ {0}, Cardinality(S) < n
  PROVE  LET u == rehash(t, n)
         IN /\ IsTable(u) /\ u.cap = n /\ u.size = t.size /\ u.tombs = 0
            /\ Holds(u.slots, n, S)
            /\ Cardinality(In(u.slots, n, {TOMB})) = 0
<1> DEFINE fresh == [t EXCEPT !.slots = [i \in 0 .. n - 1 |-> EMPTY], !.cap = n, !.tombs = 0]
<1>1. PICK g : Filling(g, t, fresh, t.cap) /\ rehash(t, n) = g[t.cap]
  <2>1. \E g : g = [i \in 0 .. t.cap |->
                      IF i = 0 THEN fresh
                      ELSE IF t.slots[i - 1] \in Region THEN raw_insert(g[i - 1], t.slots[i - 1])
                      ELSE g[i - 1]]
    <3>1. PICK g : Filling(g, t, fresh, t.cap)
      BY FillingExists
    <3> QED
      BY <3>1 DEF Filling, CopyNext
  <2> QED
    BY <2>1 DEF rehash, Filling, CopyNext
<1>2. Copied(fresh, t, n, 0)
  <2>1. IsTable(fresh) /\ fresh.cap = n /\ fresh.size = t.size /\ fresh.tombs = 0
        /\ fresh.slots = [i \in 0 .. n - 1 |-> EMPTY]
    <3>1. ASSUME NEW z, NEW u, u = [t EXCEPT !.slots = z, !.cap = n, !.tombs = 0]
          PROVE  IsTable(u) /\ u.cap = n /\ u.size = t.size /\ u.tombs = 0 /\ u.slots = z
      <4>1. t = [slots |-> t.slots, cap |-> t.cap, size |-> t.size, tombs |-> t.tombs]
        BY DEF IsTable
      <4>2. u = [slots |-> z, cap |-> n, size |-> t.size, tombs |-> 0]
        BY <3>1, <4>1
      <4> QED
        BY <4>2 DEF IsTable
    <3> QED
      BY <3>1
  <2> HIDE DEF fresh
  <2>2. Upto(t, 0) = {}
    BY DEF Upto
  <2>3. In(fresh.slots, n, Region) = {} /\ In(fresh.slots, n, {TOMB}) = {}
    BY <2>1, RegistryAssumption DEF In
  <2>4. fresh.slots \in [0 .. n - 1 -> Entry] /\ \A i \in 0 .. n - 1 : fresh.slots[i] \notin Region
    BY <2>1, RegistryAssumption DEF Entry
  <2>5. Holds(fresh.slots, n, {})
    BY <2>3, <2>4 DEF Holds
  <2> QED
    BY <2>1, <2>2, <2>3, <2>5, FS_EmptySet DEF Copied
<1> HIDE DEF fresh
<1> DEFINE N == {i \in Nat : i <= t.cap => Copied(g[i], t, n, i)}
<1>3. 0 \in N
  <2>1. g[0] = fresh
    BY <1>1 DEF Filling
  <2> QED
    BY <1>2, <2>1
<1>4. ASSUME NEW i \in N PROVE i + 1 \in N
  <2> SUFFICES ASSUME i + 1 <= t.cap PROVE Copied(g[i + 1], t, n, i + 1)
    OBVIOUS
  <2>1. i \in 0 .. t.cap - 1 /\ i + 1 \in 0 .. t.cap /\ i + 1 # 0 /\ (i + 1) - 1 = i
    OBVIOUS
  <2>2. Copied(g[i], t, n, i)
    BY <2>1
  <2>3. g[i + 1] = CopyNext(g[i], t, i)
    BY <1>1, <2>1 DEF Filling
  <2>4. Copied(CopyNext(g[i], t, i), t, n, i + 1)
    BY <2>1, <2>2, CopyStep
  <2> QED
    BY <2>3, <2>4
<1>5. N = Nat
  BY <1>3, <1>4, Induction
<1>6. Copied(g[t.cap], t, n, t.cap)
  BY <1>5
<1>7. Upto(t, t.cap) = S
  <2>1. Upto(t, t.cap) \subseteq S
    BY DEF Upto, Holds
  <2>2. ASSUME NEW key \in S PROVE key \in Upto(t, t.cap)
    <3>1. key \in Region /\ t.cap # 0
      BY DEF Holds
    <3>2. PICK d \in 0 .. t.cap - 1 : Reaches(t.slots, t.cap, key, d)
      BY DEF Holds
    <3>3. ProbeSlot(t.cap, key, d) \in 0 .. t.cap - 1
      BY <3>1, ProbeCovers
    <3> QED
      BY <3>1, <3>2, <3>3 DEF Reaches, Upto
  <2> QED
    BY <2>1, <2>2
<1> QED
  BY <1>1, <1>6, <1>7 DEF Copied

-----------------------------------------------------------------------------
(* The invariant *)

\* The table t holds the regions of S, and its two counts are right.
Sound(t, S) ==
  /\ IsTable(t) /\ t.cap \in Nat /\ Holds(t.slots, t.cap, S)
  /\ t.size = Cardinality(S)
  /\ t.tombs = Cardinality(In(t.slots, t.cap, {TOMB}))

\* The inductive invariant.
RInv ==
  /\ HashOK
  /\ regions \subseteq Region /\ IsFiniteSet(regions) /\ dropped \subseteq regions
  /\ Sound(r, regions \ dropped) /\ r.cap # 1
  /\ r.cap # 0 /\ ~refused => r.size + r.tombs < r.cap

\* The counts of a sound table are numbers, and its regions fit in.
LEMMA SoundCounts ==
  ASSUME NEW t, NEW S, Sound(t, S)
  PROVE  t.cap \in Nat /\ t.size \in Nat /\ t.tombs \in Nat /\ t.size <= t.cap
<1>1. /\ Cardinality(In(t.slots, t.cap, Region)) \in 0 .. t.cap
      /\ Cardinality(In(t.slots, t.cap, {TOMB})) \in 0 .. t.cap
  BY SlotsFinite DEF Sound
<1> QED
  BY <1>1 DEF Sound, Holds

\* A table that is not fully taken has an empty slot.
LEMMA SoundRoom ==
  ASSUME NEW t, NEW S, Sound(t, S), t.size + t.tombs < t.cap
  PROVE  \E i \in 0 .. t.cap - 1 : t.slots[i] = EMPTY
<1>1. t.cap \in Nat \ {0} /\ t.slots \in [0 .. t.cap - 1 -> Entry]
  <2>1. t.cap \in Nat /\ t.size \in Nat /\ t.tombs \in Nat
    BY SoundCounts
  <2>2. t.slots \in [0 .. t.cap - 1 -> Entry]
    BY DEF Sound, Holds
  <2> QED
    BY <2>1, <2>2
<1>2. Cardinality(In(t.slots, t.cap, Region)) + Cardinality(In(t.slots, t.cap, {TOMB})) < t.cap
  BY DEF Sound, Holds
<1> QED
  BY <1>1, <1>2, RoomLeft

\* region_register's insertion, into the first tombstone or the empty slot.
LEMMA InsertSound ==
  ASSUME HashOK, NEW t, NEW S, Sound(t, S), IsFiniteSet(S), t.cap # 0,
         NEW key \in Region \ S, ProbeStops(t, key) # {}, NEW u, u = insert(t, key)
  PROVE  Sound(u, S \cup {key}) /\ u.cap = t.cap /\ u.size + u.tombs <= t.size + t.tombs + 1
<1> DEFINE graves == {d \in 0 .. ProbeLength(t, key) : t.slots[ProbeSlot(t.cap, key, d)] = TOMB}
<1>1. t.cap \in Nat \ {0} /\ t.size \in Nat /\ t.tombs \in Nat
  BY SoundCounts
<1>2. IsTable(t) /\ Holds(t.slots, t.cap, S)
  BY DEF Sound
<1>3. t.slots[Found(t, key)] = EMPTY /\ EMPTY # key
  BY <1>1, <1>2, ProbeTells, RegistryAssumption
<1>4. Cardinality(S \cup {key}) = t.size + 1
  BY FS_AddElement DEF Sound
<1>5. CASE graves = {}
  <2> DEFINE v == raw_insert(t, key)
  <2>1. /\ IsTable(v) /\ v.cap = t.cap /\ v.size = t.size /\ v.tombs = t.tombs
        /\ Holds(v.slots, v.cap, S \cup {key})
        /\ Cardinality(In(v.slots, v.cap, {TOMB})) = Cardinality(In(t.slots, t.cap, {TOMB}))
    BY <1>1, <1>2, RawInsertHolds
  <2>2. u = [v EXCEPT !.size = @ + 1]
    BY <1>3, <1>5 DEF insert
  <2> HIDE DEF v
  <2>3. IsTable(u) /\ u.cap = v.cap /\ u.slots = v.slots /\ u.tombs = v.tombs /\ u.size = v.size + 1
    BY <2>1, <2>2 DEF IsTable
  <2> QED
    BY <1>1, <1>4, <2>1, <2>3 DEF Sound
<1>6. CASE graves # {}
  <2> DEFINE d == Min(graves)
             i == ProbeSlot(t.cap, key, d)
  <2>1. /\ ProbeLength(t, key) \in 0 .. t.cap - 1
        /\ \A e \in 0 .. ProbeLength(t, key) - 1 : t.slots[ProbeSlot(t.cap, key, e)] \notin {EMPTY, key}
    BY <1>1, ProbeStopsFirst
  <2>2. d \in graves
    <3>1. graves \in SUBSET Nat
      BY <2>1
    <3> HIDE DEF graves
    <3>2. \E x \in graves : \A y \in graves : x <= y
      BY <1>6, <3>1, LeastElement
    <3> QED
      BY <3>2 DEF Min
  <2>3. u = [t EXCEPT !.slots[i] = key, !.tombs = @ - 1, !.size = @ + 1]
    BY <1>3, <1>6 DEF insert
  <2> HIDE DEF d
  <2>4. d \in 0 .. t.cap - 1 /\ t.slots[i] = TOMB /\ d <= ProbeLength(t, key)
    <3>1. d \in 0 .. ProbeLength(t, key) /\ t.slots[i] = TOMB
      BY <2>2
    <3> QED
      BY <1>1, <2>1, <3>1
  <2>5. Passes(t.slots, t.cap, key, d)
    BY <2>1, <2>4 DEF Passes
  <2>6. i \in 0 .. t.cap - 1
    BY <1>1, <2>4, ProbeCovers
  <2>7. PICK j : j = i
    OBVIOUS
  <2>8. IsTable(u) /\ u.cap = t.cap /\ u.tombs = t.tombs - 1 /\ u.size = t.size + 1
        /\ u.slots = [t.slots EXCEPT ![j] = key]
    BY <1>2, <2>3, <2>7 DEF IsTable
  <2>9. Writes(t.slots, u.slots, t.cap, j, key)
    <3>1. t.slots \in [0 .. t.cap - 1 -> Entry] /\ key \in Entry
      BY <1>2 DEF Holds, Entry
    <3>2. j \in 0 .. t.cap - 1 /\ u.slots = [t.slots EXCEPT ![j] = key]
      BY <2>6, <2>7, <2>8
    <3> QED
      BY <1>1, <3>1, <3>2, Written
  <2>10. Holds(u.slots, t.cap, S \cup {key})
    <3>1. j = ProbeSlot(t.cap, key, d) /\ t.slots[j] \in {EMPTY, TOMB}
      BY <2>4, <2>7
    <3> QED
      BY <1>1, <1>2, <2>4, <2>5, <2>9, <3>1, PutHolds
  <2>11. Cardinality(In(u.slots, t.cap, {TOMB})) = t.tombs - 1
    <3>1. Tombs(t.slots, t.cap) = t.tombs
      BY DEF Sound, Tombs
    <3>2. t.slots[j] = TOMB
      BY <2>4, <2>7
    <3>3. Tombs(u.slots, t.cap) = Tombs(t.slots, t.cap) - 1
      BY <1>1, <2>9, <3>2, PutTombs
    <3> QED
      BY <3>1, <3>3 DEF Tombs
  <2> QED
    BY <1>1, <1>4, <2>8, <2>10, <2>11 DEF Sound
<1> QED
  BY <1>5, <1>6

\* region_unregister's tombstone.
LEMMA BurySound ==
  ASSUME HashOK, NEW t, NEW S, Sound(t, S), IsFiniteSet(S), t.cap # 0,
         NEW key \in S, NEW u, u = bury(t, key)
  PROVE  Sound(u, S \ {key}) /\ u.cap = t.cap /\ u.size + u.tombs = t.size + t.tombs
<1>1. t.cap \in Nat \ {0} /\ t.size \in Nat /\ t.tombs \in Nat
  BY SoundCounts
<1>2. IsTable(t) /\ Holds(t.slots, t.cap, S) /\ key \in Region
  BY DEF Sound, Holds
<1>3. ProbeStops(t, key) # {} /\ t.slots[Found(t, key)] = key
  BY <1>1, <1>2, ProbeTells
<1>4. PICK i : i = Found(t, key)
  OBVIOUS
<1>5. i \in 0 .. t.cap - 1 /\ t.slots[i] = key
  BY <1>1, <1>2, <1>3, <1>4, ProbeStopsFirst
<1>6. u = [t EXCEPT !.slots[i] = TOMB, !.size = @ - 1, !.tombs = @ + 1]
  BY <1>4 DEF bury
<1>7. IsTable(u) /\ u.cap = t.cap /\ u.tombs = t.tombs + 1 /\ u.size = t.size - 1
      /\ u.slots = [t.slots EXCEPT ![i] = TOMB]
  BY <1>2, <1>6 DEF IsTable
<1>8. Writes(t.slots, u.slots, t.cap, i, TOMB)
  <2>1. t.slots \in [0 .. t.cap - 1 -> Entry] /\ TOMB \in Entry
    BY <1>2 DEF Holds, Entry
  <2>2. u.slots = [t.slots EXCEPT ![i] = TOMB]
    BY <1>7
  <2> QED
    BY <1>1, <1>5, <2>1, <2>2, Written, SMTT(20)
<1>9. Holds(u.slots, t.cap, S \ {key})
  BY <1>1, <1>2, <1>5, <1>8, BuryHolds
<1>10. Cardinality(In(u.slots, t.cap, {TOMB})) = t.tombs + 1
  <2>1. Tombs(t.slots, t.cap) = t.tombs
    BY DEF Sound, Tombs
  <2>2. Tombs(u.slots, t.cap) = Tombs(t.slots, t.cap) + 1
    BY <1>1, <1>2, <1>5, <1>8, BuryTombs
  <2> QED
    BY <2>1, <2>2 DEF Tombs
<1>11. Cardinality(S \ {key}) = t.size - 1
  BY FS_RemoveElement DEF Sound
<1> QED
  BY <1>1, <1>7, <1>9, <1>10, <1>11 DEF Sound

\* grow_locked keeps the regions, whether it gets its memory or not.
LEMMA GrowSound ==
  ASSUME HashOK, NEW t, NEW S, Sound(t, S), IsFiniteSet(S),
         NEW n \in Nat, n = 0 \/ t.size < n, NEW u \in grow_locked(t, n)
  PROVE  Sound(u, S) /\ u.size = t.size /\ (u = t \/ (u.cap = n /\ n # 0 /\ u.tombs = 0))
<1>1. CASE u = t
  BY <1>1
<1>2. CASE u # t
  <2>1. n \in Nat \ {0} /\ u = rehash(t, n)
    BY <1>2 DEF grow_locked
  <2>2. /\ IsTable(t) /\ t.cap \in Nat /\ Holds(t.slots, t.cap, S) /\ Cardinality(S) < n
    BY <2>1 DEF Sound
  <2>3. /\ IsTable(u) /\ u.cap = n /\ u.size = t.size /\ u.tombs = 0
        /\ Holds(u.slots, n, S)
        /\ Cardinality(In(u.slots, n, {TOMB})) = 0
    BY <2>1, <2>2, RehashHolds
  <2> QED
    BY <2>1, <2>3 DEF Sound
<1> QED
  BY <1>1, <1>2

\* Where the load calls for growth and gets it, or does not call for it, one
\* more entry leaves an empty slot.
LEMMA RoomierSound ==
  ASSUME HashOK, NEW t, NEW S, Sound(t, S), IsFiniteSet(S), t.cap # 1, NEW u \in Roomier(t)
  PROVE  /\ Sound(u, S) /\ u.cap # 1
         /\ u.cap # 0 /\ ~(Crowded(t) /\ u = t) => u.size + u.tombs + 1 < u.cap
<1>1. t.cap \in Nat /\ t.size \in Nat /\ t.tombs \in Nat /\ t.size <= t.cap
  BY SoundCounts
<1>2. CASE ~Crowded(t)
  <2>1. u = t
    BY <1>2 DEF Roomier
  <2>2. ~((t.size + t.tombs + 1) * 10 >= t.cap * 7)
    BY <1>2 DEF Crowded
  <2>3. t.size + t.tombs + 1 < t.cap
    BY <1>1, <2>2
  <2> QED
    BY <2>1, <2>3
<1>3. CASE Crowded(t)
  <2> DEFINE n == IF t.size * 2 >= t.cap THEN t.cap * 2 ELSE t.cap
  <2>1. u \in grow_locked(t, n)
    BY <1>3 DEF Roomier
  <2>2. n \in Nat /\ n # 1 /\ (n = 0 \/ t.size + 1 < n)
    BY <1>1
  <2> HIDE DEF n
  <2>3. n = 0 \/ t.size < n
    BY <1>1, <2>2
  <2>4. Sound(u, S) /\ u.size = t.size /\ (u = t \/ (u.cap = n /\ n # 0 /\ u.tombs = 0))
    BY <2>1, <2>2, <2>3, GrowSound
  <2> QED
    BY <1>1, <1>3, <2>2, <2>4
<1> QED
  BY <1>2, <1>3

-----------------------------------------------------------------------------

\* The hash never changes: what holds of the next table under this state's
\* hash holds in the next state.
LEMMA SoundNext ==
  ASSUME hash' = hash, Sound(r', (regions \ dropped)')
  PROVE  Sound(r, regions \ dropped)'
BY DEF Sound, IsTable, Holds, In, Reaches, Passes, ProbeSlot, index_of

\* Nothing is registered and there is no table yet.
LEMMA InitRInv == Init => RInv
<1> SUFFICES ASSUME Init PROVE RInv
  OBVIOUS
<1>1. HashOK /\ regions = {} /\ dropped = {} /\ regions \ dropped = {}
  BY DEF Init, HashOK
<1>2. IsTable(r) /\ r.cap = 0 /\ r.size = 0 /\ r.tombs = 0 /\ r.slots = <<>>
  BY DEF Init, IsTable
<1>3. In(r.slots, 0, Region) = {} /\ In(r.slots, 0, {TOMB}) = {}
  BY DEF In
<1>4. r.slots \in [0 .. 0 - 1 -> Entry]
  <2>1. 0 .. 0 - 1 = {} /\ DOMAIN <<>> = {}
    OBVIOUS
  <2>2. <<>> = [i \in {} |-> EMPTY]
    OBVIOUS
  <2> QED
    BY <1>2, <2>1, <2>2
<1>5. Holds(r.slots, 0, {})
  <2>1. \A i \in 0 .. 0 - 1 : FALSE
    OBVIOUS
  <2> QED
    BY <1>3, <1>4, <2>1 DEF Holds
<1>6. Sound(r, {})
  <2>1. Cardinality({}) = 0
    BY FS_EmptySet
  <2>2. r.size = Cardinality({}) /\ r.tombs = Cardinality(In(r.slots, r.cap, {TOMB}))
    BY <1>2, <1>3, <2>1
  <2>3. r.cap \in Nat /\ Holds(r.slots, r.cap, {})
    BY <1>2, <1>5
  <2> QED
    BY <1>2, <2>2, <2>3 DEF Sound
<1> QED
  BY <1>1, <1>2, <1>6, FS_EmptySet DEF RInv

\* region_register, through both growths and the insertion.
LEMMA RegisterRInv ==
  ASSUME RInv, NEW key \in Region, region_register(key)
  PROVE  RInv'
<1> DEFINE S == regions \ dropped
<1>1. /\ HashOK /\ Sound(r, S) /\ r.cap # 1 /\ IsFiniteSet(S) /\ key \notin S /\ S \subseteq Region
      /\ regions \subseteq Region /\ dropped \subseteq regions /\ IsFiniteSet(regions)
  <2>1. IsFiniteSet(S)
    BY FS_Subset DEF RInv
  <2> QED
    BY <2>1 DEF RInv, region_register
<1>2. PICK first \in IF r.cap = 0 THEN grow_locked(r, InitialCap) ELSE {r} :
        \E t \in Roomier(first) :
          /\ refused' = (Crowded(first) /\ t = first)
          /\ \/ t.cap = 0 /\ r' = t /\ dropped' = dropped \cup {key}
             \/ /\ t.cap # 0 /\ ProbeStops(t, key) # {}
                /\ r' = insert(t, key) /\ UNCHANGED dropped
  BY DEF region_register
<1>3. PICK t \in Roomier(first) :
          /\ refused' = (Crowded(first) /\ t = first)
          /\ \/ t.cap = 0 /\ r' = t /\ dropped' = dropped \cup {key}
             \/ /\ t.cap # 0 /\ ProbeStops(t, key) # {}
                /\ r' = insert(t, key) /\ UNCHANGED dropped
  BY <1>2
<1>4. Sound(first, S) /\ first.cap # 1
  <2>1. CASE r.cap # 0
    BY <1>1, <1>2, <2>1
  <2>2. CASE r.cap = 0
    <3>1. r.size \in Nat /\ r.size <= r.cap
      BY <1>1, SoundCounts
    <3>2. InitialCap \in Nat /\ r.size < InitialCap /\ InitialCap # 1
      BY <2>2, <3>1, RegistryAssumption
    <3>3. first \in grow_locked(r, InitialCap)
      BY <1>2, <2>2
    <3> QED
      BY <1>1, <2>2, <3>2, <3>3, GrowSound
  <2> QED
    BY <2>1, <2>2
<1> HIDE DEF S
<1>5. /\ Sound(t, S) /\ t.cap # 1
      /\ t.cap # 0 /\ ~(Crowded(first) /\ t = first) => t.size + t.tombs + 1 < t.cap
  BY <1>1, <1>3, <1>4, RoomierSound
<1>6. regions' = regions \cup {key} /\ hash' = hash
  BY DEF region_register
<1>7. IsFiniteSet(regions') /\ regions' \subseteq Region /\ HashOK'
  BY <1>1, <1>6, FS_AddElement DEF HashOK
<1>8. CASE t.cap = 0 /\ r' = t /\ dropped' = dropped \cup {key}
  <2>1. regions' \ dropped' = S /\ dropped' \subseteq regions'
    BY <1>1, <1>6, <1>8 DEF S
  <2>2. Sound(r, regions \ dropped)'
    BY <1>5, <1>6, <1>8, <2>1, SoundNext
  <2> QED
    BY <1>5, <1>7, <1>8, <2>1, <2>2 DEF RInv
<1>9. CASE t.cap # 0 /\ ProbeStops(t, key) # {} /\ r' = insert(t, key) /\ dropped' = dropped
  <2>1. regions' \ dropped' = S \cup {key} /\ dropped' \subseteq regions'
    BY <1>1, <1>6, <1>9 DEF S, RInv, region_register
  <2>2. Sound(r', S \cup {key}) /\ r'.cap = t.cap /\ r'.size + r'.tombs <= t.size + t.tombs + 1
    BY <1>1, <1>5, <1>9, InsertSound
  <2>3. Sound(r, regions \ dropped)'
    BY <1>6, <2>1, <2>2, SoundNext
  <2>4. r'.cap # 0 /\ ~refused' => r'.size + r'.tombs < r'.cap
    <3>1. t.cap \in Nat /\ t.size \in Nat /\ t.tombs \in Nat
      BY <1>5, SoundCounts
    <3>2. r'.size \in Nat /\ r'.tombs \in Nat
      BY <2>2, SoundCounts
    <3>3. ~refused' => ~(Crowded(first) /\ t = first)
      BY <1>3, Zenon
    <3> QED
      BY <1>5, <2>2, <3>1, <3>2, <3>3
  <2> QED
    BY <1>5, <1>7, <2>1, <2>2, <2>3, <2>4 DEF RInv
<1> QED
  BY <1>3, <1>8, <1>9

\* region_unregister, for a recorded region and for one that was dropped.
LEMMA UnregisterRInv ==
  ASSUME RInv, NEW key \in Region, region_unregister(key)
  PROVE  RInv'
<1> DEFINE S == regions \ dropped
<1>1. /\ HashOK /\ Sound(r, S) /\ r.cap # 1 /\ IsFiniteSet(S) /\ S \subseteq Region
      /\ regions \subseteq Region /\ dropped \subseteq regions /\ IsFiniteSet(regions) /\ key \in regions
  <2>1. IsFiniteSet(S)
    BY FS_Subset DEF RInv
  <2> QED
    BY <2>1 DEF RInv, region_unregister
<1>2. /\ regions' = regions \ {key} /\ dropped' = dropped \ {key} /\ hash' = hash /\ refused' = refused
      /\ \/ r.cap = 0 /\ r' = r
         \/ /\ r.cap # 0 /\ ProbeStops(r, key) # {}
            /\ r' = IF r.slots[Found(r, key)] = key THEN bury(r, key) ELSE r
  BY DEF region_unregister
<1>3. IsFiniteSet(regions') /\ regions' \subseteq Region /\ dropped' \subseteq regions' /\ HashOK'
  BY <1>1, <1>2, FS_RemoveElement DEF HashOK
<1>4. regions' \ dropped' = S \ {key}
  BY <1>2
<1> HIDE DEF S
<1>5. r.cap \in Nat /\ Holds(r.slots, r.cap, S)
  BY <1>1 DEF Sound
<1>6. CASE key \in S
  <2>1. r.cap # 0
    BY <1>5, <1>6 DEF Holds
  <2>2. r' = bury(r, key)
    BY <1>1, <1>2, <1>5, <1>6, <2>1, ProbeTells
  <2>3. Sound(r', S \ {key}) /\ r'.cap = r.cap /\ r'.size + r'.tombs = r.size + r.tombs
    BY <1>1, <1>6, <2>1, <2>2, BurySound, SMTT(20)
  <2>4. Sound(r, regions \ dropped)'
    BY <1>2, <1>4, <2>3, SoundNext
  <2> QED
    BY <1>1, <1>2, <1>3, <2>3, <2>4 DEF RInv
<1>7. CASE key \notin S
  <2>1. S \ {key} = S
    BY <1>7
  <2>2. r' = r
    BY <1>1, <1>2, <1>5, <1>7, ProbeTells, RegistryAssumption
  <2>3. Sound(r, regions \ dropped)'
    BY <1>1, <1>2, <1>4, <2>1, <2>2, SoundNext
  <2> QED
    BY <1>1, <1>2, <1>3, <2>2, <2>3 DEF RInv
<1> QED
  BY <1>6, <1>7

\* The invariant holds in every reachable state.
THEOREM RegistryInvariant == Spec => []RInv
<1>1. RInv /\ [Next]_vars => RInv'
  <2> SUFFICES ASSUME RInv, [Next]_vars PROVE RInv'
    OBVIOUS
  <2>1. CASE UNCHANGED vars
    <3>1. Sound(r, regions \ dropped)'
      BY <2>1, SoundNext DEF vars, RInv
    <3> QED
      BY <2>1, <3>1 DEF vars, RInv, HashOK
  <2>2. CASE Next
    BY <2>2, RegisterRInv, UnregisterRInv DEF Next
  <2> QED
    BY <2>1, <2>2
<1> QED
  BY <1>1, InitRInv, PTL DEF Spec

\* Every probe ends: unless the growth it wanted was refused, the table has an
\* empty slot, so the loops of region_register, region_unregister and
\* region_owns, which run under the lock until they meet one, return.
THEOREM RegistryProbesEnd == Spec => []ProbesEnd
<1>1. RInv => ProbesEnd
  BY SoundRoom DEF RInv, ProbesEnd
<1> QED
  BY <1>1, RegistryInvariant, PTL

\* region_owns answers yes for the recorded regions and for no other base.
THEOREM RegistryOwnsExactly == Spec => []OwnsExactly
<1>1. RInv => OwnsExactly
  <2> SUFFICES ASSUME RInv, NEW key \in Region, r.cap = 0 \/ ProbeStops(r, key) # {}
               PROVE  region_owns(key) <=> key \in regions \ dropped
    BY DEF OwnsExactly
  <2>1. HashOK /\ r.cap \in Nat /\ Holds(r.slots, r.cap, regions \ dropped)
    BY DEF RInv, Sound
  <2>2. CASE r.cap = 0
    <3>1. regions \ dropped = {}
      BY <2>1, <2>2 DEF Holds
    <3> QED
      BY <2>2, <3>1 DEF region_owns
  <2>3. CASE r.cap # 0
    <3>1. EMPTY # key
      BY RegistryAssumption
    <3> QED
      BY <2>1, <2>3, <3>1, ProbeTells DEF region_owns
  <2> QED
    BY <2>2, <2>3
<1> QED
  BY <1>1, RegistryInvariant, PTL

\* size and tombs, on which growth is decided, are what the table holds.
THEOREM RegistryCountsExact == Spec => []TableCountsExact
<1>1. RInv => TableCountsExact
  <2> SUFFICES ASSUME RInv PROVE TableCountsExact
    OBVIOUS
  <2> DEFINE Slots(E) == IF r.cap = 0 THEN {} ELSE {i \in 0 .. r.cap - 1 : r.slots[i] \in E}
  <2>1. ASSUME NEW E PROVE Slots(E) = In(r.slots, r.cap, E)
    BY DEF In
  <2>2. /\ r.tombs = Cardinality(In(r.slots, r.cap, {TOMB}))
        /\ r.size = Cardinality(In(r.slots, r.cap, Region))
        /\ r.size = Cardinality(regions \ dropped)
    BY DEF RInv, Sound, Holds
  <2>3. r.tombs = Cardinality(Slots({TOMB})) /\ r.size = Cardinality(Slots(Region))
    <3> HIDE DEF Slots
    <3> QED
      BY <2>1, <2>2
  <2> QED
    BY <2>2, <2>3 DEF TableCountsExact
<1> QED
  BY <1>1, RegistryInvariant, PTL

=============================================================================
