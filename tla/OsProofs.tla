------------------------------ MODULE OsProofs ------------------------------
(***************************************************************************)
(* The peak of OsLayer, for every number of threads, every address space   *)
(* and every sequence of calls.  PeakIsHighWater is not inductive: PeakInv *)
(* adds what a thread between its addition and its exchange still owes.    *)
(***************************************************************************)
EXTENDS OsLayer, TLAPS

Locals ==
  [pc : {"idle", "head", "tail", "add", "load", "cas", "sub"}, ret : {"idle"}, base : Nat,
   size : Nat, n : 0 .. WORD - 1, now : Nat, prev : Nat]

\* The threads between their addition and their exchange.
Raising == {t \in Thread : th[t].pc \in {"load", "cas"}}

PeakInv ==
  /\ th \in [Thread -> Locals]
  /\ bytes_mapped \in Nat /\ peak_mapped \in Nat /\ high \in Nat
  /\ peak_mapped <= high
  /\ \A t \in Raising : th[t].now <= high
  /\ \A t \in Thread : th[t].pc = "cas" => th[t].prev <= peak_mapped
  /\ peak_mapped = high \/ \E t \in Raising : th[t].now = high

\* Masking, and sums and differences of words, give numbers again.
LEMMA Types ==
  /\ WORD \in Nat \ {0} /\ PS \in Nat \ {0} /\ SEGMENT_SIZE \in Nat \ {0} /\ SEGMENT_SIZE < WORD
  /\ \A a, b \in Nat : add(a, b) \in Nat
  /\ \A a \in Nat, b \in 0 .. WORD - 1 : sub(a, b) \in Nat
  /\ \A size \in Nat : over(size, SEGMENT_SIZE) \in Nat
  /\ \A base \in Nat : aligned(base, SEGMENT_SIZE) \in Nat
<1>1. WORD \in Nat \ {0} /\ PS \in Nat \ {0} /\ SEGMENT_SIZE \in Nat \ {0} BY GeometryAssumption
<1>2. SEGMENT_SIZE < WORD BY <1>1, GeometryAssumption
<1>3. \A a, b \in Nat : add(a, b) \in Nat BY <1>1 DEF add
<1>4. \A a \in Nat, b \in 0 .. WORD - 1 : sub(a, b) \in Nat BY <1>1 DEF sub
<1>5. \A size \in Nat : over(size, SEGMENT_SIZE) \in Nat BY <1>1, <1>3 DEF over
<1>6. ASSUME NEW x \in Nat PROVE mask(x, SEGMENT_SIZE) \in Nat
  <2> DEFINE q == x \div SEGMENT_SIZE
             r == x % SEGMENT_SIZE
  <2>1. q \in Nat /\ r \in 0 .. SEGMENT_SIZE - 1 /\ x = SEGMENT_SIZE * q + r BY <1>1, Z3
  <2> HIDE DEF q, r
  <2>2. x - r \in Nat BY <1>1, <2>1
  <2> QED BY <2>2 DEF mask, r
<1>7. \A base \in Nat : aligned(base, SEGMENT_SIZE) \in Nat
  <2> TAKE base \in Nat
  <2>1. add(base, SEGMENT_SIZE - 1) \in Nat BY <1>1, <1>3
  <2> QED BY <1>6, <2>1 DEF aligned
<1> QED BY <1>1, <1>2, <1>3, <1>4, <1>5, <1>7

\* A step that leaves the counters alone, of a thread that neither is nor
\* comes to be between addition and exchange.
LEMMA Elsewhere ==
  ASSUME PeakInv, NEW t \in Thread, NEW l \in Locals, th' = [th EXCEPT ![t] = l],
         th[t].pc \notin {"load", "cas"}, l.pc \notin {"load", "cas"},
         bytes_mapped' \in Nat, UNCHANGED <<peak_mapped, high>>
  PROVE  PeakInv'
<1>1. \A u \in Thread : th'[u] = IF u = t THEN l ELSE th[u] BY DEF PeakInv
<1>2. th' \in [Thread -> Locals] BY DEF PeakInv
<1>3. Raising' = Raising BY <1>1 DEF Raising
<1>4. \A u \in Raising : th'[u] = th[u] BY <1>1 DEF Raising
<1> QED BY <1>1, <1>2, <1>3, <1>4 DEF PeakInv

LEMMA AtRestType == AtRest \in Locals /\ AtRest.pc = "idle" /\ AtRest.ret = "idle"
BY Types DEF AtRest, Locals

LEMMA PeakInvInit == OsInit => PeakInv
<1> SUFFICES ASSUME OsInit PROVE PeakInv OBVIOUS
<1>1. th \in [Thread -> Locals] BY AtRestType DEF OsInit
<1>2. \A t \in Thread : th[t].pc = "idle" BY AtRestType DEF OsInit
<1> QED BY <1>1, <1>2 DEF OsInit, PeakInv, Raising

LEMMA PeakInvStep == PeakInv /\ [OsNext]_<<osVars, th>> => PeakInv'
<1> SUFFICES ASSUME PeakInv, [OsNext]_<<osVars, th>> PROVE PeakInv' OBVIOUS
<1> USE DEF osVars
<1>1. ASSUME NEW t \in Thread, OsCall(t) PROVE PeakInv'
  <2>1. PICK size \in 0 .. WORD - 1 :
          os_alloc_aligned(t, size, AtRest) \/ \E ptr \in Address : os_free(t, ptr, size)
    BY <1>1 DEF OsCall
  <2>2. th[t].pc = "idle" BY <1>1 DEF OsCall
  <2>3. size \in Nat BY Types
  <2>4. AtRest \in Locals BY AtRestType
  <2>5. CASE os_alloc_aligned(t, size, AtRest)
    <3>1. CASE th' = [th EXCEPT ![t] = [AtRest EXCEPT !.pc = AtRest.ret, !.base = 0]] /\ UNCHANGED osVars
      <4> DEFINE l == [AtRest EXCEPT !.pc = AtRest.ret, !.base = 0]
      <4>1. AtRest.ret = "idle" BY AtRestType
      <4>2. l \in Locals /\ l.pc = "idle" BY <2>4, <4>1 DEF Locals
      <4> QED BY <2>2, <3>1, <4>2, Elsewhere DEF PeakInv
    <3>2. ASSUME NEW base \in Room(over(size, SEGMENT_SIZE)),
                 th' = [th EXCEPT ![t] = [AtRest EXCEPT !.pc = "head", !.base = base, !.size = size]],
                 UNCHANGED <<foreign, mem, bytes_mapped, peak_mapped, high>>
          PROVE  PeakInv'
      <4> DEFINE l == [AtRest EXCEPT !.pc = "head", !.base = base, !.size = size]
      <4>1. base \in Nat BY Types, OsAssumption DEF Room
      <4>2. l \in Locals /\ l.pc = "head" BY <2>3, <2>4, <4>1 DEF AtRest, Locals
      <4> QED BY <2>2, <3>2, <4>2, Elsewhere DEF PeakInv
    <3> QED BY <2>5, <3>1, <3>2 DEF os_alloc_aligned
  <2>6. ASSUME NEW ptr \in Address, os_free(t, ptr, size) PROVE PeakInv'
    <3> DEFINE l == [th[t] EXCEPT !.pc = "sub", !.n = size]
    <3>1. th' = [th EXCEPT ![t] = l] BY <2>6 DEF os_free, PeakInv, Locals
    <3>2. l \in Locals /\ l.pc = "sub" BY DEF PeakInv, Locals
    <3> QED BY <2>2, <2>6, <3>1, <3>2, Elsewhere DEF os_free, PeakInv
  <2> QED BY <2>1, <2>5, <2>6
<1>2. ASSUME NEW t \in Thread, TrimHead(t) PROVE PeakInv'
  <2> DEFINE l == [th[t] EXCEPT !.pc = "tail"]
  <2>1. th' = [th EXCEPT ![t] = l] BY <1>2 DEF TrimHead, PeakInv, Locals
  <2>2. l \in Locals /\ l.pc = "tail" BY DEF PeakInv, Locals
  <2> QED BY <1>2, <2>1, <2>2, Elsewhere DEF TrimHead, PeakInv
<1>3. ASSUME NEW t \in Thread, TrimTail(t) PROVE PeakInv'
  <2> DEFINE l == [th[t] EXCEPT !.pc = "add", !.base = aligned(th[t].base, SEGMENT_SIZE)]
  <2>1. th' = [th EXCEPT ![t] = l] BY <1>3 DEF TrimTail, PeakInv, Locals
  <2>2. l \in Locals /\ l.pc = "add" BY Types DEF PeakInv, Locals
  <2> QED BY <1>3, <2>1, <2>2, Elsewhere DEF TrimTail, PeakInv
<1>4. ASSUME NEW t \in Thread, FetchSub(t) PROVE PeakInv'
  <2> DEFINE l == [th[t] EXCEPT !.pc = th[t].ret, !.n = 0]
  <2>1. th' = [th EXCEPT ![t] = l] BY <1>4 DEF FetchSub, PeakInv, Locals
  <2>2. l \in Locals /\ l.pc = "idle"
    <3>1. th[t] \in Locals BY DEF PeakInv
    <3>2. th[t].ret = "idle" BY <3>1 DEF Locals
    <3>3. 0 \in 0 .. WORD - 1 BY Types
    <3> QED BY <3>1, <3>2, <3>3 DEF Locals
  <2>3. bytes_mapped' \in Nat
    <3>1. th[t].n \in 0 .. WORD - 1 BY DEF PeakInv, Locals
    <3> QED BY <1>4, <3>1, Types DEF FetchSub, PeakInv
  <2> QED BY <1>4, <2>1, <2>2, <2>3, Elsewhere DEF FetchSub, PeakInv
<1>5. ASSUME NEW t \in Thread, FetchAdd(t) PROVE PeakInv'
  <2> DEFINE now == add(bytes_mapped, over(th[t].size, SEGMENT_SIZE))
             l == [th[t] EXCEPT !.pc = "load", !.now = now]
  <2>1. now \in Nat
    <3>1. th[t].size \in Nat BY DEF PeakInv, Locals
    <3> QED BY <3>1, Types DEF PeakInv
  <2>2. bytes_mapped' = now /\ high' = (IF now > high THEN now ELSE high) /\ peak_mapped' = peak_mapped
    BY <1>5 DEF FetchAdd
  <2>3. th' = [th EXCEPT ![t] = l] BY <1>5 DEF FetchAdd, PeakInv, Locals
  <2> HIDE DEF now
  <2>4. l \in Locals /\ l.pc = "load" /\ l.now = now BY <2>1 DEF PeakInv, Locals
  <2> HIDE DEF l
  <2>5. \A u \in Thread : th'[u] = IF u = t THEN l ELSE th[u] BY <2>3 DEF PeakInv
  <2>6. th' \in [Thread -> Locals] BY <2>3, <2>4 DEF PeakInv
  <2>7. high' \in Nat /\ high <= high' /\ now <= high' /\ (high' = high \/ high' = now)
    BY <2>1, <2>2 DEF PeakInv
  <2>8. Raising' = Raising \cup {t} BY <2>4, <2>5 DEF Raising
  <2>9. \A u \in Raising' : th'[u].now <= high'
    <3> TAKE u \in Raising'
    <3>1. CASE u = t BY <2>4, <2>5, <2>7, <3>1
    <3>2. CASE u # t
      <4>1. u \in Raising /\ th'[u] = th[u] /\ th[u].now \in Nat
        BY <2>5, <2>8, <3>2 DEF Raising, PeakInv, Locals
      <4>2. th[u].now <= high BY <4>1 DEF PeakInv
      <4> QED BY <2>7, <4>1, <4>2 DEF PeakInv
    <3> QED BY <3>1, <3>2
  <2>10. peak_mapped' = high' \/ \E u \in Raising' : th'[u].now = high'
    <3>1. t \in Raising' /\ th'[t].now = now BY <2>4, <2>5, <2>8
    <3>2. CASE high' = now BY <3>1, <3>2
    <3>3. CASE high' = high /\ high' # now
      <4>1. t \notin Raising BY <1>5 DEF FetchAdd, Raising
      <4>2. \A u \in Raising : u \in Raising' /\ th'[u] = th[u] BY <2>5, <2>8, <4>1 DEF Raising
      <4> QED BY <2>2, <3>3, <4>2 DEF PeakInv
    <3> QED BY <2>7, <3>2, <3>3
  <2>11. \A u \in Thread : th'[u].pc = "cas" => th'[u].prev <= peak_mapped'
    BY <2>2, <2>4, <2>5 DEF PeakInv
  <2>12. peak_mapped' <= high' BY <2>2, <2>7 DEF PeakInv
  <2> QED BY <2>1, <2>2, <2>6, <2>7, <2>9, <2>10, <2>11, <2>12 DEF PeakInv
<1>6. ASSUME NEW t \in Thread, LoadPeak(t) PROVE PeakInv'
  <2> DEFINE l == [th[t] EXCEPT !.pc = "cas", !.prev = peak_mapped]
  <2>1. th' = [th EXCEPT ![t] = l] /\ UNCHANGED osVars BY <1>6 DEF LoadPeak, PeakInv, Locals
  <2>2. /\ l \in Locals /\ l.pc = "cas"
        /\ l.now = th[t].now /\ l.prev = peak_mapped
    BY DEF PeakInv, Locals
  <2> HIDE DEF l
  <2>3. \A u \in Thread : th'[u] = IF u = t THEN l ELSE th[u] BY <2>1 DEF PeakInv
  <2>4. th' \in [Thread -> Locals] BY <2>1, <2>2 DEF PeakInv
  <2>5. Raising' = Raising BY <1>6, <2>2, <2>3 DEF Raising, LoadPeak
  <2>6. \A u \in Thread : th'[u].now = th[u].now BY <2>2, <2>3
  <2>7. \A u \in Thread : th'[u].pc = "cas" => th'[u].prev <= peak_mapped BY <2>2, <2>3 DEF PeakInv
  <2>8. Raising \subseteq Thread BY DEF Raising
  <2> QED BY <2>1, <2>4, <2>5, <2>6, <2>7, <2>8 DEF PeakInv
<1>7. ASSUME NEW t \in Thread, CasPeak(t) PROVE PeakInv'
  <2>1. t \in Raising /\ th[t].pc = "cas" BY <1>7 DEF CasPeak, Raising
  <2>2. /\ th[t].now \in Nat /\ th[t].prev \in Nat
        /\ th[t].now <= high /\ th[t].prev <= peak_mapped
    BY <2>1 DEF PeakInv, Locals
  <2>3. bytes_mapped' = bytes_mapped /\ high' = high BY <1>7 DEF CasPeak
  <2>4. CASE /\ th[t].now <= th[t].prev \/ th[t].prev = peak_mapped
             /\ peak_mapped' = IF th[t].now > th[t].prev THEN th[t].now ELSE peak_mapped
             /\ th' = [th EXCEPT ![t].pc = "sub", ![t].now = 0, ![t].prev = 0, ![t].n = SEGMENT_SIZE]
    <3> DEFINE l == [th[t] EXCEPT !.pc = "sub", !.now = 0, !.prev = 0, !.n = SEGMENT_SIZE]
    <3>1. th' = [th EXCEPT ![t] = l] BY <2>4 DEF PeakInv, Locals
    <3>2. l \in Locals /\ l.pc = "sub"
      <4>1. th[t] \in Locals BY DEF PeakInv
      <4>2. SEGMENT_SIZE \in 0 .. WORD - 1 BY Types
      <4> QED BY <4>1, <4>2 DEF Locals
    <3> HIDE DEF l
    <3>3. \A u \in Thread : th'[u] = IF u = t THEN l ELSE th[u] BY <3>1 DEF PeakInv
    <3>4. th' \in [Thread -> Locals] BY <3>1, <3>2 DEF PeakInv
    <3>5. /\ peak_mapped' \in Nat /\ peak_mapped <= peak_mapped' /\ th[t].now <= peak_mapped'
          /\ peak_mapped' <= high
      BY <2>2, <2>4 DEF PeakInv
    <3>6. Raising' = Raising \ {t} BY <3>2, <3>3 DEF Raising
    <3>7. \A u \in Raising' : th'[u] = th[u] /\ u \in Raising BY <3>3, <3>6 DEF Raising
    <3>8. \A u \in Thread : th'[u].pc = "cas" => th'[u].prev <= peak_mapped'
      <4> TAKE u \in Thread
      <4>1. CASE u = t BY <3>2, <3>3, <4>1
      <4>2. CASE u # t
        <5>1. th'[u] = th[u] /\ th[u].prev \in Nat BY <3>3, <4>2 DEF PeakInv, Locals
        <5>2. th[u].pc = "cas" => th[u].prev <= peak_mapped BY DEF PeakInv
        <5> QED BY <3>5, <5>1, <5>2 DEF PeakInv
      <4> QED BY <4>1, <4>2
    <3>9. peak_mapped' = high \/ \E u \in Raising' : th'[u].now = high
      <4>1. CASE peak_mapped = high BY <3>5, <4>1 DEF PeakInv
      <4>2. CASE th[t].now = high BY <2>2, <3>5, <4>2
      <4>3. CASE \E u \in Raising \ {t} : th[u].now = high BY <3>6, <3>7, <4>3
      <4> QED BY <4>1, <4>2, <4>3 DEF PeakInv
    <3> QED BY <2>3, <3>4, <3>5, <3>7, <3>8, <3>9 DEF PeakInv
  <2>5. CASE /\ th' = [th EXCEPT ![t].prev = peak_mapped]
             /\ UNCHANGED peak_mapped
    <3> DEFINE l == [th[t] EXCEPT !.prev = peak_mapped]
    <3>1. th' = [th EXCEPT ![t] = l] BY <2>5 DEF PeakInv, Locals
    <3>2. /\ l \in Locals /\ l.pc = "cas"
          /\ l.now = th[t].now /\ l.prev = peak_mapped
      BY <2>1 DEF PeakInv, Locals
    <3> HIDE DEF l
    <3>3. \A u \in Thread : th'[u] = IF u = t THEN l ELSE th[u] BY <3>1 DEF PeakInv
    <3>4. th' \in [Thread -> Locals] BY <3>1, <3>2 DEF PeakInv
    <3>5. Raising' = Raising BY <2>1, <3>2, <3>3 DEF Raising
    <3>6. \A u \in Thread : th'[u].now = th[u].now BY <3>2, <3>3
    <3>7. \A u \in Thread : th'[u].pc = "cas" => th'[u].prev <= peak_mapped BY <3>2, <3>3 DEF PeakInv
    <3>8. Raising \subseteq Thread BY DEF Raising
    <3> QED BY <2>3, <2>5, <3>4, <3>5, <3>6, <3>7, <3>8 DEF PeakInv
  <2> QED BY <1>7, <2>4, <2>5 DEF CasPeak
<1>8. CASE UNCHANGED <<bytes_mapped, peak_mapped, high, th>> BY <1>8 DEF PeakInv, Raising
<1> QED BY <1>1, <1>2, <1>3, <1>4, <1>5, <1>6, <1>7, <1>8 DEF OsNext, OsStep, OsForeign

\* For every number of threads, whatever sizes they map and free: the peak is
\* the largest value bytes_mapped ever had, as soon as no thread is between
\* its addition and its exchange, and never more.
THEOREM PeakExact == OsSpec => []PeakIsHighWater
<1>1. OsInit => PeakInv BY PeakInvInit
<1>2. PeakInv => PeakIsHighWater BY DEF PeakInv, PeakIsHighWater, Raising
<1> QED BY <1>1, <1>2, PeakInvStep, PTL DEF OsSpec

\* A thread that loses the race for the peak comes back with a larger prev, so
\* its loop ends.
THEOREM PeakLoopEnds == OsSpec => PeakLoopAdvances
<1>1. OsInit => PeakInv BY PeakInvInit
<1>2. ASSUME PeakInv, [OsNext]_<<osVars, th>>, NEW t \in Thread,
             th[t].pc = "cas", th'[t].pc = "cas", th'[t] # th[t]
      PROVE  th'[t].prev > th[t].prev
  <2>1. th \in [Thread -> Locals] /\ th[t].prev <= peak_mapped BY <1>2 DEF PeakInv
  <2>2. PICK u \in Thread : OsCall(u) \/ OsStep(u)
    BY <1>2 DEF OsNext, OsForeign, osVars
  <2>3. u = t
    BY <1>2, <2>1, <2>2 DEF OsCall, OsStep, os_alloc_aligned, os_free, TrimHead, TrimTail,
                            FetchAdd, LoadPeak, CasPeak, FetchSub
  <2>4. CasPeak(t)
    BY <1>2, <2>2, <2>3 DEF OsCall, OsStep, TrimHead, TrimTail, FetchAdd, LoadPeak, FetchSub
  <2>5. th[t].prev # peak_mapped /\ th' = [th EXCEPT ![t].prev = peak_mapped]
    BY <1>2, <2>1, <2>4 DEF CasPeak, Locals
  <2>6. th'[t].prev = peak_mapped BY <2>1, <2>5 DEF Locals
  <2>7. th[t].prev \in Nat /\ peak_mapped \in Nat BY <1>2 DEF PeakInv, Locals
  <2> QED BY <2>1, <2>5, <2>6, <2>7
<1>3. PeakInv /\ [OsNext]_<<osVars, th>> =>
        [\A t \in Thread : th[t].pc = "cas" /\ th'[t].pc = "cas" /\ th'[t] # th[t] =>
                             th'[t].prev > th[t].prev]_<<osVars, th>>
  BY <1>2
<1> QED BY <1>1, <1>3, PeakInvStep, PTL DEF OsSpec, PeakLoopAdvances

=============================================================================
