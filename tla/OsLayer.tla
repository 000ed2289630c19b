------------------------------- MODULE OsLayer ------------------------------
(***************************************************************************)
(* The operating system layer: regions cut out of over-sized mappings, and *)
(* the counters of mapped bytes, which concurrent calls update one atomic  *)
(* operation at a time.  The address space is a set of OS pages, some of   *)
(* them mapped by others.  A call leaves its result in th[t].base and goes *)
(* on at th[t].ret.                                                        *)
(***************************************************************************)
EXTENDS Geometry, FiniteSetsExt

CONSTANTS
  Thread,
  VA_END                   \* the end of the address space, well below WORD

ASSUME OsAssumption ==
  VA_END \in Nat /\ Divides(SEGMENT_SIZE, VA_END) /\ VA_END * 2 <= WORD

VARIABLES
  own, foreign,            \* OS pages mapped by the allocator, and by others
  mem,                     \* what memory holds, by address
  bytes_mapped, peak_mapped,
  high,                    \* the largest value bytes_mapped ever had
  th                       \* each thread's position and locals

osVars == <<own, foreign, mem, bytes_mapped, peak_mapped, high>>

Address == 0 .. VA_END - 1

\* The OS pages of the n bytes from a.
Pages(a, n) == {p \in mask(a, PS) .. a + n - 1 : p % PS = 0}

\* Anonymous memory that nobody has written.
Zero == [kind |-> "zero"]

sub(a, b) == IF a >= b THEN a - b ELSE a + WORD - b

-----------------------------------------------------------------------------

\* Where mmap can put n bytes: anywhere but on page 0 and on mapped pages.
Room(n) ==
  {a \in PS .. VA_END - 1 : /\ a % PS = 0 /\ a + n <= VA_END
                            /\ Pages(a, n) \cap (own \cup foreign) = {}}

munmap(a, n) ==
  /\ own' = own \ Pages(a, n)
  /\ foreign' = foreign \ Pages(a, n)
  /\ mem' = [p \in Address |-> IF p \in a .. a + n - 1 THEN Zero ELSE mem[p]]

\* Up to raw_mmap, with the alignment all regions have.  A base of 0 is NULL.
os_alloc_aligned(t, size, locals) ==
  \/ /\ th' = [th EXCEPT ![t] = [locals EXCEPT !.pc = locals.ret, !.base = 0]]
     /\ UNCHANGED osVars
  \/ /\ os_accepts(size, SEGMENT_SIZE)
     /\ \E base \in Room(over(size, SEGMENT_SIZE)) :
          /\ own' = own \cup Pages(base, over(size, SEGMENT_SIZE))
          /\ th' = [th EXCEPT ![t] = [locals EXCEPT !.pc = "head", !.base = base, !.size = size]]
     /\ UNCHANGED <<foreign, mem, bytes_mapped, peak_mapped, high>>

TrimHead(t) ==
  /\ th[t].pc = "head"
  /\ munmap(th[t].base, head(th[t].base, SEGMENT_SIZE))
  /\ th' = [th EXCEPT ![t].pc = "tail"]
  /\ UNCHANGED <<bytes_mapped, peak_mapped, high>>

TrimTail(t) ==
  LET l == th[t] IN
  /\ l.pc = "tail"
  /\ munmap(aligned(l.base, SEGMENT_SIZE) + l.size, tail(l.base, l.size, SEGMENT_SIZE))
  /\ th' = [th EXCEPT ![t].pc = "add", ![t].base = aligned(l.base, SEGMENT_SIZE)]
  /\ UNCHANGED <<bytes_mapped, peak_mapped, high>>

\* account_map, its three atomic operations.
FetchAdd(t) ==
  LET now == add(bytes_mapped, over(th[t].size, SEGMENT_SIZE)) IN
  /\ th[t].pc = "add"
  /\ bytes_mapped' = now /\ high' = IF now > high THEN now ELSE high
  /\ th' = [th EXCEPT ![t].pc = "load", ![t].now = now]
  /\ UNCHANGED <<own, foreign, mem, peak_mapped>>

LoadPeak(t) ==
  /\ th[t].pc = "load"
  /\ th' = [th EXCEPT ![t].pc = "cas", ![t].prev = peak_mapped]
  /\ UNCHANGED osVars

\* Faulty: exchanges whenever now and prev differ.
CasPeak_Differ(t) ==
  LET l == th[t] IN
  /\ l.pc = "cas"
  /\ \/ /\ l.now = l.prev \/ l.prev = peak_mapped
        /\ peak_mapped' = IF l.now # l.prev THEN l.now ELSE peak_mapped
        /\ th' = [th EXCEPT ![t].pc = "sub", ![t].now = 0, ![t].prev = 0, ![t].n = SEGMENT_SIZE]
     \/ /\ l.now # l.prev /\ l.prev # peak_mapped
        /\ th' = [th EXCEPT ![t].prev = peak_mapped]
        /\ UNCHANGED peak_mapped
  /\ UNCHANGED <<own, foreign, mem, bytes_mapped, high>>

\* One round of the loop.  A spurious failure of the weak exchange changes
\* nothing.  What follows is account_unmap(head + tail), SEGMENT_SIZE bytes.
CasPeak(t) ==
  LET l == th[t] IN
  /\ l.pc = "cas"
  /\ \/ /\ l.now <= l.prev \/ l.prev = peak_mapped
        /\ peak_mapped' = IF l.now > l.prev THEN l.now ELSE peak_mapped
        /\ th' = [th EXCEPT ![t].pc = "sub", ![t].now = 0, ![t].prev = 0, ![t].n = SEGMENT_SIZE]
     \/ /\ l.now > l.prev /\ l.prev # peak_mapped
        /\ th' = [th EXCEPT ![t].prev = peak_mapped]
        /\ UNCHANGED peak_mapped
  /\ UNCHANGED <<own, foreign, mem, bytes_mapped, high>>

\* Faulty: after trimming, subtracts what was kept instead of what was cut off.
FetchSub_Kept(t) ==
  /\ th[t].pc = "sub"
  /\ bytes_mapped' = sub(bytes_mapped, th[t].size)
  /\ th' = [th EXCEPT ![t].pc = th[t].ret, ![t].n = 0]
  /\ UNCHANGED <<own, foreign, mem, peak_mapped, high>>

\* account_unmap
FetchSub(t) ==
  /\ th[t].pc = "sub"
  /\ bytes_mapped' = sub(bytes_mapped, th[t].n)
  /\ th' = [th EXCEPT ![t].pc = th[t].ret, ![t].n = 0]
  /\ UNCHANGED <<own, foreign, mem, peak_mapped, high>>

\* Up to account_unmap.
os_free(t, ptr, size) ==
  /\ ptr # 0 /\ size # 0
  /\ munmap(ptr, size)
  /\ th' = [th EXCEPT ![t].pc = "sub", ![t].n = size]
  /\ UNCHANGED <<bytes_mapped, peak_mapped, high>>

OsStep(t) ==
  \/ TrimHead(t) \/ TrimTail(t)
  \/ FetchAdd(t) \/ LoadPeak(t) \/ CasPeak(t) \/ FetchSub(t)

-----------------------------------------------------------------------------
(* Others in the process map and unmap pages of their own. *)

ForeignMap == \E a \in Room(PS) : foreign' = foreign \cup {a}

ForeignUnmap(a) == a \in foreign /\ foreign' = foreign \ {a}

-----------------------------------------------------------------------------
(* The layer under any client: calls with any argument, in any order. *)

AtRest ==
  [pc |-> "idle", ret |-> "idle", base |-> 0, size |-> 0, n |-> 0, now |-> 0, prev |-> 0]

OsInit ==
  /\ own = {} /\ foreign = {} /\ mem = [p \in Address |-> Zero]
  /\ bytes_mapped = 0 /\ peak_mapped = 0 /\ high = 0
  /\ th = [t \in Thread |-> AtRest]

OsCall(t) ==
  /\ th[t].pc = "idle"
  /\ \E size \in 0 .. WORD - 1 :
       \/ os_alloc_aligned(t, size, AtRest)
       \/ \E ptr \in Address : os_free(t, ptr, size)

OsForeign ==
  /\ ForeignMap \/ \E a \in foreign : ForeignUnmap(a)
  /\ UNCHANGED <<own, mem, bytes_mapped, peak_mapped, high, th>>

OsNext == OsForeign \/ \E t \in Thread : OsCall(t) \/ OsStep(t)

OsSpec == OsInit /\ [][OsNext]_<<osVars, th>>

\* The peak is the largest number of bytes ever counted, as soon as no thread
\* is between its addition and its exchange, and never more than that.
PeakIsHighWater ==
  /\ peak_mapped <= high
  /\ (\A t \in Thread : th[t].pc \notin {"load", "cas"}) => peak_mapped = high

\* The loop that raises the peak ends, however threads race: a lost exchange
\* brings a larger prev, since nobody lowers the peak, and the loop is left
\* when prev reaches now.
PeakLoopAdvances ==
  [][\A t \in Thread : th[t].pc = "cas" /\ th'[t].pc = "cas" /\ th'[t] # th[t] =>
                        th'[t].prev > th[t].prev]_<<osVars, th>>

=============================================================================
