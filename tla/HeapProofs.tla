----------------------------- MODULE HeapProofs -----------------------------
(***************************************************************************)
(* Heaps, the registry of heaps and the threads that use them, for any     *)
(* number of threads and addresses, with calls after the guard and with    *)
(* heaps that cannot be mapped.                                            *)
(***************************************************************************)
EXTENDS ThreadHeap, TLAPS

Label == {"idle", "walk", "acquire", "sweep", "release", "push", "collect", "handback",
          "unregister", "unmap", "detach", "fault"}

\* HeapsDistinct is not inductive: it does not say where the heap of a thread
\* that destroys it is.  It is registered up to Unregister and mapped, but no
\* longer registered, up to UnmapHeap; only from there to Detach may another
\* thread get its address.
HeapInv ==
  /\ t_heap \in [Thread -> HeapAddr \cup {NULL}] /\ pc \in [Thread -> Label]
  /\ registry \subseteq heaps /\ heaps \subseteq HeapAddr
  /\ \A t \in Thread : t_heap[t] # NULL /\ pc[t] \notin {"unmap", "detach"} => t_heap[t] \in registry
  /\ \A t \in Thread : t_heap[t] # NULL /\ pc[t] = "unmap" => t_heap[t] \in heaps \ registry
  /\ \A t, u \in Thread : t # u /\ t_heap[t] = t_heap[u] /\ t_heap[t] # NULL =>
       At(t, "detach") \/ At(u, "detach")

\* Thread t goes from one label to another, between which its heap stays
\* registered or it has none.
Moves(t, l) == pc' = [pc EXCEPT ![t] = l]

LEMMA MovesInside ==
  ASSUME HeapInv, NEW t \in Thread, pc[t] \notin {"unmap", "detach"},
         NEW l \in Label \ {"unmap", "detach"}, Moves(t, l),
         UNCHANGED <<heaps, registry, t_heap>>
  PROVE  HeapInv'
<1>1. \A u \in Thread : pc'[u] = IF u = t THEN l ELSE pc[u]
  BY DEF HeapInv, Moves
<1>2. pc' \in [Thread -> Label]
  BY DEF HeapInv, Moves
<1>3. \A u \in Thread : \A k \in {"unmap", "detach"} : pc'[u] = k <=> pc[u] = k
  BY <1>1
<1> QED
  BY <1>2, <1>3 DEF HeapInv, At

LEMMA Stays ==
  ASSUME HeapInv, UNCHANGED <<heaps, registry, t_heap, pc>>
  PROVE  HeapInv'
BY DEF HeapInv, At

LEMMA GotoMoves ==
  ASSUME NEW t, NEW l, NEW locals, Goto(t, l, locals)
  PROVE  Moves(t, l)
BY DEF Goto, Moves

LEMMA DestroyingMoves ==
  ASSUME NEW t, NEW locals, Destroying(t, locals)
  PROVE  Moves(t, "unregister") \/ Moves(t, "collect")
BY DEF Destroying, Goto, Moves

LEMMA ServeMoves ==
  ASSUME NEW t, NEW m, NEW h, NEW c, NEW p, Serve(t, m, h, c, p)
  PROVE  Moves(t, "idle")
BY DEF Serve, Return, Goto, Moves

LEMMA FinishMoves ==
  ASSUME NEW t, NEW m, FinishWithPage(t, m)
  PROVE  Moves(t, "idle")
BY ServeMoves DEF FinishWithPage

\* No two threads share a heap, and every heap that a thread or the registry
\* leads to is mapped, however threads start, exit, call after their guard and
\* reuse addresses (heap_create, heap_destroy and HeapGuard).
THEOREM HeapsNeverShared == Spec => []HeapsDistinct
<1>1. Init => HeapInv
  BY DEF Init, HeapInv, At, Label
<1>2. HeapInv /\ [Next]_vars => HeapInv'
  <2> SUFFICES ASSUME HeapInv, [Next]_vars PROVE HeapInv' OBVIOUS
  <2>1. ASSUME NEW t \in Thread, Call(t) PROVE HeapInv'
    <3>1. ASSUME NEW c \in Class, Malloc(t, c) PROVE HeapInv'
      <4>1. pc[t] = "idle" /\ UNCHANGED <<heaps, registry, t_heap>>
        BY <3>1 DEF Malloc, Callable, At
      <4>2. Moves(t, "idle") \/ Moves(t, "walk") \/ Moves(t, "acquire")
        BY <3>1, ServeMoves, GotoMoves DEF Malloc
      <4> QED BY <4>1, <4>2, MovesInside DEF Label
    <3>2. ASSUME NEW c \in Class, MallocFirst(t, c) PROVE HeapInv'
      <4>1. pc[t] = "idle" /\ t_heap[t] = NULL BY <3>2 DEF MallocFirst, Callable, At
      <4>2. PICK h \in HeapAddr \ heaps :
              /\ heaps' = heaps \cup {h} /\ registry' = registry \cup {h}
              /\ t_heap' = [t_heap EXCEPT ![t] = h]
        BY <3>2 DEF MallocFirst
      <4>3. pc' = [pc EXCEPT ![t] = "acquire"] BY <3>2 DEF MallocFirst, Goto
      <4>4. \A u \in Thread : u # t => t_heap'[u] = t_heap[u] /\ pc'[u] = pc[u]
        BY <4>2, <4>3 DEF HeapInv
      <4>5. t_heap'[t] = h /\ pc'[t] = "acquire" BY <4>2, <4>3 DEF HeapInv
      <4>6. \A u \in Thread : u # t /\ t_heap[u] = h => pc[u] = "detach"
        BY <4>2, HeapAssumption DEF HeapInv
      <4>7. t_heap' \in [Thread -> HeapAddr \cup {NULL}] /\ pc' \in [Thread -> Label]
        BY <4>2, <4>3 DEF HeapInv, Label
      <4>8. registry' \subseteq heaps' /\ heaps' \subseteq HeapAddr BY <4>2 DEF HeapInv
      <4>9. \A u \in Thread : t_heap'[u] # NULL /\ pc'[u] \notin {"unmap", "detach"} => t_heap'[u] \in registry'
        BY <4>2, <4>4, <4>5, SMTT(20) DEF HeapInv
      <4>10. \A u \in Thread : t_heap'[u] # NULL /\ pc'[u] = "unmap" => t_heap'[u] \in heaps' \ registry'
        BY <4>2, <4>4, <4>5, SMTT(20) DEF HeapInv
      <4>11. ASSUME NEW u \in Thread, NEW v \in Thread, u # v, t_heap'[u] = t_heap'[v], t_heap'[u] # NULL
             PROVE  pc'[u] = "detach" \/ pc'[v] = "detach"
        BY <4>4, <4>5, <4>6, <4>11 DEF HeapInv, At
      <4> QED BY <4>7, <4>8, <4>9, <4>10, <4>11 DEF HeapInv, At
    <3>3. CASE MallocFault(t)
      <4>1. pc[t] = "idle" /\ Moves(t, "fault") /\ UNCHANGED <<heaps, registry, t_heap>>
        BY <3>3, GotoMoves DEF MallocFault, Callable, At, heapState
      <4> QED BY <4>1, MovesInside DEF Label
    <3>4. ASSUME NEW p \in Page, FreeLocal(t, p) PROVE HeapInv'
      <4>1. pc[t] = "idle" /\ UNCHANGED <<heaps, registry, t_heap>>
        BY <3>4, SMTT(20) DEF FreeLocal, Callable, At, heapState
      <4>2. Moves(t, "release") \/ UNCHANGED pc
        BY <3>4, GotoMoves, SMTT(20) DEF FreeLocal
      <4> QED BY <4>1, <4>2, MovesInside, Stays, SMTT(20) DEF Label
    <3>5. ASSUME NEW p \in Page, FreeRemote(t, p) PROVE HeapInv'
      <4>1. pc[t] = "idle" /\ Moves(t, "push") /\ UNCHANGED <<heaps, registry, t_heap>>
        BY <3>5, GotoMoves DEF FreeRemote, Callable, At, heapState
      <4> QED BY <4>1, MovesInside DEF Label
    <3>6. CASE Exit(t)
      <4>1. pc[t] = "idle" /\ UNCHANGED <<heaps, registry, t_heap>>
        BY <3>6 DEF Exit, At, heapState
      <4>2. Moves(t, "idle") \/ Moves(t, "unregister") \/ Moves(t, "collect")
        BY <3>6, GotoMoves, DestroyingMoves DEF Exit, Return
      <4> QED BY <4>1, <4>2, MovesInside DEF Label
    <3>7. CASE Vanish(t)
      BY <3>7, Stays DEF Vanish, heapState
    <3>8. CASE Start(t)
      <4>1. t_heap' = [t_heap EXCEPT ![t] = NULL] /\ UNCHANGED <<heaps, registry, pc>>
        BY <3>8 DEF Start, heapState
      <4> QED BY <4>1 DEF HeapInv, At
    <3> QED BY <2>1, <3>1, <3>2, <3>3, <3>4, <3>5, <3>6, <3>7, <3>8 DEF Call
  <2>2. ASSUME NEW t \in Thread, Unlocked(t) PROVE HeapInv'
    <3>1. CASE Walk(t)
      <4>1. pc[t] = "walk" /\ UNCHANGED <<heaps, registry, t_heap>> BY <3>1 DEF Walk, At
      <4>2. Moves(t, "idle") \/ Moves(t, "acquire") \/ Moves(t, "walk")
        BY <3>1, ServeMoves, GotoMoves DEF Walk
      <4> QED BY <4>1, <4>2, MovesInside DEF Label
    <3>2. CASE Push(t)
      <4>1. pc[t] = "push" /\ Moves(t, "idle") /\ UNCHANGED <<heaps, registry, t_heap>>
        BY <3>2, GotoMoves DEF Push, Return, At, heapState
      <4> QED BY <4>1, MovesInside DEF Label
    <3>3. CASE SweepPage(t)
      BY <3>3, Stays DEF SweepPage, heapState
    <3>4. CASE SweepDone(t)
      <4>1. pc[t] = "sweep" /\ Moves(t, "idle") /\ UNCHANGED <<heaps, registry, t_heap>>
        BY <3>4, FinishMoves, GotoMoves DEF SweepDone, Return, At
      <4> QED BY <4>1, MovesInside DEF Label
    <3>5. CASE ExitCollect(t)
      <4>1. pc[t] = "collect" /\ Moves(t, "handback") /\ UNCHANGED <<heaps, registry, t_heap>>
        BY <3>5, GotoMoves DEF ExitCollect, At, heapState
      <4> QED BY <4>1, MovesInside DEF Label
    <3>6. CASE Unregister(t)
      <4>1. pc[t] = "unregister" /\ pc' = [pc EXCEPT ![t] = "unmap"]
            /\ registry' = registry \ {t_heap[t]} /\ UNCHANGED <<heaps, t_heap>>
        BY <3>6 DEF Unregister, Goto, At
      <4> QED BY <4>1 DEF HeapInv, At, Label
    <3>7. CASE UnmapHeap(t)
      <4>1. pc[t] = "unmap" /\ pc' = [pc EXCEPT ![t] = "detach"]
            /\ heaps' = heaps \ {t_heap[t]} /\ UNCHANGED <<registry, t_heap>>
        BY <3>7 DEF UnmapHeap, Goto, At
      <4>2. t_heap[t] \notin registry
        BY <4>1, HeapAssumption DEF HeapInv
      <4>3. \A u \in Thread : u # t => pc'[u] = pc[u]
        BY <4>1 DEF HeapInv
      <4>4. pc'[t] = "detach" /\ pc' \in [Thread -> Label]
        BY <4>1 DEF HeapInv, Label
      <4>5. \A u \in Thread : u # t /\ pc[u] = "unmap" /\ t_heap[u] # NULL => t_heap[u] # t_heap[t]
        BY <4>1 DEF HeapInv, At
      <4> QED BY <4>1, <4>2, <4>3, <4>4, <4>5 DEF HeapInv, At
    <3>8. CASE Detach(t)
      <4>1. t_heap' = [t_heap EXCEPT ![t] = NULL] /\ pc' = [pc EXCEPT ![t] = "idle"]
            /\ UNCHANGED <<heaps, registry>>
        BY <3>8 DEF Detach, Return, Goto, heapState
      <4> QED BY <4>1 DEF HeapInv, At, Label
    <3> QED BY <2>2, <3>1, <3>2, <3>3, <3>4, <3>5, <3>6, <3>7, <3>8 DEF Unlocked
  <2>3. ASSUME NEW t \in Thread, Locking(t) PROVE HeapInv'
    <3>1. CASE Acquire(t)
      <4>1. pc[t] = "acquire" /\ UNCHANGED <<heaps, registry, t_heap>> BY <3>1 DEF Acquire, At
      <4>2. Moves(t, "idle") \/ Moves(t, "sweep") BY <3>1, FinishMoves, GotoMoves DEF Acquire
      <4> QED BY <4>1, <4>2, MovesInside DEF Label
    <3>2. CASE Release(t)
      <4>1. pc[t] = "release" /\ Moves(t, "idle") /\ UNCHANGED <<heaps, registry, t_heap>>
        BY <3>2, GotoMoves DEF Release, Return, At, heapState
      <4> QED BY <4>1, MovesInside DEF Label
    <3>3. CASE HandBack(t)
      <4>1. pc[t] = "handback" /\ UNCHANGED <<heaps, registry, t_heap>> BY <3>3 DEF HandBack, At
      <4>2. Moves(t, "unregister") \/ Moves(t, "collect") BY <3>3, DestroyingMoves DEF HandBack
      <4> QED BY <4>1, <4>2, MovesInside DEF Label
    <3> QED BY <2>3, <3>1, <3>2, <3>3 DEF Locking
  <2>4. CASE UNCHANGED vars
    BY <2>4, Stays DEF vars, heapState, threadState
  <2> QED BY <2>1, <2>2, <2>3, <2>4 DEF Next
<1>3. HeapInv => HeapsDistinct
  BY DEF HeapInv, HeapsDistinct, Users, Destroys
<1> QED BY <1>1, <1>2, <1>3, PTL DEF Spec

=============================================================================
