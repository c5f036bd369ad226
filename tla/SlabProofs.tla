---------------------------- MODULE SlabProofs -----------------------------
(***************************************************************************)
(* Theorems about the slab layer, for any number of threads, spans and     *)
(* chunks, any reclaim delay, with and without UMF_HASH and reclaim.       *)
(***************************************************************************)
EXTENDS Slab, FiniteSetTheorems, TLAPS

\* The default prover of this module.
USE Zenon

\* Nobody is given a buffer that somebody else has.
HeldOnce == \A b \in Buffers : held[b] <= 1

\* Where a thread is says which slabs it has, and how far a slab under
\* construction has come.
ThreadControl(t) ==
    /\ pc[t] \in {"idle", "vmem", "destroy"} => building[t] = {}
    /\ pc[t] # "destroy" => destroy_list[t] = {}
    /\ \A r, s \in building[t] : r = s
    /\ \A r, s \in destroy_list[t] : r = s
    /\ \A s \in building[t] :
         /\ slab_refcnt[s] = 0
         /\ slab_state[s] = "ACTIVE"
         /\ pc[t] = "slab_cache" => slab_head[s] = {}
         /\ pc[t] = "bufctl" => \E k \in 0 .. (CHUNKS - 1) :
                                   slab_head[s] = 1 .. k
         /\ pc[t] = "insert" => slab_head[s] = Chunks

\* The update thread has slabs only during a pass, of which there is none
\* once the cache is off the list; the destroyer only while it drains.
PassControl ==
    /\ upd = "idle" => reclaim_list = {} /\ destroy_list["update"] = {}
    /\ life # "live" => upd = "idle"
    /\ life \in {"live", "unlinked"} => destroy_list["destroyer"] = {}

Control == (\A t \in Threads : ThreadControl(t)) /\ PassControl

\* The inductive invariant.  RefcntExact alone does not survive SlabInsert
\* (which needs Control: a finished slab has all its chunks and no holder) or
\* a reclaim pass (which needs ReclaimStable); FreelistSound needs to know
\* that the slabs an allocation skips are RECLAIMING, hence empty.
IInv ==
    /\ TypeOK
    /\ SpanAccounted
    /\ RefcntExact
    /\ HeldBacked
    /\ HeldOnce
    /\ FreelistSound
    /\ ReclaimStable
    /\ Control

-----------------------------------------------------------------------------
(* Lemmas about the operators.                                             *)

\* The buffers of a slab that are out are finitely many.
LEMMA HeldOfFinite ==
    ASSUME NEW s
    PROVE  /\ IsFiniteSet(HeldOf(s))
           /\ Cardinality(HeldOf(s)) \in Nat
  <1>1. IsFiniteSet(Chunks)
    BY FS_Interval, SlabConstants, SMT DEF Chunks
  <1>2. HeldOf(s) \in SUBSET Chunks
    BY DEF HeldOf
  <1>3. IsFiniteSet(HeldOf(s))
    BY <1>1, <1>2, FS_Subset
  <1> QED
    BY <1>3, FS_CardinalityType

\* Handing out a buffer adds it to those of its slab, and to no other's.
LEMMA HeldOfAdd ==
    ASSUME held \in [Buffers -> Nat],
           NEW s \in SLABS, NEW i \in Chunks, held[<<s, i>>] = 0,
           held' = [held EXCEPT ![<<s, i>>] = @ + 1]
    PROVE  /\ HeldOf(s)' = HeldOf(s) \cup {i}
           /\ Cardinality(HeldOf(s)') = Cardinality(HeldOf(s)) + 1
           /\ \A r \in SLABS \ {s} : HeldOf(r)' = HeldOf(r)
  <1>1. HeldOf(s)' = HeldOf(s) \cup {i}
    BY SMT DEF HeldOf, Buffers
  <1>2. i \notin HeldOf(s)
    BY SMT DEF HeldOf
  <1>3. Cardinality(HeldOf(s) \cup {i}) = Cardinality(HeldOf(s)) + 1
    BY <1>2, HeldOfFinite, FS_AddElement
  <1>4. \A r \in SLABS \ {s} : HeldOf(r)' = HeldOf(r)
    BY DEF HeldOf, Buffers
  <1> QED
    BY <1>1, <1>3, <1>4

\* Taking a buffer back removes it from those of its slab.
LEMMA HeldOfRemove ==
    ASSUME held \in [Buffers -> Nat],
           NEW s \in SLABS, NEW i \in Chunks, held[<<s, i>>] = 1,
           held' = [held EXCEPT ![<<s, i>>] = @ - 1]
    PROVE  /\ HeldOf(s)' = HeldOf(s) \ {i}
           /\ Cardinality(HeldOf(s)') = Cardinality(HeldOf(s)) - 1
           /\ \A r \in SLABS \ {s} : HeldOf(r)' = HeldOf(r)
  <1>1. HeldOf(s)' = HeldOf(s) \ {i}
    BY SMT DEF HeldOf, Buffers
  <1>2. i \in HeldOf(s)
    BY SMT DEF HeldOf
  <1>3. Cardinality(HeldOf(s) \ {i}) = Cardinality(HeldOf(s)) - 1
    BY <1>2, HeldOfFinite, FS_RemoveElement
  <1>4. \A r \in SLABS \ {s} : HeldOf(r)' = HeldOf(r)
    BY DEF HeldOf, Buffers
  <1> QED
    BY <1>1, <1>3, <1>4

\* A linked slab whose count is zero has no buffer out.
LEMMA EmptyUnheld ==
    ASSUME RefcntExact, NEW s \in Linked, slab_refcnt[s] = 0
    PROVE  HeldOf(s) = {}
  BY HeldOfFinite, FS_EmptySet DEF RefcntExact

\* Moving a slab to the front keeps the order strict and puts it first.
LEMMA FrontFirst ==
    ASSUME rank \in [SLABS -> Nat \ {0}],
           \A r, s \in SLABS : rank[r] = rank[s] => r = s,
           NEW s \in SLABS
    PROVE  /\ RankToFront(s) \in [SLABS -> Nat \ {0}]
           /\ \A q, r \in SLABS : RankToFront(s)[q] = RankToFront(s)[r] => q = r
           /\ \A r \in SLABS \ {s} : RankToFront(s)[r] > RankToFront(s)[s]
  BY SMT DEF RankToFront

-----------------------------------------------------------------------------
(* The invariant holds initially and every action preserves it.            *)

\* A cache that umem_cache_create has just made satisfies the invariant.
LEMMA InitInv == Init => IInv
  <1> SUFFICES ASSUME Init PROVE IInv
    OBVIOUS
  <1>1. TypeOK
    <2>1. Cardinality(SLABS) \in Nat
      BY SlabConstants, FS_CardinalityType
    <2> QED
      BY <2>1, SMT DEF Init, TypeOK
  <1>2. SpanAccounted
    BY DEF Init, SpanAccounted, Linked
  <1>3. RefcntExact /\ HeldBacked /\ FreelistSound /\ ReclaimStable
    BY SMT DEF Init, RefcntExact, HeldBacked, FreelistSound, ReclaimStable, Linked
  <1>4. HeldOnce
    BY SMT DEF Init, HeldOnce
  <1>5. Control
    BY SlabConstants DEF Init, Control, ThreadControl, PassControl, Procs
  <1> QED
    BY <1>1, <1>2, <1>3, <1>4, <1>5 DEF IInv

\* A thread that did not move, and whose slab nobody touched, is where the
\* invariant says it is.
LEMMA OthersStable ==
    ASSUME IInv, NEW u \in Threads,
           pc'[u] = pc[u], building'[u] = building[u],
           destroy_list'[u] = destroy_list[u],
           \A s \in building[u] : /\ slab_head'[s] = slab_head[s]
                                  /\ slab_refcnt'[s] = slab_refcnt[s]
                                  /\ slab_state'[s] = slab_state[s]
    PROVE  ThreadControl(u)'
  BY SMT DEF IInv, Control, ThreadControl

\* A step that leaves the passes and their lists alone keeps what is said
\* about them.
LEMMA PassStable ==
    ASSUME IInv, upd' = upd, life' = life, reclaim_list' = reclaim_list,
           destroy_list' = destroy_list
    PROVE  PassControl'
  <1>1. PassControl
    BY DEF IInv, Control
  <1> QED
    BY <1>1 DEF PassControl

\* A step that leaves the list, the callers' buffers and the linked slabs
\* alone keeps everything that is said about them.
LEMMA ListStable ==
    ASSUME IInv,
           held' = held, avail' = avail, before' = before,
           reclaim_list' = reclaim_list,
           \A s \in Linked : /\ slab_head'[s] = slab_head[s]
                             /\ slab_refcnt'[s] = slab_refcnt[s]
                             /\ slab_state'[s] = slab_state[s]
    PROVE  RefcntExact' /\ HeldBacked' /\ HeldOnce' /\ FreelistSound'
           /\ ReclaimStable'
  <1>1. \A s : HeldOf(s)' = HeldOf(s)
    BY DEF HeldOf
  <1>2. Linked' = Linked
    BY DEF Linked
  <1>3. RefcntExact'
    BY <1>1, <1>2 DEF IInv, RefcntExact
  <1>4. HeldBacked' /\ HeldOnce'
    BY <1>2 DEF IInv, HeldBacked, HeldOnce
  <1>5. FreelistSound'
    BY DEF IInv, FreelistSound, Linked
  <1>6. ReclaimStable'
    BY <1>2 DEF IInv, ReclaimStable
  <1> QED
    BY <1>3, <1>4, <1>5, <1>6

\* Moving linked slabs to the destroy list of one process keeps every span in
\* exactly one place.
LEMMA UnlinkAccounted ==
    ASSUME SpanAccounted, NEW p \in Procs, NEW S, S \subseteq Linked,
           destroy_list[p] = {}, destroy_list'[p] = S,
           \A q \in Procs \ {p} : destroy_list'[q] = destroy_list[q],
           Linked' = Linked \ S,
           \A s \in SLABS : ~(s \in avail' /\ s \in before'),
           arena' = arena, building' = building
    PROVE  SpanAccounted'
  <1> SUFFICES ASSUME NEW s \in SLABS
               PROVE  /\ \/ s \in arena \cup Linked'
                         \/ \E t \in Threads : s \in building[t]
                         \/ \E q \in Procs : s \in destroy_list'[q]
                      /\ ~(s \in arena /\ s \in Linked')
                      /\ \A t \in Threads : s \in building[t] =>
                           /\ s \notin arena \cup Linked'
                           /\ \A u \in Threads \ {t} : s \notin building[u]
                           /\ \A q \in Procs : s \notin destroy_list'[q]
                      /\ \A q \in Procs : s \in destroy_list'[q] =>
                           /\ s \notin arena \cup Linked'
                           /\ \A o \in Procs \ {q} : s \notin destroy_list'[o]
    BY DEF SpanAccounted
  <1>1. CASE s \in S
    <2>1. /\ s \in Linked /\ s \notin arena
          /\ \A t \in Threads : s \notin building[t]
          /\ \A q \in Procs : s \notin destroy_list[q]
      BY <1>1 DEF SpanAccounted
    <2> QED
      BY <1>1, <2>1
  <1>2. CASE s \notin S
    <2>1. \A q \in Procs : s \in destroy_list'[q] <=> s \in destroy_list[q]
      BY <1>2
    <2>2. s \in Linked' <=> s \in Linked
      BY <1>2
    <2> QED
      BY <2>1, <2>2 DEF SpanAccounted
  <1> QED
    BY <1>1, <1>2

\* umem_slab_alloc finds no slab and drops the lock.
LEMMA MissInv ==
    ASSUME IInv, NEW t \in Threads, SlabAllocMiss(t)
    PROVE  IInv'
  <1> USE DEF SlabAllocMiss, listVars, slabVars, updVars
  <1>1. TypeOK'
    BY DEF IInv, TypeOK
  <1>2. SpanAccounted'
    BY DEF IInv, SpanAccounted, Linked
  <1>3. RefcntExact' /\ HeldBacked' /\ HeldOnce' /\ FreelistSound' /\ ReclaimStable'
    BY ListStable
  <1>4. Control'
    BY SMT DEF IInv, Control, ThreadControl, PassControl, TypeOK
  <1> QED
    BY <1>1, <1>2, <1>3, <1>4 DEF IInv

\* umem_slab_create gets a span from the arena.
LEMMA VmemInv ==
    ASSUME IInv, NEW t \in Threads, VmemAlloc(t)
    PROVE  IInv'
  <1> PICK s \in arena :
        /\ arena' = arena \ {s}
        /\ building' = [building EXCEPT ![t] = {s}]
        /\ slab_state' = [slab_state EXCEPT ![s] = "ACTIVE"]
        /\ slab_idle_time' = [slab_idle_time EXCEPT ![s] = 0]
        /\ slab_refcnt' = [slab_refcnt EXCEPT ![s] = 0]
        /\ slab_head' = [slab_head EXCEPT ![s] = IF hash THEN {} ELSE Chunks]
    BY DEF VmemAlloc
  <1>0. /\ pc[t] = "vmem"
        /\ pc' = [pc EXCEPT ![t] = IF hash THEN "slab_cache" ELSE "insert"]
        /\ UNCHANGED <<avail, before, rank, buftotal, meta, held, upd, to_advise,
                       reclaim_list, destroy_list, life>>
    BY DEF VmemAlloc, listVars, updVars
  <1>1. TypeOK'
    BY <1>0, SMT DEF IInv, TypeOK
  <1>2. s \in SLABS /\ s \notin Linked /\ building[t] = {}
    BY <1>0 DEF IInv, TypeOK, SpanAccounted, Control, ThreadControl
  <1>3. SpanAccounted'
    BY <1>0, <1>2, SMT DEF IInv, SpanAccounted, Linked, TypeOK
  <1>4. RefcntExact' /\ HeldBacked' /\ HeldOnce' /\ FreelistSound' /\ ReclaimStable'
    BY <1>0, <1>2, ListStable DEF IInv, TypeOK, Linked
  <1>5. Control'
    BY <1>0, <1>2, SMT DEF IInv, Control, ThreadControl, PassControl, TypeOK, SpanAccounted, Procs
  <1> QED
    BY <1>1, <1>3, <1>4, <1>5 DEF IInv

\* The slab structure is counted and nothing else changes.
LEMMA ObjectInv ==
    ASSUME IInv, NEW t \in Threads, SlabObject(t)
    PROVE  IInv'
  <1>0. /\ pc[t] = "slab_cache"
        /\ \E s \in building[t] : meta' = [meta EXCEPT ![s] = @ + 1]
        /\ pc' = [pc EXCEPT ![t] = "bufctl"]
        /\ UNCHANGED <<building, arena, avail, before, rank, slab_head,
                       slab_refcnt, slab_state, slab_idle_time, buftotal, held,
                       upd, to_advise, reclaim_list, destroy_list, life>>
    BY DEF SlabObject, listVars, slabVars, updVars
  <1>1. TypeOK'
    BY <1>0, SMT DEF IInv, TypeOK
  <1>2. SpanAccounted'
    BY <1>0 DEF IInv, SpanAccounted, Linked
  <1>3. RefcntExact' /\ HeldBacked' /\ HeldOnce' /\ FreelistSound' /\ ReclaimStable'
    BY <1>0, ListStable
  <1>4. Control'
    <2>1. 0 \in 0 .. (CHUNKS - 1) /\ {} = 1 .. 0
      <3>1. CHUNKS \in Nat \ {0}
        BY SlabConstants
      <3> QED
        BY <3>1, SMT
    <2>2. \A s \in building[t] : \E k \in 0 .. (CHUNKS - 1) : slab_head[s] = 1 .. k
      BY <1>0, <2>1 DEF IInv, Control, ThreadControl
    <2> QED
      BY <1>0, <2>2, SMT DEF IInv, Control, ThreadControl, PassControl, TypeOK
  <1> QED
    BY <1>1, <1>2, <1>3, <1>4 DEF IInv

\* One more chunk of a slab under construction gets its bufctl.
LEMMA BufctlInv ==
    ASSUME IInv, NEW t \in Threads, Bufctl(t)
    PROVE  IInv'
  <1>a. PICK s \in building[t] :
        LET n == Cardinality(slab_head[s]) + 1 IN
        /\ meta' = [meta EXCEPT ![s] = @ + 1]
        /\ slab_head' = [slab_head EXCEPT ![s] = @ \cup {n}]
        /\ pc' = [pc EXCEPT ![t] = IF LastChunk(n) THEN "insert" ELSE "bufctl"]
    BY DEF Bufctl
  <1>0. /\ pc[t] = "bufctl"
        /\ UNCHANGED <<building, arena, avail, before, rank, slab_refcnt,
                       slab_state, slab_idle_time, buftotal, held, upd,
                       to_advise, reclaim_list, destroy_list, life>>
    BY DEF Bufctl, listVars, updVars
  <1>1. s \in SLABS /\ s \notin Linked /\ s \notin arena
    BY DEF IInv, TypeOK, SpanAccounted
  <1>2. PICK k \in 0 .. (CHUNKS - 1) : slab_head[s] = 1 .. k
    BY <1>0 DEF IInv, Control, ThreadControl
  <1>3. Cardinality(slab_head[s]) = k
    <2>1. k \in Nat /\ 1 \in Int /\ k \in Int
      BY <1>2, SlabConstants, SMT
    <2>2. Cardinality(1 .. k) = IF 1 > k THEN 0 ELSE k - 1 + 1
      BY <2>1, FS_Interval
    <2>3. Cardinality(1 .. k) = k
      BY <2>1, <2>2, SMT
    <2> QED
      BY <1>2, <2>3
  <1>4. /\ slab_head' = [slab_head EXCEPT ![s] = 1 .. (k + 1)]
        /\ pc' = [pc EXCEPT ![t] = IF k + 1 = CHUNKS THEN "insert" ELSE "bufctl"]
    <2>1. (1 .. k) \cup {k + 1} = 1 .. (k + 1)
      BY <1>2, SMT
    <2> QED
      BY <1>a, <1>2, <1>3, <2>1 DEF LastChunk
  <1>5. 1 .. (k + 1) \in SUBSET Chunks
    BY <1>2, SlabConstants, SMT DEF Chunks
  <1>6. TypeOK'
    BY <1>a, <1>0, <1>1, <1>4, <1>5, SMT DEF IInv, TypeOK
  <1>7. SpanAccounted'
    BY <1>0 DEF IInv, SpanAccounted, Linked
  <1>8. RefcntExact' /\ HeldBacked' /\ HeldOnce' /\ FreelistSound' /\ ReclaimStable'
    <2>1. \A r \in Linked : slab_head'[r] = slab_head[r]
      BY <1>1, <1>4 DEF IInv, TypeOK, Linked
    <2> QED
      BY <1>0, <2>1, ListStable
  <1>9. Control'
    <2>1. \A r \in building[t] : r = s
      BY DEF IInv, Control, ThreadControl
    <2>2. \A u \in Threads \ {t} : s \notin building[u]
      BY <1>1 DEF IInv, SpanAccounted
    <2>3. k + 1 # CHUNKS => k + 1 \in 0 .. (CHUNKS - 1)
      BY <1>2, SlabConstants, SMT
    <2>4. k + 1 = CHUNKS => 1 .. (k + 1) = Chunks
      BY DEF Chunks
    <2>5. slab_head'[s] = 1 .. (k + 1) /\ \A r \in SLABS \ {s} : slab_head'[r] = slab_head[r]
      BY <1>1, <1>4 DEF IInv, TypeOK
    <2>6. /\ k + 1 = CHUNKS => pc'[t] = "insert"
          /\ k + 1 # CHUNKS => pc'[t] = "bufctl"
          /\ \A u \in Threads \ {t} : pc'[u] = pc[u]
      BY <1>4 DEF IInv, TypeOK
    <2>7. \A u \in Threads \ {t} : \A r \in building[u] : slab_head'[r] = slab_head[r]
      BY <2>2, <2>5, SMT DEF IInv, TypeOK
    <2>8. ThreadControl(t)'
      <3>1. ASSUME pc'[t] = "bufctl"
            PROVE  \E j \in 0 .. (CHUNKS - 1) : slab_head'[s] = 1 .. j
        <4>1. k + 1 # CHUNKS
          BY <2>6, <3>1
        <4>2. k + 1 \in 0 .. (CHUNKS - 1)
          BY <2>3, <4>1
        <4>3. slab_head'[s] = 1 .. (k + 1)
          BY <2>5
        <4> QED
          BY <4>2, <4>3, Zenon
      <3>2. pc'[t] = "insert" => slab_head'[s] = Chunks
        BY <2>4, <2>5, <2>6
      <3>3. pc'[t] \in {"bufctl", "insert"}
        BY <2>6
      <3>4. ThreadControl(t)
        BY DEF IInv, Control
      <3> QED
        BY <1>0, <2>1, <3>1, <3>2, <3>3, <3>4 DEF ThreadControl
    <2>9. \A u \in Threads \ {t} : ThreadControl(u)'
      BY <1>0, <2>6, <2>7, OthersStable
    <2> QED
      BY <1>0, <2>8, <2>9, PassStable DEF Control
  <1> QED
    BY <1>6, <1>7, <1>8, <1>9 DEF IInv

\* The number of objects that go with a slab is an integer.
LEMMA ObjectsType ==
    ASSUME TypeOK, NEW s \in SLABS
    PROVE  ObjectsOf(s) \in Int
  <1>1. IsFiniteSet(Chunks)
    BY FS_Interval, SlabConstants, SMT DEF Chunks
  <1>2. IsFiniteSet(slab_head[s])
    BY <1>1, FS_Subset DEF TypeOK
  <1> QED
    BY <1>2, FS_CardinalityType, SMT DEF ObjectsOf

\* An error path of umem_slab_create gives the span back.
LEMMA CreateFailsInv ==
    ASSUME IInv, NEW t \in Threads, SlabCreateFails(t)
    PROVE  IInv'
  <1>0. /\ pc[t] \in {"vmem", "slab_cache", "bufctl"}
        /\ pc' = [pc EXCEPT ![t] = "idle"]
        /\ building' = [building EXCEPT ![t] = {}]
        /\ arena' = arena \cup building[t]
        /\ slab_head' = [s \in SLABS |->
                           IF s \in building[t] THEN {} ELSE slab_head[s]]
        /\ UNCHANGED <<avail, before, rank, slab_refcnt, slab_state,
                       slab_idle_time, buftotal, held, upd, to_advise,
                       reclaim_list, destroy_list, life>>
    BY DEF SlabCreateFails, GivenBack, listVars, updVars
  <1>1. \A s \in building[t] : s \in SLABS /\ s \notin Linked
    BY DEF IInv, TypeOK, SpanAccounted
  <1>2. TypeOK'
    <2>2. \A s \in SLABS : ObjectsOf(s) \in Int
      BY ObjectsType DEF IInv
    <2>3. meta' \in [SLABS -> Int]
      BY <2>2, SMT DEF SlabCreateFails, IInv, TypeOK
    <2> QED
      BY <1>0, <1>1, <2>3 DEF IInv, TypeOK
  <1>3. SpanAccounted'
    BY <1>0, <1>1, SMTT(30), ZenonT(30) DEF IInv, SpanAccounted, Linked, TypeOK
  <1>4. RefcntExact' /\ HeldBacked' /\ HeldOnce' /\ FreelistSound' /\ ReclaimStable'
    <2>0. Linked \subseteq SLABS
      BY DEF IInv, TypeOK, Linked
    <2>1. \A r \in Linked : slab_head'[r] = slab_head[r]
      BY <1>0, <1>1, <2>0
    <2> QED
      BY <1>0, <2>1, ListStable
  <1>5. Control'
    <2>1. \A u \in Threads \ {t} : \A r \in building[u] : slab_head'[r] = slab_head[r]
      BY <1>0 DEF IInv, TypeOK, SpanAccounted
    <2>2. ThreadControl(t)'
      BY <1>0 DEF IInv, TypeOK, Control, ThreadControl
    <2>3. \A u \in Threads \ {t} : pc'[u] = pc[u] /\ building'[u] = building[u]
      BY <1>0 DEF IInv, TypeOK
    <2>4. \A u \in Threads \ {t} : ThreadControl(u)'
      BY <1>0, <2>1, <2>3, OthersStable
    <2> QED
      BY <1>0, <2>2, <2>4, PassStable DEF Control
  <1> QED
    BY <1>2, <1>3, <1>4, <1>5 DEF IInv

\* umem_slab_destroy moves a span from its destroyer to the arena, and no
\* list and no slab under construction sees it.
LEMMA DestroyMoves ==
    ASSUME IInv, NEW p \in Procs, NEW s, SlabDestroy(p, s), building' = building
    PROVE  /\ s \in SLABS
           /\ meta' \in [SLABS -> Int]
           /\ slab_head' \in [SLABS -> SUBSET Chunks]
           /\ SpanAccounted'
           /\ \A r \in Linked : slab_head'[r] = slab_head[r]
           /\ \A u \in Threads : \A r \in building[u] : slab_head'[r] = slab_head[r]
  <1>1. /\ s \in destroy_list[p]
        /\ destroy_list' = [destroy_list EXCEPT ![p] = @ \ {s}]
        /\ slab_head' = [slab_head EXCEPT ![s] = {}]
        /\ arena' = arena \cup {s}
        /\ avail' = avail /\ before' = before
    BY DEF SlabDestroy, listVars
  <1>2. /\ s \in SLABS /\ s \notin Linked
        /\ \A u \in Threads : s \notin building[u]
    BY <1>1 DEF IInv, TypeOK, SpanAccounted
  <1>3. meta' \in [SLABS -> Int]
    <2>1. meta' = [meta EXCEPT ![s] = IF hash THEN @ - ObjectsOf(s) ELSE @]
      BY DEF SlabDestroy
    <2>2. ObjectsOf(s) \in Int
      BY <1>2, ObjectsType DEF IInv
    <2>3. meta \in [SLABS -> Int]
      BY DEF IInv, TypeOK
    <2>4. meta[s] \in Int /\ meta[s] - ObjectsOf(s) \in Int
      BY <1>2, <2>2, <2>3, SMT
    <2> QED
      BY <2>1, <2>3, <2>4
  <1>4. slab_head' \in [SLABS -> SUBSET Chunks]
    BY <1>1 DEF IInv, TypeOK
  <1>5. SpanAccounted'
    BY <1>1, <1>2, SMT DEF IInv, SpanAccounted, Linked, TypeOK
  <1>6. \A r \in Linked : slab_head'[r] = slab_head[r]
    BY <1>1, <1>2 DEF IInv, TypeOK, Linked
  <1>7. \A u \in Threads : \A r \in building[u] : slab_head'[r] = slab_head[r]
    BY <1>1, <1>2 DEF IInv, TypeOK
  <1> QED
    BY <1>2, <1>3, <1>4, <1>5, <1>6, <1>7

\* umem_slab_free destroys the slab it has unlinked.
LEMMA ThreadDestroysInv ==
    ASSUME IInv, NEW t \in Threads, ThreadDestroys(t)
    PROVE  IInv'
  <1>1. PICK s \in destroy_list[t] : SlabDestroy(t, s)
    BY DEF ThreadDestroys
  <1>2. /\ pc[t] = "destroy"
        /\ pc' = [pc EXCEPT ![t] = "idle"]
        /\ destroy_list' = [destroy_list EXCEPT ![t] = @ \ {s}]
        /\ arena' = arena \cup {s}
        /\ UNCHANGED <<building, avail, before, rank, slab_refcnt, slab_state,
                       slab_idle_time, buftotal, held, upd, to_advise,
                       reclaim_list, life>>
    BY <1>1 DEF ThreadDestroys, SlabDestroy, listVars, updVars
  <1>3. t \in Procs /\ t # "update" /\ t # "destroyer"
    BY SlabConstants DEF Procs
  <1>4. /\ s \in SLABS
        /\ meta' \in [SLABS -> Int]
        /\ slab_head' \in [SLABS -> SUBSET Chunks]
        /\ SpanAccounted'
        /\ \A r \in Linked : slab_head'[r] = slab_head[r]
        /\ \A u \in Threads : \A r \in building[u] : slab_head'[r] = slab_head[r]
    BY <1>1, <1>2, <1>3, DestroyMoves
  <1>5. TypeOK'
    BY <1>2, <1>4 DEF IInv, TypeOK
  <1>6. RefcntExact' /\ HeldBacked' /\ HeldOnce' /\ FreelistSound' /\ ReclaimStable'
    BY <1>2, <1>4, ListStable
  <1>7. ThreadControl(t)'
    <2>1. building[t] = {} /\ \A r \in destroy_list[t] : r = s
      BY <1>2 DEF IInv, Control, ThreadControl
    <2>2. destroy_list'[t] = {} /\ pc'[t] = "idle"
      <3>1. /\ pc \in [Threads -> {"idle", "vmem", "slab_cache", "bufctl",
                                   "insert", "destroy"}]
            /\ destroy_list \in [Procs -> SUBSET SLABS]
        BY DEF IInv, TypeOK
      <3> QED
        BY <1>2, <1>3, <2>1, <3>1
    <2>3. building'[t] = {}
      BY <1>2, <2>1
    <2> QED
      BY <2>2, <2>3 DEF ThreadControl
  <1>8. \A u \in Threads \ {t} : ThreadControl(u)'
    <2>1. \A u \in Threads \ {t} : /\ pc'[u] = pc[u]
                                   /\ destroy_list'[u] = destroy_list[u]
      BY <1>2, <1>3 DEF IInv, TypeOK, Procs
    <2> QED
      BY <1>2, <1>4, <2>1, OthersStable
  <1>9. PassControl'
    <2>1. /\ destroy_list'["update"] = destroy_list["update"]
          /\ destroy_list'["destroyer"] = destroy_list["destroyer"]
      BY <1>2, <1>3 DEF IInv, TypeOK, Procs
    <2>2. PassControl
      BY DEF IInv, Control
    <2> QED
      BY <1>2, <2>1, <2>2 DEF PassControl
  <1> QED
    BY <1>4, <1>5, <1>6, <1>7, <1>8, <1>9 DEF IInv, Control

\* The update thread and umem_cache_destroy destroy a slab they have
\* unlinked.
LEMMA BackgroundDestroysInv ==
    ASSUME IInv, ReclaimDestroy \/ DrainDestroy
    PROVE  IInv'
  <1>1. PICK p \in {"update", "destroyer"} :
          \E s \in destroy_list[p] : SlabDestroy(p, s)
    BY DEF ReclaimDestroy, DrainDestroy
  <1>2. PICK s \in destroy_list[p] : SlabDestroy(p, s)
    BY <1>1
  <1>3. /\ destroy_list' = [destroy_list EXCEPT ![p] = @ \ {s}]
        /\ arena' = arena \cup {s}
        /\ UNCHANGED <<pc, building, avail, before, rank, slab_refcnt,
                       slab_state, slab_idle_time, buftotal, held, upd,
                       to_advise, reclaim_list, life>>
    BY <1>2 DEF ReclaimDestroy, DrainDestroy, SlabDestroy, listVars, updVars,
                threadVars
  <1>4. p \in Procs /\ p \notin Threads
    BY SlabConstants DEF Procs
  <1>5. /\ s \in SLABS
        /\ meta' \in [SLABS -> Int]
        /\ slab_head' \in [SLABS -> SUBSET Chunks]
        /\ SpanAccounted'
        /\ \A r \in Linked : slab_head'[r] = slab_head[r]
        /\ \A u \in Threads : \A r \in building[u] : slab_head'[r] = slab_head[r]
    BY <1>2, <1>3, <1>4, DestroyMoves
  <1>6. TypeOK'
    BY <1>3, <1>5 DEF IInv, TypeOK
  <1>7. RefcntExact' /\ HeldBacked' /\ HeldOnce' /\ FreelistSound' /\ ReclaimStable'
    BY <1>3, <1>5, ListStable
  <1>8. \A u \in Threads : ThreadControl(u)'
    <2>1. \A u \in Threads : destroy_list'[u] = destroy_list[u]
      BY <1>3, <1>4 DEF IInv, TypeOK, Procs
    <2> QED
      BY <1>3, <1>5, <2>1, OthersStable
  <1>9. PassControl'
    BY <1>3 DEF IInv, TypeOK, Control, PassControl, Procs
  <1> QED
    BY <1>5, <1>6, <1>7, <1>8, <1>9 DEF IInv, Control

-----------------------------------------------------------------------------
(* umem_slab_alloc, from the list or with a new slab.                      *)

\* Popping a buffer from slab sp, be it one of the list or a new one: the
\* counts stay exact, the buffer was nobody's, and moving cache_freelist past
\* sp leaves only empty slabs behind.
LEMMA TakeStable ==
    ASSUME IInv, NEW sp \in SLABS, NEW av, NEW rk, TakeFrom(sp, av, rk),
           av = avail \cup {sp}, sp \notin before, sp \notin reclaim_list,
           rk \in [SLABS -> Nat \ {0}],
           \A r, s \in SLABS : rk[r] = rk[s] => r = s,
           slab_head[sp] = Chunks \ HeldOf(sp),
           slab_refcnt[sp] = Cardinality(HeldOf(sp)),
           \A r \in av : rk[r] < rk[sp] => slab_refcnt[r] = 0,
           reclaim_list' = reclaim_list
    PROVE  /\ Linked' = Linked \cup {sp}
           /\ \A s : ~(s \in avail' /\ s \in before')
           /\ avail' \in SUBSET SLABS /\ before' \in SUBSET SLABS
           /\ slab_head' \in [SLABS -> SUBSET Chunks]
           /\ held' \in [Buffers -> Nat]
           /\ \A r \in SLABS \ {sp} : slab_head'[r] = slab_head[r]
           /\ RefcntExact' /\ HeldBacked' /\ HeldOnce' /\ FreelistSound'
           /\ ReclaimStable'
  <1>1. PICK i \in slab_head[sp] :
          /\ slab_head' = [slab_head EXCEPT ![sp] = @ \ {i}]
          /\ held' = [held EXCEPT ![<<sp, i>>] = @ + 1]
          /\ IF slab_head[sp] = {i}
             THEN /\ avail' = {s \in av : rk[s] > rk[sp]}
                  /\ before' = before \cup {s \in av : rk[s] <= rk[sp]}
             ELSE /\ avail' = av
                  /\ before' = before
    BY DEF TakeFrom, Popped
  <1>2. /\ slab_state' = [slab_state EXCEPT ![sp] = "ACTIVE"]
        /\ slab_refcnt' = [slab_refcnt EXCEPT ![sp] = @ + 1]
    BY DEF TakeFrom
  <1>3. i \in Chunks /\ held[<<sp, i>>] = 0 /\ <<sp, i>> \in Buffers
    <2>1. i \in Chunks /\ i \notin HeldOf(sp)
      BY <1>1
    <2>2. <<sp, i>> \in Buffers
      BY <2>1 DEF Buffers
    <2>3. held[<<sp, i>>] \in Nat
      BY <2>2 DEF IInv, TypeOK
    <2> QED
      BY <2>1, <2>2, <2>3, SMT DEF HeldOf
  <1>4. /\ av \in SUBSET SLABS /\ before \in SUBSET SLABS
        /\ \A r \in av : rk[r] <= rk[sp] => r = sp \/ slab_refcnt[r] = 0
    BY SMT DEF IInv, TypeOK
  <1>5. Linked' = Linked \cup {sp}
    BY <1>1, <1>4, SMT DEF Linked
  <1>6. \A s : ~(s \in avail' /\ s \in before')
    BY <1>1, <1>4, SMT DEF IInv, SpanAccounted
  <1>7. avail' \in SUBSET SLABS /\ before' \in SUBSET SLABS
    BY <1>1, <1>4
  <1>8. /\ slab_head' \in [SLABS -> SUBSET Chunks]
        /\ slab_head'[sp] = slab_head[sp] \ {i}
        /\ \A r \in SLABS \ {sp} : slab_head'[r] = slab_head[r]
    BY <1>1 DEF IInv, TypeOK
  <1>9. held' \in [Buffers -> Nat]
    BY <1>1, <1>3, SMT DEF IInv, TypeOK
  <1>10. /\ HeldOf(sp)' = HeldOf(sp) \cup {i}
         /\ Cardinality(HeldOf(sp)') = Cardinality(HeldOf(sp)) + 1
         /\ \A r \in SLABS \ {sp} : HeldOf(r)' = HeldOf(r)
    BY <1>1, <1>3, HeldOfAdd DEF IInv, TypeOK
  <1>11. /\ slab_refcnt'[sp] = slab_refcnt[sp] + 1
         /\ \A r \in SLABS \ {sp} : slab_refcnt'[r] = slab_refcnt[r]
         /\ slab_state'[sp] = "ACTIVE"
         /\ \A r \in SLABS \ {sp} : slab_state'[r] = slab_state[r]
    BY <1>2 DEF IInv, TypeOK
  <1>12. RefcntExact'
    <2>1. slab_head'[sp] = Chunks \ HeldOf(sp)'
      BY <1>8, <1>10
    <2>2. slab_refcnt'[sp] = Cardinality(HeldOf(sp)')
      BY <1>10, <1>11
    <2>3. ASSUME NEW s \in Linked \ {sp}
          PROVE  /\ slab_head'[s] = Chunks \ HeldOf(s)'
                 /\ slab_refcnt'[s] = Cardinality(HeldOf(s)')
      <3>1. s \in SLABS \ {sp}
        BY DEF IInv, TypeOK, Linked
      <3>2. /\ slab_head[s] = Chunks \ HeldOf(s)
            /\ slab_refcnt[s] = Cardinality(HeldOf(s))
        BY DEF IInv, RefcntExact
      <3>3. HeldOf(s)' = HeldOf(s)
        BY <1>10, <3>1
      <3>4. slab_head'[s] = slab_head[s] /\ slab_refcnt'[s] = slab_refcnt[s]
        BY <1>8, <1>11, <3>1
      <3> QED
        BY <3>2, <3>3, <3>4
    <2> QED
      BY <1>5, <2>1, <2>2, <2>3 DEF RefcntExact
  <1>13. HeldBacked' /\ HeldOnce'
    <2>1. \A b \in Buffers : held'[b] = IF b = <<sp, i>> THEN 1 ELSE held[b]
      BY <1>1, <1>3, SMT DEF IInv, TypeOK
    <2>2. \A b \in Buffers : held[b] <= 1 /\ (held[b] > 0 => b[1] \in Linked)
      BY DEF IInv, HeldBacked, HeldOnce
    <2>3. HeldBacked'
      <3> SUFFICES ASSUME NEW b \in Buffers, held'[b] > 0
                   PROVE  b[1] \in Linked'
        BY DEF HeldBacked
      <3>1. CASE b = <<sp, i>>
        BY <1>5, <3>1
      <3>2. CASE b # <<sp, i>>
        BY <1>5, <2>1, <2>2, <3>2
      <3> QED
        BY <3>1, <3>2
    <2>4. HeldOnce'
      BY <2>1, <2>2, SMT DEF HeldOnce
    <2> QED
      BY <2>3, <2>4
  <1>14. FreelistSound'
    <2>1. /\ \A s \in avail : slab_head[s] # {}
          /\ \A s \in before : slab_head[s] # {} => slab_refcnt[s] = 0
      BY DEF IInv, FreelistSound
    <2>2. sp \in avail' => slab_head[sp] # {i}
      BY <1>1, <1>4, SMT
    <2>3. sp \in before' => slab_head[sp] = {i}
      BY <1>1
    <2>4. ASSUME NEW s \in avail' PROVE slab_head'[s] # {}
      <3>1. CASE s = sp
        BY <1>1, <1>8, <2>2, <3>1
      <3>2. CASE s # sp
        BY <1>1, <1>7, <1>8, <2>1, <3>2, SMT
      <3> QED
        BY <3>1, <3>2
    <2>5. ASSUME NEW s \in before', slab_head'[s] # {} PROVE slab_refcnt'[s] = 0
      <3>1. s # sp
        BY <1>8, <2>3, <2>5
      <3>2. slab_head'[s] = slab_head[s] /\ slab_refcnt'[s] = slab_refcnt[s]
        BY <1>7, <1>8, <1>11, <3>1
      <3>3. s \in before \/ (s \in av /\ rk[s] <= rk[sp])
        BY <1>1
      <3> QED
        BY <1>4, <2>1, <2>5, <3>1, <3>2, <3>3
    <2> QED
      BY <2>4, <2>5 DEF FreelistSound
  <1>15. ReclaimStable'
    BY <1>5, <1>11, SMT DEF IInv, TypeOK, ReclaimStable
  <1> QED
    BY <1>5, <1>6, <1>7, <1>8, <1>9, <1>12, <1>13, <1>14, <1>15

\* umem_slab_alloc finds a slab: the ones it skips are RECLAIMING, so empty.
LEMMA AllocInv ==
    ASSUME IInv, NEW t \in Threads, SlabAlloc(t)
    PROVE  IInv'
  <1>1. PICK sp \in Usable : IsFirst(sp, Usable) /\ TakeFrom(sp, avail, rank)
    BY DEF SlabAlloc
  <1>2. /\ rank' = rank
        /\ slab_state' = [slab_state EXCEPT ![sp] = "ACTIVE"]
        /\ slab_idle_time' = [slab_idle_time EXCEPT ![sp] = 0]
        /\ slab_refcnt' = [slab_refcnt EXCEPT ![sp] = @ + 1]
        /\ UNCHANGED <<pc, building, arena, buftotal, meta, upd, to_advise,
                       reclaim_list, destroy_list, life>>
    BY <1>1 DEF SlabAlloc, TakeFrom, updVars
  <1>3. /\ sp \in SLABS /\ sp \in avail /\ sp \in Linked /\ sp \notin before
        /\ slab_state[sp] # "RECLAIMING"
    BY DEF IInv, TypeOK, Usable, SpanAccounted, Linked
  <1>4. sp \notin reclaim_list
    BY <1>3 DEF IInv, ReclaimStable
  <1>5. \A r \in avail : rank[r] < rank[sp] => slab_refcnt[r] = 0
    <2> SUFFICES ASSUME NEW r \in avail, rank[r] < rank[sp]
                 PROVE  slab_refcnt[r] = 0
      OBVIOUS
    <2>1. r \in SLABS /\ rank[r] \in Nat /\ rank[sp] \in Nat
      BY <1>3 DEF IInv, TypeOK
    <2>a. \A q \in Usable : rank[sp] <= rank[q]
      BY <1>1 DEF IsFirst
    <2>2. r \notin Usable
      BY <2>1, <2>a, SMT
    <2>3. slab_state[r] = "RECLAIMING"
      BY <2>2 DEF Usable, IInv, FreelistSound
    <2> QED
      BY <2>1, <2>3 DEF IInv, ReclaimStable, Linked
  <1>6. /\ slab_head[sp] = Chunks \ HeldOf(sp)
        /\ slab_refcnt[sp] = Cardinality(HeldOf(sp))
    BY <1>3 DEF IInv, RefcntExact
  <1>7. /\ Linked' = Linked \cup {sp}
        /\ \A s : ~(s \in avail' /\ s \in before')
        /\ avail' \in SUBSET SLABS /\ before' \in SUBSET SLABS
        /\ slab_head' \in [SLABS -> SUBSET Chunks]
        /\ held' \in [Buffers -> Nat]
        /\ \A r \in SLABS \ {sp} : slab_head'[r] = slab_head[r]
        /\ RefcntExact' /\ HeldBacked' /\ HeldOnce' /\ FreelistSound'
        /\ ReclaimStable'
    <2>1. avail = avail \cup {sp}
      BY <1>3
    <2>2. /\ rank \in [SLABS -> Nat \ {0}]
          /\ \A r, s \in SLABS : rank[r] = rank[s] => r = s
      BY DEF IInv, TypeOK
    <2>3. reclaim_list' = reclaim_list
      BY <1>2
    <2> QED
      BY <1>1, <1>3, <1>4, <1>5, <1>6, <2>1, <2>2, <2>3, TakeStable
  <1>8. TypeOK'
    <2>1. /\ slab_refcnt' \in [SLABS -> Int]
          /\ slab_state' \in [SLABS -> {"ACTIVE", "DIRTY", "CLEAN", "RECLAIMING"}]
          /\ slab_idle_time' \in [SLABS -> Nat]
      <3>1. /\ slab_refcnt \in [SLABS -> Int]
            /\ slab_state \in [SLABS -> {"ACTIVE", "DIRTY", "CLEAN", "RECLAIMING"}]
            /\ slab_idle_time \in [SLABS -> Nat]
        BY DEF IInv, TypeOK
      <3>2. slab_refcnt[sp] + 1 \in Int
        BY <1>3, <3>1, SMT
      <3> QED
        BY <1>2, <3>1, <3>2
    <2>2. /\ rank' \in [SLABS -> Nat \ {0}]
          /\ \A r, s \in SLABS : rank'[r] = rank'[s] => r = s
      BY <1>2 DEF IInv, TypeOK
    <2> QED
      BY <1>2, <1>7, <2>1, <2>2 DEF IInv, TypeOK
  <1>9. SpanAccounted'
    <2>1. Linked' = Linked
      BY <1>3, <1>7
    <2> QED
      BY <1>2, <1>7, <2>1 DEF IInv, SpanAccounted
  <1>10. \A u \in Threads : ThreadControl(u)'
    <2>1. \A u \in Threads : sp \notin building[u]
      BY <1>3 DEF IInv, SpanAccounted
    <2>2. \A u \in Threads : \A s \in building[u] :
             /\ slab_head'[s] = slab_head[s]
             /\ slab_refcnt'[s] = slab_refcnt[s]
             /\ slab_state'[s] = slab_state[s]
      BY <1>2, <1>3, <1>7, <2>1, SMTT(30), ZenonT(30) DEF IInv, TypeOK
    <2> QED
      BY <1>2, <2>2, OthersStable
  <1>11. PassControl'
    BY <1>2, PassStable
  <1> QED
    BY <1>7, <1>8, <1>9, <1>10, <1>11 DEF IInv, Control

\* umem_slab_alloc links the slab it has created and pops its first buffer:
\* nobody can have one of its buffers, since none was linked.
LEMMA InsertInv ==
    ASSUME IInv, NEW t \in Threads, SlabInsert(t)
    PROVE  IInv'
  <1>1. PICK sp \in building[t] : TakeFrom(sp, avail \cup {sp}, RankToFront(sp))
    BY DEF SlabInsert
  <1>2. /\ pc[t] = "insert"
        /\ pc' = [pc EXCEPT ![t] = "idle"]
        /\ building' = [building EXCEPT ![t] = {}]
        /\ buftotal' = buftotal + CHUNKS
        /\ rank' = RankToFront(sp)
        /\ slab_state' = [slab_state EXCEPT ![sp] = "ACTIVE"]
        /\ slab_idle_time' = [slab_idle_time EXCEPT ![sp] = 0]
        /\ slab_refcnt' = [slab_refcnt EXCEPT ![sp] = @ + 1]
        /\ UNCHANGED <<arena, meta, upd, to_advise, reclaim_list, destroy_list,
                       life>>
    BY <1>1 DEF SlabInsert, TakeFrom, updVars
  <1>3. /\ sp \in SLABS /\ sp \notin Linked /\ sp \notin arena
        /\ \A u \in Threads \ {t} : sp \notin building[u]
        /\ \A p \in Procs : sp \notin destroy_list[p]
    BY DEF IInv, TypeOK, SpanAccounted
  <1>4. sp \notin reclaim_list /\ sp \notin before
    BY <1>3 DEF IInv, ReclaimStable, Linked
  <1>5. /\ slab_head[sp] = Chunks /\ slab_refcnt[sp] = 0
        /\ building[t] = {sp}
    BY <1>2 DEF IInv, Control, ThreadControl
  <1>6. /\ slab_head[sp] = Chunks \ HeldOf(sp)
        /\ slab_refcnt[sp] = Cardinality(HeldOf(sp))
    <2>1. ASSUME NEW i \in Chunks PROVE ~(held[<<sp, i>>] > 0)
      <3>1. <<sp, i>> \in Buffers
        BY <1>3 DEF Buffers
      <3> QED
        BY <1>3, <3>1 DEF IInv, HeldBacked
    <2>2. HeldOf(sp) = {}
      BY <2>1 DEF HeldOf
    <2> QED
      BY <1>5, <2>2, FS_EmptySet
  <1>7. /\ RankToFront(sp) \in [SLABS -> Nat \ {0}]
        /\ \A q, r \in SLABS : RankToFront(sp)[q] = RankToFront(sp)[r] => q = r
        /\ \A r \in SLABS \ {sp} : RankToFront(sp)[r] > RankToFront(sp)[sp]
    BY <1>3, FrontFirst DEF IInv, TypeOK
  <1>8. /\ Linked' = Linked \cup {sp}
        /\ \A s : ~(s \in avail' /\ s \in before')
        /\ avail' \in SUBSET SLABS /\ before' \in SUBSET SLABS
        /\ slab_head' \in [SLABS -> SUBSET Chunks]
        /\ held' \in [Buffers -> Nat]
        /\ \A r \in SLABS \ {sp} : slab_head'[r] = slab_head[r]
        /\ RefcntExact' /\ HeldBacked' /\ HeldOnce' /\ FreelistSound'
        /\ ReclaimStable'
    <2>1. \A r \in avail \cup {sp} :
             RankToFront(sp)[r] < RankToFront(sp)[sp] => slab_refcnt[r] = 0
      BY <1>3, <1>7, SMT DEF IInv, TypeOK
    <2>2. reclaim_list' = reclaim_list
      BY <1>2
    <2> QED
      BY <1>1, <1>3, <1>4, <1>6, <1>7, <2>1, <2>2, TakeStable
  <1>9. TypeOK'
    <2>1. /\ slab_refcnt' \in [SLABS -> Int]
          /\ slab_state' \in [SLABS -> {"ACTIVE", "DIRTY", "CLEAN", "RECLAIMING"}]
          /\ slab_idle_time' \in [SLABS -> Nat]
      <3>1. /\ slab_refcnt \in [SLABS -> Int]
            /\ slab_state \in [SLABS -> {"ACTIVE", "DIRTY", "CLEAN", "RECLAIMING"}]
            /\ slab_idle_time \in [SLABS -> Nat]
        BY DEF IInv, TypeOK
      <3>2. slab_refcnt[sp] + 1 \in Int
        BY <1>3, <3>1, SMT
      <3> QED
        BY <1>2, <3>1, <3>2
    <2>2. buftotal' \in Int
      BY <1>2, SlabConstants, SMT DEF IInv, TypeOK
    <2>3. /\ rank' \in [SLABS -> Nat \ {0}]
          /\ \A r, s \in SLABS : rank'[r] = rank'[s] => r = s
      BY <1>2, <1>7
    <2> QED
      BY <1>2, <1>8, <2>1, <2>2, <2>3 DEF IInv, TypeOK
  <1>10. SpanAccounted'
    <2>1. building'[t] = {} /\ \A u \in Threads \ {t} : building'[u] = building[u]
      BY <1>2 DEF IInv, TypeOK
    <2>2. SpanAccounted
      BY DEF IInv
    <2>3. ASSUME NEW r \in SLABS
          PROVE  /\ r \in Linked' <=> r = sp \/ r \in Linked
                 /\ r \in building'[t] <=> FALSE
                 /\ r \in building[t] <=> r = sp
      BY <1>5, <1>8, <2>1
    <2>4. /\ \A r \in SLABS : ~(r \in avail' /\ r \in before')
          /\ arena' = arena /\ destroy_list' = destroy_list
      BY <1>2, <1>8
    <2> SUFFICES ASSUME NEW r \in SLABS
                 PROVE  /\ \/ r \in arena \cup Linked'
                           \/ \E u \in Threads : r \in building'[u]
                           \/ \E p \in Procs : r \in destroy_list[p]
                        /\ ~(r \in arena /\ r \in Linked')
                        /\ \A u \in Threads : r \in building'[u] =>
                             /\ r \notin arena \cup Linked'
                             /\ \A v \in Threads \ {u} : r \notin building'[v]
                             /\ \A p \in Procs : r \notin destroy_list[p]
                        /\ \A p \in Procs : r \in destroy_list[p] =>
                             /\ r \notin arena \cup Linked'
                             /\ \A q \in Procs \ {p} : r \notin destroy_list[q]
      BY <2>4 DEF SpanAccounted
    <2>5. CASE r = sp
      BY <1>3, <2>1, <2>3, <2>5
    <2>6. CASE r # sp
      <3>1. \A u \in Threads : r \in building'[u] <=> r \in building[u]
        BY <2>1, <2>3, <2>6
      <3>2. r \in Linked' <=> r \in Linked
        BY <2>3, <2>6
      <3> QED
        BY <2>2, <3>1, <3>2 DEF SpanAccounted
    <2> QED
      BY <2>5, <2>6
  <1>11. ThreadControl(t)'
    <2>1. building'[t] = {} /\ pc'[t] = "idle"
      BY <1>2 DEF IInv, TypeOK
    <2>2. destroy_list'[t] = {}
      BY <1>2, SMTT(30), ZenonT(30) DEF IInv, Control, ThreadControl
    <2> QED
      BY <2>1, <2>2 DEF ThreadControl
  <1>12. \A u \in Threads \ {t} : ThreadControl(u)'
    <2>1. \A u \in Threads \ {t} : \A s \in building[u] :
             /\ slab_head'[s] = slab_head[s]
             /\ slab_refcnt'[s] = slab_refcnt[s]
             /\ slab_state'[s] = slab_state[s]
      BY <1>2, <1>3, <1>8 DEF IInv, TypeOK
    <2>2. \A u \in Threads \ {t} : pc'[u] = pc[u] /\ building'[u] = building[u]
      BY <1>2 DEF IInv, TypeOK
    <2> QED
      BY <1>2, <2>1, <2>2, OthersStable
  <1>13. PassControl'
    BY <1>2, PassStable
  <1> QED
    BY <1>8, <1>9, <1>10, <1>11, <1>12, <1>13 DEF IInv, Control

-----------------------------------------------------------------------------
(* umem_slab_free, a reclaim pass and umem_cache_destroy, the steps that   *)
(* take slabs off the list.                                                *)

\* Unlinking slabs without outstanding buffers, by the reclaim pass or the
\* drain, leaves the other slabs' counts and lists right.
LEMMA UnlinkStable ==
    ASSUME IInv, NEW S, S \in SUBSET {s \in Linked : slab_refcnt[s] = 0},
           held' = held, avail' = avail \ S, before' = before \ S,
           slab_head' = slab_head, slab_refcnt' = slab_refcnt
    PROVE  RefcntExact' /\ HeldBacked' /\ HeldOnce' /\ FreelistSound'
  <1>1. \A s : HeldOf(s)' = HeldOf(s)
    BY DEF HeldOf
  <1>2. Linked' = Linked \ S
    BY DEF Linked
  <1>3. RefcntExact'
    BY <1>1, <1>2 DEF IInv, RefcntExact
  <1>4. HeldBacked'
    <2> SUFFICES ASSUME NEW b \in Buffers, held[b] > 0, b[1] \in S
                 PROVE  FALSE
      BY <1>2 DEF IInv, HeldBacked
    <2>1. HeldOf(b[1]) = {}
      BY EmptyUnheld DEF IInv
    <2>2. b[2] \in HeldOf(b[1])
      BY SMT DEF HeldOf, Buffers
    <2> QED
      BY <2>1, <2>2
  <1>5. HeldOnce'
    BY DEF IInv, HeldOnce
  <1>6. FreelistSound'
    BY DEF IInv, FreelistSound
  <1> QED
    BY <1>3, <1>4, <1>5, <1>6

\* The locked walk of a reclaim pass.
LEMMA WalkInv ==
    ASSUME IInv, ReclaimWalk
    PROVE  IInv'
  <1>0. /\ life = "live" /\ upd = "idle" /\ upd' = "advise"
        /\ slab_state' = [s \in SLABS |-> IF s \in ToReclaim THEN "RECLAIMING"
                                          ELSE slab_state[s]]
        /\ reclaim_list' = ToReclaim
        /\ to_advise' = ToReclaim
        /\ avail' = avail \ ToDestroy
        /\ before' = before \ ToDestroy
        /\ destroy_list' = [destroy_list EXCEPT !["update"] = ToDestroy]
        /\ UNCHANGED <<pc, building, arena, rank, slab_head, slab_refcnt, meta,
                       held, life>>
    BY DEF ReclaimWalk, threadVars
  <1>1. /\ ToDestroy \in SUBSET {s \in Linked : slab_refcnt[s] = 0}
        /\ \A s \in ToDestroy : slab_state[s] = "CLEAN"
        /\ ToReclaim \in SUBSET {s \in Linked : slab_refcnt[s] = 0}
        /\ \A s \in ToReclaim : slab_state[s] = "DIRTY"
    BY DEF ToDestroy, ToReclaim
  <1>2. Linked \in SUBSET SLABS
    BY DEF IInv, TypeOK, Linked
  <1>3. "update" \in Procs /\ "update" \notin Threads
        /\ "destroyer" \in Procs /\ destroy_list["update"] = {} /\ reclaim_list = {}
    BY <1>0, SlabConstants DEF Procs, IInv, Control, PassControl
  <1>4. TypeOK'
    <2>1. buftotal' \in Int
      <3>1. IsFiniteSet(ToDestroy)
        BY <1>1, <1>2, SlabConstants, FS_Subset
      <3>2. Cardinality(ToDestroy) \in Nat
        BY <3>1, FS_CardinalityType
      <3> QED
        BY <3>2, SlabConstants, SMT DEF ReclaimWalk, TotalWithout, IInv, TypeOK
    <2>2. slab_idle_time' \in [SLABS -> Nat]
      BY SlabConstants, SMT DEF ReclaimWalk, Aged, IInv, TypeOK
    <2> QED
      BY <1>0, <1>1, <1>2, <1>3, <2>1, <2>2 DEF IInv, TypeOK
  <1>5. SpanAccounted'
    <2>1. Linked' = Linked \ ToDestroy
      BY <1>0 DEF Linked
    <2>2. destroy_list'["update"] = ToDestroy
      BY <1>0, <1>3 DEF IInv, TypeOK
    <2>3. \A p \in Procs \ {"update"} : destroy_list'[p] = destroy_list[p]
      BY <1>0 DEF IInv, TypeOK
    <2>4. ToDestroy \subseteq Linked
      BY <1>1
    <2>5. SpanAccounted
      BY DEF IInv
    <2>6. avail' \subseteq avail /\ before' \subseteq before
          /\ building' = building /\ arena' = arena
      BY <1>0
    <2> QED
      <3>1. \A s \in SLABS : ~(s \in avail' /\ s \in before')
        BY <2>5, <2>6 DEF SpanAccounted
      <3> QED
        BY <1>3, <2>1, <2>2, <2>3, <2>4, <2>5, <2>6, <3>1, UnlinkAccounted
  <1>6. RefcntExact' /\ HeldBacked' /\ HeldOnce' /\ FreelistSound'
    BY <1>0, <1>1, UnlinkStable
  <1>7. ReclaimStable'
    <2>1. Linked' = Linked \ ToDestroy
      BY <1>0 DEF Linked
    <2> QED
      BY <1>0, <1>1, <1>2, <1>3, <2>1 DEF IInv, ReclaimStable, TypeOK
  <1>8. \A u \in Threads : ThreadControl(u)'
    <2>1. \A u \in Threads : destroy_list'[u] = destroy_list[u]
      BY <1>0, <1>3 DEF IInv, TypeOK, Procs
    <2>2. \A u \in Threads : \A s \in building[u] : slab_state'[s] = slab_state[s]
      BY <1>0, <1>1 DEF IInv, TypeOK, SpanAccounted
    <2> QED
      BY <1>0, <2>1, <2>2, OthersStable
  <1>9. PassControl'
    BY <1>0, <1>3 DEF IInv, TypeOK, Control, PassControl
  <1> QED
    BY <1>4, <1>5, <1>6, <1>7, <1>8, <1>9 DEF IInv, Control

\* The madvise, outside the lock: free lists survive it, because a cache
\* whose links are in its buffers is not advised at all.
LEMMA AdviseInv ==
    ASSUME IInv, ReclaimAdvise
    PROVE  IInv'
  <1>1. slab_head' = slab_head
    BY SlabConstants DEF ReclaimAdvise, KeepsMetadata, HeadsWithout
  <1>2. /\ to_advise' \in SUBSET to_advise
        /\ UNCHANGED <<pc, building, arena, avail, before, rank, slab_refcnt,
                       slab_state, slab_idle_time, buftotal, meta, held, upd,
                       reclaim_list, destroy_list, life>>
    BY DEF ReclaimAdvise, threadVars, listVars
  <1>3. TypeOK'
    BY <1>1, <1>2 DEF IInv, TypeOK
  <1>4. SpanAccounted'
    BY <1>2 DEF IInv, SpanAccounted, Linked
  <1>5. RefcntExact' /\ HeldBacked' /\ HeldOnce' /\ FreelistSound' /\ ReclaimStable'
    BY <1>1, <1>2, ListStable
  <1>6. Control'
    BY <1>1, <1>2, SMT DEF IInv, Control, ThreadControl, PassControl
  <1> QED
    BY <1>3, <1>4, <1>5, <1>6 DEF IInv

\* The advised slabs become CLEAN: they are the RECLAIMING ones, all of them.
LEMMA PublishInv ==
    ASSUME IInv, ReclaimPublish
    PROVE  IInv'
  <1>0. /\ upd' = "idle"
        /\ destroy_list["update"] = {}
        /\ slab_state' = [s \in SLABS |-> IF s \in reclaim_list THEN "CLEAN"
                                          ELSE slab_state[s]]
        /\ reclaim_list' = {}
        /\ UNCHANGED <<pc, building, arena, avail, before, rank, slab_head,
                       slab_refcnt, slab_idle_time, buftotal, meta, held,
                       to_advise, destroy_list, life>>
    BY DEF ReclaimPublish, threadVars, listVars
  <1>1. TypeOK'
    BY <1>0 DEF IInv, TypeOK
  <1>2. SpanAccounted'
    BY <1>0 DEF IInv, SpanAccounted, Linked
  <1>3. RefcntExact'
    BY <1>0 DEF IInv, RefcntExact, HeldOf, Linked
  <1>4. HeldBacked' /\ HeldOnce' /\ FreelistSound'
    BY <1>0 DEF IInv, HeldBacked, HeldOnce, FreelistSound, Linked
  <1>5. ReclaimStable'
    BY <1>0 DEF IInv, ReclaimStable, Linked
  <1>6. \A u \in Threads : ThreadControl(u)'
    <2>1. \A s \in reclaim_list : s \in Linked
      BY DEF IInv, ReclaimStable
    <2>2. \A u \in Threads : \A s \in building[u] : slab_state'[s] = slab_state[s]
      BY <1>0, <2>1 DEF IInv, TypeOK, SpanAccounted
    <2> QED
      BY <1>0, <2>2, OthersStable
  <1>7. PassControl'
    BY <1>0 DEF IInv, Control, PassControl
  <1> QED
    BY <1>1, <1>2, <1>3, <1>4, <1>5, <1>6, <1>7 DEF IInv, Control

\* umem_cache_destroy: off the list, and gone when the drain is over.
LEMMA LifeInv ==
    ASSUME IInv, CacheUnlink \/ DrainDone
    PROVE  IInv'
  <1>0. /\ life' \in {"unlinked", "gone"}
        /\ upd = "idle"
        /\ life' = "unlinked" => destroy_list["destroyer"] = {}
        /\ UNCHANGED <<pc, building, arena, avail, before, rank, slab_head,
                       slab_refcnt, slab_state, slab_idle_time, buftotal, meta,
                       held, upd, to_advise, reclaim_list, destroy_list>>
    BY DEF CacheUnlink, DrainDone, threadVars, listVars, slabVars, updVars,
           IInv, Control, PassControl
  <1>1. TypeOK'
    BY <1>0 DEF IInv, TypeOK
  <1>2. SpanAccounted'
    BY <1>0 DEF IInv, SpanAccounted, Linked
  <1>3. RefcntExact' /\ HeldBacked' /\ HeldOnce' /\ FreelistSound' /\ ReclaimStable'
    BY <1>0, ListStable
  <1>4. Control'
    BY <1>0, SMT DEF IInv, Control, ThreadControl, PassControl
  <1> QED
    BY <1>1, <1>2, <1>3, <1>4 DEF IInv

\* umem_cache_drain_slabs unlinks every slab with no buffer out.
LEMMA CollectInv ==
    ASSUME IInv, DrainCollect
    PROVE  IInv'
  <1>0. /\ life = "unlinked" /\ life' = "draining"
        /\ avail' = avail \ Empty
        /\ before' = before \ Empty
        /\ destroy_list' = [destroy_list EXCEPT !["destroyer"] = Empty]
        /\ UNCHANGED <<pc, building, arena, rank, slab_head, slab_refcnt,
                       slab_state, slab_idle_time, meta, held, upd, to_advise,
                       reclaim_list>>
    BY DEF DrainCollect, threadVars, slabVars, updVars
  <1>1. Empty \in SUBSET {s \in Linked : slab_refcnt[s] = 0}
    BY DEF Empty
  <1>2. Linked \in SUBSET SLABS
    BY DEF IInv, TypeOK, Linked
  <1>3. /\ "destroyer" \in Procs /\ "destroyer" \notin Threads
        /\ "update" \in Procs /\ destroy_list["destroyer"] = {}
        /\ upd = "idle" /\ reclaim_list = {}
    BY <1>0, SlabConstants DEF Procs, IInv, Control, PassControl
  <1>4. TypeOK'
    <2>1. buftotal' \in Int
      <3>1. IsFiniteSet(Empty)
        BY <1>1, <1>2, SlabConstants, FS_Subset
      <3>2. Cardinality(Empty) \in Nat
        BY <3>1, FS_CardinalityType
      <3> QED
        BY <3>2, SlabConstants, SMT DEF DrainCollect, TotalWithout, IInv, TypeOK
    <2> QED
      BY <1>0, <1>1, <1>2, <1>3, <2>1 DEF IInv, TypeOK
  <1>5. Linked' = Linked \ Empty
    BY <1>0 DEF Linked
  <1>6. SpanAccounted'
    <2>1. \A p \in Procs : destroy_list'[p] = IF p = "destroyer" THEN Empty
                                              ELSE destroy_list[p]
      BY <1>0 DEF IInv, TypeOK
    <2> QED
      BY <1>0, <1>1, <1>2, <1>3, <1>5, <2>1, SMT DEF IInv, SpanAccounted
  <1>7. RefcntExact' /\ HeldBacked' /\ HeldOnce' /\ FreelistSound'
    BY <1>0, <1>1, UnlinkStable
  <1>8. ReclaimStable'
    BY <1>0, <1>3, <1>5 DEF IInv, ReclaimStable
  <1>9. \A u \in Threads : ThreadControl(u)'
    <2>1. \A u \in Threads : destroy_list'[u] = destroy_list[u]
      BY <1>0, <1>3 DEF IInv, TypeOK, Procs
    <2> QED
      BY <1>0, <2>1, OthersStable
  <1>10. PassControl'
    BY <1>0, <1>3 DEF IInv, TypeOK, Control, PassControl
  <1> QED
    BY <1>4, <1>6, <1>7, <1>8, <1>9, <1>10 DEF IInv, Control

\* umem_slab_free: a slab without free buffers is in front of cache_freelist
\* and goes to its front; a slab that becomes empty is kept, or unlinked for
\* this thread to destroy.
LEMMA FreeInv ==
    ASSUME IInv, NEW t \in Threads, SlabFree(t)
    PROVE  IInv'
  <1> DEFINE relink(s) == OffFreelist(s)
             last(s) == LastOut(s)
             gone(s) == last(s) /\ ~reclaim
             av(s) == IF relink(s) THEN avail \cup {s} ELSE avail
             bf(s) == IF relink(s) THEN before \ {s} ELSE before
  <1>1. PICK b \in Buffers :
          /\ held[b] > 0
          /\ held' = [held EXCEPT ![b] = @ - 1]
          /\ slab_head' = [slab_head EXCEPT ![b[1]] = @ \cup {b[2]}]
          /\ slab_refcnt' = [slab_refcnt EXCEPT ![b[1]] = @ - 1]
          /\ rank' = IF relink(b[1]) THEN RankToFront(b[1]) ELSE rank
          /\ IF last(b[1]) /\ ~reclaim
             THEN /\ avail' = av(b[1]) \ {b[1]}
                  /\ before' = bf(b[1]) \ {b[1]}
                  /\ buftotal' = buftotal - CHUNKS
                  /\ destroy_list' = [destroy_list EXCEPT ![t] = {b[1]}]
                  /\ pc' = [pc EXCEPT ![t] = "destroy"]
                  /\ UNCHANGED <<slab_state, slab_idle_time>>
             ELSE /\ avail' = av(b[1])
                  /\ before' = bf(b[1])
                  /\ slab_state' = IF last(b[1])
                                   THEN [slab_state EXCEPT ![b[1]] = "DIRTY"]
                                   ELSE slab_state
                  /\ slab_idle_time' = IF last(b[1])
                                       THEN [slab_idle_time EXCEPT ![b[1]] = 0]
                                       ELSE slab_idle_time
                  /\ UNCHANGED <<buftotal, destroy_list, pc>>
    BY DEF SlabFree
  <1>2. PICK s \in SLABS, i \in Chunks : b = <<s, i>>
    BY SMT DEF Buffers
  <1>3. /\ pc[t] = "idle" /\ life = "live"
        /\ UNCHANGED <<building, arena, meta, upd, to_advise, reclaim_list, life>>
    BY DEF SlabFree, updVars
  <1>4. /\ held[<<s, i>>] > 0
        /\ held' = [held EXCEPT ![<<s, i>>] = @ - 1]
        /\ slab_head' = [slab_head EXCEPT ![s] = @ \cup {i}]
        /\ slab_refcnt' = [slab_refcnt EXCEPT ![s] = @ - 1]
        /\ rank' = IF relink(s) THEN RankToFront(s) ELSE rank
        /\ gone(s) => /\ avail' = av(s) \ {s}
                      /\ before' = bf(s) \ {s}
                      /\ buftotal' = buftotal - CHUNKS
                      /\ destroy_list' = [destroy_list EXCEPT ![t] = {s}]
                      /\ pc' = [pc EXCEPT ![t] = "destroy"]
                      /\ UNCHANGED <<slab_state, slab_idle_time>>
        /\ ~gone(s) => /\ avail' = av(s)
                       /\ before' = bf(s)
                       /\ slab_state' = IF last(s)
                                        THEN [slab_state EXCEPT ![s] = "DIRTY"]
                                        ELSE slab_state
                       /\ slab_idle_time' = IF last(s)
                                            THEN [slab_idle_time EXCEPT ![s] = 0]
                                            ELSE slab_idle_time
                       /\ UNCHANGED <<buftotal, destroy_list, pc>>
    <2>1. b[1] = s /\ b[2] = i
      BY <1>2
    <2> HIDE DEF relink, last, av, bf
    <2> QED
      BY <1>1, <1>2, <2>1 DEF gone
  <1> HIDE DEF relink, last, gone, av, bf
  <1>5. <<s, i>> \in Buffers /\ s \in Linked
    BY <1>4, SMT DEF Buffers, IInv, HeldBacked
  <1>6. held[<<s, i>>] = 1
    BY <1>4, <1>5, SMT DEF IInv, HeldOnce, TypeOK
  <1>7. /\ slab_head[s] = Chunks \ HeldOf(s)
        /\ slab_refcnt[s] = Cardinality(HeldOf(s))
        /\ i \in HeldOf(s)
    <2>1. RefcntExact
      BY DEF IInv
    <2>2. i \in HeldOf(s)
      BY <1>6, SMT DEF HeldOf
    <2> QED
      BY <1>5, <2>1, <2>2 DEF RefcntExact
  <1>8. slab_refcnt[s] # 0 /\ slab_refcnt[s] \in Int
    BY <1>5, <1>7, EmptyUnheld DEF IInv, TypeOK
  <1>9. /\ HeldOf(s)' = HeldOf(s) \ {i}
        /\ Cardinality(HeldOf(s)') = Cardinality(HeldOf(s)) - 1
        /\ \A r \in SLABS \ {s} : HeldOf(r)' = HeldOf(r)
    BY <1>4, <1>6, HeldOfRemove DEF IInv, TypeOK
  <1>10. /\ slab_head' \in [SLABS -> SUBSET Chunks]
         /\ slab_head'[s] = slab_head[s] \cup {i}
         /\ \A r \in SLABS \ {s} : slab_head'[r] = slab_head[r]
    BY <1>4 DEF IInv, TypeOK
  <1>11. /\ slab_refcnt' \in [SLABS -> Int]
         /\ slab_refcnt'[s] = slab_refcnt[s] - 1
         /\ \A r \in SLABS \ {s} : slab_refcnt'[r] = slab_refcnt[r]
    <2>1. slab_refcnt \in [SLABS -> Int]
      BY DEF IInv, TypeOK
    <2> QED
      BY <1>4, <1>8, <2>1, SMT
  \* Where the slab is on the list, before and after.
  <1>12. /\ relink(s) => s \in before /\ s \notin avail
         /\ ~relink(s) => s \in avail /\ s \notin before
    BY <1>5, <1>8 DEF relink, OffFreelist, IInv, FreelistSound, Linked,
                      SpanAccounted
  <1>13. /\ gone(s) => Linked' = Linked \ {s}
         /\ ~gone(s) => Linked' = Linked
    BY <1>4, <1>5, <1>12 DEF Linked, av, bf
  <1>14. \A r \in SLABS \ {s} : /\ r \in avail' <=> r \in avail
                                /\ r \in before' <=> r \in before
    BY <1>4 DEF av, bf
  <1>15. /\ s \notin before'
         /\ gone(s) => s \notin avail'
         /\ avail' \in SUBSET SLABS /\ before' \in SUBSET SLABS
    BY <1>4, <1>12 DEF av, bf, IInv, TypeOK
  <1>16. s \notin reclaim_list
    BY <1>8 DEF IInv, ReclaimStable
  <1>17. /\ slab_state' \in [SLABS -> {"ACTIVE", "DIRTY", "CLEAN", "RECLAIMING"}]
         /\ slab_state[s] # "RECLAIMING" /\ slab_state'[s] # "RECLAIMING"
         /\ \A r \in SLABS \ {s} : slab_state'[r] = slab_state[r]
    <2>1. slab_state[s] # "RECLAIMING"
      BY <1>5, <1>16 DEF IInv, ReclaimStable
    <2>2. slab_state \in [SLABS -> {"ACTIVE", "DIRTY", "CLEAN", "RECLAIMING"}]
      BY DEF IInv, TypeOK
    <2> QED
      BY <1>4, <2>1, <2>2
  <1>18. TypeOK'
    <2>1. held' \in [Buffers -> Nat]
      <3>1. held \in [Buffers -> Nat]
        BY DEF IInv, TypeOK
      <3> QED
        BY <1>4, <1>5, <1>6, <3>1, SMT
    <2>2. /\ rank' \in [SLABS -> Nat \ {0}]
          /\ \A q, r \in SLABS : rank'[q] = rank'[r] => q = r
      BY <1>4, FrontFirst DEF IInv, TypeOK
    <2>3. slab_idle_time' \in [SLABS -> Nat]
      <3>1. slab_idle_time \in [SLABS -> Nat]
        BY DEF IInv, TypeOK
      <3> QED
        BY <1>4, <3>1, SMT
    <2>4. buftotal' \in Int
      BY <1>4, SlabConstants, SMT DEF IInv, TypeOK
    <2>5. pc' \in [Threads -> {"idle", "vmem", "slab_cache", "bufctl", "insert",
                               "destroy"}]
      BY <1>4 DEF IInv, TypeOK
    <2>6. destroy_list' \in [Procs -> SUBSET SLABS]
      BY <1>4, SMTT(30), ZenonT(30) DEF IInv, TypeOK
    <2> QED
      BY <1>3, <1>10, <1>11, <1>15, <1>17, <2>1, <2>2, <2>3, <2>4, <2>5, <2>6,
         SMTT(30), ZenonT(30)
         DEF IInv, TypeOK
  <1>19. destroy_list[t] = {} /\ t \in Procs /\ t # "update" /\ t # "destroyer"
    BY <1>3, SlabConstants DEF IInv, Control, ThreadControl, Procs
  <1>20. /\ gone(s) => destroy_list'[t] = {s}
         /\ ~gone(s) => destroy_list'[t] = {}
         /\ \A p \in Procs \ {t} : destroy_list'[p] = destroy_list[p]
    BY <1>4, <1>19 DEF IInv, TypeOK
  <1>21. SpanAccounted'
    <2>1. \A r \in SLABS : ~(r \in avail' /\ r \in before')
      BY <1>14, <1>15 DEF IInv, SpanAccounted
    <2>2. /\ s \notin arena
          /\ \A u \in Threads : s \notin building[u]
          /\ \A p \in Procs : s \notin destroy_list[p]
      BY <1>5 DEF IInv, SpanAccounted
    <2>3. SpanAccounted /\ arena' = arena /\ building' = building
      BY <1>3 DEF IInv
    <2>4. CASE gone(s)
      <3>1. Linked' = Linked \ {s} /\ destroy_list'[t] = {s}
        BY <1>13, <1>20, <2>4
      <3> QED
        BY <1>5, <1>19, <1>20, <2>1, <2>3, <3>1, UnlinkAccounted
    <2>5. CASE ~gone(s)
      <3>1. Linked' = Linked \ {} /\ destroy_list'[t] = {}
        BY <1>13, <1>20, <2>5
      <3> QED
        BY <1>19, <1>20, <2>1, <2>3, <3>1, UnlinkAccounted
    <2> QED
      BY <2>4, <2>5
  <1>22. RefcntExact'
    <2>1. /\ slab_head'[s] = Chunks \ HeldOf(s)'
          /\ slab_refcnt'[s] = Cardinality(HeldOf(s)')
      BY <1>7, <1>9, <1>10, <1>11
    <2>2. \A r \in Linked \ {s} : /\ slab_head'[r] = Chunks \ HeldOf(r)'
                                  /\ slab_refcnt'[r] = Cardinality(HeldOf(r)')
      BY <1>9, <1>10, <1>11, SMT DEF IInv, TypeOK, RefcntExact, Linked
    <2> QED
      BY <1>13, <2>1, <2>2 DEF RefcntExact
  <1>23. HeldOnce'
    BY <1>4, <1>5, <1>6, SMT DEF IInv, TypeOK, HeldOnce
  <1>24. HeldBacked'
    <2>1. \A c \in Buffers : held'[c] = IF c = <<s, i>> THEN 0 ELSE held[c]
      BY <1>4, <1>5, <1>6, SMT DEF IInv, TypeOK
    <2>2. gone(s) => HeldOf(s)' = {}
      <3>1. gone(s) => Cardinality(HeldOf(s)') = 0
        BY <1>7, <1>9, SMT DEF gone, last, LastOut
      <3>2. IsFiniteSet(HeldOf(s)')
        <4>1. IsFiniteSet(HeldOf(s) \ {i})
          BY HeldOfFinite, FS_RemoveElement
        <4> QED
          BY <1>9, <4>1
      <3> QED
        BY <3>1, <3>2, FS_EmptySet
    <2>3. gone(s) => \A j \in Chunks : ~(held'[<<s, j>>] > 0)
      BY <2>2 DEF HeldOf
    <2> SUFFICES ASSUME NEW c \in Buffers, held'[c] > 0
                 PROVE  c[1] \in Linked'
      BY DEF HeldBacked
    <2>4. held[c] > 0
      BY <2>1, SMT
    <2>5. c[1] \in Linked /\ c[2] \in Chunks /\ c = <<c[1], c[2]>>
      BY <2>4, SMT DEF IInv, HeldBacked, Buffers
    <2> QED
      BY <1>13, <2>3, <2>5
  <1>25. FreelistSound'
    <2>1. \A r \in avail' : slab_head'[r] # {}
      BY <1>10, <1>14, <1>15 DEF IInv, FreelistSound
    <2>2. \A r \in before' : slab_head'[r] # {} => slab_refcnt'[r] = 0
      BY <1>10, <1>11, <1>14, <1>15 DEF IInv, FreelistSound
    <2> QED
      BY <2>1, <2>2 DEF FreelistSound
  <1>26. ReclaimStable'
    BY <1>3, <1>11, <1>13, <1>16, <1>17, SMTT(30), ZenonT(30) DEF IInv, ReclaimStable, TypeOK
  <1>27. \A u \in Threads \ {t} : ThreadControl(u)'
    <2>1. \A u \in Threads : s \notin building[u]
      BY <1>5 DEF IInv, SpanAccounted
    <2>2. \A u \in Threads : \A r \in building[u] :
             /\ slab_head'[r] = slab_head[r]
             /\ slab_refcnt'[r] = slab_refcnt[r]
             /\ slab_state'[r] = slab_state[r]
      BY <1>10, <1>11, <1>17, <2>1, SMTT(30), ZenonT(30) DEF IInv, TypeOK
    <2>3. \A u \in Threads \ {t} : pc'[u] = pc[u]
      BY <1>4 DEF IInv, TypeOK
    <2>4. \A u \in Threads \ {t} : destroy_list'[u] = destroy_list[u]
      BY <1>20 DEF Procs
    <2> QED
      BY <1>3, <2>2, <2>3, <2>4, OthersStable
  <1>28. ThreadControl(t)'
    <2>1. building'[t] = {}
      BY <1>3 DEF IInv, Control, ThreadControl
    <2>2. pc'[t] = IF gone(s) THEN "destroy" ELSE "idle"
      BY <1>3, <1>4, SMTT(30), ZenonT(30) DEF IInv, TypeOK
    <2> QED
      BY <1>20, <2>1, <2>2 DEF ThreadControl
  <1>29. PassControl'
    <2>1. /\ destroy_list'["update"] = destroy_list["update"]
          /\ destroy_list'["destroyer"] = destroy_list["destroyer"]
      BY <1>19, <1>20 DEF Procs
    <2> QED
      BY <1>3, <2>1 DEF IInv, Control, PassControl
  <1> QED
    BY <1>18, <1>21, <1>22, <1>23, <1>24, <1>25, <1>26, <1>27, <1>28, <1>29
       DEF IInv, Control

-----------------------------------------------------------------------------
(* All steps, and the theorems.                                            *)

\* Every step of the slab layer, and stuttering, keeps the invariant.
LEMMA NextInv == IInv /\ [Next]_vars => IInv'
  <1> SUFFICES ASSUME IInv, [Next]_vars PROVE IInv'
    OBVIOUS
  <1>1. ASSUME NEW t \in Threads, ThreadStep(t) PROVE IInv'
    BY <1>1, AllocInv, MissInv, VmemInv, ObjectInv, BufctlInv, CreateFailsInv,
       InsertInv, FreeInv, ThreadDestroysInv DEF ThreadStep
  <1>2. CASE UpdateStep
    BY <1>2, WalkInv, AdviseInv, BackgroundDestroysInv, PublishInv DEF UpdateStep
  <1>3. CASE DrainStep
    BY <1>3, LifeInv, CollectInv, BackgroundDestroysInv DEF DrainStep
  <1>4. CASE UNCHANGED vars
    <2> USE <1>4 DEF vars
    <2>1. TypeOK'
      BY DEF IInv, TypeOK
    <2>2. SpanAccounted'
      BY DEF IInv, SpanAccounted, Linked
    <2>3. RefcntExact' /\ HeldBacked' /\ HeldOnce' /\ FreelistSound' /\ ReclaimStable'
      BY ListStable
    <2>4. \A u \in Threads : ThreadControl(u)'
      BY OthersStable
    <2>5. PassControl'
      BY PassStable
    <2> QED
      BY <2>1, <2>2, <2>3, <2>4, <2>5 DEF IInv, Control
  <1> QED
    BY <1>1, <1>2, <1>3, <1>4 DEF Next, Gone

\* The inductive invariant holds in every reachable state.
THEOREM Inductive == Spec => []IInv
  BY InitInv, NextInv, PTL DEF Spec

\* Every variable of the slab layer keeps its type and the list order stays
\* strict.
THEOREM TypeCorrect == Spec => []TypeOK
  <1>1. IInv => TypeOK
    BY DEF IInv
  <1> QED
    BY <1>1, Inductive, PTL

\* slab_refcnt counts the outstanding buffers of a linked slab exactly and its
\* free list is their complement, in every interleaving of umem_slab_alloc,
\* umem_slab_create, umem_slab_free, the reclaim pass and the drain.
THEOREM RefcntAlwaysExact == Spec => []RefcntExact
  <1>1. IInv => RefcntExact
    BY DEF IInv
  <1> QED
    BY <1>1, Inductive, PTL

\* No buffer in a caller's hands lies in a span that umem_cache_reclaim_pages,
\* umem_cache_drain_slabs or umem_slab_free has unlinked or given back.
THEOREM HeldAlwaysBacked == Spec => []HeldBacked
  <1>1. IInv => HeldBacked
    BY DEF IInv
  <1> QED
    BY <1>1, Inductive, PTL

\* umem_slab_alloc never finds an empty slab at or behind cache_freelist, and
\* no partly used slab is left in front of it.
THEOREM FreelistAlwaysSound == Spec => []FreelistSound
  <1>1. IInv => FreelistSound
    BY DEF IInv
  <1> QED
    BY <1>1, Inductive, PTL

\* The assertions of umem_cache_reclaim_pages after it takes cache_lock back
\* hold: what it marked RECLAIMING is linked, RECLAIMING and empty.
THEOREM ReclaimAlwaysStable == Spec => []ReclaimStable
  <1>1. IInv => ReclaimStable
    BY DEF IInv
  <1> QED
    BY <1>1, Inductive, PTL

\* No span is ever lost or in two places, error paths of umem_slab_create
\* included.
THEOREM SpansAlwaysAccounted == Spec => []SpanAccounted
  <1>1. IInv => SpanAccounted
    BY DEF IInv
  <1> QED
    BY <1>1, Inductive, PTL

\* Every step is, for the callers of the slab layer, the allocation of a
\* buffer nobody has, the return of one somebody has, or nothing.
LEMMA StepImplements ==
    ASSUME IInv, IInv', [Next]_vars
    PROVE  [Contract!Next]_held
  <1>0. held \in [Buffers -> Nat] /\ HeldOnce /\ HeldOnce'
    BY DEF IInv, TypeOK
  <1>1. ASSUME NEW sp \in SLABS, NEW i \in Chunks,
               held' = [held EXCEPT ![<<sp, i>>] = @ + 1]
        PROVE  Contract!Alloc
    <2>1. <<sp, i>> \in Buffers
      BY DEF Buffers
    <2>2. held[<<sp, i>>] = 0
      BY <1>0, <1>1, <2>1, SMT DEF HeldOnce
    <2>3. held' = [held EXCEPT ![<<sp, i>>] = 1]
      BY <1>0, <1>1, <2>1, <2>2, SMT
    <2> QED
      BY <2>1, <2>2, <2>3 DEF Contract!Alloc
  <1>2. ASSUME NEW sp \in SLABS, NEW av, NEW rk, TakeFrom(sp, av, rk)
        PROVE  Contract!Alloc
    <2>1. PICK i \in slab_head[sp] : held' = [held EXCEPT ![<<sp, i>>] = @ + 1]
      BY <1>2 DEF TakeFrom
    <2>2. i \in Chunks
      BY DEF IInv, TypeOK
    <2> QED
      BY <1>1, <2>1, <2>2
  <1>3. ASSUME NEW t \in Threads, SlabAlloc(t) PROVE Contract!Next
    <2>1. PICK sp \in Usable : TakeFrom(sp, avail, rank)
      BY <1>3 DEF SlabAlloc
    <2>2. sp \in SLABS
      BY DEF Usable, IInv, TypeOK
    <2> QED
      BY <1>2, <2>1, <2>2 DEF Contract!Next
  <1>4. ASSUME NEW t \in Threads, SlabInsert(t) PROVE Contract!Next
    <2>1. PICK sp \in building[t] :
            TakeFrom(sp, avail \cup {sp}, RankToFront(sp))
      BY <1>4 DEF SlabInsert
    <2>2. sp \in SLABS
      BY DEF IInv, TypeOK
    <2> QED
      BY <1>2, <2>1, <2>2 DEF Contract!Next
  <1>5. ASSUME NEW t \in Threads, SlabFree(t) PROVE Contract!Next
    <2>1. PICK b \in Buffers : held[b] > 0 /\ held' = [held EXCEPT ![b] = @ - 1]
      BY <1>5 DEF SlabFree
    <2>2. held[b] = 1
      BY <1>0, <2>1, SMT DEF HeldOnce
    <2>3. held' = [held EXCEPT ![b] = 0]
      BY <1>0, <2>1, <2>2, SMT
    <2> QED
      BY <2>2, <2>3 DEF Contract!Next, Contract!Free
  <1>6. ASSUME NEW t \in Threads,
               \/ SlabAllocMiss(t) \/ VmemAlloc(t) \/ SlabObject(t)
               \/ Bufctl(t) \/ SlabCreateFails(t) \/ ThreadDestroys(t)
        PROVE  held' = held
    BY <1>6 DEF SlabAllocMiss, VmemAlloc, SlabObject, Bufctl, SlabCreateFails,
                ThreadDestroys, SlabDestroy
  <1>7. CASE UpdateStep \/ DrainStep \/ UNCHANGED vars
    <2>1. held' = held
      BY <1>7 DEF UpdateStep, ReclaimWalk, ReclaimAdvise, ReclaimDestroy,
                  ReclaimPublish, DrainStep, CacheUnlink, DrainCollect,
                  DrainDestroy, DrainDone, SlabDestroy, vars
    <2> QED
      BY <2>1
  <1>8. CASE \E t \in Threads : ThreadStep(t)
    BY <1>3, <1>4, <1>5, <1>6, <1>8 DEF ThreadStep
  <1> QED
    BY <1>7, <1>8 DEF Next, Gone

\* The slab layer implements the allocator contract: umem_slab_alloc returns
\* only buffers that no caller has.
THEOREM SlabImplementsAllocator == Spec => ImplementsAllocator
  <1>1. Init => Contract!Init
    BY DEF Init, Contract!Init
  <1>2. IInv /\ IInv' /\ [Next]_vars => [Contract!Next]_held
    BY StepImplements
  <1> QED
    BY <1>1, <1>2, Inductive, PTL DEF Spec, ImplementsAllocator, Contract!Spec

=============================================================================
