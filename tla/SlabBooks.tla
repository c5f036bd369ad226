----------------------------- MODULE SlabBooks -----------------------------
(***************************************************************************)
(* The accounts of the slab layer balance: the metadata of every span, the *)
(* total of buffers of the cache, and what umem_cache_destroy leaves.      *)
(***************************************************************************)
EXTENDS SlabProofs

\* The default prover of this module.
USE Zenon

\* What a finished slab has allocated for it.
FullMeta == IF hash THEN CHUNKS + 1 ELSE 0

\* How much of a slab under construction has been allocated.
BuildBooks(t) ==
    \A s \in building[t] :
      /\ pc[t] \in {"slab_cache", "bufctl"} => hash
      /\ pc[t] = "slab_cache" => meta[s] = 0
      /\ pc[t] = "bufctl" => meta[s] = ObjectsOf(s)
      /\ pc[t] = "insert" => meta[s] = FullMeta

\* A slab about to be destroyed is whole: everything it had is on its free
\* list, so that umem_slab_destroy finds it.
DestroyBooks ==
    \A p \in Procs : \A s \in destroy_list[p] :
      meta[s] = FullMeta /\ slab_head[s] = Chunks

\* umem_cache_destroy runs alone, and what it has collected was all there
\* was to collect.
LifeBooks ==
    /\ life # "live" => \A t \in Threads : pc[t] = "idle"
    /\ life \in {"draining", "gone"} => \A s \in Linked : slab_refcnt[s] # 0
    /\ life = "gone" => destroy_list["destroyer"] = {}

\* The inductive invariant of the accounts, relative to IInv.
Books ==
    /\ hash \in BOOLEAN
    /\ MetadataExact
    /\ BuftotalExact
    /\ \A t \in Threads : BuildBooks(t)
    /\ DestroyBooks
    /\ LifeBooks

-----------------------------------------------------------------------------
(* Lemmas about the operators.                                             *)

\* The lists are finite, and so is what is taken off them.
LEMMA LinkedFinite ==
    ASSUME IInv, NEW S, S \subseteq Linked
    PROVE  IsFiniteSet(S) /\ Cardinality(S) \in Nat
  <1>1. S \subseteq SLABS
    BY DEF IInv, TypeOK, Linked
  <1>2. IsFiniteSet(S)
    BY <1>1, SlabConstants, FS_Subset
  <1> QED
    BY <1>2, FS_CardinalityType

\* A slab under construction, and one about to be destroyed, is off the lists
\* of the cache and is nobody else's.
LEMMA Apart ==
    ASSUME IInv
    PROVE  /\ \A t \in Threads : \A s \in building[t] :
                 /\ s \in SLABS /\ s \notin Linked
                 /\ \A u \in Threads \ {t} : s \notin building[u]
                 /\ \A p \in Procs : s \notin destroy_list[p]
           /\ \A p \in Procs : \A s \in destroy_list[p] :
                 /\ s \in SLABS /\ s \notin Linked
                 /\ \A t \in Threads : s \notin building[t]
                 /\ \A q \in Procs \ {p} : s \notin destroy_list[q]
  <1>1. /\ \A t \in Threads : building[t] \subseteq SLABS
        /\ \A p \in Procs : destroy_list[p] \subseteq SLABS
    BY DEF IInv, TypeOK
  <1> QED
    BY <1>1 DEF IInv, SpanAccounted

\* Unlinking the slabs of S takes their buffers, and no others, off the total.
LEMMA TotalUnlinked ==
    ASSUME IInv, BuftotalExact, NEW S, S \subseteq Linked,
           Linked' = Linked \ S, buftotal' = TotalWithout(S)
    PROVE  BuftotalExact'
  <1>1. IsFiniteSet(Linked) /\ Cardinality(Linked) \in Nat /\ Cardinality(S) \in Nat
    BY LinkedFinite
  <1>2. Cardinality(Linked \ S) = Cardinality(Linked) - Cardinality(S)
    <2>1. Cardinality(Linked \ S) = Cardinality(Linked) - Cardinality(Linked \cap S)
      BY <1>1, FS_Difference
    <2>2. Linked \cap S = S
      OBVIOUS
    <2> QED
      BY <2>1, <2>2
  <1>3. buftotal' = CHUNKS * Cardinality(Linked) - CHUNKS * Cardinality(S)
    BY DEF BuftotalExact, TotalWithout
  <1>4. \A m, n \in Nat : CHUNKS * m - CHUNKS * n = CHUNKS * (m - n)
    BY SlabConstants, SMT
  <1> QED
    BY <1>1, <1>2, <1>3, <1>4 DEF BuftotalExact

\* A slab with all its chunks on the free list has CHUNKS + 1 objects.
LEMMA WholeObjects ==
    ASSUME NEW s, slab_head[s] = Chunks
    PROVE  ObjectsOf(s) = CHUNKS + 1
  <1>1. CHUNKS \in Nat \ {0} /\ CHUNKS \in Int /\ 1 \in Int
    BY SlabConstants, SMT
  <1>2. Cardinality(1 .. CHUNKS) = IF 1 > CHUNKS THEN 0 ELSE CHUNKS - 1 + 1
    BY <1>1, FS_Interval
  <1>3. Cardinality(1 .. CHUNKS) = CHUNKS
    BY <1>1, <1>2, SMT
  <1> QED
    BY <1>3 DEF ObjectsOf, Chunks

\* Taking a buffer from sp leaves the slabs of the list on the list.
LEMMA TakeLinked ==
    ASSUME NEW sp \in SLABS, NEW av \in SUBSET SLABS, NEW rk \in [SLABS -> Nat \ {0}],
           TakeFrom(sp, av, rk)
    PROVE  Linked' = av \cup before
  <1>1. PICK i \in slab_head[sp] :
          IF slab_head[sp] = {i}
          THEN /\ avail' = {s \in av : rk[s] > rk[sp]}
               /\ before' = before \cup {s \in av : rk[s] <= rk[sp]}
          ELSE /\ avail' = av
               /\ before' = before
    BY DEF TakeFrom
  <1>2. \A s \in av : rk[s] > rk[sp] \/ rk[s] <= rk[sp]
    <2>1. \A s \in SLABS : rk[s] \in Nat
      OBVIOUS
    <2> QED
      BY <2>1, SMT
  <1>3. CASE slab_head[sp] = {i}
    BY <1>1, <1>2, <1>3 DEF Linked
  <1>4. CASE slab_head[sp] # {i}
    BY <1>1, <1>4 DEF Linked
  <1> QED
    BY <1>3, <1>4

\* A thread that did not move and whose slab nobody touched has the same
\* account.
LEMMA BuildStable ==
    ASSUME NEW u \in Threads, BuildBooks(u), hash' = hash,
           pc'[u] = pc[u], building'[u] = building[u],
           \A s \in building[u] : meta'[s] = meta[s] /\ slab_head'[s] = slab_head[s]
    PROVE  BuildBooks(u)'
  BY DEF BuildBooks, ObjectsOf, FullMeta

\* A step that leaves the metadata, the lists and the spans alone keeps the
\* accounts.
LEMMA MetaStable ==
    ASSUME MetadataExact, hash' = hash, Linked' = Linked, arena' = arena,
           \A s \in Linked \cup arena : meta'[s] = meta[s]
    PROVE  MetadataExact'
  BY DEF MetadataExact

\* The total follows the list.
LEMMA TotalStable ==
    ASSUME BuftotalExact, Linked' = Linked, buftotal' = buftotal
    PROVE  BuftotalExact'
  BY DEF BuftotalExact

\* The slabs waiting to be destroyed are untouched by a step that does not
\* touch them.
LEMMA DestroyStable ==
    ASSUME DestroyBooks, hash' = hash, destroy_list' = destroy_list,
           \A p \in Procs : \A s \in destroy_list[p] :
              meta'[s] = meta[s] /\ slab_head'[s] = slab_head[s]
    PROVE  DestroyBooks'
  BY DEF DestroyBooks, FullMeta

\* While the cache is alive nothing is said about its end.
LEMMA LiveBooks == ASSUME life' = "live" PROVE LifeBooks'
  BY DEF LifeBooks

-----------------------------------------------------------------------------
(* Every step keeps the accounts.                                          *)

\* umem_slab_alloc takes a buffer from a slab on the list.
LEMMA AllocBooks ==
    ASSUME IInv, Books, hash' = hash, NEW t \in Threads, SlabAlloc(t)
    PROVE  Books'
  <1>1. PICK sp \in Usable : TakeFrom(sp, avail, rank)
    BY DEF SlabAlloc
  <1>2. /\ life' = "live"
        /\ UNCHANGED <<pc, building, arena, buftotal, meta, destroy_list>>
    BY DEF SlabAlloc
  <1>3. sp \in SLABS /\ sp \in Linked
    BY DEF Usable, Linked, IInv, TypeOK
  <1>4. Linked' = Linked
    BY <1>1, <1>3, TakeLinked DEF IInv, TypeOK, Linked
  <1>5. \A r \in SLABS \ {sp} : slab_head'[r] = slab_head[r]
    BY <1>1 DEF TakeFrom, IInv, TypeOK
  <1>6. /\ \A u \in Threads : \A s \in building[u] : slab_head'[s] = slab_head[s]
        /\ \A p \in Procs : \A s \in destroy_list[p] : slab_head'[s] = slab_head[s]
    BY <1>3, <1>5 DEF IInv, TypeOK, SpanAccounted
  <1>7. \A u \in Threads : BuildBooks(u)'
    BY <1>2, <1>6, BuildStable DEF Books
  <1>8. MetadataExact' /\ BuftotalExact' /\ DestroyBooks' /\ LifeBooks'
    BY <1>2, <1>4, <1>6, MetaStable, TotalStable, DestroyStable, LiveBooks DEF Books
  <1> QED
    BY <1>7, <1>8 DEF Books

\* umem_slab_alloc finds no slab and drops the lock.
LEMMA MissBooks ==
    ASSUME IInv, Books, hash' = hash, NEW t \in Threads, SlabAllocMiss(t)
    PROVE  Books'
  <1>1. /\ pc[t] = "idle" /\ life' = "live" /\ pc' = [pc EXCEPT ![t] = "vmem"]
        /\ UNCHANGED <<building, arena, avail, before, slab_head, buftotal, meta,
                       destroy_list>>
    BY DEF SlabAllocMiss, listVars, slabVars
  <1>2. Linked' = Linked
    BY <1>1 DEF Linked
  <1>3. BuildBooks(t)'
    BY <1>1 DEF IInv, Control, ThreadControl, BuildBooks
  <1>4. \A u \in Threads \ {t} : BuildBooks(u)'
    BY <1>1, BuildStable DEF Books, IInv, TypeOK
  <1>5. MetadataExact' /\ BuftotalExact' /\ DestroyBooks' /\ LifeBooks'
    BY <1>1, <1>2, MetaStable, TotalStable, DestroyStable, LiveBooks DEF Books
  <1> QED
    BY <1>3, <1>4, <1>5 DEF Books

\* umem_slab_create gets a span, which has no metadata.
LEMMA VmemBooks ==
    ASSUME IInv, Books, hash' = hash, NEW t \in Threads, VmemAlloc(t)
    PROVE  Books'
  <1>1. PICK s \in arena :
          /\ arena' = arena \ {s}
          /\ building' = [building EXCEPT ![t] = {s}]
          /\ slab_head' = [slab_head EXCEPT ![s] = IF hash THEN {} ELSE Chunks]
    BY DEF VmemAlloc
  <1>2. /\ pc[t] = "vmem"
        /\ pc' = [pc EXCEPT ![t] = IF hash THEN "slab_cache" ELSE "insert"]
        /\ UNCHANGED <<avail, before, buftotal, meta, destroy_list, life>>
    BY DEF VmemAlloc, listVars
  <1>3. s \in SLABS /\ meta[s] = 0
    BY DEF IInv, TypeOK, Books, MetadataExact
  <1>4. Linked' = Linked
    BY <1>2 DEF Linked
  <1>5. BuildBooks(t)'
    <2>1. building'[t] = {s} /\ pc'[t] = IF hash THEN "slab_cache" ELSE "insert"
      BY <1>1, <1>2 DEF IInv, TypeOK
    <2> QED
      BY <1>2, <1>3, <2>1, SMT DEF BuildBooks, FullMeta
  <1>6. /\ \A u \in Threads : \A r \in building[u] : slab_head'[r] = slab_head[r]
        /\ \A p \in Procs : \A r \in destroy_list[p] : slab_head'[r] = slab_head[r]
    BY <1>1, <1>3, SMT DEF IInv, TypeOK, SpanAccounted
  <1>7. \A u \in Threads \ {t} : pc'[u] = pc[u] /\ building'[u] = building[u]
    BY <1>1, <1>2 DEF IInv, TypeOK
  <1>8. \A u \in Threads \ {t} : BuildBooks(u)'
    BY <1>2, <1>6, <1>7, BuildStable DEF Books
  <1>9. MetadataExact'
    BY <1>1, <1>2, <1>4 DEF Books, MetadataExact
  <1>10. life' = "live"
    BY <1>2 DEF Books, LifeBooks
  <1>11. BuftotalExact' /\ DestroyBooks' /\ LifeBooks'
    BY <1>2, <1>4, <1>6, <1>10, TotalStable, DestroyStable, LiveBooks DEF Books
  <1> QED
    BY <1>5, <1>8, <1>9, <1>11 DEF Books

\* A step of umem_slab_create that allocates metadata for its own slab s.
LEMMA MetaAdded ==
    ASSUME IInv, Books, hash' = hash, NEW t \in Threads, NEW s \in building[t],
           pc[t] # "idle",
           meta' = [meta EXCEPT ![s] = @ + 1],
           \A r \in SLABS \ {s} : slab_head'[r] = slab_head[r],
           \A u \in Threads \ {t} : pc'[u] = pc[u],
           UNCHANGED <<building, arena, avail, before, buftotal, destroy_list,
                       life>>
    PROVE  /\ s \in SLABS /\ meta'[s] = meta[s] + 1 /\ meta[s] \in Int
           /\ BuildBooks(t)' => Books'
  <1>1. s \in SLABS /\ meta \in [SLABS -> Int]
    BY DEF IInv, TypeOK
  <1>2. meta'[s] = meta[s] + 1 /\ \A r \in SLABS \ {s} : meta'[r] = meta[r]
    BY <1>1
  <1>3. Linked' = Linked
    BY DEF Linked
  <1>4. /\ \A u \in Threads \ {t} : \A r \in building[u] : r \in SLABS \ {s}
        /\ \A p \in Procs : \A r \in destroy_list[p] : r \in SLABS \ {s}
        /\ \A r \in Linked \cup arena : r \in SLABS \ {s}
    BY <1>1, SMT DEF IInv, TypeOK, SpanAccounted, Linked
  <1>5. \A u \in Threads \ {t} : BuildBooks(u)'
    BY <1>2, <1>4, BuildStable DEF Books
  <1>6. life' = "live"
    BY DEF Books, LifeBooks
  <1>7. MetadataExact'
    BY <1>2, <1>3, <1>4, MetaStable DEF Books
  <1>8. DestroyBooks'
    BY <1>2, <1>4, DestroyStable DEF Books
  <1>9. BuftotalExact' /\ LifeBooks'
    BY <1>3, <1>6, TotalStable, LiveBooks DEF Books
  <1> QED
    BY <1>1, <1>2, <1>5, <1>7, <1>8, <1>9 DEF Books

\* The slab structure is the first object of a slab.
LEMMA ObjectBooks ==
    ASSUME IInv, Books, hash' = hash, NEW t \in Threads, SlabObject(t)
    PROVE  Books'
  <1>1. PICK s \in building[t] : meta' = [meta EXCEPT ![s] = @ + 1]
    BY DEF SlabObject
  <1>2. /\ pc[t] = "slab_cache"
        /\ pc' = [pc EXCEPT ![t] = "bufctl"]
        /\ UNCHANGED <<building, arena, avail, before, slab_head, buftotal,
                       destroy_list, life>>
    BY DEF SlabObject, listVars, slabVars
  <1>3. pc'[t] = "bufctl" /\ \A u \in Threads \ {t} : pc'[u] = pc[u]
    BY <1>2 DEF IInv, TypeOK
  <1>4. /\ s \in SLABS /\ meta'[s] = meta[s] + 1 /\ meta[s] \in Int
        /\ BuildBooks(t)' => Books'
    BY <1>1, <1>2, <1>3, MetaAdded
  <1>5. \A r \in building[t] : r = s
    BY DEF IInv, Control, ThreadControl
  <1>6. hash /\ meta[s] = 0 /\ slab_head[s] = {}
    BY <1>2 DEF Books, BuildBooks, IInv, Control, ThreadControl
  <1>7. ObjectsOf(s)' = 1
    BY <1>2, <1>6, FS_EmptySet, SMT DEF ObjectsOf
  <1>8. BuildBooks(t)'
    BY <1>2, <1>3, <1>4, <1>5, <1>6, <1>7, SMT DEF BuildBooks
  <1> QED
    BY <1>4, <1>8

\* Each bufctl is one more object.
LEMMA BufctlBooks ==
    ASSUME IInv, Books, hash' = hash, NEW t \in Threads, Bufctl(t)
    PROVE  Books'
  <1>1. PICK s \in building[t] :
        LET n == Cardinality(slab_head[s]) + 1 IN
        /\ meta' = [meta EXCEPT ![s] = @ + 1]
        /\ slab_head' = [slab_head EXCEPT ![s] = @ \cup {n}]
        /\ pc' = [pc EXCEPT ![t] = IF LastChunk(n) THEN "insert" ELSE "bufctl"]
    BY DEF Bufctl
  <1>2. /\ pc[t] = "bufctl"
        /\ UNCHANGED <<building, arena, avail, before, buftotal, destroy_list, life>>
    BY DEF Bufctl, listVars
  <1>3. s \in SLABS
    BY DEF IInv, TypeOK
  <1>4. PICK k \in 0 .. (CHUNKS - 1) : slab_head[s] = 1 .. k
    BY <1>2 DEF IInv, Control, ThreadControl
  <1>5. k \in Nat /\ k + 1 \in Nat
    BY <1>4, SlabConstants, SMT
  <1>6. \A m \in Nat : Cardinality(1 .. m) = m
    <2> TAKE m \in Nat
    <2>1. Cardinality(1 .. m) = IF 1 > m THEN 0 ELSE m - 1 + 1
      BY FS_Interval, SMT
    <2> QED
      BY <2>1, SMT
  <1>7. Cardinality(slab_head[s]) = k
    BY <1>4, <1>5, <1>6
  <1>8. /\ slab_head' = [slab_head EXCEPT ![s] = 1 .. (k + 1)]
        /\ pc' = [pc EXCEPT ![t] = IF k + 1 = CHUNKS THEN "insert" ELSE "bufctl"]
    <2>1. (1 .. k) \cup {k + 1} = 1 .. (k + 1)
      BY <1>5, SMT
    <2> QED
      BY <1>1, <1>4, <1>7, <2>1 DEF LastChunk
  <1>9. /\ pc'[t] = IF k + 1 = CHUNKS THEN "insert" ELSE "bufctl"
        /\ \A u \in Threads \ {t} : pc'[u] = pc[u]
    BY <1>8 DEF IInv, TypeOK
  <1>10. /\ slab_head'[s] = 1 .. (k + 1)
         /\ \A r \in SLABS \ {s} : slab_head'[r] = slab_head[r]
    BY <1>3, <1>8 DEF IInv, TypeOK
  <1>11. /\ meta'[s] = meta[s] + 1 /\ meta[s] \in Int
         /\ BuildBooks(t)' => Books'
    BY <1>1, <1>2, <1>9, <1>10, MetaAdded
  <1>12. hash /\ meta[s] = k + 1
    BY <1>2, <1>7 DEF Books, BuildBooks, ObjectsOf
  <1>13. ObjectsOf(s)' = k + 2 /\ meta'[s] = k + 2
    BY <1>5, <1>6, <1>10, <1>11, <1>12, SMT DEF ObjectsOf
  <1>14. \A r \in building[t] : r = s
    BY DEF IInv, Control, ThreadControl
  <1>15. k + 1 = CHUNKS => meta'[s] = FullMeta'
    BY <1>5, <1>12, <1>13, SMT DEF FullMeta
  <1>16. BuildBooks(t)'
    BY <1>2, <1>9, <1>12, <1>13, <1>14, <1>15 DEF BuildBooks
  <1> QED
    BY <1>11, <1>16

\* An error path of umem_slab_create gives back what it had allocated.
LEMMA CreateFailsBooks ==
    ASSUME IInv, Books, hash' = hash, NEW t \in Threads, SlabCreateFails(t)
    PROVE  Books'
  <1>1. /\ pc[t] \in {"vmem", "slab_cache", "bufctl"}
        /\ pc' = [pc EXCEPT ![t] = "idle"]
        /\ building' = [building EXCEPT ![t] = {}]
        /\ arena' = arena \cup building[t]
        /\ meta' = [s \in SLABS |->
                      IF s \in building[t] /\ pc[t] = "bufctl"
                      THEN meta[s] - ObjectsOf(s)
                      ELSE meta[s]]
        /\ slab_head' = [s \in SLABS |->
                           IF s \in building[t] THEN {} ELSE slab_head[s]]
        /\ UNCHANGED <<avail, before, buftotal, destroy_list, life>>
    BY DEF SlabCreateFails, GivenBack, listVars
  <1>2. Linked' = Linked
    BY <1>1 DEF Linked
  <1>3. \A s \in SLABS : s \notin building[t] =>
          meta'[s] = meta[s] /\ slab_head'[s] = slab_head[s]
    BY <1>1
  <1>4. \A s \in building[t] : s \in SLABS /\ meta'[s] = 0
    <2> TAKE s \in building[t]
    <2>1. s \in SLABS /\ meta[s] \in Int
      BY DEF IInv, TypeOK
    <2>2. pc[t] = "slab_cache" => meta'[s] = 0
      BY <1>1, <2>1 DEF Books, BuildBooks
    <2>3. pc[t] = "bufctl" => meta'[s] = 0
      BY <1>1, <2>1, SMT DEF Books, BuildBooks
    <2>4. pc[t] # "vmem"
      BY DEF IInv, Control, ThreadControl
    <2> QED
      BY <1>1, <2>1, <2>2, <2>3, <2>4
  <1>5. /\ \A u \in Threads \ {t} : \A r \in building[u] : r \in SLABS \ building[t]
        /\ \A p \in Procs : \A r \in destroy_list[p] : r \in SLABS \ building[t]
        /\ \A r \in Linked \cup arena : r \in SLABS \ building[t]
    BY <1>4 DEF IInv, TypeOK, SpanAccounted, Linked
  <1>6. BuildBooks(t)'
    BY <1>1 DEF BuildBooks, IInv, TypeOK
  <1>7. \A u \in Threads \ {t} : pc'[u] = pc[u] /\ building'[u] = building[u]
    BY <1>1 DEF IInv, TypeOK
  <1>8. \A u \in Threads \ {t} : BuildBooks(u)'
    BY <1>3, <1>5, <1>7, BuildStable DEF Books
  <1>9. MetadataExact'
    BY <1>1, <1>2, <1>3, <1>4, <1>5 DEF Books, MetadataExact
  <1>10. life' = "live"
    BY <1>1 DEF Books, LifeBooks
  <1>11. DestroyBooks'
    BY <1>1, <1>3, <1>5, DestroyStable DEF Books
  <1>12. BuftotalExact' /\ LifeBooks'
    BY <1>1, <1>2, <1>10, TotalStable, LiveBooks DEF Books
  <1> QED
    BY <1>6, <1>8, <1>9, <1>11, <1>12 DEF Books

\* A finished slab is linked, with all its metadata, and counted.
LEMMA InsertBooks ==
    ASSUME IInv, Books, hash' = hash, NEW t \in Threads, SlabInsert(t)
    PROVE  Books'
  <1>1. PICK s \in building[t] : TakeFrom(s, avail \cup {s}, RankToFront(s))
    BY DEF SlabInsert
  <1>2. /\ pc[t] = "insert"
        /\ pc' = [pc EXCEPT ![t] = "idle"]
        /\ building' = [building EXCEPT ![t] = {}]
        /\ buftotal' = buftotal + CHUNKS
        /\ UNCHANGED <<arena, meta, destroy_list, life>>
    BY DEF SlabInsert
  <1>3. s \in SLABS /\ s \notin Linked
    BY DEF IInv, TypeOK, SpanAccounted
  <1>4. Linked' = Linked \cup {s}
    <2>1. RankToFront(s) \in [SLABS -> Nat \ {0}]
      BY <1>3, FrontFirst DEF IInv, TypeOK
    <2>2. avail \cup {s} \in SUBSET SLABS
      BY <1>3 DEF IInv, TypeOK
    <2>3. Linked' = (avail \cup {s}) \cup before
      BY <1>1, <1>3, <2>1, <2>2, TakeLinked
    <2> QED
      BY <2>3 DEF Linked
  <1>5. \A r \in SLABS \ {s} : slab_head'[r] = slab_head[r]
    BY <1>1 DEF TakeFrom, IInv, TypeOK
  <1>6. /\ \A u \in Threads \ {t} : \A r \in building[u] : slab_head'[r] = slab_head[r]
        /\ \A p \in Procs : \A r \in destroy_list[p] : slab_head'[r] = slab_head[r]
    BY <1>5, Apart, SMT
  <1>7. \A u \in Threads \ {t} : pc'[u] = pc[u] /\ building'[u] = building[u]
    BY <1>2 DEF IInv, TypeOK
  <1>8. \A u \in Threads \ {t} : BuildBooks(u)'
    BY <1>2, <1>6, <1>7, BuildStable DEF Books
  <1>9. BuildBooks(t)'
    BY <1>2 DEF BuildBooks, IInv, TypeOK
  <1>10. MetadataExact'
    <2>1. meta[s] = FullMeta
      BY <1>2 DEF Books, BuildBooks
    <2> QED
      BY <1>2, <1>4, <2>1 DEF Books, MetadataExact, FullMeta
  <1>11. BuftotalExact'
    <2>1. IsFiniteSet(Linked) /\ Cardinality(Linked) \in Nat
      BY LinkedFinite
    <2>2. Cardinality(Linked \cup {s}) = Cardinality(Linked) + 1
      BY <1>3, <2>1, FS_AddElement
    <2>3. \A m \in Nat : CHUNKS * m + CHUNKS = CHUNKS * (m + 1)
      BY SlabConstants, SMT
    <2> QED
      BY <1>2, <1>4, <2>1, <2>2, <2>3 DEF Books, BuftotalExact
  <1>12. life' = "live"
    BY <1>2 DEF Books, LifeBooks
  <1>13. DestroyBooks' /\ LifeBooks'
    BY <1>2, <1>6, <1>12, DestroyStable, LiveBooks DEF Books
  <1> QED
    BY <1>8, <1>9, <1>10, <1>11, <1>13 DEF Books

\* The last buffer of a slab comes back and the slab is unlinked: it is
\* whole when it is left for umem_slab_destroy.
LEMMA FreeBooks ==
    ASSUME IInv, IInv', Books, hash' = hash, NEW t \in Threads, SlabFree(t)
    PROVE  Books'
  <1>1. PICK b \in Buffers :
          /\ held[b] > 0
          /\ held' = [held EXCEPT ![b] = @ - 1]
          /\ slab_head' = [slab_head EXCEPT ![b[1]] = @ \cup {b[2]}]
          /\ IF LastOut(b[1]) /\ ~reclaim
             THEN /\ avail' = (IF OffFreelist(b[1]) THEN avail \cup {b[1]}
                               ELSE avail) \ {b[1]}
                  /\ before' = (IF OffFreelist(b[1]) THEN before \ {b[1]}
                                ELSE before) \ {b[1]}
                  /\ buftotal' = buftotal - CHUNKS
                  /\ destroy_list' = [destroy_list EXCEPT ![t] = {b[1]}]
                  /\ pc' = [pc EXCEPT ![t] = "destroy"]
             ELSE /\ avail' = IF OffFreelist(b[1]) THEN avail \cup {b[1]} ELSE avail
                  /\ before' = IF OffFreelist(b[1]) THEN before \ {b[1]} ELSE before
                  /\ UNCHANGED <<buftotal, destroy_list, pc>>
    BY DEF SlabFree
  <1> DEFINE s == b[1]
  <1>2. /\ pc[t] = "idle" /\ life' = "live"
        /\ UNCHANGED <<building, arena, meta>>
    BY DEF SlabFree
  <1>3. s \in Linked /\ s \in SLABS /\ b[2] \in Chunks /\ b = <<s, b[2]>>
    BY <1>1, SMT DEF IInv, HeldBacked, Buffers
  <1>4. \A r \in SLABS \ {s} : slab_head'[r] = slab_head[r]
    BY <1>1, <1>3 DEF IInv, TypeOK
  <1>5. /\ \A u \in Threads : \A r \in building[u] : slab_head'[r] = slab_head[r]
        /\ \A p \in Procs : \A r \in destroy_list[p] : slab_head'[r] = slab_head[r]
    BY <1>3, <1>4, Apart, SMT
  <1>6. \A u \in Threads \ {t} : pc'[u] = pc[u]
    BY <1>1 DEF IInv, TypeOK
  <1>7. \A u \in Threads \ {t} : BuildBooks(u)'
    BY <1>2, <1>5, <1>6, BuildStable DEF Books
  <1>8. BuildBooks(t)'
    <2>1. building'[t] = {}
      BY <1>2 DEF IInv, Control, ThreadControl
    <2> QED
      BY <2>1 DEF BuildBooks
  <1>9. LifeBooks'
    BY <1>2, LiveBooks
  <1>10. CASE LastOut(s) /\ ~reclaim
    <2>1. Linked' = Linked \ {s} /\ buftotal' = buftotal - CHUNKS
      BY <1>1, <1>10 DEF Linked
    <2>2. BuftotalExact'
      <3>1. TotalWithout({s}) = buftotal - CHUNKS
        <4>1. Cardinality({s}) = 1
          BY FS_Singleton
        <4>2. CHUNKS * 1 = CHUNKS
          BY SlabConstants, SMT
        <4> QED
          BY <4>1, <4>2 DEF TotalWithout
      <3> QED
        BY <1>3, <2>1, <3>1, TotalUnlinked DEF Books
    <2>3. MetadataExact'
      BY <1>2, <2>1 DEF Books, MetadataExact
    <2>4. slab_head'[s] = Chunks
      <3>1. slab_head[s] = Chunks \ HeldOf(s) /\ slab_refcnt[s] = Cardinality(HeldOf(s))
        BY <1>3 DEF IInv, RefcntExact
      <3>2. Cardinality(HeldOf(s)) = 1
        BY <1>10, <3>1 DEF LastOut
      <3>3. b[2] \in HeldOf(s)
        BY <1>1, <1>3 DEF HeldOf
      <3>4. HeldOf(s) = {b[2]}
        <4>1. PICK x : HeldOf(s) = {x}
          BY <3>2, HeldOfFinite, FS_Singleton
        <4> QED
          BY <3>3, <4>1
      <3>5. slab_head'[s] = slab_head[s] \cup {b[2]}
        BY <1>1, <1>3 DEF IInv, TypeOK
      <3> QED
        BY <1>3, <3>1, <3>4, <3>5
    <2>5. meta'[s] = FullMeta'
      BY <1>2, <1>3 DEF Books, MetadataExact, FullMeta
    <2>6. t \in Procs /\ destroy_list'[t] = {s}
          /\ \A p \in Procs \ {t} : destroy_list'[p] = destroy_list[p]
      <3>1. destroy_list' = [destroy_list EXCEPT ![t] = {s}]
        BY <1>1, <1>10
      <3> HIDE DEF s
      <3> QED
        BY <3>1 DEF IInv, TypeOK, Procs
    <2>7. DestroyBooks'
      <3> SUFFICES ASSUME NEW p \in Procs, NEW x \in destroy_list'[p]
                   PROVE  meta'[x] = FullMeta' /\ slab_head'[x] = Chunks
        BY DEF DestroyBooks
      <3>1. CASE p = t
        BY <2>4, <2>5, <2>6, <3>1
      <3>2. CASE p # t
        <4>1. x \in destroy_list[p]
          BY <2>6, <3>2
        <4>2. meta[x] = FullMeta /\ slab_head[x] = Chunks
          BY <4>1 DEF Books, DestroyBooks
        <4> QED
          BY <1>2, <1>5, <4>1, <4>2 DEF FullMeta
      <3> QED
        BY <3>1, <3>2
    <2> QED
      BY <1>7, <1>8, <1>9, <2>2, <2>3, <2>7 DEF Books
  <1>11. CASE ~(LastOut(s) /\ ~reclaim)
    <2>1. /\ avail' = IF OffFreelist(s) THEN avail \cup {s} ELSE avail
          /\ before' = IF OffFreelist(s) THEN before \ {s} ELSE before
          /\ UNCHANGED <<buftotal, destroy_list, pc>>
      BY <1>1, <1>11
    <2>2. Linked' = Linked
      BY <1>3, <2>1 DEF Linked
    <2>3. MetadataExact' /\ BuftotalExact' /\ DestroyBooks'
      BY <1>2, <1>5, <2>1, <2>2, MetaStable, TotalStable, DestroyStable DEF Books
    <2> QED
      BY <1>7, <1>8, <1>9, <2>3 DEF Books
  <1> QED
    BY <1>10, <1>11

\* umem_slab_destroy frees as many objects as the slab has.
LEMMA DestroyedBooks ==
    ASSUME IInv, Books, hash' = hash, NEW p \in Procs, NEW s, SlabDestroy(p, s),
           building' = building,
           \A u \in Threads : building[u] = {} \/ pc'[u] = pc[u],
           LifeBooks'
    PROVE  Books'
  <1>1. /\ s \in destroy_list[p]
        /\ destroy_list' = [destroy_list EXCEPT ![p] = @ \ {s}]
        /\ meta' = [meta EXCEPT ![s] = IF hash THEN @ - ObjectsOf(s) ELSE @]
        /\ slab_head' = [slab_head EXCEPT ![s] = {}]
        /\ arena' = arena \cup {s}
        /\ UNCHANGED <<avail, before, buftotal>>
    BY DEF SlabDestroy, listVars
  <1>2. s \in SLABS /\ s \notin Linked /\ \A u \in Threads : s \notin building[u]
    BY <1>1 DEF IInv, TypeOK, SpanAccounted
  <1>3. meta[s] = FullMeta /\ slab_head[s] = Chunks
    BY <1>1 DEF Books, DestroyBooks
  <1>4. meta'[s] = 0
    <2>1. ObjectsOf(s) = CHUNKS + 1
      BY <1>3, WholeObjects
    <2>2. meta'[s] = IF hash THEN FullMeta - ObjectsOf(s) ELSE FullMeta
      BY <1>1, <1>2, <1>3 DEF IInv, TypeOK
    <2>3. CHUNKS \in Nat
      BY SlabConstants
    <2> QED
      BY <2>1, <2>2, <2>3, SMT DEF FullMeta
  <1>5. \A r \in SLABS \ {s} : meta'[r] = meta[r] /\ slab_head'[r] = slab_head[r]
    BY <1>1 DEF IInv, TypeOK
  <1>6. Linked' = Linked
    BY <1>1 DEF Linked
  <1>7. \A u \in Threads : BuildBooks(u)'
    <2> TAKE u \in Threads
    <2>1. CASE building[u] = {}
      BY <2>1 DEF BuildBooks
    <2>2. CASE pc'[u] = pc[u]
      <3>1. \A r \in building[u] : meta'[r] = meta[r] /\ slab_head'[r] = slab_head[r]
        BY <1>2, <1>5 DEF IInv, TypeOK
      <3> QED
        BY <2>2, <3>1, BuildStable DEF Books
    <2> QED
      BY <2>1, <2>2
  <1>8. MetadataExact'
    <2>1. \A r \in arena \cup Linked : r \in SLABS
      BY DEF IInv, TypeOK, Linked
    <2> QED
      BY <1>1, <1>2, <1>4, <1>5, <1>6, <2>1 DEF Books, MetadataExact
  <1>9. DestroyBooks'
    <2> SUFFICES ASSUME NEW q \in Procs, NEW r \in destroy_list'[q]
                 PROVE  meta'[r] = FullMeta /\ slab_head'[r] = Chunks
      BY DEF DestroyBooks, FullMeta
    <2>1. r \in destroy_list[q] /\ r \in SLABS \ {s}
      <3>1. destroy_list'[p] = destroy_list[p] \ {s}
        BY <1>1 DEF IInv, TypeOK
      <3>2. q # p => destroy_list'[q] = destroy_list[q]
        BY <1>1 DEF IInv, TypeOK
      <3>3. CASE q = p
        BY <3>1, <3>3, Apart
      <3>4. CASE q # p
        BY <1>1, <3>2, <3>4, Apart
      <3> QED
        BY <3>3, <3>4
    <2> QED
      BY <1>5, <2>1 DEF Books, DestroyBooks
  <1>10. BuftotalExact'
    BY <1>1, <1>6, TotalStable DEF Books
  <1> QED
    BY <1>7, <1>8, <1>9, <1>10 DEF Books

\* The three callers of umem_slab_destroy.
LEMMA DestroyersBooks ==
    ASSUME IInv, Books, hash' = hash,
           \/ \E t \in Threads : ThreadDestroys(t)
           \/ ReclaimDestroy
           \/ DrainDestroy
    PROVE  Books'
  <1>1. ASSUME NEW t \in Threads, ThreadDestroys(t) PROVE Books'
    <2>1. PICK s \in destroy_list[t] : SlabDestroy(t, s)
      BY <1>1 DEF ThreadDestroys
    <2>2. /\ pc[t] = "destroy" /\ pc' = [pc EXCEPT ![t] = "idle"]
          /\ building' = building /\ life' = life
      BY <1>1 DEF ThreadDestroys
    <2>3. t \in Procs
      BY DEF Procs
    <2>4. \A u \in Threads : building[u] = {} \/ pc'[u] = pc[u]
      BY <2>2, SMT DEF IInv, TypeOK, Control, ThreadControl
    <2>5. LifeBooks'
      BY <2>2, LiveBooks DEF Books, LifeBooks
    <2> QED
      BY <2>1, <2>2, <2>3, <2>4, <2>5, DestroyedBooks
  <1>2. CASE ReclaimDestroy
    <2>1. PICK s \in destroy_list["update"] : SlabDestroy("update", s)
      BY <1>2 DEF ReclaimDestroy
    <2>2. upd = "advise" /\ UNCHANGED <<pc, building, life>>
      BY <1>2 DEF ReclaimDestroy, threadVars
    <2>3. "update" \in Procs
      BY DEF Procs
    <2>4. LifeBooks'
      BY <2>2, LiveBooks DEF IInv, Control, PassControl
    <2> QED
      BY <2>1, <2>2, <2>3, <2>4, DestroyedBooks
  <1>3. CASE DrainDestroy
    <2>1. PICK s \in destroy_list["destroyer"] : SlabDestroy("destroyer", s)
      BY <1>3 DEF DrainDestroy
    <2>2. life = "draining" /\ UNCHANGED <<pc, building, life>>
      BY <1>3 DEF DrainDestroy, threadVars
    <2>3. "destroyer" \in Procs
      BY DEF Procs
    <2>4. UNCHANGED <<avail, before, slab_refcnt>>
      BY <2>1 DEF SlabDestroy, listVars
    <2>5. LifeBooks'
      BY <2>2, <2>4 DEF Books, LifeBooks, Linked
    <2> QED
      BY <2>1, <2>2, <2>3, <2>5, DestroyedBooks
  <1> QED
    BY <1>1, <1>2, <1>3

\* Unlinking the empty slabs of S for p to destroy: they are whole, and the
\* total loses their buffers.
LEMMA UnlinkBooks ==
    ASSUME IInv, Books, hash' = hash, NEW p \in Procs,
           NEW S, S \in SUBSET {s \in Linked : slab_refcnt[s] = 0},
           avail' = avail \ S, before' = before \ S,
           buftotal' = TotalWithout(S),
           destroy_list' = [destroy_list EXCEPT ![p] = S],
           UNCHANGED <<pc, building, arena, slab_head, meta>>,
           LifeBooks'
    PROVE  Books'
  <1>1. Linked' = Linked \ S /\ S \subseteq Linked
    BY DEF Linked
  <1>2. MetadataExact'
    BY <1>1 DEF Books, MetadataExact
  <1>3. BuftotalExact'
    BY <1>1, TotalUnlinked DEF Books
  <1>4. \A u \in Threads : BuildBooks(u)'
    BY BuildStable DEF Books
  <1>5. \A s \in S : meta[s] = FullMeta /\ slab_head[s] = Chunks
    <2> TAKE s \in S
    <2>1. s \in Linked /\ HeldOf(s) = {}
      BY EmptyUnheld DEF IInv
    <2> QED
      BY <2>1 DEF Books, MetadataExact, FullMeta, IInv, RefcntExact
  <1>6. DestroyBooks'
    <2>1. \A q \in Procs : destroy_list'[q] = IF q = p THEN S ELSE destroy_list[q]
      BY DEF IInv, TypeOK
    <2>2. \A q \in Procs : \A s \in destroy_list[q] :
             meta[s] = FullMeta /\ slab_head[s] = Chunks
      BY DEF Books, DestroyBooks
    <2>3. FullMeta' = FullMeta
      BY DEF FullMeta
    <2> QED
      BY <1>5, <2>1, <2>2, <2>3, SMT DEF DestroyBooks
  <1> QED
    BY <1>2, <1>3, <1>4, <1>6 DEF Books

\* The reclaim pass: its walk, its madvise and its end.
LEMMA PassBooks ==
    ASSUME IInv, Books, hash' = hash,
           ReclaimWalk \/ ReclaimAdvise \/ ReclaimPublish
    PROVE  Books'
  <1>1. CASE ReclaimWalk
    <2>1. /\ life' = "live"
          /\ avail' = avail \ ToDestroy /\ before' = before \ ToDestroy
          /\ buftotal' = TotalWithout(ToDestroy)
          /\ destroy_list' = [destroy_list EXCEPT !["update"] = ToDestroy]
          /\ UNCHANGED <<pc, building, arena, slab_head, meta>>
      BY <1>1 DEF ReclaimWalk, threadVars
    <2>2. ToDestroy \in SUBSET {s \in Linked : slab_refcnt[s] = 0}
      BY DEF ToDestroy
    <2>3. "update" \in Procs /\ LifeBooks'
      BY <2>1, LiveBooks DEF Procs
    <2> QED
      BY <2>1, <2>2, <2>3, UnlinkBooks
  <1>2. CASE ReclaimAdvise \/ ReclaimPublish
    <2>1. slab_head' = slab_head
      BY <1>2 DEF ReclaimAdvise, ReclaimPublish, KeepsMetadata, HeadsWithout
    <2>2. /\ upd = "advise"
          /\ UNCHANGED <<pc, building, arena, avail, before, buftotal, meta,
                         destroy_list, life>>
      BY <1>2 DEF ReclaimAdvise, ReclaimPublish, threadVars, listVars
    <2>3. Linked' = Linked /\ life' = "live"
      BY <2>2 DEF Linked, IInv, Control, PassControl
    <2>4. \A u \in Threads : BuildBooks(u)'
      BY <2>1, <2>2, BuildStable DEF Books
    <2>5. MetadataExact' /\ BuftotalExact' /\ DestroyBooks' /\ LifeBooks'
      BY <2>1, <2>2, <2>3, MetaStable, TotalStable, DestroyStable, LiveBooks DEF Books
    <2> QED
      BY <2>4, <2>5 DEF Books
  <1> QED
    BY <1>1, <1>2

\* umem_cache_destroy: the cache leaves the list when nobody is in it, every
\* empty slab is collected, and in the end all of those are destroyed.
LEMMA EndBooks ==
    ASSUME IInv, Books, hash' = hash,
           CacheUnlink \/ DrainCollect \/ DrainDone \/ UNCHANGED vars
    PROVE  Books'
  <1>1. CASE DrainCollect
    <2>1. /\ life = "unlinked" /\ life' = "draining"
          /\ avail' = avail \ Empty /\ before' = before \ Empty
          /\ buftotal' = TotalWithout(Empty)
          /\ destroy_list' = [destroy_list EXCEPT !["destroyer"] = Empty]
          /\ UNCHANGED <<pc, building, arena, slab_head, slab_refcnt, meta>>
      BY <1>1 DEF DrainCollect, threadVars, slabVars
    <2>2. Empty \in SUBSET {s \in Linked : slab_refcnt[s] = 0}
      BY DEF Empty
    <2>3. \A s \in Linked' : slab_refcnt'[s] # 0
      BY <2>1 DEF Linked, Empty
    <2>4. LifeBooks'
      BY <2>1, <2>3 DEF Books, LifeBooks
    <2>5. "destroyer" \in Procs
      BY DEF Procs
    <2> QED
      BY <2>1, <2>2, <2>4, <2>5, UnlinkBooks
  <1>2. CASE CacheUnlink \/ DrainDone \/ UNCHANGED vars
    <2>1. UNCHANGED <<pc, building, arena, avail, before, slab_head, slab_refcnt,
                      buftotal, meta, destroy_list>>
      BY <1>2 DEF CacheUnlink, DrainDone, vars, threadVars, listVars, slabVars
    <2>2. Linked' = Linked
      BY <2>1 DEF Linked
    <2>3. \A u \in Threads : BuildBooks(u)'
      BY <2>1, BuildStable DEF Books
    <2>4. LifeBooks'
      <3>1. CASE CacheUnlink
        <4>1. life' = "unlinked" /\ \A t \in Threads : pc[t] = "idle"
          BY <3>1 DEF CacheUnlink
        <4> QED
          BY <2>1, <4>1 DEF LifeBooks
      <3>2. CASE DrainDone
        <4>1. life = "draining" /\ life' = "gone" /\ destroy_list["destroyer"] = {}
          BY <3>2 DEF DrainDone
        <4> QED
          BY <2>1, <2>2, <4>1 DEF Books, LifeBooks
      <3>3. CASE UNCHANGED vars
        BY <3>3 DEF vars, Books, LifeBooks, Linked
      <3> QED
        BY <1>2, <3>1, <3>2, <3>3
    <2>5. MetadataExact' /\ BuftotalExact' /\ DestroyBooks'
      BY <2>1, <2>2, MetaStable, TotalStable, DestroyStable DEF Books
    <2> QED
      BY <2>3, <2>4, <2>5 DEF Books
  <1> QED
    BY <1>1, <1>2

-----------------------------------------------------------------------------
(* The theorem.                                                            *)

\* A new cache has no metadata, no buffers and no slabs.
LEMMA InitBooks == Init => Books
  <1> SUFFICES ASSUME Init PROVE Books
    OBVIOUS
  <1>1. Linked = {} /\ Cardinality(Linked) = 0
    BY FS_EmptySet DEF Init, Linked
  <1>2. BuftotalExact
    BY <1>1, SlabConstants, SMT DEF Init, BuftotalExact
  <1>3. MetadataExact /\ \A t \in Threads : BuildBooks(t)
    BY <1>1 DEF Init, MetadataExact, BuildBooks
  <1>4. DestroyBooks /\ LifeBooks
    BY DEF Init, DestroyBooks, LifeBooks
  <1> QED
    BY <1>2, <1>3, <1>4 DEF Books, Init

\* Every step of the slab layer, and stuttering, keeps the accounts.
LEMMA NextBooks == IInv /\ IInv' /\ Books /\ [Next]_vars => Books'
  <1> SUFFICES ASSUME IInv, IInv', Books, [Next]_vars PROVE Books'
    OBVIOUS
  <1>1. hash' = hash
    BY DEF Next, config, vars
  <1>2. ASSUME NEW t \in Threads, ThreadStep(t) PROVE Books'
    BY <1>1, <1>2, AllocBooks, MissBooks, VmemBooks, ObjectBooks, BufctlBooks,
       CreateFailsBooks, InsertBooks, FreeBooks, DestroyersBooks DEF ThreadStep
  <1>3. CASE UpdateStep
    BY <1>1, <1>3, PassBooks, DestroyersBooks DEF UpdateStep
  <1>4. CASE DrainStep
    BY <1>1, <1>4, EndBooks, DestroyersBooks DEF DrainStep
  <1>5. CASE UNCHANGED vars
    BY <1>1, <1>5, EndBooks
  <1> QED
    BY <1>2, <1>3, <1>4, <1>5 DEF Next, Gone

\* In every state the accounts balance, by the invariant.
LEMMA BooksSuffice == IInv /\ Books => BooksExact
  <1> SUFFICES ASSUME IInv, Books PROVE DrainClean
    BY DEF Books, BooksExact
  <1>1. ASSUME life # "live"
        PROVE  reclaim_list = {} /\ \A s \in Linked : slab_state[s] # "RECLAIMING"
    BY <1>1 DEF IInv, TypeOK, Linked, Control, PassControl, ReclaimStable
  <1>2. ASSUME life = "gone", NEW s \in SLABS, s \notin arena
        PROVE  HeldOf(s) # {}
    <2>1. \A t \in Threads : building[t] = {} /\ destroy_list[t] = {}
      BY <1>2 DEF Books, LifeBooks, IInv, Control, ThreadControl
    <2>2. destroy_list["update"] = {} /\ destroy_list["destroyer"] = {}
      BY <1>2 DEF Books, LifeBooks, IInv, Control, PassControl
    <2>3. s \in Linked
      BY <1>2, <2>1, <2>2 DEF IInv, SpanAccounted, Procs
    <2>4. slab_refcnt[s] # 0 /\ slab_refcnt[s] = Cardinality(HeldOf(s))
      BY <1>2, <2>3 DEF Books, LifeBooks, IInv, RefcntExact
    <2> QED
      BY <2>4, FS_EmptySet
  <1> QED
    BY <1>1, <1>2 DEF DrainClean

\* The metadata of a span exists exactly while its slab does, cache_buftotal
\* counts the buffers of the linked slabs, and umem_cache_destroy leaves
\* nothing behind but slabs with buffers outstanding: in every interleaving of
\* allocation, its error paths, release, reclaim and destruction.
THEOREM BooksAlwaysExact == Spec => []BooksExact
  <1>1. Spec => []Books
    <2>1. Spec => []IInv
      BY Inductive
    <2> QED
      BY <2>1, InitBooks, NextBooks, PTL DEF Spec
  <1> QED
    BY <1>1, Inductive, BooksSuffice, PTL

=============================================================================
