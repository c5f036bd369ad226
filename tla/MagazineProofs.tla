--------------------------- MODULE MagazineProofs ---------------------------
(***************************************************************************)
(* Theorems about the magazine layer, for every number of buffers, shells, *)
(* threads, CPUs and magazine sizes: shells have one owner, buffers one    *)
(* home, magazines are what their place says they are, what comes back to  *)
(* the slab layer comes back whole, and the layer implements Allocator.    *)
(***************************************************************************)
EXTENDS MagazineUpdate, FiniteSetTheorems

\* The default prover of this module.
USE Zenon

\* Sets of shells are finite, with the cardinalities that CardFacts states.
LEMMA Cardinalities == CardFacts
  <1>1. IsFiniteSet(Mags) /\ Cardinality(Mags) \in Nat
    BY MagazineConstants, FS_CardinalityType
  <1>2. Cardinality({}) = 0
    BY FS_EmptySet
  <1>3. ASSUME NEW S \in SUBSET Mags
        PROVE  /\ Cardinality(S) \in 0 .. Cardinality(Mags)
               /\ Cardinality(S) = 0 => S = {}
               /\ \A m \in Mags \ S : Cardinality(S \cup {m}) = Cardinality(S) + 1
               /\ \A m \in S : Cardinality(S \ {m}) = Cardinality(S) - 1
               /\ \A T \in SUBSET S : Cardinality(T) = Cardinality(S) => T = S
    <2>1. IsFiniteSet(S) /\ Cardinality(S) <= Cardinality(Mags)
      BY <1>1, FS_Subset
    <2>2. Cardinality(S) \in Nat
      BY <2>1, FS_CardinalityType
    <2>3. Cardinality(S) \in 0 .. Cardinality(Mags)
      BY <1>1, <2>1, <2>2, SMT
    <2>4. Cardinality(S) = 0 => S = {}
      BY <2>1, FS_EmptySet
    <2>5. \A m \in Mags \ S : Cardinality(S \cup {m}) = Cardinality(S) + 1
      BY <2>1, FS_AddElement
    <2>6. \A m \in S : Cardinality(S \ {m}) = Cardinality(S) - 1
      BY <2>1, FS_RemoveElement
    <2>7. \A T \in SUBSET S : Cardinality(T) = Cardinality(S) => T = S
      BY <2>1, FS_Subset
    <2> QED
      BY <2>3, <2>4, <2>5, <2>6, <2>7
  <1> QED
    BY <1>1, <1>2, <1>3 DEF CardFacts

-----------------------------------------------------------------------------
(* The invariant holds in every reachable state.                           *)

\* A cache that umem_cache_create has just enabled has nothing in its magazine layer.
LEMMA InitInv ==
    ASSUME Init
    PROVE  IInv
  <1>1. /\ config \in CONFIGS /\ slab = config.bufs /\ constructed = {}
        /\ held = [b \in Bufs |-> 0] /\ upd = "idle" /\ why = "none" /\ to_purge = {}
        /\ doomed = {} /\ cache_magtype = 1 /\ mag_total = 0
        /\ \A t \in Threads : /\ pc[t] = "idle" /\ op[t] = "none" /\ cpu[t] = NoOne
                              /\ mtp[t] = 0 /\ obj[t] = NoOne /\ mag[t] = NoOne
        /\ \A m \in Mags : mag_type[m] = 0
        /\ \A k \in Kinds : depot[k].list = {}
    BY DEF Init
  <1>2. \A c \in CPUs : /\ cc[c].lock = NoOne /\ cc[c].loaded = NoOne /\ cc[c].rounds = -1
                        /\ cc[c].ploaded = NoOne /\ cc[c].prounds = -1
                        /\ cc[c].magsize = MAGSIZES[1]
    BY DEF Init
  <1>3. /\ MAXSIZE \in Nat /\ 1 \in Types /\ Cardinality(Mags) \in Nat /\ Cardinality({}) = 0
    BY Sizes, Cardinalities DEF CardFacts
  <1>4. /\ config.bufs \subseteq Bufs /\ config.cpus \subseteq CPUs
        /\ NoOne \notin Mags /\ NoOne \notin Threads
    BY <1>1, Configs
  <1>5. Shells = {} /\ Counted = {} /\ \A c \in CPUs : CpuMags(c) = {}
    BY <1>1, <1>2 DEF Shells, Counted, CpuMags
  <1>6. \A m \in Mags : \A i \in Index : ~Occ(m, i)
    BY <1>1, <1>2, <1>4 DEF Occ, OccCpu, Kinds
  <1>7. Types2
    <2>1. 0 \in 0 .. Cardinality(Mags) /\ -1 \in -1 .. MAXSIZE /\ 0 \in Nat
      BY <1>3, SMT
    <2>2. cc \in [CPUs -> [lock : Threads \cup {NoOne},
                           loaded : Mags \cup {NoOne}, rounds : -1..MAXSIZE,
                           ploaded : Mags \cup {NoOne}, prounds : -1..MAXSIZE,
                           magsize : {0} \cup {MAGSIZES[i] : i \in Types}]]
      BY <1>3, <2>1 DEF Init
    <2>3. depot \in [Kinds -> [list : SUBSET Mags, min : 0..Cardinality(Mags),
                               reaplimit : 0..Cardinality(Mags)]]
      BY <2>1 DEF Init
    <2>4. /\ mag_type \in [Mags -> {0} \cup Types] /\ held \in [Bufs -> Nat]
          /\ mag_round \in [Mags -> [1..MAXSIZE -> Bufs \cup {NoOne}]]
          /\ obj \in [Threads -> Bufs \cup {NoOne}] /\ mag \in [Threads -> Mags \cup {NoOne}]
          /\ mtp \in [Threads -> {0} \cup Types] /\ cpu \in [Threads -> CPUs \cup {NoOne}]
          /\ pc \in [Threads -> PCs]
          /\ op \in [Threads -> {"none", "alloc", "free", "rseq_alloc", "rseq_free"}]
      BY <2>1 DEF Init, PCs
    <2>5. TypeOK
      BY <1>1, <1>3, <1>4, <2>1, <2>2, <2>3, <2>4 DEF TypeOK
    <2> QED
      BY <1>1, <2>4, <2>5 DEF Types2, Phases
  <1>8. \A t \in Threads : Hands(t) /\ Locked(t)
    <2> TAKE t \in Threads
    <2>1. Hands(t)
      BY <1>1 DEF Hands, CacheOps
    <2>2. t # NoOne
      BY <1>4
    <2> QED
      BY <1>1, <1>2, <2>1, <2>2 DEF Locked, Locks
  <1>9. \A c \in CPUs : CpuSound(c)
    BY <1>1, <1>2 DEF CpuSound
  <1>10. Placed /\ Covered /\ Apart /\ Tally
    BY <1>1, <1>2, <1>3, <1>5 DEF Placed, Covered, Apart, Tally, Kinds
  <1>11. Home
    <2>1. \A b \in Bufs : held[b] = 0
      BY <1>1
    <2>2. SlotsHome /\ AllHome
      BY <1>1, <1>6 DEF SlotsHome, AllHome
    <2>3. ObjsHome
      BY <1>1 DEF ObjsHome
    <2>4. HeldHome
      <3>1. \A b \in Bufs : held[b] \in {0, 1} /\ held[b] # 1
        BY <2>1, SMT
      <3> QED
        BY <1>1, <3>1 DEF HeldHome
    <2> QED
      BY <2>2, <2>3, <2>4 DEF Home
  <1>12. Job
    BY <1>1 DEF Job, Purging
  <1>13. Drained /\ Fresh
    BY <1>1 DEF Drained, Sealed, Fresh
  <1> QED
    BY <1>7, <1>8, <1>9, <1>10, <1>11, <1>12, <1>13 DEF IInv

\* Every step of a thread inside umem_cache_alloc or umem_cache_free keeps the invariant.
LEMMA ThreadInv ==
    ASSUME IInv, NEW t \in Threads, ThreadStep(t), UNCHANGED config
    PROVE  IInv'
  <1>1. CASE CallAlloc(t) \/ CallFree(t) \/ RseqPull(t) \/ RseqGiveBack(t)
    BY <1>1, CallAllocInv, CallFreeInv, RseqPullInv, RseqGiveBackInv
  <1>2. CASE DepotPop(t) \/ DepotNone(t) \/ DestroyStale(t)
    BY <1>2, DepotPopInv, DepotNoneInv, DestroyStaleInv, Cardinalities
  <1>3. CASE AllocHit(t) \/ FreeHit(t) \/ Miss(t) \/ AllocReload(t) \/ FreeReload(t)
    BY <1>3, AllocHitInv, FreeHitInv, MissInv, AllocReloadInv, FreeReloadInv
  <1>4. CASE MagAlloc(t) \/ MagDonate(t) \/ MagDiscard(t) \/ MagNone(t)
    BY <1>4, MagAllocInv, MagDonateInv, MagDiscardInv, MagNoneInv, Cardinalities
  <1>5. CASE SlabAlloc(t) \/ SlabFree(t)
    BY <1>5, SlabAllocInv, SlabFreeInv
  <1> QED
    BY <1>1, <1>2, <1>3, <1>4, <1>5 DEF ThreadStep

\* Every step of the update thread and of umem_cache_destroy keeps it.
LEMMA UpdateInv ==
    ASSUME IInv, UpdateStep, UNCHANGED config
    PROVE  IInv'
  <1>1. CASE WsUpdate \/ PurgeWsUpdate \/ MarkExcess
    BY <1>1, WsUpdateInv, PurgeWsUpdateInv, MarkExcessInv, Cardinalities
  <1>2. CASE SetMagtype \/ \E w \in {"reap", "resize", "destroy"} : StartJob(w)
    BY <1>2, SetMagtypeInv, StartJobInv
  <1>3. CASE \E c \in CPUs : PurgeCpu(c) \/ Enable(c)
    BY <1>3, PurgeCpuInv, EnableInv
  <1>4. CASE \E d \in doomed : DestroyMag(d)
    BY <1>4, DestroyMagInv, Cardinalities
  <1>5. CASE \E k \in Kinds : WsReap(k)
    BY <1>5, WsReapInv, Cardinalities
  <1> QED
    BY <1>1, <1>2, <1>3, <1>4, <1>5 DEF UpdateStep

\* A step that changes nothing keeps it.
LEMMA StutterInv ==
    ASSUME IInv, UNCHANGED vars
    PROVE  IInv'
  <1>1. UNCHANGED <<config, cc, depot, cache_magtype, threadVars, updateVars, bufferVars,
                    shellVars>>
    BY DEF vars
  <1>2. /\ doomed' = doomed /\ upd' = upd /\ why' = why /\ to_purge' = to_purge
    BY <1>1 DEF updateVars
  <1>3. Types2 /\ Job /\ Drained
    BY DEF IInv
  <1>4. Types2'
    BY <1>1, <1>2, <1>3 DEF Types2, TypeOK, threadVars, bufferVars, shellVars
  <1>5. Job'
    <2>1. /\ (Purging' <=> Purging) /\ (MayGrow' <=> MayGrow) /\ pc' = pc /\ held' = held
          /\ \A m : Capacity(m)' = Capacity(m)
      BY <1>1, <1>2 DEF Purging, MayGrow, Capacity, threadVars, bufferVars, shellVars
    <2> QED
      BY <1>1, <1>2, <1>3, <2>1 DEF Job
  <1>6. Drained'
    BY <1>1, <1>2, <1>3, DrainedStable
  <1> QED
    BY <1>1, <1>2, <1>4, <1>5, <1>6, BooksSuffice

\* So every step does.
LEMMA NextInv ==
    ASSUME IInv, [Next]_vars
    PROVE  IInv'
  <1>1. CASE UNCHANGED vars
    BY <1>1, StutterInv
  <1>2. CASE Next
    <2>1. UNCHANGED config /\ config.threads \subseteq Threads
      BY <1>2, Configs DEF Next, IInv, Types2
    <2>2. CASE \E t \in config.threads : ThreadStep(t)
      BY <2>1, <2>2, ThreadInv
    <2>3. CASE UpdateStep
      BY <2>1, <2>3, UpdateInv
    <2>4. CASE Gone
      BY <2>4, StutterInv DEF Gone
    <2> QED
      BY <1>2, <2>2, <2>3, <2>4 DEF Next
  <1> QED
    BY <1>1, <1>2

\* The inductive invariant holds throughout.
THEOREM Inductive == Spec => []IInv
  <1>1. Init => IInv
    BY InitInv
  <1>2. IInv /\ [Next]_vars => IInv'
    BY NextInv
  <1> QED
    BY <1>1, <1>2, PTL DEF Spec

-----------------------------------------------------------------------------
(* The safety properties follow from it.                                   *)

\* The records Custody is made of.
LoadedBy(c) == [who |-> <<"loaded", c>>, mag |-> cc[c].loaded, rounds |-> cc[c].rounds]
PloadedBy(c) == [who |-> <<"ploaded", c>>, mag |-> cc[c].ploaded, rounds |-> cc[c].prounds]
InFull(m) == [who |-> <<"depot", "full">>, mag |-> m, rounds |-> Capacity(m)]
InEmpty(m) == [who |-> <<"depot", "empty">>, mag |-> m, rounds |-> 0]
WithThread(t) ==
    [who |-> <<"thread", t>>, mag |-> mag[t],
     rounds |-> IF mag[t] # NoOne /\ Kind(t) = "full" THEN Capacity(mag[t]) ELSE 0]
WithUpdate(d) == [who |-> <<"doomed", d.rounds>>, mag |-> d.mag, rounds |-> DoomedRounds(d)]

\* Who can answer for a shell.
LEMMA Owners ==
    \A k : k \in Custody <=> \/ \E c \in CPUs : k = LoadedBy(c)
                             \/ \E c \in CPUs : k = PloadedBy(c)
                             \/ \E m \in depot["full"].list : k = InFull(m)
                             \/ \E m \in depot["empty"].list : k = InEmpty(m)
                             \/ \E t \in Threads : k = WithThread(t)
                             \/ \E d \in doomed : k = WithUpdate(d)
  BY DEF Custody, LoadedBy, PloadedBy, InFull, InEmpty, WithThread, WithUpdate, DoomedRounds

\* And for what.
LEMMA OwnerFields ==
    /\ \A c : LoadedBy(c).mag = cc[c].loaded /\ LoadedBy(c).rounds = cc[c].rounds
    /\ \A c : PloadedBy(c).mag = cc[c].ploaded /\ PloadedBy(c).rounds = cc[c].prounds
    /\ \A m : InFull(m).mag = m /\ InFull(m).rounds = Capacity(m)
    /\ \A m : InEmpty(m).mag = m /\ InEmpty(m).rounds = 0
    /\ \A t : /\ WithThread(t).mag = mag[t]
              /\ WithThread(t).rounds = IF mag[t] # NoOne /\ Kind(t) = "full"
                                        THEN Capacity(mag[t]) ELSE 0
    /\ \A d : WithUpdate(d).mag = d.mag /\ WithUpdate(d).rounds = DoomedRounds(d)
  BY DEF LoadedBy, PloadedBy, InFull, InEmpty, WithThread, WithUpdate

\* Where a shell is that somebody answers for.
LEMMA OwnerOf ==
    ASSUME NEW m \in Mags, NEW k \in Custody, k.mag = m
    PROVE  \/ \E c \in CPUs : cc[c].loaded = m /\ k = LoadedBy(c)
           \/ \E c \in CPUs : cc[c].ploaded = m /\ k = PloadedBy(c)
           \/ m \in depot["full"].list /\ k = InFull(m)
           \/ m \in depot["empty"].list /\ k = InEmpty(m)
           \/ \E t \in Threads : mag[t] = m /\ k = WithThread(t)
           \/ \E d \in doomed : d.mag = m /\ k = WithUpdate(d)
  <1>1. CASE \E c \in CPUs : k = LoadedBy(c)
    BY <1>1, OwnerFields
  <1>2. CASE \E c \in CPUs : k = PloadedBy(c)
    BY <1>2, OwnerFields
  <1>3. CASE \E x \in depot["full"].list : k = InFull(x)
    BY <1>3, OwnerFields
  <1>4. CASE \E x \in depot["empty"].list : k = InEmpty(x)
    BY <1>4, OwnerFields
  <1>5. CASE \E t \in Threads : k = WithThread(t)
    BY <1>5, OwnerFields
  <1>6. CASE \E d \in doomed : k = WithUpdate(d)
    BY <1>6, OwnerFields
  <1> QED
    BY <1>1, <1>2, <1>3, <1>4, <1>5, <1>6, Owners

\* A shell has one owner.
LEMMA OneOwner ==
    ASSUME IInv, NEW m \in Shells
    PROVE  \E o : {k \in Custody : k.mag = m} = {o}
  <1>1. Placed /\ Covered /\ Apart /\ m \in Mags /\ m # NoOne
    BY MagazineConstants DEF IInv, Shells
  <1>2. /\ \A b \in CPUs : m \in CpuMags(b) <=> cc[b].loaded = m \/ cc[b].ploaded = m
        /\ \A b \in CPUs : ~(cc[b].loaded = m /\ cc[b].ploaded = m)
    BY <1>1 DEF CpuMags, Apart
  <1>3. \A o \in Custody : o.mag = m /\ (\A k \in Custody : k.mag = m => k = o)
                           => {k \in Custody : k.mag = m} = {o}
    OBVIOUS
  <1>4. CASE \E c \in CPUs : m \in CpuMags(c)
    <2>1. PICK c \in CPUs : m \in CpuMags(c)
      BY <1>4
    <2>2. /\ \A b \in CPUs : m \in CpuMags(b) => b = c
          /\ m \notin depot["full"].list /\ m \notin depot["empty"].list
          /\ \A t \in Threads : mag[t] # m
          /\ \A d \in doomed : d.mag # m
      BY <1>1, <2>1 DEF Apart, Kinds
    <2>3. CASE cc[c].loaded = m
      <3>1. LoadedBy(c) \in Custody /\ LoadedBy(c).mag = m
        BY <2>3, Owners, OwnerFields
      <3>2. \A b \in CPUs : (cc[b].loaded = m => b = c) /\ cc[b].ploaded # m
        BY <1>2, <2>2, <2>3
      <3>3. \A k \in Custody : k.mag = m => k = LoadedBy(c)
        BY <1>1, <2>2, <3>2, OwnerOf
      <3> QED
        BY <1>3, <3>1, <3>3
    <2>4. CASE cc[c].ploaded = m
      <3>1. PloadedBy(c) \in Custody /\ PloadedBy(c).mag = m
        BY <2>4, Owners, OwnerFields
      <3>2. \A b \in CPUs : (cc[b].ploaded = m => b = c) /\ cc[b].loaded # m
        BY <1>2, <2>2, <2>4
      <3>3. \A k \in Custody : k.mag = m => k = PloadedBy(c)
        BY <1>1, <2>2, <3>2, OwnerOf
      <3> QED
        BY <1>3, <3>1, <3>3
    <2> QED
      BY <1>2, <2>1, <2>3, <2>4
  <1>5. CASE m \in depot["full"].list \/ m \in depot["empty"].list
    <2>1. /\ ~(m \in depot["full"].list /\ m \in depot["empty"].list)
          /\ \A b \in CPUs : m \notin CpuMags(b)
          /\ \A t \in Threads : mag[t] # m
          /\ \A d \in doomed : d.mag # m
      <3>1. PICK k \in Kinds : m \in depot[k].list
        BY <1>5 DEF Kinds
      <3>2. \A b \in CPUs : m \notin CpuMags(b)
        BY <1>1, <3>1 DEF Apart
      <3>3. \A t \in Threads : mag[t] # m
        BY <1>1, <3>1, SMT DEF Apart
      <3>4. \A d \in doomed : d.mag # m
        BY <1>1, <3>1, SMT DEF Apart
      <3> QED
        BY <1>1, <3>2, <3>3, <3>4 DEF Apart
    <2>2. CASE m \in depot["full"].list
      <3>1. InFull(m) \in Custody /\ InFull(m).mag = m
        BY <2>2, Owners, OwnerFields
      <3>2. \A k \in Custody : k.mag = m => k = InFull(m)
        BY <1>1, <1>2, <2>1, <2>2, OwnerOf
      <3> QED
        BY <1>3, <3>1, <3>2
    <2>3. CASE m \in depot["empty"].list
      <3>1. InEmpty(m) \in Custody /\ InEmpty(m).mag = m
        BY <2>3, Owners, OwnerFields
      <3>2. \A k \in Custody : k.mag = m => k = InEmpty(m)
        BY <1>1, <1>2, <2>1, <2>3, OwnerOf
      <3> QED
        BY <1>3, <3>1, <3>2
    <2> QED
      BY <1>5, <2>2, <2>3
  <1>6. CASE \E t \in Threads : mag[t] = m
    <2>1. PICK t \in Threads : mag[t] = m
      BY <1>6
    <2>2. /\ \A b \in CPUs : m \notin CpuMags(b)
          /\ m \notin depot["full"].list /\ m \notin depot["empty"].list
          /\ \A u \in Threads : mag[u] = m => u = t
          /\ \A d \in doomed : d.mag # m
      BY <1>1, <2>1 DEF Apart, Kinds
    <2>3. WithThread(t) \in Custody /\ WithThread(t).mag = m
      BY <2>1, Owners, OwnerFields
    <2>4. \A k \in Custody : k.mag = m => k = WithThread(t)
      BY <1>1, <1>2, <2>2, OwnerOf
    <2> QED
      BY <1>3, <2>3, <2>4
  <1>7. CASE \E d \in doomed : d.mag = m
    <2>1. PICK d \in doomed : d.mag = m
      BY <1>7
    <2>2. /\ \A b \in CPUs : m \notin CpuMags(b)
          /\ m \notin depot["full"].list /\ m \notin depot["empty"].list
          /\ \A u \in Threads : mag[u] # m
          /\ \A e \in doomed : e.mag = m => e = d
      BY <1>1, <2>1 DEF Apart, Kinds
    <2>3. WithUpdate(d) \in Custody /\ WithUpdate(d).mag = m
      BY <2>1, Owners, OwnerFields
    <2>4. \A k \in Custody : k.mag = m => k = WithUpdate(d)
      BY <1>1, <1>2, <2>2, OwnerOf
    <2> QED
      BY <1>3, <2>3, <2>4
  <1> QED
    BY <1>1, <1>4, <1>5, <1>6, <1>7 DEF Covered, Kinds

\* Every shell is in exactly one place: no interleaving of reload, give-back, reap,
\* purge and resize loses a magazine or leaves it in two.
THEOREM ShellsHaveOneOwner == Spec => []OneShellOwner
  <1>1. ASSUME IInv PROVE OneShellOwner
    <2> SUFFICES ASSUME NEW m \in Mags
                 PROVE  Cardinality({k \in Custody : k.mag = m}) =
                          IF m \in Shells THEN 1 ELSE 0
      BY DEF OneShellOwner
    <2>1. CASE m \in Shells
      <3>1. PICK o : {k \in Custody : k.mag = m} = {o}
        BY <1>1, <2>1, OneOwner
      <3>2. Cardinality({o}) = 1
        BY FS_Singleton
      <3> QED
        BY <2>1, <3>1, <3>2
    <2>2. CASE m \notin Shells
      <3>1. Placed /\ m # NoOne
        BY <1>1, MagazineConstants DEF IInv
      <3>2. /\ \A c \in CPUs : cc[c].loaded # m /\ cc[c].ploaded # m
            /\ m \notin depot["full"].list /\ m \notin depot["empty"].list
            /\ \A t \in Threads : mag[t] # m
            /\ \A d \in doomed : d.mag # m
        BY <2>2, <3>1 DEF Placed, CpuMags, Kinds
      <3>3. {k \in Custody : k.mag = m} = {}
        BY <3>2, OwnerOf
      <3>4. Cardinality({}) = 0
        BY FS_EmptySet
      <3> QED
        BY <2>2, <3>3, <3>4
    <2> QED
      BY <2>1, <2>2
  <1> QED
    BY <1>1, Inductive, PTL

\* The slots somebody answers for are the occupied ones of the invariant.
LEMMA OwnedSlots ==
    ASSUME NEW m \in Mags, NEW i \in Index
    PROVE  (\E k \in Custody : k.mag = m /\ i <= k.rounds) <=> Occ(m, i)
  <1>1. m # NoOne /\ ~(i <= 0)
    <2>1. m # NoOne
      BY MagazineConstants
    <2>2. ~(i <= 0)
      BY SMT DEF Index
    <2> QED
      BY <2>1, <2>2
  <1>2. ASSUME NEW k \in Custody, k.mag = m, i <= k.rounds PROVE Occ(m, i)
    <2>1. CASE \E c \in CPUs : cc[c].loaded = m /\ k = LoadedBy(c)
      BY <1>2, <2>1, OwnerFields, SMT DEF Occ, OccCpu
    <2>2. CASE \E c \in CPUs : cc[c].ploaded = m /\ k = PloadedBy(c)
      BY <1>2, <2>2, OwnerFields, SMT DEF Occ, OccCpu
    <2>3. CASE m \in depot["full"].list /\ k = InFull(m)
      BY <1>2, <2>3, OwnerFields DEF Occ
    <2>4. CASE m \in depot["empty"].list /\ k = InEmpty(m)
      BY <1>1, <1>2, <2>4, OwnerFields, SMT
    <2>5. CASE \E t \in Threads : mag[t] = m /\ k = WithThread(t)
      <3>1. PICK t \in Threads : mag[t] = m /\ k = WithThread(t)
        BY <2>5
      <3>2. Kind(t) = "full" /\ k.rounds = Capacity(m)
        BY <1>1, <1>2, <3>1, OwnerFields
      <3> QED
        BY <1>2, <3>1, <3>2 DEF Occ
    <2>6. CASE \E d \in doomed : d.mag = m /\ k = WithUpdate(d)
      BY <1>2, <2>6, OwnerFields DEF Occ
    <2> QED
      BY <1>2, <2>1, <2>2, <2>3, <2>4, <2>5, <2>6, OwnerOf
  <1>3. ASSUME Occ(m, i) PROVE \E k \in Custody : k.mag = m /\ i <= k.rounds
    <2>1. CASE \E c \in CPUs : OccCpu(c, m, i)
      <3>1. PICK c \in CPUs : OccCpu(c, m, i)
        BY <2>1
      <3>2. LoadedBy(c) \in Custody /\ PloadedBy(c) \in Custody
        BY Owners
      <3> QED
        BY <3>1, <3>2, OwnerFields, SMT DEF OccCpu
    <2>2. CASE m \in depot["full"].list /\ i <= Capacity(m)
      <3>1. InFull(m) \in Custody
        BY <2>2, Owners
      <3> QED
        BY <2>2, <3>1, OwnerFields
    <2>3. CASE \E t \in Threads : mag[t] = m /\ Kind(t) = "full" /\ i <= Capacity(m)
      <3>1. PICK t \in Threads : mag[t] = m /\ Kind(t) = "full" /\ i <= Capacity(m)
        BY <2>3
      <3>2. WithThread(t) \in Custody
        BY Owners
      <3>3. WithThread(t).mag = m /\ WithThread(t).rounds = Capacity(m)
        BY <1>1, <3>1, OwnerFields
      <3> QED
        BY <3>1, <3>2, <3>3
    <2>4. CASE \E d \in doomed : d.mag = m /\ i <= DoomedRounds(d)
      <3>1. PICK d \in doomed : d.mag = m /\ i <= DoomedRounds(d)
        BY <2>4
      <3>2. WithUpdate(d) \in Custody
        BY Owners
      <3> QED
        BY <3>1, <3>2, OwnerFields
    <2> QED
      BY <1>3, <2>1, <2>2, <2>3, <2>4 DEF Occ
  <1> QED
    BY <1>2, <1>3

\* What is in a slot that counts is in a shell.
LEMMA OccupiedShell ==
    ASSUME IInv, NEW m \in Mags, NEW i \in Index, Occ(m, i)
    PROVE  m \in Shells
  <1>1. Placed /\ m # NoOne
    BY MagazineConstants DEF IInv
  <1>2. CASE \E c \in CPUs : OccCpu(c, m, i)
    BY <1>1, <1>2 DEF OccCpu, Placed, CpuMags
  <1>3. CASE m \in depot["full"].list
    BY <1>1, <1>3 DEF Placed, Kinds
  <1>4. CASE \E t \in Threads : mag[t] = m
    BY <1>1, <1>4 DEF Placed
  <1>5. CASE \E d \in doomed : d.mag = m
    BY <1>1, <1>5 DEF Placed
  <1> QED
    BY <1>2, <1>3, <1>4, <1>5 DEF Occ

\* Slots(b), in terms of the invariant.
LEMMA SlotsAre ==
    ASSUME IInv, NEW b
    PROVE  \A s : s \in Slots(b) <=> \E m \in Mags : \E i \in Index :
                      /\ s = [m |-> m, i |-> i]
                      /\ Occ(m, i) /\ mag_round[m][i] = b
  <1> TAKE s
  <1>1. s \in Slots(b) <=> \E m \in Shells : \E i \in Index :
                               /\ s = [m |-> m, i |-> i] /\ mag_round[m][i] = b
                               /\ \E k \in Custody : k.mag = m /\ i <= k.rounds
    <2>1. s \in Slots(b) <=> /\ s \in [m : Shells, i : Index] /\ mag_round[s.m][s.i] = b
                             /\ \E k \in Custody : k.mag = s.m /\ s.i <= k.rounds
      BY DEF Slots, Index
    <2>2. s \in [m : Shells, i : Index]
          => s.m \in Shells /\ s.i \in Index /\ s = [m |-> s.m, i |-> s.i]
      BY SMT
    <2>3. ASSUME NEW m \in Shells, NEW i \in Index, s = [m |-> m, i |-> i]
          PROVE  s \in [m : Shells, i : Index] /\ s.m = m /\ s.i = i
      BY <2>3, SMT
    <2> QED
      BY <2>1, <2>2, <2>3
  <1>2. \A m \in Shells : m \in Mags
    BY DEF Shells
  <1> QED
    BY <1>1, <1>2, OwnedSlots, OccupiedShell

\* Every buffer is in exactly one place: free in the slab layer, with a caller, on its
\* way into a magazine, or in one occupied slot of one magazine.
THEOREM BuffersHaveOneHome == Spec => []OneHome
  <1>1. ASSUME IInv PROVE OneHome
    <2> SUFFICES ASSUME NEW b \in config.bufs
                 PROVE  Cardinality(Slots(b)) + Cardinality({t \in Threads : obj[t] = b})
                        + (IF b \in slab THEN 1 ELSE 0) + held[b] = 1
      BY DEF OneHome
    <2>1. SlotsHome /\ ObjsHome /\ HeldHome /\ AllHome /\ config \in CONFIGS
      BY <1>1 DEF IInv, Home, Types2
    <2>2. b \in Bufs /\ b # NoOne /\ held[b] \in {0, 1}
      BY <2>1, Configs DEF HeldHome
    <2>3. PICK S, T : S = Slots(b) /\ T = {t \in Threads : obj[t] = b}
      OBVIOUS
    <2>4. \A s : s \in S <=> \E m \in Mags : \E i \in Index :
                      /\ s = [m |-> m, i |-> i]
                      /\ Occ(m, i) /\ mag_round[m][i] = b
      BY <1>1, <2>3, SlotsAre
    <2>5. /\ S # {} => b \notin slab /\ held[b] = 0 /\ T = {}
          /\ T # {} => b \notin slab /\ held[b] = 0 /\ S = {}
          /\ held[b] = 1 => b \notin slab
      <3>1. ASSUME NEW m \in Mags, NEW i \in Index, Occ(m, i), mag_round[m][i] = b
            PROVE  b \notin slab /\ held[b] = 0 /\ \A t \in Threads : obj[t] # b
        BY <2>1, <3>1 DEF SlotsHome, Away
      <3>2. \A t \in Threads : obj[t] = b => b \notin slab /\ held[b] = 0
        BY <2>1, <2>2 DEF ObjsHome, Away
      <3>3. held[b] = 1 => b \notin slab
        BY <2>1, <2>2 DEF HeldHome
      <3>4. S # {} => b \notin slab /\ held[b] = 0 /\ T = {}
        BY <2>3, <2>4, <3>1
      <3> QED
        BY <2>3, <3>2, <3>3, <3>4
    <2>6. Cardinality({}) = 0 /\ \A x : Cardinality({x}) = 1
      BY FS_EmptySet, FS_Singleton
    <2>7. S = {} \/ \E s : S = {s}
      <3>1. \A s, r \in S : s = r
        BY <2>1, <2>4, SMT DEF SlotsHome
      <3> QED
        BY <3>1, SMT
    <2>8. T = {} \/ \E t : T = {t}
      <3>1. \A t, u \in T : t = u
        BY <2>1, <2>2, <2>3 DEF ObjsHome
      <3> QED
        BY <3>1, SMT
    <2>9. b \in slab \/ held[b] = 1 \/ S # {} \/ T # {}
      BY <2>1, <2>3, <2>4 DEF AllHome
    <2>10. /\ Cardinality(S) = IF S = {} THEN 0 ELSE 1
           /\ Cardinality(T) = IF T = {} THEN 0 ELSE 1
      BY <2>6, <2>7, <2>8
    <2>11. Cardinality(S) + Cardinality(T) + (IF b \in slab THEN 1 ELSE 0) + held[b] = 1
      BY <2>2, <2>5, <2>9, <2>10, SMT
    <2> QED
      BY <2>3, <2>11
  <1> QED
    BY <1>1, Inductive, PTL

\* A magazine is what the place it is in says it is: full on the full list, of the
\* CPU's size in a CPU, used up when umem_cpu_reload replaces it.
THEOREM MagazinesFitPlaces == Spec => []MagazinesFit
  <1>1. ASSUME IInv PROVE MagazinesFit
    <2>1. /\ Types2 /\ Home /\ Placed /\ \A c \in CPUs : CpuSound(c)
          /\ \A t \in Threads : Hands(t) /\ Locked(t)
      BY <1>1 DEF IInv
    <2>2. TypeOK
      BY <2>1 DEF Types2
    <2>3. FullIsFull
      <3> SUFFICES ASSUME NEW m \in depot["full"].list, NEW i \in 1 .. Capacity(m)
                   PROVE  mag_round[m][i] # NoOne
        BY DEF FullIsFull
      <3>1. m \in Shells /\ m \in Mags
        BY <2>1 DEF Placed, Kinds, Shells
      <3>2. Capacity(m) \in 1 .. MAXSIZE /\ MAXSIZE \in Nat
        BY <2>1, <3>1, ShellCapacity, Sizes
      <3>3. i \in Index /\ i <= Capacity(m)
        BY <3>2, SMT DEF Index
      <3>4. Occ(m, i)
        BY <3>3 DEF Occ
      <3>5. mag_round[m][i] \in config.bufs
        BY <2>1, <3>1, <3>3, <3>4 DEF Home, SlotsHome, Away
      <3> QED
        BY <2>1, <3>5, Configs DEF Types2
    <2>4. MagsizeMatches
      BY <2>1, SMT DEF MagsizeMatches, CpuSound
    <2>5. ReloadSound
      <3> SUFFICES ASSUME NEW t \in Threads, pc[t] = "got", op[t] \in {"alloc", "free"}
                   PROVE  /\ cc[cpu[t]].lock = t
                          /\ cc[cpu[t]].magsize > 0 /\ cc[cpu[t]].magsize = Capacity(mag[t])
                          /\ \/ cc[cpu[t]].loaded = NoOne /\ cc[cpu[t]].rounds = -1
                             \/ /\ cc[cpu[t]].loaded # NoOne
                                /\ cc[cpu[t]].rounds
                                   + (IF op[t] = "alloc" THEN cc[cpu[t]].magsize ELSE 0)
                                   = cc[cpu[t]].magsize
        BY DEF ReloadSound
      <3>1. PICK c \in CPUs : c = cpu[t]
        BY <1>1, GotMagazine DEF CacheOps
      <3>2. /\ Locks(t) /\ Capacity(mag[t]) = cc[c].magsize
            /\ cc[c].magsize \in 1 .. MAXSIZE /\ ~Serves(t, cc[c])
        BY <1>1, <3>1, GotMagazine DEF CacheOps
      <3>3. cc[c].lock = t /\ cc[c].magsize > 0
        BY <2>1, <3>1, <3>2 DEF Locked
      <3>4. PICK n, s : n = cc[c].rounds /\ s = cc[c].magsize
        OBVIOUS
      <3>5. /\ cc[c].loaded = NoOne => n = -1
            /\ cc[c].loaded # NoOne => n \in 0 .. s
            /\ s \in Nat
        BY <2>1, <3>4, CpuTypes DEF CpuSound
      <3>6. /\ op[t] = "alloc" => ~(n > 0)
            /\ op[t] = "free" => n \notin 0 .. (s - 1)
        BY <3>2, <3>4 DEF Serves
      <3>7. cc[c].loaded # NoOne => n + (IF op[t] = "alloc" THEN s ELSE 0) = s
        BY <3>5, <3>6, SMT
      <3> QED
        BY <3>1, <3>2, <3>3, <3>4, <3>5, <3>7
    <2> QED
      BY <2>2, <2>3, <2>4, <2>5 DEF MagazinesFit
  <1> QED
    BY <1>1, Inductive, PTL

\* umem_cache_destroy gets every buffer back into the slab layer and frees every
\* shell; and unless magazines are outside the depot while it is resized, what is in
\* the slab layer has been through the destructor.
THEOREM ReturnsClean == Spec => []ReturnedClean
  <1>1. ASSUME IInv PROVE ReturnedClean
    <2>1. /\ Types2 /\ Home /\ Placed /\ Covered /\ Job /\ Drained /\ Fresh
          /\ \A c \in CPUs : CpuSound(c)
          /\ \A t \in Threads : Hands(t)
      BY <1>1 DEF IInv
    <2>2. ASSUME upd = "gone" PROVE slab = config.bufs /\ Shells = {}
      <3>1. /\ why = "destroy" /\ to_purge = {} /\ doomed = {}
            /\ \A t \in Threads : pc[t] = "idle"
            /\ \A b \in Bufs : held[b] = 0
        BY <2>1, <2>2 DEF Job
      <3>2. \A t \in Threads : obj[t] = NoOne /\ mag[t] = NoOne
        BY <2>1, <3>1 DEF Hands
      <3>3. \A k \in Kinds : depot[k].list = {}
        BY <2>1, <2>2, <3>1 DEF Drained, Sealed
      <3>4. \A c \in config.cpus : cc[c].magsize = 0
        <4>1. Purging
          BY <2>2, <3>1 DEF Purging
        <4> QED
          BY <2>1, <3>1, <4>1, SMT DEF Job
      <3>5. \A c \in CPUs : CpuMags(c) = {}
        <4> SUFFICES ASSUME NEW c \in CPUs, NEW m \in CpuMags(c) PROVE FALSE
          OBVIOUS
        <4>1. c \in config.cpus /\ Capacity(m) = cc[c].magsize
          BY <2>1, SMT DEF CpuSound, CpuMags
        <4>2. m \in Shells
          BY <2>1 DEF Placed
        <4>3. Capacity(m) \in Nat /\ Capacity(m) > 0
          BY <2>1, <4>2, ShellCapacity
        <4> QED
          BY <3>4, <4>1, <4>3, SMT
      <3>6. Shells = {}
        <4>1. \A m \in Shells : m \in Mags /\ m # NoOne
          BY MagazineConstants DEF Shells
        <4> QED
          BY <2>1, <3>1, <3>2, <3>3, <3>5, <4>1 DEF Covered
      <3>7. \A m \in Mags : \A i \in Index : ~Occ(m, i)
        BY <1>1, <3>6, OccupiedShell
      <3>8. slab \subseteq config.bufs
        BY <2>1 DEF Home, HeldHome
      <3>9. \A b \in config.bufs : b \in slab
        <4>1. \A b \in config.bufs : b \in Bufs /\ b # NoOne /\ held[b] # 1
          <5>1. \A b \in Bufs : held[b] # 1
            BY <3>1, SMT
          <5> QED
            BY <2>1, <5>1, Configs DEF Types2
        <4> QED
          BY <2>1, <3>2, <3>7, <4>1 DEF Home, AllHome
      <3> QED
        BY <3>6, <3>8, <3>9
    <2>3. DestructorRan
      BY <2>1 DEF DestructorRan, Fresh
    <2> QED
      BY <2>2, <2>3 DEF ReturnedClean, DestroyClean
  <1> QED
    BY <1>1, Inductive, PTL

\* Counting a caller in keeps the contract: nobody had the buffer.
LEMMA TakenOnce ==
    ASSUME IInv, IInv', NEW x, held' = [held EXCEPT ![x] = held[x] + 1]
    PROVE  [Contract!Next]_held
  <1>1. /\ held \in [Bufs -> Nat] /\ (\A b \in Bufs : held[b] \in {0, 1})
        /\ (\A b \in Bufs : held'[b] \in {0, 1})
    BY DEF IInv, Types2, TypeOK, Home, HeldHome
  <1>2. CASE x \notin Bufs
    <2>1. held' = held
      BY <1>1, <1>2
    <2> QED
      BY <2>1
  <1>3. CASE x \in Bufs
    <2>1. held'[x] = held[x] + 1
      BY <1>1, <1>3
    <2>2. held[x] = 0 /\ held[x] + 1 = 1
      BY <1>1, <1>3, <2>1, SMT
    <2>3. held' = [held EXCEPT ![x] = 1]
      BY <2>2
    <2> QED
      BY <1>3, <2>2, <2>3 DEF Contract!Next, Contract!Alloc
  <1> QED
    BY <1>2, <1>3

\* A step of the magazine layer is a step of Allocator, or invisible to it.
LEMMA StepImplements ==
    ASSUME IInv, IInv', [Next]_vars
    PROVE  [Contract!Next]_held
  <1>1. CASE UNCHANGED vars
    BY <1>1 DEF vars, bufferVars
  <1>2. ASSUME NEW t \in config.threads, ThreadStep(t) PROVE [Contract!Next]_held
    <2>1. CASE CallFree(t)
      <3>1. PICK b \in Bufs : held[b] > 0 /\ held' = [held EXCEPT ![b] = held[b] - 1]
        BY <2>1 DEF CallFree
      <3>2. held[b] \in {0, 1}
        BY DEF IInv, Home, HeldHome
      <3>3. held[b] = 1 /\ held[b] - 1 = 0
        BY <3>1, <3>2, SMT
      <3>4. held' = [held EXCEPT ![b] = 0]
        BY <3>1, <3>3
      <3> QED
        BY <3>3, <3>4 DEF Contract!Next, Contract!Free
    <2>2. CASE AllocHit(t)
      <3>1. \E x : held' = [held EXCEPT ![x] = held[x] + 1]
        BY <2>2 DEF AllocHit, PopRound
      <3> QED
        BY <3>1, TakenOnce
    <2>3. CASE AllocReload(t)
      <3>1. \E x : held' = [held EXCEPT ![x] = held[x] + 1]
        BY <2>3 DEF AllocReload, PopRound
      <3> QED
        BY <3>1, TakenOnce
    <2>4. CASE SlabAlloc(t)
      <3>1. (\E x : held' = [held EXCEPT ![x] = held[x] + 1]) \/ held' = held
        BY <2>4 DEF SlabAlloc, bufferVars
      <3> QED
        BY <3>1, TakenOnce
    <2>5. CASE \/ CallAlloc(t) \/ DepotPop(t) \/ DepotNone(t) \/ DestroyStale(t)
               \/ FreeHit(t) \/ Miss(t) \/ FreeReload(t)
      <3>1. held' = held
        BY <2>5 DEF CallAlloc, DepotPop, DepotNone, DestroyStale, FreeHit, Miss, FreeReload,
                    bufferVars
      <3> QED
        BY <3>1
    <2>6. CASE \/ MagAlloc(t) \/ MagDonate(t) \/ MagDiscard(t) \/ MagNone(t)
               \/ SlabFree(t) \/ RseqPull(t) \/ RseqGiveBack(t)
      <3>1. held' = held
        BY <2>6 DEF MagAlloc, MagDonate, MagDiscard, MagNone, SlabFree, RseqPull,
                    RseqGiveBack, bufferVars
      <3> QED
        BY <3>1
    <2> QED
      BY <1>2, <2>1, <2>2, <2>3, <2>4, <2>5, <2>6 DEF ThreadStep
  <1>3. CASE UpdateStep
    <2>1. held' = held
      BY <1>3 DEF UpdateStep, WsUpdate, PurgeWsUpdate, MarkExcess, SetMagtype, StartJob,
                  PurgeCpu, Enable, DestroyMag, WsReap, bufferVars
    <2> QED
      BY <2>1
  <1>4. CASE Gone
    BY <1>4 DEF Gone, vars, bufferVars
  <1> QED
    BY <1>1, <1>2, <1>3, <1>4 DEF Next

\* The magazine layer hands out a buffer only while nobody has it.
THEOREM MagazineImplementsAllocator == Spec => ImplementsAllocator
  <1>1. Init => Contract!Init
    BY DEF Init, Contract!Init
  <1>2. IInv /\ IInv' /\ [Next]_vars => [Contract!Next]_held
    BY StepImplements
  <1> QED
    BY <1>1, <1>2, Inductive, PTL DEF Spec, ImplementsAllocator, Contract!Spec

=============================================================================
