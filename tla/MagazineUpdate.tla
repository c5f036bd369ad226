--------------------------- MODULE MagazineUpdate ---------------------------
(***************************************************************************)
(* The hits and reloads of the CPU caches, and the steps of the update     *)
(* thread and of umem_cache_destroy on the magazine layer, keep the        *)
(* inductive invariant of MagazineSteps.                                   *)
(***************************************************************************)
EXTENDS MagazineSteps

\* The default prover of this module.
USE Zenon

-----------------------------------------------------------------------------
(* The CPU cache: hits and reloads.                                        *)

\* CpuSound and OccCpu, of a record that a CPU has or is about to have.
Sound(c, r) ==
    /\ r.loaded = NoOne <=> r.rounds = -1
    /\ r.ploaded = NoOne <=> r.prounds = -1
    /\ r.loaded # NoOne => r.rounds \in 0 .. r.magsize /\ Capacity(r.loaded) = r.magsize
    /\ r.ploaded # NoOne =>
          r.prounds \in {0, r.magsize} /\ Capacity(r.ploaded) = r.magsize
    /\ c \notin config.cpus => r.loaded = NoOne /\ r.ploaded = NoOne
    /\ c \in config.cpus => r.magsize \in {0, MAGSIZES[cache_magtype]}
OccRec(r, m, i) == \/ r.loaded = m /\ i <= r.rounds
                   \/ r.ploaded = m /\ i <= r.prounds

\* A CPU that is given a sound record is sound, and so are the others.
LEMMA SetCpu ==
    ASSUME Types2, \A c \in CPUs : CpuSound(c), NEW c \in CPUs, NEW r \in CpuRecords,
           cc' = [cc EXCEPT ![c] = r], Sound(c, r),
           UNCHANGED <<config, cache_magtype, mag_type>>
    PROVE  /\ cc' \in [CPUs -> CpuRecords] /\ cc'[c] = r
           /\ \A b \in CPUs \ {c} : cc'[b] = cc[b]
           /\ \A b \in CPUs : CpuSound(b)'
  <1>1. cc \in [CPUs -> CpuRecords]
    BY DEF Types2, TypeOK, CpuRecords
  <1>2. /\ cc' \in [CPUs -> CpuRecords] /\ cc'[c] = r
        /\ \A b \in CPUs \ {c} : cc'[b] = cc[b]
    BY <1>1
  <1>3. \A b \in CPUs \ {c} : CpuSound(b)'
    BY <1>2, CpuStable DEF SameCpu
  <1>4. CpuSound(c)'
    BY <1>2 DEF CpuSound, Sound, Capacity
  <1> QED
    BY <1>2, <1>3, <1>4

\* umem_cpu_reload with the two magazines exchanged: the CPU counts for the same
\* slots as before.
LEMMA ExchangedSound ==
    ASSUME Types2, NEW c \in CPUs, CpuSound(c), cc[c].rounds \in {-1, 0, cc[c].magsize}
    PROVE  /\ Exchanged(cc[c]) \in CpuRecords /\ Sound(c, Exchanged(cc[c]))
           /\ Exchanged(cc[c]).loaded = cc[c].ploaded
           /\ Exchanged(cc[c]).ploaded = cc[c].loaded
           /\ Exchanged(cc[c]).rounds = cc[c].prounds
           /\ Exchanged(cc[c]).prounds = cc[c].rounds
           /\ Exchanged(cc[c]).magsize = cc[c].magsize
  <1>1. cc[c] \in CpuRecords
    BY DEF Types2, TypeOK, CpuRecords
  <1>2. /\ Exchanged(cc[c]) \in CpuRecords
        /\ Exchanged(cc[c]).loaded = cc[c].ploaded
        /\ Exchanged(cc[c]).ploaded = cc[c].loaded
        /\ Exchanged(cc[c]).rounds = cc[c].prounds
        /\ Exchanged(cc[c]).prounds = cc[c].rounds
        /\ Exchanged(cc[c]).magsize = cc[c].magsize
    BY <1>1 DEF Exchanged, Reload, CpuRecords
  <1>3. cc[c].magsize \in Nat /\ cc[c].rounds \in Int /\ cc[c].prounds \in Int
    BY <1>1, Sizes, SMT DEF CpuRecords
  <1>4. Sound(c, Exchanged(cc[c]))
    BY <1>2, <1>3, SMT DEF CpuSound, Sound
  <1> QED
    BY <1>2, <1>4

\* Taking the last round of the loaded magazine, and putting one on top of it,
\* leave the record sound; cc_lock is dropped.
LEMMA PopSound ==
    ASSUME NEW c \in CPUs, NEW q \in CpuRecords, Sound(c, q), q.rounds > 0
    PROVE  LET r == [q EXCEPT !.rounds = @ - 1, !.lock = NoOne]
           IN  /\ r \in CpuRecords /\ Sound(c, r) /\ r.lock = NoOne
               /\ r.loaded = q.loaded /\ r.ploaded = q.ploaded /\ r.magsize = q.magsize
               /\ r.rounds = q.rounds - 1 /\ r.prounds = q.prounds
  <1> DEFINE r == [q EXCEPT !.rounds = @ - 1, !.lock = NoOne]
  <1>1. q.rounds \in -1 .. MAXSIZE /\ MAXSIZE \in Nat
    BY Sizes DEF CpuRecords
  <1>2. q.rounds - 1 \in -1 .. MAXSIZE
    BY <1>1, SMT
  <1>3. /\ r \in CpuRecords /\ r.lock = NoOne
        /\ r.loaded = q.loaded /\ r.ploaded = q.ploaded /\ r.magsize = q.magsize
        /\ r.rounds = q.rounds - 1 /\ r.prounds = q.prounds
    BY <1>2 DEF CpuRecords
  <1>4. q.magsize \in Nat
    BY Sizes, SMT DEF CpuRecords
  <1> HIDE DEF r
  <1>5. Sound(c, r)
    BY <1>1, <1>3, <1>4, SMT DEF Sound
  <1> QED
    BY <1>3, <1>5 DEF r

\* A round pushed on the loaded magazine (_umem_cache_free's ccp->cc_rounds++)
\* keeps the CPU's record in order while it had room.
LEMMA PushSound ==
    ASSUME NEW c \in CPUs, NEW q \in CpuRecords, Sound(c, q),
           q.loaded # NoOne, q.rounds < q.magsize
    PROVE  LET r == [q EXCEPT !.rounds = @ + 1, !.lock = NoOne]
           IN  /\ r \in CpuRecords /\ Sound(c, r) /\ r.lock = NoOne
               /\ r.loaded = q.loaded /\ r.ploaded = q.ploaded /\ r.magsize = q.magsize
               /\ r.rounds = q.rounds + 1 /\ r.prounds = q.prounds
  <1> DEFINE r == [q EXCEPT !.rounds = @ + 1, !.lock = NoOne]
  <1>1. q.rounds \in -1 .. MAXSIZE /\ MAXSIZE \in Nat
    BY Sizes DEF CpuRecords
  <1>2. q.magsize \in 0 .. MAXSIZE
    BY Sizes, SMT DEF CpuRecords
  <1>3. q.rounds + 1 \in -1 .. MAXSIZE
    BY <1>1, <1>2, SMT
  <1>4. /\ r \in CpuRecords /\ r.lock = NoOne
        /\ r.loaded = q.loaded /\ r.ploaded = q.ploaded /\ r.magsize = q.magsize
        /\ r.rounds = q.rounds + 1 /\ r.prounds = q.prounds
    BY <1>3 DEF CpuRecords
  <1> HIDE DEF r
  <1>5. Sound(c, r)
    BY <1>1, <1>2, <1>4, SMT DEF Sound
  <1> QED
    BY <1>4, <1>5 DEF r

\* CPU c alone is changed, and keeps its magazines; thread t has none.
OneCpu(t, c, r) ==
    /\ cc'[c] = r /\ \A b \in CPUs \ {c} : cc'[b] = cc[b]
    /\ \A x : x \in {r.loaded, r.ploaded} \ {NoOne} <=> x \in CpuMags(c)
    /\ r.loaded # NoOne => r.loaded # r.ploaded
    /\ mag[t] = NoOne /\ \A u \in Threads \ {t} : op'[u] = op[u]
    /\ UNCHANGED <<depot, mag, doomed, mag_type>>

\* All shells stay where they are.
LEMMA OneCpuMoves ==
    ASSUME Placed, Covered, Apart, NEW t \in Threads, NEW c \in CPUs, NEW r, OneCpu(t, c, r)
    PROVE  Placed' /\ Covered' /\ Apart'
  <1>1. \A b \in CPUs : CpuMags(b)' = CpuMags(b)
    <2>1. \A b \in CPUs \ {c} : CpuMags(b)' = CpuMags(b)
      BY DEF OneCpu, CpuMags
    <2>2. CpuMags(c)' = {r.loaded, r.ploaded} \ {NoOne}
      BY DEF OneCpu, CpuMags
    <2> QED
      BY <2>1, <2>2 DEF OneCpu
  <1>2. Shells' = Shells /\ depot' = depot /\ mag' = mag /\ doomed' = doomed
    BY DEF OneCpu, Shells
  <1>3. \A b \in CPUs : cc'[b].loaded # NoOne => cc'[b].loaded # cc'[b].ploaded
    BY SMT DEF OneCpu, Apart
  <1>4. Placed' /\ Covered'
    BY <1>1, <1>2 DEF Placed, Covered
  <1>5. Apart'
    BY <1>1, <1>2, <1>3, SMT DEF Apart
  <1> QED
    BY <1>4, <1>5

\* Only the slots of the magazine n whose count changes change.
LEMMA OneCpuOcc ==
    ASSUME Apart, NEW t \in Threads, NEW c \in CPUs, NEW r, OneCpu(t, c, r),
           NEW n \in CpuMags(c), n \in Mags,
           \A x \in Mags \ {n} : \A i \in Index : OccRec(r, x, i) <=> OccRec(cc[c], x, i)
    PROVE  /\ \A i \in Index : Occ(n, i) <=> OccRec(cc[c], n, i)
           /\ \A i \in Index : Occ(n, i)' <=> OccRec(r, n, i)
           /\ \A x \in Mags \ {n} : \A i \in Index : Occ(x, i)' <=> Occ(x, i)
  <1>1. /\ depot' = depot /\ mag' = mag /\ doomed' = doomed /\ mag[t] = NoOne
        /\ \A u \in Threads \ {t} : Kind(u)' = Kind(u)
        /\ \A x : Capacity(x)' = Capacity(x)
    BY DEF OneCpu, Kind, Capacity
  <1>2. /\ \A b \in CPUs \ {c} : \A x, i : OccCpu(b, x, i)' <=> OccCpu(b, x, i)
        /\ \A x, i : OccCpu(c, x, i)' <=> OccRec(r, x, i)
        /\ \A x, i : OccCpu(c, x, i) <=> OccRec(cc[c], x, i)
    BY DEF OneCpu, OccCpu, OccRec
  <1>3. \A d \in doomed : DoomedRounds(d)' = DoomedRounds(d)
    BY <1>1 DEF DoomedRounds
  <1>4. /\ \A b \in CPUs \ {c} : n \notin CpuMags(b)
        /\ n \notin depot["full"].list /\ n # NoOne
        /\ \A u \in Threads : mag[u] # n
        /\ \A d \in doomed : d.mag # n
    BY DEF Apart, Kinds, CpuMags
  <1>5. \A b \in CPUs \ {c} : \A i : ~OccCpu(b, n, i)
    BY <1>4 DEF OccCpu, CpuMags
  <1>6. \A i \in Index : Occ(n, i) <=> OccRec(cc[c], n, i)
    BY <1>2, <1>4, <1>5 DEF Occ
  <1>7. \A i \in Index : Occ(n, i)' <=> OccRec(r, n, i)
    BY <1>1, <1>2, <1>4, <1>5 DEF Occ
  <1>8. \A x \in Mags \ {n} : \A i \in Index : Occ(x, i)' <=> Occ(x, i)
    <2> TAKE x \in Mags \ {n}
    <2> TAKE i \in Index
    <2>1. \A b \in CPUs : OccCpu(b, x, i)' <=> OccCpu(b, x, i)
      BY <1>2
    <2>2. x # NoOne
      BY MagazineConstants
    <2>3. \A u \in Threads : mag[u] = x => Kind(u)' = Kind(u)
      BY <1>1, <2>2
    <2> QED
      BY <1>1, <1>3, <2>1, <2>3 DEF Occ
  <1> QED
    BY <1>6, <1>7, <1>8

\* The buffer of slot r of magazine n goes to the caller, and the slot does not
\* count any more.
LEMMA SlotTaken ==
    ASSUME Home, Types2, NEW n \in Mags, NEW r \in Index, Occ(n, r), NEW b,
           b = mag_round[n][r],
           held' = [held EXCEPT ![b] = @ + 1], UNCHANGED <<slab, obj, config, mag_round>>,
           \A x \in Mags : \A i \in Index : Occ(x, i)' <=> Occ(x, i) /\ ~(x = n /\ i = r)
    PROVE  Home' /\ held' \in [Bufs -> Nat]
  <1>1. Away(b) /\ b \in Bufs /\ held[b] = 0
    BY Configs DEF Home, SlotsHome, Away, Types2
  <1>2. /\ held'[b] = 1 /\ \A x \in Bufs \ {b} : held'[x] = held[x]
        /\ held' \in [Bufs -> Nat]
    BY <1>1, SMT DEF Types2, TypeOK
  <1>3. \A x : Away(x)' <=> Away(x) /\ x # b
    BY <1>2, Configs, SMT DEF Away, Types2
  <1>4. \A x \in Mags : \A i \in Index : Occ(x, i)' => Occ(x, i) /\ mag_round[x][i] # b
    BY DEF Home, SlotsHome
  <1>5. SlotsHome'
    BY <1>3, <1>4, SMT DEF Home, SlotsHome
  <1>6. ObjsHome'
    BY <1>3 DEF Home, ObjsHome, SlotsHome
  <1>7. HeldHome'
    BY <1>1, <1>2 DEF Home, HeldHome, Away
  <1>8. AllHome'
    <2> SUFFICES ASSUME NEW x \in config.bufs, x \notin slab, held'[x] # 1,
                        \A u \in Threads : obj[u] # x
                 PROVE  \E m \in Mags : \E i \in Index : Occ(m, i)' /\ mag_round[m][i] = x
      BY SMT DEF AllHome
    <2>1. x # b /\ held[x] # 1
      BY <1>2, Configs DEF Types2
    <2>2. PICK m \in Mags, i \in Index : Occ(m, i) /\ mag_round[m][i] = x
      BY <2>1 DEF Home, AllHome
    <2> QED
      BY <2>1, <2>2
  <1> QED
    BY <1>2, <1>5, <1>6, <1>7, <1>8 DEF Home

\* The buffer that thread t frees goes into slot r of magazine n, which counts
\* from then on.
LEMMA SlotFilled ==
    ASSUME Home, Types2, NEW t \in Threads, NEW n \in Mags, NEW r \in Index, ~Occ(n, r),
           obj[t] # NoOne, obj'[t] = NoOne, \A u \in Threads \ {t} : obj'[u] = obj[u],
           mag_round' = [mag_round EXCEPT ![n][r] = obj[t]],
           UNCHANGED <<slab, held, config>>,
           \A x \in Mags : \A i \in Index : Occ(x, i)' <=> Occ(x, i) \/ (x = n /\ i = r)
    PROVE  Home' /\ mag_round' \in [Mags -> [1..MAXSIZE -> Bufs \cup {NoOne}]]
  <1>1. PICK b : b = obj[t]
    OBVIOUS
  <1>2. Away(b) /\ b \in Bufs
    BY <1>1, Configs DEF Home, ObjsHome, Away, Types2
  <1>3. /\ mag_round'[n][r] = b
        /\ \A x \in Mags : \A i \in Index :
              ~(x = n /\ i = r) => mag_round'[x][i] = mag_round[x][i]
        /\ mag_round' \in [Mags -> [1..MAXSIZE -> Bufs \cup {NoOne}]]
    BY <1>1, <1>2 DEF Types2, TypeOK, Index
  <1>4. \A x : Away(x)' <=> Away(x)
    BY DEF Away
  <1>5. \A x \in Mags : \A i \in Index : Occ(x, i) =>
           mag_round'[x][i] = mag_round[x][i] /\ mag_round[x][i] # b
    BY <1>1, <1>3, SMT DEF Home, SlotsHome
  <1>6. \A u \in Threads : obj'[u] # b /\ (obj'[u] = NoOne \/ obj'[u] = obj[u])
    BY <1>1 DEF Home, ObjsHome
  <1>7. SlotsHome'
    <2>1. \A m \in Mags : \A i \in Index : Occ(m, i)' => Away(mag_round'[m][i])
      BY <1>2, <1>3, <1>5, SMT DEF Home, SlotsHome
    <2>2. \A m, x \in Mags : \A i, j \in Index :
             Occ(m, i)' /\ Occ(x, j)' /\ mag_round'[m][i] = mag_round'[x][j]
             => m = x /\ i = j
      BY <1>3, <1>5, SMT DEF Home, SlotsHome
    <2>3. \A m \in Mags : \A i \in Index : \A u \in Threads :
             Occ(m, i)' => mag_round'[m][i] # obj'[u]
      <3>1. \A m \in Mags : \A i \in Index : Occ(m, i)' => mag_round'[m][i] # NoOne
        BY <2>1, Configs DEF Away, Types2
      <3> QED
        BY <1>3, <1>5, <1>6, <3>1, SMT DEF Home, SlotsHome
    <2> QED
      BY <1>4, <2>1, <2>2, <2>3 DEF SlotsHome
  <1>8. ObjsHome'
    BY <1>4, <1>6 DEF Home, ObjsHome
  <1>9. HeldHome'
    BY DEF Home, HeldHome
  <1>10. AllHome'
    <2> SUFFICES ASSUME NEW x \in config.bufs, x \notin slab, held[x] # 1,
                        \A u \in Threads : obj'[u] # x
                 PROVE  \E m \in Mags : \E i \in Index : Occ(m, i)' /\ mag_round'[m][i] = x
      BY DEF AllHome
    <2>1. CASE x = b
      BY <1>3, <2>1
    <2>2. CASE x # b
      <3>1. \A u \in Threads : obj[u] # x
        BY <1>1, <2>2
      <3>2. PICK m \in Mags, i \in Index : Occ(m, i) /\ mag_round[m][i] = x
        BY <3>1 DEF Home, AllHome
      <3> QED
        BY <1>5, <3>2
    <2> QED
      BY <2>1, <2>2
  <1> QED
    BY <1>3, <1>7, <1>8, <1>9, <1>10 DEF Home

\* The CPU's record as it is, or with the two magazines exchanged.
Facing(c, q) ==
    /\ q \in CpuRecords /\ Sound(c, q) /\ q.magsize = cc[c].magsize
    /\ \/ /\ q.loaded = cc[c].loaded /\ q.rounds = cc[c].rounds
          /\ q.ploaded = cc[c].ploaded /\ q.prounds = cc[c].prounds
       \/ /\ q.loaded = cc[c].ploaded /\ q.rounds = cc[c].prounds
          /\ q.ploaded = cc[c].loaded /\ q.prounds = cc[c].rounds

\* The call is served by the loaded magazine, whichever it is now: what is left
\* to show is that the buffers are at home.
LEMMA HitSuffices ==
    ASSUME IInv, NEW t \in Threads, pc[t] = "top", CanLock(t, cpu[t]), Finish(t),
           NEW c \in CPUs, c = cpu[t], NEW q, Facing(c, q), NEW r \in CpuRecords, Sound(c, r),
           r.lock = NoOne, r.loaded = q.loaded, r.ploaded = q.ploaded,
           r.magsize = q.magsize, cc' = [cc EXCEPT ![c] = r],
           UNCHANGED <<config, depot, cache_magtype, slab, constructed, mag_type, mag_total,
                       updateVars>>,
           held' \in [Bufs -> Nat], Home',
           mag_round' \in [Mags -> [1..MAXSIZE -> Bufs \cup {NoOne}]]
    PROVE  IInv'
  <1>1. /\ Types2 /\ Hands(t) /\ Locked(t) /\ Fresh /\ Placed /\ Covered /\ Apart
        /\ Tally /\ Drained /\ Job /\ \A b \in CPUs : CpuSound(b)
    BY DEF IInv
  <1>2. /\ cc' \in [CPUs -> CpuRecords] /\ cc'[c] = r
        /\ \A b \in CPUs \ {c} : cc'[b] = cc[b]
        /\ \A b \in CPUs : CpuSound(b)'
    BY <1>1, SetCpu
  <1>3. /\ doomed' = doomed /\ upd' = upd /\ why' = why /\ to_purge' = to_purge
    BY DEF updateVars
  <1>4. t # NoOne /\ why # "destroy" /\ mag[t] = NoOne
    BY <1>1, InCall, MagazineConstants DEF Hands
  <1>5. \A b \in CPUs : cc'[b].lock # t
    BY <1>1, <1>2, <1>4 DEF Locked
  <1>6. /\ Others(t) /\ Hands(t)' /\ Locked(t)'
        /\ pc'[t] = "idle" /\ op'[t] = "none" /\ obj'[t] = NoOne /\ mag'[t] = NoOne
        /\ pc' \in [Threads -> PCs]
        /\ op' \in [Threads -> {"none", "alloc", "free", "rseq_alloc", "rseq_free"}]
        /\ cpu' \in [Threads -> CPUs \cup {NoOne}]
        /\ mtp' \in [Threads -> {0} \cup Types]
        /\ obj' \in [Threads -> Bufs \cup {NoOne}]
        /\ mag' \in [Threads -> Mags \cup {NoOne}]
    BY <1>1, <1>5, Finished
  <1>7. mag' = mag
    BY <1>1, <1>4 DEF Finish, Types2, TypeOK
  <1>8. OneCpu(t, c, r)
    <2>1. \A x : x \in {r.loaded, r.ploaded} \ {NoOne} <=> x \in CpuMags(c)
      BY DEF Facing, CpuMags
    <2>2. r.loaded # NoOne => r.loaded # r.ploaded
      BY <1>1, SMT DEF Facing, Apart
    <2> QED
      BY <1>2, <1>3, <1>4, <1>6, <1>7, <2>1, <2>2 DEF OneCpu, Others
  <1>9. Placed' /\ Covered' /\ Apart'
    BY <1>1, <1>8, OneCpuMoves
  <1>10. Types2'
    BY <1>1, <1>2, <1>3, <1>6 DEF Types2, TypeOK, CpuRecords
  <1>11. OwnCpu(t) /\ OwnShell(t)
    BY <1>2 DEF OwnCpu, OwnShell, CanLock
  <1>12. \A b \in CPUs : cc'[b].magsize = cc[b].magsize
    BY <1>2 DEF Facing
  <1>13. Tally'
    <2>1. Counted' = Counted
      BY <1>6, <1>7, SMT DEF Counted, Others
    <2> QED
      BY <1>1, <2>1 DEF Tally
  <1>14. Drained'
    BY <1>1, <1>3, DrainedStable
  <1>15. Fresh'
    <2>1. \A x : Valid(x)' <=> Valid(x)
      BY DEF Valid
    <2> QED
      BY <1>1, <1>3, <1>6, <2>1 DEF Fresh, Others
  <1> QED
    BY <1>2, <1>3, <1>4, <1>6, <1>9, <1>10, <1>11, <1>12, <1>13, <1>14, <1>15,
       ThreadSuffices

\* The loaded magazine, or the previous one, has a round.
LEMMA AllocHitInv ==
    ASSUME IInv, NEW t \in Threads, AllocHit(t), UNCHANGED config
    PROVE  IInv'
  <1>1. /\ Types2 /\ Hands(t) /\ Home /\ Placed /\ Covered /\ Apart
        /\ \A c \in CPUs : CpuSound(c)
    BY DEF IInv
  <1>2. /\ pc[t] = "top" /\ op[t] = "alloc" /\ CanLock(t, cpu[t]) /\ Finish(t)
        /\ UNCHANGED <<depot, cache_magtype, slab, constructed, updateVars, shellVars>>
    BY DEF AllocHit
  <1>3. PICK c \in CPUs : c = cpu[t]
    BY <1>1, <1>2, Configs DEF Hands, CacheOps, Types2
  <1>4. PICK q : q = IF cc[c].rounds > 0 THEN cc[c] ELSE Exchanged(cc[c])
    OBVIOUS
  <1>5. PopRound(t, q) /\ Serves(t, cc[c])
    BY <1>3, <1>4 DEF AllocHit
  <1>6. Facing(c, q) /\ q.rounds > 0
    <2>1. cc[c] \in CpuRecords /\ cc[c].rounds \in -1 .. MAXSIZE /\ MAXSIZE \in Nat
      BY <1>1, Sizes DEF Types2, TypeOK, CpuRecords
    <2>2. CASE cc[c].rounds > 0
      BY <1>1, <1>4, <2>1, <2>2 DEF Facing, CpuSound, Sound
    <2>3. CASE ~(cc[c].rounds > 0)
      <3>1. cc[c].rounds \in {-1, 0, cc[c].magsize} /\ cc[c].prounds > 0
        BY <1>2, <1>5, <2>1, <2>3, SMT DEF Serves
      <3> QED
        BY <1>1, <1>4, <2>3, <3>1, ExchangedSound DEF Facing
    <2> QED
      BY <2>2, <2>3
  <1>7. PICK r : r = [q EXCEPT !.rounds = @ - 1, !.lock = NoOne]
    OBVIOUS
  <1>8. /\ r \in CpuRecords /\ Sound(c, r) /\ r.lock = NoOne
        /\ r.loaded = q.loaded /\ r.ploaded = q.ploaded /\ r.magsize = q.magsize
        /\ r.rounds = q.rounds - 1 /\ r.prounds = q.prounds
    BY <1>6, <1>7, PopSound DEF Facing
  <1>9. /\ cc' = [cc EXCEPT ![c] = r]
        /\ held' = [held EXCEPT ![mag_round[q.loaded][q.rounds]] = @ + 1]
    BY <1>3, <1>5, <1>7 DEF PopRound
  <1>10. /\ cc'[c] = r /\ \A b \in CPUs \ {c} : cc'[b] = cc[b]
         /\ q.rounds \in Index /\ q.prounds \in Int
    BY <1>1, <1>6, <1>9, Sizes, SMT DEF Types2, TypeOK, Facing, CpuRecords, Index
  <1>11. PICK n \in Mags : n = q.loaded
    BY <1>6, <1>10, SMT DEF Facing, Sound, CpuRecords
  <1>12. n # NoOne /\ n # q.ploaded /\ n \in CpuMags(c)
    BY <1>1, <1>6, <1>11, MagazineConstants, SMT DEF Facing, Apart, CpuMags
  <1>13. mag[t] = NoOne /\ obj[t] = NoOne /\ mag' = mag /\ obj' = obj
    BY <1>1, <1>2, SMT DEF Hands, Finish, Types2, TypeOK
  <1>14. OneCpu(t, c, r)
    <2>1. \A x : x \in {r.loaded, r.ploaded} \ {NoOne} <=> x \in CpuMags(c)
      BY <1>6, <1>8 DEF Facing, CpuMags
    <2>2. \A u \in Threads \ {t} : op'[u] = op[u]
      BY <1>1, <1>2 DEF Finish, Types2
    <2> QED
      BY <1>2, <1>8, <1>10, <1>11, <1>12, <1>13, <2>1, <2>2
         DEF OneCpu, updateVars, shellVars
  <1>15. /\ \A x \in Mags \ {n} : \A i \in Index : OccRec(r, x, i) <=> OccRec(cc[c], x, i)
         /\ \A i \in Index : OccRec(cc[c], n, i) <=> i <= q.rounds
         /\ \A i \in Index : OccRec(r, n, i) <=> i <= q.rounds - 1
    BY <1>6, <1>8, <1>11, <1>12 DEF OccRec, Facing
  <1>16. /\ \A i \in Index : Occ(n, i) <=> i <= q.rounds
         /\ \A i \in Index : Occ(n, i)' <=> i <= q.rounds - 1
         /\ \A x \in Mags \ {n} : \A i \in Index : Occ(x, i)' <=> Occ(x, i)
    BY <1>1, <1>12, <1>14, <1>15, OneCpuOcc, SMT
  <1>17. \A x \in Mags : \A i \in Index :
            Occ(x, i)' <=> Occ(x, i) /\ ~(x = n /\ i = q.rounds)
    <2>1. \A i \in Index : i <= q.rounds - 1 <=> i <= q.rounds /\ i # q.rounds
      BY <1>10, SMT DEF Index
    <2> QED
      BY <1>16, <2>1
  <1>18. Occ(n, q.rounds)
    BY <1>10, <1>16, SMT DEF Index
  <1>19. Home' /\ held' \in [Bufs -> Nat]
    BY <1>1, <1>2, <1>9, <1>10, <1>11, <1>13, <1>17, <1>18, SlotTaken DEF shellVars
  <1>20. mag_round' \in [Mags -> [1..MAXSIZE -> Bufs \cup {NoOne}]]
    BY <1>1, <1>2 DEF shellVars, Types2, TypeOK
  <1> QED
    BY <1>2, <1>3, <1>6, <1>8, <1>9, <1>19, <1>20, HitSuffices DEF shellVars

\* The loaded magazine, or the previous one, has room.
LEMMA FreeHitInv ==
    ASSUME IInv, NEW t \in Threads, FreeHit(t), UNCHANGED config
    PROVE  IInv'
  <1>1. /\ Types2 /\ Hands(t) /\ Home /\ Placed /\ Covered /\ Apart
        /\ \A c \in CPUs : CpuSound(c)
    BY DEF IInv
  <1>2. /\ pc[t] = "top" /\ op[t] = "free" /\ CanLock(t, cpu[t]) /\ Finish(t)
        /\ UNCHANGED <<depot, cache_magtype, bufferVars, mag_type, mag_total, updateVars>>
    BY DEF FreeHit
  <1>3. PICK c \in CPUs : c = cpu[t]
    BY <1>1, <1>2, Configs DEF Hands, CacheOps, Types2
  <1>4. PICK q : q = IF cc[c].rounds \in 0..(cc[c].magsize - 1) THEN cc[c]
                     ELSE Exchanged(cc[c])
    OBVIOUS
  <1>5. PushRound(t, q) /\ Serves(t, cc[c])
    BY <1>3, <1>4 DEF FreeHit
  <1>6. /\ cc[c] \in CpuRecords /\ cc[c].rounds \in -1 .. MAXSIZE /\ MAXSIZE \in Nat
        /\ cc[c].magsize \in Nat /\ cc[c].prounds \in Int
    BY <1>1, CpuTypes, Sizes
  <1>7. Facing(c, q) /\ q.loaded # NoOne /\ q.rounds < q.magsize
    <2>1. CASE cc[c].rounds \in 0..(cc[c].magsize - 1)
      BY <1>1, <1>4, <1>6, <2>1, SMT DEF Facing, CpuSound, Sound
    <2>2. CASE cc[c].rounds \notin 0..(cc[c].magsize - 1)
      <3>1. cc[c].prounds = 0
        BY <1>2, <1>5, <2>2 DEF Serves
      <3>2. cc[c].rounds \in {-1, 0, cc[c].magsize}
        BY <1>1, <1>6, <2>2, SMT DEF CpuSound
      <3>3. cc[c].ploaded # NoOne /\ cc[c].magsize > 0
        <4>1. cc[c].ploaded # NoOne
          BY <1>1, <3>1, SMT DEF CpuSound
        <4>2. cc[c].ploaded \in Shells
          BY <1>1, <4>1 DEF Placed, CpuMags
        <4>3. Capacity(cc[c].ploaded) > 0
          BY <1>1, <4>2, ShellCapacity
        <4> QED
          BY <1>1, <4>1, <4>3 DEF CpuSound
      <3> QED
        BY <1>1, <1>4, <2>2, <3>1, <3>2, <3>3, ExchangedSound DEF Facing
    <2> QED
      BY <2>1, <2>2
  <1>8. PICK r : r = [q EXCEPT !.rounds = @ + 1, !.lock = NoOne]
    OBVIOUS
  <1>9. /\ r \in CpuRecords /\ Sound(c, r) /\ r.lock = NoOne
        /\ r.loaded = q.loaded /\ r.ploaded = q.ploaded /\ r.magsize = q.magsize
        /\ r.rounds = q.rounds + 1 /\ r.prounds = q.prounds
    BY <1>7, <1>8, PushSound DEF Facing
  <1>10. /\ cc' = [cc EXCEPT ![c] = r]
         /\ mag_round' = [mag_round EXCEPT ![q.loaded][q.rounds + 1] = obj[t]]
    BY <1>3, <1>5, <1>8 DEF PushRound
  <1>11. /\ cc'[c] = r /\ \A b \in CPUs \ {c} : cc'[b] = cc[b]
         /\ q.rounds \in Int /\ q.rounds + 1 \in Index /\ q.prounds \in Int
    <2>1. q.rounds \in 0 .. q.magsize /\ q.magsize \in 0 .. MAXSIZE
      BY <1>7, Sizes, SMT DEF Facing, Sound, CpuRecords
    <2>2. q.rounds + 1 \in Index
      BY <1>6, <1>7, <2>1, SMT DEF Index
    <2> QED
      BY <1>1, <1>7, <1>10, <2>1, <2>2, SMT DEF Types2, TypeOK, Facing, CpuRecords
  <1>12. PICK n \in Mags : n = q.loaded
    BY <1>7 DEF Facing, CpuRecords
  <1>13. n # NoOne /\ n # q.ploaded /\ n \in CpuMags(c)
    BY <1>1, <1>7, <1>12 DEF Facing, Apart, CpuMags
  <1>14. /\ mag[t] = NoOne /\ obj[t] # NoOne /\ mag' = mag /\ obj'[t] = NoOne
         /\ \A u \in Threads \ {t} : obj'[u] = obj[u] /\ op'[u] = op[u]
    BY <1>1, <1>2 DEF Hands, Finish, Types2, TypeOK
  <1>15. OneCpu(t, c, r)
    <2>1. \A x : x \in {r.loaded, r.ploaded} \ {NoOne} <=> x \in CpuMags(c)
      BY <1>7, <1>9 DEF Facing, CpuMags
    <2> QED
      BY <1>2, <1>9, <1>11, <1>12, <1>13, <1>14, <2>1 DEF OneCpu, updateVars
  <1>16. /\ \A x \in Mags \ {n} : \A i \in Index : OccRec(r, x, i) <=> OccRec(cc[c], x, i)
         /\ \A i \in Index : OccRec(cc[c], n, i) <=> i <= q.rounds
         /\ \A i \in Index : OccRec(r, n, i) <=> i <= q.rounds + 1
    BY <1>7, <1>9, <1>12, <1>13 DEF OccRec, Facing
  <1>17. /\ \A i \in Index : Occ(n, i) <=> i <= q.rounds
         /\ \A i \in Index : Occ(n, i)' <=> i <= q.rounds + 1
         /\ \A x \in Mags \ {n} : \A i \in Index : Occ(x, i)' <=> Occ(x, i)
    BY <1>1, <1>13, <1>15, <1>16, OneCpuOcc, SMT
  <1>18. \A x \in Mags : \A i \in Index :
            Occ(x, i)' <=> Occ(x, i) \/ (x = n /\ i = q.rounds + 1)
    <2>1. \A i \in Index : i <= q.rounds + 1 <=> i <= q.rounds \/ i = q.rounds + 1
      BY <1>11, SMT DEF Index
    <2> QED
      BY <1>17, <2>1
  <1>19. ~Occ(n, q.rounds + 1)
    BY <1>11, <1>17, SMT
  <1>20. Home' /\ mag_round' \in [Mags -> [1..MAXSIZE -> Bufs \cup {NoOne}]]
    <2>1. mag_round' = [mag_round EXCEPT ![n][q.rounds + 1] = obj[t]]
      BY <1>10, <1>12
    <2>2. UNCHANGED <<slab, held, config>>
      BY <1>2 DEF bufferVars
    <2> HIDE <1>10
    <2> QED
      BY <1>1, <1>11, <1>14, <1>18, <1>19, <2>1, <2>2, SlotFilled, ZenonT(30)
  <1>21. held' \in [Bufs -> Nat]
    BY <1>1, <1>2 DEF bufferVars, Types2, TypeOK
  <1> QED
    BY <1>2, <1>3, <1>7, <1>9, <1>10, <1>20, <1>21, HitSuffices DEF bufferVars

\* umem_cpu_reload: CPU c gets magazine m from the hands of thread t; its loaded
\* magazine becomes the previous one, and the previous one, p, goes to depot
\* list k.
Reloads(t, c, r, m, p, k) ==
    /\ mag[t] = m /\ mag'[t] = NoOne
    /\ \A u \in Threads \ {t} : mag'[u] = mag[u] /\ op'[u] = op[u]
    /\ cc'[c] = r /\ \A b \in CPUs \ {c} : cc'[b] = cc[b]
    /\ r.loaded = m /\ r.ploaded = cc[c].loaded /\ r.prounds = cc[c].rounds
    /\ p = cc[c].ploaded
    /\ \A j \in Kinds : depot'[j].list = IF j = k /\ p # NoOne THEN depot[j].list \cup {p}
                                         ELSE depot[j].list
    /\ UNCHANGED <<doomed, mag_type>>

\* umem_cpu_reload with a magazine of the depot, the previous one given back:
\* every shell still has one owner.
LEMMA ReloadsMoves ==
    ASSUME Placed, Covered, Apart, NEW t \in Threads, NEW c \in CPUs, NEW r,
           NEW m \in Mags, NEW p, NEW k \in Kinds, Reloads(t, c, r, m, p, k)
    PROVE  Placed' /\ Covered' /\ Apart'
  <1>1. m # NoOne /\ m \in Shells /\ k \in {"full", "empty"} /\ mag[t] = m
    BY MagazineConstants, SMT DEF Reloads, Placed, Kinds
  <1>2. PICK l : l = cc[c].loaded
    OBVIOUS
  <1>3. /\ \A b \in CPUs \ {c} : CpuMags(b)' = CpuMags(b)
        /\ \A x : x \in CpuMags(c)' <=> x # NoOne /\ (x = m \/ x = l)
        /\ \A x : x \in CpuMags(c) <=> x # NoOne /\ (x = p \/ x = l)
        /\ \A b \in CPUs : NoOne \notin CpuMags(b)
    BY <1>2 DEF Reloads, CpuMags
  <1>4. Shells' = Shells /\ doomed' = doomed
    BY DEF Reloads, Shells
  <1>5. \A x : x \in Shells => x \in Mags
    BY DEF Shells
  <1>6. /\ mag'[t] = NoOne /\ \A u \in Threads \ {t} : mag'[u] = mag[u] /\ mag[u] # m
        /\ \A u \in Threads : mag'[u] = NoOne \/ (mag'[u] = mag[u] /\ mag[u] # m)
    BY <1>1, SMT DEF Reloads, Apart
  <1>7. /\ \A j \in Kinds : \A x : x \in depot'[j].list <=>
              x \in depot[j].list \/ (j = k /\ x = p /\ p # NoOne)
        /\ \A j \in Kinds : m \notin depot[j].list
    <2>1. \A j \in Kinds : m \notin depot[j].list
      BY <1>1 DEF Apart
    <2>2. \A j \in Kinds : depot'[j].list = IF j = k /\ p # NoOne
                                            THEN depot[j].list \cup {p}
                                            ELSE depot[j].list
      BY DEF Reloads
    <2> QED
      BY <2>1, <2>2
  <1>8. /\ \A b \in CPUs : m \notin CpuMags(b)
        /\ \A d \in doomed : d.mag # m
    BY <1>1, SMT DEF Apart
  <1>9. p # NoOne =>
           /\ p \in CpuMags(c) /\ p # l /\ p # m /\ p \in Shells
           /\ \A b \in CPUs \ {c} : p \notin CpuMags(b)
           /\ \A j \in Kinds : p \notin depot[j].list
           /\ \A u \in Threads : mag[u] # p
           /\ \A d \in doomed : d.mag # p
    <2> SUFFICES ASSUME p # NoOne
                 PROVE  /\ p \in CpuMags(c) /\ p # l /\ p # m /\ p \in Shells
                        /\ \A b \in CPUs \ {c} : p \notin CpuMags(b)
                        /\ \A j \in Kinds : p \notin depot[j].list
                        /\ \A u \in Threads : mag[u] # p
                        /\ \A d \in doomed : d.mag # p
      OBVIOUS
    <2>1. p \in CpuMags(c) /\ p \in Shells
      BY <1>3 DEF Placed
    <2>2. p # l
      BY <1>2 DEF Apart, Reloads
    <2> QED
      BY <1>5, <1>8, <2>1, <2>2, SMT DEF Apart
  <1>10. l # m
    BY <1>1, <1>3, <1>8
  <1>11. Placed'
    <2>1. CpuMags(c)' \subseteq Shells
      BY <1>1, <1>3 DEF Placed
    <2>2. \A j \in Kinds : depot'[j].list \subseteq Shells
      BY <1>7, <1>9 DEF Placed
    <2> QED
      BY <1>3, <1>4, <1>6, <2>1, <2>2 DEF Placed
  <1>12. Covered'
    <2> SUFFICES ASSUME NEW x \in Shells
                 PROVE  \/ \E b \in CPUs : x \in CpuMags(b)'
                        \/ \E j \in Kinds : x \in depot'[j].list
                        \/ \E u \in Threads : mag'[u] = x
                        \/ \E d \in doomed' : d.mag = x
      BY <1>4 DEF Covered
    <2>1. CASE \E b \in CPUs : x \in CpuMags(b)
      BY <1>3, <1>7, <2>1
    <2>2. CASE \E j \in Kinds : x \in depot[j].list
      BY <1>7, <2>2
    <2>3. CASE \E u \in Threads : mag[u] = x
      BY <1>1, <1>3, <1>6, <2>3
    <2>4. CASE \E d \in doomed : d.mag = x
      BY <1>4, <2>4
    <2> QED
      BY <2>1, <2>2, <2>3, <2>4 DEF Covered
  <1>13. Apart'
    <2>1. \A b \in CPUs : cc'[b].loaded # NoOne => cc'[b].loaded # cc'[b].ploaded
      BY <1>2, <1>10, SMT DEF Apart, Reloads
    <2>2. \A b, e \in CPUs : \A x \in Mags :
             x \in CpuMags(b)' /\ x \in CpuMags(e)' => b = e
      BY <1>3, <1>8, SMT DEF Apart
    <2>3. \A x \in Mags : ~(x \in depot'["full"].list /\ x \in depot'["empty"].list)
      BY <1>7, <1>9, SMT DEF Apart, Kinds
    <2>4. \A u, v \in Threads : mag'[u] # NoOne /\ mag'[u] = mag'[v] => u = v
      BY <1>6, SMT DEF Apart
    <2>5. \A d, e \in doomed' : d.mag = e.mag => d = e
      BY <1>4 DEF Apart
    <2>6. \A b \in CPUs : \A x \in CpuMags(b)' :
             /\ \A j \in Kinds : x \notin depot'[j].list
             /\ \A u \in Threads : mag'[u] # x
             /\ \A d \in doomed' : d.mag # x
      <3> TAKE b \in CPUs
      <3> TAKE x \in CpuMags(b)'
      <3>1. x # NoOne /\ (x = m \/ x \in CpuMags(b))
        BY <1>1, <1>3
      <3>2. p # NoOne => x # p
        BY <1>3, <1>9
      <3>3. CASE x = m
        BY <1>4, <1>6, <1>7, <1>8, <3>1, <3>2, <3>3, SMT
      <3>4. CASE x # m
        BY <1>4, <1>6, <1>7, <3>1, <3>2, <3>4, SMT DEF Apart
      <3> QED
        BY <3>3, <3>4
    <2>7. \A u \in Threads : mag'[u] # NoOne =>
             /\ \A j \in Kinds : mag'[u] \notin depot'[j].list
             /\ \A d \in doomed' : d.mag # mag'[u]
      BY <1>4, <1>6, <1>7, <1>9, SMT DEF Apart
    <2>8. \A d \in doomed' : \A j \in Kinds : d.mag \notin depot'[j].list
      BY <1>4, <1>7, <1>9, SMT DEF Apart
    <2> QED
      BY <2>1, <2>2, <2>3, <2>4, <2>5, <2>6, <2>7, <2>8 DEF Apart
  <1> QED
    BY <1>11, <1>12, <1>13

\* The previous magazine counts for the same slots on the depot list, if it is
\* empty or full as the list says; the loaded one counts as before.
LEMMA ReloadsOcc ==
    ASSUME Placed, Apart, NEW t \in Threads, NEW c \in CPUs, NEW r,
           NEW m \in Mags, NEW p, NEW k \in Kinds, Reloads(t, c, r, m, p, k),
           p # NoOne => \A i \in Index : i <= cc[c].prounds <=> k = "full" /\ i <= Capacity(p)
    PROVE  /\ \A i \in Index : Occ(m, i)' <=> i <= r.rounds
           /\ \A x \in Mags \ {m} : \A i \in Index : Occ(x, i)' <=> Occ(x, i)
  <1>1. /\ m # NoOne /\ mag[t] = m /\ mag'[t] = NoOne /\ doomed' = doomed
        /\ \A u \in Threads \ {t} : mag'[u] = mag[u] /\ mag[u] # m /\ Kind(u)' = Kind(u)
        /\ \A x : Capacity(x)' = Capacity(x)
    <2>1. m # NoOne
      BY MagazineConstants
    <2>2. mag[t] = m /\ mag'[t] = NoOne /\ doomed' = doomed /\ mag_type' = mag_type
      BY DEF Reloads
    <2>3. \A u \in Threads \ {t} : mag'[u] = mag[u] /\ op'[u] = op[u]
      BY DEF Reloads
    <2>4. \A u, v \in Threads : mag[u] # NoOne /\ mag[u] = mag[v] => u = v
      BY DEF Apart
    <2>5. \A u \in Threads \ {t} : mag[u] # m
      BY <2>1, <2>2, <2>4
    <2>6. \A u \in Threads \ {t} : Kind(u)' = Kind(u)
      BY <2>3 DEF Kind
    <2>7. \A x : Capacity(x)' = Capacity(x)
      BY <2>2 DEF Capacity
    <2> QED
      BY <2>1, <2>2, <2>3, <2>5, <2>6, <2>7
  <1>2. /\ \A b \in CPUs \ {c} : \A x, i : OccCpu(b, x, i)' <=> OccCpu(b, x, i)
        /\ \A x, i : OccCpu(c, x, i)' <=> \/ x = m /\ i <= r.rounds
                                          \/ x = cc[c].loaded /\ i <= cc[c].rounds
        /\ \A x, i : OccCpu(c, x, i) <=> \/ x = cc[c].loaded /\ i <= cc[c].rounds
                                         \/ x = p /\ i <= cc[c].prounds
    BY DEF Reloads, OccCpu
  <1>3. \A d \in doomed : DoomedRounds(d)' = DoomedRounds(d)
    BY <1>1 DEF DoomedRounds
  <1>4. /\ \A b \in CPUs : m \notin CpuMags(b)
        /\ \A j \in Kinds : m \notin depot[j].list
        /\ \A d \in doomed : d.mag # m
    BY <1>1 DEF Apart
  <1>5. /\ m # cc[c].loaded /\ m # p
        /\ \A b \in CPUs \ {c} : \A i : ~OccCpu(b, m, i)
    BY <1>1, <1>4 DEF CpuMags, OccCpu, Reloads
  <1>6. \A j \in Kinds : \A x : x \in depot'[j].list <=>
              x \in depot[j].list \/ (j = k /\ x = p /\ p # NoOne)
    <2>1. \A j \in Kinds : depot'[j].list = IF j = k /\ p # NoOne
                                            THEN depot[j].list \cup {p}
                                            ELSE depot[j].list
      BY DEF Reloads
    <2> QED
      BY <2>1
  <1>7. \A x : x \in depot'["full"].list <=>
              x \in depot["full"].list \/ (k = "full" /\ x = p /\ p # NoOne)
    BY <1>6 DEF Kinds
  <1>8. \A i \in Index : Occ(m, i)' <=> i <= r.rounds
    <2> TAKE i \in Index
    <2>1. m \notin depot'["full"].list
      BY <1>4, <1>5, <1>7 DEF Kinds
    <2>2. \A u \in Threads : mag'[u] # m
      BY <1>1
    <2>3. \A d \in doomed' : d.mag # m
      BY <1>1, <1>4
    <2>4. OccCpu(c, m, i)' <=> i <= r.rounds
      BY <1>2, <1>5
    <2>5. \A b \in CPUs \ {c} : ~OccCpu(b, m, i)'
      BY <1>2, <1>5
    <2>6. (\E b \in CPUs : OccCpu(b, m, i)') <=> i <= r.rounds
      BY <2>4, <2>5
    <2> QED
      BY <2>1, <2>2, <2>3, <2>6 DEF Occ
  <1>9. \A x \in Mags \ {m} : \A i \in Index : Occ(x, i)' <=> Occ(x, i)
    <2> TAKE x \in Mags \ {m}
    <2> TAKE i \in Index
    <2>1. x # NoOne
      BY MagazineConstants
    <2>2. \A u \in Threads : /\ mag'[u] = x <=> mag[u] = x
                             /\ mag[u] = x => Kind(u)' = Kind(u)
      BY <1>1, <2>1
    <2>3. (\E b \in CPUs : OccCpu(b, x, i)') \/ (x \in depot'["full"].list /\ i <= Capacity(x))
          <=> (\E b \in CPUs : OccCpu(b, x, i)) \/ (x \in depot["full"].list /\ i <= Capacity(x))
      BY <1>2, <1>7, <2>1, SMT
    <2> QED
      BY <1>1, <1>3, <2>2, <2>3 DEF Occ
  <1> QED
    BY <1>8, <1>9

\* What a depot list is made of.
Maglists == [list : SUBSET Mags, min : 0..Cardinality(Mags), reaplimit : 0..Cardinality(Mags)]

\* What the two reloads have in common: thread t, which has cc_lock of CPU c and
\* magazine m, gives c the record r and its previous magazine to depot list k.
ReloadStep(t, c, r, m, k) ==
    /\ c = cpu[t] /\ m = mag[t] /\ Locks(t) /\ pc[t] = "got" /\ Finish(t)
    /\ r \in CpuRecords /\ Sound(c, r) /\ r.lock = NoOne /\ r.magsize = cc[c].magsize
    /\ r.loaded = m /\ r.ploaded = cc[c].loaded /\ r.prounds = cc[c].rounds
    /\ cc' = [cc EXCEPT ![c] = r] /\ DepotFree(k, cc[c].ploaded)
    /\ UNCHANGED <<config, cache_magtype, slab, constructed, mag_type, mag_total, updateVars>>

\* Where the shells go.
LEMMA ReloadIs ==
    ASSUME Types2, NEW t \in Threads, NEW c \in CPUs, NEW r, NEW m \in Mags, NEW k \in Kinds,
           ReloadStep(t, c, r, m, k)
    PROVE  /\ Reloads(t, c, r, m, cc[c].ploaded, k)
           /\ depot' \in [Kinds -> Maglists]
  <1>1. PICK p : p = cc[c].ploaded
    OBVIOUS
  <1>2. p \in Mags \cup {NoOne}
    BY <1>1 DEF Types2, TypeOK
  <1>3. /\ mag[t] = m /\ mag'[t] = NoOne
        /\ \A u \in Threads \ {t} : mag'[u] = mag[u] /\ op'[u] = op[u]
    BY DEF ReloadStep, Finish, Types2, TypeOK
  <1>4. cc'[c] = r /\ \A b \in CPUs \ {c} : cc'[b] = cc[b]
    BY DEF ReloadStep, Types2, TypeOK
  <1>5. depot \in [Kinds -> Maglists]
    BY DEF Types2, TypeOK, Maglists
  <1>6. /\ depot' \in [Kinds -> Maglists]
        /\ \A j \in Kinds : depot'[j].list = IF j = k /\ p # NoOne THEN depot[j].list \cup {p}
                                             ELSE depot[j].list
    <2>1. CASE p = NoOne
      <3>1. depot' = depot
        BY <1>1, <2>1 DEF ReloadStep, DepotFree
      <3> QED
        BY <1>5, <2>1, <3>1
    <2>2. CASE p # NoOne
      <3>1. depot' = [depot EXCEPT ![k] = Pushed(depot[k], p)]
        BY <1>1, <1>5, <2>2 DEF ReloadStep, DepotFree
      <3>2. depot[k] \in Maglists /\ p \in Mags
        BY <1>2, <1>5, <2>2
      <3>3. /\ Pushed(depot[k], p) \in Maglists
            /\ Pushed(depot[k], p).list = depot[k].list \cup {p}
        BY <3>2 DEF Pushed, Maglists
      <3> HIDE DEF Maglists
      <3> QED
        BY <1>5, <2>2, <3>1, <3>3
    <2> QED
      BY <2>1, <2>2
  <1>7. r.loaded = m /\ r.ploaded = cc[c].loaded /\ r.prounds = cc[c].rounds
    BY DEF ReloadStep
  <1>8. doomed' = doomed /\ mag_type' = mag_type
    BY DEF ReloadStep, updateVars
  <1> QED
    BY <1>1, <1>3, <1>4, <1>6, <1>7, <1>8 DEF Reloads

\* What is left to show of a reload is that the buffers are at home.
LEMMA ReloadSuffices ==
    ASSUME IInv, NEW t \in Threads, NEW c \in CPUs, NEW r, NEW m \in Mags, NEW k \in Kinds,
           ReloadStep(t, c, r, m, k), held' \in [Bufs -> Nat], Home',
           mag_round' \in [Mags -> [1..MAXSIZE -> Bufs \cup {NoOne}]]
    PROVE  IInv'
  <1>1. /\ Types2 /\ Hands(t) /\ Locked(t) /\ Fresh /\ Placed /\ Covered /\ Apart
        /\ Tally /\ Drained /\ Job /\ \A b \in CPUs : CpuSound(b)
    BY DEF IInv
  <1>2. PICK p : p = cc[c].ploaded
    OBVIOUS
  <1>3. Reloads(t, c, r, m, p, k) /\ depot' \in [Kinds -> Maglists]
    BY <1>1, <1>2, ReloadIs
  <1>4. /\ cc' \in [CPUs -> CpuRecords] /\ cc'[c] = r
        /\ \A b \in CPUs \ {c} : cc'[b] = cc[b]
        /\ \A b \in CPUs : CpuSound(b)'
    BY <1>1, SetCpu DEF ReloadStep
  <1>5. /\ doomed' = doomed /\ upd' = upd /\ why' = why /\ to_purge' = to_purge
        /\ mag_type' = mag_type /\ config' = config /\ cache_magtype' = cache_magtype
    BY DEF ReloadStep, updateVars
  <1>6. /\ t # NoOne /\ why # "destroy" /\ m # NoOne /\ Locks(t) /\ pc[t] = "got"
        /\ c = cpu[t] /\ m = mag[t] /\ cc[c].lock = t /\ c \in config.cpus
    <2>1. Locks(t) /\ pc[t] = "got" /\ c = cpu[t] /\ m = mag[t]
      BY DEF ReloadStep
    <2> QED
      BY <1>1, <2>1, InCall, MagazineConstants DEF Locked, Hands, Locks
  <1>7. \A b \in CPUs : cc'[b].lock # t
    BY <1>1, <1>4, <1>6 DEF Locked, ReloadStep
  <1>8. /\ Others(t) /\ Hands(t)' /\ Locked(t)'
        /\ pc'[t] = "idle" /\ op'[t] = "none" /\ obj'[t] = NoOne /\ mag'[t] = NoOne
        /\ pc' \in [Threads -> PCs]
        /\ op' \in [Threads -> {"none", "alloc", "free", "rseq_alloc", "rseq_free"}]
        /\ cpu' \in [Threads -> CPUs \cup {NoOne}]
        /\ mtp' \in [Threads -> {0} \cup Types]
        /\ obj' \in [Threads -> Bufs \cup {NoOne}]
        /\ mag' \in [Threads -> Mags \cup {NoOne}]
    <2>1. Finish(t)
      BY DEF ReloadStep
    <2> QED
      BY <1>1, <1>5, <1>7, <2>1, Finished
  <1>9. Placed' /\ Covered' /\ Apart'
    BY <1>1, <1>3, ReloadsMoves
  <1>10. Types2'
    <2>1. /\ cc' \in [CPUs -> CpuRecords] /\ depot' \in [Kinds -> Maglists]
          /\ slab' = slab /\ constructed' = constructed /\ mag_total' = mag_total
      BY <1>3, <1>4 DEF ReloadStep
    <2> QED
      BY <1>1, <1>5, <1>8, <2>1 DEF Types2, TypeOK, CpuRecords, Maglists
  <1>11. OwnCpu(t) /\ OwnShell(t)
    <2>1. r.lock = NoOne
      BY DEF ReloadStep
    <2> QED
      BY <1>4, <1>5, <1>6, <2>1 DEF OwnCpu, OwnShell
  <1>12. \A b \in CPUs : cc'[b].magsize = cc[b].magsize
    BY <1>4 DEF ReloadStep
  <1>13. Tally'
    <2>1. \A u \in Threads : \A x \in Mags :
             (pc'[u] = "relock" => mag'[u] # x) <=> (pc[u] = "relock" => mag[u] # x)
      BY <1>6, <1>8 DEF Others
    <2>2. Counted' = Counted
      BY <1>5, <2>1 DEF Counted
    <2> QED
      BY <1>1, <2>2 DEF Tally, ReloadStep
  <1>14. Drained'
    <2>1. pc[t] # "idle"
      BY <1>6
    <2> QED
      BY <1>5, <1>6, <2>1, DepotOpen
  <1>15. Fresh'
    <2>1. \A x : Valid(x)' <=> Valid(x)
      BY <1>5 DEF Valid
    <2>2. p # NoOne => Valid(p)
      <3> SUFFICES ASSUME p # NoOne PROVE Valid(p)
        OBVIOUS
      <3>1. Capacity(p) = cc[c].magsize /\ cc[c].magsize \in {0, MAGSIZES[cache_magtype]}
        BY <1>1, <1>2, <1>6 DEF CpuSound
      <3>2. p \in Shells
        BY <1>1, <1>2 DEF Placed, CpuMags
      <3>3. Capacity(p) # 0
        BY <1>1, <3>2, ShellCapacity, SMT
      <3>4. mag_type[p] \in Types /\ cache_magtype \in Types
        BY <1>1, <3>2 DEF Types2, TypeOK, Shells
      <3> QED
        BY <3>1, <3>3, <3>4, Sizes DEF Capacity, Valid
    <2>3. \A j \in Kinds : \A x \in depot'[j].list : x \in depot[j].list \/ (x = p /\ p # NoOne)
      <3>1. \A j \in Kinds : depot'[j].list = IF j = k /\ p # NoOne
                                              THEN depot[j].list \cup {p}
                                              ELSE depot[j].list
        BY <1>3 DEF Reloads
      <3> QED
        BY <3>1
    <2>4. \A u \in Threads : pc[u] # "stale" => pc'[u] # "stale"
      BY <1>8 DEF Others
    <2>5. slab' = slab /\ constructed' = constructed
      BY DEF ReloadStep
    <2> QED
      BY <1>1, <1>5, <2>1, <2>2, <2>3, <2>4, <2>5 DEF Fresh
  <1>16. UNCHANGED <<config, cache_magtype, updateVars>>
    BY DEF ReloadStep
  <1>17. \A d \in doomed : mag_type'[d.mag] = mag_type[d.mag]
    BY <1>5
  <1>18. Others(t) /\ Hands(t)' /\ Locked(t)' /\ why # "destroy" /\ \A b \in CPUs : CpuSound(b)'
    BY <1>4, <1>6, <1>8
  <1> QED
    BY <1>9, <1>10, <1>11, <1>12, <1>13, <1>14, <1>15, <1>16, <1>17, <1>18, ThreadSuffices

\* umem_cpu_reload leaves the CPU sound: the magazine has the CPU's size, n rounds
\* and takes the place of one that is used up, or full.
LEMMA Reloaded ==
    ASSUME Types2, NEW c \in CPUs, CpuSound(c), c \in config.cpus, NEW m \in Mags,
           NEW n \in 0 .. MAXSIZE, cc[c].rounds \in {-1, 0, cc[c].magsize},
           Capacity(m) = cc[c].magsize, n <= cc[c].magsize,
           NEW q, q = Reload(cc[c], m, n)
    PROVE  /\ q \in CpuRecords /\ Sound(c, q) /\ q.magsize = cc[c].magsize
           /\ q.loaded = m /\ q.rounds = n
           /\ q.ploaded = cc[c].loaded /\ q.prounds = cc[c].rounds
  <1>1. /\ cc[c] \in CpuRecords /\ cc[c].magsize \in Nat /\ cc[c].rounds \in Int
        /\ MAXSIZE \in Nat
    BY CpuTypes, Sizes
  <1>2. n \in -1 .. MAXSIZE /\ n \in Nat /\ n # -1
    BY <1>1, SMT
  <1>3. /\ q \in CpuRecords /\ q.magsize = cc[c].magsize
        /\ q.loaded = m /\ q.rounds = n
        /\ q.ploaded = cc[c].loaded /\ q.prounds = cc[c].rounds
    BY <1>1, <1>2 DEF Reload, CpuRecords
  <1>4. m # NoOne
    BY MagazineConstants
  <1>5. n \in 0 .. cc[c].magsize
    BY <1>1, <1>2, SMT
  <1>6. Sound(c, q)
    BY <1>2, <1>3, <1>4, <1>5 DEF CpuSound, Sound
  <1> QED
    BY <1>3, <1>6

\* What the thread knows that gets a magazine for the CPU it has locked: the
\* magazine has the CPU's size, and neither of the CPU's two serves the call.
LEMMA GotMagazine ==
    ASSUME IInv, NEW t \in Threads, pc[t] = "got", op[t] \in CacheOps
    PROVE  /\ cpu[t] \in CPUs /\ cpu[t] \in config.cpus /\ mag[t] \in Mags /\ Locks(t)
           /\ Capacity(mag[t]) = cc[cpu[t]].magsize /\ cc[cpu[t]].magsize \in 1 .. MAXSIZE
           /\ ~Serves(t, cc[cpu[t]])
  <1>1. Types2 /\ Hands(t) /\ Locked(t) /\ \A c \in CPUs : CpuSound(c)
    BY DEF IInv
  <1>2. Locks(t)
    BY DEF Locks
  <1>3. cpu[t] \in CPUs /\ cpu[t] \in config.cpus
    BY <1>1, Configs DEF Hands, Types2
  <1>4. mag[t] \in Mags
    BY <1>1 DEF Hands, Types2, TypeOK
  <1>5. /\ ~Serves(t, cc[cpu[t]]) /\ cc[cpu[t]].magsize > 0 /\ Valid(mag[t])
    BY <1>1, <1>2 DEF Locked
  <1>6. cc[cpu[t]].magsize \in 0 .. MAXSIZE /\ cc[cpu[t]].magsize \in Nat /\ MAXSIZE \in Nat
    BY <1>1, <1>3, CpuTypes, Sizes
  <1>7. cc[cpu[t]].magsize \in 1 .. MAXSIZE /\ cc[cpu[t]].magsize # 0
    BY <1>5, <1>6, SMT
  <1>8. cc[cpu[t]].magsize = MAGSIZES[cache_magtype]
    BY <1>1, <1>3, <1>7 DEF CpuSound
  <1> QED
    BY <1>2, <1>3, <1>4, <1>5, <1>7, <1>8 DEF Capacity, Valid

\* A full magazine is loaded and gives its last round.
LEMMA AllocReloadInv ==
    ASSUME IInv, NEW t \in Threads, AllocReload(t), UNCHANGED config
    PROVE  IInv'
  <1>1. /\ Types2 /\ Hands(t) /\ Home /\ Placed /\ Covered /\ Apart
        /\ \A c \in CPUs : CpuSound(c)
    BY DEF IInv
  <1>2. /\ pc[t] = "got" /\ op[t] = "alloc" /\ Finish(t)
        /\ UNCHANGED <<cache_magtype, slab, constructed, updateVars, shellVars>>
    BY DEF AllocReload
  <1>3. PICK c \in CPUs, m \in Mags : c = cpu[t] /\ m = mag[t]
    BY <1>2, GotMagazine DEF CacheOps
  <1>4. /\ c \in config.cpus /\ Locks(t) /\ Capacity(m) = cc[c].magsize
        /\ cc[c].magsize \in 1 .. MAXSIZE /\ ~Serves(t, cc[c])
    BY <1>2, <1>3, GotMagazine DEF CacheOps
  <1>5. /\ cc[c].rounds \in -1 .. MAXSIZE /\ cc[c].prounds \in -1 .. MAXSIZE
        /\ MAXSIZE \in Nat /\ cc[c].magsize \in 0 .. MAXSIZE
    BY <1>1, CpuTypes, Sizes
  <1>6. cc[c].rounds \in {-1, 0} /\ cc[c].prounds \in {-1, 0}
    BY <1>2, <1>4, <1>5, SMT DEF Serves
  <1>7. PICK q : q = Reload(cc[c], m, cc[c].magsize)
    OBVIOUS
  <1>8. /\ q \in CpuRecords /\ Sound(c, q) /\ q.magsize = cc[c].magsize
        /\ q.loaded = m /\ q.rounds = cc[c].magsize
        /\ q.ploaded = cc[c].loaded /\ q.prounds = cc[c].rounds
    <2>1. cc[c].magsize <= cc[c].magsize
      BY <1>5, SMT
    <2>2. cc[c].magsize \in 0 .. MAXSIZE /\ cc[c].rounds \in {-1, 0, cc[c].magsize}
      BY <1>5, <1>6
    <2>3. Types2 /\ CpuSound(c) /\ c \in config.cpus /\ Capacity(m) = cc[c].magsize
      BY <1>1, <1>4
    <2> QED
      BY <1>7, <2>1, <2>2, <2>3, Reloaded, SMT
  <1>9. PICK r : r = [q EXCEPT !.rounds = @ - 1, !.lock = NoOne]
    OBVIOUS
  <1>10. /\ r \in CpuRecords /\ Sound(c, r) /\ r.lock = NoOne
         /\ r.loaded = q.loaded /\ r.ploaded = q.ploaded /\ r.magsize = q.magsize
         /\ r.rounds = q.rounds - 1 /\ r.prounds = q.prounds
    <2>1. q.rounds > 0
      BY <1>4, <1>5, <1>8, SMT
    <2> QED
      BY <1>8, <1>9, <2>1, PopSound
  <1>11. /\ cc' = [cc EXCEPT ![c] = r] /\ DepotFree("empty", cc[c].ploaded)
         /\ held' = [held EXCEPT ![mag_round[m][cc[c].magsize]] = @ + 1]
    <2>1. /\ DepotFree("empty", cc[cpu[t]].ploaded)
          /\ PopRound(t, Reload(cc[cpu[t]], mag[t], cc[cpu[t]].magsize))
      BY DEF AllocReload
    <2>2. DepotFree("empty", cc[c].ploaded) /\ PopRound(t, q)
      BY <1>3, <1>7, <2>1
    <2> QED
      BY <1>3, <1>8, <1>9, <2>2 DEF PopRound
  <1>12. "empty" \in Kinds /\ ReloadStep(t, c, r, m, "empty")
    BY <1>2, <1>3, <1>4, <1>8, <1>10, <1>11 DEF ReloadStep, Kinds, shellVars
  <1>13. Reloads(t, c, r, m, cc[c].ploaded, "empty")
    BY <1>1, <1>12, ReloadIs
  <1>14. \A i \in Index : ~(i <= cc[c].prounds) /\ i \in Nat
    BY <1>5, <1>6, SMT DEF Index
  <1>15. /\ \A i \in Index : Occ(m, i)' <=> i <= r.rounds
         /\ \A x \in Mags \ {m} : \A i \in Index : Occ(x, i)' <=> Occ(x, i)
    BY <1>1, <1>12, <1>13, <1>14, ReloadsOcc
  <1>16. \A i \in Index : Occ(m, i) <=> i <= cc[c].magsize
    <2>1. Kind(t) = "full"
      BY <1>2 DEF Kind
    <2> QED
      BY <1>1, <1>3, <1>4, <2>1, OccInHands
  <1>17. cc[c].magsize \in Index /\ Occ(m, cc[c].magsize)
    <2>1. cc[c].magsize \in Index /\ cc[c].magsize <= cc[c].magsize
      BY <1>4, <1>5, SMT DEF Index
    <2> QED
      BY <1>16, <2>1
  <1>18. \A x \in Mags : \A i \in Index :
            Occ(x, i)' <=> Occ(x, i) /\ ~(x = m /\ i = cc[c].magsize)
    <2>1. \A i \in Index : i <= r.rounds <=> i <= cc[c].magsize /\ i # cc[c].magsize
      BY <1>5, <1>8, <1>10, SMT DEF Index
    <2> QED
      BY <1>15, <1>16, <2>1
  <1>19. obj' = obj
    BY <1>1, <1>2 DEF Hands, Finish, Types2, TypeOK
  <1>20. Home' /\ held' \in [Bufs -> Nat]
    BY <1>1, <1>2, <1>11, <1>17, <1>18, <1>19, SlotTaken DEF shellVars
  <1>21. mag_round' \in [Mags -> [1..MAXSIZE -> Bufs \cup {NoOne}]]
    BY <1>1, <1>2 DEF shellVars, Types2, TypeOK
  <1> QED
    BY <1>12, <1>20, <1>21, ReloadSuffices

\* An empty magazine is loaded and takes the buffer.
LEMMA FreeReloadInv ==
    ASSUME IInv, NEW t \in Threads, FreeReload(t), UNCHANGED config
    PROVE  IInv'
  <1>1. /\ Types2 /\ Hands(t) /\ Home /\ Placed /\ Covered /\ Apart
        /\ \A c \in CPUs : CpuSound(c)
    BY DEF IInv
  <1>2. /\ pc[t] = "got" /\ op[t] = "free" /\ Finish(t)
        /\ UNCHANGED <<cache_magtype, bufferVars, mag_type, mag_total, updateVars>>
    BY DEF FreeReload
  <1>3. PICK c \in CPUs, m \in Mags : c = cpu[t] /\ m = mag[t]
    BY <1>2, GotMagazine DEF CacheOps
  <1>4. /\ c \in config.cpus /\ Locks(t) /\ Capacity(m) = cc[c].magsize
        /\ cc[c].magsize \in 1 .. MAXSIZE /\ ~Serves(t, cc[c])
    BY <1>2, <1>3, GotMagazine DEF CacheOps
  <1>5. /\ cc[c].rounds \in -1 .. MAXSIZE /\ cc[c].prounds \in -1 .. MAXSIZE
        /\ MAXSIZE \in Nat /\ cc[c].magsize \in 0 .. MAXSIZE
    BY <1>1, CpuTypes, Sizes
  <1>6. cc[c].rounds \notin 0 .. (cc[c].magsize - 1) /\ cc[c].prounds # 0
    BY <1>2, <1>4 DEF Serves
  <1>7. /\ cc[c].rounds \in {-1, 0, cc[c].magsize}
        /\ cc[c].ploaded # NoOne => /\ cc[c].prounds = cc[c].magsize
                                    /\ Capacity(cc[c].ploaded) = cc[c].magsize
    BY <1>1, <1>5, <1>6, SMT DEF CpuSound
  <1>8. PICK q : q = Reload(cc[c], m, 0)
    OBVIOUS
  <1>9. /\ q \in CpuRecords /\ Sound(c, q) /\ q.magsize = cc[c].magsize
        /\ q.loaded = m /\ q.rounds = 0
        /\ q.ploaded = cc[c].loaded /\ q.prounds = cc[c].rounds
    <2>1. 0 <= cc[c].magsize /\ 0 \in 0 .. MAXSIZE
      BY <1>5, SMT
    <2>2. cc[c].rounds \in {-1, 0, cc[c].magsize}
      BY <1>7
    <2>3. Types2 /\ CpuSound(c) /\ c \in config.cpus /\ Capacity(m) = cc[c].magsize
      BY <1>1, <1>4
    <2> QED
      BY <1>8, <2>1, <2>2, <2>3, Reloaded, SMT
  <1>10. PICK r : r = [q EXCEPT !.rounds = @ + 1, !.lock = NoOne]
    OBVIOUS
  <1>11. /\ r \in CpuRecords /\ Sound(c, r) /\ r.lock = NoOne
         /\ r.loaded = q.loaded /\ r.ploaded = q.ploaded /\ r.magsize = q.magsize
         /\ r.rounds = q.rounds + 1 /\ r.prounds = q.prounds
    <2>1. q.rounds < q.magsize
      BY <1>4, <1>5, <1>9, SMT
    <2>2. q.loaded # NoOne
      BY <1>9, MagazineConstants
    <2> QED
      BY <1>9, <1>10, <2>1, <2>2, PushSound
  <1>12. r.rounds = 1 /\ 0 + 1 = 1 /\ 1 \in Index
    BY <1>4, <1>5, <1>9, <1>11, SMT DEF Index
  <1>13. /\ cc' = [cc EXCEPT ![c] = r] /\ DepotFree("full", cc[c].ploaded)
         /\ mag_round' = [mag_round EXCEPT ![m][1] = obj[t]]
    <2>1. /\ DepotFree("full", cc[cpu[t]].ploaded)
          /\ PushRound(t, Reload(cc[cpu[t]], mag[t], 0))
      BY DEF FreeReload
    <2>2. DepotFree("full", cc[c].ploaded) /\ PushRound(t, q)
      BY <1>3, <1>8, <2>1
    <2>3. q.rounds + 1 = 1
      BY <1>9, <1>12
    <2> QED
      BY <1>3, <1>9, <1>10, <2>2, <2>3 DEF PushRound
  <1>14. "full" \in Kinds /\ ReloadStep(t, c, r, m, "full")
    BY <1>2, <1>3, <1>4, <1>9, <1>11, <1>13 DEF ReloadStep, Kinds, bufferVars
  <1>15. Reloads(t, c, r, m, cc[c].ploaded, "full")
    BY <1>1, <1>14, ReloadIs
  <1>16. /\ \A i \in Index : Occ(m, i)' <=> i <= r.rounds
         /\ \A x \in Mags \ {m} : \A i \in Index : Occ(x, i)' <=> Occ(x, i)
    <2>1. PICK p : p = cc[c].ploaded
      OBVIOUS
    <2>2. Reloads(t, c, r, m, p, "full") /\ "full" \in Kinds
      BY <1>14, <1>15, <2>1
    <2>3. p # NoOne => \A i \in Index : i <= cc[c].prounds <=> "full" = "full" /\ i <= Capacity(p)
      BY <1>7, <2>1
    <2> QED
      BY <1>1, <2>2, <2>3, ReloadsOcc
  <1>17. \A i \in Index : ~Occ(m, i)
    <2>1. Kind(t) # "full"
      BY <1>2 DEF Kind
    <2> QED
      BY <1>1, <1>3, <2>1, OccInHands
  <1>18. \A x \in Mags : \A i \in Index : Occ(x, i)' <=> Occ(x, i) \/ (x = m /\ i = 1)
    <2>1. \A i \in Index : i <= r.rounds <=> i = 1
      BY <1>5, <1>12, SMT DEF Index
    <2> QED
      BY <1>16, <1>17, <2>1
  <1>19. /\ obj[t] # NoOne /\ obj'[t] = NoOne
         /\ \A u \in Threads \ {t} : obj'[u] = obj[u]
    BY <1>1, <1>2 DEF Hands, Finish, Types2, TypeOK
  <1>20. Home' /\ mag_round' \in [Mags -> [1..MAXSIZE -> Bufs \cup {NoOne}]]
    <2>1. UNCHANGED <<slab, held, config>> /\ ~Occ(m, 1)
      BY <1>2, <1>12, <1>17 DEF bufferVars
    <2> QED
      BY <1>1, <1>12, <1>13, <1>18, <1>19, <2>1, SlotFilled, ZenonT(30)
  <1>21. held' \in [Bufs -> Nat]
    BY <1>1, <1>2 DEF bufferVars, Types2, TypeOK
  <1> QED
    BY <1>14, <1>20, <1>21, ReloadSuffices

-----------------------------------------------------------------------------
(* The update thread and umem_cache_destroy.                               *)

\* A step of the update thread leaves the threads' claims alone if it touches
\* only CPUs nobody has locked, no shell in a thread's hands, and a new magtype
\* comes only when no thread has a CPU locked.
LEMMA ThreadsStable ==
    ASSUME IInv, UNCHANGED <<config, threadVars>>,
           \A t \in Threads : mag[t] # NoOne => mag_type'[mag[t]] = mag_type[mag[t]],
           \A c \in CPUs : cc[c].lock # NoOne \/ cc'[c].lock # NoOne => cc'[c] = cc[c],
           cache_magtype' = cache_magtype \/ \A t \in Threads : ~Locks(t)
    PROVE  \A t \in Threads : Hands(t)' /\ Locked(t)'
  <1> TAKE t \in Threads
  <1>1. Hands(t) /\ Locked(t) /\ Types2
    BY DEF IInv
  <1>2. /\ pc' = pc /\ op' = op /\ cpu' = cpu /\ obj' = obj /\ mag' = mag /\ mtp' = mtp
        /\ config' = config
    BY DEF threadVars
  <1>3. Hands(t)'
    BY <1>1, <1>2 DEF Hands
  <1>4. t # NoOne
    BY MagazineConstants
  <1>5. \A c \in CPUs : cc[c].lock = t \/ cc'[c].lock = t => cc'[c] = cc[c]
    BY <1>4
  <1>6. Locks(t)' <=> Locks(t)
    BY <1>2 DEF Locks
  <1>7. Locks(t) => cpu[t] \in CPUs
    BY <1>1, Configs DEF Hands, Locks, Types2
  <1>8. ASSUME Locks(t)
        PROVE  /\ cc'[cpu'[t]].lock = t /\ cc'[cpu'[t]].magsize > 0
               /\ ~Serves(t, cc[cpu[t]])'
    <2>1. cc[cpu[t]].lock = t /\ cc[cpu[t]].magsize > 0 /\ ~Serves(t, cc[cpu[t]])
      BY <1>1, <1>8 DEF Locked
    <2>2. cc'[cpu[t]] = cc[cpu[t]]
      BY <1>5, <1>7, <1>8, <2>1
    <2> QED
      BY <1>2, <2>1, <2>2 DEF Serves
  <1>9. Locks(t) /\ pc[t] = "got" => Valid(mag[t])'
    <2>1. Locks(t) /\ pc[t] = "got" => Valid(mag[t]) /\ mag[t] # NoOne
      BY <1>1 DEF Locked, Hands
    <2> QED
      BY <1>2, <2>1 DEF Valid
  <1>10. \A c \in CPUs : cc'[c].lock = t => c = cpu'[t] /\ (Locks(t)' \/ pc'[t] = "top")
    BY <1>1, <1>2, <1>5, <1>6 DEF Locked
  <1> QED
    BY <1>2, <1>3, <1>6, <1>8, <1>9, <1>10 DEF Locked

\* A step that moves no shell and no buffer.
LEMMA StillSuffices ==
    ASSUME IInv, UNCHANGED <<config, threadVars, bufferVars, shellVars, doomed>>,
           \A t \in Threads : Hands(t)' /\ Locked(t)', \A c \in CPUs : CpuSound(c)',
           \A c \in CPUs : SameCpu(c) \/ (CpuMags(c) = {} /\ CpuMags(c)' = {}),
           \A k \in Kinds : depot'[k].list = depot[k].list,
           Types2', Job', Drained', Fresh'
    PROVE  IInv'
  <1>1. Types2 /\ Placed /\ Covered /\ Apart /\ Tally /\ Home
    BY DEF IInv
  <1>2. /\ pc' = pc /\ op' = op /\ obj' = obj /\ mag' = mag /\ doomed' = doomed
        /\ mag_type' = mag_type /\ mag_round' = mag_round /\ mag_total' = mag_total
        /\ slab' = slab /\ held' = held /\ config' = config
    BY DEF threadVars, bufferVars, shellVars
  <1>3. \A c \in CPUs : CpuMags(c)' = CpuMags(c)
    BY DEF SameCpu, CpuMags
  <1>4. Shells' = Shells
    BY <1>2 DEF Shells
  <1>5. Placed' /\ Covered'
    BY <1>1, <1>2, <1>3, <1>4 DEF Placed, Covered
  <1>6. \A c \in CPUs : cc'[c].loaded # NoOne => cc'[c].loaded # cc'[c].ploaded
    BY <1>1 DEF Apart, SameCpu, CpuMags
  <1>7. Apart'
    <2>1. \A b, c \in CPUs : \A m \in Mags : m \in CpuMags(b)' /\ m \in CpuMags(c)' => b = c
      <3>1. \A b, c \in CPUs : \A m \in Mags : m \in CpuMags(b) /\ m \in CpuMags(c) => b = c
        BY <1>1 DEF Apart
      <3> TAKE b, c \in CPUs
      <3> TAKE m \in Mags
      <3> HAVE m \in CpuMags(b)' /\ m \in CpuMags(c)'
      <3>2. m \in CpuMags(b) /\ m \in CpuMags(c)
        BY <1>3
      <3> QED
        BY <3>1, <3>2
    <2>2. \A c \in CPUs : \A m \in CpuMags(c)' :
             /\ \A k \in Kinds : m \notin depot'[k].list
             /\ \A t \in Threads : mag'[t] # m
             /\ \A d \in doomed' : d.mag # m
      <3>1. \A c \in CPUs : \A m \in CpuMags(c) :
               /\ \A k \in Kinds : m \notin depot[k].list
               /\ \A t \in Threads : mag[t] # m
               /\ \A d \in doomed : d.mag # m
        BY <1>1 DEF Apart
      <3> QED
        BY <1>2, <1>3, <3>1
    <2>3. \A m \in Mags : ~(m \in depot'["full"].list /\ m \in depot'["empty"].list)
      BY <1>1 DEF Apart, Kinds
    <2>4. /\ \A t, u \in Threads : mag'[t] # NoOne /\ mag'[t] = mag'[u] => t = u
          /\ \A d, e \in doomed' : d.mag = e.mag => d = e
      BY <1>1, <1>2 DEF Apart
    <2>5. /\ \A t \in Threads : mag[t] # NoOne =>
                /\ \A k \in Kinds : mag[t] \notin depot[k].list
                /\ \A d \in doomed : d.mag # mag[t]
          /\ \A d \in doomed : \A k \in Kinds : d.mag \notin depot[k].list
      BY <1>1 DEF Apart
    <2>6. /\ \A t \in Threads : mag'[t] # NoOne =>
                /\ \A k \in Kinds : mag'[t] \notin depot'[k].list
                /\ \A d \in doomed' : d.mag # mag'[t]
          /\ \A d \in doomed' : \A k \in Kinds : d.mag \notin depot'[k].list
      BY <1>2, <2>5
    <2> QED
      BY <1>6, <2>1, <2>2, <2>3, <2>4, <2>6 DEF Apart
  <1>8. Tally'
    <2>1. Counted' = Counted
      BY <1>2 DEF Counted
    <2> QED
      BY <1>1, <1>2, <2>1 DEF Tally
  <1>9. SameSlots
    <2>1. ASSUME NEW m \in Mags, NEW i \in Index PROVE Occ(m, i)' <=> Occ(m, i)
      <3>1. m # NoOne
        BY MagazineConstants
      <3>2. \A c \in CPUs : OccCpu(c, m, i)' <=> OccCpu(c, m, i)
        <4> TAKE c \in CPUs
        <4>1. CASE SameCpu(c)
          BY <4>1 DEF SameCpu, OccCpu
        <4>2. CASE CpuMags(c) = {} /\ CpuMags(c)' = {}
          <5>1. m \notin CpuMags(c) /\ m \notin CpuMags(c)'
            BY <4>2
          <5>2. cc[c].loaded # m /\ cc[c].ploaded # m
            BY <3>1, <5>1 DEF CpuMags
          <5>3. cc'[c].loaded # m /\ cc'[c].ploaded # m
            BY <3>1, <5>1 DEF CpuMags
          <5> QED
            BY <5>2, <5>3 DEF OccCpu
        <4> QED
          BY <4>1, <4>2
      <3>3. /\ \A n : Capacity(n)' = Capacity(n) /\ \A t : Kind(t)' = Kind(t)
            /\ depot'["full"].list = depot["full"].list
        BY <1>2 DEF Capacity, Kind, Kinds
      <3>4. \A d \in doomed : DoomedRounds(d)' = DoomedRounds(d)
        BY <3>3 DEF DoomedRounds
      <3> QED
        BY <1>2, <3>2, <3>3, <3>4 DEF Occ
    <2> QED
      BY <1>2, <2>1 DEF SameSlots
  <1>10. Home'
    BY <1>1, <1>2, <1>9, HomeStable
  <1> QED
    BY <1>5, <1>7, <1>8, <1>10 DEF IInv

\* A step that changes only what the depot lists and the job say.
LEMMA BooksSuffice ==
    ASSUME IInv, UNCHANGED <<config, cc, cache_magtype, threadVars, bufferVars, shellVars, doomed>>,
           \A k \in Kinds : depot'[k].list = depot[k].list,
           Types2', Job', Drained'
    PROVE  IInv'
  <1>1. /\ Fresh /\ \A c \in CPUs : CpuSound(c)
    BY DEF IInv
  <1>2. pc' = pc /\ slab' = slab /\ constructed' = constructed /\ mag_type' = mag_type
    BY DEF threadVars, bufferVars, shellVars
  <1>3. \A t \in Threads : Hands(t)' /\ Locked(t)'
    BY <1>2, ThreadsStable
  <1>4. \A c \in CPUs : SameCpu(c)
    BY DEF SameCpu
  <1>5. \A c \in CPUs : CpuSound(c)'
    BY <1>1, <1>2, <1>4, CpuStable
  <1>6. Fresh'
    <2>1. \A m : Valid(m)' <=> Valid(m)
      BY <1>2 DEF Valid
    <2> QED
      BY <1>1, <1>2, <2>1 DEF Fresh
  <1> QED
    BY <1>3, <1>4, <1>5, <1>6, StillSuffices

\* umem_maglist_ws_update keeps the lists and their types.
LEMMA WsUpdatedIs ==
    ASSUME CardFacts, Types2, depot' = WsUpdated
    PROVE  /\ depot' \in [Kinds -> Maglists]
           /\ \A k \in Kinds : /\ depot'[k].list = depot[k].list
                               /\ depot'[k].min = Cardinality(depot[k].list)
                               /\ depot'[k].reaplimit = depot[k].min
  <1>1. depot \in [Kinds -> Maglists]
    BY DEF Types2, TypeOK, Maglists
  <1>2. \A k \in Kinds : Cardinality(depot[k].list) \in 0 .. Cardinality(Mags)
    BY <1>1, SMT DEF CardFacts, Maglists
  <1>3. \A k \in Kinds : depot'[k] = [depot[k] EXCEPT !.reaplimit = depot[k].min,
                                                      !.min = Cardinality(depot[k].list)]
    BY DEF WsUpdated
  <1>4. ASSUME NEW k \in Kinds
        PROVE  /\ depot'[k] \in Maglists
               /\ depot'[k].list = depot[k].list
               /\ depot'[k].min = Cardinality(depot[k].list)
               /\ depot'[k].reaplimit = depot[k].min
    <2>1. PICK d, n : d = depot[k] /\ n = Cardinality(depot[k].list)
      OBVIOUS
    <2>2. d \in Maglists /\ n \in 0 .. Cardinality(Mags)
      BY <1>1, <1>2, <2>1
    <2>3. PICK e : e = [d EXCEPT !.reaplimit = d.min, !.min = n]
      OBVIOUS
    <2>4. e \in Maglists /\ e.list = d.list /\ e.min = n /\ e.reaplimit = d.min
      BY <2>2, <2>3 DEF Maglists
    <2>5. depot'[k] = e
      BY <1>3, <2>1, <2>3
    <2> QED
      BY <2>1, <2>4, <2>5
  <1>5. depot' \in [Kinds -> Maglists]
    BY <1>4 DEF WsUpdated
  <1> QED
    BY <1>4, <1>5

\* The periodic working-set update.
LEMMA WsUpdateInv ==
    ASSUME CardFacts, IInv, WsUpdate, UNCHANGED config
    PROVE  IInv'
  <1>1. Types2 /\ Job
    BY DEF IInv
  <1>2. /\ upd = "idle" /\ depot' = WsUpdated
        /\ UNCHANGED <<cc, cache_magtype, threadVars, updateVars, bufferVars, shellVars>>
    BY DEF WsUpdate
  <1>3. /\ depot' \in [Kinds -> Maglists]
        /\ \A k \in Kinds : depot'[k].list = depot[k].list
    BY <1>1, <1>2, WsUpdatedIs
  <1>4. Types2'
    BY <1>1, <1>2, <1>3
       DEF Types2, TypeOK, Maglists, threadVars, updateVars, bufferVars, shellVars
  <1>5. Job'
    BY <1>1, <1>2
       DEF Job, Purging, MayGrow, Capacity, threadVars, updateVars, bufferVars, shellVars
  <1>6. Drained'
    BY <1>1, <1>2 DEF Drained, Sealed, Job, updateVars
  <1>7. doomed' = doomed
    BY <1>2 DEF updateVars
  <1> QED
    BY <1>2, <1>3, <1>4, <1>5, <1>6, <1>7, BooksSuffice

\* The two working-set updates after the purge: after the first the minimum is
\* the length of the list, after the second so is the reap limit.
LEMMA PurgeWsUpdateInv ==
    ASSUME CardFacts, IInv, PurgeWsUpdate, UNCHANGED config
    PROVE  IInv'
  <1>1. Types2 /\ Job /\ Drained
    BY DEF IInv
  <1>2. /\ \/ upd = "purge" /\ to_purge = {} /\ doomed = {} /\ upd' = "ws_again"
           \/ upd = "ws_again" /\ upd' = "reap_full"
        /\ depot' = WsUpdated
        /\ UNCHANGED <<cc, cache_magtype, why, to_purge, doomed, threadVars, bufferVars,
                       shellVars>>
    BY DEF PurgeWsUpdate
  <1>3. /\ depot' \in [Kinds -> Maglists]
        /\ \A k \in Kinds : /\ depot'[k].list = depot[k].list
                            /\ depot'[k].min = Cardinality(depot[k].list)
                            /\ depot'[k].reaplimit = depot[k].min
    BY <1>1, <1>2, WsUpdatedIs
  <1>4. doomed = {} /\ to_purge = {} /\ why \in {"resize", "destroy"}
    BY <1>1, <1>2 DEF Job
  <1>5. upd' \in {"ws_again", "reap_full"} /\ why' = why /\ to_purge' = {} /\ doomed' = {}
    BY <1>2, <1>4
  <1>6. Types2'
    <2>1. upd' \in Phases
      BY <1>5 DEF Phases
    <2> QED
      BY <1>1, <1>2, <1>3, <2>1
         DEF Types2, TypeOK, Maglists, threadVars, bufferVars, shellVars
  <1>7. Job'
    <2>1. Purging /\ Purging'
      BY <1>2, <1>4, <1>5 DEF Purging
    <2>2. pc' = pc /\ held' = held
      BY <1>2 DEF threadVars, bufferVars
    <2> QED
      BY <1>1, <1>2, <1>4, <1>5, <2>1, <2>2 DEF Job, MayGrow
  <1>8. Drained'
    <2>1. Sealed' <=> Sealed
      BY <1>2 DEF Sealed
    <2>2. upd' = "reap_full" => upd = "ws_again"
      BY <1>2
    <2> QED
      BY <1>1, <1>3, <1>5, <2>1, <2>2 DEF Drained, Reapable
  <1> QED
    BY <1>2, <1>3, <1>6, <1>7, <1>8, BooksSuffice

\* umem_maglist_mark_excess keeps the lists and their types.
LEMMA ExcessIs ==
    ASSUME CardFacts, Types2, NEW k \in Kinds, NEW n, n = Cardinality(depot[k].list),
           NEW d, d = IF n > PERCPU_MAX
                      THEN [depot[k] EXCEPT !.reaplimit = Max({@, n - PERCPU_MAX})]
                      ELSE depot[k]
    PROVE  d \in Maglists /\ d.list = depot[k].list
  <1>1. depot[k] \in Maglists
    BY DEF Types2, TypeOK, Maglists
  <1>2. /\ n \in 0 .. Cardinality(Mags) /\ Cardinality(Mags) \in Nat
        /\ depot[k].reaplimit \in 0 .. Cardinality(Mags) /\ PERCPU_MAX \in Nat
    BY <1>1, MagazineConstants DEF CardFacts, Maglists
  <1>3. CASE n > PERCPU_MAX
    <2>1. /\ depot[k].reaplimit \in Int /\ n - PERCPU_MAX \in Int
          /\ n - PERCPU_MAX \in 0 .. Cardinality(Mags)
      BY <1>2, <1>3, SMT
    <2>2. PICK x : x = Max({depot[k].reaplimit, n - PERCPU_MAX})
      OBVIOUS
    <2>3. x \in {depot[k].reaplimit, n - PERCPU_MAX}
      BY <2>1, <2>2, MaxTwo
    <2>4. x \in 0 .. Cardinality(Mags)
      BY <1>2, <2>1, <2>3
    <2>5. d = [depot[k] EXCEPT !.reaplimit = x]
      BY <1>1, <1>3, <2>2 DEF Maglists
    <2> QED
      BY <1>1, <2>4, <2>5 DEF Maglists
  <1>4. CASE ~(n > PERCPU_MAX)
    BY <1>1, <1>4
  <1> QED
    BY <1>3, <1>4

\* The reap is over; what comes next depends on the job.
LEMMA MarkExcessInv ==
    ASSUME CardFacts, IInv, MarkExcess, UNCHANGED config
    PROVE  IInv'
  <1>1. Types2 /\ Job /\ Drained
    BY DEF IInv
  <1>2. /\ upd = "mark" /\ doomed = {}
        /\ why' = IF why = "reap" THEN "none" ELSE why
        /\ UNCHANGED <<cc, cache_magtype, to_purge, doomed, threadVars, bufferVars, shellVars>>
    BY DEF MarkExcess
  <1>3. why \in {"reap", "resize", "destroy"} /\ to_purge = {}
    BY <1>1, <1>2 DEF Types2, Job
  <1>4. /\ why = "reap" => upd' = "idle"
        /\ why = "resize" => upd' = "set_magtype"
        /\ why = "destroy" => upd' = "gone"
    BY DEF MarkExcess
  <1>5. /\ depot' \in [Kinds -> Maglists]
        /\ \A k \in Kinds : depot'[k].list = depot[k].list
    <2>1. depot' = [k \in Kinds |->
                      LET total == Cardinality(depot[k].list) IN
                      IF total > PERCPU_MAX
                      THEN [depot[k] EXCEPT !.reaplimit = Max({@, total - PERCPU_MAX})]
                      ELSE depot[k]]
      BY DEF MarkExcess
    <2>2. ASSUME NEW k \in Kinds PROVE depot'[k] \in Maglists /\ depot'[k].list = depot[k].list
      <3>1. PICK n : n = Cardinality(depot[k].list)
        OBVIOUS
      <3>2. PICK d : d = depot'[k]
        OBVIOUS
      <3>3. d = IF n > PERCPU_MAX
                THEN [depot[k] EXCEPT !.reaplimit = Max({@, n - PERCPU_MAX})]
                ELSE depot[k]
        BY <2>1, <3>1, <3>2
      <3> QED
        BY <1>1, <3>1, <3>2, <3>3, ExcessIs, SMT
    <2>3. depot' \in [Kinds -> Maglists]
      BY <2>1, <2>2
    <2> QED
      BY <2>2, <2>3
  <1>6. Types2'
    <2>1. upd' \in Phases /\ why' \in {"none", "reap", "resize", "destroy"}
      BY <1>2, <1>3, <1>4 DEF Phases
    <2> QED
      BY <1>1, <1>2, <1>5, <2>1
         DEF Types2, TypeOK, Maglists, threadVars, bufferVars, shellVars
  <1>7. Job'
    <2>1. Purging' <=> Purging
      BY <1>2, <1>3, <1>4 DEF Purging
    <2>2. pc' = pc /\ held' = held
      BY <1>2 DEF threadVars, bufferVars
    <2>3. MayGrow' <=> MayGrow
      BY <1>2 DEF MayGrow
    <2> QED
      BY <1>1, <1>2, <1>3, <1>4, <2>1, <2>2, <2>3 DEF Job
  <1>8. Drained'
    <2>1. Sealed' => Sealed /\ upd' \in {"set_magtype", "gone"}
      BY <1>2, <1>3, <1>4 DEF Sealed
    <2> QED
      BY <1>1, <1>2, <1>5, <2>1 DEF Drained
  <1> QED
    BY <1>2, <1>5, <1>6, <1>7, <1>8, BooksSuffice

\* A job begins.
LEMMA StartJobInv ==
    ASSUME IInv, NEW w \in {"reap", "resize", "destroy"}, StartJob(w), UNCHANGED config
    PROVE  IInv'
  <1>1. Types2 /\ Job /\ Drained
    BY DEF IInv
  <1>2. /\ upd = "idle" /\ (w = "resize" => MayGrow)
        /\ w = "destroy" => /\ \A b \in Bufs : held[b] = 0
                            /\ \A t \in Threads : pc[t] = "idle"
        /\ why' = w
        /\ upd' = IF w = "reap" THEN "reap_full" ELSE "purge"
        /\ to_purge' = IF w = "reap" THEN {} ELSE config.cpus
        /\ UNCHANGED <<cc, depot, cache_magtype, doomed, threadVars, bufferVars, shellVars>>
    BY DEF StartJob
  <1>3. doomed = {}
    BY <1>1, <1>2 DEF Job
  <1>4. Types2'
    <2>1. upd' \in Phases /\ why' \in {"none", "reap", "resize", "destroy"}
      BY <1>2 DEF Phases
    <2>2. to_purge' \subseteq CPUs
      BY <1>1, <1>2, Configs DEF Types2
    <2> QED
      BY <1>1, <1>2, <2>1, <2>2 DEF Types2, TypeOK, threadVars, bufferVars, shellVars
  <1>5. Job'
    <2>1. /\ Purging' <=> w \in {"resize", "destroy"}
          /\ w # "reap" => upd' = "purge" /\ to_purge' = config.cpus
          /\ w = "reap" => upd' = "reap_full" /\ to_purge' = {}
      BY <1>2 DEF Purging
    <2>2. pc' = pc /\ held' = held /\ (MayGrow' <=> MayGrow) /\ config' = config
      BY <1>2 DEF threadVars, bufferVars, MayGrow
    <2> QED
      BY <1>2, <1>3, <2>1, <2>2 DEF Job
  <1>6. Drained'
    BY <1>2 DEF Drained, Sealed
  <1> QED
    BY <1>2, <1>4, <1>5, <1>6, BooksSuffice

\* umem_cache_magazine_resize publishes the next magtype: every CPU is off, so no
\* thread expects a magazine of the old one.
LEMMA SetMagtypeInv ==
    ASSUME IInv, SetMagtype, UNCHANGED config
    PROVE  IInv'
  <1>1. /\ Types2 /\ Job /\ Drained /\ Fresh /\ \A c \in CPUs : CpuSound(c)
        /\ \A t \in Threads : Hands(t) /\ Locked(t)
    BY DEF IInv
  <1>2. /\ upd = "set_magtype" /\ cache_magtype' = cache_magtype + 1
        /\ upd' = "enable" /\ to_purge' = config.cpus
        /\ UNCHANGED <<cc, depot, why, doomed, threadVars, bufferVars, shellVars>>
    BY DEF SetMagtype
  <1>3. why = "resize" /\ to_purge = {} /\ doomed = {} /\ Purging
    BY <1>1, <1>2 DEF Job, Purging
  <1>4. MayGrow /\ \A c \in config.cpus : cc[c].magsize = 0
    BY <1>1, <1>3 DEF Job
  <1>5. cache_magtype' \in Types
    <2>1. cache_magtype \in 1 .. Len(MAGSIZES) /\ Len(MAGSIZES) \in Nat
      <3>1. cache_magtype \in Types
        BY <1>1 DEF Types2, TypeOK
      <3>2. Len(MAGSIZES) \in Nat
        BY MagazineConstants, SMT
      <3> QED
        BY <3>1, <3>2 DEF Types
    <2>2. cache_magtype < Len(MAGSIZES)
      BY <1>4 DEF MayGrow
    <2>3. cache_magtype + 1 \in 1 .. Len(MAGSIZES)
      BY <2>1, <2>2, SMT
    <2> QED
      BY <1>2, <2>3 DEF Types
  <1>6. \A t \in Threads : ~Locks(t)
    <2> SUFFICES ASSUME NEW t \in Threads, Locks(t) PROVE FALSE
      OBVIOUS
    <2>1. cpu[t] \in config.cpus
      BY <1>1 DEF Hands, Locks
    <2>2. cc[cpu[t]].magsize > 0
      BY <1>1 DEF Locked
    <2> QED
      BY <1>4, <2>1, <2>2, SMT
  <1>7. /\ pc' = pc /\ slab' = slab /\ constructed' = constructed /\ mag_type' = mag_type
        /\ held' = held /\ mag' = mag
    BY <1>2 DEF threadVars, bufferVars, shellVars
  <1>8. \A t \in Threads : Hands(t)' /\ Locked(t)'
    BY <1>2, <1>6, <1>7, ThreadsStable
  <1>9. \A c \in CPUs : SameCpu(c)
    BY <1>2 DEF SameCpu
  <1>10. \A c \in CPUs : CpuSound(c)'
    <2>1. \A m : Capacity(m)' = Capacity(m)
      BY <1>7 DEF Capacity
    <2> QED
      BY <1>1, <1>2, <1>4, <2>1 DEF CpuSound
  <1>11. Types2'
    <2>1. upd' \in Phases /\ to_purge' \subseteq CPUs
      BY <1>1, <1>2, Configs DEF Phases, Types2
    <2> QED
      BY <1>1, <1>2, <1>5, <2>1 DEF Types2, TypeOK, threadVars, bufferVars, shellVars
  <1>12. Job'
    <2>1. ~Purging'
      BY <1>2 DEF Purging
    <2> QED
      BY <1>2, <1>3, <1>7, <2>1 DEF Job
  <1>13. Drained'
    BY <1>2 DEF Drained
  <1>14. Fresh'
    <2>1. ~config.rseq => \A k \in Kinds : depot[k].list = {}
      BY <1>1, <1>2, <1>3 DEF Drained, Sealed
    <2> QED
      BY <1>1, <1>2, <1>3, <1>7, <2>1 DEF Fresh
  <1> QED
    BY <1>2, <1>8, <1>9, <1>10, <1>11, <1>12, <1>13, <1>14, StillSuffices

\* umem_cache_magazine_enable turns a CPU on.  It has nothing loaded: its size was
\* zero, or the new one already.
LEMMA EnableInv ==
    ASSUME IInv, NEW c \in CPUs, Enable(c), UNCHANGED config
    PROVE  IInv'
  <1>1. /\ Types2 /\ Job /\ Drained /\ Fresh /\ Placed /\ \A b \in CPUs : CpuSound(b)
    BY DEF IInv
  <1>2. /\ upd = "enable" /\ c \in to_purge /\ cc[c].lock = NoOne
        /\ cc' = [cc EXCEPT ![c].magsize = MAGSIZES[cache_magtype]]
        /\ to_purge' = to_purge \ {c}
        /\ upd' = IF to_purge = {c} THEN "idle" ELSE upd
        /\ why' = IF to_purge = {c} THEN "none" ELSE why
        /\ UNCHANGED <<depot, cache_magtype, doomed, threadVars, bufferVars, shellVars>>
    BY DEF Enable
  <1>3. why = "resize" /\ doomed = {} /\ to_purge \subseteq config.cpus
    BY <1>1, <1>2 DEF Job
  <1>4. cc[c] \in CpuRecords /\ MAGSIZES[cache_magtype] \in {MAGSIZES[i] : i \in Types}
    BY <1>1 DEF Types2, TypeOK, CpuRecords
  <1>5. PICK r : r = [cc[c] EXCEPT !.magsize = MAGSIZES[cache_magtype]]
    OBVIOUS
  <1>6. /\ r \in CpuRecords /\ r.lock = NoOne /\ r.loaded = cc[c].loaded
        /\ r.rounds = cc[c].rounds /\ r.ploaded = cc[c].ploaded
        /\ r.prounds = cc[c].prounds /\ r.magsize = MAGSIZES[cache_magtype]
    BY <1>2, <1>4, <1>5 DEF CpuRecords
  <1>7. CpuMags(c) = {} \/ cc[c].magsize = MAGSIZES[cache_magtype]
    <2> SUFFICES ASSUME NEW m \in CpuMags(c) PROVE cc[c].magsize = MAGSIZES[cache_magtype]
      OBVIOUS
    <2>1. Capacity(m) = cc[c].magsize /\ cc[c].magsize \in {0, MAGSIZES[cache_magtype]}
      BY <1>1, <1>2, <1>3 DEF CpuSound, CpuMags
    <2>2. Capacity(m) # 0
      <3>1. m \in Shells
        BY <1>1 DEF Placed
      <3>2. Capacity(m) > 0 /\ Capacity(m) \in Nat
        BY <1>1, <3>1, ShellCapacity
      <3> QED
        BY <3>2, SMT
    <2> QED
      BY <2>1, <2>2
  <1>8. Sound(c, r)
    <2>1. CASE cc[c].magsize = MAGSIZES[cache_magtype]
      BY <1>1, <1>6, <2>1 DEF CpuSound, Sound
    <2>2. CASE CpuMags(c) = {}
      <3>1. cc[c].loaded = NoOne /\ cc[c].ploaded = NoOne
        BY <2>2 DEF CpuMags
      <3> QED
        BY <1>1, <1>6, <3>1 DEF CpuSound, Sound
    <2> QED
      BY <1>7, <2>1, <2>2
  <1>9. cc' = [cc EXCEPT ![c] = r] /\ mag_type' = mag_type
    BY <1>1, <1>2, <1>5 DEF Types2, TypeOK, shellVars
  <1>10. /\ cc' \in [CPUs -> CpuRecords] /\ cc'[c] = r
         /\ \A b \in CPUs \ {c} : cc'[b] = cc[b]
         /\ \A b \in CPUs : CpuSound(b)'
    BY <1>1, <1>2, <1>6, <1>8, <1>9, SetCpu
  <1>11. \A b \in CPUs : SameCpu(b) \/ (CpuMags(b) = {} /\ CpuMags(b)' = {})
    <2>1. \A b \in CPUs \ {c} : SameCpu(b)
      BY <1>10 DEF SameCpu
    <2>2. CpuMags(c)' = CpuMags(c)
      BY <1>6, <1>10 DEF CpuMags
    <2>3. cc[c].magsize = MAGSIZES[cache_magtype] => SameCpu(c)
      BY <1>6, <1>10 DEF SameCpu
    <2> QED
      BY <1>7, <2>1, <2>2, <2>3
  <1>12. \A t \in Threads : Hands(t)' /\ Locked(t)'
    BY <1>2, <1>6, <1>9, <1>10, ThreadsStable
  <1>13. Types2'
    <2>1. upd' \in Phases /\ why' \in {"none", "reap", "resize", "destroy"}
      BY <1>2, <1>3 DEF Phases
    <2>2. to_purge' \subseteq CPUs
      BY <1>1, <1>2 DEF Types2, TypeOK
    <2> QED
      BY <1>1, <1>2, <1>10, <2>1, <2>2
         DEF Types2, TypeOK, CpuRecords, threadVars, bufferVars, shellVars
  <1>14. Job'
    <2>1. ~Purging'
      BY <1>2, <1>3 DEF Purging
    <2>2. to_purge = {c} => to_purge' = {}
      BY <1>2
    <2>3. \/ upd' = "idle" /\ why' = "none" /\ to_purge' = {}
          \/ upd' = "enable" /\ why' = "resize"
      BY <1>2, <1>3, <2>2
    <2>4. to_purge' \subseteq config.cpus /\ doomed' = {}
      BY <1>2, <1>3
    <2> QED
      BY <2>1, <2>3, <2>4 DEF Job
  <1>15. Drained'
    BY <1>2, <1>3 DEF Drained, Sealed
  <1>16. Fresh'
    BY <1>1, <1>2 DEF Fresh, Valid, threadVars, bufferVars, shellVars
  <1> QED
    BY <1>2, <1>10, <1>11, <1>12, <1>13, <1>14, <1>15, <1>16, StillSuffices, SMT

\* The shells G leave the CPUs and the depot for the update thread, which had none.
Handed(G) ==
    /\ doomed = {} /\ UNCHANGED <<mag, mag_type>>
    /\ \A x : (\E d \in doomed' : d.mag = x) <=> x \in G
    /\ \A d, e \in doomed' : d.mag = e.mag => d = e
    /\ \A c \in CPUs : \A x : x \in CpuMags(c)' <=> x \in CpuMags(c) /\ x \notin G
    /\ \A k \in Kinds : \A x : x \in depot'[k].list <=> x \in depot[k].list /\ x \notin G
    /\ \A c \in CPUs : cc'[c].loaded # NoOne => cc'[c].loaded # cc'[c].ploaded
    /\ \A x \in G : (\E c \in CPUs : x \in CpuMags(c)) \/ (\E k \in Kinds : x \in depot[k].list)

\* Shells that change hands in this way are in one place before and after.
LEMMA HandedMoves ==
    ASSUME Placed, Covered, Apart, NEW G, Handed(G)
    PROVE  Placed' /\ Covered' /\ Apart'
  <1>1. Shells' = Shells /\ mag' = mag /\ doomed = {}
    BY DEF Handed, Shells
  <1>2. /\ \A x : (\E d \in doomed' : d.mag = x) <=> x \in G
        /\ \A d \in doomed' : d.mag \in G
        /\ \A d, e \in doomed' : d.mag = e.mag => d = e
    BY DEF Handed
  <1>3. /\ \A c \in CPUs : \A x : x \in CpuMags(c)' <=> x \in CpuMags(c) /\ x \notin G
        /\ \A k \in Kinds : \A x : x \in depot'[k].list <=> x \in depot[k].list /\ x \notin G
    BY DEF Handed
  <1>4. \A x \in G : x \in Shells /\ \A t \in Threads : mag[t] # x
    <2> TAKE x \in G
    <2>1. \/ \E c \in CPUs : x \in CpuMags(c)
          \/ \E k \in Kinds : x \in depot[k].list
      BY DEF Handed
    <2>2. x \in Shells
      BY <2>1 DEF Placed
    <2>3. x # NoOne
      BY <2>2, MagazineConstants DEF Shells
    <2> QED
      BY <2>1, <2>2, <2>3, SMT DEF Apart
  <1>5. Placed'
    BY <1>1, <1>2, <1>3, <1>4 DEF Placed
  <1>6. Covered'
    BY <1>1, <1>2, <1>3 DEF Covered
  <1>7. Apart'
    <2>1. \A c \in CPUs : cc'[c].loaded # NoOne => cc'[c].loaded # cc'[c].ploaded
      BY DEF Handed
    <2>2. \A b, c \in CPUs : \A m \in Mags : m \in CpuMags(b)' /\ m \in CpuMags(c)' => b = c
      BY <1>3 DEF Apart
    <2>3. \A m \in Mags : ~(m \in depot'["full"].list /\ m \in depot'["empty"].list)
      BY <1>3 DEF Apart, Kinds
    <2>4. \A t, u \in Threads : mag'[t] # NoOne /\ mag'[t] = mag'[u] => t = u
      BY <1>1 DEF Apart
    <2>5. \A c \in CPUs : \A m \in CpuMags(c)' :
             /\ \A k \in Kinds : m \notin depot'[k].list
             /\ \A t \in Threads : mag'[t] # m
             /\ \A d \in doomed' : d.mag # m
      BY <1>1, <1>2, <1>3 DEF Apart
    <2>6. \A t \in Threads : mag'[t] # NoOne =>
             /\ \A k \in Kinds : mag'[t] \notin depot'[k].list
             /\ \A d \in doomed' : d.mag # mag'[t]
      BY <1>1, <1>2, <1>3, <1>4 DEF Apart
    <2>7. \A d \in doomed' : \A k \in Kinds : d.mag \notin depot'[k].list
      BY <1>2, <1>3
    <2> QED
      BY <1>2, <2>1, <2>2, <2>3, <2>4, <2>5, <2>6, <2>7 DEF Apart
  <1> QED
    BY <1>5, <1>6, <1>7

\* What is left to show of such a step.
LEMMA HandedSuffices ==
    ASSUME IInv, UNCHANGED <<config, cache_magtype, threadVars, bufferVars, shellVars>>,
           NEW G, Handed(G), Types2', Job', Drained',
           \A c \in CPUs : cc[c].lock # NoOne \/ cc'[c].lock # NoOne => cc'[c] = cc[c],
           \A c \in CPUs : CpuSound(c)',
           \A m \in Mags : \A i \in Index : Occ(m, i)' <=> Occ(m, i),
           ~config.rseq => \A x \in G : Valid(x)
    PROVE  IInv'
  <1>1. Types2 /\ Placed /\ Covered /\ Apart /\ Tally /\ Home /\ Fresh
    BY DEF IInv
  <1>2. /\ pc' = pc /\ obj' = obj /\ mag' = mag /\ mag_type' = mag_type
        /\ mag_round' = mag_round /\ mag_total' = mag_total
        /\ slab' = slab /\ held' = held /\ constructed' = constructed /\ config' = config
    BY DEF threadVars, bufferVars, shellVars
  <1>3. \A t \in Threads : Hands(t)' /\ Locked(t)'
    BY <1>2, ThreadsStable
  <1>4. Placed' /\ Covered' /\ Apart'
    BY <1>1, HandedMoves
  <1>5. Tally'
    <2>1. Counted' = Counted
      BY <1>2 DEF Counted
    <2> QED
      BY <1>1, <1>2, <2>1 DEF Tally
  <1>6. Home'
    <2>1. SameSlots
      BY <1>2 DEF SameSlots
    <2> QED
      BY <1>1, <1>2, <2>1, HomeStable
  <1>7. Fresh'
    <2>1. \A m : Valid(m)' <=> Valid(m)
      BY <1>2 DEF Valid
    <2>2. \A d \in doomed' : d.mag \in G
      BY DEF Handed
    <2>3. \A k \in Kinds : \A x : x \in depot'[k].list => x \in depot[k].list
      BY DEF Handed
    <2> QED
      BY <1>1, <1>2, <2>1, <2>2, <2>3 DEF Fresh
  <1> QED
    BY <1>3, <1>4, <1>5, <1>6, <1>7 DEF IInv

\* umem_cache_magazine_purge takes both magazines from a CPU and turns it off.
LEMMA PurgeCpuInv ==
    ASSUME IInv, NEW c \in CPUs, PurgeCpu(c), UNCHANGED config
    PROVE  IInv'
  <1>1. /\ Types2 /\ Job /\ Drained /\ Fresh /\ Placed /\ Apart /\ \A b \in CPUs : CpuSound(b)
    BY DEF IInv
  <1>2. /\ upd = "purge" /\ doomed = {} /\ c \in to_purge /\ cc[c].lock = NoOne
        /\ cc' = [cc EXCEPT ![c] = Emptied(c)]
        /\ doomed' = {d \in {Doomed(cc[c].loaded, cc[c].rounds, FALSE),
                             Doomed(cc[c].ploaded, cc[c].prounds, FALSE)} : d.mag # NoOne}
        /\ to_purge' = to_purge \ {c}
        /\ UNCHANGED <<depot, cache_magtype, upd, why, threadVars, bufferVars, shellVars>>
    BY DEF PurgeCpu
  <1>3. /\ mag' = mag /\ mag_type' = mag_type /\ op' = op /\ pc' = pc /\ held' = held
    BY <1>2 DEF threadVars, shellVars, bufferVars
  <1>4. /\ Emptied(c) \in CpuRecords /\ Sound(c, Emptied(c))
        /\ Emptied(c).lock = NoOne /\ Emptied(c).loaded = NoOne /\ Emptied(c).ploaded = NoOne
        /\ Emptied(c).magsize = 0
    <2>1. -1 \in -1 .. MAXSIZE
      BY Sizes, SMT
    <2>2. Emptied(c) \in CpuRecords
      BY <2>1 DEF Emptied, CpuRecords
    <2>3. /\ Emptied(c).lock = NoOne /\ Emptied(c).magsize = 0
          /\ Emptied(c).loaded = NoOne /\ Emptied(c).rounds = -1
          /\ Emptied(c).ploaded = NoOne /\ Emptied(c).prounds = -1
      BY DEF Emptied
    <2> QED
      BY <2>2, <2>3 DEF Sound
  <1>5. PICK r : r = Emptied(c)
    OBVIOUS
  <1>6. /\ cc' \in [CPUs -> CpuRecords] /\ cc'[c] = r
        /\ \A b \in CPUs \ {c} : cc'[b] = cc[b]
        /\ \A b \in CPUs : CpuSound(b)'
    <2>1. r \in CpuRecords /\ Sound(c, r) /\ cc' = [cc EXCEPT ![c] = r]
      BY <1>2, <1>4, <1>5
    <2> QED
      BY <1>1, <1>2, <1>3, <2>1, SetCpu
  <1>7. PICK l, p, m, n : /\ l = cc[c].loaded /\ p = cc[c].ploaded
                          /\ m = cc[c].rounds /\ n = cc[c].prounds
    OBVIOUS
  <1>8. PICK L, P : L = Doomed(l, m, FALSE) /\ P = Doomed(p, n, FALSE)
    OBVIOUS
  <1>9. /\ L.mag = l /\ L.rounds = m /\ ~L.checked
        /\ P.mag = p /\ P.rounds = n /\ ~P.checked
        /\ \A d : d \in doomed' <=> (l # NoOne /\ d = L) \/ (p # NoOne /\ d = P)
    <2>1. /\ L.mag = l /\ L.rounds = m /\ ~L.checked
          /\ P.mag = p /\ P.rounds = n /\ ~P.checked
      BY <1>8 DEF Doomed
    <2>2. doomed' = {d \in {L, P} : d.mag # NoOne}
      BY <1>2, <1>7, <1>8
    <2> QED
      BY <2>1, <2>2
  <1>10. l # NoOne => l # p
    BY <1>1, <1>7 DEF Apart
  <1>11. \A d \in doomed' : /\ ~d.checked
                            /\ \/ d.mag = l /\ l # NoOne /\ d.rounds = m
                               \/ d.mag = p /\ p # NoOne /\ d.rounds = n
    BY <1>9
  <1>12. /\ l # NoOne => L \in doomed'
         /\ p # NoOne => P \in doomed'
    BY <1>9
  <1>13. \A x : x \in CpuMags(c) <=> x # NoOne /\ (x = l \/ x = p)
    BY <1>7 DEF CpuMags
  <1>14. /\ CpuMags(c)' = {} /\ \A b \in CPUs \ {c} : CpuMags(b)' = CpuMags(b)
    BY <1>4, <1>5, <1>6 DEF CpuMags
  <1>15. \A x \in CpuMags(c) : /\ x \in Mags /\ x \in Shells
                               /\ \A b \in CPUs \ {c} : x \notin CpuMags(b)
                               /\ \A k \in Kinds : x \notin depot[k].list
                               /\ \A t \in Threads : mag[t] # x
    BY <1>1 DEF Apart, Placed, Shells
  <1>16. Handed(CpuMags(c))
    <2>1. \A x : (\E d \in doomed' : d.mag = x) <=> x \in CpuMags(c)
      BY <1>9, <1>11, <1>12, <1>13
    <2>2. \A d, e \in doomed' : d.mag = e.mag => d = e
      <3> TAKE d, e \in doomed'
      <3>1. /\ (l # NoOne /\ d = L) \/ (p # NoOne /\ d = P)
            /\ (l # NoOne /\ e = L) \/ (p # NoOne /\ e = P)
        BY <1>9
      <3>2. PICK lm, pm : lm = L.mag /\ pm = P.mag /\ (l # NoOne => lm # pm)
        BY <1>9, <1>10
      <3>3. /\ d = L => d.mag = lm
            /\ d = P => d.mag = pm
            /\ e = L => e.mag = lm
            /\ e = P => e.mag = pm
        BY <3>2
      <3> QED
        BY <3>1, <3>2, <3>3, SMT
    <2>3. \A b \in CPUs : \A x : x \in CpuMags(b)' <=> x \in CpuMags(b) /\ x \notin CpuMags(c)
      BY <1>14, <1>15
    <2>4. \A k \in Kinds : \A x : x \in depot'[k].list
                                  <=> x \in depot[k].list /\ x \notin CpuMags(c)
      BY <1>2, <1>15
    <2>5. \A b \in CPUs : cc'[b].loaded # NoOne => cc'[b].loaded # cc'[b].ploaded
      BY <1>1, <1>4, <1>5, <1>6 DEF Apart
    <2> QED
      BY <1>2, <1>3, <2>1, <2>2, <2>3, <2>4, <2>5 DEF Handed
  <1>17. ASSUME NEW x \in Mags, NEW i \in Index PROVE Occ(x, i)' <=> Occ(x, i)
    <2>1. x # NoOne
      BY MagazineConstants
    <2>2. /\ \A b \in CPUs \ {c} : OccCpu(b, x, i)' <=> OccCpu(b, x, i)
          /\ ~OccCpu(c, x, i)'
          /\ OccCpu(c, x, i) <=> (x = l /\ i <= m) \/ (x = p /\ i <= n)
      BY <1>4, <1>5, <1>6, <1>7, <2>1 DEF OccCpu
    <2>3. \A d \in doomed' : DoomedRounds(d)' = d.rounds
      BY <1>11 DEF DoomedRounds
    <2>4. (\E d \in doomed' : d.mag = x /\ i <= DoomedRounds(d)')
          <=> (x = l /\ i <= m) \/ (x = p /\ i <= n)
      <3>1. ASSUME NEW d \in doomed', d.mag = x, i <= DoomedRounds(d)'
            PROVE  (x = l /\ i <= m) \/ (x = p /\ i <= n)
        BY <1>9, <2>3, <3>1
      <3>2. ASSUME x = l, i <= m
            PROVE  \E d \in doomed' : d.mag = x /\ i <= DoomedRounds(d)'
        <4>1. L \in doomed' /\ L.mag = x /\ L.rounds = m
          BY <1>9, <2>1, <3>2
        <4> QED
          BY <2>3, <3>2, <4>1
      <3>3. ASSUME x = p, i <= n
            PROVE  \E d \in doomed' : d.mag = x /\ i <= DoomedRounds(d)'
        <4>1. P \in doomed' /\ P.mag = x /\ P.rounds = n
          BY <1>9, <2>1, <3>3
        <4> QED
          BY <2>3, <3>3, <4>1
      <3> QED
        BY <3>1, <3>2, <3>3
    <2>5. /\ \A y : Capacity(y)' = Capacity(y) /\ \A t : Kind(t)' = Kind(t)
      BY <1>3 DEF Capacity, Kind
    <2> QED
      BY <1>2, <1>3, <2>2, <2>4, <2>5 DEF Occ
  <1>18. c \in config.cpus /\ why \in {"resize", "destroy"}
    BY <1>1, <1>2 DEF Job
  <1>19. \A x \in CpuMags(c) : Valid(x)
    <2> TAKE x \in CpuMags(c)
    <2>1. Capacity(x) = cc[c].magsize /\ cc[c].magsize \in {0, MAGSIZES[cache_magtype]}
      BY <1>1, <1>18, SMT DEF CpuSound, CpuMags
    <2>2. Capacity(x) \in Nat /\ Capacity(x) > 0
      BY <1>1, <1>15, ShellCapacity
    <2>3. Capacity(x) = MAGSIZES[cache_magtype]
      BY <2>1, <2>2, SMT
    <2>4. mag_type[x] \in Types /\ cache_magtype \in Types
      BY <1>1, <1>15 DEF Types2, TypeOK, Shells
    <2> QED
      BY <2>3, <2>4, Sizes DEF Capacity, Valid
  <1>20. \A d \in doomed' : /\ d.mag \in Mags /\ d.rounds \in 0 .. MAXSIZE
                            /\ d.rounds <= Capacity(d.mag)
    <2>1. /\ l # NoOne => l \in Mags /\ m \in 0 .. MAXSIZE /\ m <= Capacity(l)
          /\ p # NoOne => p \in Mags /\ n \in 0 .. MAXSIZE /\ n <= Capacity(p)
      <3>1. /\ cc[c].magsize \in 0 .. MAXSIZE /\ MAXSIZE \in Nat
        BY <1>1, CpuTypes, Sizes
      <3>2. /\ l # NoOne => m \in 0 .. cc[c].magsize /\ Capacity(l) = cc[c].magsize
            /\ p # NoOne => n \in {0, cc[c].magsize} /\ Capacity(p) = cc[c].magsize
        BY <1>1, <1>7 DEF CpuSound
      <3>3. /\ l # NoOne => m \in 0 .. MAXSIZE /\ m <= Capacity(l)
            /\ p # NoOne => n \in 0 .. MAXSIZE /\ n <= Capacity(p)
        BY <3>1, <3>2, SMT
      <3> QED
        BY <1>13, <1>15, <3>3
    <2> QED
      BY <1>11, <2>1
  <1>21. Types2'
    <2>1. doomed' \subseteq [mag : Mags, rounds : 0 .. MAXSIZE, checked : BOOLEAN]
      <3>1. SUFFICES ASSUME NEW d \in doomed'
                     PROVE  d \in [mag : Mags, rounds : 0 .. MAXSIZE, checked : BOOLEAN]
        OBVIOUS
      <3>2. d = L \/ d = P
        BY <1>9
      <3>3. d.mag \in Mags /\ d.rounds \in 0 .. MAXSIZE
        BY <1>20
      <3>4. CASE d = L
        <4>1. l \in Mags /\ m \in 0 .. MAXSIZE
          BY <1>9, <3>3, <3>4
        <4> QED
          BY <1>8, <3>4, <4>1 DEF Doomed
      <3>5. CASE d = P
        <4>1. p \in Mags /\ n \in 0 .. MAXSIZE
          BY <1>9, <3>3, <3>5
        <4> QED
          BY <1>8, <3>5, <4>1 DEF Doomed
      <3> QED
        BY <3>2, <3>4, <3>5
    <2>2. to_purge' \subseteq CPUs
      BY <1>1, <1>2 DEF Types2, TypeOK
    <2> QED
      BY <1>1, <1>2, <1>6, <2>1, <2>2
         DEF Types2, TypeOK, CpuRecords, threadVars, bufferVars, shellVars
  <1>22. Job'
    <2>1. \A d \in doomed' : d.rounds <= Capacity(d.mag)' /\ ~d.checked
      BY <1>3, <1>11, <1>20 DEF Capacity
    <2>2. \A b \in config.cpus \ to_purge' : cc'[b].magsize = 0
      <3>1. Purging
        BY <1>2, <1>18 DEF Purging
      <3>2. \A b \in config.cpus : b \in CPUs
        BY <1>1, Configs DEF Types2
      <3>3. \A b \in config.cpus \ to_purge : cc[b].magsize = 0
        BY <1>1, <3>1 DEF Job
      <3>4. cc'[c].magsize = 0
        BY <1>4, <1>5, <1>6
      <3> QED
        BY <1>2, <1>6, <3>2, <3>3, <3>4
    <2>3. (Purging' <=> Purging) /\ (MayGrow' <=> MayGrow)
      BY <1>2 DEF Purging, MayGrow
    <2>4. to_purge' \subseteq config.cpus
      BY <1>1, <1>2 DEF Job
    <2> QED
      BY <1>1, <1>2, <1>3, <1>18, <2>1, <2>2, <2>3, <2>4 DEF Job
  <1>23. Drained'
    BY <1>2 DEF Drained
  <1>24. \A b \in CPUs : cc[b].lock # NoOne \/ cc'[b].lock # NoOne => cc'[b] = cc[b]
    BY <1>2, <1>4, <1>5, <1>6
  <1> QED
    BY <1>2, <1>6, <1>16, <1>17, <1>19, <1>21, <1>22, <1>23, <1>24, HandedSuffices

\* umem_depot_ws_reap takes magazines off a list.  In a purge with the depot closed
\* that is all of them.
LEMMA WsReapInv ==
    ASSUME CardFacts, IInv, NEW k \in Kinds, WsReap(k), UNCHANGED config
    PROVE  IInv'
  <1>1. /\ Types2 /\ Job /\ Drained /\ Fresh /\ Placed /\ Apart /\ \A b \in CPUs : CpuSound(b)
    BY DEF IInv
  <1>2. PICK ms \in SUBSET depot[k].list :
          /\ Cardinality(ms) = ReapCount(depot[k])
          /\ depot' = [depot EXCEPT ![k].list = @ \ ms]
          /\ doomed' = {Doomed(m, IF k = "full" THEN MAGSIZES[cache_magtype] ELSE 0, TRUE) :
                        m \in ms}
    BY DEF WsReap
  <1>3. /\ upd = (IF k = "full" THEN "reap_full" ELSE "reap_empty") /\ doomed = {}
        /\ upd' = IF k = "full" THEN "reap_empty" ELSE "mark"
        /\ UNCHANGED <<cc, cache_magtype, why, to_purge, threadVars, bufferVars, shellVars>>
    BY DEF WsReap
  <1>4. /\ k \in {"full", "empty"}
        /\ k = "full" => upd = "reap_full" /\ upd' = "reap_empty"
        /\ k = "empty" => upd = "reap_empty" /\ upd' = "mark"
    BY <1>3 DEF Kinds
  <1>5. /\ mag' = mag /\ mag_type' = mag_type /\ op' = op /\ pc' = pc /\ held' = held
    BY <1>3 DEF threadVars, shellVars, bufferVars
  <1>6. PICK n : n = IF k = "full" THEN MAGSIZES[cache_magtype] ELSE 0
    OBVIOUS
  <1>7. n \in 0 .. MAXSIZE /\ (n > 0 <=> k = "full") /\ n \in {0, MAGSIZES[cache_magtype]}
    <2>1. MAGSIZES[cache_magtype] \in 1 .. MAXSIZE /\ MAXSIZE \in Nat
      BY <1>1, Sizes DEF Types2, TypeOK
    <2> QED
      BY <1>6, <2>1, SMT
  <1>8. \A m : /\ Doomed(m, n, TRUE).mag = m /\ Doomed(m, n, TRUE).rounds = n
               /\ Doomed(m, n, TRUE).checked = TRUE
    BY DEF Doomed
  <1>9. \A d : d \in doomed' <=> \E m \in ms : d = Doomed(m, n, TRUE)
    BY <1>2, <1>6
  <1>10. ASSUME NEW d \in doomed'
         PROVE  d.mag \in ms /\ d.rounds = n /\ d.checked = TRUE /\ d = Doomed(d.mag, n, TRUE)
    <2>1. PICK m \in ms : d = Doomed(m, n, TRUE)
      BY <1>9
    <2>2. d.mag = m /\ d.rounds = n /\ d.checked = TRUE
      BY <1>8, <2>1
    <2> QED
      BY <2>1, <2>2
  <1>11. \A x : (\E d \in doomed' : d.mag = x) <=> x \in ms
    <2> TAKE x
    <2>1. x \in ms => Doomed(x, n, TRUE) \in doomed' /\ Doomed(x, n, TRUE).mag = x
      BY <1>8, <1>9
    <2> QED
      BY <1>10, <2>1
  <1>12. depot \in [Kinds -> Maglists]
    BY <1>1 DEF Types2, TypeOK, Maglists
  <1>13. /\ depot' \in [Kinds -> Maglists]
         /\ depot'[k].list = depot[k].list \ ms
         /\ \A j \in Kinds \ {k} : depot'[j] = depot[j]
    <2>1. depot[k] \in Maglists
      BY <1>12
    <2>2. PICK d : d = [depot[k] EXCEPT !.list = depot[k].list \ ms]
      OBVIOUS
    <2>3. d \in Maglists /\ d.list = depot[k].list \ ms
      BY <2>1, <2>2 DEF Maglists
    <2>4. depot' = [depot EXCEPT ![k] = d]
      BY <1>2, <1>12, <2>2
    <2> QED
      BY <1>12, <2>3, <2>4
  <1>14. \A x \in ms : /\ x \in Mags /\ x \in Shells /\ x \in depot[k].list
                       /\ \A b \in CPUs : x \notin CpuMags(b)
                       /\ \A j \in Kinds \ {k} : x \notin depot[j].list
                       /\ \A t \in Threads : mag[t] # x
    <2> TAKE x \in ms
    <2>1. x \in depot[k].list /\ x \in Shells
      BY <1>1 DEF Placed
    <2>2. x \in Mags
      BY <2>1 DEF Shells
    <2>3. x # NoOne
      BY <2>2, MagazineConstants
    <2>4. \A j \in Kinds \ {k} : x \notin depot[j].list
      BY <1>1, <2>1, <2>2, SMT DEF Apart, Kinds
    <2> QED
      BY <1>1, <2>1, <2>2, <2>3, <2>4, SMT DEF Apart
  <1>15. Handed(ms)
    <2>1. \A d, e \in doomed' : d.mag = e.mag => d = e
      BY <1>10
    <2>2. \A b \in CPUs : \A x : x \in CpuMags(b)' <=> x \in CpuMags(b) /\ x \notin ms
      BY <1>3, <1>14 DEF CpuMags
    <2>3. \A j \in Kinds : \A x : x \in depot'[j].list <=> x \in depot[j].list /\ x \notin ms
      BY <1>13, <1>14
    <2>4. \A b \in CPUs : cc'[b].loaded # NoOne => cc'[b].loaded # cc'[b].ploaded
      BY <1>1, <1>3 DEF Apart
    <2> QED
      BY <1>3, <1>5, <1>11, <1>14, <2>1, <2>2, <2>3, <2>4 DEF Handed
  <1>16. ASSUME NEW x \in Mags, NEW i \in Index PROVE Occ(x, i)' <=> Occ(x, i)
    <2>1. \A y : Capacity(y)' = Capacity(y) /\ \A t : Kind(t)' = Kind(t)
      BY <1>5 DEF Capacity, Kind
    <2>2. \A b \in CPUs : OccCpu(b, x, i)' <=> OccCpu(b, x, i)
      BY <1>3 DEF OccCpu
    <2>3. \A d \in doomed' : DoomedRounds(d)' = IF k = "full" THEN Capacity(d.mag) ELSE n
      BY <1>7, <1>10, <2>1 DEF DoomedRounds
    <2>4. CASE k = "full"
      <3>1. (\E d \in doomed' : d.mag = x /\ i <= DoomedRounds(d)')
            <=> x \in ms /\ i <= Capacity(x)
        BY <1>10, <1>11, <2>3, <2>4
      <3>2. x \in depot'["full"].list <=> x \in depot["full"].list /\ x \notin ms
        BY <1>13, <2>4
      <3>3. x \in ms => x \in depot["full"].list
        BY <1>14, <2>4
      <3>4. (x \in depot'["full"].list /\ i <= Capacity(x)')
                \/ (\E d \in doomed' : d.mag = x /\ i <= DoomedRounds(d)')
            <=> x \in depot["full"].list /\ i <= Capacity(x)
        BY <2>1, <3>1, <3>2, <3>3
      <3>5. (\E t \in Threads : mag'[t] = x /\ Kind(t)' = "full" /\ i <= Capacity(x)')
            <=> \E t \in Threads : mag[t] = x /\ Kind(t) = "full" /\ i <= Capacity(x)
        BY <1>5, <2>1
      <3>6. doomed = {}
        BY <1>3
      <3>7. ~\E d \in doomed : d.mag = x /\ i <= DoomedRounds(d)
        BY <3>6
      <3>8. (\E b \in CPUs : OccCpu(b, x, i)') <=> \E b \in CPUs : OccCpu(b, x, i)
        BY <2>2
      <3> QED
        BY <3>4, <3>5, <3>7, <3>8 DEF Occ
    <2>5. CASE k # "full"
      <3>1. \A d \in doomed' : ~(i <= DoomedRounds(d)')
        <4>1. n = 0
          BY <1>6, <2>5
        <4>2. ~(i <= 0)
          BY SMT DEF Index
        <4> QED
          BY <2>3, <2>5, <4>1, <4>2
      <3>2. depot'["full"].list = depot["full"].list
        BY <1>13, <2>5 DEF Kinds
      <3> QED
        BY <1>3, <1>5, <2>1, <2>2, <3>1, <3>2 DEF Occ
    <2> QED
      BY <2>4, <2>5
  <1>17. ~config.rseq => \A x \in ms : Valid(x)
    BY <1>1, <1>14 DEF Fresh
  <1>18. Types2'
    <2>1. doomed' \subseteq [mag : Mags, rounds : 0 .. MAXSIZE, checked : BOOLEAN]
      <3> SUFFICES ASSUME NEW d \in doomed'
                   PROVE  d \in [mag : Mags, rounds : 0 .. MAXSIZE, checked : BOOLEAN]
        OBVIOUS
      <3>1. PICK x \in Mags : d = Doomed(x, n, TRUE)
        BY <1>10, <1>14
      <3> QED
        BY <1>7, <3>1 DEF Doomed
    <2>2. upd' \in Phases
      BY <1>4 DEF Phases
    <2> QED
      BY <1>1, <1>3, <1>13, <2>1, <2>2
         DEF Types2, TypeOK, Maglists, threadVars, bufferVars, shellVars
  <1>19. Job'
    <2>1. (Purging' <=> Purging) /\ (MayGrow' <=> MayGrow)
      BY <1>3, <1>4 DEF Purging, MayGrow
    <2>2. \A d \in doomed' : d.checked /\ d.rounds \in {0, MAGSIZES[cache_magtype]}
      BY <1>7, <1>10
    <2>3. why # "none" /\ to_purge = {}
      BY <1>1, <1>4 DEF Job
    <2>4. upd' \in {"reap_empty", "mark"} /\ why' = why /\ to_purge' = {} /\ config' = config
      BY <1>3, <1>4, <2>3
    <2>5. /\ upd' = "idle" <=> why' = "none"
          /\ upd' \notin {"purge", "ws_again", "set_magtype", "enable", "gone"}
          /\ to_purge' \subseteq config'.cpus
      BY <2>3, <2>4
    <2>6. \A d \in doomed' : d.checked /\ d.rounds \in {0, MAGSIZES[cache_magtype']}
      BY <1>3, <2>2
    <2>7. Purging => \A c \in config.cpus \ to_purge : cc[c].magsize = 0
      BY <1>1 DEF Job
    <2>8. Purging' => \A c \in config'.cpus \ to_purge' : cc'[c].magsize = 0
      BY <1>3, <2>1, <2>4, <2>7
    <2>9. Purging' /\ why' = "resize" => MayGrow'
      BY <1>1, <2>1, <2>4 DEF Job
    <2>10. why' = "destroy" => /\ \A t \in Threads : pc'[t] = "idle"
                               /\ \A b \in Bufs : held'[b] = 0
      BY <1>1, <1>5, <2>4 DEF Job
    <2> QED
      BY <2>4, <2>5, <2>6, <2>8, <2>9, <2>10 DEF Job
  <1>20. Drained'
    <2>1. Sealed' <=> Sealed
      BY <1>3 DEF Sealed
    <2>2. Sealed => depot'[k].list = {}
      <3> SUFFICES ASSUME Sealed PROVE depot'[k].list = {}
        OBVIOUS
      <3>1. Reapable(k)
        BY <1>1, <1>4 DEF Drained, Kinds
      <3>2. PICK s : s = Cardinality(depot[k].list)
        OBVIOUS
      <3>3. s \in Int /\ depot[k].list \in SUBSET Mags
        <4>1. depot[k].list \in SUBSET Mags
          BY <1>12 DEF Maglists
        <4>2. Cardinality(depot[k].list) \in 0 .. Cardinality(Mags) /\ Cardinality(Mags) \in Nat
          BY <4>1 DEF CardFacts
        <4>3. Cardinality(depot[k].list) \in Int
          BY <4>2, SMT
        <4> QED
          BY <3>2, <4>1, <4>3
      <3>4. Cardinality(ms) = Min({s, s, s})
        BY <1>2, <3>1, <3>2 DEF ReapCount, Reapable
      <3>5. Min({s, s, s}) = s
        BY <3>3, MinThree
      <3>6. ms = depot[k].list
        <4>1. ms \in SUBSET depot[k].list
          BY <1>14
        <4>2. Cardinality(ms) = Cardinality(depot[k].list)
          BY <3>2, <3>4, <3>5
        <4>3. \A S \in SUBSET Mags : \A T \in SUBSET S :
                 Cardinality(T) = Cardinality(S) => T = S
          BY DEF CardFacts
        <4> QED
          BY <3>3, <4>1, <4>2, <4>3, SMT
      <3> QED
        BY <1>13, <3>6
    <2>3. CASE k = "full"
      <3>1. Sealed => Reapable("empty")
        BY <1>1, <1>4, <2>3 DEF Drained, Kinds
      <3>2. depot'["empty"] = depot["empty"]
        BY <1>13, <2>3 DEF Kinds
      <3> QED
        BY <1>4, <2>1, <2>2, <2>3, <3>1, <3>2 DEF Drained, Reapable
    <2>4. CASE k = "empty"
      <3>1. Sealed => depot["full"].list = {}
        BY <1>1, <1>4, <2>4 DEF Drained
      <3>2. depot'["full"] = depot["full"]
        BY <1>13, <2>4 DEF Kinds
      <3> QED
        BY <1>4, <2>1, <2>2, <2>4, <3>1, <3>2, SMT DEF Drained, Kinds
    <2> QED
      BY <1>4, <2>3, <2>4
  <1>21. \A b \in CPUs : CpuSound(b)'
    BY <1>1, <1>3, <1>5, CpuStable DEF SameCpu
  <1>22. \A x \in Mags : \A i \in Index : Occ(x, i)' <=> Occ(x, i)
    BY <1>16
  <1>23. \A b \in CPUs : cc[b].lock # NoOne \/ cc'[b].lock # NoOne => cc'[b] = cc[b]
    BY <1>3
  <1>24. UNCHANGED <<config, cache_magtype, threadVars, bufferVars, shellVars>>
    BY <1>3
  <1> QED
    BY <1>15, <1>17, <1>18, <1>19, <1>20, <1>21, <1>22, <1>23, <1>24, HandedSuffices

\* The update thread destroys a magazine it has taken: exactly the rounds that
\* counted go to the slab layer.
LEMMA DestroyMagInv ==
    ASSUME CardFacts, IInv, NEW d \in doomed, DestroyMag(d), UNCHANGED config
    PROVE  IInv'
  <1>1. /\ Types2 /\ Home /\ Fresh /\ Placed /\ Covered /\ Apart
        /\ Tally /\ Drained /\ Job /\ \A c \in CPUs : CpuSound(c)
    BY DEF IInv
  <1>2. PICK m \in Mags : m = d.mag
    BY <1>1 DEF Types2
  <1>3. /\ d.rounds \in 0 .. MAXSIZE /\ d.checked \in BOOLEAN /\ m \in Shells /\ m # NoOne
    BY <1>1, <1>2, MagazineConstants DEF Types2, Placed
  <1>4. PICK n : n = DoomedRounds(d)
    OBVIOUS
  <1>5. /\ Capacity(m) \in 1 .. MAXSIZE /\ Capacity(m) \in Nat /\ Capacity(m) > 0
        /\ MAXSIZE \in Nat
    BY <1>1, <1>3, ShellCapacity, Sizes
  <1>6. n \in 0 .. MAXSIZE
    BY <1>2, <1>3, <1>4, <1>5, SMT DEF DoomedRounds
  <1>7. PICK stale \in BOOLEAN : stale <=> d.checked /\ ~Valid(m)
    BY <1>3
  <1>8. /\ slab' = slab \cup Rounds(m, n)
        /\ constructed' = IF stale THEN constructed ELSE constructed \ Rounds(m, n)
    <2>1. PICK bufs : bufs = IF stale
                             THEN StaleRounds(IF d.rounds > 0 THEN "full" ELSE "empty", m)
                             ELSE Rounds(m, d.rounds)
      OBVIOUS
    <2>2. /\ slab' = slab \cup bufs
          /\ constructed' = IF stale THEN constructed ELSE constructed \ bufs
      BY <1>2, <1>7, <2>1 DEF DestroyMag
    <2>3. CASE d.checked /\ d.rounds > 0
      <3>1. n = Capacity(m)
        BY <1>2, <1>4, <2>3 DEF DoomedRounds
      <3>2. stale => bufs = Rounds(m, n)
        BY <2>1, <2>3, <3>1 DEF StaleRounds
      <3>3. ASSUME ~stale PROVE bufs = Rounds(m, n)
        <4>1. d.rounds \in {0, MAGSIZES[cache_magtype]} /\ Valid(m)
          <5>1. d \in doomed /\ d.checked
            BY <2>3
          <5> QED
            BY <1>1, <1>7, <3>3, <5>1 DEF Job
        <4>2. d.rounds # 0
          BY <1>3, <2>3, SMT
        <4>3. d.rounds = n
          BY <3>1, <4>1, <4>2 DEF Valid, Capacity
        <4> QED
          BY <2>1, <3>3, <4>3
      <3>4. bufs = Rounds(m, n)
        BY <3>2, <3>3
      <3> QED
        BY <2>2, <3>4
    <2>4. CASE ~(d.checked /\ d.rounds > 0)
      <3>1. n = d.rounds
        BY <1>4, <2>4 DEF DoomedRounds
      <3>2. stale => ~(d.rounds > 0) /\ d.rounds = 0
        BY <1>3, <1>7, <2>4, SMT
      <3>3. Rounds(m, 0) = {}
        BY SMT DEF Rounds
      <3>4. bufs = Rounds(m, n)
        BY <2>1, <3>1, <3>2, <3>3 DEF StaleRounds
      <3> QED
        BY <2>2, <3>4
    <2> QED
      BY <2>3, <2>4
  <1>9. /\ ShellFreed(m) /\ doomed' = doomed \ {d}
        /\ UNCHANGED <<cc, depot, cache_magtype, held, threadVars, upd, why, to_purge>>
    BY <1>2 DEF DestroyMag
  <1>10. /\ mag' = mag /\ op' = op /\ pc' = pc /\ obj' = obj
    BY <1>9 DEF threadVars
  <1>11. /\ mag_type' \in [Mags -> {0} \cup Types]
         /\ mag_round' \in [Mags -> [1..MAXSIZE -> Bufs \cup {NoOne}]]
         /\ \A x \in Mags \ {m} : mag_type'[x] = mag_type[x] /\ mag_round'[x] = mag_round[x]
         /\ Shells' = Shells \ {m}
    BY <1>1, <1>9, ShellFreedTypes
  <1>12. /\ \A c \in CPUs : m \notin CpuMags(c)
         /\ \A k \in Kinds : m \notin depot[k].list
         /\ \A u \in Threads : mag[u] # m
         /\ \A e \in doomed : e.mag = m <=> e = d
    <2>1. \A c \in CPUs : \A x \in CpuMags(c) : \A e \in doomed : e.mag # x
      BY <1>1 DEF Apart
    <2>2. \A u \in Threads : mag[u] # NoOne => \A e \in doomed : e.mag # mag[u]
      BY <1>1 DEF Apart
    <2>3. \A e \in doomed : \A k \in Kinds : e.mag \notin depot[k].list
      BY <1>1 DEF Apart
    <2>4. \A e, f \in doomed : e.mag = f.mag => e = f
      BY <1>1 DEF Apart
    <2> QED
      BY <1>2, <1>3, <2>1, <2>2, <2>3, <2>4
  <1>13. ShellGone(m)
    <2>1. doomed' = {e \in doomed : e.mag # m}
      BY <1>9, <1>12
    <2> QED
      BY <1>3, <1>9, <1>10, <1>11, <1>12, <2>1 DEF ShellGone, SameCpu
  <1>14. /\ Placed' /\ Covered' /\ Apart'
         /\ \A x \in Mags \ {m} : \A i \in Index : Occ(x, i)' <=> Occ(x, i)
         /\ \A i \in Index : ~Occ(m, i)'
    BY <1>1, <1>13, ShellGoneMoves
  <1>15. \A i \in Index : Occ(m, i) <=> i <= n
    <2> TAKE i \in Index
    <2>1. \A c \in CPUs : ~OccCpu(c, m, i)
      BY <1>3, <1>12 DEF OccCpu, CpuMags
    <2>2. m \notin depot["full"].list
      BY <1>12 DEF Kinds
    <2> QED
      BY <1>2, <1>4, <1>12, <2>1, <2>2 DEF Occ
  <1>16. /\ \A b : b \in Rounds(m, n) <=> \E i \in Index : Occ(m, i) /\ mag_round[m][i] = b
         /\ Rounds(m, n) \subseteq Bufs
    BY <1>1, <1>6, <1>15, RoundsAre
  <1>17. Home'
    BY <1>1, <1>8, <1>9, <1>10, <1>11, <1>14, <1>16, RoundsFreed, Configs DEF Types2
  <1>18. Tally' /\ mag_total' \in 0 .. Cardinality(Mags)
    <2>1. m \in Counted
      BY <1>3, <1>12 DEF Counted, Shells
    <2> QED
      BY <1>1, <1>9, <1>10, <2>1, Uncounted
  <1>19. Types2'
    <2>1. slab' \subseteq Bufs /\ constructed' \subseteq Bufs
      BY <1>1, <1>8, <1>16 DEF Types2, TypeOK
    <2>2. doomed' \subseteq [mag : Mags, rounds : 0 .. MAXSIZE, checked : BOOLEAN]
      BY <1>1, <1>9 DEF Types2
    <2> QED
      BY <1>1, <1>9, <1>11, <1>18, <2>1, <2>2 DEF Types2, TypeOK, threadVars
  <1>20. \A t \in Threads : Hands(t)' /\ Locked(t)'
    <2>1. \A t \in Threads : mag[t] # NoOne => mag_type'[mag[t]] = mag_type[mag[t]]
      <3>1. \A t \in Threads : mag[t] \in Mags \cup {NoOne}
        BY <1>1 DEF Types2, TypeOK
      <3> QED
        BY <1>11, <1>12, <3>1
    <2> QED
      BY <1>9, <2>1, ThreadsStable
  <1>21. \A c \in CPUs : CpuSound(c)'
    <2>1. \A c \in CPUs : \A x \in CpuMags(c) : mag_type'[x] = mag_type[x]
      BY <1>1, <1>11, <1>12 DEF Placed, Shells
    <2> QED
      BY <1>1, <1>9, <2>1, CpuStable DEF SameCpu
  <1>22. Drained'
    BY <1>1, <1>9, DrainedStable
  <1>23. \A e \in doomed' : e \in doomed /\ e.mag # m /\ mag_type'[e.mag] = mag_type[e.mag]
    BY <1>1, <1>9, <1>11, <1>12 DEF Types2
  <1>24. Job'
    <2>1. (Purging' <=> Purging) /\ (MayGrow' <=> MayGrow)
      BY <1>9 DEF Purging, MayGrow
    <2>2. \A e \in doomed' : Capacity(e.mag)' = Capacity(e.mag)
      BY <1>23 DEF Capacity
    <2> QED
      BY <1>1, <1>9, <1>10, <1>23, <2>1, <2>2 DEF Job
  <1>25. Fresh'
    <2> SUFFICES ASSUME ~config.rseq
                 PROVE  /\ \A k \in Kinds : \A x \in depot'[k].list : Valid(x)'
                        /\ \A t \in Threads : pc'[t] # "stale"
                        /\ \A e \in doomed' : Valid(e.mag)'
                        /\ slab' \cap constructed' = {}
      BY DEF Fresh
    <2>1. ~stale
      BY <1>1, <1>2, <1>7 DEF Fresh
    <2>2. slab' \cap constructed' = {}
      BY <1>1, <1>8, <2>1 DEF Fresh
    <2>3. \A k \in Kinds : \A x \in depot'[k].list : Valid(x)'
      <3>1. depot' = depot /\ cache_magtype' = cache_magtype
        BY <1>9
      <3>2. \A k \in Kinds : \A x \in depot[k].list : x \in Mags \ {m} /\ Valid(x)
        BY <1>1, <1>12 DEF Fresh, Placed, Shells
      <3> QED
        BY <1>11, <3>1, <3>2 DEF Valid
    <2>4. \A e \in doomed' : Valid(e.mag)'
      BY <1>1, <1>9, <1>23 DEF Fresh, Valid
    <2> QED
      BY <1>1, <1>10, <2>2, <2>3, <2>4 DEF Fresh
  <1> QED
    BY <1>14, <1>17, <1>18, <1>19, <1>20, <1>21, <1>22, <1>24, <1>25, SMT DEF IInv
=============================================================================
