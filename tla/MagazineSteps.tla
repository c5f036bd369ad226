---------------------------- MODULE MagazineSteps ----------------------------
(***************************************************************************)
(* The magazine layer, for every number of buffers, shells, threads, CPUs  *)
(* and magazine sizes: its inductive invariant, and that the steps of the  *)
(* threads preserve it.                                                    *)
(***************************************************************************)
EXTENDS Magazine, TLAPS

\* The default prover of this module.
USE Zenon

Index == 1 .. MAXSIZE
PCs == {"idle", "top", "get", "got", "stale", "mag_alloc", "relock", "slab_alloc",
        "slab_free"}
CacheOps == {"alloc", "free"}
Phases == {"idle", "purge", "ws_again", "reap_full", "reap_empty", "mark", "set_magtype",
           "enable", "gone"}

\* The shells a CPU has.
CpuMags(c) == {cc[c].loaded, cc[c].ploaded} \ {NoOne}

\* What TypeOK leaves open.
Types2 ==
    /\ TypeOK
    /\ config \in CONFIGS
    /\ pc \in [Threads -> PCs]
    /\ op \in [Threads -> {"none", "alloc", "free", "rseq_alloc", "rseq_free"}]
    /\ doomed \subseteq [mag : Mags, rounds : 0 .. MAXSIZE, checked : BOOLEAN]
    /\ upd \in Phases /\ why \in {"none", "reap", "resize", "destroy"}

-----------------------------------------------------------------------------
(* Threads.                                                                *)

\* What a thread has in its hands at each point of a call.
Hands(t) ==
    /\ pc[t] = "idle" <=> op[t] = "none"
    /\ op[t] = "free" <=> obj[t] # NoOne
    /\ op[t] \in CacheOps => cpu[t] \in config.cpus
    /\ op[t] \in {"rseq_alloc", "rseq_free"} => config.rseq
    /\ pc[t] = "top" => op[t] \in CacheOps
    /\ pc[t] = "slab_alloc" => op[t] = "alloc"
    /\ pc[t] \in {"mag_alloc", "relock", "slab_free"} => op[t] = "free"
    /\ pc[t] \in {"got", "stale"} => mag[t] # NoOne
    /\ mag[t] # NoOne => pc[t] \in {"got", "stale", "relock"}
    /\ pc[t] \in {"mag_alloc", "relock"} => mtp[t] \in Types
    /\ pc[t] = "relock" /\ mag[t] # NoOne => mag_type[mag[t]] = mtp[t]

\* A thread at the depot on behalf of a CPU.
Locks(t) == pc[t] \in {"get", "got", "stale"} /\ op[t] \in CacheOps

\* It has the CPU's lock, the CPU is on, cannot serve the call, and expects
\* magazines of the present magtype.
Locked(t) ==
    /\ Locks(t) => /\ cc[cpu[t]].lock = t
                   /\ cc[cpu[t]].magsize > 0
                   /\ ~Serves(t, cc[cpu[t]])
    /\ Locks(t) /\ pc[t] = "got" => Valid(mag[t])
    /\ \A c \in CPUs : cc[c].lock = t => c = cpu[t] /\ (Locks(t) \/ pc[t] = "top")

-----------------------------------------------------------------------------
(* CPUs.                                                                   *)

\* The magazines of a CPU have its size, the previous one is empty or full,
\* and the size is that of the present magtype, or none.
CpuSound(c) ==
    /\ cc[c].loaded = NoOne <=> cc[c].rounds = -1
    /\ cc[c].ploaded = NoOne <=> cc[c].prounds = -1
    /\ cc[c].loaded # NoOne =>
          cc[c].rounds \in 0 .. cc[c].magsize /\ Capacity(cc[c].loaded) = cc[c].magsize
    /\ cc[c].ploaded # NoOne =>
          cc[c].prounds \in {0, cc[c].magsize} /\ Capacity(cc[c].ploaded) = cc[c].magsize
    /\ c \notin config.cpus => cc[c].loaded = NoOne /\ cc[c].ploaded = NoOne
    /\ c \in config.cpus => cc[c].magsize \in {0, MAGSIZES[cache_magtype]}

-----------------------------------------------------------------------------
(* Shells.                                                                 *)

\* What is anywhere is a shell.
Placed ==
    /\ \A c \in CPUs : CpuMags(c) \subseteq Shells
    /\ \A k \in Kinds : depot[k].list \subseteq Shells
    /\ \A t \in Threads : mag[t] # NoOne => mag[t] \in Shells
    /\ \A d \in doomed : d.mag \in Shells

\* A shell is somewhere.
Covered ==
    \A m \in Shells :
        \/ \E c \in CPUs : m \in CpuMags(c)
        \/ \E k \in Kinds : m \in depot[k].list
        \/ \E t \in Threads : mag[t] = m
        \/ \E d \in doomed : d.mag = m

\* And in one place only.
Apart ==
    /\ \A c \in CPUs : cc[c].loaded # NoOne => cc[c].loaded # cc[c].ploaded
    /\ \A b, c \in CPUs : \A m \in Mags : m \in CpuMags(b) /\ m \in CpuMags(c) => b = c
    /\ \A m \in Mags : ~(m \in depot["full"].list /\ m \in depot["empty"].list)
    /\ \A t, u \in Threads : mag[t] # NoOne /\ mag[t] = mag[u] => t = u
    /\ \A d, e \in doomed : d.mag = e.mag => d = e
    /\ \A c \in CPUs : \A m \in CpuMags(c) :
          /\ \A k \in Kinds : m \notin depot[k].list
          /\ \A t \in Threads : mag[t] # m
          /\ \A d \in doomed : d.mag # m
    /\ \A t \in Threads : mag[t] # NoOne =>
          /\ \A k \in Kinds : mag[t] \notin depot[k].list
          /\ \A d \in doomed : d.mag # mag[t]
    /\ \A d \in doomed : \A k \in Kinds : d.mag \notin depot[k].list

\* cache_mag_total counts the shells that have been to the depot.
Counted == {m \in Mags : /\ mag_type[m] # 0
                         /\ \A t \in Threads : pc[t] = "relock" => mag[t] # m}
Tally == mag_total = Cardinality(Counted)

-----------------------------------------------------------------------------
(* Buffers.                                                                *)

DoomedRounds(d) == IF d.checked /\ d.rounds > 0 THEN Capacity(d.mag) ELSE d.rounds

\* Does slot i of magazine m count as occupied?
OccCpu(c, m, i) == \/ cc[c].loaded = m /\ i <= cc[c].rounds
                   \/ cc[c].ploaded = m /\ i <= cc[c].prounds
Occ(m, i) ==
    \/ \E c \in CPUs : OccCpu(c, m, i)
    \/ m \in depot["full"].list /\ i <= Capacity(m)
    \/ \E t \in Threads : mag[t] = m /\ Kind(t) = "full" /\ i <= Capacity(m)
    \/ \E d \in doomed : d.mag = m /\ i <= DoomedRounds(d)

\* A buffer that the cache has put away or lent is not free in the slab layer
\* and not with a caller as well.
Away(b) == b \in config.bufs \ slab /\ held[b] = 0

SlotsHome ==
    /\ \A m \in Mags : \A i \in Index : Occ(m, i) => Away(mag_round[m][i])
    /\ \A m, n \in Mags : \A i, j \in Index :
          Occ(m, i) /\ Occ(n, j) /\ mag_round[m][i] = mag_round[n][j] => m = n /\ i = j
    /\ \A m \in Mags : \A i \in Index : \A t \in Threads :
          Occ(m, i) => mag_round[m][i] # obj[t]
ObjsHome ==
    /\ \A t \in Threads : obj[t] # NoOne => Away(obj[t])
    /\ \A t, u \in Threads : obj[t] # NoOne /\ obj[t] = obj[u] => t = u
HeldHome ==
    /\ slab \subseteq config.bufs
    /\ \A b \in Bufs : held[b] \in {0, 1}
    /\ \A b \in Bufs : held[b] = 1 => b \in config.bufs \ slab
AllHome ==
    \A b \in config.bufs :
        \/ b \in slab \/ held[b] = 1
        \/ \E t \in Threads : obj[t] = b
        \/ \E m \in Mags : \E i \in Index : Occ(m, i) /\ mag_round[m][i] = b
Home == SlotsHome /\ ObjsHome /\ HeldHome /\ AllHome

-----------------------------------------------------------------------------
(* The update thread, and umem_cache_destroy.                              *)

Purging == why \in {"resize", "destroy"} /\ upd # "enable"

\* Where a job is says what it has done.
Job ==
    /\ upd = "idle" <=> why = "none"
    /\ upd \in {"purge", "ws_again"} => why \in {"resize", "destroy"}
    /\ upd \in {"set_magtype", "enable"} => why = "resize"
    /\ upd = "gone" => why = "destroy"
    /\ to_purge \subseteq config.cpus
    /\ upd \notin {"purge", "enable"} => to_purge = {}
    /\ doomed # {} => upd \in {"purge", "reap_empty", "mark"}
    /\ \A d \in doomed : IF d.checked THEN d.rounds \in {0, MAGSIZES[cache_magtype]}
                                      ELSE d.rounds <= Capacity(d.mag)
    /\ \A d \in doomed : d.checked <=> upd # "purge"
    /\ Purging => \A c \in config.cpus \ to_purge : cc[c].magsize = 0
    /\ Purging /\ why = "resize" => MayGrow
    /\ why = "destroy" => /\ \A t \in Threads : pc[t] = "idle"
                          /\ \A b \in Bufs : held[b] = 0

\* When no magazine is outside the CPUs and the depot, nobody uses the depot
\* once the CPUs are purged, and the two working-set updates make all of it
\* reapable.
Sealed == why = "destroy" \/ (why = "resize" /\ ~config.rseq)
Reapable(k) == /\ depot[k].min = Cardinality(depot[k].list)
               /\ depot[k].reaplimit = Cardinality(depot[k].list)
Drained ==
    Sealed =>
      /\ upd = "ws_again" => \A k \in Kinds : depot[k].min = Cardinality(depot[k].list)
      /\ upd = "reap_full" => \A k \in Kinds : Reapable(k)
      /\ upd = "reap_empty" => depot["full"].list = {} /\ Reapable("empty")
      /\ upd \in {"mark", "set_magtype", "gone"} => \A k \in Kinds : depot[k].list = {}

\* Without such magazines none is ever of another magtype, so that destructors
\* run.
Fresh ==
    ~config.rseq =>
      /\ \A k \in Kinds : \A m \in depot[k].list : Valid(m)
      /\ \A t \in Threads : pc[t] # "stale"
      /\ \A d \in doomed : Valid(d.mag)
      /\ slab \cap constructed = {}

IInv ==
    /\ Types2
    /\ \A t \in Threads : Hands(t) /\ Locked(t)
    /\ \A c \in CPUs : CpuSound(c)
    /\ Placed /\ Covered /\ Apart /\ Tally
    /\ Home
    /\ Job /\ Drained /\ Fresh

-----------------------------------------------------------------------------
(* Lemmas about the constants and the operators.                           *)

\* Magazine sizes are positive, at most MAXSIZE and different from each other.
LEMMA Sizes ==
    /\ MAXSIZE \in Nat \ {0} /\ 1 \in Types /\ Types \subseteq Nat \ {0}
    /\ \A i \in Types : MAGSIZES[i] \in 1 .. MAXSIZE
    /\ \A i, j \in Types : MAGSIZES[i] = MAGSIZES[j] => i = j
  <1>1. Len(MAGSIZES) \in Nat \ {0} /\ \A i \in 1 .. Len(MAGSIZES) : MAGSIZES[i] \in Nat \ {0}
    BY MagazineConstants, SMT
  <1>2. \A i, j \in 1 .. Len(MAGSIZES) : i < j => MAGSIZES[i] < MAGSIZES[j]
    BY MagazineConstants
  <1>3. \A i \in 1 .. Len(MAGSIZES) : MAGSIZES[i] <= MAGSIZES[Len(MAGSIZES)]
    <2> TAKE i \in 1 .. Len(MAGSIZES)
    <2>1. CASE i = Len(MAGSIZES)
      BY <1>1, <2>1, SMT
    <2>2. CASE i < Len(MAGSIZES)
      BY <1>1, <1>2, <2>2, SMT
    <2> QED
      BY <1>1, <2>1, <2>2, SMT
  <1>4. \A i, j \in 1 .. Len(MAGSIZES) : MAGSIZES[i] = MAGSIZES[j] => i = j
    BY <1>1, <1>2, SMT
  <1> QED
    BY <1>1, <1>3, <1>4, SMT DEF Types, MAXSIZE

\* The smaller of two, and of three.
LEMMA MinTwo ==
    ASSUME NEW a \in Int, NEW b \in Int
    PROVE  Min({a, b}) = IF a <= b THEN a ELSE b
  <1>1. \E x \in {a, b} : \A y \in {a, b} : x <= y
    BY SMT
  <1> QED
    BY <1>1, SMT DEF Min

\* The smallest of three, the bound of umem_depot_ws_reap (ml_reaplimit, ml_min).
LEMMA MinThree ==
    ASSUME NEW a \in Int, NEW b \in Int, NEW c \in Int
    PROVE  /\ Min({a, b, c}) \in {a, b, c}
           /\ Min({a, b, c}) <= a /\ Min({a, b, c}) <= b /\ Min({a, b, c}) <= c
  <1>1. \E x \in {a, b, c} : \A y \in {a, b, c} : x <= y
    BY SMT
  <1> QED
    BY <1>1 DEF Min

\* The larger of two.
LEMMA MaxTwo ==
    ASSUME NEW a \in Int, NEW b \in Int
    PROVE  Max({a, b}) = IF a >= b THEN a ELSE b
  <1>1. \E x \in {a, b} : \A y \in {a, b} : x >= y
    BY SMT
  <1> QED
    BY <1>1, SMT DEF Max

\* What the steps use of cardinalities: sets of shells have one, which grows and
\* shrinks with them by one and is that of a part only for all of the set.
\* MagazineProofs derives it from the finiteness of Mags.
CardFacts ==
    /\ Cardinality(Mags) \in Nat /\ Cardinality({}) = 0
    /\ \A S \in SUBSET Mags :
         /\ Cardinality(S) \in 0 .. Cardinality(Mags)
         /\ Cardinality(S) = 0 => S = {}
         /\ \A m \in Mags \ S : Cardinality(S \cup {m}) = Cardinality(S) + 1
         /\ \A m \in S : Cardinality(S \ {m}) = Cardinality(S) - 1
         /\ \A T \in SUBSET S : Cardinality(T) = Cardinality(S) => T = S

\* What the configuration is made of.
LEMMA Configs ==
    ASSUME config \in CONFIGS
    PROVE  /\ config.bufs \subseteq Bufs /\ config.threads \subseteq Threads
           /\ config.cpus \subseteq CPUs /\ config.rseq \in BOOLEAN
           /\ NoOne \notin Bufs /\ NoOne \notin Mags
           /\ NoOne \notin Threads /\ NoOne \notin CPUs
  BY MagazineConstants

\* What an element of cache_cpu[] is made of.
CpuRecords == [lock : Threads \cup {NoOne},
               loaded : Mags \cup {NoOne}, rounds : -1..MAXSIZE,
               ploaded : Mags \cup {NoOne}, prounds : -1..MAXSIZE,
               magsize : {0} \cup {MAGSIZES[i] : i \in Types}]

\* The types of a CPU's fields.
LEMMA CpuTypes ==
    ASSUME Types2, NEW c \in CPUs
    PROVE  /\ cc[c] \in CpuRecords
           /\ cc[c].rounds \in -1 .. MAXSIZE /\ cc[c].prounds \in -1 .. MAXSIZE
           /\ cc[c].rounds \in Int /\ cc[c].prounds \in Int
           /\ cc[c].magsize \in Nat /\ cc[c].magsize \in 0 .. MAXSIZE
  <1>1. cc[c] \in CpuRecords
    BY DEF Types2, TypeOK, CpuRecords
  <1>2. cc[c].rounds \in -1 .. MAXSIZE /\ cc[c].prounds \in -1 .. MAXSIZE
    BY <1>1 DEF CpuRecords
  <1>3. cc[c].magsize \in {0} \cup {MAGSIZES[i] : i \in Types}
    BY <1>1 DEF CpuRecords
  <1>4. MAXSIZE \in Nat
    BY Sizes
  <1>5. cc[c].magsize \in 0 .. MAXSIZE
    <2>1. CASE cc[c].magsize = 0
      BY <1>4, <2>1, SMT
    <2>2. CASE cc[c].magsize # 0
      <3>1. PICK i \in Types : cc[c].magsize = MAGSIZES[i]
        BY <1>3, <2>2
      <3> QED
        BY <1>4, <3>1, Sizes, SMT
    <2> QED
      BY <2>1, <2>2
  <1> QED
    BY <1>1, <1>2, <1>4, <1>5, SMT

\* A shell holds at least one round.
LEMMA ShellCapacity ==
    ASSUME Types2, NEW m \in Shells
    PROVE  Capacity(m) \in 1 .. MAXSIZE /\ Capacity(m) \in Nat /\ Capacity(m) > 0
  <1>1. PICK k \in Types : k = mag_type[m]
    BY DEF Shells, Types2, TypeOK
  <1>2. MAXSIZE \in Nat
    BY Sizes
  <1>3. MAGSIZES[k] \in 1 .. MAXSIZE
    BY Sizes
  <1> QED
    BY <1>1, <1>2, <1>3, SMT DEF Capacity

\* cache_cpu[] keeps its type when a thread takes a CPU's lock.
LEMMA LockTaken ==
    ASSUME Types2, NEW t \in Threads, NEW c \in CPUs, cc' = [cc EXCEPT ![c].lock = t]
    PROVE  cc' \in [CPUs -> CpuRecords]
  <1>1. cc \in [CPUs -> CpuRecords]
    BY DEF Types2, TypeOK, CpuRecords
  <1>2. cc[c] \in CpuRecords
    BY <1>1
  <1>3. [cc[c] EXCEPT !.lock = t] \in CpuRecords
    BY <1>2 DEF CpuRecords
  <1>4. cc' = [cc EXCEPT ![c] = [cc[c] EXCEPT !.lock = t]]
    BY <1>1
  <1> QED
    BY <1>1, <1>3, <1>4

-----------------------------------------------------------------------------
(* What a step leaves alone stays as it was.                               *)

\* The step is thread t's: the locals of the others keep their values.
Others(t) ==
    \A u \in Threads \ {t} :
        /\ pc'[u] = pc[u] /\ op'[u] = op[u] /\ cpu'[u] = cpu[u]
        /\ obj'[u] = obj[u] /\ mag'[u] = mag[u] /\ mtp'[u] = mtp[u]

\* Only a CPU that nobody else has locked is changed, and stays unlocked for
\* others.
OwnCpu(t) ==
    \A c \in CPUs : cc[c].lock \notin {NoOne, t} \/ cc'[c].lock \notin {NoOne, t}
                    => cc'[c] = cc[c]

\* The shells of the others keep their magtype.
OwnShell(t) ==
    \A u \in Threads \ {t} : mag[u] # NoOne => mag_type'[mag[u]] = mag_type[mag[u]]

\* A step that leaves the others' locals, CPUs and shells alone leaves what they
\* rely on in the middle of a call.
LEMMA OthersStable ==
    ASSUME IInv, NEW t \in Threads, Others(t), OwnCpu(t), OwnShell(t),
           UNCHANGED <<config, cache_magtype>>
    PROVE  \A u \in Threads \ {t} : Hands(u)' /\ Locked(u)'
  <1> TAKE u \in Threads \ {t}
  <1>1. Hands(u) /\ Locked(u) /\ Types2
    BY DEF IInv
  <1>2. /\ pc'[u] = pc[u] /\ op'[u] = op[u] /\ cpu'[u] = cpu[u]
        /\ obj'[u] = obj[u] /\ mag'[u] = mag[u] /\ mtp'[u] = mtp[u]
    BY DEF Others
  <1>3. Hands(u)'
    BY <1>1, <1>2 DEF Hands, OwnShell
  <1>4. u # NoOne /\ u # t
    BY MagazineConstants
  <1>5. \A c \in CPUs : cc[c].lock = u \/ cc'[c].lock = u => cc'[c] = cc[c]
    BY <1>4 DEF OwnCpu
  <1>6. Locks(u)' <=> Locks(u)
    BY <1>2 DEF Locks
  <1>7. Locks(u) => cpu[u] \in CPUs
    BY <1>1, Configs DEF Hands, Locks, Types2
  <1>8. \A ccp : Serves(u, ccp)' <=> Serves(u, ccp)
    BY <1>2 DEF Serves
  <1>9. Locked(u)'
    <2>1. ASSUME Locks(u)'
          PROVE  /\ cc'[cpu'[u]].lock = u /\ cc'[cpu'[u]].magsize > 0
                 /\ ~Serves(u, cc[cpu[u]])'
      <3>1. cc[cpu[u]].lock = u /\ cc[cpu[u]].magsize > 0 /\ ~Serves(u, cc[cpu[u]])
        BY <1>1, <1>6, <2>1 DEF Locked
      <3>2. cc'[cpu[u]] = cc[cpu[u]]
        BY <1>5, <1>6, <1>7, <2>1, <3>1
      <3> QED
        BY <1>2, <3>1, <3>2 DEF Serves
    <2>2. Locks(u)' /\ pc'[u] = "got" => Valid(mag[u])'
      <3>1. Locks(u) /\ pc[u] = "got" => Valid(mag[u]) /\ mag[u] # NoOne
        BY <1>1 DEF Locked, Hands
      <3> QED
        BY <1>2, <1>6, <3>1 DEF Valid, OwnShell
    <2>3. \A c \in CPUs : cc'[c].lock = u => c = cpu'[u] /\ (Locks(u)' \/ pc'[u] = "top")
      BY <1>1, <1>2, <1>5, <1>6 DEF Locked
    <2> QED
      BY <2>1, <2>2, <2>3 DEF Locked
  <1> QED
    BY <1>3, <1>9

\* The CPU has the same magazines, counts and size; its lock may change hands.
SameCpu(c) ==
    /\ cc'[c].loaded = cc[c].loaded /\ cc'[c].rounds = cc[c].rounds
    /\ cc'[c].ploaded = cc[c].ploaded /\ cc'[c].prounds = cc[c].prounds
    /\ cc'[c].magsize = cc[c].magsize

\* A CPU whose magazines, counts and sizes stay keeps its rounds within them.
LEMMA CpuStable ==
    ASSUME NEW c \in CPUs, CpuSound(c), SameCpu(c), UNCHANGED <<config, cache_magtype>>,
           \A m \in CpuMags(c) : mag_type'[m] = mag_type[m]
    PROVE  CpuSound(c)'
  <1>1. /\ cc[c].loaded # NoOne => Capacity(cc[c].loaded)' = Capacity(cc[c].loaded)
        /\ cc[c].ploaded # NoOne => Capacity(cc[c].ploaded)' = Capacity(cc[c].ploaded)
    BY DEF Capacity, CpuMags, SameCpu
  <1> QED
    BY <1>1 DEF CpuSound, SameCpu, Capacity

\* Nothing moves.
StillShells ==
    /\ \A c \in CPUs : SameCpu(c)
    /\ \A k \in Kinds : depot'[k].list = depot[k].list
    /\ UNCHANGED <<mag, doomed, mag_type>>

\* A step that moves no magazine leaves every shell with its one owner.
LEMMA ShellsStable ==
    ASSUME Placed, Covered, Apart, StillShells
    PROVE  Placed' /\ Covered' /\ Apart'
  <1>1. \A c \in CPUs : CpuMags(c)' = CpuMags(c)
    BY DEF StillShells, SameCpu, CpuMags
  <1>2. Shells' = Shells
    BY DEF StillShells, Shells
  <1>3. \A k \in Kinds : depot'[k].list = depot[k].list
    BY DEF StillShells
  <1>4. mag' = mag /\ doomed' = doomed
    BY DEF StillShells
  <1>5. \A c \in CPUs : cc'[c].loaded = cc[c].loaded /\ cc'[c].ploaded = cc[c].ploaded
    BY DEF StillShells, SameCpu
  <1>6. Placed'
    BY <1>1, <1>2, <1>3, <1>4 DEF Placed
  <1>7. Covered'
    BY <1>1, <1>2, <1>3, <1>4 DEF Covered
  <1>8. Apart'
    BY <1>1, <1>3, <1>4, <1>5, SMT DEF Apart, Kinds
  <1> QED
    BY <1>6, <1>7, <1>8

\* And it leaves the same slots occupied.
LEMMA OccStable ==
    ASSUME StillShells, \A t \in Threads : mag[t] # NoOne => op'[t] = op[t]
    PROVE  \A m \in Mags : \A i \in Index : Occ(m, i)' <=> Occ(m, i)
  <1> TAKE m \in Mags
  <1> TAKE i \in Index
  <1>1. \A c \in CPUs : OccCpu(c, m, i)' <=> OccCpu(c, m, i)
    BY DEF StillShells, SameCpu, OccCpu
  <1>2. m # NoOne
    BY MagazineConstants
  <1>3. \A n : Capacity(n)' = Capacity(n)
    BY DEF Capacity, StillShells
  <1>4. \A t \in Threads : mag[t] = m => Kind(t)' = Kind(t)
    BY <1>2 DEF Kind
  <1>5. depot'["full"].list = depot["full"].list
    BY DEF StillShells, Kinds
  <1>6. mag' = mag /\ doomed' = doomed
    BY DEF StillShells
  <1>7. \A d \in doomed : DoomedRounds(d)' = DoomedRounds(d)
    BY <1>3 DEF DoomedRounds
  <1> QED
    BY <1>1, <1>3, <1>4, <1>5, <1>6, <1>7 DEF Occ

\* The same slots are occupied, by the same buffers.
SameSlots ==
    /\ \A m \in Mags : \A i \in Index : Occ(m, i)' <=> Occ(m, i)
    /\ \A m \in Mags : \A i \in Index : Occ(m, i) => mag_round'[m][i] = mag_round[m][i]

\* A step that touches neither an occupied slot nor a buffer outside the slots
\* leaves every buffer in its one home.
LEMMA HomeStable ==
    ASSUME Home, SameSlots, UNCHANGED <<obj, slab, held, config>>
    PROVE  Home'
  <1>1. \A b : Away(b)' <=> Away(b)
    BY DEF Away
  <1>2. SlotsHome'
    BY <1>1, SMT DEF Home, SlotsHome, SameSlots
  <1>3. ObjsHome'
    BY <1>1 DEF Home, ObjsHome
  <1>4. HeldHome'
    BY DEF Home, HeldHome
  <1>5. AllHome'
    BY SMT DEF Home, AllHome, SameSlots
  <1> QED
    BY <1>2, <1>3, <1>4, <1>5 DEF Home

\* A step of a thread leaves the job of the update thread as it is.
LEMMA JobStable ==
    ASSUME IInv, why # "destroy", UNCHANGED <<updateVars, config, cache_magtype>>,
           \A c \in CPUs : cc'[c].magsize = cc[c].magsize,
           \A d \in doomed : mag_type'[d.mag] = mag_type[d.mag]
    PROVE  Job'
  <1>1. Job /\ Types2
    BY DEF IInv
  <1>2. config.cpus \subseteq CPUs
    BY <1>1, Configs DEF Types2
  <1>3. \A d \in doomed : Capacity(d.mag)' = Capacity(d.mag)
    BY DEF Capacity
  <1>4. Purging' <=> Purging
    BY DEF Purging, updateVars
  <1> QED
    BY <1>1, <1>2, <1>3, <1>4 DEF Job, updateVars, MayGrow

\* A thread that is in a call knows that the cache is not being destroyed.
LEMMA InCall ==
    ASSUME IInv, NEW t \in Threads, pc[t] # "idle"
    PROVE  why # "destroy"
  BY DEF IInv, Job

\* The update thread's progress stays as it was when the depot does.
LEMMA DrainedStable ==
    ASSUME Drained, UNCHANGED <<upd, why, config, depot>>
    PROVE  Drained'
  BY DEF Drained, Sealed, Reapable

\* Once the CPUs are purged a thread that uses the depot is one of the rseq
\* layer.
LEMMA DepotOpen ==
    ASSUME IInv, NEW t \in Threads, pc[t] # "idle",
           Locks(t) \/ op[t] \in {"rseq_alloc", "rseq_free"}
                    \/ (op[t] \in CacheOps /\ cc[cpu[t]].magsize # 0),
           UNCHANGED <<upd, why, config>>
    PROVE  Drained'
  <1>1. Types2 /\ Hands(t) /\ Locked(t) /\ Job
    BY DEF IInv
  <1>2. why # "destroy"
    BY InCall
  <1>3. CASE op[t] \in {"rseq_alloc", "rseq_free"}
    BY <1>1, <1>2, <1>3 DEF Hands, Drained, Sealed
  <1>4. CASE op[t] \in CacheOps /\ cc[cpu[t]].magsize # 0
    <2>1. cpu[t] \in config.cpus
      BY <1>1, <1>4 DEF Hands
    <2>2. why = "resize" => upd \in {"purge", "enable"}
      BY <1>1, <1>4, <2>1 DEF Job, Purging
    <2> QED
      BY <1>2, <2>2 DEF Drained, Sealed
  <1>5. CASE Locks(t)
    <2>1. op[t] \in CacheOps /\ cc[cpu[t]].magsize > 0
      BY <1>1, <1>5 DEF Locked, Locks
    <2>2. cpu[t] \in CPUs
      BY <1>1, <2>1, Configs DEF Hands, Types2
    <2>3. cc[cpu[t]].magsize # 0
      BY <2>1, SMT
    <2> QED
      BY <1>4, <2>1, <2>3
  <1> QED
    BY <1>3, <1>4, <1>5

\* A step in which a thread with no magazine in its hands touches no magazine.
LEMMA QuietSuffices ==
    ASSUME IInv, NEW t \in Threads, Others(t), why # "destroy", mag[t] = NoOne,
           UNCHANGED <<config, cc, depot, cache_magtype, updateVars, shellVars, mag>>,
           Types2', Hands(t)', Locked(t)', pc'[t] # "stale", Home',
           ~config.rseq => slab' \cap constructed' = {}
    PROVE  IInv'
  <1>1. /\ Types2 /\ Placed /\ Covered /\ Apart /\ Tally /\ Job /\ Drained /\ Fresh
        /\ \A u \in Threads : Hands(u)
        /\ \A c \in CPUs : CpuSound(c)
    BY DEF IInv
  <1>2. mag_type' = mag_type /\ mag_round' = mag_round /\ mag_total' = mag_total
        /\ doomed' = doomed /\ upd' = upd /\ why' = why /\ to_purge' = to_purge
    BY DEF shellVars, updateVars
  <1>3. \A u \in Threads : Hands(u)' /\ Locked(u)'
    <2>1. OwnCpu(t) /\ OwnShell(t)
      BY <1>2 DEF OwnCpu, OwnShell
    <2> QED
      BY <2>1, OthersStable
  <1>4. StillShells
    BY <1>2 DEF StillShells, SameCpu
  <1>5. \A c \in CPUs : CpuSound(c)'
    BY <1>1, <1>2, CpuStable DEF SameCpu
  <1>6. Placed' /\ Covered' /\ Apart'
    BY <1>1, <1>4, ShellsStable
  <1>7. Tally'
    <2>1. \A u \in Threads : \A m \in Mags :
             (pc'[u] = "relock" => mag'[u] # m) <=> (pc[u] = "relock" => mag[u] # m)
      <3> TAKE u \in Threads
      <3> TAKE m \in Mags
      <3>1. CASE u = t
        BY <3>1, MagazineConstants
      <3>2. CASE u # t
        BY <3>2 DEF Others
      <3> QED
        BY <3>1, <3>2
    <2>2. Counted' = Counted
      BY <1>2, <2>1 DEF Counted
    <2> QED
      BY <1>1, <1>2, <2>2 DEF Tally
  <1>8. Job'
    BY <1>2, JobStable
  <1>9. Drained'
    BY <1>1, <1>2, DrainedStable
  <1>10. Fresh'
    <2>1. \A u \in Threads : pc[u] # "stale" => pc'[u] # "stale"
      BY DEF Others
    <2>2. \A m : Valid(m)' <=> Valid(m)
      BY <1>2 DEF Valid
    <2> QED
      BY <1>1, <1>2, <2>1, <2>2 DEF Fresh
  <1> QED
    BY <1>3, <1>5, <1>6, <1>7, <1>8, <1>9, <1>10 DEF IInv

\* The locals of the thread at the end of a call.
LEMMA Finished ==
    ASSUME Types2, NEW t \in Threads, Finish(t), UNCHANGED config,
           \A c \in CPUs : cc'[c].lock # t
    PROVE  /\ Others(t) /\ Hands(t)' /\ Locked(t)'
           /\ pc'[t] = "idle" /\ op'[t] = "none" /\ obj'[t] = NoOne /\ mag'[t] = NoOne
           /\ pc' \in [Threads -> PCs]
           /\ op' \in [Threads -> {"none", "alloc", "free", "rseq_alloc", "rseq_free"}]
           /\ cpu' \in [Threads -> CPUs \cup {NoOne}]
           /\ mtp' \in [Threads -> {0} \cup Types]
           /\ obj' \in [Threads -> Bufs \cup {NoOne}]
           /\ mag' \in [Threads -> Mags \cup {NoOne}]
  <1>1. /\ pc'[t] = "idle" /\ op'[t] = "none" /\ obj'[t] = NoOne /\ mag'[t] = NoOne
        /\ Others(t)
    BY DEF Finish, Others, Types2, TypeOK
  <1>2. /\ pc' \in [Threads -> PCs]
        /\ op' \in [Threads -> {"none", "alloc", "free", "rseq_alloc", "rseq_free"}]
        /\ cpu' \in [Threads -> CPUs \cup {NoOne}]
        /\ mtp' \in [Threads -> {0} \cup Types]
        /\ obj' \in [Threads -> Bufs \cup {NoOne}]
        /\ mag' \in [Threads -> Mags \cup {NoOne}]
    BY DEF Finish, Types2, TypeOK, PCs
  <1>3. Hands(t)'
    BY <1>1 DEF Hands, CacheOps
  <1>4. Locked(t)'
    BY <1>1 DEF Locked, Locks
  <1> QED
    BY <1>1, <1>2, <1>3, <1>4

-----------------------------------------------------------------------------
(* Calls that touch no magazine.                                           *)

\* A thread enters umem_cache_alloc.
LEMMA CallAllocInv ==
    ASSUME IInv, NEW t \in Threads, CallAlloc(t), UNCHANGED config
    PROVE  IInv'
  <1>1. Types2 /\ Hands(t) /\ Locked(t) /\ Home /\ Fresh
    BY DEF IInv
  <1>2. PICK c \in config.cpus : cpu' = [cpu EXCEPT ![t] = c]
    BY DEF CallAlloc
  <1>3. /\ pc[t] = "idle" /\ why # "destroy"
        /\ pc' = [pc EXCEPT ![t] = "top"] /\ op' = [op EXCEPT ![t] = "alloc"]
        /\ UNCHANGED <<cc, depot, cache_magtype, obj, mag, mtp, updateVars, bufferVars,
                       shellVars>>
    BY DEF CallAlloc
  <1>4. c \in CPUs
    BY <1>1, Configs DEF Types2
  <1>5. /\ Others(t) /\ pc'[t] = "top" /\ op'[t] = "alloc" /\ cpu'[t] = c
        /\ mag[t] = NoOne /\ obj[t] = NoOne
    BY <1>1, <1>2, <1>3 DEF Others, Types2, TypeOK, Hands
  <1>6. Types2'
    BY <1>1, <1>2, <1>3, <1>4 DEF Types2, TypeOK, PCs, updateVars, bufferVars, shellVars
  <1>7. Hands(t)'
    BY <1>3, <1>5 DEF Hands, CacheOps
  <1>8. Locked(t)'
    BY <1>1, <1>3, <1>5 DEF Locked, Locks
  <1>9. Home'
    <2>1. StillShells
      BY <1>3 DEF StillShells, SameCpu, updateVars, shellVars
    <2>2. SameSlots
      BY <1>3, <1>5, <2>1, OccStable DEF SameSlots, shellVars, Others
    <2> QED
      BY <1>1, <1>3, <2>2, HomeStable DEF bufferVars
  <1> QED
    BY <1>1, <1>3, <1>5, <1>6, <1>7, <1>8, <1>9, QuietSuffices DEF bufferVars, Fresh

\* A caller gives a buffer back: it goes from the caller into the thread's hands.
LEMMA CallFreeInv ==
    ASSUME IInv, NEW t \in Threads, CallFree(t), UNCHANGED config
    PROVE  IInv'
  <1>1. Types2 /\ Hands(t) /\ Locked(t) /\ Home /\ Fresh
    BY DEF IInv
  <1>2. PICK c \in config.cpus : cpu' = [cpu EXCEPT ![t] = c]
    BY DEF CallFree
  <1>3. PICK b \in Bufs : /\ held[b] > 0
                          /\ obj' = [obj EXCEPT ![t] = b]
                          /\ held' = [held EXCEPT ![b] = @ - 1]
    BY DEF CallFree
  <1>4. /\ pc[t] = "idle" /\ why # "destroy"
        /\ pc' = [pc EXCEPT ![t] = "top"] /\ op' = [op EXCEPT ![t] = "free"]
        /\ UNCHANGED <<cc, depot, cache_magtype, mag, mtp, slab, constructed, updateVars,
                       shellVars>>
    BY DEF CallFree
  <1>5. c \in CPUs /\ b # NoOne
    BY <1>1, Configs DEF Types2
  <1>6. /\ Others(t) /\ pc'[t] = "top" /\ op'[t] = "free" /\ cpu'[t] = c
        /\ mag[t] = NoOne /\ obj[t] = NoOne /\ obj'[t] = b
    BY <1>1, <1>2, <1>3, <1>4 DEF Others, Types2, TypeOK, Hands
  <1>7. /\ held[b] = 1 /\ held'[b] = 0 /\ b \in config.bufs \ slab
        /\ \A x \in Bufs \ {b} : held'[x] = held[x]
    BY <1>1, <1>3, SMT DEF Types2, TypeOK, Home, HeldHome
  <1>8. Types2'
    BY <1>1, <1>2, <1>3, <1>4, <1>5, <1>7, SMT
       DEF Types2, TypeOK, PCs, updateVars, shellVars
  <1>9. Hands(t)'
    BY <1>4, <1>5, <1>6 DEF Hands, CacheOps
  <1>10. Locked(t)'
    BY <1>1, <1>4, <1>6 DEF Locked, Locks
  <1>11. Home'
    <2>1. StillShells
      BY <1>4 DEF StillShells, SameCpu, updateVars, shellVars
    <2>2. SameSlots
      BY <1>4, <1>6, <2>1, OccStable DEF SameSlots, shellVars, Others
    <2>3. \A x \in config.bufs : Away(x)' <=> Away(x) \/ x = b
      BY <1>1, <1>4, <1>7, Configs DEF Away, Types2
    <2>4. \A x : Away(x) => x \in config.bufs /\ x # b
      BY <1>7, SMT DEF Away
    <2>5. \A x : Away(x) => Away(x)'
      BY <2>3, <2>4
    <2>6. \A u \in Threads \ {t} : obj'[u] = obj[u]
      BY <1>6 DEF Others
    <2>7. SlotsHome'
      <3>1. \A m \in Mags : \A i \in Index : Occ(m, i) => Away(mag_round[m][i])
        BY <1>1 DEF Home, SlotsHome
      <3> QED
        BY <1>1, <1>6, <2>2, <2>4, <2>5, <2>6, <3>1, SMT DEF Home, SlotsHome, SameSlots
    <2>8. ObjsHome'
      BY <1>1, <1>6, <1>7, <2>3, <2>4, <2>5, <2>6, SMT DEF Home, ObjsHome
    <2>9. HeldHome'
      BY <1>1, <1>4, <1>7 DEF Home, HeldHome
    <2>10. AllHome'
      <3> SUFFICES ASSUME NEW x \in config'.bufs
                   PROVE  \/ x \in slab' \/ held'[x] = 1
                          \/ \E u \in Threads : obj'[u] = x
                          \/ \E m \in Mags : \E i \in Index : Occ(m, i)' /\ mag_round'[m][i] = x
        BY DEF AllHome
      <3>1. x \in config.bufs /\ x \in Bufs /\ x # NoOne
        BY <1>1, Configs, MagazineConstants DEF Types2
      <3>2. CASE x = b
        BY <1>6, <3>2
      <3>3. CASE x # b
        <4>1. \/ x \in slab \/ held[x] = 1
              \/ \E u \in Threads : obj[u] = x
              \/ \E m \in Mags : \E i \in Index : Occ(m, i) /\ mag_round[m][i] = x
          BY <1>1, <3>1 DEF Home, AllHome
        <4>2. held'[x] = held[x] /\ slab' = slab
          BY <1>4, <1>7, <3>1, <3>3
        <4>3. \A u \in Threads : obj[u] = x => obj'[u] = x
          BY <1>6, <2>6, <3>1
        <4>4. (\E m \in Mags : \E i \in Index : Occ(m, i) /\ mag_round[m][i] = x)
              => \E m \in Mags : \E i \in Index : Occ(m, i)' /\ mag_round'[m][i] = x
          BY <2>2 DEF SameSlots
        <4> QED
          BY <4>1, <4>2, <4>3, <4>4
      <3> QED
        BY <3>2, <3>3
    <2> QED
      BY <2>7, <2>8, <2>9, <2>10 DEF Home
  <1> QED
    BY <1>1, <1>4, <1>6, <1>8, <1>9, <1>10, <1>11, QuietSuffices DEF Fresh

\* The magazine layer could not take the buffer: it goes on to the slab layer.
LEMMA MagNoneInv ==
    ASSUME IInv, NEW t \in Threads, MagNone(t), UNCHANGED config
    PROVE  IInv'
  <1>1. Types2 /\ Hands(t) /\ Locked(t) /\ Home /\ Fresh
    BY DEF IInv
  <1>2. /\ pc[t] = "relock" /\ mag[t] = NoOne /\ pc' = [pc EXCEPT ![t] = "slab_free"]
        /\ UNCHANGED <<cc, depot, cache_magtype, op, cpu, obj, mag, mtp, updateVars,
                       bufferVars, shellVars>>
    BY DEF MagNone
  <1>3. Others(t) /\ pc'[t] = "slab_free" /\ why # "destroy"
    BY <1>1, <1>2, InCall DEF Others, Types2
  <1>4. Types2'
    BY <1>1, <1>2 DEF Types2, TypeOK, PCs, updateVars, bufferVars, shellVars
  <1>5. Hands(t)'
    BY <1>1, <1>2, <1>3 DEF Hands, CacheOps
  <1>6. Locked(t)'
    BY <1>1, <1>2, <1>3 DEF Locked, Locks
  <1>7. Home'
    <2>1. StillShells
      BY <1>2 DEF StillShells, SameCpu, updateVars, shellVars
    <2>2. SameSlots
      BY <1>2, <2>1, OccStable DEF SameSlots, shellVars
    <2> QED
      BY <1>1, <1>2, <2>2, HomeStable DEF bufferVars
  <1> QED
    BY <1>1, <1>2, <1>3, <1>4, <1>5, <1>6, <1>7, QuietSuffices DEF bufferVars, Fresh

\* The rseq layer goes to the depot.
LEMMA RseqPullInv ==
    ASSUME IInv, NEW t \in Threads, RseqPull(t), UNCHANGED config
    PROVE  IInv'
  <1>1. Types2 /\ Hands(t) /\ Locked(t) /\ Home /\ Fresh
    BY DEF IInv
  <1>2. PICK o \in {"rseq_alloc", "rseq_free"} : op' = [op EXCEPT ![t] = o]
    BY DEF RseqPull
  <1>3. /\ config.rseq /\ pc[t] = "idle" /\ why # "destroy"
        /\ pc' = [pc EXCEPT ![t] = "get"]
        /\ UNCHANGED <<cc, depot, cache_magtype, cpu, obj, mag, mtp, updateVars,
                       bufferVars, shellVars>>
    BY DEF RseqPull
  <1>4. /\ Others(t) /\ pc'[t] = "get" /\ op'[t] = o
        /\ mag[t] = NoOne /\ obj[t] = NoOne
    BY <1>1, <1>2, <1>3 DEF Others, Types2, Hands
  <1>5. Types2'
    BY <1>1, <1>2, <1>3 DEF Types2, TypeOK, PCs, updateVars, bufferVars, shellVars
  <1>6. Hands(t)'
    BY <1>3, <1>4 DEF Hands, CacheOps
  <1>7. Locked(t)'
    BY <1>1, <1>3, <1>4 DEF Locked, Locks, CacheOps
  <1>8. Home'
    <2>1. StillShells
      BY <1>3 DEF StillShells, SameCpu, updateVars, shellVars
    <2>2. SameSlots
      BY <1>3, <1>4, <2>1, OccStable DEF SameSlots, shellVars, Others
    <2> QED
      BY <1>1, <1>3, <2>2, HomeStable DEF bufferVars
  <1> QED
    BY <1>1, <1>3, <1>4, <1>5, <1>6, <1>7, <1>8, QuietSuffices DEF bufferVars, Fresh

\* umem_slab_alloc with the constructor: the buffer goes from the slab layer to
\* the caller, or nothing happens.
LEMMA SlabAllocInv ==
    ASSUME IInv, NEW t \in Threads, SlabAlloc(t), UNCHANGED config
    PROVE  IInv'
  <1>1. Types2 /\ Hands(t) /\ Locked(t) /\ Home /\ Fresh
    BY DEF IInv
  <1>2. /\ pc[t] = "slab_alloc" /\ Finish(t)
        /\ UNCHANGED <<cc, depot, cache_magtype, updateVars, shellVars>>
    BY DEF SlabAlloc
  <1>3. mag[t] = NoOne /\ obj[t] = NoOne /\ why # "destroy"
    BY <1>1, <1>2, InCall DEF Hands
  <1>4. \A c \in CPUs : cc'[c].lock # t
    BY <1>1, <1>2 DEF Locked, Locks
  <1>5. /\ Others(t) /\ Hands(t)' /\ Locked(t)'
        /\ pc'[t] = "idle" /\ op'[t] = "none" /\ obj'[t] = NoOne /\ mag'[t] = NoOne
        /\ pc' \in [Threads -> PCs]
        /\ op' \in [Threads -> {"none", "alloc", "free", "rseq_alloc", "rseq_free"}]
        /\ cpu' \in [Threads -> CPUs \cup {NoOne}]
        /\ mtp' \in [Threads -> {0} \cup Types]
        /\ obj' \in [Threads -> Bufs \cup {NoOne}]
        /\ mag' \in [Threads -> Mags \cup {NoOne}]
    BY <1>1, <1>2, <1>4, Finished
  <1>6. mag' = mag /\ obj' = obj
    BY <1>1, <1>2, <1>3 DEF Finish, Types2, TypeOK
  <1>7. StillShells
    BY <1>2, <1>6 DEF StillShells, SameCpu, updateVars, shellVars
  <1>8. SameSlots
    BY <1>2, <1>3, <1>7, OccStable, <1>5 DEF SameSlots, shellVars, Others
  <1>9. CASE UNCHANGED bufferVars
    <2>1. Types2'
      BY <1>1, <1>2, <1>5, <1>9 DEF Types2, TypeOK, updateVars, bufferVars, shellVars
    <2>2. Home'
      BY <1>1, <1>6, <1>8, <1>9, HomeStable DEF bufferVars
    <2> QED
      BY <1>1, <1>2, <1>3, <1>5, <1>6, <1>9, <2>1, <2>2, QuietSuffices DEF bufferVars, Fresh
  <1>10. ASSUME NEW b \in slab,
                slab' = slab \ {b}, held' = [held EXCEPT ![b] = @ + 1],
                constructed' = constructed \cup {b}
         PROVE  IInv'
    <2>1. b \in config.bufs /\ b \in Bufs /\ held[b] = 0
      BY <1>1, Configs DEF Types2, Home, HeldHome
    <2>2. held'[b] = 1 /\ \A x \in Bufs \ {b} : held'[x] = held[x]
      BY <1>1, <1>10, <2>1, SMT DEF Types2, TypeOK
    <2>3. Types2'
      <3>1. held' \in [Bufs -> Nat]
        BY <1>1, <1>10, <2>1, SMT DEF Types2, TypeOK
      <3> QED
        BY <1>1, <1>2, <1>5, <1>10, <2>1, <3>1 DEF Types2, TypeOK, updateVars, shellVars
    <2>4. \A x : Away(x) => Away(x)'
      BY <1>1, <1>10, <2>2, Configs DEF Away, Types2
    <2>5. Home'
      <3>1. SlotsHome'
        BY <1>1, <1>6, <1>8, <2>4, SMT DEF Home, SlotsHome, SameSlots
      <3>2. ObjsHome'
        BY <1>1, <1>6, <2>4 DEF Home, ObjsHome
      <3>3. HeldHome'
        BY <1>1, <1>10, <2>1, <2>2 DEF Home, HeldHome
      <3>4. AllHome'
        BY <1>1, <1>6, <1>8, <1>10, <2>1, <2>2, Configs, SMT
           DEF Home, AllHome, SameSlots, Types2
      <3> QED
        BY <3>1, <3>2, <3>3, <3>4 DEF Home
    <2>6. ~config.rseq => slab' \cap constructed' = {}
      BY <1>1, <1>10 DEF Fresh
    <2> QED
      BY <1>2, <1>3, <1>5, <1>6, <2>3, <2>5, <2>6, QuietSuffices
  <1> QED
    BY <1>9, <1>10 DEF SlabAlloc

\* The destructor and umem_slab_free.
LEMMA SlabFreeInv ==
    ASSUME IInv, NEW t \in Threads, SlabFree(t), UNCHANGED config
    PROVE  IInv'
  <1>1. Types2 /\ Hands(t) /\ Locked(t) /\ Home /\ Fresh
    BY DEF IInv
  <1>2. /\ pc[t] = "slab_free" /\ Finish(t)
        /\ slab' = slab \cup {obj[t]} /\ constructed' = constructed \ {obj[t]}
        /\ UNCHANGED <<cc, depot, cache_magtype, held, updateVars, shellVars>>
    BY DEF SlabFree
  <1>3. mag[t] = NoOne /\ obj[t] # NoOne /\ why # "destroy"
    BY <1>1, <1>2, InCall DEF Hands
  <1>4. \A c \in CPUs : cc'[c].lock # t
    BY <1>1, <1>2 DEF Locked, Locks
  <1>5. /\ Others(t) /\ Hands(t)' /\ Locked(t)'
        /\ pc'[t] = "idle" /\ op'[t] = "none" /\ obj'[t] = NoOne /\ mag'[t] = NoOne
        /\ pc' \in [Threads -> PCs]
        /\ op' \in [Threads -> {"none", "alloc", "free", "rseq_alloc", "rseq_free"}]
        /\ cpu' \in [Threads -> CPUs \cup {NoOne}]
        /\ mtp' \in [Threads -> {0} \cup Types]
        /\ obj' \in [Threads -> Bufs \cup {NoOne}]
        /\ mag' \in [Threads -> Mags \cup {NoOne}]
    BY <1>1, <1>2, <1>4, Finished
  <1>6. mag' = mag
    BY <1>1, <1>2, <1>3 DEF Finish, Types2, TypeOK
  <1>7. SameSlots
    <2>1. StillShells
      BY <1>2, <1>6 DEF StillShells, SameCpu, updateVars, shellVars
    <2> QED
      BY <1>2, <1>3, <1>5, <2>1, OccStable DEF SameSlots, shellVars, Others
  <1>8. Away(obj[t]) /\ obj[t] \in Bufs
    BY <1>1, <1>3, Configs DEF Home, ObjsHome, Away, Types2
  <1>9. Types2'
    BY <1>1, <1>2, <1>5, <1>8 DEF Types2, TypeOK, updateVars, shellVars
  <1>10. \A x : Away(x) /\ x # obj[t] => Away(x)'
    BY <1>2 DEF Away
  <1>11. \A u \in Threads \ {t} : obj'[u] = obj[u]
    BY <1>5 DEF Others
  <1>12. Home'
    <2>1. SlotsHome'
      <3>1. \A m \in Mags : \A i \in Index :
               Occ(m, i) => Away(mag_round[m][i]) /\ mag_round[m][i] # obj[t]
        BY <1>1 DEF Home, SlotsHome
      <3>2. \A m \in Mags : \A i \in Index : Occ(m, i) => mag_round[m][i] # NoOne
        BY <1>1, <3>1, Configs DEF Away, Types2
      <3>3. \A m \in Mags : \A i \in Index : \A u \in Threads :
               Occ(m, i) => mag_round[m][i] # obj'[u]
        BY <1>1, <1>5, <1>11, <3>2, SMT DEF Home, SlotsHome
      <3> QED
        BY <1>1, <1>7, <1>10, <3>1, <3>3, SMT DEF Home, SlotsHome, SameSlots
    <2>2. ObjsHome'
      BY <1>1, <1>3, <1>5, <1>10, <1>11 DEF Home, ObjsHome
    <2>3. HeldHome'
      BY <1>1, <1>2, <1>8, SMT DEF Home, HeldHome, Away
    <2>4. AllHome'
      BY <1>1, <1>2, <1>7, <1>11, SMT DEF Home, AllHome, SameSlots
    <2> QED
      BY <2>1, <2>2, <2>3, <2>4 DEF Home
  <1>13. ~config.rseq => slab' \cap constructed' = {}
    BY <1>1, <1>2 DEF Fresh
  <1> QED
    BY <1>2, <1>3, <1>5, <1>6, <1>9, <1>12, <1>13, QuietSuffices

-----------------------------------------------------------------------------
(* A step of a thread that moves a magazine.                               *)

\* What is left to show for such a step: the rest of the invariant follows from
\* its leaving the others and the update thread alone.
LEMMA ThreadSuffices ==
    ASSUME IInv, NEW t \in Threads, Others(t), OwnCpu(t), OwnShell(t), why # "destroy",
           UNCHANGED <<config, cache_magtype, updateVars>>,
           \A c \in CPUs : cc'[c].magsize = cc[c].magsize,
           \A d \in doomed : mag_type'[d.mag] = mag_type[d.mag],
           Types2', Hands(t)', Locked(t)', \A c \in CPUs : CpuSound(c)',
           Placed', Covered', Apart', Tally', Home', Drained', Fresh'
    PROVE  IInv'
  <1>1. \A u \in Threads : Hands(u)' /\ Locked(u)'
    BY OthersStable
  <1>2. Job'
    BY JobStable
  <1> QED
    BY <1>1, <1>2 DEF IInv

\* What has occupied slots is a shell.
LEMMA OccShell ==
    ASSUME Placed, NEW m \in Mags, NEW i \in Index, Occ(m, i)
    PROVE  m \in Shells
  <1>1. m # NoOne
    BY MagazineConstants
  <1>2. CASE \E c \in CPUs : OccCpu(c, m, i)
    BY <1>1, <1>2 DEF OccCpu, CpuMags, Placed
  <1>3. CASE m \in depot["full"].list
    BY <1>3 DEF Placed, Kinds
  <1>4. CASE \E t \in Threads : mag[t] = m
    BY <1>1, <1>4 DEF Placed
  <1>5. CASE \E d \in doomed : d.mag = m
    BY <1>5 DEF Placed
  <1> QED
    BY <1>2, <1>3, <1>4, <1>5 DEF Occ

\* A shell that is in the hands of a thread is nowhere else; its slots count by
\* what the thread has it for.
LEMMA OccInHands ==
    ASSUME Apart, NEW t \in Threads, mag[t] \in Mags, NEW i \in Index
    PROVE  Occ(mag[t], i) <=> Kind(t) = "full" /\ i <= Capacity(mag[t])
  <1>1. mag[t] # NoOne
    BY MagazineConstants
  <1>2. \A c \in CPUs : ~OccCpu(c, mag[t], i)
    BY <1>1 DEF Apart, OccCpu, CpuMags
  <1>3. mag[t] \notin depot["full"].list
    BY <1>1 DEF Apart, Kinds
  <1>4. \A u \in Threads : mag[u] = mag[t] => u = t
    BY <1>1 DEF Apart
  <1>5. \A d \in doomed : d.mag # mag[t]
    BY <1>1 DEF Apart
  <1> QED
    BY <1>2, <1>3, <1>4, <1>5 DEF Occ

\* A shell is allocated, or not.
LEMMA MagAllocInv ==
    ASSUME IInv, NEW t \in Threads, MagAlloc(t), UNCHANGED config
    PROVE  IInv'
  <1>1. /\ Types2 /\ Hands(t) /\ Locked(t) /\ Home /\ Fresh /\ Placed /\ Covered /\ Apart
        /\ Tally /\ Drained /\ Job /\ \A c \in CPUs : CpuSound(c)
    BY DEF IInv
  <1>2. /\ pc[t] = "mag_alloc" /\ pc' = [pc EXCEPT ![t] = "relock"]
        /\ UNCHANGED <<cc, depot, cache_magtype, op, cpu, obj, mtp, mag_round, mag_total,
                       updateVars, bufferVars>>
    BY DEF MagAlloc
  <1>3. /\ mag[t] = NoOne /\ op[t] = "free" /\ mtp[t] \in Types /\ why # "destroy"
        /\ obj[t] # NoOne /\ cpu[t] \in config.cpus /\ pc'[t] = "relock"
    BY <1>1, <1>2, InCall DEF Hands, Types2, CacheOps
  <1>4. \A c \in CPUs : cc[c].lock # t
    BY <1>1, <1>2 DEF Locked, Locks
  <1>5. CASE UNCHANGED <<mag_type, mag>>
    <2>1. Others(t)
      BY <1>1, <1>2, <1>5 DEF Others, Types2
    <2>2. Types2'
      BY <1>1, <1>2, <1>5 DEF Types2, TypeOK, PCs, updateVars, bufferVars
    <2>3. Hands(t)'
      BY <1>2, <1>3, <1>5 DEF Hands, CacheOps
    <2>4. Locked(t)'
      BY <1>2, <1>3, <1>4 DEF Locked, Locks
    <2>5. Home'
      <3>1. StillShells
        BY <1>2, <1>5 DEF StillShells, SameCpu, updateVars
      <3>2. SameSlots
        BY <1>2, <3>1, OccStable DEF SameSlots
      <3> QED
        BY <1>1, <1>2, <3>2, HomeStable DEF bufferVars
    <2> QED
      BY <1>1, <1>2, <1>3, <1>5, <2>1, <2>2, <2>3, <2>4, <2>5, QuietSuffices
         DEF bufferVars, shellVars, Fresh
  <1>6. ASSUME NEW m \in Mags, mag_type[m] = 0,
               mag_type' = [mag_type EXCEPT ![m] = mtp[t]],
               mag' = [mag EXCEPT ![t] = m]
        PROVE  IInv'
    <2>1. /\ Others(t) /\ mag'[t] = m /\ m # NoOne
          /\ mag_type'[m] = mtp[t] /\ \A x \in Mags \ {m} : mag_type'[x] = mag_type[x]
      BY <1>1, <1>2, <1>6, Configs, SMT DEF Others, Types2, TypeOK
    <2>2. m \notin Shells /\ Shells' = Shells \cup {m} /\ Shells \subseteq Mags
      BY <1>3, <1>6, <2>1, Sizes, SMT DEF Shells
    <2>3. \A x \in Shells : mag_type'[x] = mag_type[x]
      BY <2>1, <2>2
    <2>4. Types2'
      BY <1>1, <1>2, <1>3, <1>6 DEF Types2, TypeOK, PCs, updateVars, bufferVars
    <2>5. Hands(t)'
      BY <1>2, <1>3, <2>1 DEF Hands, CacheOps
    <2>6. Locked(t)'
      BY <1>2, <1>3, <1>4 DEF Locked, Locks
    <2>7. OwnCpu(t) /\ OwnShell(t)
      BY <1>1, <1>2, <2>3 DEF OwnCpu, OwnShell, Placed
    <2>8. \A c \in CPUs : CpuSound(c)'
      <3>1. \A c \in CPUs : \A x \in CpuMags(c) : mag_type'[x] = mag_type[x]
        BY <1>1, <2>3 DEF Placed
      <3> QED
        BY <1>1, <1>2, <3>1, CpuStable DEF SameCpu
    <2>9. \A c \in CPUs : CpuMags(c)' = CpuMags(c)
      BY <1>2 DEF CpuMags
    <2>10. doomed' = doomed
      BY <1>2 DEF updateVars
    <2>11. \A u \in Threads \ {t} : mag'[u] = mag[u]
      BY <2>1 DEF Others
    <2>12. Placed'
      BY <1>1, <1>2, <2>1, <2>2, <2>9, <2>10, <2>11 DEF Placed
    <2>13. Covered'
      <3> SUFFICES ASSUME NEW x \in Shells'
                   PROVE  \/ \E c \in CPUs : x \in CpuMags(c)'
                          \/ \E k \in Kinds : x \in depot'[k].list
                          \/ \E u \in Threads : mag'[u] = x
                          \/ \E d \in doomed' : d.mag = x
        BY DEF Covered
      <3>1. CASE x = m
        BY <2>1, <3>1
      <3>2. CASE x # m
        <4>1. x \in Shells /\ x # NoOne
          BY <2>2, <3>2, MagazineConstants
        <4>2. \A u \in Threads : mag[u] = x => mag'[u] = x
          BY <1>3, <2>11, <4>1
        <4>3. \/ \E c \in CPUs : x \in CpuMags(c)
              \/ \E k \in Kinds : x \in depot[k].list
              \/ \E u \in Threads : mag[u] = x
              \/ \E d \in doomed : d.mag = x
          BY <1>1, <4>1 DEF Covered
        <4> QED
          BY <1>2, <2>9, <2>10, <4>2, <4>3
      <3> QED
        BY <3>1, <3>2
    <2>14. Apart'
      <3>1. /\ \A c \in CPUs : m \notin CpuMags(c)
            /\ \A k \in Kinds : m \notin depot[k].list
            /\ \A u \in Threads : mag[u] # m
            /\ \A d \in doomed : d.mag # m
        BY <1>1, <2>1, <2>2 DEF Placed
      <3>2. /\ \A c \in CPUs : cc'[c].loaded # NoOne => cc'[c].loaded # cc'[c].ploaded
            /\ \A b, c \in CPUs : \A x \in Mags : x \in CpuMags(b)' /\ x \in CpuMags(c)' => b = c
        <4>1. /\ \A c \in CPUs : cc[c].loaded # NoOne => cc[c].loaded # cc[c].ploaded
              /\ \A b, c \in CPUs : \A x \in Mags : x \in CpuMags(b) /\ x \in CpuMags(c) => b = c
          BY <1>1 DEF Apart
        <4>2. \A c \in CPUs : cc'[c].loaded # NoOne => cc'[c].loaded # cc'[c].ploaded
          BY <1>2, <4>1
        <4>3. ASSUME NEW b \in CPUs, NEW c \in CPUs, NEW x \in Mags,
                     x \in CpuMags(b)', x \in CpuMags(c)'
              PROVE  b = c
          <5>1. x \in CpuMags(b) /\ x \in CpuMags(c)
            BY <2>9, <4>3
          <5> QED
            BY <4>1, <5>1
        <4> QED
          BY <4>2, <4>3
      <3>3. /\ \A x \in Mags : ~(x \in depot'["full"].list /\ x \in depot'["empty"].list)
            /\ \A d, e \in doomed' : d.mag = e.mag => d = e
            /\ \A d \in doomed' : \A k \in Kinds : d.mag \notin depot'[k].list
        BY <1>1, <1>2, <2>10 DEF Apart
      <3>4. \A u \in Threads : mag'[u] = m \/ mag'[u] = mag[u]
        BY <2>1, <2>11
      <3>5. \A u, v \in Threads : mag'[u] # NoOne /\ mag'[u] = mag'[v] => u = v
        <4>1. \A u, v \in Threads : mag[u] # NoOne /\ mag[u] = mag[v] => u = v
          BY <1>1 DEF Apart
        <4> TAKE u, v \in Threads
        <4> HAVE mag'[u] # NoOne /\ mag'[u] = mag'[v]
        <4>2. CASE u = t /\ v # t
          BY <2>1, <2>11, <3>1, <4>2
        <4>3. CASE u # t /\ v = t
          BY <2>1, <2>11, <3>1, <4>3
        <4>4. CASE u # t /\ v # t
          BY <2>11, <4>1, <4>4
        <4> QED
          BY <4>2, <4>3, <4>4
      <3>6. \A c \in CPUs : \A x \in CpuMags(c)' :
               /\ \A k \in Kinds : x \notin depot'[k].list
               /\ \A u \in Threads : mag'[u] # x
               /\ \A d \in doomed' : d.mag # x
        <4> TAKE c \in CPUs
        <4> TAKE x \in CpuMags(c)'
        <4>1. x \in CpuMags(c) /\ x # m
          BY <2>9, <3>1
        <4>2. /\ \A k \in Kinds : x \notin depot[k].list
              /\ \A u \in Threads : mag[u] # x
              /\ \A d \in doomed : d.mag # x
          BY <1>1, <4>1 DEF Apart
        <4> QED
          BY <1>2, <2>10, <3>4, <4>1, <4>2
      <3>7. \A u \in Threads : mag'[u] # NoOne =>
               /\ \A k \in Kinds : mag'[u] \notin depot'[k].list
               /\ \A d \in doomed' : d.mag # mag'[u]
        <4> TAKE u \in Threads
        <4> HAVE mag'[u] # NoOne
        <4>1. CASE mag'[u] = m
          BY <1>2, <2>10, <3>1, <4>1
        <4>2. CASE mag'[u] = mag[u]
          BY <1>1, <1>2, <2>10, <4>2 DEF Apart
        <4> QED
          BY <3>4, <4>1, <4>2
      <3> QED
        BY <3>2, <3>3, <3>5, <3>6, <3>7 DEF Apart
    <2>15. Tally'
      <3>1. Counted' = Counted
        <4>1. \A x \in Mags \ {m} : \A u \in Threads :
                 (pc'[u] = "relock" => mag'[u] # x) <=> (pc[u] = "relock" => mag[u] # x)
          <5> TAKE x \in Mags \ {m}
          <5> TAKE u \in Threads
          <5>1. CASE u = t
            BY <1>2, <2>1, <5>1
          <5>2. CASE u # t
            BY <2>1, <5>2 DEF Others
          <5> QED
            BY <5>1, <5>2
        <4>2. \A x \in Mags \ {m} : x \in Counted' <=> x \in Counted
          BY <2>1, <4>1 DEF Counted
        <4>3. m \notin Counted
          BY <1>6 DEF Counted
        <4>4. m \notin Counted'
          BY <1>3, <2>1 DEF Counted
        <4>5. Counted \subseteq Mags /\ Counted' \subseteq Mags
          BY DEF Counted
        <4>6. \A x : x \in Counted' <=> x \in Counted
          BY <4>2, <4>3, <4>4, <4>5
        <4> QED
          BY <4>6
      <3> QED
        BY <1>1, <1>2, <3>1 DEF Tally
    <2>16. SameSlots
      <3>1. \A x \in Mags \ {m} : \A i \in Index : Occ(x, i)' <=> Occ(x, i)
        <4> TAKE x \in Mags \ {m}
        <4> TAKE i \in Index
        <4>1. Capacity(x)' = Capacity(x)
          BY <2>1 DEF Capacity
        <4>2. \A d \in doomed : DoomedRounds(d)' = DoomedRounds(d)
          BY <1>1, <2>3 DEF DoomedRounds, Capacity, Placed
        <4>3. \A c \in CPUs : OccCpu(c, x, i)' <=> OccCpu(c, x, i)
          BY <1>2 DEF OccCpu
        <4>4. \A u \in Threads : (mag'[u] = x <=> mag[u] = x) /\ Kind(u)' = Kind(u)
          BY <1>2, <1>3, <2>1, <2>11, MagazineConstants DEF Kind
        <4> QED
          BY <1>2, <2>10, <4>1, <4>2, <4>3, <4>4 DEF Occ
      <3>2. \A i \in Index : ~Occ(m, i)
        BY <1>1, <2>2, OccShell
      <3>3. \A i \in Index : ~Occ(m, i)'
        <4> TAKE i \in Index
        <4>1. \A c \in CPUs : ~OccCpu(c, m, i)'
          BY <1>1, <1>2, <2>1, <2>2 DEF OccCpu, CpuMags, Placed
        <4>2. m \notin depot'["full"].list /\ \A d \in doomed' : d.mag # m
          BY <1>1, <1>2, <2>2, <2>10 DEF Placed, Kinds
        <4>3. \A u \in Threads : mag'[u] = m => u = t
          BY <1>1, <2>1, <2>2, <2>11 DEF Placed
        <4>4. Kind(t)' # "full"
          BY <1>2, <1>3 DEF Kind
        <4> QED
          BY <4>1, <4>2, <4>3, <4>4 DEF Occ
      <3> QED
        BY <1>2, <3>1, <3>2, <3>3 DEF SameSlots
    <2>17. Home'
      BY <1>1, <1>2, <2>16, HomeStable DEF bufferVars
    <2>18. Drained'
      BY <1>1, <1>2, DrainedStable DEF updateVars
    <2>19. Fresh'
      BY <1>1, <1>2, <1>3, <2>1, <2>3, <2>10, SMT DEF Fresh, Valid, Placed, bufferVars, Others
    <2> QED
      BY <1>1, <1>2, <1>3, <2>1, <2>3, <2>4, <2>5, <2>6, <2>7, <2>8, <2>12, <2>13, <2>14,
         <2>15, <2>17, <2>18, <2>19, ThreadSuffices DEF Placed
  <1> QED
    BY <1>2, <1>5, <1>6 DEF MagAlloc

\* Taking shells away from where they are keeps the others apart.
LEMMA ApartLess ==
    ASSUME Apart,
           \A c \in CPUs : CpuMags(c)' = CpuMags(c),
           \A c \in CPUs : cc'[c].loaded = cc[c].loaded /\ cc'[c].ploaded = cc[c].ploaded,
           \A k \in Kinds : depot'[k].list \subseteq depot[k].list,
           \A u \in Threads : mag'[u] = NoOne \/ mag'[u] = mag[u],
           doomed' \subseteq doomed
    PROVE  Apart'
  <1>1. \A c \in CPUs : cc'[c].loaded # NoOne => cc'[c].loaded # cc'[c].ploaded
    BY DEF Apart
  <1>2. \A b, c \in CPUs : \A m \in Mags :
           m \in CpuMags(b)' /\ m \in CpuMags(c)' => b = c
    BY SMT DEF Apart
  <1>3. \A m \in Mags : ~(m \in depot'["full"].list /\ m \in depot'["empty"].list)
    BY DEF Apart, Kinds
  <1>4. \A t, u \in Threads : mag'[t] # NoOne /\ mag'[t] = mag'[u] => t = u
    BY SMT DEF Apart
  <1>5. \A d, e \in doomed' : d.mag = e.mag => d = e
    BY DEF Apart
  <1>6. \A c \in CPUs : \A m \in CpuMags(c)' :
           /\ \A k \in Kinds : m \notin depot'[k].list
           /\ \A t \in Threads : mag'[t] # m
           /\ \A d \in doomed' : d.mag # m
    <2>1. \A c \in CPUs : NoOne \notin CpuMags(c)
      BY DEF CpuMags
    <2> QED
      BY <2>1, SMT DEF Apart
  <1>7. \A t \in Threads : mag'[t] # NoOne =>
           /\ \A k \in Kinds : mag'[t] \notin depot'[k].list
           /\ \A d \in doomed' : d.mag # mag'[t]
    BY SMT DEF Apart
  <1>8. \A d \in doomed' : \A k \in Kinds : d.mag \notin depot'[k].list
    BY DEF Apart
  <1> QED
    BY <1>1, <1>2, <1>3, <1>4, <1>5, <1>6, <1>7, <1>8 DEF Apart

\* The shell is of the wrong size by now, and is freed.
LEMMA MagDiscardInv ==
    ASSUME IInv, NEW t \in Threads, MagDiscard(t), UNCHANGED config
    PROVE  IInv'
  <1>1. /\ Types2 /\ Hands(t) /\ Locked(t) /\ Home /\ Fresh /\ Placed /\ Covered /\ Apart
        /\ Tally /\ Drained /\ Job /\ \A c \in CPUs : CpuSound(c)
    BY DEF IInv
  <1>0. PICK m \in Mags : m = mag[t]
    BY <1>1 DEF MagDiscard, Types2, TypeOK
  <1>2. /\ pc[t] = "relock" /\ mag[t] = m /\ m # NoOne /\ pc' = [pc EXCEPT ![t] = "top"]
        /\ mag_type' = [mag_type EXCEPT ![m] = 0]
        /\ mag' = [mag EXCEPT ![t] = NoOne]
        /\ UNCHANGED <<cc, depot, cache_magtype, op, cpu, obj, mtp, mag_round, mag_total,
                       updateVars, bufferVars>>
    BY <1>0 DEF MagDiscard
  <1>3. /\ op[t] = "free" /\ why # "destroy" /\ obj[t] # NoOne /\ cpu[t] \in config.cpus
        /\ pc'[t] = "top" /\ mag'[t] = NoOne
    BY <1>1, <1>2, InCall DEF Hands, Types2, TypeOK, CacheOps
  <1>4. \A c \in CPUs : cc[c].lock # t
    BY <1>1, <1>2 DEF Locked, Locks
  <1>5. /\ Others(t) /\ m \in Mags /\ m \in Shells
        /\ mag_type'[m] = 0 /\ \A x \in Mags \ {m} : mag_type'[x] = mag_type[x]
    BY <1>1, <1>2 DEF Others, Types2, TypeOK, Placed
  <1>6. Shells' = Shells \ {m} /\ Shells \subseteq Mags
    BY <1>5 DEF Shells
  <1>7. /\ \A c \in CPUs : m \notin CpuMags(c)
        /\ \A k \in Kinds : m \notin depot[k].list
        /\ \A u \in Threads \ {t} : mag[u] # m
        /\ \A d \in doomed : d.mag # m
    BY <1>1, <1>2 DEF Apart
  <1>8. \A x \in Shells \ {m} : mag_type'[x] = mag_type[x]
    BY <1>5, <1>6
  <1>9. Types2'
    BY <1>1, <1>2, <1>5 DEF Types2, TypeOK, PCs, updateVars, bufferVars
  <1>10. Hands(t)'
    BY <1>2, <1>3 DEF Hands, CacheOps
  <1>11. Locked(t)'
    BY <1>2, <1>3, <1>4 DEF Locked, Locks
  <1>12. OwnCpu(t) /\ OwnShell(t)
    BY <1>1, <1>2, <1>7, <1>8 DEF OwnCpu, OwnShell, Placed
  <1>13. \A c \in CPUs : CpuSound(c)'
    <2>1. \A c \in CPUs : \A x \in CpuMags(c) : mag_type'[x] = mag_type[x]
      BY <1>1, <1>7, <1>8 DEF Placed
    <2> QED
      BY <1>1, <1>2, <2>1, CpuStable DEF SameCpu
  <1>14. \A c \in CPUs : CpuMags(c)' = CpuMags(c)
    BY <1>2 DEF CpuMags
  <1>15. doomed' = doomed /\ \A u \in Threads \ {t} : mag'[u] = mag[u]
    BY <1>2, <1>5 DEF updateVars, Others
  <1>16. Placed'
    BY <1>1, <1>2, <1>3, <1>6, <1>7, <1>14, <1>15, SMT DEF Placed
  <1>17. Covered'
    BY <1>1, <1>2, <1>6, <1>14, <1>15, SMT DEF Covered
  <1>18. Apart'
    <2>1. \A u \in Threads : mag'[u] = NoOne \/ mag'[u] = mag[u]
      BY <1>3, <1>15
    <2> QED
      BY <1>1, <1>2, <1>14, <1>15, <2>1, ApartLess
  <1>19. Tally'
    <2>1. Counted' = Counted
      BY <1>2, <1>3, <1>5, <1>15, Configs, <1>1, SMT DEF Counted, Types2, Others
    <2> QED
      BY <1>1, <1>2, <2>1 DEF Tally
  <1>20. SameSlots
    <2>1. \A x \in Mags \ {m} : \A i \in Index : Occ(x, i)' <=> Occ(x, i)
      <3> TAKE x \in Mags \ {m}
      <3> TAKE i \in Index
      <3>1. Capacity(x)' = Capacity(x)
        BY <1>5 DEF Capacity
      <3>2. \A d \in doomed : DoomedRounds(d)' = DoomedRounds(d)
        BY <1>1, <1>7, <1>8 DEF DoomedRounds, Capacity, Placed
      <3>3. \A c \in CPUs : OccCpu(c, x, i)' <=> OccCpu(c, x, i)
        BY <1>2 DEF OccCpu
      <3>4. \A u \in Threads : (mag'[u] = x <=> mag[u] = x) /\ Kind(u)' = Kind(u)
        BY <1>2, <1>3, <1>15, MagazineConstants DEF Kind
      <3> QED
        BY <1>2, <1>15, <3>1, <3>2, <3>3, <3>4 DEF Occ
    <2>2. \A i \in Index : ~Occ(m, i)
      BY <1>0, <1>1, <1>3, OccInHands DEF Kind
    <2>3. \A i \in Index : ~Occ(m, i)'
      <3> TAKE i \in Index
      <3>1. \A c \in CPUs : ~OccCpu(c, m, i)'
        BY <1>2, <1>7 DEF OccCpu, CpuMags
      <3>2. m \notin depot'["full"].list /\ \A d \in doomed' : d.mag # m
        BY <1>2, <1>7, <1>15 DEF Kinds
      <3>3. \A u \in Threads : mag'[u] # m
        BY <1>2, <1>3, <1>7, <1>15, SMT
      <3> QED
        BY <3>1, <3>2, <3>3 DEF Occ
    <2> QED
      BY <1>2, <2>1, <2>2, <2>3 DEF SameSlots
  <1>21. Home'
    BY <1>1, <1>2, <1>20, HomeStable DEF bufferVars
  <1>22. Drained'
    BY <1>1, <1>2, DrainedStable DEF updateVars
  <1>23. Fresh'
    BY <1>1, <1>2, <1>3, <1>5, <1>7, <1>8, <1>15, SMT DEF Fresh, Valid, Placed, bufferVars, Others
  <1>24. \A d \in doomed : mag_type'[d.mag] = mag_type[d.mag]
    BY <1>1, <1>7, <1>8 DEF Placed
  <1> QED
    BY <1>2, <1>3, <1>5, <1>9, <1>10, <1>11, <1>12, <1>13, <1>16, <1>17, <1>18, <1>19,
       <1>21, <1>22, <1>23, <1>24, ThreadSuffices

\* A thread puts the magazine it has on depot list k.
ToDepot(t, m, k) ==
    /\ mag[t] = m /\ mag'[t] = NoOne
    /\ \A u \in Threads \ {t} : mag'[u] = mag[u] /\ op'[u] = op[u]
    /\ \A c \in CPUs : SameCpu(c)
    /\ \A j \in Kinds : depot'[j].list = IF j = k THEN depot[j].list \cup {m}
                                         ELSE depot[j].list
    /\ UNCHANGED <<doomed, mag_type>>

\* It is in one place before and after, and counts for the same slots when the
\* list says what the call did.
LEMMA ToDepotMoves ==
    ASSUME Placed, Covered, Apart, NEW t \in Threads, NEW m \in Mags, NEW k \in Kinds,
           Kind(t) = k, ToDepot(t, m, k)
    PROVE  /\ Placed' /\ Covered' /\ Apart'
           /\ \A n \in Mags : \A i \in Index : Occ(n, i)' <=> Occ(n, i)
  <1>1. m # NoOne /\ m \in Shells /\ k \in {"full", "empty"}
    BY MagazineConstants DEF ToDepot, Placed, Kinds
  <1>2. /\ \A c \in CPUs : CpuMags(c)' = CpuMags(c)
        /\ \A c \in CPUs : cc'[c].loaded = cc[c].loaded /\ cc'[c].ploaded = cc[c].ploaded
        /\ \A c \in CPUs : NoOne \notin CpuMags(c)
    BY DEF ToDepot, SameCpu, CpuMags
  <1>3. Shells' = Shells /\ doomed' = doomed /\ mag_type' = mag_type
    BY DEF ToDepot, Shells
  <1>4. /\ mag[t] = m /\ mag'[t] = NoOne
        /\ \A u \in Threads \ {t} : mag'[u] = mag[u] /\ mag[u] # m
        /\ \A u \in Threads : mag'[u] = NoOne \/ (mag'[u] = mag[u] /\ mag[u] # m)
    BY <1>1 DEF ToDepot, Apart
  <1>5. /\ \A x : x \in depot'[k].list <=> x \in depot[k].list \/ x = m
        /\ \A j \in Kinds \ {k} : depot'[j].list = depot[j].list
        /\ \A j \in Kinds : \A x : x \in depot'[j].list => x \in depot[j].list \/ x = m
        /\ \A j \in Kinds : m \notin depot[j].list
    <2>1. \A j \in Kinds : m \notin depot[j].list
      BY <1>1, <1>4 DEF Apart
    <2>2. \A j \in Kinds : depot'[j].list = IF j = k THEN depot[j].list \cup {m}
                                             ELSE depot[j].list
      BY DEF ToDepot
    <2> QED
      BY <2>1, <2>2
  <1>6. (\A c \in CPUs : m \notin CpuMags(c)) /\ \A d \in doomed : d.mag # m
    BY <1>1, <1>4 DEF Apart
  <1>7. Placed'
    BY <1>1, <1>2, <1>3, <1>4, <1>5, SMT DEF Placed
  <1>8. Covered'
    <2>1. \E j \in Kinds : m \in depot'[j].list
      BY <1>5
    <2>2. \A u \in Threads : mag[u] = m \/ mag'[u] = mag[u]
      BY <1>4
    <2>3. \A j \in Kinds : depot[j].list \subseteq depot'[j].list
      BY <1>5
    <2> QED
      BY <1>2, <1>3, <2>1, <2>2, <2>3, SMT DEF Covered
  <1>9. Apart'
    <2>1. \A c \in CPUs : cc'[c].loaded # NoOne => cc'[c].loaded # cc'[c].ploaded
      BY <1>2 DEF Apart
    <2>2. \A b, c \in CPUs : \A x \in Mags :
             x \in CpuMags(b)' /\ x \in CpuMags(c)' => b = c
      BY <1>2, SMT DEF Apart
    <2>3. \A x \in Mags : ~(x \in depot'["full"].list /\ x \in depot'["empty"].list)
      BY <1>1, <1>5 DEF Apart, Kinds
    <2>4. \A u, v \in Threads : mag'[u] # NoOne /\ mag'[u] = mag'[v] => u = v
      BY <1>4, SMT DEF Apart
    <2>5. \A d, e \in doomed' : d.mag = e.mag => d = e
      BY <1>3 DEF Apart
    <2>6. \A c \in CPUs : \A x \in CpuMags(c)' :
             /\ \A j \in Kinds : x \notin depot'[j].list
             /\ \A u \in Threads : mag'[u] # x
             /\ \A d \in doomed' : d.mag # x
      BY <1>2, <1>3, <1>4, <1>5, <1>6, SMT DEF Apart
    <2>7. \A u \in Threads : mag'[u] # NoOne =>
             /\ \A j \in Kinds : mag'[u] \notin depot'[j].list
             /\ \A d \in doomed' : d.mag # mag'[u]
      <3> TAKE u \in Threads
      <3> HAVE mag'[u] # NoOne
      <3>1. mag'[u] = mag[u] /\ mag[u] # m
        BY <1>4
      <3>2. /\ \A j \in Kinds : mag[u] \notin depot[j].list
            /\ \A d \in doomed : d.mag # mag[u]
        BY <3>1 DEF Apart
      <3> QED
        BY <1>3, <1>5, <3>1, <3>2
    <2>8. \A d \in doomed' : \A j \in Kinds : d.mag \notin depot'[j].list
      BY <1>3, <1>5, <1>6 DEF Apart
    <2> QED
      BY <2>1, <2>2, <2>3, <2>4, <2>5, <2>6, <2>7, <2>8 DEF Apart
  <1>10. ASSUME NEW n \in Mags, NEW i \in Index
         PROVE  Occ(n, i)' <=> Occ(n, i)
    <2>1. \A c \in CPUs : OccCpu(c, n, i)' <=> OccCpu(c, n, i)
      BY DEF ToDepot, SameCpu, OccCpu
    <2>2. \A x : Capacity(x)' = Capacity(x)
      BY <1>3 DEF Capacity
    <2>3. \A d \in doomed : DoomedRounds(d)' = DoomedRounds(d)
      BY <2>2 DEF DoomedRounds
    <2>4. \A u \in Threads \ {t} : Kind(u)' = Kind(u)
      BY DEF ToDepot, Kind
    <2>5. n # NoOne
      BY MagazineConstants
    <2>6. (\E u \in Threads : mag[u] = n /\ Kind(u) = "full" /\ i <= Capacity(n))
          <=> \/ n = m /\ k = "full" /\ i <= Capacity(n)
              \/ \E u \in Threads : mag'[u] = n /\ Kind(u)' = "full" /\ i <= Capacity(n)
      BY <1>4, <2>4, <2>5
    <2>7. n \in depot'["full"].list <=> n \in depot["full"].list \/ (n = m /\ k = "full")
      BY <1>1, <1>5 DEF Kinds
    <2> QED
      BY <1>3, <2>1, <2>2, <2>3, <2>6, <2>7 DEF Occ
  <1> QED
    BY <1>7, <1>8, <1>9, <1>10

\* The shell has the right size: it goes to the depot as an empty magazine, and
\* from then on it is counted.
LEMMA MagDonateInv ==
    ASSUME CardFacts, IInv, NEW t \in Threads, MagDonate(t), UNCHANGED config
    PROVE  IInv'
  <1>1. /\ Types2 /\ Hands(t) /\ Locked(t) /\ Home /\ Fresh /\ Placed /\ Covered /\ Apart
        /\ Tally /\ Drained /\ Job /\ \A c \in CPUs : CpuSound(c)
    BY DEF IInv
  <1>2. PICK m \in Mags : m = mag[t]
    BY <1>1 DEF MagDonate, Types2, TypeOK
  <1>3. /\ pc[t] = "relock" /\ CanLock(t, cpu[t]) /\ m # NoOne /\ ~SizeChanged(t)
        /\ mag_total' = mag_total + 1
        /\ mag_round' = [mag_round EXCEPT ![m] = NoRounds]
        /\ depot' = [depot EXCEPT !["empty"] = Pushed(@, m)]
        /\ cc' = [cc EXCEPT ![cpu[t]].lock = t]
        /\ mag' = [mag EXCEPT ![t] = NoOne] /\ pc' = [pc EXCEPT ![t] = "top"]
        /\ UNCHANGED <<cache_magtype, op, cpu, obj, mtp, mag_type, updateVars, bufferVars>>
    BY <1>2 DEF MagDonate, DepotFree
  <1>4. /\ op[t] = "free" /\ why # "destroy" /\ obj[t] # NoOne /\ cpu[t] \in config.cpus
        /\ mtp[t] \in Types /\ mag_type[m] = mtp[t] /\ cpu[t] \in CPUs
        /\ pc'[t] = "top" /\ mag'[t] = NoOne
    BY <1>1, <1>2, <1>3, InCall, Configs DEF Hands, Types2, TypeOK, CacheOps
  <1>5. /\ cc[cpu[t]].lock \in {NoOne, t} /\ cc'[cpu[t]].lock = t
        /\ \A c \in CPUs : SameCpu(c) /\ cc[c].lock # t
        /\ \A c \in CPUs \ {cpu[t]} : cc'[c] = cc[c]
    BY <1>1, <1>3, <1>4, SMT DEF CanLock, SameCpu, Types2, TypeOK, Locked, Locks
  <1>6. Others(t)
    BY <1>1, <1>3 DEF Others, Types2, TypeOK
  <1>7. cc[cpu[t]].magsize # 0 /\ Valid(m)
    <2>1. cc[cpu[t]].magsize = MAGSIZES[mtp[t]] /\ MAGSIZES[mtp[t]] # 0
      BY <1>3, <1>4, Sizes, SMT DEF SizeChanged
    <2>2. cc[cpu[t]].magsize \in {0, MAGSIZES[cache_magtype]} /\ cache_magtype \in Types
      BY <1>1, <1>4 DEF CpuSound, Types2, TypeOK
    <2> QED
      BY <1>4, <2>1, <2>2, Sizes DEF Valid
  <1>8. depot[ "empty"].list \subseteq Mags
        /\ depot'["empty"].list = depot["empty"].list \cup {m}
        /\ depot'["full"] = depot["full"]
        /\ depot' \in [Kinds -> [list : SUBSET Mags, min : 0..Cardinality(Mags),
                                 reaplimit : 0..Cardinality(Mags)]]
    BY <1>1, <1>3 DEF Types2, TypeOK, Kinds, Pushed
  <1>9. /\ mag_round'[m] = NoRounds
        /\ \A x \in Mags \ {m} : mag_round'[x] = mag_round[x]
        /\ mag_round' \in [Mags -> [1 .. MAXSIZE -> Bufs \cup {NoOne}]]
    <2>1. NoRounds \in [1 .. MAXSIZE -> Bufs \cup {NoOne}]
      BY DEF NoRounds
    <2> QED
      BY <1>1, <1>3, <2>1 DEF Types2, TypeOK
  <1>10. ToDepot(t, m, "empty") /\ Kind(t) = "empty"
    BY <1>2, <1>3, <1>4, <1>5, <1>6, <1>8 DEF ToDepot, Others, Kind, Kinds, updateVars
  <1>11. /\ Placed' /\ Covered' /\ Apart'
         /\ \A n \in Mags : \A i \in Index : Occ(n, i)' <=> Occ(n, i)
    BY <1>1, <1>10, ToDepotMoves DEF Kinds
  <1>12. SameSlots
    <2>1. \A i \in Index : ~Occ(m, i)
      BY <1>1, <1>2, <1>10, OccInHands
    <2> QED
      BY <1>9, <1>11, <2>1 DEF SameSlots
  <1>13. Home'
    BY <1>1, <1>3, <1>12, HomeStable DEF bufferVars
  <1>14. Tally' /\ mag_total' \in 0 .. Cardinality(Mags)
    <2>1. m \notin Counted
      BY <1>2, <1>3 DEF Counted
    <2>2. \A u \in Threads \ {t} : mag[u] # m
      BY <1>1, <1>2, <1>3 DEF Apart
    <2>3. mag_type[m] # 0
      BY <1>4, Sizes
    <2>4. Counted' = Counted \cup {m}
      <3>1. \A x \in Mags \ {m} : x \in Counted' <=> x \in Counted
        BY <1>2, <1>3, <1>4, <1>6, SMT DEF Counted, Others
      <3>2. m \in Counted'
        BY <1>3, <1>4, <1>6, <2>2, <2>3, SMT DEF Counted, Others
      <3>3. Counted' \subseteq Mags /\ Counted \subseteq Mags
        BY DEF Counted
      <3> QED
        BY <3>1, <3>2, <3>3
    <2>5. Counted \in SUBSET Mags /\ Counted' \in SUBSET Mags
      BY DEF Counted
    <2>6. Cardinality(Counted') = Cardinality(Counted) + 1
      BY <2>1, <2>4, <2>5 DEF CardFacts
    <2>7. Cardinality(Counted') \in 0 .. Cardinality(Mags)
      BY <2>5 DEF CardFacts
    <2> QED
      BY <1>1, <1>3, <2>6, <2>7 DEF Tally
  <1>15. Types2'
    <2>1. cc' \in [CPUs -> CpuRecords]
      BY <1>1, <1>3, <1>4, LockTaken
    <2> QED
      BY <1>1, <1>3, <1>8, <1>9, <1>14, <2>1
         DEF Types2, TypeOK, CpuRecords, PCs, updateVars, bufferVars
  <1>16. Hands(t)'
    BY <1>3, <1>4 DEF Hands, CacheOps
  <1>17. Locked(t)'
    BY <1>3, <1>4, <1>5 DEF Locked, Locks
  <1>18. OwnCpu(t) /\ OwnShell(t)
    BY <1>3, <1>5 DEF OwnCpu, OwnShell
  <1>19. \A c \in CPUs : CpuSound(c)'
    BY <1>1, <1>3, <1>5, CpuStable
  <1>20. Drained'
    BY <1>3, <1>4, <1>7, DepotOpen DEF updateVars, CacheOps
  <1>21. Fresh'
    <2>1. \A x : Valid(x)' <=> Valid(x)
      BY <1>3 DEF Valid
    <2> QED
      BY <1>1, <1>3, <1>4, <1>6, <1>7, <1>8, <2>1 DEF Fresh, updateVars, bufferVars, Others, Kinds
  <1> QED
    BY <1>3, <1>4, <1>5, <1>6, <1>11, <1>13, <1>14, <1>15, <1>16, <1>17, <1>18, <1>19,
       <1>20, <1>21, ThreadSuffices DEF SameCpu

\* The rseq layer puts the magazine back on the list it came from.
LEMMA RseqGiveBackInv ==
    ASSUME IInv, NEW t \in Threads, RseqGiveBack(t), UNCHANGED config
    PROVE  IInv'
  <1>1. /\ Types2 /\ Hands(t) /\ Locked(t) /\ Home /\ Fresh /\ Placed /\ Covered /\ Apart
        /\ Tally /\ Drained /\ Job /\ \A c \in CPUs : CpuSound(c)
    BY DEF IInv
  <1>2. /\ pc[t] \in {"get", "got"} /\ op[t] \in {"rseq_alloc", "rseq_free"}
        /\ DepotFree(Kind(t), mag[t]) /\ Finish(t)
        /\ UNCHANGED <<cc, cache_magtype, updateVars, bufferVars, shellVars>>
    BY DEF RseqGiveBack
  <1>3. /\ config.rseq /\ why # "destroy" /\ obj[t] = NoOne /\ Kind(t) \in Kinds
        /\ pc[t] = "get" => mag[t] = NoOne
        /\ pc[t] = "got" => mag[t] \in Mags
    BY <1>1, <1>2, InCall DEF Hands, Types2, TypeOK, Kind, Kinds
  <1>4. \A c \in CPUs : cc'[c].lock # t
    BY <1>1, <1>2 DEF Locked, Locks, CacheOps
  <1>5. /\ Others(t) /\ Hands(t)' /\ Locked(t)'
        /\ pc'[t] = "idle" /\ op'[t] = "none" /\ obj'[t] = NoOne /\ mag'[t] = NoOne
        /\ pc' \in [Threads -> PCs]
        /\ op' \in [Threads -> {"none", "alloc", "free", "rseq_alloc", "rseq_free"}]
        /\ cpu' \in [Threads -> CPUs \cup {NoOne}]
        /\ mtp' \in [Threads -> {0} \cup Types]
        /\ obj' \in [Threads -> Bufs \cup {NoOne}]
        /\ mag' \in [Threads -> Mags \cup {NoOne}]
    BY <1>1, <1>2, <1>4, Finished
  <1>6. obj' = obj
    BY <1>1, <1>2, <1>3 DEF Finish, Types2, TypeOK
  <1>7. /\ mag_type' = mag_type /\ mag_round' = mag_round /\ mag_total' = mag_total
        /\ doomed' = doomed /\ upd' = upd /\ why' = why /\ to_purge' = to_purge
        /\ slab' = slab /\ constructed' = constructed /\ held' = held
    BY <1>2 DEF shellVars, updateVars, bufferVars
  <1>8. /\ Placed' /\ Covered' /\ Apart'
        /\ \A n \in Mags : \A i \in Index : Occ(n, i)' <=> Occ(n, i)
        /\ depot' \in [Kinds -> [list : SUBSET Mags, min : 0..Cardinality(Mags),
                                 reaplimit : 0..Cardinality(Mags)]]
    <2>1. CASE pc[t] = "get"
      <3>1. depot' = depot /\ mag[t] = NoOne
        BY <1>2, <1>3, <2>1 DEF DepotFree
      <3>2. mag' = mag
        BY <1>1, <1>2, <3>1 DEF Finish, Types2, TypeOK
      <3>3. StillShells
        BY <1>2, <1>7, <3>1, <3>2 DEF StillShells, SameCpu
      <3>4. \A u \in Threads : mag[u] # NoOne => op'[u] = op[u]
        BY <1>5, <3>1 DEF Others
      <3> QED
        BY <1>1, <3>1, <3>3, <3>4, ShellsStable, OccStable DEF Types2, TypeOK
    <2>2. CASE pc[t] = "got"
      <3>1. PICK m \in Mags : m = mag[t]
        BY <1>3, <2>2
      <3>2. PICK k \in Kinds : k = Kind(t)
        BY <1>3
      <3>3. depot' = [depot EXCEPT ![k] = Pushed(@, m)] /\ m # NoOne
        BY <1>2, <3>1, <3>2, MagazineConstants DEF DepotFree
      <3>4. /\ depot'[k].list = depot[k].list \cup {m}
            /\ \A j \in Kinds \ {k} : depot'[j] = depot[j]
            /\ depot' \in [Kinds -> [list : SUBSET Mags, min : 0..Cardinality(Mags),
                                     reaplimit : 0..Cardinality(Mags)]]
        <4>1. depot \in [Kinds -> [list : SUBSET Mags, min : 0..Cardinality(Mags),
                                   reaplimit : 0..Cardinality(Mags)]]
          BY <1>1 DEF Types2, TypeOK
        <4>2. depot[k] \in [list : SUBSET Mags, min : 0..Cardinality(Mags),
                            reaplimit : 0..Cardinality(Mags)]
          BY <4>1
        <4>3. PICK d : d = Pushed(depot[k], m)
          OBVIOUS
        <4>4. /\ d \in [list : SUBSET Mags, min : 0..Cardinality(Mags),
                        reaplimit : 0..Cardinality(Mags)]
              /\ d.list = depot[k].list \cup {m}
          BY <4>2, <4>3 DEF Pushed
        <4>5. depot' = [depot EXCEPT ![k] = d]
          BY <3>3, <4>3
        <4> QED
          BY <4>1, <4>4, <4>5
      <3>5. ToDepot(t, m, k)
        BY <1>2, <1>5, <1>7, <3>1, <3>4 DEF ToDepot, Others, SameCpu
      <3> QED
        BY <1>1, <3>2, <3>4, <3>5, ToDepotMoves
    <2> QED
      BY <1>2, <2>1, <2>2
  <1>9. Home'
    BY <1>1, <1>6, <1>7, <1>8, HomeStable DEF SameSlots
  <1>10. Types2'
    BY <1>1, <1>2, <1>5, <1>7, <1>8 DEF Types2, TypeOK
  <1>11. OwnCpu(t) /\ OwnShell(t)
    BY <1>2, <1>7 DEF OwnCpu, OwnShell
  <1>12. \A c \in CPUs : CpuSound(c)'
    BY <1>1, <1>2, <1>7, CpuStable DEF SameCpu
  <1>13. Tally'
    <2>1. Counted' = Counted
      BY <1>2, <1>5, <1>7, SMT DEF Counted, Others
    <2> QED
      BY <1>1, <1>7, <2>1 DEF Tally
  <1>14. Drained'
    BY <1>2, <1>7, DepotOpen
  <1>15. Fresh'
    BY <1>3 DEF Fresh
  <1> QED
    BY <1>2, <1>3, <1>5, <1>7, <1>8, <1>9, <1>10, <1>11, <1>12, <1>13, <1>14, <1>15,
       ThreadSuffices

\* A thread that has none takes magazine m from depot list k.
FromDepot(t, m, k) ==
    /\ mag[t] = NoOne /\ mag'[t] = m /\ m \in depot[k].list
    /\ \A u \in Threads \ {t} : mag'[u] = mag[u]
    /\ \A c \in CPUs : SameCpu(c)
    /\ \A j \in Kinds : depot'[j].list = IF j = k THEN depot[j].list \ {m}
                                         ELSE depot[j].list
    /\ UNCHANGED <<doomed, mag_type, op>>

\* It is in one place before and after, and counts for the same slots.
LEMMA FromDepotMoves ==
    ASSUME Placed, Covered, Apart, NEW t \in Threads, NEW m \in Mags, NEW k \in Kinds,
           Kind(t) = k, FromDepot(t, m, k)
    PROVE  /\ Placed' /\ Covered' /\ Apart'
           /\ \A n \in Mags : \A i \in Index : Occ(n, i)' <=> Occ(n, i)
  <1>1. m # NoOne /\ m \in Shells /\ k \in {"full", "empty"} /\ m \in depot[k].list
    BY MagazineConstants DEF FromDepot, Placed, Kinds
  <1>2. /\ \A c \in CPUs : CpuMags(c)' = CpuMags(c)
        /\ \A c \in CPUs : cc'[c].loaded = cc[c].loaded /\ cc'[c].ploaded = cc[c].ploaded
        /\ \A c \in CPUs : NoOne \notin CpuMags(c)
    BY DEF FromDepot, SameCpu, CpuMags
  <1>3. Shells' = Shells /\ doomed' = doomed /\ mag_type' = mag_type
    BY DEF FromDepot, Shells
  <1>4. /\ mag[t] = NoOne /\ mag'[t] = m
        /\ \A u \in Threads \ {t} : mag'[u] = mag[u]
        /\ \A u \in Threads : mag[u] # m
    <2>1. \A u \in Threads : mag[u] # m
      BY <1>1, SMT DEF Apart
    <2> QED
      BY <2>1 DEF FromDepot
  <1>5. /\ \A x : x \in depot'[k].list <=> x \in depot[k].list /\ x # m
        /\ \A j \in Kinds \ {k} : depot'[j].list = depot[j].list
        /\ \A j \in Kinds : depot'[j].list \subseteq depot[j].list
        /\ \A j \in Kinds : m \notin depot'[j].list
    <2>1. \A j \in Kinds \ {k} : m \notin depot[j].list
      BY <1>1 DEF Apart, Kinds
    <2>2. \A j \in Kinds : depot'[j].list = IF j = k THEN depot[j].list \ {m}
                                             ELSE depot[j].list
      BY DEF FromDepot
    <2> QED
      BY <2>1, <2>2
  <1>6. (\A c \in CPUs : m \notin CpuMags(c)) /\ \A d \in doomed : d.mag # m
    BY <1>1, SMT DEF Apart
  <1>7. Placed'
    BY <1>1, <1>2, <1>3, <1>4, <1>5, SMT DEF Placed
  <1>8. Covered'
    <2>1. \A u \in Threads : mag[u] = NoOne \/ mag'[u] = mag[u]
      BY <1>4
    <2>2. \A j \in Kinds : \A x : x \in depot[j].list => x = m \/ x \in depot'[j].list
      BY <1>5
    <2>3. NoOne \notin Shells
      BY MagazineConstants DEF Shells
    <2> QED
      BY <1>2, <1>3, <1>4, <2>1, <2>2, <2>3, SMT DEF Covered
  <1>9. Apart'
    <2>1. \A c \in CPUs : cc'[c].loaded # NoOne => cc'[c].loaded # cc'[c].ploaded
      BY <1>2 DEF Apart
    <2>2. \A b, c \in CPUs : \A x \in Mags :
             x \in CpuMags(b)' /\ x \in CpuMags(c)' => b = c
      BY <1>2, SMT DEF Apart
    <2>3. \A x \in Mags : ~(x \in depot'["full"].list /\ x \in depot'["empty"].list)
      BY <1>5 DEF Apart, Kinds
    <2>4. \A u, v \in Threads : mag'[u] # NoOne /\ mag'[u] = mag'[v] => u = v
      BY <1>4, SMT DEF Apart
    <2>5. \A d, e \in doomed' : d.mag = e.mag => d = e
      BY <1>3 DEF Apart
    <2>6. \A c \in CPUs : \A x \in CpuMags(c)' :
             /\ \A j \in Kinds : x \notin depot'[j].list
             /\ \A u \in Threads : mag'[u] # x
             /\ \A d \in doomed' : d.mag # x
      <3> TAKE c \in CPUs
      <3> TAKE x \in CpuMags(c)'
      <3>1. x \in CpuMags(c) /\ x # m
        BY <1>2, <1>6
      <3>2. /\ \A j \in Kinds : x \notin depot[j].list
            /\ \A u \in Threads : mag[u] # x
            /\ \A d \in doomed : d.mag # x
        BY <3>1 DEF Apart
      <3>3. \A u \in Threads : mag'[u] = m \/ mag'[u] = mag[u]
        BY <1>4
      <3> QED
        BY <1>3, <1>5, <3>1, <3>2, <3>3
    <2>7. \A u \in Threads : mag'[u] # NoOne =>
             /\ \A j \in Kinds : mag'[u] \notin depot'[j].list
             /\ \A d \in doomed' : d.mag # mag'[u]
      <3> TAKE u \in Threads
      <3> HAVE mag'[u] # NoOne
      <3>1. CASE u = t
        BY <1>3, <1>4, <1>5, <1>6, <3>1
      <3>2. CASE u # t
        <4>1. mag'[u] = mag[u]
          BY <1>4, <3>2
        <4>2. /\ \A j \in Kinds : mag[u] \notin depot[j].list
              /\ \A d \in doomed : d.mag # mag[u]
          BY <4>1 DEF Apart
        <4> QED
          BY <1>3, <1>5, <4>1, <4>2
      <3> QED
        BY <3>1, <3>2
    <2>8. \A d \in doomed' : \A j \in Kinds : d.mag \notin depot'[j].list
      BY <1>3, <1>5 DEF Apart
    <2> QED
      BY <2>1, <2>2, <2>3, <2>4, <2>5, <2>6, <2>7, <2>8 DEF Apart
  <1>10. ASSUME NEW n \in Mags, NEW i \in Index
         PROVE  Occ(n, i)' <=> Occ(n, i)
    <2>1. \A c \in CPUs : OccCpu(c, n, i)' <=> OccCpu(c, n, i)
      BY DEF FromDepot, SameCpu, OccCpu
    <2>2. \A x : Capacity(x)' = Capacity(x)
      BY <1>3 DEF Capacity
    <2>3. \A d \in doomed : DoomedRounds(d)' = DoomedRounds(d)
      BY <2>2 DEF DoomedRounds
    <2>4. \A u \in Threads : Kind(u)' = Kind(u)
      BY DEF FromDepot, Kind
    <2>5. n # NoOne
      BY MagazineConstants
    <2>6. (\E u \in Threads : mag'[u] = n /\ Kind(u)' = "full" /\ i <= Capacity(n))
          <=> \/ n = m /\ k = "full" /\ i <= Capacity(n)
              \/ \E u \in Threads : mag[u] = n /\ Kind(u) = "full" /\ i <= Capacity(n)
      BY <1>4, <2>4, <2>5
    <2>7. n \in depot["full"].list <=> n \in depot'["full"].list \/ (n = m /\ k = "full")
      BY <1>1, <1>5 DEF Kinds
    <2> QED
      BY <1>3, <2>1, <2>2, <2>3, <2>6, <2>7 DEF Occ
  <1> QED
    BY <1>7, <1>8, <1>9, <1>10

\* umem_depot_alloc pops a magazine.
LEMMA DepotPopInv ==
    ASSUME CardFacts, IInv, NEW t \in Threads, DepotPop(t), UNCHANGED config
    PROVE  IInv'
  <1>1. /\ Types2 /\ Hands(t) /\ Locked(t) /\ Home /\ Fresh /\ Placed /\ Covered /\ Apart
        /\ Tally /\ Drained /\ Job /\ \A c \in CPUs : CpuSound(c)
    BY DEF IInv
  <1>2. PICK k \in Kinds : k = Kind(t)
    BY DEF Kind, Kinds
  <1>3. PICK m \in depot[k].list :
           /\ depot' = [depot EXCEPT ![k] = Popped(@, m)]
           /\ mag' = [mag EXCEPT ![t] = m]
           /\ pc' = [pc EXCEPT ![t] = IF Valid(m) THEN "got" ELSE "stale"]
    BY <1>2 DEF DepotPop
  <1>4. /\ pc[t] = "get"
        /\ UNCHANGED <<cc, cache_magtype, op, cpu, obj, mtp, updateVars, bufferVars,
                       shellVars>>
    BY DEF DepotPop
  <1>5. /\ mag_type' = mag_type /\ mag_round' = mag_round /\ mag_total' = mag_total
        /\ doomed' = doomed /\ upd' = upd /\ why' = why /\ to_purge' = to_purge
        /\ slab' = slab /\ constructed' = constructed /\ held' = held
    BY <1>4 DEF shellVars, updateVars, bufferVars
  <1>6. /\ m \in Mags /\ m # NoOne /\ mag[t] = NoOne /\ mag'[t] = m /\ why # "destroy"
        /\ pc'[t] = IF Valid(m) THEN "got" ELSE "stale"
        /\ Others(t)
    <2>1. why # "destroy" /\ mag[t] = NoOne
      BY <1>1, <1>4, InCall DEF Hands
    <2>2. /\ pc \in [Threads -> PCs] /\ mag \in [Threads -> Mags \cup {NoOne}]
          /\ depot[k].list \subseteq Mags
      BY <1>1 DEF Types2, TypeOK
    <2>3. m \in Mags /\ m # NoOne
      BY <2>2, MagazineConstants
    <2>4. /\ mag'[t] = m /\ \A u \in Threads \ {t} : mag'[u] = mag[u]
          /\ pc'[t] = IF Valid(m) THEN "got" ELSE "stale"
          /\ \A u \in Threads \ {t} : pc'[u] = pc[u]
      BY <1>3, <2>2
    <2>5. Others(t)
      BY <1>4, <2>4 DEF Others
    <2> QED
      BY <2>1, <2>3, <2>4, <2>5
  <1>7. /\ depot'[k].list = depot[k].list \ {m}
        /\ \A j \in Kinds \ {k} : depot'[j] = depot[j]
        /\ depot' \in [Kinds -> [list : SUBSET Mags, min : 0..Cardinality(Mags),
                                 reaplimit : 0..Cardinality(Mags)]]
    <2> DEFINE n == Cardinality(depot[k].list)
    <2>1. depot[k] \in [list : SUBSET Mags, min : 0..Cardinality(Mags),
                        reaplimit : 0..Cardinality(Mags)]
      BY <1>1 DEF Types2, TypeOK
    <2>2. depot[k].list \in SUBSET Mags /\ n \in 0 .. Cardinality(Mags)
      BY <2>1 DEF CardFacts
    <2>3. n # 0
      BY <1>3, <2>2 DEF CardFacts
    <2>4. n - 1 \in 0 .. Cardinality(Mags) /\ n - 1 \in Int
      <3>1. Cardinality(Mags) \in Nat
        BY DEF CardFacts
      <3> HIDE DEF n
      <3> QED
        BY <2>2, <2>3, <3>1, SMT
    <2>5. depot[k].min \in 0 .. Cardinality(Mags) /\ depot[k].min \in Int
      BY <2>1, SMT
    <2>6. Min({depot[k].min, n - 1}) \in 0 .. Cardinality(Mags)
      BY <2>4, <2>5, MinTwo
    <2>7. Popped(depot[k], m) \in [list : SUBSET Mags, min : 0..Cardinality(Mags),
                                   reaplimit : 0..Cardinality(Mags)]
      BY <2>1, <2>6 DEF Popped
    <2>8. Popped(depot[k], m).list = depot[k].list \ {m}
      BY <2>1 DEF Popped
    <2> QED
      BY <1>1, <1>3, <2>7, <2>8 DEF Types2, TypeOK
  <1>8. FromDepot(t, m, k)
    BY <1>3, <1>4, <1>5, <1>6, <1>7 DEF FromDepot, Others, SameCpu
  <1>9. /\ Placed' /\ Covered' /\ Apart'
        /\ \A n \in Mags : \A i \in Index : Occ(n, i)' <=> Occ(n, i)
    BY <1>1, <1>2, <1>6, <1>8, FromDepotMoves
  <1>10. Home'
    BY <1>1, <1>4, <1>5, <1>9, HomeStable DEF SameSlots
  <1>11. Types2'
    BY <1>1, <1>3, <1>4, <1>5, <1>6, <1>7 DEF Types2, TypeOK, PCs
  <1>12. Hands(t)'
    BY <1>1, <1>4, <1>6 DEF Hands
  <1>13. Locked(t)'
    BY <1>1, <1>4, <1>5, <1>6 DEF Locked, Locks, Serves, Valid
  <1>14. OwnCpu(t) /\ OwnShell(t)
    BY <1>4, <1>5 DEF OwnCpu, OwnShell
  <1>15. \A c \in CPUs : CpuSound(c)'
    BY <1>1, <1>4, <1>5, CpuStable DEF SameCpu
  <1>16. Tally'
    <2>1. Counted' = Counted
      BY <1>4, <1>5, <1>6 DEF Counted, Others
    <2> QED
      BY <1>1, <1>5, <2>1 DEF Tally
  <1>17. Drained'
    BY <1>1, <1>4, <1>5, DepotOpen DEF Hands, Types2, Locks, CacheOps
  <1>18. Fresh'
    <2>1. \A x : Valid(x)' <=> Valid(x)
      BY <1>4, <1>5 DEF Valid
    <2>2. \A j \in Kinds : depot'[j].list \subseteq depot[j].list
      BY <1>7
    <2>3. ~config.rseq => Valid(m)
      BY <1>1, <1>3 DEF Fresh
    <2>4. ~config.rseq => \A u \in Threads : pc'[u] # "stale"
      BY <1>1, <1>6, <2>3 DEF Fresh, Others
    <2> QED
      BY <1>1, <1>5, <2>1, <2>2, <2>4 DEF Fresh
  <1> QED
    BY <1>4, <1>5, <1>6, <1>9, <1>10, <1>11, <1>12, <1>13, <1>14, <1>15, <1>16, <1>17,
       <1>18, ThreadSuffices

\* A step in which a thread with no magazine in its hands only takes or drops a
\* CPU's lock.
LEMMA LockSuffices ==
    ASSUME IInv, NEW t \in Threads, Others(t), why # "destroy", mag[t] = NoOne,
           OwnCpu(t), \A c \in CPUs : SameCpu(c),
           UNCHANGED <<config, depot, cache_magtype, updateVars, bufferVars, shellVars,
                       op, cpu, obj, mag>>,
           cc' \in [CPUs -> CpuRecords], pc' \in [Threads -> PCs],
           mtp' \in [Threads -> {0} \cup Types],
           Hands(t)', Locked(t)', pc'[t] # "stale"
    PROVE  IInv'
  <1>1. /\ Types2 /\ Placed /\ Covered /\ Apart /\ Tally /\ Job /\ Drained /\ Fresh /\ Home
        /\ \A u \in Threads : Hands(u)
        /\ \A c \in CPUs : CpuSound(c)
    BY DEF IInv
  <1>2. /\ mag_type' = mag_type /\ mag_round' = mag_round /\ mag_total' = mag_total
        /\ doomed' = doomed /\ upd' = upd /\ why' = why /\ to_purge' = to_purge
        /\ slab' = slab /\ constructed' = constructed /\ held' = held
    BY DEF shellVars, updateVars, bufferVars
  <1>3. StillShells
    BY <1>2 DEF StillShells
  <1>4. Placed' /\ Covered' /\ Apart'
    BY <1>1, <1>3, ShellsStable
  <1>5. Home'
    <2>1. SameSlots
      BY <1>2, <1>3, OccStable DEF SameSlots
    <2> QED
      BY <1>1, <1>2, <2>1, HomeStable
  <1>6. Types2'
    BY <1>1, <1>2 DEF Types2, TypeOK, CpuRecords
  <1>7. OwnShell(t)
    BY <1>2 DEF OwnShell
  <1>8. \A c \in CPUs : CpuSound(c)'
    BY <1>1, <1>2, CpuStable
  <1>9. Tally'
    <2>1. \A u \in Threads : \A m \in Mags :
             (pc'[u] = "relock" => mag'[u] # m) <=> (pc[u] = "relock" => mag[u] # m)
      <3> TAKE u \in Threads
      <3> TAKE m \in Mags
      <3>1. CASE u = t
        BY <3>1, MagazineConstants
      <3>2. CASE u # t
        BY <3>2 DEF Others
      <3> QED
        BY <3>1, <3>2
    <2>2. Counted' = Counted
      BY <1>2, <2>1 DEF Counted
    <2> QED
      BY <1>1, <1>2, <2>2 DEF Tally
  <1>10. Drained'
    BY <1>1, <1>2, DrainedStable
  <1>11. Fresh'
    <2>1. \A u \in Threads : pc[u] # "stale" => pc'[u] # "stale"
      BY DEF Others
    <2>2. \A m : Valid(m)' <=> Valid(m)
      BY <1>2 DEF Valid
    <2> QED
      BY <1>1, <1>2, <2>1, <2>2 DEF Fresh
  <1> QED
    BY <1>2, <1>4, <1>5, <1>6, <1>7, <1>8, <1>9, <1>10, <1>11, ThreadSuffices DEF SameCpu

\* Dropping cc_lock, wherever the thread has it.
LEMMA UnlockedCpus ==
    ASSUME Types2, NEW t \in Threads, cc' = Unlocked(t)
    PROVE  /\ OwnCpu(t) /\ cc' \in [CPUs -> CpuRecords]
           /\ \A c \in CPUs : SameCpu(c) /\ cc'[c].lock # t
  <1>1. cc \in [CPUs -> CpuRecords] /\ NoOne # t
    BY MagazineConstants DEF Types2, TypeOK, CpuRecords
  <1>2. \A c \in CPUs : cc'[c] = IF cc[c].lock = t THEN [cc[c] EXCEPT !.lock = NoOne] ELSE cc[c]
    BY DEF Unlocked
  <1>3. \A c \in CPUs : cc'[c] \in CpuRecords /\ SameCpu(c) /\ cc'[c].lock # t
    <2> TAKE c \in CPUs
    <2>1. cc[c] \in CpuRecords
      BY <1>1
    <2> QED
      BY <1>1, <1>2, <2>1 DEF CpuRecords, SameCpu
  <1>4. cc' \in [CPUs -> CpuRecords]
    BY <1>3 DEF Unlocked
  <1>5. OwnCpu(t)
    <2> SUFFICES ASSUME NEW c \in CPUs, cc[c].lock = t, cc'[c].lock \notin {NoOne, t}
                 PROVE  FALSE
      BY <1>2 DEF OwnCpu
    <2>1. cc[c] \in CpuRecords /\ cc'[c] = [cc[c] EXCEPT !.lock = NoOne]
      BY <1>1, <1>2
    <2> QED
      BY <2>1 DEF CpuRecords
  <1> QED
    BY <1>3, <1>4, <1>5

\* The depot has nothing: the lock is dropped, and the call goes to the slab
\* layer or allocates a shell.
LEMMA DepotNoneInv ==
    ASSUME IInv, NEW t \in Threads, DepotNone(t), UNCHANGED config
    PROVE  IInv'
  <1>1. Types2 /\ Hands(t) /\ Locked(t)
    BY DEF IInv
  <1>2. /\ pc[t] = "get" /\ op[t] \in {"alloc", "free"}
        /\ pc' = [pc EXCEPT ![t] = IF op[t] = "alloc" THEN "slab_alloc" ELSE "mag_alloc"]
        /\ mtp' = IF op[t] = "free" THEN [mtp EXCEPT ![t] = cache_magtype] ELSE mtp
        /\ cc' = Unlocked(t)
        /\ UNCHANGED <<depot, cache_magtype, op, cpu, obj, mag, updateVars, bufferVars,
                       shellVars>>
    BY DEF DepotNone
  <1>3. /\ OwnCpu(t) /\ cc' \in [CPUs -> CpuRecords]
        /\ \A c \in CPUs : SameCpu(c) /\ cc'[c].lock # t
    BY <1>1, <1>2, UnlockedCpus
  <1>4. mag[t] = NoOne /\ why # "destroy" /\ cache_magtype \in Types
    BY <1>1, <1>2, InCall DEF Hands, Types2, TypeOK
  <1>5. /\ Others(t) /\ pc'[t] = IF op[t] = "alloc" THEN "slab_alloc" ELSE "mag_alloc"
        /\ op[t] = "free" => mtp'[t] = cache_magtype
        /\ pc' \in [Threads -> PCs] /\ mtp' \in [Threads -> {0} \cup Types]
    BY <1>1, <1>2, <1>4 DEF Others, Types2, TypeOK, PCs
  <1>6. Hands(t)'
    BY <1>1, <1>2, <1>4, <1>5 DEF Hands, CacheOps
  <1>7. Locked(t)'
    BY <1>3, <1>5 DEF Locked, Locks
  <1> QED
    BY <1>2, <1>3, <1>4, <1>5, <1>6, <1>7, LockSuffices

\* Neither magazine of the CPU serves.
LEMMA MissInv ==
    ASSUME IInv, NEW t \in Threads, Miss(t), UNCHANGED config
    PROVE  IInv'
  <1>1. Types2 /\ Hands(t) /\ Locked(t)
    BY DEF IInv
  <1>2. /\ pc[t] = "top" /\ CanLock(t, cpu[t]) /\ ~Serves(t, cc[cpu[t]])
        /\ UNCHANGED <<depot, cache_magtype, op, cpu, obj, mag, mtp, updateVars,
                       bufferVars, shellVars>>
    BY DEF Miss
  <1>3. /\ op[t] \in CacheOps /\ mag[t] = NoOne /\ why # "destroy" /\ cpu[t] \in CPUs
        /\ mtp' \in [Threads -> {0} \cup Types]
    BY <1>1, <1>2, InCall, Configs DEF Hands, Types2, TypeOK
  <1>4. CASE cc[cpu[t]].magsize = 0
    <2>1. /\ cc' = Unlocked(t)
          /\ pc' = [pc EXCEPT ![t] = IF op[t] = "alloc" THEN "slab_alloc" ELSE "slab_free"]
      BY <1>4 DEF Miss
    <2>2. /\ OwnCpu(t) /\ cc' \in [CPUs -> CpuRecords]
          /\ \A c \in CPUs : SameCpu(c) /\ cc'[c].lock # t
      BY <1>1, <2>1, UnlockedCpus
    <2>3. /\ Others(t) /\ pc'[t] = IF op[t] = "alloc" THEN "slab_alloc" ELSE "slab_free"
          /\ pc' \in [Threads -> PCs]
      BY <1>1, <1>2, <2>1 DEF Others, Types2, PCs
    <2>4. Hands(t)'
      BY <1>1, <1>2, <1>3, <2>3 DEF Hands, CacheOps
    <2>5. Locked(t)'
      BY <2>2, <2>3 DEF Locked, Locks
    <2> QED
      BY <1>2, <1>3, <2>2, <2>3, <2>4, <2>5, LockSuffices
  <1>5. CASE cc[cpu[t]].magsize # 0
    <2>1. cc' = [cc EXCEPT ![cpu[t]].lock = t] /\ pc' = [pc EXCEPT ![t] = "get"]
      BY <1>5 DEF Miss
    <2>2. Others(t) /\ pc'[t] = "get" /\ pc' \in [Threads -> PCs]
      BY <1>1, <1>2, <2>1 DEF Others, Types2, PCs
    <2>3. cc' \in [CPUs -> CpuRecords]
      BY <1>1, <1>3, <2>1, LockTaken
    <2>4. /\ cc[cpu[t]].lock \in {NoOne, t} /\ cc'[cpu[t]].lock = t
          /\ \A c \in CPUs : SameCpu(c)
          /\ \A c \in CPUs \ {cpu[t]} : cc'[c] = cc[c]
      BY <1>1, <1>2, <1>3, <2>1, SMT DEF CanLock, SameCpu, Types2, TypeOK
    <2>5. OwnCpu(t)
      BY <2>4 DEF OwnCpu
    <2>6. Hands(t)'
      BY <1>1, <1>2, <1>3, <2>2 DEF Hands, CacheOps
    <2>7. Locked(t)'
      <3>1. cc'[cpu[t]].magsize > 0
        <4>1. cc[cpu[t]].magsize \in {0} \cup {MAGSIZES[i] : i \in Types}
          BY <1>1, <1>3 DEF Types2, TypeOK
        <4>2. cc[cpu[t]].magsize > 0
          BY <1>5, <4>1, Sizes, SMT
        <4> QED
          BY <1>3, <2>4, <4>2 DEF SameCpu
      <3>2. ~Serves(t, cc[cpu[t]])'
        BY <1>2, <1>3, <2>4 DEF Serves, SameCpu
      <3>3. \A c \in CPUs : cc'[c].lock = t => c = cpu[t]
        BY <1>1, <2>4 DEF Locked
      <3> QED
        BY <1>2, <1>3, <2>2, <2>4, <3>1, <3>2, <3>3 DEF Locked, Locks
    <2> QED
      BY <1>2, <1>3, <2>2, <2>3, <2>4, <2>5, <2>6, <2>7, LockSuffices
  <1> QED
    BY <1>4, <1>5

\* Shell m, in the hands of a thread or of the update thread, is freed.
ShellGone(m) ==
    /\ m \in Shells /\ Shells' = Shells \ {m}
    /\ \A x \in Mags \ {m} : mag_type'[x] = mag_type[x]
    /\ \A c \in CPUs : m \notin CpuMags(c) /\ SameCpu(c)
    /\ \A k \in Kinds : m \notin depot[k].list /\ depot'[k].list = depot[k].list
    /\ \A u \in Threads : /\ mag'[u] = IF mag[u] = m THEN NoOne ELSE mag[u]
                          /\ op'[u] = op[u]
    /\ doomed' = {d \in doomed : d.mag # m}

\* The other shells stay where they are, with the slots they count for.
LEMMA ShellGoneMoves ==
    ASSUME Placed, Covered, Apart, NEW m \in Mags, ShellGone(m)
    PROVE  /\ Placed' /\ Covered' /\ Apart'
           /\ \A n \in Mags \ {m} : \A i \in Index : Occ(n, i)' <=> Occ(n, i)
           /\ \A i \in Index : ~Occ(m, i)'
  <1>1. /\ m \in Shells /\ Shells' = Shells \ {m} /\ Shells \subseteq Mags
        /\ \A x \in Mags \ {m} : mag_type'[x] = mag_type[x]
        /\ \A k \in Kinds : m \notin depot[k].list /\ depot'[k].list = depot[k].list
        /\ doomed' = {d \in doomed : d.mag # m}
    BY DEF ShellGone, Shells
  <1>2. /\ \A c \in CPUs : CpuMags(c)' = CpuMags(c) /\ m \notin CpuMags(c)
        /\ \A c \in CPUs : cc'[c].loaded = cc[c].loaded /\ cc'[c].ploaded = cc[c].ploaded
    BY DEF ShellGone, SameCpu, CpuMags
  <1>3. \A u \in Threads : /\ mag'[u] = IF mag[u] = m THEN NoOne ELSE mag[u]
                           /\ Kind(u)' = Kind(u)
    BY DEF ShellGone, Kind
  <1>4. m # NoOne
    BY MagazineConstants
  <1>5. Placed'
    <2>1. \A u \in Threads : mag'[u] # NoOne => mag'[u] \in Shells \ {m}
      BY <1>3 DEF Placed
    <2>2. \A d \in doomed' : d.mag \in Shells \ {m}
      BY <1>1 DEF Placed
    <2> QED
      BY <1>1, <1>2, <2>1, <2>2 DEF Placed
  <1>6. Covered'
    <2>1. \A x : x # m => \A u \in Threads : mag[u] = x => mag'[u] = x
      BY <1>3
    <2>2. \A d \in doomed : d.mag # m => d \in doomed'
      BY <1>1
    <2> QED
      <3> SUFFICES ASSUME NEW x \in Shells'
                   PROVE  \/ \E c \in CPUs : x \in CpuMags(c)'
                          \/ \E k \in Kinds : x \in depot'[k].list
                          \/ \E u \in Threads : mag'[u] = x
                          \/ \E d \in doomed' : d.mag = x
        BY DEF Covered
      <3>1. x \in Shells /\ x # m
        BY <1>1
      <3>2. \/ \E c \in CPUs : x \in CpuMags(c)
            \/ \E k \in Kinds : x \in depot[k].list
            \/ \E u \in Threads : mag[u] = x
            \/ \E d \in doomed : d.mag = x
        BY <3>1 DEF Covered
      <3> QED
        BY <1>1, <1>2, <2>1, <2>2, <3>1, <3>2
  <1>7. Apart'
    <2>1. \A u \in Threads : mag'[u] = NoOne \/ mag'[u] = mag[u]
      BY <1>3
    <2>2. doomed' \subseteq doomed /\ \A k \in Kinds : depot'[k].list \subseteq depot[k].list
      BY <1>1
    <2> QED
      BY <1>2, <2>1, <2>2, ApartLess
  <1>8. ASSUME NEW n \in Mags \ {m}, NEW i \in Index
        PROVE  Occ(n, i)' <=> Occ(n, i)
    <2>1. \A c \in CPUs : OccCpu(c, n, i)' <=> OccCpu(c, n, i)
      BY DEF ShellGone, SameCpu, OccCpu
    <2>2. Capacity(n)' = Capacity(n)
      BY <1>1 DEF Capacity
    <2>3. \A d \in doomed : d.mag = n =>
             d \in doomed' /\ DoomedRounds(d)' = DoomedRounds(d)
      BY <1>1, <2>2 DEF DoomedRounds, Capacity
    <2>4. \A u \in Threads : mag'[u] = n <=> mag[u] = n
      BY <1>3, <1>4, MagazineConstants
    <2>5. n \in depot'["full"].list <=> n \in depot["full"].list
      BY <1>1 DEF Kinds
    <2>6. (\E d \in doomed' : d.mag = n /\ i <= DoomedRounds(d)')
          <=> \E d \in doomed : d.mag = n /\ i <= DoomedRounds(d)
      BY <1>1, <2>3
    <2> QED
      BY <1>3, <2>1, <2>2, <2>4, <2>5, <2>6 DEF Occ
  <1>9. ASSUME NEW i \in Index PROVE ~Occ(m, i)'
    <2>1. \A c \in CPUs : ~OccCpu(c, m, i)'
      BY <1>2, <1>4 DEF OccCpu, CpuMags
    <2>2. m \notin depot'["full"].list /\ \A d \in doomed' : d.mag # m
      BY <1>1 DEF Kinds
    <2>3. \A u \in Threads : mag'[u] # m
      BY <1>3, <1>4
    <2> QED
      BY <2>1, <2>2, <2>3 DEF Occ
  <1> QED
    BY <1>5, <1>6, <1>7, <1>8, <1>9

\* Its rounds go to the slab layer.
LEMMA RoundsFreed ==
    ASSUME Home, NEW m \in Mags, NEW R,
           \A b : b \in R <=> \E i \in Index : Occ(m, i) /\ mag_round[m][i] = b,
           slab' = slab \cup R, UNCHANGED <<obj, held, config>>,
           config.bufs \subseteq Bufs,
           \A n \in Mags \ {m} : \A i \in Index : Occ(n, i)' <=> Occ(n, i),
           \A n \in Mags \ {m} : mag_round'[n] = mag_round[n],
           \A i \in Index : ~Occ(m, i)'
    PROVE  Home'
  <1>1. \A b \in R : Away(b)
    BY SMT DEF Home, SlotsHome
  <1>2. \A b : Away(b)' <=> Away(b) /\ b \notin R
    BY DEF Away
  <1>3. \A n \in Mags : \A i \in Index : Occ(n, i)' =>
           /\ Occ(n, i) /\ n # m /\ mag_round'[n][i] = mag_round[n][i]
           /\ mag_round[n][i] \notin R
    <2> TAKE n \in Mags
    <2> TAKE i \in Index
    <2> HAVE Occ(n, i)'
    <2>1. n # m /\ Occ(n, i)
      OBVIOUS
    <2>2. \A j \in Index : Occ(m, j) => mag_round[m][j] # mag_round[n][i]
      BY <2>1 DEF Home, SlotsHome
    <2> QED
      BY <2>1, <2>2
  <1>4. SlotsHome'
    <2>1. ASSUME NEW n \in Mags, NEW i \in Index, Occ(n, i)'
          PROVE  Away(mag_round[n][i])'
      <3>1. PICK b : b = mag_round[n][i]
        OBVIOUS
      <3>2. Away(b) /\ b \notin R /\ mag_round'[n][i] = b
        BY <1>3, <2>1, <3>1 DEF Home, SlotsHome
      <3>3. b \in config'.bufs \ slab' /\ held'[b] = 0
        BY <3>2 DEF Away
      <3> QED
        BY <3>2, <3>3 DEF Away
    <2>2. ASSUME NEW n \in Mags, NEW q \in Mags, NEW i \in Index, NEW j \in Index,
                 Occ(n, i)', Occ(q, j)', mag_round'[n][i] = mag_round'[q][j]
          PROVE  n = q /\ i = j
      <3>1. Occ(n, i) /\ Occ(q, j) /\ mag_round[n][i] = mag_round[q][j]
        BY <1>3, <2>2
      <3>2. \A x, y \in Mags : \A k, l \in Index :
               Occ(x, k) /\ Occ(y, l) /\ mag_round[x][k] = mag_round[y][l] => x = y /\ k = l
        BY DEF Home, SlotsHome
      <3> QED
        BY <3>1, <3>2
    <2>3. ASSUME NEW n \in Mags, NEW i \in Index, NEW t \in Threads, Occ(n, i)'
          PROVE  mag_round'[n][i] # obj'[t]
      <3>1. Occ(n, i) /\ mag_round'[n][i] = mag_round[n][i]
        BY <1>3, <2>3
      <3>2. \A x \in Mags : \A k \in Index : \A u \in Threads :
               Occ(x, k) => mag_round[x][k] # obj[u]
        BY DEF Home, SlotsHome
      <3>3. mag_round[n][i] # obj[t]
        BY <3>1, <3>2
      <3>4. obj' = obj
        OBVIOUS
      <3> QED
        BY <3>1, <3>3, <3>4
    <2>4. \A n \in Mags : \A i \in Index : Occ(n, i)' => Away(mag_round[n][i])'
      BY <2>1
    <2>5. \A n, q \in Mags : \A i, j \in Index :
             Occ(n, i)' /\ Occ(q, j)' /\ mag_round'[n][i] = mag_round'[q][j] => n = q /\ i = j
      BY <2>2
    <2>6. \A n \in Mags : \A i \in Index : \A t \in Threads :
             Occ(n, i)' => mag_round'[n][i] # obj'[t]
      BY <2>3
    <2> QED
      BY <2>4, <2>5, <2>6 DEF SlotsHome
  <1>5. \A t \in Threads : obj[t] \notin R
    <2>1. \A i \in Index : \A t \in Threads : Occ(m, i) => mag_round[m][i] # obj[t]
      BY DEF Home, SlotsHome
    <2> QED
      BY <2>1
  <1>6. ObjsHome'
    BY <1>2, <1>5 DEF Home, ObjsHome
  <1>7. HeldHome'
    BY <1>1, SMT DEF Home, HeldHome, Away
  <1>8. AllHome'
    <2> SUFFICES ASSUME NEW b \in config.bufs, b \notin slab', held[b] # 1,
                        \A t \in Threads : obj[t] # b
                 PROVE  \E n \in Mags : \E i \in Index : Occ(n, i)' /\ mag_round'[n][i] = b
      BY DEF AllHome
    <2>1. PICK n \in Mags, i \in Index : Occ(n, i) /\ mag_round[n][i] = b
      BY DEF Home, AllHome
    <2>2. n # m
      BY <2>1
    <2> QED
      BY <2>1, <2>2
  <1> QED
    BY <1>4, <1>6, <1>7, <1>8 DEF Home

\* A counted shell that is freed is counted no more.
LEMMA Uncounted ==
    ASSUME CardFacts, Types2, Tally, NEW m \in Counted, ShellFreed(m),
           \A u \in Threads : /\ pc'[u] = "relock" <=> pc[u] = "relock"
                              /\ pc[u] = "relock" => mag'[u] = mag[u]
    PROVE  Tally' /\ mag_total' \in 0 .. Cardinality(Mags)
  <1>1. /\ m \in Mags /\ mag_type'[m] = 0 /\ mag_total' = mag_total - 1
        /\ \A x \in Mags \ {m} : mag_type'[x] = mag_type[x]
    BY DEF ShellFreed, Counted, Types2, TypeOK
  <1>2. Counted' = Counted \ {m}
    BY <1>1 DEF Counted
  <1>3. Counted \in SUBSET Mags /\ Counted' \in SUBSET Mags
    BY DEF Counted
  <1>4. Cardinality(Counted') = Cardinality(Counted) - 1
    BY <1>2, <1>3, SMT DEF CardFacts
  <1>5. Cardinality(Counted') \in 0 .. Cardinality(Mags)
    BY <1>3 DEF CardFacts
  <1> QED
    BY <1>1, <1>4, <1>5 DEF Tally

\* The slots of a freed shell have the type of slots.
LEMMA ShellFreedTypes ==
    ASSUME Types2, NEW m \in Mags, ShellFreed(m)
    PROVE  /\ mag_type' \in [Mags -> {0} \cup Types]
           /\ mag_round' \in [Mags -> [1..MAXSIZE -> Bufs \cup {NoOne}]]
           /\ \A x \in Mags \ {m} : mag_type'[x] = mag_type[x] /\ mag_round'[x] = mag_round[x]
           /\ Shells' = Shells \ {m}
  <1>1. NoRounds \in [1 .. MAXSIZE -> Bufs \cup {NoOne}]
    BY DEF NoRounds
  <1>2. /\ mag_type' = [mag_type EXCEPT ![m] = 0]
        /\ mag_round' = [mag_round EXCEPT ![m] = NoRounds]
    BY DEF ShellFreed
  <1>3. mag_type'[m] = 0 /\ \A x \in Mags \ {m} : mag_type'[x] = mag_type[x]
    BY <1>2 DEF Types2, TypeOK
  <1>4. Shells' = Shells \ {m}
    BY <1>3 DEF Shells
  <1> QED
    BY <1>1, <1>2, <1>3, <1>4 DEF Types2, TypeOK

\* The rounds of a magazine that are no buffers do not exist.
LEMMA RoundsAre ==
    ASSUME Types2, Home, NEW m \in Mags, NEW n \in 0 .. MAXSIZE,
           \A i \in Index : Occ(m, i) <=> i <= n
    PROVE  /\ \A b : b \in Rounds(m, n) <=> \E i \in Index : Occ(m, i) /\ mag_round[m][i] = b
           /\ Rounds(m, n) \subseteq Bufs
  <1>1. MAXSIZE \in Nat /\ \A i : i \in 1 .. n <=> i \in Index /\ i <= n
    BY Sizes, SMT DEF Index
  <1>2. \A i \in Index : Occ(m, i) => mag_round[m][i] # NoOne /\ mag_round[m][i] \in Bufs
    BY Configs, SMT DEF Home, SlotsHome, Away, Types2
  <1>3. \A b : b \in Rounds(m, n) <=> b # NoOne /\ \E i \in 1 .. n : mag_round[m][i] = b
    BY DEF Rounds
  <1> QED
    BY <1>1, <1>2, <1>3

\* A stale magazine is destroyed: its rounds go to the slab layer.
LEMMA DestroyStaleInv ==
    ASSUME CardFacts, IInv, NEW t \in Threads, DestroyStale(t), UNCHANGED config
    PROVE  IInv'
  <1>1. /\ Types2 /\ Hands(t) /\ Locked(t) /\ Home /\ Fresh /\ Placed /\ Covered /\ Apart
        /\ Tally /\ Drained /\ Job /\ \A c \in CPUs : CpuSound(c)
        /\ \A u \in Threads : Hands(u)
    BY DEF IInv
  <1>2. PICK m \in Mags : m = mag[t]
    BY <1>1 DEF DestroyStale, Types2, TypeOK, Hands
  <1>3. /\ pc[t] = "stale" /\ slab' = slab \cup StaleRounds(Kind(t), m) /\ ShellFreed(m)
        /\ mag' = [mag EXCEPT ![t] = NoOne] /\ pc' = [pc EXCEPT ![t] = "get"]
        /\ UNCHANGED <<cc, depot, cache_magtype, constructed, held, op, cpu, obj, mtp,
                       updateVars>>
    BY <1>2 DEF DestroyStale
  <1>4. /\ m # NoOne /\ m \in Shells /\ why # "destroy" /\ config.rseq
        /\ pc'[t] = "get" /\ mag'[t] = NoOne /\ Others(t)
    <2>1. why # "destroy"
      BY <1>3, InCall
    <2>2. m # NoOne
      BY MagazineConstants
    <2>3. m \in Shells
      BY <1>1, <1>2, <2>2 DEF Placed
    <2>4. config.rseq
      BY <1>1, <1>3 DEF Fresh
    <2>5. pc \in [Threads -> PCs] /\ mag \in [Threads -> Mags \cup {NoOne}]
      BY <1>1 DEF Types2, TypeOK
    <2>6. /\ pc'[t] = "get" /\ mag'[t] = NoOne
          /\ \A u \in Threads \ {t} : pc'[u] = pc[u] /\ mag'[u] = mag[u]
      BY <1>3, <2>5
    <2>7. Others(t)
      BY <1>3, <2>6 DEF Others
    <2> QED
      BY <2>1, <2>2, <2>3, <2>4, <2>6, <2>7
  <1>5. /\ mag_type' \in [Mags -> {0} \cup Types]
        /\ mag_round' \in [Mags -> [1..MAXSIZE -> Bufs \cup {NoOne}]]
        /\ \A x \in Mags \ {m} : mag_type'[x] = mag_type[x] /\ mag_round'[x] = mag_round[x]
        /\ Shells' = Shells \ {m}
    BY <1>1, <1>3, ShellFreedTypes
  <1>6. /\ \A c \in CPUs : m \notin CpuMags(c)
        /\ \A k \in Kinds : m \notin depot[k].list
        /\ \A u \in Threads \ {t} : mag[u] # m
        /\ \A d \in doomed : d.mag # m
    BY <1>1, <1>2, <1>4 DEF Apart
  <1>7. /\ doomed' = doomed /\ upd' = upd /\ why' = why /\ to_purge' = to_purge
    BY <1>3 DEF updateVars
  <1>8. ShellGone(m)
    <2>1. \A c \in CPUs : SameCpu(c)
      BY <1>3 DEF SameCpu
    <2>2. \A u \in Threads : mag'[u] = (IF mag[u] = m THEN NoOne ELSE mag[u]) /\ op'[u] = op[u]
      BY <1>1, <1>2, <1>3, <1>6 DEF Types2, TypeOK
    <2>3. doomed' = {d \in doomed : d.mag # m}
      BY <1>6, <1>7
    <2>4. \A k \in Kinds : depot'[k].list = depot[k].list
      BY <1>3
    <2> QED
      BY <1>4, <1>5, <1>6, <2>1, <2>2, <2>3, <2>4 DEF ShellGone
  <1>9. /\ Placed' /\ Covered' /\ Apart'
        /\ \A n \in Mags \ {m} : \A i \in Index : Occ(n, i)' <=> Occ(n, i)
        /\ \A i \in Index : ~Occ(m, i)'
    BY <1>1, <1>8, ShellGoneMoves
  <1>10. PICK n \in 0 .. MAXSIZE : n = IF Kind(t) = "full" THEN Capacity(m) ELSE 0
    <2>1. Capacity(m) \in 1 .. MAXSIZE /\ MAXSIZE \in Nat
      BY <1>1, <1>4, ShellCapacity, Sizes
    <2>2. Capacity(m) \in 0 .. MAXSIZE /\ 0 \in 0 .. MAXSIZE
      BY <2>1, SMT
    <2> QED
      BY <2>2
  <1>11. \A i \in Index : Occ(m, i) <=> i <= n
    BY <1>1, <1>2, <1>10, OccInHands, Sizes, SMT DEF Index
  <1>12. StaleRounds(Kind(t), m) = Rounds(m, n)
    BY <1>10, SMT DEF StaleRounds, Rounds
  <1>13. /\ \A b : b \in Rounds(m, n) <=> \E i \in Index : Occ(m, i) /\ mag_round[m][i] = b
         /\ Rounds(m, n) \subseteq Bufs
    BY <1>1, <1>11, RoundsAre
  <1>14. Home'
    BY <1>1, <1>3, <1>5, <1>9, <1>12, <1>13, RoundsFreed, Configs DEF Types2
  <1>15. Tally' /\ mag_total' \in 0 .. Cardinality(Mags)
    <2>1. m \in Counted
      BY <1>2, <1>3, <1>4, <1>6 DEF Counted, Shells
    <2>2. \A u \in Threads : /\ pc'[u] = "relock" <=> pc[u] = "relock"
                             /\ pc[u] = "relock" => mag'[u] = mag[u]
      BY <1>3, <1>4 DEF Others
    <2> QED
      BY <1>1, <1>3, <2>1, <2>2, Uncounted
  <1>16. Types2'
    BY <1>1, <1>3, <1>5, <1>7, <1>12, <1>13, <1>15 DEF Types2, TypeOK, PCs
  <1>17. Hands(t)'
    BY <1>1, <1>3, <1>4 DEF Hands
  <1>18. Locked(t)'
    BY <1>1, <1>3, <1>4 DEF Locked, Locks, Serves
  <1>19. OwnCpu(t) /\ OwnShell(t)
    BY <1>1, <1>3, <1>5, <1>6 DEF OwnCpu, OwnShell, Types2, TypeOK
  <1>20. \A c \in CPUs : CpuSound(c)'
    <2>1. \A c \in CPUs : \A x \in CpuMags(c) : mag_type'[x] = mag_type[x]
      BY <1>1, <1>5, <1>6 DEF Placed, Shells
    <2> QED
      BY <1>1, <1>3, <2>1, CpuStable DEF SameCpu
  <1>21. Drained'
    BY <1>1, <1>3, <1>7, DrainedStable
  <1>22. Fresh'
    BY <1>4 DEF Fresh
  <1>23. \A d \in doomed : mag_type'[d.mag] = mag_type[d.mag]
    BY <1>1, <1>5, <1>6 DEF Placed, Shells
  <1> QED
    BY <1>3, <1>4, <1>9, <1>14, <1>15, <1>16, <1>17, <1>18, <1>19, <1>20, <1>21, <1>22,
       <1>23, ThreadSuffices
==============================================================================
