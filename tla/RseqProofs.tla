----------------------------- MODULE RseqProofs -----------------------------
(***************************************************************************)
(* The restartable-sequence layer, for every number of buffers, shells,    *)
(* threads, CPUs, retries and magazine sizes: wherever a section is cut    *)
(* off, a magazine has one owner, a buffer one home, and a slot counts no  *)
(* further than its magazine reaches.                                      *)
(***************************************************************************)
EXTENDS Rseq, TLAPS

\* The default prover of this module.
USE Zenon

Types == 1 .. Len(MAGSIZES)
Index == 1 .. MAXSIZE
Counts == 0 .. MAXSIZE
PCs == {"idle", "alloc", "alloc_commit", "free", "free_store", "free_commit", "missed",
        "slow", "detach", "detach_commit", "attach", "attach_rounds", "attach_magsize",
        "attach_commit", "published", "unpublished", "retry"}
SlotRecords == [loaded_mag : Mags \cup {NoOne}, rounds : Counts, magsize : Counts]

\* The types of the variables.
TypesOK ==
    /\ rseq \in [CPUs -> SlotRecords]
    /\ mag_type \in [Mags -> {-1, 0} \cup Types]
    /\ mag_round \in [Mags -> [Index -> Bufs \cup {NoOne}]]
    /\ cache_magtype \in Types
    /\ depot \in [Kinds -> SUBSET Mags]
    /\ below \subseteq Bufs /\ held \subseteq Bufs
    /\ on \in [Threads -> CPUs \cup {NoOne}]
    /\ pc \in [Threads -> PCs] /\ op \in [Threads -> {"none", "alloc", "free"}]
    /\ cpu \in [Threads -> CPUs \cup {NoOne}] /\ reload_cpu \in [Threads -> CPUs \cup {NoOne}]
    /\ buf \in [Threads -> Bufs \cup {NoOne}] /\ nrounds \in [Threads -> Counts]
    /\ reg_mag \in [Threads -> Mags \cup {NoOne}] /\ nmp \in [Threads -> Mags \cup {NoOne}]
    /\ old \in [Threads -> Mags \cup {NoOne}] /\ old_rounds \in [Threads -> Counts]

-----------------------------------------------------------------------------
(* Threads.                                                                *)

\* The part of umem_rseq_reload in which the thread has a magazine to publish.
Reloading == {"detach", "detach_commit", "attach", "attach_rounds", "attach_magsize",
              "attach_commit", "unpublished", "retry"}

\* What a thread has in its hands at each point of a call.
Hands(t) ==
    /\ pc[t] = "idle" <=> op[t] = "none"
    /\ pc[t] \in {"alloc", "alloc_commit"} => op[t] = "alloc"
    /\ pc[t] \in {"free", "free_store", "free_commit"} => op[t] = "free"
    /\ pc[t] # "idle" => cpu[t] \in CPUs
    /\ op[t] = "free" => buf[t] \in Bufs
    /\ nmp[t] # NoOne <=> pc[t] \in Reloading
    /\ nmp[t] # NoOne => reload_cpu[t] \in CPUs
    /\ pc[t] \in Sections => on[t] = Slot(t)
    /\ pc[t] \notin Sections => on[t] = NoOne

\* What the registers of a thread inside a section say of its CPU's slot, and
\* which of the section's stores it has made.
Section(t) ==
    /\ pc[t] = "alloc_commit" =>
          /\ rseq[cpu[t]].loaded_mag # NoOne
          /\ rseq[cpu[t]].rounds = nrounds[t] + 1
          /\ buf[t] = mag_round[rseq[cpu[t]].loaded_mag][nrounds[t] + 1]
    /\ pc[t] \in {"free_store", "free_commit"} =>
          /\ reg_mag[t] # NoOne /\ rseq[cpu[t]].loaded_mag = reg_mag[t]
          /\ nrounds[t] = rseq[cpu[t]].rounds + 1 /\ nrounds[t] <= rseq[cpu[t]].magsize
    /\ pc[t] = "free_commit" => mag_round[reg_mag[t]][nrounds[t]] = buf[t]
    /\ pc[t] = "detach_commit" =>
          /\ old[t] = rseq[reload_cpu[t]].loaded_mag
          /\ old_rounds[t] = rseq[reload_cpu[t]].rounds
    /\ pc[t] \in AttachSections => rseq[reload_cpu[t]].loaded_mag = NoOne
    /\ pc[t] \in {"attach_magsize", "attach_commit"} =>
          rseq[reload_cpu[t]].rounds = ArmedRounds(t)
    /\ pc[t] = "attach_commit" => rseq[reload_cpu[t]].magsize = ArmedMagsize(t)

\* Two threads are never inside sections of one CPU.
Exclusive == \A t, u \in Threads : on[t] # NoOne /\ on[t] = on[u] => t = u

-----------------------------------------------------------------------------
(* Shells.  A place is a kind and which one of that kind.                  *)

PlaceKinds == {"rseq", "depot", "new", "old"}
Where == CPUs \cup Kinds \cup Threads

\* The place <<k, x>> has shell m, and counts N(k, x, m) rounds in it.
Has(k, x, m) ==
    \/ k = "rseq" /\ x \in CPUs /\ rseq[x].loaded_mag = m
    \/ k = "depot" /\ x \in Kinds /\ m \in depot[x]
    \/ k = "new" /\ x \in Threads /\ nmp[x] = m
    \/ k = "old" /\ x \in Threads /\ old[x] = m /\ Detached(x)
N(k, x, m) ==
    IF k = "rseq" THEN rseq[x].rounds
    ELSE IF k = "depot" THEN (IF x = "full" THEN Capacity(m) ELSE 0)
    ELSE IF k = "new" THEN ArmedRounds(x) ELSE old_rounds[x]

\* A shell is in one place, and other memory is in none.
Only(k, x, m) == \A l \in PlaceKinds : \A y \in Where : Has(l, y, m) <=> l = k /\ y = x
Nowhere(m) == \A l \in PlaceKinds : \A y \in Where : ~Has(l, y, m)
Owned(m) ==
    IF mag_type[m] \in Types THEN \E k \in PlaceKinds : \E x \in Where : Only(k, x, m)
    ELSE Nowhere(m)

\* The rounds a place counts fit the shell, and are buffers.
Filled(m) ==
    \A k \in PlaceKinds : \A x \in Where : Has(k, x, m) =>
        /\ N(k, x, m) \in 0 .. Capacity(m)
        /\ \A i \in Index : i <= N(k, x, m) => mag_round[m][i] \in Bufs

-----------------------------------------------------------------------------
(* Buffers.                                                                *)

\* The slot counts.
Occ(m, i) == \E k \in PlaceKinds : \E x \in Where : Has(k, x, m) /\ i <= N(k, x, m)

\* A call that frees buffer b, and a slot that counts and has it.
Frees(t, b) == op[t] = "free" /\ buf[t] = b
Stored(m, i, b) == Occ(m, i) /\ mag_round[m][i] = b

\* A buffer is in one place.
OneSpot(b) ==
    /\ \/ b \in below \/ b \in held
       \/ \E t \in Threads : Frees(t, b)
       \/ \E m \in Mags : \E i \in Index : Stored(m, i, b)
    /\ ~(b \in below /\ b \in held)
    /\ \A t \in Threads : Frees(t, b) =>
          /\ b \notin below /\ b \notin held
          /\ \A u \in Threads : Frees(u, b) => u = t
    /\ \A m \in Mags : \A i \in Index : Stored(m, i, b) =>
          /\ b \notin below /\ b \notin held
          /\ \A t \in Threads : ~Frees(t, b)
          /\ \A n \in Mags : \A j \in Index : Stored(n, j, b) => n = m /\ j = i

\* The inductive invariant.
IInv ==
    /\ TypesOK /\ Exclusive /\ SlotSound
    /\ \A t \in Threads : Hands(t) /\ Section(t)
    /\ \A m \in Mags : Owned(m) /\ Filled(m)
    /\ \A b \in Bufs : OneSpot(b)

-----------------------------------------------------------------------------
(* Lemmas about the constants and the operators.                           *)

\* Magazine sizes are positive and at most MAXSIZE.
LEMMA Sizes ==
    /\ MAXSIZE \in Nat \ {0} /\ 1 \in Types /\ Types \subseteq Nat \ {0}
    /\ \A i \in Types : MAGSIZES[i] \in 1 .. MAXSIZE
  <1>1. Len(MAGSIZES) \in Nat \ {0} /\ \A i \in 1 .. Len(MAGSIZES) : MAGSIZES[i] \in Nat \ {0}
    BY RseqConstants, SMT
  <1>2. \A i, j \in 1 .. Len(MAGSIZES) : i < j => MAGSIZES[i] < MAGSIZES[j]
    BY RseqConstants
  <1>3. \A i \in 1 .. Len(MAGSIZES) : MAGSIZES[i] <= MAGSIZES[Len(MAGSIZES)]
    <2> TAKE i \in 1 .. Len(MAGSIZES)
    <2>1. CASE i = Len(MAGSIZES)
      BY <1>1, <2>1, SMT
    <2>2. CASE i < Len(MAGSIZES)
      BY <1>1, <1>2, <2>2, SMT
    <2> QED
      BY <1>1, <2>1, <2>2, SMT
  <1> QED
    BY <1>1, <1>3, SMT DEF Types, MAXSIZE

\* A shell holds at least one round.
LEMMA ShellCapacity ==
    ASSUME TypesOK, NEW m \in Mags, mag_type[m] \in Types
    PROVE  Capacity(m) \in 1 .. MAXSIZE /\ Capacity(m) \in Counts /\ Capacity(m) \in Nat \ {0}
  <1>1. MAXSIZE \in Nat /\ MAGSIZES[mag_type[m]] \in 1 .. MAXSIZE
    BY Sizes
  <1> QED
    BY <1>1, SMT DEF Capacity, Counts

\* Slots are counted from one.
LEMMA Positive == \A i \in Index : ~(i <= 0)
  BY Sizes, SMT DEF Index

\* -1 and 0 are no magtypes.
LEMMA NotTypes == -1 \notin Types /\ 0 \notin Types
  BY Sizes, SMT

\* A count may be zero.
LEMMA ZeroCounts == 0 \in Counts
  BY Sizes, SMT DEF Counts

\* An empty magazine counts within its shell.
LEMMA EmptyFits ==
    ASSUME TypesOK, NEW m \in Mags, mag_type[m] \in Types
    PROVE  0 \in 0 .. Capacity(m)
  BY ShellCapacity, SMT

\* The slots of a shell of a given magtype.
LEMMA FillSizes ==
    ASSUME NEW c \in Types, NEW n, n = MAGSIZES[c]
    PROVE  /\ n \in Counts /\ 0 \in 0 .. n /\ n \in 0 .. n
           /\ \A i \in Index : i <= n <=> i \in 1 .. n
           /\ \A i \in 1 .. n : i \in Index
  <1>1. MAXSIZE \in Nat /\ n \in 1 .. MAXSIZE
    BY Sizes
  <1> QED
    BY <1>1, SMT DEF Counts, Index

\* The magtype after one that is not the last.
LEMMA NextType == \A c \in Types : c < Len(MAGSIZES) => c + 1 \in Types
  BY RseqConstants, SMT DEF Types

\* A count that fits a shell fits the largest one.
LEMMA CountFits ==
    ASSUME TypesOK, NEW m \in Mags, mag_type[m] \in Types, NEW n \in 0 .. Capacity(m)
    PROVE  n \in 0 .. MAXSIZE /\ n \in Nat /\ \A i : i \in 1 .. n <=> i \in Index /\ i <= n
  <1>1. MAXSIZE \in Nat /\ Capacity(m) \in 1 .. MAXSIZE
    BY Sizes, ShellCapacity
  <1> QED
    BY <1>1, SMT DEF Index

\* A shell whose magtype is not positive is none.
LEMMA NoShellType ==
    ASSUME NEW c \in {-1, 0} \cup Types
    PROVE  c <= 0 <=> c \notin Types
  BY Sizes, SMT

\* A slot that gives up its magazine.
LEMMA SlotEmptied ==
    ASSUME NEW r \in SlotRecords
    PROVE  /\ [r EXCEPT !.loaded_mag = NoOne, !.rounds = 0] \in SlotRecords
           /\ [r EXCEPT !.loaded_mag = NoOne, !.rounds = 0].loaded_mag = NoOne
  <1>1. PICK q : q = [r EXCEPT !.loaded_mag = NoOne]
    OBVIOUS
  <1>2. q \in SlotRecords /\ q.loaded_mag = NoOne
    BY <1>1, SMT DEF SlotRecords
  <1>3. [q EXCEPT !.rounds = 0] \in SlotRecords /\ [q EXCEPT !.rounds = 0].loaded_mag = NoOne
    BY <1>2, ZeroCounts, SMT DEF SlotRecords
  <1> QED
    BY <1>1, <1>3

\* What umem_mag_drain frees from a shell whose first n slots are buffers.
LEMMA RoundsAre ==
    ASSUME NEW m \in Mags, NEW n \in 0 .. MAXSIZE,
           \A i \in Index : i <= n => mag_round[m][i] \in Bufs
    PROVE  \A b : b \in Rounds(m, n) <=> \E i \in Index : i <= n /\ mag_round[m][i] = b
  <1>1. \A i : i \in 1 .. n <=> i \in Index /\ i <= n
    BY Sizes, SMT DEF Index
  <1>2. ASSUME NEW b, b \in Rounds(m, n)
        PROVE  \E i \in Index : i <= n /\ mag_round[m][i] = b
    BY <1>1, <1>2 DEF Rounds
  <1>3. ASSUME NEW b, NEW i \in Index, i <= n, mag_round[m][i] = b
        PROVE  b \in Rounds(m, n)
    <2>1. i \in 1 .. n /\ b # NoOne
      BY <1>1, <1>3, RseqConstants
    <2> QED
      BY <1>3, <2>1 DEF Rounds
  <1> QED
    BY <1>2, <1>3

\* Clearing slots of one shell.
LEMMA ClearedIs ==
    ASSUME TypesOK, NEW m \in Mags, NEW n, mag_round' = Cleared(m, n)
    PROVE  /\ mag_round' \in [Mags -> [Index -> Bufs \cup {NoOne}]]
           /\ \A x \in Mags : x # m => mag_round'[x] = mag_round[x]
  <1>1. mag_round \in [Mags -> [Index -> Bufs \cup {NoOne}]]
    BY DEF TypesOK
  <1>2. mag_round[m] \in [Index -> Bufs \cup {NoOne}]
    BY <1>1
  <1> DEFINE f == [i \in 1 .. MAXSIZE |-> IF i <= n THEN NoOne ELSE mag_round[m][i]]
  <1>3. f \in [Index -> Bufs \cup {NoOne}]
    BY <1>2 DEF Index
  <1>4. mag_round' = [mag_round EXCEPT ![m] = f]
    BY DEF Cleared
  <1> HIDE DEF f
  <1> QED
    BY <1>1, <1>3, <1>4

\* The types of a slot's fields.
LEMMA SlotTypes ==
    ASSUME TypesOK, NEW c \in CPUs
    PROVE  /\ rseq[c] \in SlotRecords /\ rseq[c].loaded_mag \in Mags \cup {NoOne}
           /\ rseq[c].rounds \in Counts /\ rseq[c].magsize \in Counts
           /\ rseq[c].rounds \in Nat /\ rseq[c].magsize \in Nat
  <1>1. rseq[c] \in SlotRecords
    BY DEF TypesOK
  <1>2. /\ rseq[c].loaded_mag \in Mags \cup {NoOne}
        /\ rseq[c].rounds \in Counts /\ rseq[c].magsize \in Counts
    BY <1>1 DEF SlotRecords
  <1>3. \A n \in Counts : n \in Nat
    BY Sizes, SMT DEF Counts
  <1> QED
    BY <1>1, <1>2, <1>3

-----------------------------------------------------------------------------
(* What a step leaves alone stays as it was.                               *)

\* The step leaves shell m with its owner, who counts the same rounds in it.
Same(m) ==
    /\ mag_type'[m] = mag_type[m]
    /\ \A k \in PlaceKinds : \A x \in Where : /\ Has(k, x, m)' <=> Has(k, x, m)
                                              /\ Has(k, x, m) => N(k, x, m)' = N(k, x, m)

\* It does, if no place that has m changes and no place gets it.
LEMMA HasStable ==
    ASSUME NEW m \in Mags, mag_type'[m] = mag_type[m],
           \A c \in CPUs : rseq'[c].loaded_mag = m <=> rseq[c].loaded_mag = m,
           \A c \in CPUs : rseq[c].loaded_mag = m => rseq'[c].rounds = rseq[c].rounds,
           \A k \in Kinds : m \in depot'[k] <=> m \in depot[k],
           \A u \in Threads : nmp'[u] = m <=> nmp[u] = m,
           \A u \in Threads : nmp[u] = m => op'[u] = op[u],
           \A u \in Threads : old'[u] = m /\ Detached(u)' <=> old[u] = m /\ Detached(u),
           \A u \in Threads : old[u] = m /\ Detached(u) => old_rounds'[u] = old_rounds[u]
    PROVE  Same(m)
  <1>1. ASSUME NEW k \in PlaceKinds, NEW x \in Where
        PROVE  Has(k, x, m)' <=> Has(k, x, m)
    BY DEF Has
  <1>2. Capacity(m)' = Capacity(m)
    BY DEF Capacity
  <1>3. ASSUME NEW k \in PlaceKinds, NEW x \in Where, Has(k, x, m)
        PROVE  N(k, x, m)' = N(k, x, m)
    <2>1. CASE k = "rseq"
      BY <1>3, <2>1 DEF Has, N
    <2>2. CASE k = "depot"
      BY <1>2, <1>3, <2>2 DEF Has, N
    <2>3. CASE k = "new"
      <3>1. x \in Threads /\ nmp[x] = m
        BY <1>3, <2>3 DEF Has
      <3>2. nmp'[x] = m /\ op'[x] = op[x]
        BY <3>1
      <3> QED
        BY <1>2, <2>3, <3>1, <3>2 DEF N, ArmedRounds
    <2>4. CASE k = "old"
      BY <1>3, <2>4 DEF Has, N
    <2> QED
      BY <2>1, <2>2, <2>3, <2>4 DEF PlaceKinds
  <1> QED
    BY <1>1, <1>3 DEF Same

\* The slots that count are those below the count of the one owner.
LEMMA OccIs ==
    ASSUME NEW m \in Mags, NEW k \in PlaceKinds, NEW x \in Where, Only(k, x, m)
    PROVE  \A i : Occ(m, i) <=> i <= N(k, x, m)
  BY DEF Occ, Only

\* A shell's owner is its only one.
LEMMA OwnerIs ==
    ASSUME NEW m \in Mags, Owned(m), NEW k \in PlaceKinds, NEW x \in Where, Has(k, x, m)
    PROVE  Only(k, x, m) /\ mag_type[m] \in Types
  BY DEF Owned, Only, Nowhere

\* A shell the step leaves alone is still owned, and the same slots count.
LEMMA SameOwned ==
    ASSUME NEW m \in Mags, Owned(m), Filled(m), Same(m),
           \A i \in Index : Occ(m, i) => mag_round'[m][i] = mag_round[m][i]
    PROVE  /\ Owned(m)' /\ Filled(m)'
           /\ \A i : Occ(m, i)' <=> Occ(m, i)
  <1>1. \A i : Occ(m, i)' <=> Occ(m, i)
    BY DEF Occ, Same
  <1>2. Owned(m)'
    <2>1. CASE mag_type[m] \in Types
      <3>1. PICK k \in PlaceKinds, x \in Where : Only(k, x, m)
        BY <2>1 DEF Owned
      <3>2. Only(k, x, m)'
        BY <3>1 DEF Only, Same
      <3> QED
        BY <2>1, <3>2 DEF Owned, Same
    <2>2. CASE mag_type[m] \notin Types
      BY <2>2 DEF Owned, Nowhere, Same
    <2> QED
      BY <2>1, <2>2
  <1>3. Filled(m)'
    <2> SUFFICES ASSUME NEW k \in PlaceKinds, NEW x \in Where, Has(k, x, m)'
                 PROVE  /\ N(k, x, m)' \in 0 .. Capacity(m)'
                        /\ \A i \in Index : i <= N(k, x, m)' => mag_round'[m][i] \in Bufs
      BY DEF Filled
    <2>1. Has(k, x, m) /\ N(k, x, m)' = N(k, x, m) /\ Capacity(m)' = Capacity(m)
      BY DEF Same, Capacity
    <2>2. \A i \in Index : i <= N(k, x, m) => Occ(m, i)
      BY <2>1 DEF Occ
    <2> QED
      BY <2>1, <2>2 DEF Filled
  <1> QED
    BY <1>1, <1>2, <1>3

\* A shell with a new owner.
LEMMA MovedTo ==
    ASSUME NEW m \in Mags, NEW k \in PlaceKinds, NEW x \in Where, Only(k, x, m)',
           mag_type'[m] \in Types, NEW n, n = N(k, x, m)', n \in 0 .. Capacity(m)',
           \A i \in Index : i <= n => mag_round'[m][i] \in Bufs
    PROVE  /\ Owned(m)' /\ Filled(m)'
           /\ \A i : Occ(m, i)' <=> i <= n
  <1>1. Owned(m)'
    BY DEF Owned
  <1>2. \A i : Occ(m, i)' <=> i <= n
    BY DEF Occ, Only
  <1>3. Filled(m)'
    BY DEF Filled, Only
  <1> QED
    BY <1>1, <1>2, <1>3

\* A buffer the step leaves alone.
LEMMA SpotStable ==
    ASSUME NEW b \in Bufs, OneSpot(b), b \in below' <=> b \in below, b \in held' <=> b \in held,
           \A u \in Threads : Frees(u, b)' <=> Frees(u, b),
           \A m \in Mags : \A i \in Index : Stored(m, i, b)' <=> Stored(m, i, b)
    PROVE  OneSpot(b)'
  <1>1. \/ b \in below' \/ b \in held'
        \/ \E t \in Threads : Frees(t, b)'
        \/ \E m \in Mags : \E i \in Index : Stored(m, i, b)'
    BY DEF OneSpot
  <1>2. \A t \in Threads : Frees(t, b)' =>
           /\ b \notin below' /\ b \notin held'
           /\ \A u \in Threads : Frees(u, b)' => u = t
    BY DEF OneSpot
  <1>3. \A m \in Mags : \A i \in Index : Stored(m, i, b)' =>
           /\ b \notin below' /\ b \notin held'
           /\ \A t \in Threads : ~Frees(t, b)'
           /\ \A n \in Mags : \A j \in Index : Stored(n, j, b)' => n = m /\ j = i
    BY DEF OneSpot
  <1>4. ~(b \in below' /\ b \in held')
    BY DEF OneSpot
  <1> QED
    BY <1>1, <1>2, <1>3, <1>4 DEF OneSpot

\* A thread's locals stay as they are, and what its section relies on.
Keeps(u) ==
    /\ pc'[u] = pc[u] /\ op'[u] = op[u] /\ cpu'[u] = cpu[u] /\ reload_cpu'[u] = reload_cpu[u]
    /\ buf'[u] = buf[u] /\ nrounds'[u] = nrounds[u] /\ reg_mag'[u] = reg_mag[u]
    /\ nmp'[u] = nmp[u] /\ old'[u] = old[u] /\ old_rounds'[u] = old_rounds[u] /\ on'[u] = on[u]
Left(u) ==
    /\ on[u] # NoOne => rseq'[on[u]] = rseq[on[u]]
    /\ on[u] # NoOne /\ rseq[on[u]].loaded_mag # NoOne =>
          mag_round'[rseq[on[u]].loaded_mag] = mag_round[rseq[on[u]].loaded_mag]
    /\ nmp[u] # NoOne => mag_type'[nmp[u]] = mag_type[nmp[u]]

\* The slot of a thread inside a section is the one of the CPU it is on.
LEMMA OnSlot ==
    ASSUME NEW u \in Threads, Hands(u), pc[u] \in Sections
    PROVE  /\ on[u] # NoOne /\ on[u] \in CPUs
           /\ pc[u] \in FastSections => on[u] = cpu[u]
           /\ pc[u] \notin FastSections =>
                 on[u] = reload_cpu[u] /\ nmp[u] # NoOne /\ pc[u] \in Reloading
  <1>1. NoOne \notin CPUs
    BY RseqConstants
  <1>2. CASE pc[u] \in FastSections
    BY <1>1, <1>2 DEF Hands, Slot, Sections, FastSections
  <1>3. CASE pc[u] \notin FastSections
    <2>1. pc[u] \in Reloading /\ pc[u] \notin FastSections \cup {"alloc", "free"}
      BY <1>3 DEF Sections, FastSections, AttachSections, Reloading
    <2> QED
      BY <1>1, <1>3, <2>1 DEF Hands, Slot
  <1> QED
    BY <1>2, <1>3

\* A thread that a step does not touch relies on the same.
LEMMA ThreadStable ==
    ASSUME NEW u \in Threads, Hands(u), Section(u), Keeps(u), Left(u)
    PROVE  Hands(u)' /\ Section(u)'
  <1>1. Slot(u)' = Slot(u)
    BY DEF Slot, Keeps
  <1>2. Hands(u)'
    BY <1>1 DEF Hands, Keeps
  <1>3. CASE pc[u] \notin Sections
    <2>1. pc'[u] \notin Sections
      BY <1>3 DEF Keeps
    <2> QED
      BY <1>2, <2>1 DEF Section, Sections, FastSections, AttachSections
  <1>4. CASE pc[u] \in Sections
    <2>1. rseq'[on[u]] = rseq[on[u]] /\ on[u] # NoOne
      BY <1>4, OnSlot DEF Left
    <2>2. CASE pc[u] \in FastSections
      <3>1. on[u] = cpu[u] /\ rseq'[cpu[u]] = rseq[cpu[u]]
        BY <1>4, <2>1, <2>2, OnSlot
      <3>2. rseq[cpu[u]].loaded_mag # NoOne =>
               mag_round'[rseq[cpu[u]].loaded_mag] = mag_round[rseq[cpu[u]].loaded_mag]
        BY <2>1, <3>1 DEF Left
      <3>3. CASE pc[u] = "alloc_commit"
        BY <1>2, <3>1, <3>2, <3>3 DEF Section, Keeps, AttachSections
      <3>4. CASE pc[u] \in {"free_store", "free_commit"}
        BY <1>2, <3>1, <3>2, <3>4 DEF Section, Keeps, AttachSections
      <3> QED
        BY <1>2, <2>2, <3>3, <3>4 DEF FastSections
    <2>3. CASE pc[u] \notin FastSections
      <3>1. on[u] = reload_cpu[u] /\ rseq'[reload_cpu[u]] = rseq[reload_cpu[u]]
        BY <1>4, <2>1, <2>3, OnSlot
      <3>2. mag_type'[nmp[u]] = mag_type[nmp[u]]
        BY <1>4, <2>3, OnSlot DEF Left
      <3>3. ArmedRounds(u)' = ArmedRounds(u) /\ ArmedMagsize(u)' = ArmedMagsize(u)
        BY <3>2 DEF ArmedRounds, ArmedMagsize, Capacity, Keeps
      <3>4. pc[u] # "alloc_commit" /\ pc[u] \notin {"free_store", "free_commit"}
        BY <2>3 DEF FastSections
      <3> QED
        BY <1>2, <3>1, <3>3, <3>4 DEF Section, Keeps
    <2> QED
      BY <2>2, <2>3
  <1> QED
    BY <1>2, <1>3, <1>4

\* What is left to show for a step of thread t.
LEMMA ThreadSuffices ==
    ASSUME IInv, NEW t \in Threads, \A u \in Threads \ {t} : Keeps(u) /\ Left(u),
           on'[t] # NoOne => \A u \in Threads \ {t} : on[u] # on'[t],
           TypesOK', SlotSound', Hands(t)', Section(t)',
           \A m \in Mags : Owned(m)' /\ Filled(m)', \A b \in Bufs : OneSpot(b)'
    PROVE  IInv'
  <1>1. \A u \in Threads : Hands(u)' /\ Section(u)'
    BY ThreadStable DEF IInv
  <1>2. Exclusive'
    <2>1. \A u \in Threads \ {t} : on'[u] = on[u]
      BY DEF Keeps
    <2>2. Exclusive
      BY DEF IInv
    <2> SUFFICES ASSUME NEW u \in Threads, NEW v \in Threads, on'[u] # NoOne, on'[u] = on'[v]
                 PROVE  u = v
      BY DEF Exclusive
    <2>3. CASE u = t \/ v = t
      BY <2>1, <2>3
    <2>4. CASE u # t /\ v # t
      BY <2>1, <2>2, <2>4 DEF Exclusive
    <2> QED
      BY <2>3, <2>4
  <1> QED
    BY <1>1, <1>2 DEF IInv

\* What is left to show for a step of thread t that touches nothing shared.
LEMMA QuietSuffices ==
    ASSUME IInv, NEW t \in Threads, \A u \in Threads \ {t} : Keeps(u),
           UNCHANGED <<slotVars, depotVars, held>>,
           on'[t] # NoOne => \A u \in Threads \ {t} : on[u] # on'[t],
           nmp'[t] = nmp[t], nmp[t] # NoOne => op'[t] = op[t], Detached(t)' <=> Detached(t),
           Detached(t) => old'[t] = old[t] /\ old_rounds'[t] = old_rounds[t],
           \A b \in Bufs : Frees(t, b)' <=> Frees(t, b),
           TypesOK', Hands(t)', Section(t)'
    PROVE  IInv'
  <1>1. /\ rseq' = rseq /\ mag_type' = mag_type /\ mag_round' = mag_round /\ depot' = depot
        /\ cache_magtype' = cache_magtype /\ below' = below /\ held' = held
    BY DEF slotVars, depotVars
  <1>2. \A u \in Threads \ {t} : Keeps(u) /\ Left(u)
    BY <1>1 DEF Left
  <1>3. ASSUME NEW m \in Mags PROVE Same(m)
    <2>1. m # NoOne
      BY RseqConstants
    <2>2. \A u \in Threads \ {t} : Detached(u)' <=> Detached(u)
      BY DEF Keeps, Detached
    <2>3. \A u \in Threads : /\ nmp'[u] = m <=> nmp[u] = m
                             /\ nmp[u] = m => op'[u] = op[u]
                             /\ (old'[u] = m /\ Detached(u)') <=> (old[u] = m /\ Detached(u))
                             /\ old[u] = m /\ Detached(u) => old_rounds'[u] = old_rounds[u]
      BY <2>1, <2>2 DEF Keeps
    <2> QED
      BY <1>1, <2>3, HasStable
  <1>4. \A m \in Mags : Owned(m)' /\ Filled(m)' /\ \A i : Occ(m, i)' <=> Occ(m, i)
    BY <1>1, <1>3, SameOwned DEF IInv
  <1>5. \A b \in Bufs : OneSpot(b)'
    <2> TAKE b \in Bufs
    <2>1. \A u \in Threads : Frees(u, b)' <=> Frees(u, b)
      BY DEF Frees, Keeps
    <2>2. \A m \in Mags : \A i \in Index : Stored(m, i, b)' <=> Stored(m, i, b)
      BY <1>1, <1>4 DEF Stored
    <2> QED
      BY <1>1, <2>1, <2>2, SpotStable DEF IInv
  <1>6. SlotSound'
    BY <1>1 DEF IInv, SlotSound, Capacity
  <1> QED
    BY <1>2, <1>4, <1>5, <1>6, ThreadSuffices

-----------------------------------------------------------------------------
(* Steps that touch nothing shared.                                        *)

\* A preempted section has published nothing: its registers are lost, and the
\* abort handler resumes where the call can go on without it.
LEMMA PreemptInv ==
    ASSUME IInv, NEW t \in Threads, Preempt(t)
    PROVE  IInv'
  <1>1. TypesOK /\ Hands(t)
    BY DEF IInv
  <1>2. /\ pc[t] \in Sections /\ on' = [on EXCEPT ![t] = NoOne]
        /\ nrounds' = [nrounds EXCEPT ![t] = 0] /\ reg_mag' = [reg_mag EXCEPT ![t] = NoOne]
        /\ buf' = [buf EXCEPT ![t] = IF pc[t] = "alloc_commit" THEN NoOne ELSE @]
        /\ UNCHANGED <<slotVars, depotVars, held, op, cpu, reload_cpu, nmp, old, old_rounds>>
    BY DEF Preempt
  <1>3. PICK l : l = CASE pc[t] \in FastSections -> "missed"
                       [] pc[t] \in AttachSections -> "unpublished"
                       [] OTHER -> "retry"
    OBVIOUS
  <1>4. /\ pc[t] \in FastSections => l = "missed"
        /\ pc[t] \in AttachSections => l = "unpublished"
        /\ pc[t] = "detach_commit" => l = "retry"
    BY <1>3 DEF FastSections, AttachSections
  <1>5. pc' = [pc EXCEPT ![t] = l] /\ l \in {"missed", "unpublished", "retry"}
    BY <1>2, <1>3, <1>4 DEF Preempt, Goto, Sections
  <1>6. pc'[t] = l /\ on'[t] = NoOne /\ nmp'[t] = nmp[t] /\ op'[t] = op[t] /\ cpu'[t] = cpu[t]
        /\ reload_cpu'[t] = reload_cpu[t] /\ (op[t] = "free" => buf'[t] = buf[t])
    BY <1>1, <1>2, <1>5 DEF TypesOK, Hands
  <1>7. \A u \in Threads \ {t} : Keeps(u)
    BY <1>1, <1>2, <1>5 DEF TypesOK, Keeps
  <1>8. TypesOK'
    <2>1. 0 \in Counts
      BY Sizes, SMT DEF Counts
    <2> QED
      BY <1>1, <1>2, <1>5, <2>1 DEF TypesOK, PCs, slotVars, depotVars
  <1>9. Hands(t)'
    <2>1. l \notin Sections /\ l \notin {"idle", "alloc", "alloc_commit", "free", "free_store",
                                         "free_commit"}
      BY <1>5 DEF Sections, FastSections, AttachSections
    <2>2. pc[t] # "idle" /\ (pc[t] \in Reloading <=> l \in Reloading)
      BY <1>2, <1>4 DEF Sections, FastSections, AttachSections, Reloading
    <2> QED
      BY <1>1, <1>6, <2>1, <2>2 DEF Hands
  <1>10. Section(t)'
    BY <1>5, <1>6 DEF Section, AttachSections
  <1>11. Detached(t)' <=> Detached(t)
    BY <1>2, <1>4, <1>6 DEF Detached, Sections, FastSections, AttachSections
  <1>12. \A b \in Bufs : Frees(t, b)' <=> Frees(t, b)
    BY <1>6 DEF Frees
  <1> QED
    BY <1>2, <1>6, <1>7, <1>8, <1>9, <1>10, <1>11, <1>12, QuietSuffices

\* umem_rseq_ptc_alloc reads its CPU number.
LEMMA CallAllocInv ==
    ASSUME IInv, NEW t \in Threads, CallAlloc(t)
    PROVE  IInv'
  <1>1. TypesOK /\ Hands(t)
    BY DEF IInv
  <1>2. PICK c \in CPUs : cpu' = [cpu EXCEPT ![t] = c]
    BY DEF CallAlloc
  <1>3. /\ pc[t] = "idle" /\ pc' = [pc EXCEPT ![t] = "alloc"] /\ op' = [op EXCEPT ![t] = "alloc"]
        /\ UNCHANGED <<slotVars, depotVars, held, on, reload_cpu, buf, nrounds, reg_mag, nmp, old,
                       old_rounds>>
    BY DEF CallAlloc, Goto
  <1>4. /\ pc'[t] = "alloc" /\ op'[t] = "alloc" /\ cpu'[t] = c /\ op[t] = "none"
        /\ nmp[t] = NoOne /\ on[t] = NoOne
    BY <1>1, <1>2, <1>3 DEF TypesOK, Hands, Sections, FastSections, AttachSections, Reloading
  <1>5. \A u \in Threads \ {t} : Keeps(u)
    BY <1>1, <1>2, <1>3 DEF TypesOK, Keeps
  <1>6. TypesOK'
    BY <1>1, <1>2, <1>3 DEF TypesOK, PCs, slotVars, depotVars
  <1>7. Hands(t)'
    BY <1>2, <1>3, <1>4 DEF Hands, Reloading, Sections, FastSections, AttachSections
  <1>8. Section(t)' /\ ~Detached(t)' /\ ~Detached(t)
    BY <1>3, <1>4 DEF Section, AttachSections, Detached
  <1>9. \A b \in Bufs : Frees(t, b)' <=> Frees(t, b)
    BY <1>4 DEF Frees
  <1> QED
    BY <1>3, <1>4, <1>5, <1>6, <1>7, <1>8, <1>9, QuietSuffices

\* A fast path that finds its thread on another CPU, its slot without a magazine,
\* or the magazine empty or full, returns; an attempt to detach or attach then
\* ends too.  The call goes on at l.
LEMMA GivesUp ==
    ASSUME IInv, NEW t \in Threads, NEW l, pc' = [pc EXCEPT ![t] = l],
           \/ pc[t] \in {"alloc", "free"} /\ l = "missed"
           \/ pc[t] = "detach" /\ l = "retry"
           \/ pc[t] = "attach" /\ l = "unpublished"
           \/ pc[t] = "missed" /\ l = "slow",
           UNCHANGED <<slotVars, depotVars, held, on, op, cpu, reload_cpu, buf, nrounds, reg_mag,
                       nmp, old, old_rounds>>
    PROVE  IInv'
  <1>1. TypesOK /\ Hands(t)
    BY DEF IInv
  <1>2. /\ pc'[t] = l /\ l \in PCs /\ l \notin Sections /\ pc[t] \notin Sections
        /\ l \notin {"idle", "alloc", "alloc_commit", "free", "free_store", "free_commit"}
        /\ pc[t] # "idle" /\ (pc[t] \in Reloading <=> l \in Reloading)
    BY <1>1 DEF TypesOK, PCs, Sections, FastSections, AttachSections, Reloading
  <1>3. on[t] = NoOne
    BY <1>1, <1>2 DEF Hands
  <1>4. \A u \in Threads \ {t} : Keeps(u)
    BY <1>1 DEF TypesOK, Keeps
  <1>5. TypesOK'
    BY <1>1, <1>2 DEF TypesOK, slotVars, depotVars
  <1>6. Hands(t)'
    BY <1>1, <1>2 DEF Hands
  <1>7. Section(t)'
    BY <1>2 DEF Section, Sections, FastSections, AttachSections
  <1>8. Detached(t)' <=> Detached(t)
    BY <1>2 DEF Detached
  <1>9. \A b \in Bufs : Frees(t, b)' <=> Frees(t, b)
    BY DEF Frees
  <1> QED
    BY <1>3, <1>4, <1>5, <1>6, <1>7, <1>8, <1>9, QuietSuffices

\* A section begins on the CPU whose slot the call is for, with no other thread
\* on that CPU.
LEMMA Enters ==
    ASSUME IInv, NEW t \in Threads, NEW c \in CPUs, Running(t, c), NEW l \in Sections,
           \/ pc[t] = "alloc" /\ l = "alloc_commit" /\ c = cpu[t]
           \/ pc[t] = "free" /\ l = "free_store" /\ c = cpu[t]
           \/ pc[t] = "detach" /\ l = "detach_commit" /\ c = reload_cpu[t]
           \/ pc[t] = "attach" /\ l = "attach_rounds" /\ c = reload_cpu[t],
           pc' = [pc EXCEPT ![t] = l], on' = [on EXCEPT ![t] = c],
           UNCHANGED <<slotVars, depotVars, held, op, cpu, reload_cpu, nmp>>,
           \A u \in Threads \ {t} : /\ buf'[u] = buf[u] /\ nrounds'[u] = nrounds[u]
                                    /\ reg_mag'[u] = reg_mag[u] /\ old'[u] = old[u]
                                    /\ old_rounds'[u] = old_rounds[u],
           buf'[t] = buf[t] \/ pc[t] = "alloc",
           (old'[t] = old[t] /\ old_rounds'[t] = old_rounds[t]) \/ pc[t] = "detach",
           TypesOK', Section(t)'
    PROVE  IInv'
  <1>1. TypesOK /\ Hands(t)
    BY DEF IInv
  <1>2. /\ pc'[t] = l /\ on'[t] = c /\ op'[t] = op[t] /\ cpu'[t] = cpu[t]
        /\ reload_cpu'[t] = reload_cpu[t] /\ nmp'[t] = nmp[t] /\ c # NoOne
    BY <1>1, RseqConstants DEF TypesOK
  <1>3. \A u \in Threads \ {t} : Keeps(u) /\ on[u] # c
    BY <1>1 DEF TypesOK, Keeps, Running
  <1>4. Slot(t)' = c
    BY <1>2 DEF Slot, FastSections
  <1>5. op[t] = "free" => buf'[t] = buf[t]
    BY <1>1 DEF Hands
  <1>6. Hands(t)'
    <2>1. /\ l # "idle" /\ pc[t] # "idle" /\ (pc[t] \in Reloading <=> l \in Reloading)
          /\ l \in {"alloc", "alloc_commit"} => op[t] = "alloc"
          /\ l \in {"free", "free_store", "free_commit"} => op[t] = "free"
      BY <1>1 DEF Hands, Reloading
    <2> QED
      BY <1>1, <1>2, <1>4, <1>5, <2>1 DEF Hands
  <1>7. /\ Detached(t)' <=> Detached(t)
        /\ Detached(t) => old'[t] = old[t] /\ old_rounds'[t] = old_rounds[t]
    BY <1>2 DEF Detached
  <1>8. \A b \in Bufs : Frees(t, b)' <=> Frees(t, b)
    BY <1>2, <1>5 DEF Frees
  <1> QED
    BY <1>2, <1>3, <1>6, <1>7, <1>8, QuietSuffices

\* umem_rseq_alloc_fastpath up to its store.
LEMMA AllocStartInv ==
    ASSUME IInv, NEW t \in Threads, AllocStart(t)
    PROVE  IInv'
  <1>1. TypesOK /\ Hands(t) /\ pc[t] = "alloc"
    BY DEF IInv, AllocStart
  <1>2. PICK d \in CPUs : d = cpu[t]
    BY <1>1 DEF Hands
  <1>3. /\ rseq[d].loaded_mag \in Mags \cup {NoOne} /\ rseq[d].rounds \in Counts
        /\ rseq[d].rounds \in Nat
    BY <1>1, SlotTypes
  <1>4. PICK c \in CPUs :
           /\ Running(t, c)
           /\ IF ~SameCPU(c, d) \/ rseq[d].rounds <= 0 \/ rseq[d].loaded_mag = NoOne
              THEN Goto(t, "missed") /\ UNCHANGED <<on, buf, nrounds>>
              ELSE /\ on' = [on EXCEPT ![t] = c]
                   /\ nrounds' = [nrounds EXCEPT ![t] = rseq[d].rounds - 1]
                   /\ buf' = [buf EXCEPT ![t] = mag_round[rseq[d].loaded_mag][Popped(rseq[d].rounds)]]
                   /\ Goto(t, "alloc_commit")
    BY <1>2 DEF AllocStart
  <1>5. UNCHANGED <<slotVars, depotVars, held, op, cpu, reload_cpu, reg_mag, nmp, old, old_rounds>>
    BY DEF AllocStart
  <1>6. CASE ~SameCPU(c, d) \/ rseq[d].rounds <= 0 \/ rseq[d].loaded_mag = NoOne
    BY <1>1, <1>4, <1>5, <1>6, GivesUp DEF Goto
  <1>7. CASE ~(~SameCPU(c, d) \/ rseq[d].rounds <= 0 \/ rseq[d].loaded_mag = NoOne)
    <2>1. PICK m \in Mags : m = rseq[d].loaded_mag
      BY <1>3, <1>7
    <2>2. PICK n : n = rseq[d].rounds
      OBVIOUS
    <2>3. n \in Index /\ n - 1 \in Counts /\ (n - 1) + 1 = n
      BY <1>3, <1>7, <2>2, Sizes, SMT DEF Counts, Index
    <2>4. /\ c = d /\ on' = [on EXCEPT ![t] = c] /\ pc' = [pc EXCEPT ![t] = "alloc_commit"]
          /\ nrounds' = [nrounds EXCEPT ![t] = n - 1]
          /\ buf' = [buf EXCEPT ![t] = mag_round[m][n]]
      BY <1>4, <1>7, <2>1, <2>2 DEF Goto, SameCPU, Popped
    <2>5. mag_round[m][n] \in Bufs \cup {NoOne}
      <3>1. mag_round \in [Mags -> [Index -> Bufs \cup {NoOne}]]
        BY <1>1 DEF TypesOK
      <3>2. n \in Index
        BY <2>3
      <3> QED
        BY <3>1, <3>2
    <2>6. /\ nrounds'[t] = n - 1 /\ buf'[t] = mag_round[m][n] /\ pc'[t] = "alloc_commit"
          /\ cpu'[t] = d
          /\ \A u \in Threads \ {t} : buf'[u] = buf[u] /\ nrounds'[u] = nrounds[u]
      BY <1>1, <1>2, <1>5, <2>4 DEF TypesOK
    <2>7. TypesOK'
      BY <1>1, <1>5, <2>3, <2>4, <2>5 DEF TypesOK, PCs, slotVars, depotVars
    <2>8. Section(t)'
      <3>1. rseq' = rseq /\ mag_round' = mag_round
        BY <1>5 DEF slotVars
      <3> QED
        BY <1>7, <2>1, <2>2, <2>3, <2>6, <3>1 DEF Section, AttachSections
    <2>9. "alloc_commit" \in Sections
      BY DEF Sections, FastSections
    <2> QED
      BY <1>1, <1>2, <1>4, <1>5, <2>4, <2>6, <2>7, <2>8, <2>9, Enters
  <1> QED
    BY <1>6, <1>7

\* umem_rseq_free_fastpath up to its stores.
LEMMA FreeStartInv ==
    ASSUME IInv, NEW t \in Threads, FreeStart(t)
    PROVE  IInv'
  <1>1. TypesOK /\ Hands(t) /\ pc[t] = "free"
    BY DEF IInv, FreeStart
  <1>2. PICK d \in CPUs : d = cpu[t]
    BY <1>1 DEF Hands
  <1>3. /\ rseq[d].loaded_mag \in Mags \cup {NoOne} /\ rseq[d].rounds \in Nat
        /\ rseq[d].magsize \in Counts
    BY <1>1, SlotTypes
  <1>4. PICK c \in CPUs :
           /\ Running(t, c)
           /\ IF ~SameCPU(c, d) \/ rseq[d].loaded_mag = NoOne \/ rseq[d].rounds >= rseq[d].magsize
              THEN Goto(t, "missed") /\ UNCHANGED <<on, nrounds, reg_mag>>
              ELSE /\ on' = [on EXCEPT ![t] = c]
                   /\ nrounds' = [nrounds EXCEPT ![t] = rseq[d].rounds + 1]
                   /\ reg_mag' = [reg_mag EXCEPT ![t] = rseq[d].loaded_mag]
                   /\ Goto(t, "free_store")
    BY <1>2 DEF FreeStart
  <1>5. UNCHANGED <<slotVars, depotVars, held, op, cpu, reload_cpu, buf, nmp, old, old_rounds>>
    BY DEF FreeStart
  <1>6. CASE ~SameCPU(c, d) \/ rseq[d].loaded_mag = NoOne \/ rseq[d].rounds >= rseq[d].magsize
    BY <1>1, <1>4, <1>5, <1>6, GivesUp DEF Goto
  <1>7. CASE ~(~SameCPU(c, d) \/ rseq[d].loaded_mag = NoOne \/ rseq[d].rounds >= rseq[d].magsize)
    <2>1. PICK m \in Mags : m = rseq[d].loaded_mag
      BY <1>3, <1>7
    <2>2. rseq[d].rounds + 1 \in Counts /\ rseq[d].rounds + 1 <= rseq[d].magsize
      BY <1>3, <1>7, Sizes, SMT DEF Counts
    <2>3. /\ c = d /\ on' = [on EXCEPT ![t] = c] /\ pc' = [pc EXCEPT ![t] = "free_store"]
          /\ nrounds' = [nrounds EXCEPT ![t] = rseq[d].rounds + 1]
          /\ reg_mag' = [reg_mag EXCEPT ![t] = m]
      BY <1>4, <1>7, <2>1 DEF Goto, SameCPU
    <2>4. /\ nrounds'[t] = rseq[d].rounds + 1 /\ reg_mag'[t] = m /\ pc'[t] = "free_store"
          /\ cpu'[t] = d
          /\ \A u \in Threads \ {t} : reg_mag'[u] = reg_mag[u] /\ nrounds'[u] = nrounds[u]
      BY <1>1, <1>2, <1>5, <2>3 DEF TypesOK
    <2>5. TypesOK'
      BY <1>1, <1>5, <2>2, <2>3 DEF TypesOK, PCs, slotVars, depotVars
    <2>6. Section(t)'
      <3>1. rseq' = rseq /\ mag_round' = mag_round
        BY <1>5 DEF slotVars
      <3> QED
        BY <1>7, <2>1, <2>2, <2>4, <3>1 DEF Section, AttachSections
    <2>7. "free_store" \in Sections
      BY DEF Sections, FastSections
    <2> QED
      BY <1>1, <1>2, <1>4, <1>5, <2>3, <2>4, <2>5, <2>6, <2>7, Enters
  <1> QED
    BY <1>6, <1>7

\* umem_rseq_reload_detach up to its store: the slot is read.
LEMMA DetachStartInv ==
    ASSUME IInv, NEW t \in Threads, DetachStart(t)
    PROVE  IInv'
  <1>1. TypesOK /\ Hands(t) /\ pc[t] = "detach"
    BY DEF IInv, DetachStart
  <1>2. PICK d \in CPUs : d = reload_cpu[t]
    BY <1>1 DEF Hands, Reloading
  <1>3. rseq[d].loaded_mag \in Mags \cup {NoOne} /\ rseq[d].rounds \in Counts
    BY <1>1, SlotTypes
  <1>4. PICK c \in CPUs :
           /\ Running(t, c)
           /\ IF ~SameCPU(c, d)
              THEN Goto(t, "retry") /\ UNCHANGED <<on, old, old_rounds>>
              ELSE /\ on' = [on EXCEPT ![t] = c]
                   /\ old' = [old EXCEPT ![t] = rseq[d].loaded_mag]
                   /\ old_rounds' = [old_rounds EXCEPT ![t] = rseq[d].rounds]
                   /\ Goto(t, "detach_commit")
    BY <1>2 DEF DetachStart
  <1>5. UNCHANGED <<slotVars, depotVars, held, op, cpu, reload_cpu, buf, nrounds, reg_mag, nmp>>
    BY DEF DetachStart
  <1>6. CASE ~SameCPU(c, d)
    BY <1>1, <1>4, <1>5, <1>6, GivesUp DEF Goto
  <1>7. CASE SameCPU(c, d)
    <2>1. /\ c = d /\ on' = [on EXCEPT ![t] = c] /\ pc' = [pc EXCEPT ![t] = "detach_commit"]
          /\ old' = [old EXCEPT ![t] = rseq[d].loaded_mag]
          /\ old_rounds' = [old_rounds EXCEPT ![t] = rseq[d].rounds]
      BY <1>4, <1>7 DEF Goto, SameCPU
    <2>2. /\ old'[t] = rseq[d].loaded_mag /\ old_rounds'[t] = rseq[d].rounds
          /\ pc'[t] = "detach_commit" /\ reload_cpu'[t] = d
          /\ \A u \in Threads \ {t} : old'[u] = old[u] /\ old_rounds'[u] = old_rounds[u]
      BY <1>1, <1>2, <1>5, <2>1 DEF TypesOK
    <2>3. TypesOK'
      BY <1>1, <1>3, <1>5, <2>1 DEF TypesOK, PCs, slotVars, depotVars
    <2>4. Section(t)'
      BY <1>5, <2>2 DEF Section, AttachSections, slotVars
    <2>5. "detach_commit" \in Sections
      BY DEF Sections
    <2> QED
      BY <1>1, <1>2, <1>4, <1>5, <2>1, <2>2, <2>3, <2>4, <2>5, Enters
  <1> QED
    BY <1>6, <1>7

\* umem_rseq_reload_attach up to its stores: the slot is seen to be empty.
LEMMA AttachStartInv ==
    ASSUME IInv, NEW t \in Threads, AttachStart(t)
    PROVE  IInv'
  <1>1. TypesOK /\ Hands(t) /\ pc[t] = "attach"
    BY DEF IInv, AttachStart
  <1>2. PICK d \in CPUs : d = reload_cpu[t]
    BY <1>1 DEF Hands, Reloading
  <1>3. PICK c \in CPUs :
           /\ Running(t, c)
           /\ IF ~SameCPU(c, d) \/ Occupied(d)
              THEN Goto(t, "unpublished") /\ UNCHANGED on
              ELSE on' = [on EXCEPT ![t] = c] /\ Goto(t, "attach_rounds")
    BY <1>2 DEF AttachStart
  <1>4. UNCHANGED <<slotVars, depotVars, held, op, cpu, reload_cpu, buf, nrounds, reg_mag, nmp, old,
                    old_rounds>>
    BY DEF AttachStart, callVars
  <1>5. CASE ~SameCPU(c, d) \/ Occupied(d)
    BY <1>1, <1>3, <1>4, <1>5, GivesUp DEF Goto
  <1>6. CASE ~(~SameCPU(c, d) \/ Occupied(d))
    <2>1. /\ c = d /\ on' = [on EXCEPT ![t] = c] /\ pc' = [pc EXCEPT ![t] = "attach_rounds"]
          /\ rseq[d].loaded_mag = NoOne
      BY <1>3, <1>6 DEF Goto, SameCPU, Occupied
    <2>2. pc'[t] = "attach_rounds" /\ reload_cpu'[t] = d
      BY <1>1, <1>2, <1>4, <2>1 DEF TypesOK
    <2>3. TypesOK'
      BY <1>1, <1>4, <2>1 DEF TypesOK, PCs, slotVars, depotVars
    <2>4. Section(t)'
      BY <1>4, <2>1, <2>2 DEF Section, slotVars
    <2>5. "attach_rounds" \in Sections
      BY DEF Sections, AttachSections
    <2> QED
      BY <1>1, <1>2, <1>3, <1>4, <2>1, <2>3, <2>4, <2>5, Enters
  <1> QED
    BY <1>5, <1>6

-----------------------------------------------------------------------------
(* Steps that move a buffer.                                               *)

\* A call returns, with nothing in its hands.
LEMMA DoneIs ==
    ASSUME TypesOK, NEW t \in Threads, Done(t), on'[t] = NoOne
    PROVE  /\ pc' \in [Threads -> PCs] /\ op' \in [Threads -> {"none", "alloc", "free"}]
           /\ cpu' \in [Threads -> CPUs \cup {NoOne}]
           /\ reload_cpu' \in [Threads -> CPUs \cup {NoOne}]
           /\ buf' \in [Threads -> Bufs \cup {NoOne}] /\ nrounds' \in [Threads -> Counts]
           /\ reg_mag' \in [Threads -> Mags \cup {NoOne}] /\ nmp' \in [Threads -> Mags \cup {NoOne}]
           /\ old' \in [Threads -> Mags \cup {NoOne}] /\ old_rounds' \in [Threads -> Counts]
           /\ pc'[t] = "idle" /\ op'[t] = "none" /\ nmp'[t] = NoOne
           /\ Hands(t)' /\ Section(t)' /\ ~Detached(t)' /\ \A b : ~Frees(t, b)'
           /\ \A u \in Threads \ {t} : on'[u] = on[u] => Keeps(u)
  <1>1. 0 \in Counts
    BY Sizes, SMT DEF Counts
  <1>2. /\ pc' \in [Threads -> PCs] /\ op' \in [Threads -> {"none", "alloc", "free"}]
        /\ cpu' \in [Threads -> CPUs \cup {NoOne}]
        /\ reload_cpu' \in [Threads -> CPUs \cup {NoOne}]
        /\ buf' \in [Threads -> Bufs \cup {NoOne}] /\ nrounds' \in [Threads -> Counts]
        /\ reg_mag' \in [Threads -> Mags \cup {NoOne}] /\ nmp' \in [Threads -> Mags \cup {NoOne}]
        /\ old' \in [Threads -> Mags \cup {NoOne}] /\ old_rounds' \in [Threads -> Counts]
    BY <1>1 DEF Done, Goto, TypesOK, PCs
  <1>3. pc'[t] = "idle" /\ op'[t] = "none" /\ nmp'[t] = NoOne
    BY DEF Done, Goto, TypesOK
  <1>4. Hands(t)' /\ Section(t)' /\ ~Detached(t)' /\ \A b : ~Frees(t, b)'
    BY <1>3 DEF Hands, Section, Detached, Frees, Reloading, Sections, FastSections, AttachSections
  <1>5. \A u \in Threads \ {t} : on'[u] = on[u] => Keeps(u)
    BY DEF Done, Goto, TypesOK, Keeps
  <1> QED
    BY <1>2, <1>3, <1>4, <1>5

\* A thread outside umem_rseq_reload has no magazine.
LEMMA NoMagazine ==
    ASSUME NEW t \in Threads, Hands(t), pc[t] \notin Reloading, pc[t] # "published"
    PROVE  nmp[t] = NoOne /\ ~Detached(t)
  BY DEF Hands, Reloading, Detached

\* Every shell stays where it is, and every slot, when only thread t moves,
\* outside a reload.
LEMMA ShellsStable ==
    ASSUME IInv, NEW t \in Threads, \A u \in Threads \ {t} : Keeps(u),
           UNCHANGED <<slotVars, depot>>, nmp[t] = NoOne, nmp'[t] = NoOne,
           ~Detached(t), ~Detached(t)'
    PROVE  /\ \A m \in Mags : Owned(m)' /\ Filled(m)'
           /\ \A m \in Mags : \A i \in Index : \A b : Stored(m, i, b)' <=> Stored(m, i, b)
           /\ \A u \in Threads \ {t} : Keeps(u) /\ Left(u)
           /\ SlotSound'
  <1>1. /\ rseq' = rseq /\ mag_type' = mag_type /\ mag_round' = mag_round /\ depot' = depot
    BY DEF slotVars
  <1>2. ASSUME NEW m \in Mags PROVE Same(m)
    <2>1. m # NoOne
      BY RseqConstants
    <2>2. \A u \in Threads \ {t} : Detached(u)' <=> Detached(u)
      BY DEF Keeps, Detached
    <2>3. \A u \in Threads : /\ nmp'[u] = m <=> nmp[u] = m
                             /\ nmp[u] = m => op'[u] = op[u]
                             /\ (old'[u] = m /\ Detached(u)') <=> (old[u] = m /\ Detached(u))
                             /\ old[u] = m /\ Detached(u) => old_rounds'[u] = old_rounds[u]
      BY <2>1, <2>2 DEF Keeps
    <2> QED
      BY <1>1, <2>3, HasStable
  <1>3. \A m \in Mags : Owned(m)' /\ Filled(m)' /\ \A i : Occ(m, i)' <=> Occ(m, i)
    BY <1>1, <1>2, SameOwned DEF IInv
  <1>4. \A m \in Mags : \A i \in Index : \A b : Stored(m, i, b)' <=> Stored(m, i, b)
    BY <1>1, <1>3 DEF Stored
  <1>5. \A u \in Threads \ {t} : Keeps(u) /\ Left(u)
    BY <1>1 DEF Left
  <1>6. SlotSound'
    BY <1>1 DEF IInv, SlotSound, Capacity
  <1> QED
    BY <1>3, <1>4, <1>5, <1>6

\* umem_rseq_ptc_free: the buffer is the call's from here on.
LEMMA CallFreeInv ==
    ASSUME IInv, NEW t \in Threads, CallFree(t)
    PROVE  IInv'
  <1>1. TypesOK /\ Hands(t) /\ pc[t] = "idle" /\ \A b \in Bufs : OneSpot(b)
    BY DEF IInv, CallFree
  <1>2. PICK b \in held : held' = held \ {b} /\ buf' = [buf EXCEPT ![t] = b]
    BY DEF CallFree
  <1>3. PICK c \in CPUs : cpu' = [cpu EXCEPT ![t] = c]
    BY DEF CallFree
  <1>4. /\ pc' = [pc EXCEPT ![t] = "free"] /\ op' = [op EXCEPT ![t] = "free"]
        /\ UNCHANGED <<slotVars, depotVars, on, reload_cpu, nrounds, reg_mag, nmp, old, old_rounds>>
    BY DEF CallFree, Goto
  <1>5. /\ pc'[t] = "free" /\ op'[t] = "free" /\ cpu'[t] = c /\ buf'[t] = b /\ b \in Bufs
        /\ op[t] = "none" /\ nmp[t] = NoOne /\ nmp'[t] = NoOne /\ on[t] = NoOne /\ on'[t] = NoOne
    BY <1>1, <1>2, <1>3, <1>4 DEF TypesOK, Hands, Sections, FastSections, AttachSections, Reloading
  <1>6. \A u \in Threads \ {t} : Keeps(u)
    BY <1>1, <1>2, <1>3, <1>4 DEF TypesOK, Keeps
  <1>7. TypesOK'
    BY <1>1, <1>2, <1>3, <1>4 DEF TypesOK, PCs, slotVars, depotVars
  <1>8. Hands(t)'
    BY <1>3, <1>5 DEF Hands, Reloading, Sections, FastSections, AttachSections
  <1>9. Section(t)' /\ ~Detached(t)' /\ ~Detached(t)
    BY <1>1, <1>5 DEF Section, AttachSections, Detached
  <1>10. /\ \A m \in Mags : Owned(m)' /\ Filled(m)'
         /\ \A m \in Mags : \A i \in Index : \A x : Stored(m, i, x)' <=> Stored(m, i, x)
         /\ \A u \in Threads \ {t} : Keeps(u) /\ Left(u)
         /\ SlotSound'
    BY <1>4, <1>5, <1>6, <1>9, ShellsStable DEF depotVars
  <1>11. below' = below /\ \A u \in Threads \ {t} : \A x : Frees(u, x)' <=> Frees(u, x)
    BY <1>4, <1>6 DEF depotVars, Frees, Keeps
  <1>12. \A x : Frees(t, x)' <=> x = b
    BY <1>5 DEF Frees
  <1>13. ASSUME NEW x \in Bufs PROVE OneSpot(x)'
    <2>1. CASE x = b
      <3>1. /\ b \notin below /\ \A u \in Threads : ~Frees(u, b)
            /\ \A m \in Mags : \A i \in Index : ~Stored(m, i, b)
        BY <1>1, <1>2, <1>5 DEF OneSpot
      <3>2. /\ b \notin below' /\ b \notin held' /\ \A u \in Threads : Frees(u, b)' <=> u = t
            /\ \A m \in Mags : \A i \in Index : ~Stored(m, i, b)'
        BY <1>2, <1>10, <1>11, <1>12, <3>1
      <3> QED
        BY <2>1, <3>2 DEF OneSpot
    <2>2. CASE x # b
      <3>1. \A u \in Threads : Frees(u, x)' <=> Frees(u, x)
        BY <1>5, <1>11, <1>12, <2>2 DEF Frees
      <3> QED
        BY <1>1, <1>2, <1>10, <1>11, <2>2, <3>1, SpotStable
    <2> QED
      BY <2>1, <2>2
  <1> QED
    BY <1>5, <1>7, <1>8, <1>9, <1>10, <1>13, ThreadSuffices

\* The layer has not served the call.  What it was to free goes below.
LEMMA MissedInv ==
    ASSUME IInv, NEW t \in Threads, Missed(t)
    PROVE  IInv'
  <1>1. TypesOK /\ Hands(t) /\ pc[t] = "missed" /\ \A b \in Bufs : OneSpot(b)
    BY DEF IInv, Missed
  <1>2. UNCHANGED <<slotVars, cache_magtype, depot, held, on>>
    BY DEF Missed
  <1>3. CASE ~armed[t]
    <2>1. /\ pc' = [pc EXCEPT ![t] = "slow"]
          /\ UNCHANGED <<below, op, cpu, reload_cpu, buf, nrounds, reg_mag, nmp, old, old_rounds>>
      BY <1>3 DEF Missed, Goto, callVars
    <2> QED
      BY <1>1, <1>2, <2>1, GivesUp DEF depotVars
  <1>4. CASE armed[t]
    <2>1. Done(t) /\ below' = IF op[t] = "free" THEN below \cup {buf[t]} ELSE below
      BY <1>4 DEF Missed
    <2>2. on'[t] = NoOne /\ nmp[t] = NoOne /\ ~Detached(t)
      BY <1>1, <1>2 DEF Hands, Reloading, Detached, Sections, FastSections, AttachSections
    <2>3. /\ nmp'[t] = NoOne /\ Hands(t)' /\ Section(t)' /\ ~Detached(t)'
          /\ \A b : ~Frees(t, b)'
          /\ \A u \in Threads \ {t} : Keeps(u)
      BY <1>1, <1>2, <2>1, <2>2, DoneIs
    <2>4. below' \subseteq Bufs
      BY <1>1, <2>1 DEF TypesOK, Hands
    <2>5. TypesOK'
      BY <1>1, <1>2, <2>1, <2>2, <2>4, DoneIs DEF TypesOK, slotVars
    <2>6. /\ \A m \in Mags : Owned(m)' /\ Filled(m)'
          /\ \A m \in Mags : \A i \in Index : \A x : Stored(m, i, x)' <=> Stored(m, i, x)
          /\ \A u \in Threads \ {t} : Keeps(u) /\ Left(u)
          /\ SlotSound'
      BY <1>2, <2>2, <2>3, ShellsStable
    <2>7. held' = held /\ \A u \in Threads \ {t} : \A x : Frees(u, x)' <=> Frees(u, x)
      BY <1>2, <2>3 DEF Frees, Keeps
    <2>8. ASSUME NEW x \in Bufs PROVE OneSpot(x)'
      <3>1. CASE Frees(t, x)
        <4>1. /\ x \notin held /\ \A u \in Threads \ {t} : ~Frees(u, x)
              /\ \A m \in Mags : \A i \in Index : ~Stored(m, i, x)
          BY <1>1, <3>1 DEF OneSpot
        <4>2. x \in below'
          BY <2>1, <3>1 DEF Frees
        <4>3. /\ x \notin held' /\ \A u \in Threads : ~Frees(u, x)'
              /\ \A m \in Mags : \A i \in Index : ~Stored(m, i, x)'
          BY <2>3, <2>6, <2>7, <4>1
        <4> QED
          BY <4>2, <4>3 DEF OneSpot
      <3>2. CASE ~Frees(t, x)
        <4>1. x \in below' <=> x \in below
          BY <2>1, <3>2 DEF Frees
        <4>2. \A u \in Threads : Frees(u, x)' <=> Frees(u, x)
          BY <2>3, <2>7, <3>2
        <4> QED
          BY <1>1, <2>6, <2>7, <4>1, <4>2, SpotStable
      <3> QED
        BY <3>1, <3>2
    <2> QED
      BY <2>2, <2>3, <2>5, <2>6, <2>8, ThreadSuffices
  <1> QED
    BY <1>3, <1>4

-----------------------------------------------------------------------------
(* Stores of the critical sections.                                        *)

\* What a store to a CPU's round count leaves in its slot,
LEMMA RoundsStored ==
    ASSUME TypesOK, NEW c \in CPUs, NEW n \in Counts, rseq' = [rseq EXCEPT ![c].rounds = n]
    PROVE  /\ rseq' \in [CPUs -> SlotRecords]
           /\ \A d \in CPUs \ {c} : rseq'[d] = rseq[d]
           /\ rseq'[c].rounds = n /\ rseq'[c].loaded_mag = rseq[c].loaded_mag /\ rseq'[c].magsize = rseq[c].magsize
  <1>1. rseq \in [CPUs -> SlotRecords] /\ rseq[c] \in SlotRecords
    BY SlotTypes DEF TypesOK
  <1>2. rseq'[c] = [rseq[c] EXCEPT !.rounds = n] /\ \A d \in CPUs \ {c} : rseq'[d] = rseq[d]
    BY <1>1
  <1>3. [rseq[c] EXCEPT !.rounds = n] \in SlotRecords
    BY <1>1, SMT DEF SlotRecords
  <1>4. rseq' \in [CPUs -> SlotRecords]
    BY <1>1, <1>3
  <1>5. rseq'[c].rounds = n /\ rseq'[c].loaded_mag = rseq[c].loaded_mag /\ rseq'[c].magsize = rseq[c].magsize
    BY <1>1, <1>2, SMT DEF SlotRecords
  <1> QED
    BY <1>2, <1>4, <1>5

\* to its size,
LEMMA MagsizeStored ==
    ASSUME TypesOK, NEW c \in CPUs, NEW n \in Counts, rseq' = [rseq EXCEPT ![c].magsize = n]
    PROVE  /\ rseq' \in [CPUs -> SlotRecords]
           /\ \A d \in CPUs \ {c} : rseq'[d] = rseq[d]
           /\ rseq'[c].magsize = n /\ rseq'[c].loaded_mag = rseq[c].loaded_mag /\ rseq'[c].rounds = rseq[c].rounds
  <1>1. rseq \in [CPUs -> SlotRecords] /\ rseq[c] \in SlotRecords
    BY SlotTypes DEF TypesOK
  <1>2. rseq'[c] = [rseq[c] EXCEPT !.magsize = n] /\ \A d \in CPUs \ {c} : rseq'[d] = rseq[d]
    BY <1>1
  <1>3. [rseq[c] EXCEPT !.magsize = n] \in SlotRecords
    BY <1>1, SMT DEF SlotRecords
  <1>4. rseq' \in [CPUs -> SlotRecords]
    BY <1>1, <1>3
  <1>5. rseq'[c].magsize = n /\ rseq'[c].loaded_mag = rseq[c].loaded_mag /\ rseq'[c].rounds = rseq[c].rounds
    BY <1>1, <1>2, SMT DEF SlotRecords
  <1> QED
    BY <1>2, <1>4, <1>5

\* and to its magazine.
LEMMA LoadedStored ==
    ASSUME TypesOK, NEW c \in CPUs, NEW m \in Mags \cup {NoOne}, rseq' = [rseq EXCEPT ![c].loaded_mag = m]
    PROVE  /\ rseq' \in [CPUs -> SlotRecords]
           /\ \A d \in CPUs \ {c} : rseq'[d] = rseq[d]
           /\ rseq'[c].loaded_mag = m /\ rseq'[c].rounds = rseq[c].rounds /\ rseq'[c].magsize = rseq[c].magsize
  <1>1. rseq \in [CPUs -> SlotRecords] /\ rseq[c] \in SlotRecords
    BY SlotTypes DEF TypesOK
  <1>2. rseq'[c] = [rseq[c] EXCEPT !.loaded_mag = m] /\ \A d \in CPUs \ {c} : rseq'[d] = rseq[d]
    BY <1>1
  <1>3. [rseq[c] EXCEPT !.loaded_mag = m] \in SlotRecords
    BY <1>1, SMT DEF SlotRecords
  <1>4. rseq' \in [CPUs -> SlotRecords]
    BY <1>1, <1>3
  <1>5. rseq'[c].loaded_mag = m /\ rseq'[c].rounds = rseq[c].rounds /\ rseq'[c].magsize = rseq[c].magsize
    BY <1>1, <1>2, SMT DEF SlotRecords
  <1> QED
    BY <1>2, <1>4, <1>5

\* A section that writes its own CPU's slot, and the magazine in it, is out of
\* reach of the sections of the other CPUs.
LEMMA SectionLeft ==
    ASSUME IInv, NEW t \in Threads, pc[t] \in Sections, \A u \in Threads \ {t} : Keeps(u),
           \A d \in CPUs \ {on[t]} : rseq'[d] = rseq[d], mag_type' = mag_type,
           \A m \in Mags : m # rseq[on[t]].loaded_mag => mag_round'[m] = mag_round[m]
    PROVE  /\ on[t] \in CPUs
           /\ \A u \in Threads \ {t} : Keeps(u) /\ Left(u)
  <1>1. TypesOK /\ Exclusive /\ \A u \in Threads : Hands(u)
    BY DEF IInv
  <1>2. on[t] \in CPUs /\ on[t] # NoOne
    BY <1>1, OnSlot
  <1>3. ASSUME NEW u \in Threads \ {t} PROVE Left(u)
    <2>1. CASE on[u] = NoOne
      BY <2>1 DEF Left
    <2>2. CASE on[u] # NoOne
      <3>1. on[u] \in CPUs /\ on[u] # on[t]
        BY <1>1, <1>2, <2>2 DEF TypesOK, Exclusive
      <3>2. CASE rseq[on[u]].loaded_mag = NoOne
        BY <3>1, <3>2 DEF Left
      <3>3. CASE rseq[on[u]].loaded_mag # NoOne
        <4> DEFINE m == rseq[on[u]].loaded_mag
        <4>1. m \in Mags
          BY <1>1, <3>1, <3>3, SlotTypes
        <4>2. "rseq" \in PlaceKinds /\ on[u] \in Where /\ on[t] \in Where
          BY <1>2, <3>1 DEF PlaceKinds, Where
        <4>3. Has("rseq", on[u], m)
          BY <3>1 DEF Has
        <4>4. Only("rseq", on[u], m)
          BY <4>1, <4>2, <4>3, OwnerIs DEF IInv
        <4>5. ~Has("rseq", on[t], m)
          BY <3>1, <4>2, <4>4 DEF Only
        <4>6. m # rseq[on[t]].loaded_mag
          BY <1>2, <4>5 DEF Has
        <4> QED
          BY <3>1, <4>1, <4>6 DEF Left
      <3> QED
        BY <3>2, <3>3
    <2> QED
      BY <2>1, <2>2
  <1> QED
    BY <1>2, <1>3

\* A shell keeps its owner when a section changes neither the slot's magazine nor
\* the ones in its thread's hands.
LEMMA SectionHas ==
    ASSUME NEW t \in Threads, \A u \in Threads \ {t} : Keeps(u), NEW m \in Mags, depot' = depot,
           NEW c \in CPUs, \A d \in CPUs \ {c} : rseq'[d] = rseq[d],
           rseq'[c].loaded_mag = m <=> rseq[c].loaded_mag = m,
           nmp'[t] = m <=> nmp[t] = m,
           (old'[t] = m /\ Detached(t)') <=> (old[t] = m /\ Detached(t))
    PROVE  \A k \in PlaceKinds : \A x \in Where : Has(k, x, m)' <=> Has(k, x, m)
  <1>1. \A u \in Threads \ {t} : Detached(u)' <=> Detached(u)
    BY DEF Keeps, Detached
  <1>2. \A u \in Threads : /\ nmp'[u] = m <=> nmp[u] = m
                           /\ (old'[u] = m /\ Detached(u)') <=> (old[u] = m /\ Detached(u))
    BY <1>1 DEF Keeps
  <1>3. \A d \in CPUs : rseq'[d].loaded_mag = m <=> rseq[d].loaded_mag = m
    OBVIOUS
  <1>4. ASSUME NEW k \in PlaceKinds, NEW x \in Where PROVE Has(k, x, m)' <=> Has(k, x, m)
    BY <1>2, <1>3 DEF Has
  <1> QED
    BY <1>4

\* And the same slots of it count, when the count is the same.
LEMMA SectionSame ==
    ASSUME NEW t \in Threads, \A u \in Threads \ {t} : Keeps(u), NEW m \in Mags, depot' = depot,
           Owned(m), Filled(m), mag_type' = mag_type,
           NEW c \in CPUs, \A d \in CPUs \ {c} : rseq'[d] = rseq[d],
           rseq'[c].loaded_mag = m <=> rseq[c].loaded_mag = m,
           rseq[c].loaded_mag = m => rseq'[c].rounds = rseq[c].rounds,
           nmp'[t] = m <=> nmp[t] = m, nmp[t] = m => op'[t] = op[t],
           (old'[t] = m /\ Detached(t)') <=> (old[t] = m /\ Detached(t)),
           old[t] = m /\ Detached(t) => old_rounds'[t] = old_rounds[t],
           \A i \in Index : Occ(m, i) => mag_round'[m][i] = mag_round[m][i]
    PROVE  /\ Owned(m)' /\ Filled(m)'
           /\ \A i : Occ(m, i)' <=> Occ(m, i)
           /\ \A i \in Index : \A b : Stored(m, i, b)' <=> Stored(m, i, b)
  <1>1. \A u \in Threads \ {t} : Detached(u)' <=> Detached(u)
    BY DEF Keeps, Detached
  <1>2. \A u \in Threads : /\ nmp'[u] = m <=> nmp[u] = m
                           /\ nmp[u] = m => op'[u] = op[u]
                           /\ (old'[u] = m /\ Detached(u)') <=> (old[u] = m /\ Detached(u))
                           /\ old[u] = m /\ Detached(u) => old_rounds'[u] = old_rounds[u]
    BY <1>1 DEF Keeps
  <1>3. /\ \A d \in CPUs : rseq'[d].loaded_mag = m <=> rseq[d].loaded_mag = m
        /\ \A d \in CPUs : rseq[d].loaded_mag = m => rseq'[d].rounds = rseq[d].rounds
    OBVIOUS
  <1>4. Same(m)
    BY <1>2, <1>3, HasStable
  <1>5. Owned(m)' /\ Filled(m)' /\ \A i : Occ(m, i)' <=> Occ(m, i)
    BY <1>4, SameOwned
  <1> QED
    BY <1>5 DEF Stored

\* A thread inside a section of umem_rseq_reload_attach is on the CPU it attaches
\* to, whose slot is NULL, and has a shell of a known size.
LEMMA Attaching ==
    ASSUME IInv, NEW t \in Threads, pc[t] \in AttachSections
    PROVE  /\ pc[t] \in Sections /\ on[t] = reload_cpu[t] /\ reload_cpu[t] \in CPUs
           /\ rseq[reload_cpu[t]].loaded_mag = NoOne
           /\ nmp[t] \in Mags /\ mag_type[nmp[t]] \in Types /\ Only("new", t, nmp[t])
           /\ ArmedRounds(t) \in Counts /\ ArmedMagsize(t) \in Counts
           /\ ArmedRounds(t) \in 0 .. Capacity(nmp[t])
  <1>1. TypesOK /\ Hands(t) /\ Section(t)
    BY DEF IInv
  <1>2. pc[t] \in Sections /\ pc[t] \notin FastSections
    BY DEF Sections, AttachSections, FastSections
  <1>3. on[t] = reload_cpu[t] /\ reload_cpu[t] \in CPUs /\ nmp[t] # NoOne
    BY <1>1, <1>2, OnSlot
  <1>4. nmp[t] \in Mags
    BY <1>1, <1>3 DEF TypesOK
  <1>5. "new" \in PlaceKinds /\ t \in Where /\ Has("new", t, nmp[t])
    BY DEF PlaceKinds, Where, Has
  <1>6. Only("new", t, nmp[t]) /\ mag_type[nmp[t]] \in Types
    BY <1>4, <1>5, OwnerIs DEF IInv
  <1>7. Capacity(nmp[t]) \in Counts /\ Capacity(nmp[t]) \in Nat /\ 0 \in Counts
    <2>1. 0 \in Counts
      BY Sizes, SMT DEF Counts
    <2> QED
      BY <1>1, <1>4, <1>6, <2>1, ShellCapacity
  <1>8. ArmedRounds(t) \in Counts /\ ArmedMagsize(t) \in Counts
    BY <1>7 DEF ArmedRounds, ArmedMagsize
  <1>9. ArmedRounds(t) \in 0 .. Capacity(nmp[t])
    BY <1>7, SMT DEF ArmedRounds
  <1> QED
    BY <1>1, <1>2, <1>3, <1>4, <1>6, <1>8, <1>9 DEF Section

\* The stores before the last go to a slot that is NULL, which nobody reads.
LEMMA AttachStores ==
    ASSUME IInv, NEW t \in Threads, NEW l, pc' = [pc EXCEPT ![t] = l],
           \/ pc[t] = "attach_rounds" /\ l = "attach_magsize"
           \/ pc[t] = "attach_magsize" /\ l = "attach_commit",
           rseq' \in [CPUs -> SlotRecords], rseq'[reload_cpu[t]].loaded_mag = NoOne,
           \A d \in CPUs \ {reload_cpu[t]} : rseq'[d] = rseq[d],
           l = "attach_magsize" => rseq'[reload_cpu[t]].rounds = ArmedRounds(t),
           l = "attach_commit" => /\ rseq'[reload_cpu[t]].rounds = ArmedRounds(t)
                                  /\ rseq'[reload_cpu[t]].magsize = ArmedMagsize(t),
           UNCHANGED <<mag_type, mag_round, depotVars, held, on, op, cpu, reload_cpu, buf, nrounds,
                       reg_mag, nmp, old, old_rounds>>
    PROVE  IInv'
  <1>1. TypesOK /\ Hands(t) /\ SlotSound /\ \A b \in Bufs : OneSpot(b)
    BY DEF IInv
  <1>2. pc[t] \in AttachSections
    BY DEF AttachSections
  <1>3. /\ pc[t] \in Sections /\ on[t] = reload_cpu[t] /\ reload_cpu[t] \in CPUs
        /\ rseq[reload_cpu[t]].loaded_mag = NoOne
    BY <1>2, Attaching
  <1>4. \A u \in Threads \ {t} : Keeps(u)
    BY <1>1 DEF TypesOK, Keeps
  <1>5. pc'[t] = l /\ l \in PCs /\ l \in AttachSections
    BY <1>1 DEF TypesOK, PCs, AttachSections
  <1>6. TypesOK'
    BY <1>1, <1>5 DEF TypesOK, depotVars
  <1>7. \A u \in Threads \ {t} : Keeps(u) /\ Left(u)
    BY <1>3, <1>4, SectionLeft
  <1>8. Hands(t)'
    <2>1. /\ l \in Reloading /\ pc[t] \in Reloading /\ l \in Sections /\ l \notin FastSections
          /\ l \notin {"idle", "alloc", "alloc_commit", "free", "free_store", "free_commit"}
          /\ pc[t] # "idle"
      BY DEF Reloading, Sections, FastSections, AttachSections
    <2>2. Slot(t)' = reload_cpu[t]
      BY <1>5, <2>1 DEF Slot
    <2> QED
      BY <1>1, <1>3, <1>5, <2>1, <2>2 DEF Hands
  <1>9. Section(t)'
    <2>1. ArmedRounds(t)' = ArmedRounds(t) /\ ArmedMagsize(t)' = ArmedMagsize(t)
      BY DEF ArmedRounds, ArmedMagsize, Capacity
    <2> QED
      BY <1>5, <2>1 DEF Section
  <1>10. Detached(t)' /\ Detached(t)
    BY <1>5 DEF Detached
  <1>11. ASSUME NEW m \in Mags
         PROVE  /\ Owned(m)' /\ Filled(m)'
                /\ \A i \in Index : \A b : Stored(m, i, b)' <=> Stored(m, i, b)
    <2>1. m # NoOne /\ Owned(m) /\ Filled(m)
      BY RseqConstants DEF IInv
    <2> QED
      BY <1>3, <1>4, <1>10, <2>1, SectionSame DEF depotVars
  <1>12. ASSUME NEW b \in Bufs PROVE OneSpot(b)'
    <2>1. \A u \in Threads : Frees(u, b)' <=> Frees(u, b)
      BY DEF Frees
    <2> QED
      BY <1>1, <1>11, <2>1, SpotStable DEF depotVars
  <1>13. SlotSound'
    BY <1>1 DEF SlotSound, Capacity
  <1>14. on'[t] # NoOne => \A u \in Threads \ {t} : on[u] # on'[t]
    BY <1>3 DEF IInv, Exclusive
  <1> QED
    BY <1>6, <1>7, <1>8, <1>9, <1>11, <1>12, <1>13, <1>14, ThreadSuffices

\* The stores of the round count and of the size.
LEMMA AttachRoundsInv ==
    ASSUME IInv, NEW t \in Threads, AttachRounds(t)
    PROVE  IInv'
  <1>1. TypesOK /\ pc[t] \in AttachSections
    BY DEF IInv, AttachRounds, AttachSections
  <1>2. /\ reload_cpu[t] \in CPUs /\ rseq[reload_cpu[t]].loaded_mag = NoOne
        /\ ArmedRounds(t) \in Counts
    BY <1>1, Attaching
  <1>3. rseq' = [rseq EXCEPT ![reload_cpu[t]].rounds = ArmedRounds(t)]
    BY DEF AttachRounds
  <1>4. /\ rseq' \in [CPUs -> SlotRecords] /\ rseq'[reload_cpu[t]].loaded_mag = NoOne
        /\ rseq'[reload_cpu[t]].rounds = ArmedRounds(t)
        /\ \A d \in CPUs \ {reload_cpu[t]} : rseq'[d] = rseq[d]
    BY <1>1, <1>2, <1>3, RoundsStored
  <1> QED
    BY <1>4, AttachStores DEF AttachRounds, Goto, callVars

\* The second store of umem_rseq_reload_attach, the size of the slot.
LEMMA AttachMagsizeInv ==
    ASSUME IInv, NEW t \in Threads, AttachMagsize(t)
    PROVE  IInv'
  <1>1. TypesOK /\ Section(t) /\ pc[t] = "attach_magsize" /\ pc[t] \in AttachSections
    BY DEF IInv, AttachMagsize, AttachSections
  <1>2. /\ reload_cpu[t] \in CPUs /\ rseq[reload_cpu[t]].loaded_mag = NoOne
        /\ ArmedMagsize(t) \in Counts
    BY <1>1, Attaching
  <1>3. rseq' = [rseq EXCEPT ![reload_cpu[t]].magsize = ArmedMagsize(t)]
    BY DEF AttachMagsize
  <1>4. /\ rseq' \in [CPUs -> SlotRecords] /\ rseq'[reload_cpu[t]].loaded_mag = NoOne
        /\ rseq'[reload_cpu[t]].magsize = ArmedMagsize(t)
        /\ rseq'[reload_cpu[t]].rounds = rseq[reload_cpu[t]].rounds
        /\ \A d \in CPUs \ {reload_cpu[t]} : rseq'[d] = rseq[d]
    BY <1>1, <1>2, <1>3, MagsizeStored
  <1>5. rseq'[reload_cpu[t]].rounds = ArmedRounds(t)
    BY <1>1, <1>4 DEF Section
  <1> QED
    BY <1>4, <1>5, AttachStores DEF AttachMagsize, Goto, callVars

\* The magazine in a slot has no other owner, and the slot's count is what counts.
LEMMA LoadedIs ==
    ASSUME IInv, NEW c \in CPUs, NEW m, m = rseq[c].loaded_mag, m # NoOne
    PROVE  /\ m \in Mags /\ mag_type[m] \in Types /\ Only("rseq", c, m)
           /\ \A i : Occ(m, i) <=> i <= rseq[c].rounds
           /\ Capacity(m) \in 1 .. MAXSIZE /\ rseq[c].rounds \in 0 .. Capacity(m)
           /\ rseq[c].magsize = Capacity(m)
           /\ \A i \in Index : i <= rseq[c].rounds => mag_round[m][i] \in Bufs
           /\ "rseq" \in PlaceKinds /\ c \in Where
  <1>1. TypesOK /\ SlotSound /\ m \in Mags
    BY SlotTypes DEF IInv
  <1>2. "rseq" \in PlaceKinds /\ c \in Where /\ Has("rseq", c, m)
    BY DEF PlaceKinds, Where, Has
  <1>3. Only("rseq", c, m) /\ mag_type[m] \in Types
    BY <1>1, <1>2, OwnerIs DEF IInv
  <1>4. N("rseq", c, m) = rseq[c].rounds
    BY DEF N
  <1>5. \A i : Occ(m, i) <=> i <= rseq[c].rounds
    BY <1>1, <1>2, <1>3, <1>4, OccIs
  <1>6. Capacity(m) \in 1 .. MAXSIZE
    BY <1>1, <1>3, ShellCapacity
  <1>7. rseq[c].rounds \in 0 .. Capacity(m) /\ rseq[c].magsize = Capacity(m)
    BY <1>1 DEF SlotSound
  <1>8. \A i \in Index : i <= rseq[c].rounds => mag_round[m][i] \in Bufs
    BY <1>1, <1>2, <1>4 DEF IInv, Filled
  <1> QED
    BY <1>1, <1>2, <1>3, <1>5, <1>6, <1>7, <1>8

\* A section stores another round count and returns, the shells staying where
\* they are.
LEMMA CountStored ==
    ASSUME IInv, NEW t \in Threads, pc[t] \in FastSections, NEW n \in Counts,
           rseq[cpu[t]].loaded_mag # NoOne, n <= rseq[cpu[t]].magsize,
           rseq' = [rseq EXCEPT ![cpu[t]].rounds = n],
           on' = [on EXCEPT ![t] = NoOne], Done(t),
           \A i \in Index : i <= n => mag_round[rseq[cpu[t]].loaded_mag][i] \in Bufs,
           UNCHANGED <<mag_type, mag_round, depotVars>>, held' \subseteq Bufs,
           \A b \in Bufs : OneSpot(b)'
    PROVE  IInv'
  <1>1. TypesOK /\ Hands(t) /\ SlotSound
    BY DEF IInv
  <1>2. pc[t] \in Sections /\ pc[t] \notin Reloading /\ pc[t] # "published" /\ ~Detached(t)
    BY DEF Sections, FastSections, Reloading, Detached
  <1>3. on[t] = cpu[t] /\ cpu[t] \in CPUs /\ on'[t] = NoOne /\ nmp[t] = NoOne
    BY <1>1, <1>2, OnSlot, NoMagazine DEF TypesOK
  <1>4. PICK c \in CPUs : c = cpu[t]
    BY <1>3
  <1>5. PICK m \in Mags : m = rseq[c].loaded_mag /\ m # NoOne
    BY <1>4, LoadedIs
  <1>6. /\ rseq' \in [CPUs -> SlotRecords] /\ \A d \in CPUs \ {c} : rseq'[d] = rseq[d]
        /\ rseq'[c].rounds = n /\ rseq'[c].loaded_mag = m /\ rseq'[c].magsize = rseq[c].magsize
    BY <1>1, <1>4, <1>5, RoundsStored
  <1>7. /\ nmp'[t] = NoOne /\ Hands(t)' /\ Section(t)' /\ ~Detached(t)'
        /\ \A u \in Threads \ {t} : Keeps(u)
    BY <1>1, <1>3, DoneIs DEF TypesOK
  <1>8. TypesOK'
    <2>1. on' \in [Threads -> CPUs \cup {NoOne}]
      BY <1>1 DEF TypesOK
    <2> QED
      BY <1>1, <1>3, <1>6, <2>1, DoneIs DEF TypesOK, depotVars
  <1>9. \A u \in Threads \ {t} : Keeps(u) /\ Left(u)
    BY <1>2, <1>3, <1>4, <1>6, <1>7, SectionLeft
  <1>10. ASSUME NEW x \in Mags, x # m PROVE Owned(x)' /\ Filled(x)'
    <2>1. x # NoOne /\ Owned(x) /\ Filled(x)
      BY RseqConstants DEF IInv
    <2> QED
      BY <1>2, <1>3, <1>5, <1>6, <1>7, <1>10, <2>1, SectionSame DEF depotVars
  <1>11. Owned(m)' /\ Filled(m)'
    <2>1. /\ "rseq" \in PlaceKinds /\ c \in Where /\ Only("rseq", c, m) /\ mag_type[m] \in Types
          /\ rseq[c].magsize = Capacity(m) /\ Capacity(m) \in 1 .. MAXSIZE
      BY <1>4, <1>5, LoadedIs
    <2>3. \A k \in PlaceKinds : \A y \in Where : Has(k, y, m)' <=> Has(k, y, m)
      BY <1>2, <1>3, <1>5, <1>6, <1>7, SectionHas DEF depotVars
    <2>4. Only("rseq", c, m)'
      BY <2>1, <2>3 DEF Only
    <2>5. N("rseq", c, m)' = n /\ Capacity(m)' = Capacity(m)
      BY <1>6 DEF N, Capacity
    <2>6. n \in 0 .. Capacity(m)
      <3>1. n <= Capacity(m) /\ n \in 0 .. MAXSIZE /\ MAXSIZE \in Nat
        BY <1>4, <2>1, Sizes DEF Counts
      <3> QED
        BY <2>1, <3>1, SMT
    <2>7. \A i \in Index : i <= n => mag_round'[m][i] \in Bufs
      BY <1>4, <1>5
    <2> QED
      BY <2>1, <2>4, <2>5, <2>6, <2>7, MovedTo
  <1>12. SlotSound'
    <2> SUFFICES ASSUME NEW d \in CPUs, rseq'[d].loaded_mag # NoOne
                 PROVE  /\ rseq'[d].magsize = Capacity(rseq'[d].loaded_mag)
                        /\ rseq'[d].rounds \in 0 .. rseq'[d].magsize
      BY DEF SlotSound, Capacity
    <2>2. CASE d = c
      <3>1. rseq[c].magsize = Capacity(m) /\ n <= rseq[c].magsize
        BY <1>4, <1>5, LoadedIs
      <3>2. n \in Nat /\ rseq[c].magsize \in Nat
        <4>1. MAXSIZE \in Nat
          BY Sizes
        <4> QED
          BY <1>1, <4>1, SlotTypes, SMT DEF Counts
      <3>3. n \in 0 .. rseq[c].magsize
        BY <3>1, <3>2, SMT
      <3> QED
        BY <1>6, <2>2, <3>1, <3>3
    <2>3. CASE d # c
      BY <1>1, <1>6, <2>3 DEF SlotSound
    <2> QED
      BY <2>2, <2>3
  <1> QED
    BY <1>3, <1>7, <1>8, <1>9, <1>10, <1>11, <1>12, ThreadSuffices

\* What counts after it.
LEMMA CountsAfter ==
    ASSUME IInv, NEW t \in Threads, pc[t] \in FastSections, NEW n \in Counts,
           NEW m \in Mags, m = rseq[cpu[t]].loaded_mag,
           rseq' = [rseq EXCEPT ![cpu[t]].rounds = n], on'[t] = NoOne, Done(t),
           \A u \in Threads \ {t} : on'[u] = on[u],
           UNCHANGED <<mag_type, mag_round, depot>>
    PROVE  /\ \A x \in Mags : x # m =>
                 \A i \in Index : \A b : Stored(x, i, b)' <=> Stored(x, i, b)
           /\ \A i : Occ(m, i)' <=> i <= n
  <1>1. TypesOK /\ Hands(t)
    BY DEF IInv
  <1>2. pc[t] \in Sections /\ pc[t] \notin Reloading /\ pc[t] # "published" /\ ~Detached(t)
    BY DEF Sections, FastSections, Reloading, Detached
  <1>3. cpu[t] \in CPUs /\ nmp[t] = NoOne
    BY <1>1, <1>2, OnSlot, NoMagazine
  <1>4. PICK c \in CPUs : c = cpu[t]
    BY <1>3
  <1>5. m = rseq[c].loaded_mag /\ m # NoOne
    BY <1>4, RseqConstants
  <1>6. /\ \A d \in CPUs \ {c} : rseq'[d] = rseq[d]
        /\ rseq'[c].rounds = n /\ rseq'[c].loaded_mag = m
    BY <1>1, <1>4, <1>5, RoundsStored
  <1>7. nmp'[t] = NoOne /\ ~Detached(t)' /\ \A u \in Threads \ {t} : Keeps(u)
    BY <1>1, DoneIs
  <1>8. ASSUME NEW x \in Mags, x # m
        PROVE  \A i \in Index : \A b : Stored(x, i, b)' <=> Stored(x, i, b)
    <2>1. x # NoOne /\ Owned(x) /\ Filled(x)
      BY RseqConstants DEF IInv
    <2> QED
      BY <1>2, <1>3, <1>5, <1>6, <1>7, <1>8, <2>1, SectionSame
  <1>9. \A i : Occ(m, i)' <=> i <= n
    <2>1. "rseq" \in PlaceKinds /\ c \in Where /\ Only("rseq", c, m)
      BY <1>4, <1>5, LoadedIs
    <2>3. \A k \in PlaceKinds : \A y \in Where : Has(k, y, m)' <=> Has(k, y, m)
      BY <1>2, <1>3, <1>5, <1>6, <1>7, SectionHas
    <2>4. N("rseq", c, m)' = n
      BY <1>6 DEF N
    <2> QED
      BY <2>1, <2>3, <2>4 DEF Occ, Only
  <1> QED
    BY <1>8, <1>9

\* The store that commits umem_rseq_alloc_fastpath: the round above the new count
\* is the caller's.
LEMMA AllocCommitInv ==
    ASSUME IInv, NEW t \in Threads, AllocCommit(t)
    PROVE  IInv'
  <1>1. TypesOK /\ Hands(t) /\ Section(t) /\ pc[t] = "alloc_commit" /\ \A b \in Bufs : OneSpot(b)
    BY DEF IInv, AllocCommit
  <1>2. pc[t] \in FastSections /\ pc[t] \in Sections /\ op[t] = "alloc"
    BY <1>1 DEF FastSections, Sections, Hands
  <1>3. cpu[t] \in CPUs /\ rseq[cpu[t]].loaded_mag # NoOne
    BY <1>1, <1>2, OnSlot DEF Section
  <1>4. PICK c \in CPUs : c = cpu[t]
    BY <1>3
  <1>5. PICK m \in Mags : m = rseq[c].loaded_mag /\ m # NoOne
    BY <1>3, <1>4, LoadedIs
  <1>6. PICK n \in Counts : n = nrounds[t]
    BY <1>1 DEF TypesOK
  <1>7. PICK b : b = buf[t]
    OBVIOUS
  <1>8. /\ rseq[c].rounds = n + 1 /\ mag_round[m][n + 1] = b
    BY <1>1, <1>4, <1>5, <1>6, <1>7 DEF Section
  <1>9. /\ Capacity(m) \in 1 .. MAXSIZE /\ rseq[c].rounds \in 0 .. Capacity(m)
        /\ rseq[c].magsize = Capacity(m) /\ \A i : Occ(m, i) <=> i <= rseq[c].rounds
        /\ \A i \in Index : i <= rseq[c].rounds => mag_round[m][i] \in Bufs
    BY <1>5, LoadedIs
  <1>10. /\ n + 1 \in Index /\ n <= rseq[c].magsize /\ n + 1 <= n + 1
         /\ \A i \in Index : i <= n + 1 <=> i <= n \/ i = n + 1
         /\ ~(n + 1 <= n)
    <2>1. MAXSIZE \in Nat /\ n \in 0 .. MAXSIZE
      BY Sizes DEF Counts
    <2> QED
      BY <1>8, <1>9, <2>1, SMT DEF Index
  <1>11. b \in Bufs /\ Stored(m, n + 1, b) /\ \A i \in Index : i <= n => mag_round[m][i] \in Bufs
    BY <1>8, <1>9, <1>10 DEF Stored
  <1>12. /\ rseq' = [rseq EXCEPT ![c].rounds = n] /\ held' = held \cup {b}
         /\ on' = [on EXCEPT ![t] = NoOne] /\ Done(t)
         /\ UNCHANGED <<mag_type, mag_round, depotVars>>
    BY <1>4, <1>6, <1>7 DEF AllocCommit
  <1>13. on'[t] = NoOne /\ \A u \in Threads \ {t} : on'[u] = on[u]
    BY <1>1, <1>12 DEF TypesOK
  <1>14. /\ \A x \in Mags : x # m => \A i \in Index : \A z : Stored(x, i, z)' <=> Stored(x, i, z)
         /\ \A i : Occ(m, i)' <=> i <= n
    BY <1>2, <1>4, <1>5, <1>12, <1>13, CountsAfter DEF depotVars
  <1>15. \A i \in Index : \A z : Stored(m, i, z)' <=> Stored(m, i, z) /\ i # n + 1
    <2>1. \A i \in Index : Occ(m, i)' <=> Occ(m, i) /\ i # n + 1
      <3> TAKE i \in Index
      <3>1. (Occ(m, i) <=> i <= n + 1) /\ (Occ(m, i)' <=> i <= n)
        BY <1>8, <1>9, <1>14
      <3> QED
        BY <1>10, <3>1
    <2>2. mag_round' = mag_round
      BY <1>12
    <2> QED
      BY <2>1, <2>2 DEF Stored
  <1>16. \A u \in Threads : \A z : Frees(u, z)' <=> Frees(u, z)
    <2>1. \A z : ~Frees(t, z)' /\ ~Frees(t, z)
      BY <1>1, <1>2, <1>12, <1>13, DoneIs DEF Frees
    <2>2. \A u \in Threads \ {t} : Keeps(u)
      BY <1>1, <1>12, <1>13, DoneIs
    <2> QED
      BY <2>1, <2>2 DEF Frees, Keeps
  <1>17. below' = below
    BY <1>12 DEF depotVars
  <1>18. ASSUME NEW x \in Bufs PROVE OneSpot(x)'
    <2>1. CASE x = b
      <3>1. /\ b \notin below /\ b \notin held /\ \A u \in Threads : ~Frees(u, b)
            /\ \A y \in Mags : \A j \in Index : Stored(y, j, b) => y = m /\ j = n + 1
        BY <1>1, <1>10, <1>11 DEF OneSpot
      <3>2. \A y \in Mags : \A j \in Index : ~Stored(y, j, b)'
        BY <1>14, <1>15, <3>1
      <3>3. b \in held' /\ b \notin below' /\ \A u \in Threads : ~Frees(u, b)'
        BY <1>12, <1>16, <1>17, <3>1
      <3> QED
        BY <2>1, <3>2, <3>3 DEF OneSpot
    <2>2. CASE x # b
      <3>1. ~Stored(m, n + 1, x)
        BY <1>8, <2>2 DEF Stored
      <3>2. \A y \in Mags : \A j \in Index : Stored(y, j, x)' <=> Stored(y, j, x)
        BY <1>14, <1>15, <3>1
      <3> QED
        BY <1>1, <1>12, <1>16, <1>17, <2>2, <3>2, SpotStable
    <2> QED
      BY <2>1, <2>2
  <1>19. held' \subseteq Bufs
    BY <1>1, <1>11, <1>12 DEF TypesOK
  <1> QED
    BY <1>2, <1>3, <1>4, <1>5, <1>10, <1>11, <1>12, <1>18, <1>19, CountStored

\* The store that commits umem_rseq_free_fastpath: the round below the new count
\* is the buffer the call was to free.
LEMMA FreeCommitInv ==
    ASSUME IInv, NEW t \in Threads, FreeCommit(t)
    PROVE  IInv'
  <1>1. TypesOK /\ Hands(t) /\ Section(t) /\ pc[t] = "free_commit" /\ \A b \in Bufs : OneSpot(b)
    BY DEF IInv, FreeCommit
  <1>2. pc[t] \in FastSections /\ pc[t] \in Sections /\ op[t] = "free"
    BY <1>1 DEF FastSections, Sections, Hands
  <1>3. /\ cpu[t] \in CPUs /\ reg_mag[t] # NoOne /\ rseq[cpu[t]].loaded_mag = reg_mag[t]
        /\ nrounds[t] = rseq[cpu[t]].rounds + 1 /\ nrounds[t] <= rseq[cpu[t]].magsize
        /\ mag_round[reg_mag[t]][nrounds[t]] = buf[t]
    BY <1>1, <1>2, OnSlot DEF Section
  <1>4. PICK c \in CPUs : c = cpu[t]
    BY <1>3
  <1>5. PICK m \in Mags : m = rseq[c].loaded_mag /\ m # NoOne
    BY <1>3, <1>4, LoadedIs
  <1>6. PICK n \in Counts : n = nrounds[t]
    BY <1>1 DEF TypesOK
  <1>7. PICK b \in Bufs : b = buf[t]
    BY <1>1, <1>2 DEF Hands
  <1>8. /\ n = rseq[c].rounds + 1 /\ n <= rseq[c].magsize /\ mag_round[m][n] = b
    BY <1>3, <1>4, <1>5, <1>6, <1>7
  <1>9. /\ Capacity(m) \in 1 .. MAXSIZE /\ rseq[c].rounds \in 0 .. Capacity(m)
        /\ rseq[c].magsize = Capacity(m) /\ \A i : Occ(m, i) <=> i <= rseq[c].rounds
        /\ \A i \in Index : i <= rseq[c].rounds => mag_round[m][i] \in Bufs
    BY <1>5, LoadedIs
  <1>10. /\ n \in Index /\ n <= n
         /\ \A i \in Index : i <= n <=> i <= rseq[c].rounds \/ i = n
         /\ ~(n <= rseq[c].rounds)
    <2>1. MAXSIZE \in Nat /\ n \in 0 .. MAXSIZE
      BY Sizes DEF Counts
    <2> QED
      BY <1>8, <1>9, <2>1, SMT DEF Index
  <1>11. \A i \in Index : i <= n => mag_round[m][i] \in Bufs
    BY <1>8, <1>9, <1>10
  <1>12. /\ rseq' = [rseq EXCEPT ![c].rounds = n] /\ held' = held
         /\ on' = [on EXCEPT ![t] = NoOne] /\ Done(t)
         /\ UNCHANGED <<mag_type, mag_round, depotVars>>
    BY <1>4, <1>6 DEF FreeCommit
  <1>13. on'[t] = NoOne /\ \A u \in Threads \ {t} : on'[u] = on[u]
    BY <1>1, <1>12 DEF TypesOK
  <1>14. /\ \A x \in Mags : x # m => \A i \in Index : \A z : Stored(x, i, z)' <=> Stored(x, i, z)
         /\ \A i : Occ(m, i)' <=> i <= n
    BY <1>2, <1>4, <1>5, <1>12, <1>13, CountsAfter DEF depotVars
  <1>15. \A i \in Index : \A z : Stored(m, i, z)' <=> Stored(m, i, z) \/ (i = n /\ z = b)
    BY <1>8, <1>9, <1>10, <1>12, <1>14 DEF Stored
  <1>16. /\ \A z : ~Frees(t, z)' /\ (Frees(t, z) <=> z = b)
         /\ \A u \in Threads \ {t} : \A z : Frees(u, z)' <=> Frees(u, z)
    <2>1. \A z : ~Frees(t, z)' /\ (Frees(t, z) <=> z = b)
      BY <1>1, <1>2, <1>7, <1>12, <1>13, DoneIs DEF Frees
    <2>2. \A u \in Threads \ {t} : Keeps(u)
      BY <1>1, <1>12, <1>13, DoneIs
    <2> QED
      BY <2>1, <2>2 DEF Frees, Keeps
  <1>17. below' = below
    BY <1>12 DEF depotVars
  <1>18. ASSUME NEW x \in Bufs PROVE OneSpot(x)'
    <2>1. CASE x = b
      <3>1. /\ b \notin below /\ b \notin held /\ \A u \in Threads : Frees(u, b) => u = t
            /\ \A y \in Mags : \A j \in Index : ~Stored(y, j, b)
        BY <1>1, <1>16 DEF OneSpot
      <3>2. \A y \in Mags : \A j \in Index : Stored(y, j, b)' <=> y = m /\ j = n
        BY <1>14, <1>15, <3>1
      <3>3. b \notin held' /\ b \notin below' /\ \A u \in Threads : ~Frees(u, b)'
        BY <1>12, <1>16, <1>17, <3>1
      <3> QED
        BY <1>10, <2>1, <3>2, <3>3 DEF OneSpot
    <2>2. CASE x # b
      <3>1. \A y \in Mags : \A j \in Index : Stored(y, j, x)' <=> Stored(y, j, x)
        BY <1>14, <1>15, <2>2
      <3>2. \A u \in Threads : Frees(u, x)' <=> Frees(u, x)
        BY <1>16, <2>2
      <3> QED
        BY <1>1, <1>12, <1>17, <3>1, <3>2, SpotStable
    <2> QED
      BY <2>1, <2>2
  <1>19. held' \subseteq Bufs
    BY <1>1, <1>12 DEF TypesOK
  <1> QED
    BY <1>2, <1>4, <1>5, <1>8, <1>11, <1>12, <1>18, <1>19, CountStored

\* A store to one slot of a shell.
LEMMA RoundStored ==
    ASSUME TypesOK, NEW m \in Mags, NEW n \in Index, NEW b \in Bufs,
           mag_round' = [mag_round EXCEPT ![m][n] = b]
    PROVE  /\ mag_round' \in [Mags -> [Index -> Bufs \cup {NoOne}]]
           /\ \A x \in Mags : x # m => mag_round'[x] = mag_round[x]
           /\ mag_round'[m][n] = b
           /\ \A i \in Index : i # n => mag_round'[m][i] = mag_round[m][i]
  <1>1. mag_round \in [Mags -> [Index -> Bufs \cup {NoOne}]]
    BY DEF TypesOK
  <1>2. mag_round[m] \in [Index -> Bufs \cup {NoOne}]
    BY <1>1
  <1>3. mag_round'[m] = [mag_round[m] EXCEPT ![n] = b]
    BY <1>1
  <1>4. [mag_round[m] EXCEPT ![n] = b] \in [Index -> Bufs \cup {NoOne}]
    BY <1>2
  <1>5. /\ mag_round' \in [Mags -> [Index -> Bufs \cup {NoOne}]]
        /\ \A x \in Mags : x # m => mag_round'[x] = mag_round[x]
    BY <1>1, <1>4
  <1>6. mag_round'[m][n] = b /\ \A i \in Index : i # n => mag_round'[m][i] = mag_round[m][i]
    BY <1>2, <1>3
  <1> QED
    BY <1>5, <1>6

\* The first store of umem_rseq_free_fastpath goes to a slot that does not count.
LEMMA FreeStoreInv ==
    ASSUME IInv, NEW t \in Threads, FreeStore(t)
    PROVE  IInv'
  <1>1. TypesOK /\ Hands(t) /\ Section(t) /\ SlotSound /\ pc[t] = "free_store"
    BY DEF IInv, FreeStore
  <1>2. pc[t] \in FastSections /\ pc[t] \in Sections /\ op[t] = "free"
    BY <1>1 DEF FastSections, Sections, Hands
  <1>3. /\ cpu[t] \in CPUs /\ on[t] = cpu[t]
        /\ reg_mag[t] # NoOne /\ rseq[cpu[t]].loaded_mag = reg_mag[t]
        /\ nrounds[t] = rseq[cpu[t]].rounds + 1 /\ nrounds[t] <= rseq[cpu[t]].magsize
    BY <1>1, <1>2, OnSlot DEF Section
  <1>4. PICK c \in CPUs : c = cpu[t]
    BY <1>3
  <1>5. PICK m \in Mags : m = rseq[c].loaded_mag /\ m # NoOne
    BY <1>3, <1>4, LoadedIs
  <1>6. PICK n \in Counts : n = nrounds[t]
    BY <1>1 DEF TypesOK
  <1>7. PICK b \in Bufs : b = buf[t]
    BY <1>1, <1>2 DEF Hands
  <1>8. /\ n = rseq[c].rounds + 1 /\ n <= rseq[c].magsize /\ m = reg_mag[t]
    BY <1>3, <1>4, <1>5, <1>6
  <1>9. /\ Capacity(m) \in 1 .. MAXSIZE /\ rseq[c].rounds \in 0 .. Capacity(m)
        /\ rseq[c].magsize = Capacity(m) /\ \A i : Occ(m, i) <=> i <= rseq[c].rounds
    BY <1>5, LoadedIs
  <1>10. n \in Index /\ ~(n <= rseq[c].rounds)
    <2>1. MAXSIZE \in Nat /\ n \in 0 .. MAXSIZE
      BY Sizes DEF Counts
    <2> QED
      BY <1>8, <1>9, <2>1, SMT DEF Index
  <1>11. /\ mag_round' = [mag_round EXCEPT ![m][n] = b] /\ pc' = [pc EXCEPT ![t] = "free_commit"]
         /\ UNCHANGED <<rseq, mag_type, depotVars, held, on, op, cpu, reload_cpu, buf, nrounds,
                        reg_mag, nmp, old, old_rounds>>
    BY <1>6, <1>7, <1>8 DEF FreeStore, Goto, callVars
  <1>12. /\ mag_round' \in [Mags -> [Index -> Bufs \cup {NoOne}]]
         /\ \A x \in Mags : x # m => mag_round'[x] = mag_round[x]
         /\ mag_round'[m][n] = b
         /\ \A i \in Index : i # n => mag_round'[m][i] = mag_round[m][i]
    BY <1>1, <1>10, <1>11, RoundStored
  <1>13. pc'[t] = "free_commit" /\ \A u \in Threads \ {t} : Keeps(u)
    BY <1>1, <1>11 DEF TypesOK, Keeps
  <1>14. TypesOK'
    BY <1>1, <1>11, <1>12 DEF TypesOK, PCs, depotVars
  <1>15. \A u \in Threads \ {t} : Keeps(u) /\ Left(u)
    BY <1>2, <1>3, <1>4, <1>5, <1>11, <1>12, <1>13, SectionLeft
  <1>16. Hands(t)'
    <2>1. Slot(t)' = cpu[t]
      BY <1>11, <1>13 DEF Slot, FastSections
    <2> QED
      BY <1>1, <1>2, <1>3, <1>11, <1>13, <2>1
      DEF Hands, Reloading, Sections, FastSections, AttachSections
  <1>17. Section(t)'
    BY <1>3, <1>6, <1>7, <1>8, <1>11, <1>12, <1>13 DEF Section, AttachSections
  <1>18. ~Detached(t)' /\ ~Detached(t)
    BY <1>1, <1>13 DEF Detached
  <1>19. ASSUME NEW x \in Mags
         PROVE  /\ Owned(x)' /\ Filled(x)'
                /\ \A i \in Index : \A z : Stored(x, i, z)' <=> Stored(x, i, z)
    <2>1. Owned(x) /\ Filled(x)
      BY DEF IInv
    <2>2. ASSUME NEW i \in Index, Occ(x, i) PROVE mag_round'[x][i] = mag_round[x][i]
      <3>1. CASE x = m
        BY <1>9, <1>10, <1>12, <2>2, <3>1
      <3>2. CASE x # m
        BY <1>12, <3>2
      <3> QED
        BY <3>1, <3>2
    <2> QED
      BY <1>4, <1>11, <1>13, <1>18, <2>1, <2>2, SectionSame DEF depotVars
  <1>20. ASSUME NEW x \in Bufs PROVE OneSpot(x)'
    <2>1. \A u \in Threads : Frees(u, x)' <=> Frees(u, x)
      BY <1>11 DEF Frees
    <2>2. OneSpot(x)
      BY DEF IInv
    <2> QED
      BY <1>11, <1>19, <2>1, <2>2, SpotStable DEF depotVars
  <1>21. SlotSound'
    BY <1>1, <1>11 DEF SlotSound, Capacity
  <1>22. on'[t] # NoOne => \A u \in Threads \ {t} : on[u] # on'[t]
    BY <1>11 DEF IInv, Exclusive
  <1> QED
    BY <1>14, <1>15, <1>16, <1>17, <1>19, <1>20, <1>21, <1>22, ThreadSuffices

-----------------------------------------------------------------------------
(* Steps that move a magazine.                                             *)

\* Where a shell is not, when its owner is known.
LEMMA OwnerGives ==
    ASSUME NEW m \in Mags, NEW k \in PlaceKinds, NEW x \in Where, Only(k, x, m)
    PROVE  /\ \A c \in CPUs : rseq[c].loaded_mag = m => k = "rseq" /\ x = c
           /\ \A q \in Kinds : m \in depot[q] => k = "depot" /\ x = q
           /\ \A u \in Threads : nmp[u] = m => k = "new" /\ x = u
           /\ \A u \in Threads : old[u] = m /\ Detached(u) => k = "old" /\ x = u
  <1>1. /\ "rseq" \in PlaceKinds /\ "depot" \in PlaceKinds /\ "new" \in PlaceKinds
        /\ "old" \in PlaceKinds
        /\ CPUs \subseteq Where /\ Kinds \subseteq Where /\ Threads \subseteq Where
    BY DEF PlaceKinds, Where
  <1>2. \A c \in CPUs : rseq[c].loaded_mag = m => k = "rseq" /\ x = c
    BY <1>1 DEF Only, Has
  <1>3. ASSUME NEW q \in Kinds, m \in depot[q] PROVE k = "depot" /\ x = q
    <2>1. Has("depot", q, m)
      BY <1>3 DEF Has
    <2> QED
      BY <1>1, <2>1 DEF Only
  <1>4. \A u \in Threads : nmp[u] = m => k = "new" /\ x = u
    BY <1>1 DEF Only, Has
  <1>5. \A u \in Threads : old[u] = m /\ Detached(u) => k = "old" /\ x = u
    BY <1>1 DEF Only, Has
  <1> QED
    BY <1>2, <1>3, <1>4, <1>5

\* A shell is in the one place that has it after the step.
LEMMA OwnerSet ==
    ASSUME NEW m \in Mags, NEW k \in PlaceKinds, NEW x \in Where, Has(k, x, m)',
           \A c \in CPUs : rseq'[c].loaded_mag = m => k = "rseq" /\ x = c,
           \A q \in Kinds : m \in depot'[q] => k = "depot" /\ x = q,
           \A u \in Threads : nmp'[u] = m => k = "new" /\ x = u,
           \A u \in Threads : old'[u] = m /\ Detached(u)' => k = "old" /\ x = u
    PROVE  Only(k, x, m)'
  <1>1. ASSUME NEW l \in PlaceKinds, NEW y \in Where, Has(l, y, m)' PROVE l = k /\ y = x
    BY <1>1 DEF Has
  <1> QED
    BY <1>1 DEF Only

\* The step gives shell m to another owner, who counts the same rounds in it.
Moved(m) ==
    \E k, l \in PlaceKinds : \E x, y \in Where :
        Only(k, x, m) /\ Only(l, y, m)' /\ N(l, y, m)' = N(k, x, m)

\* Then the buffers are where they were.
LEMMA MovedOwned ==
    ASSUME NEW m \in Mags, Owned(m), Filled(m), Moved(m),
           UNCHANGED <<mag_type, mag_round>>
    PROVE  /\ Owned(m)' /\ Filled(m)'
           /\ \A i : Occ(m, i)' <=> Occ(m, i)
  <1>1. PICK k, l \in PlaceKinds, x, y \in Where :
           Only(k, x, m) /\ Only(l, y, m)' /\ N(l, y, m)' = N(k, x, m)
    BY DEF Moved
  <1>2. Has(k, x, m) /\ mag_type[m] \in Types
    <2>1. Has(k, x, m)
      BY <1>1 DEF Only
    <2> QED
      BY <2>1, OwnerIs
  <1>3. PICK n : n = N(k, x, m)
    OBVIOUS
  <1>4. n \in 0 .. Capacity(m) /\ \A i \in Index : i <= n => mag_round[m][i] \in Bufs
    BY <1>2, <1>3 DEF Filled
  <1>5. Capacity(m)' = Capacity(m)
    BY DEF Capacity
  <1>6. Owned(m)' /\ Filled(m)' /\ \A i : Occ(m, i)' <=> i <= n
    BY <1>1, <1>2, <1>3, <1>4, <1>5, MovedTo
  <1>7. \A i : Occ(m, i) <=> i <= n
    BY <1>1, <1>3, OccIs
  <1> QED
    BY <1>6, <1>7

\* What is left to show for a step of thread t that moves shells and no buffer.
LEMMA MoveSuffices ==
    ASSUME IInv, NEW t \in Threads, \A u \in Threads \ {t} : Keeps(u) /\ Left(u),
           on'[t] # NoOne => \A u \in Threads \ {t} : on[u] # on'[t],
           \A m \in Mags : Same(m) \/ Moved(m),
           UNCHANGED <<mag_type, mag_round, below, held, op, buf>>,
           TypesOK', SlotSound', Hands(t)', Section(t)'
    PROVE  IInv'
  <1>1. ASSUME NEW m \in Mags
        PROVE  Owned(m)' /\ Filled(m)' /\ \A i : Occ(m, i)' <=> Occ(m, i)
    <2>1. Owned(m) /\ Filled(m)
      BY DEF IInv
    <2>2. CASE Same(m)
      BY <2>1, <2>2, SameOwned
    <2>3. CASE Moved(m)
      BY <2>1, <2>3, MovedOwned
    <2> QED
      BY <2>2, <2>3
  <1>2. ASSUME NEW b \in Bufs PROVE OneSpot(b)'
    <2>1. \A u \in Threads : Frees(u, b)' <=> Frees(u, b)
      BY DEF Frees
    <2>2. \A m \in Mags : \A i \in Index : Stored(m, i, b)' <=> Stored(m, i, b)
      BY <1>1 DEF Stored
    <2>3. OneSpot(b)
      BY DEF IInv
    <2> QED
      BY <2>1, <2>2, <2>3, SpotStable
  <1> QED
    BY <1>1, <1>2, ThreadSuffices

\* umem_rseq_reload_detach commits: the magazine is the thread's.
LEMMA DetachCommitInv ==
    ASSUME IInv, NEW t \in Threads, DetachCommit(t)
    PROVE  IInv'
  <1>1. TypesOK /\ Hands(t) /\ Section(t) /\ SlotSound /\ pc[t] = "detach_commit"
    BY DEF IInv, DetachCommit
  <1>2. pc[t] \in Sections /\ pc[t] \notin FastSections
    BY <1>1 DEF Sections, FastSections
  <1>3. reload_cpu[t] \in CPUs /\ on[t] = reload_cpu[t] /\ nmp[t] # NoOne
    BY <1>1, <1>2, OnSlot
  <1>4. PICK c \in CPUs : c = reload_cpu[t]
    BY <1>3
  <1>5. old[t] = rseq[c].loaded_mag /\ old_rounds[t] = rseq[c].rounds
    BY <1>1, <1>4 DEF Section
  <1>6. /\ rseq' = [rseq EXCEPT ![c].loaded_mag = NoOne] /\ on' = [on EXCEPT ![t] = NoOne]
        /\ pc' = [pc EXCEPT ![t] = "attach"]
        /\ UNCHANGED <<mag_type, mag_round, depotVars, held, op, cpu, reload_cpu, buf, nrounds,
                       reg_mag, nmp, old, old_rounds>>
    BY <1>4 DEF DetachCommit, Goto, callVars
  <1>7. /\ rseq' \in [CPUs -> SlotRecords] /\ \A d \in CPUs \ {c} : rseq'[d] = rseq[d]
        /\ rseq'[c].loaded_mag = NoOne
    <2>1. NoOne \in Mags \cup {NoOne}
      OBVIOUS
    <2> QED
      BY <1>1, <1>6, <2>1, LoadedStored
  <1>8. pc'[t] = "attach" /\ on'[t] = NoOne /\ \A u \in Threads \ {t} : Keeps(u)
    BY <1>1, <1>6 DEF TypesOK, Keeps
  <1>9. TypesOK'
    BY <1>1, <1>6, <1>7 DEF TypesOK, PCs, depotVars
  <1>10. \A u \in Threads \ {t} : Keeps(u) /\ Left(u)
    BY <1>2, <1>3, <1>4, <1>6, <1>7, <1>8, SectionLeft
  <1>11. Hands(t)' /\ Section(t)'
    <2>1. Hands(t)'
      BY <1>1, <1>3, <1>6, <1>8 DEF Hands, Reloading, Sections, FastSections, AttachSections
    <2>2. Section(t)'
      BY <1>8 DEF Section, AttachSections
    <2> QED
      BY <2>1, <2>2
  <1>12. Detached(t)' /\ ~Detached(t) /\ \A u \in Threads \ {t} : Detached(u)' <=> Detached(u)
    BY <1>1, <1>8 DEF Detached, Keeps
  <1>13. ASSUME NEW m \in Mags PROVE Same(m) \/ Moved(m)
    <2>1. m # NoOne
      BY RseqConstants
    <2>2. CASE m # rseq[c].loaded_mag
      <3>1. /\ \A d \in CPUs : rseq'[d].loaded_mag = m <=> rseq[d].loaded_mag = m
            /\ \A d \in CPUs : rseq[d].loaded_mag = m => rseq'[d].rounds = rseq[d].rounds
        BY <1>7, <2>1, <2>2
      <3>2. \A u \in Threads : (old'[u] = m /\ Detached(u)') <=> (old[u] = m /\ Detached(u))
        BY <1>5, <1>6, <1>12, <2>2
      <3>3. Same(m)
        BY <1>6, <3>1, <3>2, HasStable DEF depotVars
      <3> QED
        BY <3>3
    <2>3. CASE m = rseq[c].loaded_mag
      <3>1. "rseq" \in PlaceKinds /\ c \in Where /\ Only("rseq", c, m)
        <4>1. "rseq" \in PlaceKinds /\ c \in Where /\ Has("rseq", c, m)
          BY <2>3 DEF PlaceKinds, Where, Has
        <4> QED
          BY <4>1, OwnerIs DEF IInv
      <3>2. "old" \in PlaceKinds /\ t \in Where
        BY DEF PlaceKinds, Where
      <3>3. Has("old", t, m)'
        BY <1>5, <1>6, <1>12, <2>3 DEF Has
      <3>4. /\ \A d \in CPUs : rseq[d].loaded_mag = m => "rseq" = "rseq" /\ c = d
            /\ \A q \in Kinds : m \in depot[q] => "rseq" = "depot" /\ c = q
            /\ \A u \in Threads : nmp[u] = m => "rseq" = "new" /\ c = u
            /\ \A u \in Threads : old[u] = m /\ Detached(u) => "rseq" = "old" /\ c = u
        BY <3>1, OwnerGives
      <3>5. /\ \A d \in CPUs : rseq'[d].loaded_mag # m
            /\ \A q \in Kinds : m \notin depot'[q]
            /\ \A u \in Threads : nmp'[u] # m
            /\ \A u \in Threads : old'[u] = m /\ Detached(u)' => t = u
        BY <1>6, <1>7, <1>12, <2>1, <3>4 DEF depotVars
      <3>6. Only("old", t, m)'
        BY <3>2, <3>3, <3>5, OwnerSet
      <3>7. N("old", t, m)' = N("rseq", c, m)
        BY <1>5, <1>6 DEF N
      <3> QED
        BY <3>1, <3>2, <3>6, <3>7 DEF Moved
    <2> QED
      BY <2>2, <2>3
  <1>14. SlotSound'
    BY <1>1, <1>6, <1>7 DEF SlotSound, Capacity
  <1> QED
    BY <1>6, <1>8, <1>9, <1>10, <1>11, <1>13, <1>14, MoveSuffices DEF depotVars

\* umem_rseq_reload_attach commits: the magazine is the slot's, with the size and
\* the count stored before it.
LEMMA AttachCommitInv ==
    ASSUME IInv, NEW t \in Threads, AttachCommit(t)
    PROVE  IInv'
  <1>1. /\ TypesOK /\ Hands(t) /\ Section(t) /\ SlotSound
        /\ pc[t] = "attach_commit" /\ pc[t] \in AttachSections
    BY DEF IInv, AttachCommit, AttachSections
  <1>2. PICK c \in CPUs : c = reload_cpu[t]
    BY <1>1, Attaching
  <1>3. PICK m \in Mags : m = nmp[t]
    BY <1>1, Attaching
  <1>4. /\ pc[t] \in Sections /\ on[t] = c /\ rseq[c].loaded_mag = NoOne
        /\ mag_type[m] \in Types /\ Only("new", t, m) /\ ArmedRounds(t) \in 0 .. Capacity(m)
    BY <1>1, <1>2, <1>3, Attaching
  <1>5. rseq[c].rounds = ArmedRounds(t) /\ rseq[c].magsize = Capacity(m)
    BY <1>1, <1>2, <1>3 DEF Section, ArmedMagsize
  <1>6. /\ rseq' = [rseq EXCEPT ![c].loaded_mag = m] /\ on' = [on EXCEPT ![t] = NoOne]
        /\ pc' = [pc EXCEPT ![t] = "published"] /\ nmp' = [nmp EXCEPT ![t] = NoOne]
        /\ UNCHANGED <<mag_type, mag_round, depotVars, held, op, cpu, reload_cpu, buf, nrounds,
                       reg_mag, old, old_rounds>>
    BY <1>2, <1>3 DEF AttachCommit, Goto
  <1>7. /\ rseq' \in [CPUs -> SlotRecords] /\ \A d \in CPUs \ {c} : rseq'[d] = rseq[d]
        /\ rseq'[c].loaded_mag = m /\ rseq'[c].rounds = rseq[c].rounds
        /\ rseq'[c].magsize = rseq[c].magsize
    <2>1. m \in Mags \cup {NoOne}
      OBVIOUS
    <2> QED
      BY <1>1, <1>6, <2>1, LoadedStored
  <1>8. /\ pc'[t] = "published" /\ on'[t] = NoOne /\ nmp'[t] = NoOne
        /\ \A u \in Threads \ {t} : Keeps(u)
    BY <1>1, <1>6 DEF TypesOK, Keeps
  <1>9. TypesOK'
    BY <1>1, <1>6, <1>7 DEF TypesOK, PCs, depotVars
  <1>10. \A u \in Threads \ {t} : Keeps(u) /\ Left(u)
    BY <1>4, <1>6, <1>7, <1>8, SectionLeft
  <1>11. Hands(t)' /\ Section(t)'
    <2>1. Hands(t)'
      BY <1>1, <1>6, <1>8 DEF Hands, Reloading, Sections, FastSections, AttachSections
    <2>2. Section(t)'
      BY <1>8 DEF Section, AttachSections
    <2> QED
      BY <2>1, <2>2
  <1>12. \A u \in Threads : Detached(u)' <=> Detached(u)
    BY <1>1, <1>8 DEF Detached, Keeps
  <1>13. ASSUME NEW x \in Mags PROVE Same(x) \/ Moved(x)
    <2>1. x # NoOne
      BY RseqConstants
    <2>2. CASE x # m
      <3>1. /\ \A d \in CPUs : rseq'[d].loaded_mag = x <=> rseq[d].loaded_mag = x
            /\ \A d \in CPUs : rseq[d].loaded_mag = x => rseq'[d].rounds = rseq[d].rounds
        BY <1>4, <1>7, <2>1, <2>2
      <3>2. \A u \in Threads : nmp'[u] = x <=> nmp[u] = x
        BY <1>3, <1>8, <2>1, <2>2 DEF Keeps
      <3>3. Same(x)
        BY <1>6, <1>12, <3>1, <3>2, HasStable DEF depotVars
      <3> QED
        BY <3>3
    <2>3. CASE x = m
      <3>1. "rseq" \in PlaceKinds /\ c \in Where /\ "new" \in PlaceKinds /\ t \in Where
        BY DEF PlaceKinds, Where
      <3>2. Has("rseq", c, m)'
        BY <1>7 DEF Has
      <3>3. /\ \A d \in CPUs : rseq[d].loaded_mag = m => "new" = "rseq" /\ t = d
            /\ \A q \in Kinds : m \in depot[q] => "new" = "depot" /\ t = q
            /\ \A u \in Threads : nmp[u] = m => "new" = "new" /\ t = u
            /\ \A u \in Threads : old[u] = m /\ Detached(u) => "new" = "old" /\ t = u
        BY <1>4, <3>1, OwnerGives
      <3>4. /\ \A d \in CPUs : rseq'[d].loaded_mag = m => c = d
            /\ \A q \in Kinds : m \notin depot'[q]
            /\ \A u \in Threads : nmp'[u] # m
            /\ \A u \in Threads : ~(old'[u] = m /\ Detached(u)')
        <4>1. /\ \A d \in CPUs : rseq'[d].loaded_mag = m => c = d
              /\ \A q \in Kinds : m \notin depot'[q]
          BY <1>6, <1>7, <3>3 DEF depotVars
        <4>2. \A u \in Threads : nmp'[u] # m
          BY <1>8, <2>1, <2>3, <3>3 DEF Keeps
        <4>3. \A u \in Threads : ~(old'[u] = m /\ Detached(u)')
          BY <1>6, <1>12, <3>3
        <4> QED
          BY <4>1, <4>2, <4>3
      <3>5. Only("rseq", c, m)'
        BY <3>1, <3>2, <3>4, OwnerSet
      <3>6. N("rseq", c, m)' = N("new", t, m)
        BY <1>5, <1>7 DEF N
      <3> QED
        BY <1>4, <2>3, <3>1, <3>5, <3>6 DEF Moved
    <2> QED
      BY <2>2, <2>3
  <1>14. SlotSound'
    <2> SUFFICES ASSUME NEW d \in CPUs, rseq'[d].loaded_mag # NoOne
                 PROVE  /\ rseq'[d].magsize = Capacity(rseq'[d].loaded_mag)
                        /\ rseq'[d].rounds \in 0 .. rseq'[d].magsize
      BY <1>6 DEF SlotSound, Capacity
    <2>1. CASE d = c
      BY <1>4, <1>5, <1>7, <2>1
    <2>2. CASE d # c
      BY <1>1, <1>7, <2>2 DEF SlotSound
    <2> QED
      BY <2>1, <2>2
  <1> QED
    BY <1>6, <1>8, <1>9, <1>10, <1>11, <1>13, <1>14, MoveSuffices DEF depotVars

\* The slow path takes a magazine from the depot, with the rounds its list says,
\* or goes without.
LEMMA SlowInv ==
    ASSUME IInv, NEW t \in Threads, Slow(t)
    PROVE  IInv'
  <1>1. TypesOK /\ Hands(t) /\ SlotSound /\ pc[t] = "slow"
    BY DEF IInv, Slow
  <1>2. /\ reload_cpu' = [reload_cpu EXCEPT ![t] = cpu[t]]
        /\ UNCHANGED <<slotVars, cache_magtype, below, held, on, op, cpu, buf, nrounds, reg_mag, old,
                       old_rounds>>
    BY DEF Slow
  <1>3. /\ cpu[t] \in CPUs /\ nmp[t] = NoOne /\ on[t] = NoOne /\ op[t] \in {"alloc", "free"}
        /\ ~Detached(t) /\ reload_cpu'[t] = cpu[t]
    BY <1>1, <1>2 DEF Hands, TypesOK, Reloading, Sections, FastSections, AttachSections, Detached
  <1>4. CASE pc' = [pc EXCEPT ![t] = "missed"] /\ UNCHANGED <<depot, nmp>>
    <2>1. pc'[t] = "missed" /\ \A u \in Threads \ {t} : Keeps(u)
      BY <1>1, <1>2, <1>4 DEF TypesOK, Keeps
    <2>2. TypesOK'
      BY <1>1, <1>2, <1>3, <1>4 DEF TypesOK, PCs, slotVars
    <2>3. Hands(t)'
      BY <1>1, <1>2, <1>3, <1>4, <2>1
      DEF Hands, Reloading, Sections, FastSections, AttachSections
    <2>4. Section(t)' /\ ~Detached(t)'
      BY <2>1 DEF Section, AttachSections, Detached
    <2>5. \A b \in Bufs : Frees(t, b)' <=> Frees(t, b)
      BY <1>2 DEF Frees
    <2> QED
      BY <1>2, <1>3, <1>4, <2>1, <2>2, <2>3, <2>4, <2>5, QuietSuffices DEF depotVars
  <1>5. CASE \E m \in depot[SlowKind(t)] :
               /\ depot' = [depot EXCEPT ![SlowKind(t)] = @ \ {m}]
               /\ nmp' = [nmp EXCEPT ![t] = m] /\ pc' = [pc EXCEPT ![t] = "detach"]
    <2>1. PICK q \in Kinds : q = SlowKind(t)
      BY DEF SlowKind, Kinds
    <2>2. PICK m \in depot[q] :
             /\ depot' = [depot EXCEPT ![q] = @ \ {m}]
             /\ nmp' = [nmp EXCEPT ![t] = m] /\ pc' = [pc EXCEPT ![t] = "detach"]
      BY <1>5, <2>1
    <2>3. depot \in [Kinds -> SUBSET Mags] /\ m \in Mags /\ m # NoOne
      <3>1. depot \in [Kinds -> SUBSET Mags]
        BY <1>1 DEF TypesOK
      <3>2. depot[q] \in SUBSET Mags
        BY <3>1
      <3>3. m \in Mags
        BY <3>2
      <3> QED
        BY <3>1, <3>3, RseqConstants
    <2>4. /\ depot'[q] = depot[q] \ {m} /\ depot' \in [Kinds -> SUBSET Mags]
          /\ \A p \in Kinds : p # q => depot'[p] = depot[p]
      BY <2>2, <2>3
    <2>5. /\ pc'[t] = "detach" /\ nmp'[t] = m /\ \A u \in Threads \ {t} : Keeps(u)
      BY <1>1, <1>2, <2>2 DEF TypesOK, Keeps
    <2>6. TypesOK'
      BY <1>1, <1>2, <1>3, <2>2, <2>3, <2>4 DEF TypesOK, PCs, slotVars
    <2>7. Hands(t)'
      BY <1>1, <1>2, <1>3, <2>3, <2>5
      DEF Hands, Reloading, Sections, FastSections, AttachSections
    <2>8. Section(t)' /\ ~Detached(t)'
      BY <2>5 DEF Section, AttachSections, Detached
    <2>9. \A u \in Threads \ {t} : Keeps(u) /\ Left(u)
      BY <1>2, <2>5 DEF Left, slotVars
    <2>10. \A u \in Threads \ {t} : Detached(u)' <=> Detached(u)
      BY <2>5 DEF Keeps, Detached
    <2>11. ASSUME NEW x \in Mags PROVE Same(x) \/ Moved(x)
      <3>1. x # NoOne
        BY RseqConstants
      <3>2. CASE x # m
        <4>1. \A p \in Kinds : x \in depot'[p] <=> x \in depot[p]
          BY <2>4, <3>2
        <4>2. \A u \in Threads : nmp'[u] = x <=> nmp[u] = x
          BY <1>3, <2>5, <3>1, <3>2 DEF Keeps
        <4>3. \A u \in Threads : (old'[u] = x /\ Detached(u)') <=> (old[u] = x /\ Detached(u))
          BY <1>2, <1>3, <2>8, <2>10
        <4>4. Same(x)
          BY <1>2, <4>1, <4>2, <4>3, HasStable DEF slotVars
        <4> QED
          BY <4>4
      <3>3. CASE x = m
        <4>1. "depot" \in PlaceKinds /\ q \in Where /\ "new" \in PlaceKinds /\ t \in Where
          BY DEF PlaceKinds, Where
        <4>2. Has("depot", q, m) /\ Has("new", t, m)'
          BY <2>5 DEF Has
        <4>3. Only("depot", q, m)
          BY <2>3, <4>1, <4>2, OwnerIs DEF IInv
        <4>4. /\ \A d \in CPUs : rseq[d].loaded_mag = m => "depot" = "rseq" /\ q = d
              /\ \A p \in Kinds : m \in depot[p] => "depot" = "depot" /\ q = p
              /\ \A u \in Threads : nmp[u] = m => "depot" = "new" /\ q = u
              /\ \A u \in Threads : old[u] = m /\ Detached(u) => "depot" = "old" /\ q = u
          BY <2>3, <4>1, <4>3, OwnerGives
        <4>5. \A d \in CPUs : rseq'[d].loaded_mag # m
          BY <1>2, <4>4 DEF slotVars
        <4>6. \A p \in Kinds : m \notin depot'[p]
          BY <2>4, <4>4
        <4>7. \A u \in Threads : nmp'[u] = m => t = u
          BY <2>5, <4>4 DEF Keeps
        <4>8. \A u \in Threads : ~(old'[u] = m /\ Detached(u)')
          BY <1>2, <2>8, <2>10, <4>4
        <4>9. Only("new", t, m)'
          BY <2>3, <4>1, <4>2, <4>5, <4>6, <4>7, <4>8, OwnerSet
        <4>10. N("new", t, m)' = N("depot", q, m)
          BY <1>2, <1>3, <2>1, <2>5 DEF N, ArmedRounds, SlowKind, Capacity, slotVars
        <4> QED
          BY <3>3, <4>1, <4>3, <4>9, <4>10 DEF Moved
      <3> QED
        BY <3>2, <3>3
    <2>12. SlotSound'
      BY <1>1, <1>2 DEF SlotSound, Capacity, slotVars
    <2>13. on'[t] = NoOne
      BY <1>2, <1>3
    <2> QED
      BY <1>2, <2>6, <2>7, <2>8, <2>9, <2>11, <2>12, <2>13, MoveSuffices DEF slotVars
  <1> QED
    BY <1>4, <1>5 DEF Slow, Goto

\* Another attempt on the CPU the thread is on by now.  After the last one the
\* magazine goes back to the list it came from.
LEMMA RetryInv ==
    ASSUME IInv, NEW t \in Threads, Retry(t)
    PROVE  IInv'
  <1>1. TypesOK /\ Hands(t) /\ SlotSound /\ pc[t] = "retry"
    BY DEF IInv, Retry
  <1>2. /\ old' = [old EXCEPT ![t] = NoOne] /\ old_rounds' = [old_rounds EXCEPT ![t] = 0]
        /\ UNCHANGED <<slotVars, cache_magtype, below, held, on, op, cpu, buf, nrounds, reg_mag>>
    BY DEF Retry
  <1>3. /\ cpu[t] \in CPUs /\ nmp[t] # NoOne /\ on[t] = NoOne /\ op[t] \in {"alloc", "free"}
        /\ ~Detached(t) /\ reload_cpu[t] \in CPUs /\ 0 \in Counts
    <2>1. 0 \in Counts
      BY Sizes, SMT DEF Counts
    <2> QED
      BY <1>1, <2>1
      DEF Hands, TypesOK, Reloading, Sections, FastSections, AttachSections, Detached
  <1>4. CASE \E c \in CPUs : reload_cpu' = [reload_cpu EXCEPT ![t] = c] /\ UNCHANGED <<depot, nmp>>
                             /\ pc' = [pc EXCEPT ![t] = "detach"]
    <2>1. PICK c \in CPUs : reload_cpu' = [reload_cpu EXCEPT ![t] = c] /\ UNCHANGED <<depot, nmp>>
                            /\ pc' = [pc EXCEPT ![t] = "detach"]
      BY <1>4
    <2>2. pc'[t] = "detach" /\ reload_cpu'[t] = c /\ \A u \in Threads \ {t} : Keeps(u)
      BY <1>1, <1>2, <2>1 DEF TypesOK, Keeps
    <2>3. TypesOK'
      BY <1>1, <1>2, <1>3, <2>1 DEF TypesOK, PCs, slotVars
    <2>4. Hands(t)'
      BY <1>1, <1>2, <1>3, <2>1, <2>2
      DEF Hands, Reloading, Sections, FastSections, AttachSections
    <2>5. Section(t)' /\ ~Detached(t)'
      BY <2>2 DEF Section, AttachSections, Detached
    <2>6. \A b \in Bufs : Frees(t, b)' <=> Frees(t, b)
      BY <1>2 DEF Frees
    <2> QED
      BY <1>2, <1>3, <2>1, <2>2, <2>3, <2>4, <2>5, <2>6, QuietSuffices DEF depotVars
  <1>5. CASE /\ depot' = [depot EXCEPT ![SlowKind(t)] = @ \cup {nmp[t]}]
             /\ nmp' = [nmp EXCEPT ![t] = NoOne] /\ pc' = [pc EXCEPT ![t] = "missed"]
             /\ UNCHANGED reload_cpu
    <2>1. PICK q \in Kinds : q = SlowKind(t)
      BY DEF SlowKind, Kinds
    <2>2. PICK m \in Mags : m = nmp[t]
      BY <1>1, <1>3 DEF TypesOK
    <2>3. depot \in [Kinds -> SUBSET Mags] /\ m # NoOne
      BY <1>1, RseqConstants DEF TypesOK
    <2>4. /\ depot'[q] = depot[q] \cup {m} /\ depot' \in [Kinds -> SUBSET Mags]
          /\ \A p \in Kinds : p # q => depot'[p] = depot[p]
      BY <1>5, <2>1, <2>2, <2>3
    <2>5. /\ pc'[t] = "missed" /\ nmp'[t] = NoOne /\ \A u \in Threads \ {t} : Keeps(u)
      BY <1>1, <1>2, <1>5 DEF TypesOK, Keeps
    <2>6. TypesOK'
      BY <1>1, <1>2, <1>3, <1>5, <2>4 DEF TypesOK, PCs, slotVars
    <2>7. Hands(t)'
      BY <1>1, <1>2, <1>3, <2>5
      DEF Hands, Reloading, Sections, FastSections, AttachSections
    <2>8. Section(t)' /\ ~Detached(t)'
      BY <2>5 DEF Section, AttachSections, Detached
    <2>9. \A u \in Threads \ {t} : Keeps(u) /\ Left(u)
      BY <1>2, <2>5 DEF Left, slotVars
    <2>10. \A u \in Threads \ {t} : /\ Detached(u)' <=> Detached(u)
                                    /\ old'[u] = old[u] /\ old_rounds'[u] = old_rounds[u]
      BY <2>5 DEF Keeps, Detached
    <2>11. ASSUME NEW x \in Mags PROVE Same(x) \/ Moved(x)
      <3>1. x # NoOne
        BY RseqConstants
      <3>2. CASE x # m
        <4>1. \A p \in Kinds : x \in depot'[p] <=> x \in depot[p]
          BY <2>4, <3>2
        <4>2. \A u \in Threads : nmp'[u] = x <=> nmp[u] = x
          BY <2>2, <2>5, <3>1, <3>2 DEF Keeps
        <4>3. \A u \in Threads :
                 /\ (old'[u] = x /\ Detached(u)') <=> (old[u] = x /\ Detached(u))
                 /\ old[u] = x /\ Detached(u) => old_rounds'[u] = old_rounds[u]
          BY <1>3, <2>8, <2>10
        <4>4. Same(x)
          BY <1>2, <4>1, <4>2, <4>3, HasStable DEF slotVars
        <4> QED
          BY <4>4
      <3>3. CASE x = m
        <4>1. "depot" \in PlaceKinds /\ q \in Where /\ "new" \in PlaceKinds /\ t \in Where
          BY DEF PlaceKinds, Where
        <4>2. Has("new", t, m) /\ Has("depot", q, m)'
          BY <2>2, <2>4 DEF Has
        <4>3. Only("new", t, m)
          BY <4>1, <4>2, OwnerIs DEF IInv
        <4>4. /\ \A d \in CPUs : rseq[d].loaded_mag = m => "new" = "rseq" /\ t = d
              /\ \A p \in Kinds : m \in depot[p] => "new" = "depot" /\ t = p
              /\ \A u \in Threads : nmp[u] = m => "new" = "new" /\ t = u
              /\ \A u \in Threads : old[u] = m /\ Detached(u) => "new" = "old" /\ t = u
          BY <4>1, <4>3, OwnerGives
        <4>5. \A d \in CPUs : rseq'[d].loaded_mag # m
          BY <1>2, <4>4 DEF slotVars
        <4>6. \A p \in Kinds : m \in depot'[p] => q = p
          BY <2>4, <4>4
        <4>7. \A u \in Threads : nmp'[u] # m
          BY <2>3, <2>5, <4>4 DEF Keeps
        <4>8. \A u \in Threads : ~(old'[u] = m /\ Detached(u)')
          BY <2>8, <2>10, <4>4
        <4>9. Only("depot", q, m)'
          BY <4>1, <4>2, <4>5, <4>6, <4>7, <4>8, OwnerSet
        <4>10. N("depot", q, m)' = N("new", t, m)
          BY <1>2, <1>3, <2>1, <2>2 DEF N, ArmedRounds, SlowKind, Capacity, slotVars
        <4> QED
          BY <3>3, <4>1, <4>3, <4>9, <4>10 DEF Moved
      <3> QED
        BY <3>2, <3>3
    <2>12. SlotSound'
      BY <1>1, <1>2 DEF SlotSound, Capacity, slotVars
    <2>13. on'[t] = NoOne
      BY <1>2, <1>3
    <2> QED
      BY <1>2, <2>6, <2>7, <2>8, <2>9, <2>11, <2>12, <2>13, MoveSuffices DEF slotVars
  <1> QED
    BY <1>4, <1>5 DEF Retry, Goto

-----------------------------------------------------------------------------
(* Steps that empty magazines.                                             *)

\* A buffer, when the rounds of the shells in D go to the layers below.
LEMMA DrainSpot ==
    ASSUME NEW b \in Bufs, OneSpot(b), NEW D \in SUBSET Mags,
           b \in below' <=> (b \in below \/ \E m \in D : \E i \in Index : Stored(m, i, b)),
           b \in held' <=> b \in held,
           \A u \in Threads : Frees(u, b)' <=> Frees(u, b),
           \A m \in D : \A i \in Index : ~Stored(m, i, b)',
           \A m \in Mags \ D : \A i \in Index : Stored(m, i, b)' <=> Stored(m, i, b)
    PROVE  OneSpot(b)'
  <1>1. CASE \E m \in D : \E i \in Index : Stored(m, i, b)
    <2>1. PICK m \in D, i \in Index : Stored(m, i, b)
      BY <1>1
    <2>2. /\ b \notin held /\ \A u \in Threads : ~Frees(u, b)
          /\ \A n \in Mags : \A j \in Index : Stored(n, j, b) => n = m /\ j = i
      BY <2>1 DEF OneSpot
    <2>3. \A n \in Mags : \A j \in Index : ~Stored(n, j, b)'
      BY <2>2
    <2>4. b \in below' /\ b \notin held' /\ \A u \in Threads : ~Frees(u, b)'
      BY <1>1, <2>2
    <2> QED
      BY <2>3, <2>4 DEF OneSpot
  <1>2. CASE ~ \E m \in D : \E i \in Index : Stored(m, i, b)
    <2>1. \A m \in Mags : \A i \in Index : Stored(m, i, b)' <=> Stored(m, i, b)
      BY <1>2
    <2> QED
      BY <1>2, <2>1, SpotStable
  <1> QED
    BY <1>1, <1>2

\* A shell that is freed is nowhere.
LEMMA GoneOwned ==
    ASSUME NEW m \in Mags, mag_type'[m] \notin Types,
           \A c \in CPUs : rseq'[c].loaded_mag # m, \A q \in Kinds : m \notin depot'[q],
           \A u \in Threads : nmp'[u] # m,
           \A u \in Threads : ~(old'[u] = m /\ Detached(u)')
    PROVE  /\ Owned(m)' /\ Filled(m)'
           /\ \A i : ~Occ(m, i)'
  <1>1. ASSUME NEW k \in PlaceKinds, NEW x \in Where PROVE ~Has(k, x, m)'
    BY DEF Has
  <1>2. Owned(m)'
    BY <1>1 DEF Owned, Nowhere
  <1>3. Filled(m)' /\ \A i : ~Occ(m, i)'
    BY <1>1 DEF Filled, Occ
  <1> QED
    BY <1>2, <1>3

\* A shell in a place that counts no rounds.
LEMMA EmptyOwned ==
    ASSUME NEW m \in Mags, NEW k \in PlaceKinds, NEW x \in Where, Only(k, x, m)',
           mag_type'[m] \in Types, N(k, x, m)' = 0, 0 \in 0 .. Capacity(m)'
    PROVE  /\ Owned(m)' /\ Filled(m)'
           /\ \A i \in Index : ~Occ(m, i)'
  <1>1. \A i \in Index : ~(i <= 0)
    BY Positive
  <1>2. \A i \in Index : i <= 0 => mag_round'[m][i] \in Bufs
    BY <1>1
  <1>3. Owned(m)' /\ Filled(m)' /\ \A i : Occ(m, i)' <=> i <= 0
    BY <1>2, MovedTo
  <1> QED
    BY <1>1, <1>3

\* The magazine that was in the slot is returned: whole to the full list, a part
\* emptied first, one of another magtype freed.
LEMMA ReturnOldInv ==
    ASSUME IInv, NEW t \in Threads, ReturnOld(t)
    PROVE  IInv'
  <1>1. /\ TypesOK /\ Hands(t) /\ SlotSound /\ pc[t] \in {"published", "unpublished"}
        /\ \A b \in Bufs : OneSpot(b)
    BY DEF IInv, ReturnOld
  <1>2. PICK l : l = IF pc[t] = "published" THEN op[t] ELSE "retry"
    OBVIOUS
  <1>3. /\ pc' = [pc EXCEPT ![t] = l] /\ MagReturn(old[t], old_rounds[t])
        /\ old' = [old EXCEPT ![t] = NoOne] /\ old_rounds' = [old_rounds EXCEPT ![t] = 0]
        /\ UNCHANGED <<rseq, cache_magtype, held, on, op, cpu, reload_cpu, buf, nrounds, reg_mag,
                       nmp>>
    BY <1>2 DEF ReturnOld, Goto
  <1>4. op[t] \in {"alloc", "free"} /\ l \in {"alloc", "free", "retry"} /\ on[t] = NoOne
    BY <1>1, <1>2 DEF Hands, TypesOK, Sections, FastSections, AttachSections
  <1>5. pc'[t] = l /\ \A u \in Threads \ {t} : Keeps(u)
    BY <1>1, <1>3 DEF TypesOK, Keeps
  <1>6. Hands(t)'
    <2>1. pc[t] \in Reloading <=> l \in Reloading
      BY <1>1, <1>2, <1>4 DEF Reloading
    <2>2. (l = "alloc" => op[t] = "alloc") /\ (l = "free" => op[t] = "free")
      BY <1>2, <1>4
    <2>3. l \notin Sections
      BY <1>4 DEF Sections, FastSections, AttachSections
    <2> QED
      BY <1>1, <1>3, <1>4, <1>5, <2>1, <2>2, <2>3 DEF Hands
  <1>7. Section(t)' /\ ~Detached(t)' /\ Detached(t)
    BY <1>1, <1>4, <1>5 DEF Section, AttachSections, Detached
  <1>8. \A u \in Threads \ {t} : /\ Detached(u)' <=> Detached(u)
                                 /\ old'[u] = old[u] /\ old_rounds'[u] = old_rounds[u]
    BY <1>5 DEF Keeps, Detached
  <1>9. ASSUME depot' \in [Kinds -> SUBSET Mags], mag_type' \in [Mags -> {-1, 0} \cup Types],
               mag_round' \in [Mags -> [Index -> Bufs \cup {NoOne}]], below' \subseteq Bufs
        PROVE  TypesOK'
    <2>1. 0 \in Counts /\ l \in PCs
      BY <1>4, Sizes, ZeroCounts DEF PCs
    <2> QED
      BY <1>1, <1>3, <1>9, <2>1 DEF TypesOK
  <1>10. ASSUME NEW x \in Mags, x # old[t], mag_type'[x] = mag_type[x],
                \A q \in Kinds : x \in depot'[q] <=> x \in depot[q]
         PROVE  Same(x)
    <2>1. x # NoOne
      BY RseqConstants
    <2>2. \A u \in Threads : /\ (old'[u] = x /\ Detached(u)') <=> (old[u] = x /\ Detached(u))
                             /\ old[u] = x /\ Detached(u) => old_rounds'[u] = old_rounds[u]
      BY <1>7, <1>8, <1>10
    <2> QED
      BY <1>3, <1>10, <2>2, HasStable
  <1>11. CASE old[t] = NoOne
    <2>1. UNCHANGED <<below, depot, mag_type, mag_round>>
      BY <1>3, <1>11 DEF MagReturn
    <2>2. TypesOK'
      BY <1>1, <1>9, <2>1 DEF TypesOK
    <2>3. \A m \in Mags : Same(m)
      BY <1>10, <1>11, <2>1, RseqConstants
    <2>4. \A u \in Threads \ {t} : Keeps(u) /\ Left(u)
      BY <1>3, <1>5, <2>1 DEF Left
    <2>5. SlotSound'
      BY <1>1, <1>3, <2>1 DEF SlotSound, Capacity
    <2> QED
      BY <1>3, <1>4, <1>6, <1>7, <2>1, <2>2, <2>3, <2>4, <2>5, MoveSuffices
  <1>12. CASE old[t] # NoOne
    <2>1. PICK m \in Mags : m = old[t]
      BY <1>1, <1>12 DEF TypesOK
    <2>2. PICK n \in Counts : n = old_rounds[t]
      BY <1>1 DEF TypesOK
    <2>3. "old" \in PlaceKinds /\ t \in Where /\ Has("old", t, m) /\ N("old", t, m) = n
      BY <1>7, <2>1, <2>2 DEF PlaceKinds, Where, Has, N
    <2>4. Only("old", t, m) /\ mag_type[m] \in Types /\ m # NoOne
      BY <2>3, OwnerIs, RseqConstants DEF IInv
    <2>5. n \in 0 .. Capacity(m) /\ \A i \in Index : i <= n => mag_round[m][i] \in Bufs
      BY <2>3 DEF IInv, Filled
    <2>6. \A i : Occ(m, i) <=> i <= n
      BY <2>3, <2>4, OccIs
    <2>7. \A b : b \in Rounds(m, n) <=> \E i \in Index : Stored(m, i, b)
      <3>1. n \in 0 .. MAXSIZE
        BY DEF Counts
      <3>2. \A b : b \in Rounds(m, n) <=> \E i \in Index : i <= n /\ mag_round[m][i] = b
        BY <2>5, <3>1, RoundsAre
      <3> QED
        BY <2>6, <3>2 DEF Stored
    <2>8. Rounds(m, n) \subseteq Bufs
      BY <2>5, <2>6, <2>7 DEF Stored
    <2>9. /\ \A d \in CPUs : rseq[d].loaded_mag = m => "old" = "rseq" /\ t = d
          /\ \A q \in Kinds : m \in depot[q] => "old" = "depot" /\ t = q
          /\ \A u \in Threads : nmp[u] = m => "old" = "new" /\ t = u
          /\ \A u \in Threads : old[u] = m /\ Detached(u) => "old" = "old" /\ t = u
      BY <2>3, <2>4, OwnerGives
    <2>10. /\ \A d \in CPUs : rseq'[d].loaded_mag # m
           /\ \A q \in Kinds : m \notin depot[q]
           /\ \A u \in Threads : nmp'[u] # m
      BY <1>3, <2>9
    <2>11. \A u \in Threads : ~(old'[u] = m /\ Detached(u)')
      BY <1>7, <1>8, <2>9
    <2>12. ASSUME \A x \in Mags : x # m => mag_round'[x] = mag_round[x] /\ mag_type'[x] = mag_type[x]
           PROVE  (\A u \in Threads \ {t} : Keeps(u) /\ Left(u)) /\ SlotSound'
      <3>1. ASSUME NEW u \in Threads \ {t} PROVE Left(u)
        <4>1. nmp[u] \in Mags \cup {NoOne} /\ on[u] \in CPUs \cup {NoOne} /\ nmp[u] # m
          BY <1>1, <1>3, <2>10 DEF TypesOK
        <4>2. nmp[u] # NoOne => mag_type'[nmp[u]] = mag_type[nmp[u]]
          BY <2>12, <4>1
        <4>3. CASE on[u] = NoOne
          BY <4>2, <4>3 DEF Left
        <4>4. CASE on[u] # NoOne
          <5>1. on[u] \in CPUs /\ rseq[on[u]].loaded_mag # m
            BY <1>3, <2>10, <4>1, <4>4
          <5>2. rseq[on[u]].loaded_mag \in Mags \cup {NoOne}
            BY <1>1, <5>1, SlotTypes
          <5> QED
            BY <1>3, <2>12, <4>2, <5>1, <5>2 DEF Left
        <4> QED
          BY <4>3, <4>4
      <3>2. SlotSound'
        <4> SUFFICES ASSUME NEW d \in CPUs, rseq[d].loaded_mag # NoOne
                     PROVE  /\ rseq[d].magsize = MAGSIZES[mag_type'[rseq[d].loaded_mag]]
                            /\ rseq[d].rounds \in 0 .. rseq[d].magsize
          BY <1>3 DEF SlotSound, Capacity
        <4>1. rseq[d].loaded_mag \in Mags /\ rseq[d].loaded_mag # m
          BY <1>1, <1>3, <2>10, SlotTypes
        <4> QED
          BY <1>1, <2>12, <4>1 DEF SlotSound, Capacity
      <3> QED
        BY <1>5, <3>1, <3>2
    <2>13. ASSUME below' = below \cup Rounds(m, n), mag_type' \in [Mags -> {-1, 0} \cup Types],
                  depot' \in [Kinds -> SUBSET Mags],
                  \A q \in Kinds : \A x \in Mags : x # m => (x \in depot'[q] <=> x \in depot[q]),
                  mag_round' \in [Mags -> [Index -> Bufs \cup {NoOne}]],
                  \A x \in Mags : x # m => mag_round'[x] = mag_round[x] /\ mag_type'[x] = mag_type[x],
                  Owned(m)', Filled(m)', \A i \in Index : ~Occ(m, i)'
           PROVE  IInv'
      <3>1. TypesOK'
        <4>1. below' \subseteq Bufs
          BY <1>1, <2>8, <2>13 DEF TypesOK
        <4> QED
          BY <1>9, <2>13, <4>1
      <3>2. (\A u \in Threads \ {t} : Keeps(u) /\ Left(u)) /\ SlotSound'
        BY <2>12, <2>13
      <3>3. ASSUME NEW x \in Mags, x # m
            PROVE  /\ Owned(x)' /\ Filled(x)'
                   /\ \A i \in Index : \A b : Stored(x, i, b)' <=> Stored(x, i, b)
        <4>1. Same(x)
          BY <1>10, <2>1, <2>13, <3>3
        <4>2. Owned(x) /\ Filled(x) /\ mag_round'[x] = mag_round[x]
          BY <2>13, <3>3 DEF IInv
        <4>3. Owned(x)' /\ Filled(x)' /\ \A i : Occ(x, i)' <=> Occ(x, i)
          BY <4>1, <4>2, SameOwned
        <4> QED
          BY <4>2, <4>3 DEF Stored
      <3>4. ASSUME NEW b \in Bufs PROVE OneSpot(b)'
        <4>1. \A u \in Threads : Frees(u, b)' <=> Frees(u, b)
          BY <1>3 DEF Frees
        <4>2. \A i \in Index : ~Stored(m, i, b)'
          BY <2>13 DEF Stored
        <4>3. b \in below' <=> (b \in below \/ \E y \in {m} : \E i \in Index : Stored(y, i, b))
          BY <2>7, <2>13
        <4> QED
          BY <1>1, <1>3, <3>3, <4>1, <4>2, <4>3, DrainSpot
      <3>5. on'[t] = NoOne
        BY <1>3, <1>4
      <3> QED
        BY <1>6, <1>7, <2>13, <3>1, <3>2, <3>3, <3>4, <3>5, ThreadSuffices
    <2>14. CASE ~Valid(m)
      <3>1. /\ below' = below \cup Rounds(m, n) /\ mag_round' = Cleared(m, MAXSIZE)
            /\ mag_type' = [mag_type EXCEPT ![m] = -1] /\ depot' = depot
        BY <1>3, <2>1, <2>2, <2>4, <2>14 DEF MagReturn
      <3>2. /\ mag_type' \in [Mags -> {-1, 0} \cup Types] /\ mag_type'[m] = -1
            /\ \A x \in Mags : x # m => mag_type'[x] = mag_type[x]
        BY <1>1, <3>1 DEF TypesOK
      <3>3. /\ mag_round' \in [Mags -> [Index -> Bufs \cup {NoOne}]]
            /\ \A x \in Mags : x # m => mag_round'[x] = mag_round[x]
        BY <1>1, <3>1, ClearedIs
      <3>4. Owned(m)' /\ Filled(m)' /\ \A i : ~Occ(m, i)'
        BY <2>10, <2>11, <3>1, <3>2, NotTypes, GoneOwned
      <3>5. depot' \in [Kinds -> SUBSET Mags]
        BY <1>1, <3>1 DEF TypesOK
      <3> QED
        BY <2>13, <3>1, <3>2, <3>3, <3>4, <3>5
    <2>15. CASE Valid(m) /\ n = Capacity(m)
      <3>1. /\ below' = below /\ mag_round' = mag_round /\ mag_type' = mag_type
            /\ depot' = [depot EXCEPT !["full"] = @ \cup {m}]
        BY <1>3, <2>1, <2>2, <2>4, <2>15 DEF MagReturn
      <3>2. /\ depot' \in [Kinds -> SUBSET Mags] /\ m \in depot'["full"] /\ "full" \in Kinds
            /\ \A q \in Kinds : m \in depot'[q] => "full" = q
            /\ \A q \in Kinds : \A x \in Mags : x # m => (x \in depot'[q] <=> x \in depot[q])
        BY <1>1, <2>10, <3>1 DEF TypesOK, Kinds
      <3>3. TypesOK'
        BY <1>1, <1>9, <3>1, <3>2 DEF TypesOK
      <3>4. Moved(m)
        <4>1. "depot" \in PlaceKinds /\ "full" \in Where /\ Has("depot", "full", m)'
          BY <3>2 DEF PlaceKinds, Where, Has
        <4>2. Only("depot", "full", m)'
          BY <2>10, <2>11, <3>2, <4>1, OwnerSet
        <4>3. N("depot", "full", m)' = n
          BY <2>15, <3>1 DEF N, Capacity
        <4> QED
          BY <2>3, <2>4, <4>1, <4>2, <4>3 DEF Moved
      <3>5. \A x \in Mags : Same(x) \/ Moved(x)
        BY <1>10, <2>1, <3>1, <3>2, <3>4
      <3>6. (\A u \in Threads \ {t} : Keeps(u) /\ Left(u)) /\ SlotSound'
        BY <2>12, <3>1
      <3> QED
        BY <1>3, <1>4, <1>6, <1>7, <3>1, <3>3, <3>5, <3>6, MoveSuffices
    <2>16. CASE Valid(m) /\ n # Capacity(m)
      <3>1. /\ below' = below \cup Rounds(m, n) /\ mag_round' = Cleared(m, n)
            /\ mag_type' = mag_type /\ depot' = [depot EXCEPT !["empty"] = @ \cup {m}]
        BY <1>3, <2>1, <2>2, <2>4, <2>16 DEF MagReturn
      <3>2. /\ depot' \in [Kinds -> SUBSET Mags] /\ m \in depot'["empty"] /\ "empty" \in Kinds
            /\ \A q \in Kinds : m \in depot'[q] => "empty" = q
            /\ \A q \in Kinds : \A x \in Mags : x # m => (x \in depot'[q] <=> x \in depot[q])
        BY <1>1, <2>10, <3>1 DEF TypesOK, Kinds
      <3>3. /\ mag_round' \in [Mags -> [Index -> Bufs \cup {NoOne}]]
            /\ \A x \in Mags : x # m => mag_round'[x] = mag_round[x]
        BY <1>1, <3>1, ClearedIs
      <3>4. Owned(m)' /\ Filled(m)' /\ \A i \in Index : ~Occ(m, i)'
        <4>1. "depot" \in PlaceKinds /\ "empty" \in Where /\ Has("depot", "empty", m)'
          BY <3>2 DEF PlaceKinds, Where, Has
        <4>2. Only("depot", "empty", m)'
          BY <2>10, <2>11, <3>2, <4>1, OwnerSet
        <4>3. N("depot", "empty", m)' = 0
          BY DEF N
        <4>4. 0 \in 0 .. Capacity(m) /\ Capacity(m)' = Capacity(m)
          BY <1>1, <2>4, <3>1, EmptyFits DEF Capacity
        <4> QED
          BY <2>4, <3>1, <4>1, <4>2, <4>3, <4>4, EmptyOwned
      <3>5. mag_type' \in [Mags -> {-1, 0} \cup Types]
        BY <1>1, <3>1 DEF TypesOK
      <3> QED
        BY <2>13, <3>1, <3>2, <3>3, <3>4, <3>5
    <2> QED
      BY <2>14, <2>15, <2>16
  <1> QED
    BY <1>11, <1>12

-----------------------------------------------------------------------------
(* The rest of the cache.                                                  *)

\* What is left to show for a step of the rest of the cache, taken while no thread
\* is inside a section.
LEMMA EnvSuffices ==
    ASSUME IInv, \A u \in Threads : pc[u] \notin Sections, UNCHANGED <<on, pc, callVars>>,
           \A u \in Threads : nmp[u] # NoOne => mag_type'[nmp[u]] = mag_type[nmp[u]],
           TypesOK', SlotSound', \A m \in Mags : Owned(m)' /\ Filled(m)',
           \A b \in Bufs : OneSpot(b)'
    PROVE  IInv'
  <1>1. \A u \in Threads : Keeps(u)
    BY DEF Keeps, callVars
  <1>2. \A u \in Threads : Hands(u) /\ Section(u) /\ on[u] = NoOne
    BY DEF IInv, Hands
  <1>3. \A u \in Threads : Left(u)
    BY <1>2 DEF Left
  <1>4. \A u \in Threads : Hands(u)' /\ Section(u)'
    BY <1>1, <1>2, <1>3, ThreadStable
  <1>5. Exclusive'
    BY <1>2 DEF Exclusive
  <1> QED
    BY <1>4, <1>5 DEF IInv

\* A step of the rest of the cache that touches one shell, which no slot and no
\* thread has.
LEMMA OneShell ==
    ASSUME IInv, NEW m \in Mags, UNCHANGED <<rseq, on, pc, callVars>>,
           \A x \in Mags : x # m => mag_type'[x] = mag_type[x] /\ mag_round'[x] = mag_round[x],
           \A q \in Kinds : \A x \in Mags : x # m => (x \in depot'[q] <=> x \in depot[q]),
           \A c \in CPUs : rseq[c].loaded_mag # m, \A u \in Threads : nmp[u] # m
    PROVE  /\ \A x \in Mags : x # m =>
                 /\ Owned(x)' /\ Filled(x)'
                 /\ \A i \in Index : \A b : Stored(x, i, b)' <=> Stored(x, i, b)
           /\ \A u \in Threads : nmp[u] # NoOne => mag_type'[nmp[u]] = mag_type[nmp[u]]
           /\ SlotSound'
           /\ \A u \in Threads : \A b : Frees(u, b)' <=> Frees(u, b)
           /\ \A u \in Threads : Detached(u)' <=> Detached(u)
  <1>1. TypesOK /\ SlotSound
    BY DEF IInv
  <1>2. /\ op' = op /\ buf' = buf /\ nmp' = nmp /\ old' = old /\ old_rounds' = old_rounds
        /\ rseq' = rseq /\ pc' = pc
    BY DEF callVars
  <1>3. \A u \in Threads : Detached(u)' <=> Detached(u)
    BY <1>2 DEF Detached
  <1>4. ASSUME NEW x \in Mags, x # m
        PROVE  /\ Owned(x)' /\ Filled(x)'
               /\ \A i \in Index : \A b : Stored(x, i, b)' <=> Stored(x, i, b)
    <2>1. mag_type'[x] = mag_type[x] /\ mag_round'[x] = mag_round[x]
      BY <1>4
    <2>2. Same(x)
      BY <1>2, <1>3, <1>4, <2>1, HasStable
    <2>3. Owned(x) /\ Filled(x)
      BY DEF IInv
    <2>4. Owned(x)' /\ Filled(x)' /\ \A i : Occ(x, i)' <=> Occ(x, i)
      BY <2>1, <2>2, <2>3, SameOwned
    <2> QED
      BY <2>1, <2>4 DEF Stored
  <1>5. \A u \in Threads : nmp[u] \in Mags \cup {NoOne}
    BY <1>1 DEF TypesOK
  <1>6. SlotSound'
    <2> SUFFICES ASSUME NEW d \in CPUs, rseq[d].loaded_mag # NoOne
                 PROVE  /\ rseq[d].magsize = MAGSIZES[mag_type'[rseq[d].loaded_mag]]
                        /\ rseq[d].rounds \in 0 .. rseq[d].magsize
      BY <1>2 DEF SlotSound, Capacity
    <2>1. rseq[d].loaded_mag \in Mags /\ rseq[d].loaded_mag # m
      BY <1>1, SlotTypes
    <2> QED
      BY <1>1, <2>1 DEF SlotSound, Capacity
  <1>7. \A u \in Threads : \A b : Frees(u, b)' <=> Frees(u, b)
    BY <1>2 DEF Frees
  <1> QED
    BY <1>3, <1>4, <1>5, <1>6, <1>7

\* A step that takes rounds from below and puts them into one empty shell.
LEMMA FillSpot ==
    ASSUME NEW b \in Bufs, OneSpot(b), NEW m \in Mags, b \in held' <=> b \in held,
           \A u \in Threads : Frees(u, b)' <=> Frees(u, b),
           \A i \in Index : ~Stored(m, i, b),
           \A x \in Mags : x # m => \A i \in Index : Stored(x, i, b)' <=> Stored(x, i, b),
           \A i \in Index : Stored(m, i, b)' => b \in below,
           b \in below' <=> (b \in below /\ \A i \in Index : ~Stored(m, i, b)'),
           \A i, j \in Index : Stored(m, i, b)' /\ Stored(m, j, b)' => i = j
    PROVE  OneSpot(b)'
  <1>1. \/ b \in below' \/ b \in held'
        \/ \E t \in Threads : Frees(t, b)'
        \/ \E x \in Mags : \E i \in Index : Stored(x, i, b)'
    <2>1. CASE b \in below
      BY <2>1
    <2>2. CASE b \notin below /\ \E x \in Mags : \E i \in Index : Stored(x, i, b)
      <3>1. PICK x \in Mags, i \in Index : Stored(x, i, b)
        BY <2>2
      <3>2. Stored(x, i, b)'
        BY <3>1
      <3> QED
        BY <3>2
    <2>3. CASE b \in held \/ \E t \in Threads : Frees(t, b)
      BY <2>3
    <2> QED
      BY <2>1, <2>2, <2>3 DEF OneSpot
  <1>2. \A t \in Threads : Frees(t, b)' =>
           /\ b \notin below' /\ b \notin held'
           /\ \A u \in Threads : Frees(u, b)' => u = t
    BY DEF OneSpot
  <1>3. ASSUME NEW x \in Mags, NEW i \in Index, Stored(x, i, b)'
        PROVE  /\ b \notin below' /\ b \notin held'
               /\ \A t \in Threads : ~Frees(t, b)'
               /\ \A y \in Mags : \A j \in Index : Stored(y, j, b)' => y = x /\ j = i
    <2>1. CASE x = m
      <3>1. b \in below /\ b \notin below'
        BY <1>3, <2>1
      <3>2. b \notin held' /\ \A t \in Threads : ~Frees(t, b)'
        BY <3>1 DEF OneSpot
      <3>3. \A y \in Mags : \A j \in Index : ~Stored(y, j, b)
        BY <3>1 DEF OneSpot
      <3> QED
        BY <1>3, <2>1, <3>1, <3>2, <3>3
    <2>2. CASE x # m
      <3>1. Stored(x, i, b)
        BY <1>3, <2>2
      <3>2. /\ b \notin below /\ b \notin held /\ \A t \in Threads : ~Frees(t, b)
            /\ \A y \in Mags : \A j \in Index : Stored(y, j, b) => y = x /\ j = i
        BY <3>1 DEF OneSpot
      <3> QED
        BY <3>2
    <2> QED
      BY <2>1, <2>2
  <1>4. ~(b \in below' /\ b \in held')
    BY DEF OneSpot
  <1> QED
    BY <1>1, <1>2, <1>3, <1>4 DEF OneSpot

\* The CPU caches put a magazine into the depot, full of buffers from below or
\* empty.
LEMMA FeedDepotInv ==
    ASSUME IInv, NEW k \in Kinds, \A u \in Threads : pc[u] \notin Sections, FeedDepot(k)
    PROVE  IInv'
  <1>1. TypesOK /\ \A b \in Bufs : OneSpot(b)
    BY DEF IInv
  <1>2. PICK c \in Types : c = cache_magtype
    BY <1>1 DEF TypesOK
  <1>3. PICK n : n = MAGSIZES[c]
    OBVIOUS
  <1>4. n \in Counts /\ 0 \in 0 .. n /\ n \in 0 .. n /\ \A i \in Index : i <= n <=> i \in 1 .. n
    BY <1>3, FillSizes
  <1>5. PICK m \in Mags, fill \in [1 .. n -> below] :
          /\ mag_type[m] = 0
          /\ \A i, j \in DOMAIN fill : fill[i] = fill[j] => i = j
          /\ mag_type' = [mag_type EXCEPT ![m] = c]
          /\ depot' = [depot EXCEPT ![k] = @ \cup {m}]
          /\ IF k = "full"
             THEN /\ below' = below \ {fill[i] : i \in DOMAIN fill}
                  /\ mag_round' = [mag_round EXCEPT ![m] =
                                     [i \in 1..MAXSIZE |-> IF i \in DOMAIN fill THEN fill[i]
                                                           ELSE NoOne]]
             ELSE below' = below /\ mag_round' = mag_round
    BY <1>2, <1>3 DEF FeedDepot
  <1>6. UNCHANGED <<rseq, cache_magtype, held, on, pc, callVars>>
    BY DEF FeedDepot
  <1>7. Nowhere(m) /\ m # NoOne /\ DOMAIN fill = 1 .. n
    BY <1>5, NotTypes, RseqConstants DEF IInv, Owned
  <1>8. /\ \A d \in CPUs : rseq[d].loaded_mag # m
        /\ \A q \in Kinds : m \notin depot[q]
        /\ \A u \in Threads : nmp[u] # m
        /\ \A u \in Threads : ~(old[u] = m /\ Detached(u))
        /\ \A i : ~Occ(m, i)
    <2>1. \A l \in PlaceKinds : \A y \in Where : ~Has(l, y, m)
      BY <1>7 DEF Nowhere
    <2>2. \A d \in CPUs : rseq[d].loaded_mag # m
      <3> TAKE d \in CPUs
      <3>1. "rseq" \in PlaceKinds /\ d \in Where
        BY DEF PlaceKinds, Where
      <3> QED
        BY <2>1, <3>1 DEF Has
    <2>3. \A q \in Kinds : m \notin depot[q]
      <3> TAKE q \in Kinds
      <3>1. "depot" \in PlaceKinds /\ q \in Where
        BY DEF PlaceKinds, Where
      <3> QED
        BY <2>1, <3>1 DEF Has
    <2>4. \A u \in Threads : nmp[u] # m /\ ~(old[u] = m /\ Detached(u))
      <3> TAKE u \in Threads
      <3>1. "new" \in PlaceKinds /\ "old" \in PlaceKinds /\ u \in Where
        BY DEF PlaceKinds, Where
      <3> QED
        BY <2>1, <3>1 DEF Has
    <2>5. \A i : ~Occ(m, i)
      BY <2>1 DEF Occ
    <2> QED
      BY <2>2, <2>3, <2>4, <2>5
  <1>9. /\ mag_type' \in [Mags -> {-1, 0} \cup Types] /\ mag_type'[m] = c
        /\ \A x \in Mags : x # m => mag_type'[x] = mag_type[x]
    BY <1>1, <1>5 DEF TypesOK
  <1>10. /\ depot' \in [Kinds -> SUBSET Mags] /\ m \in depot'[k]
         /\ \A q \in Kinds : m \in depot'[q] => k = q
         /\ \A q \in Kinds : \A x \in Mags : x # m => (x \in depot'[q] <=> x \in depot[q])
    <2>1. depot \in [Kinds -> SUBSET Mags]
      BY <1>1 DEF TypesOK
    <2>2. \A q \in Kinds : depot'[q] = IF q = k THEN depot[q] \cup {m} ELSE depot[q]
      BY <1>5, <2>1
    <2>3. depot' \in [Kinds -> SUBSET Mags]
      BY <1>5, <2>1
    <2> QED
      BY <1>8, <2>2, <2>3
  <1>11. /\ mag_round' \in [Mags -> [Index -> Bufs \cup {NoOne}]] /\ below' \subseteq Bufs
         /\ \A x \in Mags : x # m => mag_round'[x] = mag_round[x]
         /\ k = "full" => \A i \in Index : i <= n => i \in 1 .. n /\ mag_round'[m][i] = fill[i]
    <2>1. mag_round \in [Mags -> [Index -> Bufs \cup {NoOne}]] /\ below \subseteq Bufs
      BY <1>1 DEF TypesOK
    <2>2. CASE k # "full"
      BY <1>5, <2>1, <2>2
    <2>3. CASE k = "full"
      <3> DEFINE f == [i \in 1 .. MAXSIZE |-> IF i \in DOMAIN fill THEN fill[i] ELSE NoOne]
      <3>1. f \in [Index -> Bufs \cup {NoOne}]
        <4>1. \A i \in DOMAIN fill : fill[i] \in Bufs
          BY <1>7, <2>1
        <4> QED
          BY <4>1 DEF Index
      <3>2. \A i \in Index : i <= n => i \in 1 .. n /\ f[i] = fill[i]
        BY <1>4, <1>7 DEF Index
      <3>3. mag_round' = [mag_round EXCEPT ![m] = f] /\ below' \subseteq Bufs
        BY <1>5, <2>1, <2>3
      <3> HIDE DEF f
      <3>4. mag_round' \in [Mags -> [Index -> Bufs \cup {NoOne}]] /\ mag_round'[m] = f
        BY <2>1, <3>1, <3>3
      <3>5. \A x \in Mags : x # m => mag_round'[x] = mag_round[x]
        BY <2>1, <3>3
      <3> QED
        BY <3>2, <3>3, <3>4, <3>5
    <2> QED
      BY <2>2, <2>3
  <1>12. TypesOK'
    BY <1>1, <1>6, <1>9, <1>10, <1>11 DEF TypesOK, callVars
  <1>13. /\ \A x \in Mags : x # m =>
               /\ Owned(x)' /\ Filled(x)'
               /\ \A i \in Index : \A b : Stored(x, i, b)' <=> Stored(x, i, b)
         /\ \A u \in Threads : nmp[u] # NoOne => mag_type'[nmp[u]] = mag_type[nmp[u]]
         /\ SlotSound'
         /\ \A u \in Threads : \A b : Frees(u, b)' <=> Frees(u, b)
         /\ \A u \in Threads : Detached(u)' <=> Detached(u)
    BY <1>6, <1>8, <1>9, <1>10, <1>11, OneShell
  <1>14. "depot" \in PlaceKinds /\ k \in Where /\ Has("depot", k, m)' /\ Only("depot", k, m)'
    <2>1. "depot" \in PlaceKinds /\ k \in Where /\ Has("depot", k, m)'
      BY <1>10 DEF PlaceKinds, Where, Has
    <2>2. nmp' = nmp /\ old' = old /\ rseq' = rseq
      BY <1>6 DEF callVars
    <2>3. \A u \in Threads : ~(old'[u] = m /\ Detached(u)')
      BY <1>8, <1>13, <2>2
    <2> QED
      BY <1>8, <1>10, <2>1, <2>2, <2>3, OwnerSet
  <1>15. Capacity(m)' = n /\ mag_type'[m] \in Types
    BY <1>3, <1>9 DEF Capacity
  <1>16. \A i \in Index : \A b : ~Stored(m, i, b)
    BY <1>8 DEF Stored
  <1>17. CASE k = "full"
    <2>1. N("depot", k, m)' = n
      BY <1>15, <1>17 DEF N
    <2>2. \A i \in Index : i <= n => mag_round'[m][i] \in below
      BY <1>11, <1>17
    <2>3. below \subseteq Bufs
      BY <1>1 DEF TypesOK
    <2>4. Owned(m)' /\ Filled(m)' /\ \A i : Occ(m, i)' <=> i <= n
      BY <1>4, <1>14, <1>15, <2>1, <2>2, <2>3, MovedTo
    <2>5. ASSUME NEW b \in Bufs PROVE OneSpot(b)'
      <3>1. \A i \in Index : Stored(m, i, b)' <=> i \in 1 .. n /\ fill[i] = b
        BY <1>4, <1>11, <1>17, <2>4 DEF Stored
      <3>2. \A i \in 1 .. n : i \in Index
        BY <1>3, FillSizes
      <3>3. b \in below' <=> (b \in below /\ \A i \in Index : ~Stored(m, i, b)')
        <4>1. below' = below \ {fill[i] : i \in 1 .. n}
          BY <1>5, <1>7, <1>17
        <4> QED
          BY <3>1, <3>2, <4>1
      <3>4. \A i, j \in Index : Stored(m, i, b)' /\ Stored(m, j, b)' => i = j
        BY <1>5, <1>7, <3>1
      <3>5. \A i \in Index : Stored(m, i, b)' => b \in below
        BY <3>1
      <3>6. \A x \in Mags : x # m => \A i \in Index : Stored(x, i, b)' <=> Stored(x, i, b)
        BY <1>13
      <3>7. /\ \A u \in Threads : Frees(u, b)' <=> Frees(u, b)
            /\ b \in held' <=> b \in held
            /\ \A i \in Index : ~Stored(m, i, b)
        BY <1>6, <1>13, <1>16
      <3> QED
        BY <1>1, <3>3, <3>4, <3>5, <3>6, <3>7, FillSpot
    <2> QED
      BY <1>6, <1>12, <1>13, <2>4, <2>5, EnvSuffices
  <1>18. CASE k # "full"
    <2>1. N("depot", k, m)' = 0
      BY <1>18 DEF N
    <2>2. Owned(m)' /\ Filled(m)' /\ \A i \in Index : ~Occ(m, i)'
      BY <1>4, <1>14, <1>15, <2>1, EmptyOwned
    <2>3. ASSUME NEW b \in Bufs PROVE OneSpot(b)'
      <3>1. \A x \in Mags : \A i \in Index : Stored(x, i, b)' <=> Stored(x, i, b)
        <4> TAKE x \in Mags
        <4>1. CASE x = m
          <5>1. \A i \in Index : ~Stored(m, i, b)'
            BY <2>2 DEF Stored
          <5> QED
            BY <1>16, <4>1, <5>1
        <4>2. CASE x # m
          BY <1>13, <4>2
        <4> QED
          BY <4>1, <4>2
      <3>2. below' = below /\ held' = held
        BY <1>5, <1>6, <1>18
      <3> QED
        BY <1>1, <1>13, <3>1, <3>2, SpotStable
    <2> QED
      BY <1>6, <1>12, <1>13, <2>2, <2>3, EnvSuffices
  <1> QED
    BY <1>17, <1>18

\* Destroying a magazine of the depot frees its rounds.
LEMMA DestroyMagazineInv ==
    ASSUME IInv, NEW k \in Kinds, \A u \in Threads : pc[u] \notin Sections, DestroyMagazine(k)
    PROVE  IInv'
  <1>1. TypesOK /\ \A b \in Bufs : OneSpot(b)
    BY DEF IInv
  <1>2. UNCHANGED <<rseq, cache_magtype, held, on, pc, callVars>>
    BY DEF DestroyMagazine
  <1>3. depot \in [Kinds -> SUBSET Mags]
    BY <1>1 DEF TypesOK
  <1>4. depot[k] \in SUBSET Mags
    BY <1>3
  <1>5. PICK m : /\ m \in depot[k]
                 /\ depot' = [depot EXCEPT ![k] = @ \ {m}]
                 /\ mag_type' = [mag_type EXCEPT ![m] = -1]
                 /\ mag_round' = Cleared(m, MAXSIZE)
                 /\ below' = IF k = "full" THEN below \cup Rounds(m, Capacity(m)) ELSE below
    BY DEF DestroyMagazine
  <1>6. m \in Mags
    BY <1>4, <1>5
  <1>7. "depot" \in PlaceKinds /\ k \in Where /\ Has("depot", k, m)
    BY <1>5 DEF PlaceKinds, Where, Has
  <1>8. Owned(m) /\ Filled(m)
    BY <1>6 DEF IInv
  <1>9. Only("depot", k, m) /\ mag_type[m] \in Types
    BY <1>6, <1>7, <1>8, OwnerIs
  <1>10. /\ \A d \in CPUs : rseq[d].loaded_mag = m => "depot" = "rseq" /\ k = d
         /\ \A q \in Kinds : m \in depot[q] => "depot" = "depot" /\ k = q
         /\ \A u \in Threads : nmp[u] = m => "depot" = "new" /\ k = u
         /\ \A u \in Threads : old[u] = m /\ Detached(u) => "depot" = "old" /\ k = u
    BY <1>6, <1>7, <1>9, OwnerGives
  <1>11. /\ \A d \in CPUs : rseq[d].loaded_mag # m
         /\ \A u \in Threads : nmp[u] # m /\ ~(old[u] = m /\ Detached(u))
    BY <1>10
  <1>12. /\ depot' \in [Kinds -> SUBSET Mags]
         /\ \A q \in Kinds : m \notin depot'[q]
         /\ \A q \in Kinds : \A x \in Mags : x # m => (x \in depot'[q] <=> x \in depot[q])
    <2>1. \A q \in Kinds : depot'[q] = IF q = k THEN depot[q] \ {m} ELSE depot[q]
      BY <1>3, <1>5
    <2>2. \A q \in Kinds : q # k => m \notin depot[q]
      BY <1>10
    <2>3. depot' \in [Kinds -> SUBSET Mags]
      BY <1>3, <1>5
    <2> QED
      BY <2>1, <2>2, <2>3
  <1>13. /\ mag_type' \in [Mags -> {-1, 0} \cup Types] /\ mag_type'[m] = -1
         /\ \A x \in Mags : x # m => mag_type'[x] = mag_type[x]
    BY <1>1, <1>5, <1>6 DEF TypesOK
  <1>14. /\ mag_round' \in [Mags -> [Index -> Bufs \cup {NoOne}]]
         /\ \A x \in Mags : x # m => mag_round'[x] = mag_round[x]
    BY <1>1, <1>5, <1>6, ClearedIs
  <1>15. /\ \A x \in Mags : x # m =>
               /\ Owned(x)' /\ Filled(x)'
               /\ \A i \in Index : \A b : Stored(x, i, b)' <=> Stored(x, i, b)
         /\ \A u \in Threads : nmp[u] # NoOne => mag_type'[nmp[u]] = mag_type[nmp[u]]
         /\ SlotSound'
         /\ \A u \in Threads : \A b : Frees(u, b)' <=> Frees(u, b)
         /\ \A u \in Threads : Detached(u)' <=> Detached(u)
    BY <1>2, <1>6, <1>11, <1>12, <1>13, <1>14, OneShell
  <1>16. Owned(m)' /\ Filled(m)' /\ \A i : ~Occ(m, i)'
    <2>1. rseq' = rseq /\ nmp' = nmp /\ old' = old
      BY <1>2 DEF callVars
    <2>2. mag_type'[m] \notin Types
      BY <1>13, NotTypes
    <2>3. \A u \in Threads : nmp'[u] # m /\ ~(old'[u] = m /\ Detached(u)')
      BY <1>11, <1>15, <2>1
    <2> QED
      BY <1>6, <1>11, <1>12, <2>1, <2>2, <2>3, GoneOwned
  <1>17. \A b : b \in below' <=> (b \in below \/ \E i \in Index : Stored(m, i, b))
    <2>1. CASE k = "full"
      <3>1. N("depot", k, m) = Capacity(m)
        BY <2>1 DEF N
      <3>2. \A i \in Index : i <= Capacity(m) => mag_round[m][i] \in Bufs
        BY <1>7, <1>8, <3>1 DEF Filled
      <3>3. Capacity(m) \in 0 .. MAXSIZE
        BY <1>1, <1>6, <1>9, ShellCapacity DEF Counts
      <3>4. \A b : b \in Rounds(m, Capacity(m))
                     <=> \E i \in Index : i <= Capacity(m) /\ mag_round[m][i] = b
        BY <1>6, <3>2, <3>3, RoundsAre
      <3>5. \A i : Occ(m, i) <=> i <= Capacity(m)
        BY <1>6, <1>7, <1>9, <3>1, OccIs
      <3>6. below' = below \cup Rounds(m, Capacity(m))
        BY <1>5, <2>1
      <3> QED
        BY <3>4, <3>5, <3>6 DEF Stored
    <2>2. CASE k # "full"
      <3>1. N("depot", k, m) = 0
        BY <2>2 DEF N
      <3>2. \A i \in Index : ~Occ(m, i)
        BY <1>6, <1>7, <1>9, <3>1, OccIs, Positive
      <3> QED
        BY <1>5, <2>2, <3>2 DEF Stored
    <2> QED
      BY <2>1, <2>2
  <1>18. ASSUME NEW b \in Bufs PROVE OneSpot(b)'
    <2>1. b \in below' <=> (b \in below \/ \E y \in {m} : \E i \in Index : Stored(y, i, b))
      BY <1>17
    <2>2. \A y \in {m} : \A i \in Index : ~Stored(y, i, b)'
      <3>1. \A i \in Index : ~Stored(m, i, b)'
        BY <1>16 DEF Stored
      <3> QED
        BY <3>1
    <2>3. \A y \in Mags \ {m} : \A i \in Index : Stored(y, i, b)' <=> Stored(y, i, b)
      BY <1>15
    <2>4. {m} \in SUBSET Mags
      BY <1>6
    <2> QED
      BY <1>1, <1>2, <1>15, <2>1, <2>2, <2>3, <2>4, DrainSpot
  <1>19. TypesOK'
    <2>1. below' \subseteq Bufs
      <3>1. \A b : (\E i \in Index : Stored(m, i, b)) => b \in Bufs
        BY <1>6, <1>7, <1>8, <1>9, OccIs DEF Stored, Filled
      <3> QED
        BY <1>1, <1>17, <3>1 DEF TypesOK
    <2> QED
      BY <1>1, <1>2, <1>12, <1>13, <1>14, <2>1 DEF TypesOK, callVars
  <1>20. \A x \in Mags : Owned(x)' /\ Filled(x)'
    BY <1>15, <1>16
  <1> QED
    BY <1>2, <1>15, <1>18, <1>19, <1>20, EnvSuffices

\* A step of the rest of the cache that touches no shell.
LEMMA NoShell ==
    ASSUME IInv, UNCHANGED <<slotVars, depot, on, pc, callVars>>
    PROVE  /\ SlotSound'
           /\ \A u \in Threads : nmp[u] # NoOne => mag_type'[nmp[u]] = mag_type[nmp[u]]
           /\ \A m \in Mags : Owned(m)' /\ Filled(m)'
           /\ \A m \in Mags : \A i \in Index : \A b : Stored(m, i, b)' <=> Stored(m, i, b)
           /\ \A u \in Threads : \A b : Frees(u, b)' <=> Frees(u, b)
  <1>1. /\ op' = op /\ buf' = buf /\ nmp' = nmp /\ old' = old /\ old_rounds' = old_rounds
        /\ rseq' = rseq /\ pc' = pc /\ mag_type' = mag_type /\ mag_round' = mag_round
        /\ depot' = depot
    BY DEF callVars, slotVars
  <1>2. \A u \in Threads : Detached(u)' <=> Detached(u)
    BY <1>1 DEF Detached
  <1>3. \A m \in Mags : Same(m)
    BY <1>1, <1>2, HasStable
  <1>4. \A m \in Mags : Owned(m)' /\ Filled(m)' /\ \A i : Occ(m, i)' <=> Occ(m, i)
    BY <1>1, <1>3, SameOwned DEF IInv
  <1>5. \A m \in Mags : \A i \in Index : \A b : Stored(m, i, b)' <=> Stored(m, i, b)
    BY <1>1, <1>4 DEF Stored
  <1>6. SlotSound'
    BY <1>1 DEF IInv, SlotSound, Capacity
  <1>7. \A u \in Threads : \A b : Frees(u, b)' <=> Frees(u, b)
    BY <1>1 DEF Frees
  <1> QED
    BY <1>1, <1>4, <1>5, <1>6, <1>7

\* A caller gets a buffer from below.
LEMMA AllocBelowInv ==
    ASSUME IInv, \A u \in Threads : pc[u] \notin Sections, AllocBelow
    PROVE  IInv'
  <1>1. TypesOK /\ \A b \in Bufs : OneSpot(b)
    BY DEF IInv
  <1>2. UNCHANGED <<slotVars, cache_magtype, depot, on, pc, callVars>>
    BY DEF AllocBelow
  <1>3. PICK a \in below : below' = below \ {a} /\ held' = held \cup {a}
    BY DEF AllocBelow
  <1>4. /\ SlotSound'
        /\ \A u \in Threads : nmp[u] # NoOne => mag_type'[nmp[u]] = mag_type[nmp[u]]
        /\ \A m \in Mags : Owned(m)' /\ Filled(m)'
        /\ \A m \in Mags : \A i \in Index : \A b : Stored(m, i, b)' <=> Stored(m, i, b)
        /\ \A u \in Threads : \A b : Frees(u, b)' <=> Frees(u, b)
    BY <1>2, NoShell
  <1>5. ASSUME NEW b \in Bufs PROVE OneSpot(b)'
    <2>1. CASE b = a
      <3>1. /\ b \notin held /\ \A t \in Threads : ~Frees(t, b)
            /\ \A m \in Mags : \A i \in Index : ~Stored(m, i, b)
        BY <1>1, <1>3, <2>1 DEF OneSpot
      <3>2. /\ b \in held' /\ b \notin below' /\ \A t \in Threads : ~Frees(t, b)'
            /\ \A m \in Mags : \A i \in Index : ~Stored(m, i, b)'
        BY <1>3, <1>4, <2>1, <3>1
      <3> QED
        BY <3>2 DEF OneSpot
    <2>2. CASE b # a
      BY <1>1, <1>3, <1>4, <2>2, SpotStable
    <2> QED
      BY <2>1, <2>2
  <1>6. TypesOK'
    BY <1>1, <1>2, <1>3 DEF TypesOK, callVars, slotVars
  <1> QED
    BY <1>2, <1>4, <1>5, <1>6, EnvSuffices

\* The cache's magazine size changes, and cache_rseq[] is left alone.
LEMMA ResizeInv ==
    ASSUME IInv, \A u \in Threads : pc[u] \notin Sections, Resize
    PROVE  IInv'
  <1>1. TypesOK /\ \A b \in Bufs : OneSpot(b)
    BY DEF IInv
  <1>2. UNCHANGED <<slotVars, depot, below, held, on, pc, callVars>>
    BY DEF Resize
  <1>3. /\ SlotSound'
        /\ \A u \in Threads : nmp[u] # NoOne => mag_type'[nmp[u]] = mag_type[nmp[u]]
        /\ \A m \in Mags : Owned(m)' /\ Filled(m)'
        /\ \A m \in Mags : \A i \in Index : \A b : Stored(m, i, b)' <=> Stored(m, i, b)
        /\ \A u \in Threads : \A b : Frees(u, b)' <=> Frees(u, b)
    BY <1>2, NoShell
  <1>4. \A b \in Bufs : OneSpot(b)'
    BY <1>1, <1>2, <1>3, SpotStable
  <1>5. cache_magtype' \in Types
    BY <1>1, NextType DEF Resize, TypesOK
  <1>6. TypesOK'
    BY <1>1, <1>2, <1>5 DEF TypesOK, callVars, slotVars
  <1> QED
    BY <1>2, <1>3, <1>4, <1>6, EnvSuffices

\* umem_cache_destroy: nothing is in a thread's hands, so every shell is in a slot
\* or in the depot, and all their rounds are freed.
LEMMA DestroyInv ==
    ASSUME IInv, \A u \in Threads : pc[u] \notin Sections, Destroy
    PROVE  IInv'
  <1>1. TypesOK /\ \A b \in Bufs : OneSpot(b)
    BY DEF IInv
  <1>2. PICK S : S = {c \in CPUs : rseq[c].loaded_mag # NoOne}
    OBVIOUS
  <1>3. /\ \A t \in Threads : pc[t] = "idle"
        /\ rseq' = [c \in CPUs |-> [rseq[c] EXCEPT !.loaded_mag = NoOne, !.rounds = 0]]
        /\ below' = below \cup (UNION {DestroyedRounds(c) : c \in S})
                          \cup (UNION {Rounds(m, Capacity(m)) : m \in depot["full"]})
        /\ mag_type' = [m \in Mags |-> IF m \in depot["full"] \cup depot["empty"]
                                            \/ \E c \in S : rseq[c].loaded_mag = m
                                       THEN -1 ELSE mag_type[m]]
        /\ depot' = [k \in Kinds |-> {}]
        /\ UNCHANGED <<mag_round, cache_magtype, held, on, pc, callVars>>
    BY <1>2 DEF Destroy
  <1>4. \A t \in Threads : nmp[t] = NoOne /\ ~Detached(t)
    <2> TAKE t \in Threads
    <2>1. Hands(t) /\ pc[t] = "idle"
      BY <1>3 DEF IInv
    <2> QED
      BY <2>1 DEF Hands, Reloading, Detached
  <1>5. /\ pc' = pc /\ nmp' = nmp /\ op' = op /\ buf' = buf /\ mag_round' = mag_round
        /\ held' = held
    BY <1>3 DEF callVars
  <1>6. \A t \in Threads : nmp'[t] = NoOne /\ ~Detached(t)'
    BY <1>4, <1>5 DEF Detached
  <1>7. rseq' \in [CPUs -> SlotRecords] /\ \A c \in CPUs : rseq'[c].loaded_mag = NoOne
    <2>1. ASSUME NEW c \in CPUs
          PROVE  /\ [rseq[c] EXCEPT !.loaded_mag = NoOne, !.rounds = 0] \in SlotRecords
                 /\ [rseq[c] EXCEPT !.loaded_mag = NoOne, !.rounds = 0].loaded_mag = NoOne
      BY <1>1, SlotTypes, SlotEmptied
    <2>2. \A c \in CPUs : rseq'[c] = [rseq[c] EXCEPT !.loaded_mag = NoOne, !.rounds = 0]
      BY <1>3
    <2> QED
      BY <1>3, <2>1, <2>2
  <1>8. depot' \in [Kinds -> SUBSET Mags] /\ \A q \in Kinds : depot'[q] = {}
    BY <1>3
  <1>9. ASSUME NEW m \in Mags, NEW k \in PlaceKinds, NEW x \in Where, Has(k, x, m)
        PROVE  \/ k = "rseq" /\ x \in S /\ rseq[x].loaded_mag = m
               \/ k = "depot" /\ x \in Kinds /\ m \in depot[x]
    <2>1. m # NoOne
      BY RseqConstants
    <2>2. \A t \in Threads : nmp[t] # m /\ ~Detached(t)
      <3> TAKE t \in Threads
      <3>1. nmp[t] = NoOne /\ ~Detached(t)
        BY <1>4
      <3> QED
        BY <2>1, <3>1
    <2>3. \A c \in CPUs : rseq[c].loaded_mag = m => c \in S
      BY <1>2, <2>1
    <2>4. CASE k = "rseq"
      <3>1. x \in CPUs /\ rseq[x].loaded_mag = m
        BY <1>9, <2>4 DEF Has
      <3> QED
        BY <2>3, <2>4, <3>1
    <2>5. CASE k = "depot"
      BY <1>9, <2>5 DEF Has
    <2>6. CASE k \in {"new", "old"}
      <3>1. x \in Threads /\ (nmp[x] = m \/ Detached(x))
        BY <1>9, <2>6 DEF Has
      <3> QED
        BY <2>2, <3>1
    <2> QED
      BY <2>4, <2>5, <2>6 DEF PlaceKinds
  <1>10. /\ mag_type' \in [Mags -> {-1, 0} \cup Types]
         /\ \A m \in Mags : mag_type'[m] \notin Types
    <2>1. mag_type \in [Mags -> {-1, 0} \cup Types]
      BY <1>1 DEF TypesOK
    <2>2. mag_type' \in [Mags -> {-1, 0} \cup Types]
      BY <1>3, <2>1
    <2>3. ASSUME NEW m \in Mags, mag_type[m] \in Types
          PROVE  \/ m \in depot["full"] \cup depot["empty"]
                 \/ \E c \in S : rseq[c].loaded_mag = m
      <3>1. PICK k \in PlaceKinds, x \in Where : Only(k, x, m)
        BY <2>3 DEF IInv, Owned
      <3>2. Has(k, x, m)
        BY <3>1 DEF Only
      <3>3. \/ k = "rseq" /\ x \in S /\ rseq[x].loaded_mag = m
            \/ k = "depot" /\ x \in Kinds /\ m \in depot[x]
        BY <1>9, <3>2
      <3> QED
        BY <3>3 DEF Kinds
    <2>4. ASSUME NEW m \in Mags PROVE mag_type'[m] \notin Types
      <3>1. mag_type'[m] = IF m \in depot["full"] \cup depot["empty"]
                              \/ \E c \in S : rseq[c].loaded_mag = m
                           THEN -1 ELSE mag_type[m]
        BY <1>3
      <3> QED
        BY <2>3, <3>1, NotTypes
    <2> QED
      BY <2>2, <2>4
  <1>11. ASSUME NEW m \in Mags PROVE Owned(m)' /\ Filled(m)' /\ \A i : ~Occ(m, i)'
    <2>1. m # NoOne /\ mag_type'[m] \notin Types
      BY <1>10, RseqConstants
    <2> QED
      BY <1>6, <1>7, <1>8, <2>1, GoneOwned
  <1>12. ASSUME NEW m \in Mags, NEW k \in PlaceKinds, NEW x \in Where, Has(k, x, m),
                NEW n, n = N(k, x, m)
         PROVE  \A b : b \in Rounds(m, n) <=> \E i \in Index : Stored(m, i, b)
    <2>1. Owned(m) /\ Filled(m)
      BY DEF IInv
    <2>2. Only(k, x, m) /\ mag_type[m] \in Types
      BY <1>12, <2>1, OwnerIs
    <2>3. n \in 0 .. Capacity(m) /\ \A i \in Index : i <= n => mag_round[m][i] \in Bufs
      BY <1>12, <2>1 DEF Filled
    <2>4. n \in 0 .. MAXSIZE
      BY <1>1, <2>2, <2>3, CountFits
    <2>5. \A b : b \in Rounds(m, n) <=> \E i \in Index : i <= n /\ mag_round[m][i] = b
      BY <2>3, <2>4, RoundsAre
    <2>6. \A i : Occ(m, i) <=> i <= n
      BY <1>12, <2>2, OccIs
    <2> QED
      BY <2>5, <2>6 DEF Stored
  <1>13. ASSUME NEW c \in S
         PROVE  \E m \in Mags : /\ rseq[c].loaded_mag = m
                                /\ \A b : b \in DestroyedRounds(c)
                                            <=> \E i \in Index : Stored(m, i, b)
    <2>1. PICK m : m = rseq[c].loaded_mag
      OBVIOUS
    <2>2. c \in CPUs /\ m \in Mags
      BY <1>1, <1>2, <2>1, SlotTypes
    <2>3. "rseq" \in PlaceKinds /\ c \in Where /\ Has("rseq", c, m)
      BY <2>1, <2>2 DEF PlaceKinds, Where, Has
    <2>4. rseq[c].rounds = N("rseq", c, m)
      BY DEF N
    <2>5. \A b : b \in Rounds(m, rseq[c].rounds) <=> \E i \in Index : Stored(m, i, b)
      BY <1>12, <2>2, <2>3, <2>4
    <2> QED
      BY <2>1, <2>2, <2>5 DEF DestroyedRounds
  <1>14. ASSUME NEW m, m \in depot["full"]
         PROVE  /\ m \in Mags
                /\ \A b : b \in Rounds(m, Capacity(m)) <=> \E i \in Index : Stored(m, i, b)
    <2>1. depot \in [Kinds -> SUBSET Mags] /\ "full" \in Kinds
      BY <1>1 DEF TypesOK, Kinds
    <2>2. depot["full"] \in SUBSET Mags
      BY <2>1
    <2>3. m \in Mags
      BY <1>14, <2>2
    <2>4. "depot" \in PlaceKinds /\ "full" \in Where /\ Has("depot", "full", m)
      BY <1>14, <2>1 DEF PlaceKinds, Where, Has
    <2>5. Capacity(m) = N("depot", "full", m)
      BY DEF N
    <2> QED
      BY <1>12, <2>3, <2>4, <2>5
  <1>15. ASSUME NEW b
         PROVE  b \in below'
                  <=> (b \in below \/ \E m \in Mags : \E i \in Index : Stored(m, i, b))
    <2>1. b \in below' <=> \/ b \in below
                           \/ \E c \in S : b \in DestroyedRounds(c)
                           \/ \E m \in depot["full"] : b \in Rounds(m, Capacity(m))
      BY <1>3
    <2>2. (\E c \in S : b \in DestroyedRounds(c))
             => \E m \in Mags : \E i \in Index : Stored(m, i, b)
      BY <1>13
    <2>3. (\E m \in depot["full"] : b \in Rounds(m, Capacity(m)))
             => \E m \in Mags : \E i \in Index : Stored(m, i, b)
      BY <1>14
    <2>4. ASSUME NEW m \in Mags, NEW i \in Index, Stored(m, i, b)
          PROVE  \/ \E c \in S : b \in DestroyedRounds(c)
                 \/ \E y \in depot["full"] : b \in Rounds(y, Capacity(y))
      <3>1. PICK k \in PlaceKinds, x \in Where : Has(k, x, m) /\ i <= N(k, x, m)
        BY <2>4 DEF Stored, Occ
      <3>2. CASE k = "rseq" /\ x \in S /\ rseq[x].loaded_mag = m
        BY <1>13, <2>4, <3>2
      <3>3. CASE k = "depot" /\ x \in Kinds /\ m \in depot[x]
        <4>1. CASE x = "full"
          BY <1>14, <2>4, <3>3, <4>1
        <4>2. CASE x # "full"
          <5>1. N(k, x, m) = 0
            BY <3>3, <4>2 DEF N
          <5> QED
            BY <3>1, <5>1, Positive
        <4> QED
          BY <4>1, <4>2
      <3> QED
        BY <1>9, <3>1, <3>2, <3>3
    <2> QED
      BY <2>1, <2>2, <2>3, <2>4
  <1>16. ASSUME NEW b \in Bufs PROVE OneSpot(b)'
    <2>1. \A m \in Mags : \A i \in Index : ~Stored(m, i, b)'
      BY <1>11 DEF Stored
    <2>2. \A u \in Threads : Frees(u, b)' <=> Frees(u, b)
      BY <1>5 DEF Frees
    <2> QED
      BY <1>1, <1>5, <1>15, <2>1, <2>2, DrainSpot
  <1>17. TypesOK'
    <2>1. ASSUME NEW b, NEW m \in Mags, NEW i \in Index, Stored(m, i, b) PROVE b \in Bufs
      <3>1. PICK k \in PlaceKinds, x \in Where : Has(k, x, m) /\ i <= N(k, x, m)
        BY <2>1 DEF Stored, Occ
      <3>2. Filled(m)
        BY DEF IInv
      <3> QED
        BY <2>1, <3>1, <3>2 DEF Filled, Stored
    <2>2. below' \subseteq Bufs
      BY <1>1, <1>15, <2>1 DEF TypesOK
    <2> QED
      BY <1>1, <1>3, <1>7, <1>8, <1>10, <2>2 DEF TypesOK, callVars
  <1>18. SlotSound'
    BY <1>7 DEF SlotSound
  <1>19. \A u \in Threads : nmp[u] # NoOne => mag_type'[nmp[u]] = mag_type[nmp[u]]
    BY <1>4
  <1> QED
    BY <1>3, <1>11, <1>16, <1>17, <1>18, <1>19, EnvSuffices

-----------------------------------------------------------------------------
(* The invariant.                                                          *)

\* It holds of a new cache, whose slots are unarmed and whose buffers are below.
LEMMA InitInv == ASSUME Init PROVE IInv
  <1>1. TypesOK
    <2>1. rseq \in [CPUs -> SlotRecords]
      <3>1. [loaded_mag |-> NoOne, rounds |-> 0, magsize |-> 0] \in SlotRecords
        BY ZeroCounts DEF SlotRecords
      <3> QED
        BY <3>1 DEF Init
    <2>2. mag_round \in [Mags -> [Index -> Bufs \cup {NoOne}]]
      BY DEF Init, Index
    <2>3. 1 \in Types
      BY Sizes
    <2> QED
      BY <2>1, <2>2, <2>3, ZeroCounts DEF Init, TypesOK, PCs
  <1>2. SlotSound /\ Exclusive
    BY DEF Init, SlotSound, Exclusive
  <1>3. \A t \in Threads : /\ pc[t] = "idle" /\ op[t] = "none" /\ nmp[t] = NoOne
                           /\ on[t] = NoOne
    BY DEF Init
  <1>4. \A t \in Threads : Hands(t) /\ Section(t)
    BY <1>3 DEF Hands, Section, Sections, FastSections, AttachSections, Reloading
  <1>5. ASSUME NEW m \in Mags PROVE Nowhere(m) /\ Owned(m) /\ Filled(m) /\ \A i : ~Occ(m, i)
    <2>1. m # NoOne /\ mag_type[m] \notin Types
      BY NotTypes, RseqConstants DEF Init
    <2>2. \A c \in CPUs : rseq[c].loaded_mag # m
      BY <2>1 DEF Init
    <2>3. \A q \in Kinds : m \notin depot[q]
      BY DEF Init
    <2>4. \A t \in Threads : nmp[t] # m /\ ~Detached(t)
      BY <1>3, <2>1 DEF Detached
    <2>5. Nowhere(m)
      BY <2>2, <2>3, <2>4 DEF Nowhere, Has
    <2> QED
      BY <2>1, <2>5 DEF Owned, Filled, Occ, Nowhere
  <1>6. ASSUME NEW b \in Bufs PROVE OneSpot(b)
    <2>1. b \in below /\ b \notin held /\ \A t \in Threads : ~Frees(t, b)
      BY <1>3 DEF Init, Frees
    <2>2. \A m \in Mags : \A i \in Index : ~Stored(m, i, b)
      BY <1>5 DEF Stored
    <2> QED
      BY <2>1, <2>2 DEF OneSpot
  <1> QED
    BY <1>1, <1>2, <1>4, <1>5, <1>6 DEF IInv

\* A step that changes nothing.
LEMMA StutterInv == ASSUME IInv, UNCHANGED vars PROVE IInv'
  <1>1. UNCHANGED <<slotVars, depotVars, held, on, pc, callVars>>
    BY DEF vars
  <1>2. UNCHANGED <<cache_magtype, depot, below>>
    BY <1>1 DEF depotVars
  <1>3. /\ SlotSound'
        /\ \A m \in Mags : Owned(m)' /\ Filled(m)'
        /\ \A m \in Mags : \A i \in Index : \A b : Stored(m, i, b)' <=> Stored(m, i, b)
        /\ \A u \in Threads : \A b : Frees(u, b)' <=> Frees(u, b)
    BY <1>1, <1>2, NoShell
  <1>4. ASSUME NEW b \in Bufs PROVE OneSpot(b)'
    <2>1. OneSpot(b)
      BY DEF IInv
    <2> QED
      BY <1>1, <1>2, <1>3, <2>1, SpotStable
  <1>5. \A u \in Threads : Keeps(u)
    BY <1>1 DEF Keeps, callVars
  <1>6. \A u \in Threads : Left(u)
    BY <1>1 DEF Left, slotVars
  <1>7. \A u \in Threads : Hands(u)' /\ Section(u)'
    BY <1>5, <1>6, ThreadStable DEF IInv
  <1>8. Exclusive'
    BY <1>1 DEF IInv, Exclusive
  <1>9. TypesOK'
    BY <1>1, <1>2 DEF IInv, TypesOK, callVars, slotVars
  <1> QED
    BY <1>3, <1>4, <1>7, <1>8, <1>9 DEF IInv

\* Every step preserves the invariant.
LEMMA NextInv == ASSUME IInv, [Next]_vars PROVE IInv'
  <1>1. ASSUME NEW t \in Threads, ThreadStep(t) PROVE IInv'
    BY <1>1, MissedInv, AllocStartInv, AllocCommitInv, FreeStartInv, FreeStoreInv, FreeCommitInv,
       SlowInv, ReturnOldInv, RetryInv, DetachStartInv, DetachCommitInv, AttachStartInv,
       AttachRoundsInv, AttachMagsizeInv, AttachCommitInv DEF ThreadStep
  <1>2. ASSUME NEW t \in Threads, Preempt(t) \/ CallAlloc(t) \/ CallFree(t) PROVE IInv'
    BY <1>2, PreemptInv, CallAllocInv, CallFreeInv
  <1>3. ASSUME \A t \in Threads : pc[t] \notin Sections,
               NEW k \in Kinds, FeedDepot(k) \/ DestroyMagazine(k)
        PROVE  IInv'
    BY <1>3, FeedDepotInv, DestroyMagazineInv
  <1>4. ASSUME \A t \in Threads : pc[t] \notin Sections,
               AllocBelow \/ Resize \/ Destroy \/ Stopped
        PROVE  IInv'
    BY <1>4, AllocBelowInv, ResizeInv, DestroyInv, StutterInv DEF Stopped
  <1>5. CASE UNCHANGED vars
    BY <1>5, StutterInv
  <1> QED
    BY <1>1, <1>2, <1>3, <1>4, <1>5 DEF Next

\* The invariant always holds.
THEOREM Inductive == Spec => []IInv
  <1>1. Init => IInv
    BY InitInv
  <1>2. IInv /\ [Next]_vars => IInv'
    BY NextInv
  <1> QED
    BY <1>1, <1>2, PTL DEF Spec

-----------------------------------------------------------------------------
(* The properties.                                                         *)

\* Cardinalities of the empty set and of singletons.
INSTANCE FiniteSetTheorems

\* The owners of a shell are the places that have it.
LEMMA OwnersAre ==
    ASSUME NEW m \in Mags
    PROVE  \A o : o \in Owners(m) <=> \E k \in PlaceKinds : \E x \in Where :
                                         Has(k, x, m) /\ o = <<k, x, N(k, x, m)>>
  <1>1. \A x : /\ N("rseq", x, m) = rseq[x].rounds
               /\ N("depot", x, m) = IF x = "full" THEN Capacity(m) ELSE 0
               /\ N("new", x, m) = ArmedRounds(x) /\ N("old", x, m) = old_rounds[x]
    BY DEF N
  <1>2. ASSUME NEW o
        PROVE  o \in Owners(m) <=>
                 \/ \E c \in CPUs : Has("rseq", c, m) /\ o = <<"rseq", c, N("rseq", c, m)>>
                 \/ \E q \in Kinds : Has("depot", q, m) /\ o = <<"depot", q, N("depot", q, m)>>
                 \/ \E t \in Threads : Has("new", t, m) /\ o = <<"new", t, N("new", t, m)>>
                 \/ \E t \in Threads : Has("old", t, m) /\ o = <<"old", t, N("old", t, m)>>
    <2>1. o \in Owners(m) <=>
            \/ \E c \in CPUs : rseq[c].loaded_mag = m /\ o = <<"rseq", c, rseq[c].rounds>>
            \/ \E q \in Kinds : /\ m \in depot[q]
                                /\ o = <<"depot", q, IF q = "full" THEN Capacity(m) ELSE 0>>
            \/ \E t \in Threads : nmp[t] = m /\ o = <<"new", t, ArmedRounds(t)>>
            \/ \E t \in Threads : old[t] = m /\ Detached(t) /\ o = <<"old", t, old_rounds[t]>>
      BY DEF Owners
    <2>2. /\ \A c \in CPUs : Has("rseq", c, m) <=> rseq[c].loaded_mag = m
          /\ \A q \in Kinds : Has("depot", q, m) <=> m \in depot[q]
          /\ \A t \in Threads : Has("new", t, m) <=> nmp[t] = m
          /\ \A t \in Threads : Has("old", t, m) <=> old[t] = m /\ Detached(t)
      BY DEF Has
    <2> QED
      BY <1>1, <2>1, <2>2
  <1>3. ASSUME NEW k \in PlaceKinds, NEW x \in Where, Has(k, x, m)
        PROVE  \/ k = "rseq" /\ x \in CPUs
               \/ k = "depot" /\ x \in Kinds
               \/ k = "new" /\ x \in Threads
               \/ k = "old" /\ x \in Threads
    BY <1>3 DEF Has
  <1>4. /\ {"rseq", "depot", "new", "old"} \subseteq PlaceKinds
        /\ CPUs \subseteq Where /\ Kinds \subseteq Where /\ Threads \subseteq Where
    BY DEF PlaceKinds, Where
  <1> TAKE o
  <1>5. ASSUME o \in Owners(m)
        PROVE  \E k \in PlaceKinds : \E x \in Where : Has(k, x, m) /\ o = <<k, x, N(k, x, m)>>
    BY <1>2, <1>4, <1>5
  <1>6. ASSUME NEW k \in PlaceKinds, NEW x \in Where, Has(k, x, m), o = <<k, x, N(k, x, m)>>
        PROVE  o \in Owners(m)
    BY <1>2, <1>3, <1>6
  <1> QED
    BY <1>5, <1>6

\* A magazine is in one slot, in one depot list or in one thread's hands, wherever
\* umem_rseq_reload is cut off and however often it is retried.
THEOREM ShellsHaveOneOwner == Spec => []OneShellOwner
  <1>1. ASSUME IInv PROVE OneShellOwner
    <2> SUFFICES ASSUME NEW m \in Mags
                 PROVE  Cardinality(Owners(m)) = IF mag_type[m] <= 0 THEN 0 ELSE 1
      BY DEF OneShellOwner
    <2>1. TypesOK /\ Owned(m)
      BY <1>1 DEF IInv
    <2>2. mag_type[m] <= 0 <=> mag_type[m] \notin Types
      BY <2>1, NoShellType DEF TypesOK
    <2>3. CASE mag_type[m] \in Types
      <3>1. PICK k \in PlaceKinds, x \in Where : Only(k, x, m)
        BY <2>1, <2>3 DEF Owned
      <3>2. PICK o : o = <<k, x, N(k, x, m)>>
        OBVIOUS
      <3>3. Has(k, x, m) /\ \A l \in PlaceKinds : \A y \in Where : Has(l, y, m) => l = k /\ y = x
        BY <3>1 DEF Only
      <3>4. o \in Owners(m)
        BY <3>2, <3>3, OwnersAre
      <3>5. ASSUME NEW p \in Owners(m) PROVE p = o
        <4>1. PICK l \in PlaceKinds, y \in Where : Has(l, y, m) /\ p = <<l, y, N(l, y, m)>>
          BY <3>5, OwnersAre
        <4>2. l = k /\ y = x
          BY <3>3, <4>1
        <4> QED
          BY <3>2, <4>1, <4>2
      <3>6. Owners(m) = {o}
        BY <3>4, <3>5
      <3>7. Cardinality({o}) = 1
        BY FS_Singleton
      <3> QED
        BY <2>2, <2>3, <3>6, <3>7
    <2>4. CASE mag_type[m] \notin Types
      <3>1. \A k \in PlaceKinds : \A x \in Where : ~Has(k, x, m)
        BY <2>1, <2>4 DEF Owned, Nowhere
      <3>2. Owners(m) = {}
        BY <3>1, OwnersAre
      <3>3. Cardinality({}) = 0
        BY FS_EmptySet
      <3> QED
        BY <2>2, <2>4, <3>2, <3>3
    <2> QED
      BY <2>3, <2>4
  <1> QED
    BY <1>1, Inductive, PTL

\* Where a buffer is, in terms of the invariant.
HomeOf(h, b) ==
    \/ h = "below" /\ b \in below
    \/ h = "held" /\ b \in held
    \/ \E t \in Threads : Frees(t, b) /\ h = <<"call", t>>
    \/ \E m \in Mags : \E i \in Index : Stored(m, i, b) /\ h = <<m, i>>

\* Homes(b) are those.
LEMMA HomesAre ==
    ASSUME IInv, NEW b
    PROVE  \A h : h \in Homes(b) <=> HomeOf(h, b)
  <1>1. TypesOK /\ \A m \in Mags : Owned(m) /\ Filled(m)
    BY DEF IInv
  <1>2. ASSUME NEW h
        PROVE  h \in Homes(b) <=>
                 \/ h = "below" /\ b \in below
                 \/ h = "held" /\ b \in held
                 \/ \E t \in Threads : Frees(t, b) /\ h = <<"call", t>>
                 \/ \E m \in Mags : \E o \in Owners(m) : \E i \in 1 .. o[3] :
                      mag_round[m][i] = b /\ h = <<m, i>>
    <2> DEFINE A == {"below" : x \in {b} \cap below}
               B == {"held" : x \in {b} \cap held}
               C == {<<"call", t>> : t \in {t \in Threads : op[t] = "free" /\ buf[t] = b}}
               I(m, o) == {<<m, i>> : i \in {i \in 1 .. o[3] : mag_round[m][i] = b}}
               D(m) == UNION {I(m, o) : o \in Owners(m)}
               E == UNION {D(m) : m \in Mags}
    <2>1. Homes(b) = A \cup B \cup C \cup E
      BY DEF Homes
    <2>2. (h \in A <=> h = "below" /\ b \in below) /\ (h \in B <=> h = "held" /\ b \in held)
      OBVIOUS
    <2>3. h \in C <=> \E t \in Threads : Frees(t, b) /\ h = <<"call", t>>
      BY DEF Frees
    <2>4. ASSUME NEW m, NEW o
          PROVE  h \in I(m, o) <=> \E i \in 1 .. o[3] : mag_round[m][i] = b /\ h = <<m, i>>
      OBVIOUS
    <2> HIDE DEF I
    <2>5. ASSUME NEW m
          PROVE  h \in D(m) <=> \E o \in Owners(m) : h \in I(m, o)
      OBVIOUS
    <2> HIDE DEF D
    <2>6. h \in E <=> \E m \in Mags : h \in D(m)
      OBVIOUS
    <2> HIDE DEF A, B, C, E
    <2> QED
      BY <2>1, <2>2, <2>3, <2>4, <2>5, <2>6
  <1>3. ASSUME NEW m \in Mags, NEW k \in PlaceKinds, NEW x \in Where, Has(k, x, m)
        PROVE  \A i : i \in 1 .. N(k, x, m) <=> i \in Index /\ i <= N(k, x, m)
    <2>1. mag_type[m] \in Types /\ N(k, x, m) \in 0 .. Capacity(m)
      BY <1>1, <1>3, OwnerIs DEF Filled
    <2> QED
      BY <1>1, <2>1, CountFits
  <1>4. ASSUME NEW k, NEW x, NEW n PROVE <<k, x, n>>[3] = n
    OBVIOUS
  <1>5. ASSUME NEW m \in Mags, NEW o \in Owners(m), NEW i \in 1 .. o[3], mag_round[m][i] = b
        PROVE  i \in Index /\ Stored(m, i, b)
    <2>1. PICK k \in PlaceKinds, x \in Where : Has(k, x, m) /\ o = <<k, x, N(k, x, m)>>
      BY <1>5, OwnersAre
    <2>2. i \in 1 .. N(k, x, m)
      BY <1>4, <1>5, <2>1
    <2>3. i \in Index /\ i <= N(k, x, m)
      BY <1>3, <2>1, <2>2
    <2> QED
      BY <1>5, <2>1, <2>3 DEF Stored, Occ
  <1>6. ASSUME NEW m \in Mags, NEW i \in Index, Stored(m, i, b)
        PROVE  \E o \in Owners(m) : i \in 1 .. o[3] /\ mag_round[m][i] = b
    <2>1. PICK k \in PlaceKinds, x \in Where : Has(k, x, m) /\ i <= N(k, x, m)
      BY <1>6 DEF Stored, Occ
    <2>2. PICK o : o = <<k, x, N(k, x, m)>>
      OBVIOUS
    <2>3. o \in Owners(m) /\ o[3] = N(k, x, m)
      BY <1>4, <2>1, <2>2, OwnersAre
    <2>4. i \in 1 .. N(k, x, m)
      BY <1>3, <2>1
    <2> QED
      BY <1>6, <2>3, <2>4 DEF Stored
  <1> TAKE h
  <1>7. (\E m \in Mags : \E o \in Owners(m) : \E i \in 1 .. o[3] :
            mag_round[m][i] = b /\ h = <<m, i>>)
        <=> \E m \in Mags : \E i \in Index : Stored(m, i, b) /\ h = <<m, i>>
    BY <1>5, <1>6
  <1> QED
    BY <1>2, <1>7 DEF HomeOf

\* No abort anywhere in a critical section loses a buffer or caches it twice, and
\* no slot counts past its magazine.
THEOREM RoundsAreSound == Spec => []RoundsSound
  <1>1. ASSUME IInv PROVE RoundsSound
    <2>1. SlotSound
      BY <1>1 DEF IInv
    <2>2. ASSUME NEW b \in Bufs PROVE Cardinality(Homes(b)) = 1
      <3>1. OneSpot(b)
        BY <1>1 DEF IInv
      <3>2. \A h : h \in Homes(b) <=> HomeOf(h, b)
        BY <1>1, HomesAre
      <3>3. \E h : Homes(b) = {h}
        <4>1. CASE b \in below
          <5>1. /\ b \notin held /\ \A t \in Threads : ~Frees(t, b)
                /\ \A m \in Mags : \A i \in Index : ~Stored(m, i, b)
            BY <3>1, <4>1 DEF OneSpot
          <5>2. \A h : h \in Homes(b) <=> h = "below"
            BY <3>2, <4>1, <5>1 DEF HomeOf
          <5>3. Homes(b) = {"below"}
            BY <5>2
          <5> QED
            BY <5>3
        <4>2. CASE b \in held
          <5>1. /\ b \notin below /\ \A t \in Threads : ~Frees(t, b)
                /\ \A m \in Mags : \A i \in Index : ~Stored(m, i, b)
            BY <3>1, <4>2 DEF OneSpot
          <5>2. \A h : h \in Homes(b) <=> h = "held"
            BY <3>2, <4>2, <5>1 DEF HomeOf
          <5>3. Homes(b) = {"held"}
            BY <5>2
          <5> QED
            BY <5>3
        <4>3. ASSUME NEW t \in Threads, Frees(t, b) PROVE \E h : Homes(b) = {h}
          <5>1. /\ b \notin below /\ b \notin held /\ \A u \in Threads : Frees(u, b) => u = t
                /\ \A m \in Mags : \A i \in Index : ~Stored(m, i, b)
            BY <3>1, <4>3 DEF OneSpot
          <5>2. \A h : h \in Homes(b) <=> h = <<"call", t>>
            BY <3>2, <4>3, <5>1 DEF HomeOf
          <5>3. Homes(b) = {<<"call", t>>}
            BY <5>2
          <5> QED
            BY <5>3
        <4>4. ASSUME NEW m \in Mags, NEW i \in Index, Stored(m, i, b)
              PROVE  \E h : Homes(b) = {h}
          <5>1. /\ b \notin below /\ b \notin held /\ \A t \in Threads : ~Frees(t, b)
                /\ \A n \in Mags : \A j \in Index : Stored(n, j, b) => n = m /\ j = i
            BY <3>1, <4>4 DEF OneSpot
          <5>2. \A h : h \in Homes(b) <=> h = <<m, i>>
            BY <3>2, <4>4, <5>1 DEF HomeOf
          <5>3. Homes(b) = {<<m, i>>}
            BY <5>2
          <5> QED
            BY <5>3
        <4> QED
          BY <3>1, <4>1, <4>2, <4>3, <4>4 DEF OneSpot
      <3> QED
        BY <3>3, FS_Singleton
    <2> QED
      BY <2>1, <2>2 DEF RoundsSound, OneHome
  <1> QED
    BY <1>1, Inductive, PTL
=============================================================================
