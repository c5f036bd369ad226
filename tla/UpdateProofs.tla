--------------------------- MODULE UpdateProofs ---------------------------
(***************************************************************************)
(* What follows from the invariant of the update machinery, and what its   *)
(* operators on the update list do.                                        *)
(***************************************************************************)
EXTENDS UpdateSteps, FiniteSetTheorems, SequenceTheorems

-----------------------------------------------------------------------------
(* The update list.                                                        *)

\* A finite set can be put in a list that has each of its members once.
LEMMA ListedIs ==
    ASSUME NEW S, IsFiniteSet(S)
    PROVE  /\ Listed(S) \in [1 .. Cardinality(S) -> S]
           /\ IsInjective(Listed(S))
           /\ Range(Listed(S)) = S
           /\ Cardinality(S) \in Nat
  <1>1. Cardinality(S) \in Nat
    BY FS_CardinalityType
  <1>2. \E f \in [1 .. Cardinality(S) -> S] : IsInjective(f)
    <2>1. ExistsBijection(1 .. Cardinality(S), S)
      BY FS_CardinalityType
    <2>2. PICK f : f \in Bijection(1 .. Cardinality(S), S)
      BY <2>1 DEF ExistsBijection
    <2>3. f \in [1 .. Cardinality(S) -> S] /\ IsInjective(f)
      BY <2>2 DEF Bijection, Injection, IsInjective
    <2> QED
      BY <2>3
  <1>3. Listed(S) \in [1 .. Cardinality(S) -> S] /\ IsInjective(Listed(S))
    BY <1>2 DEF Listed
  <1>4. Range(Listed(S)) = S
    <2>1. Listed(S) \in Injection(1 .. Cardinality(S), S)
      BY <1>3 DEF Injection
    <2>2. Cardinality(1 .. Cardinality(S)) = Cardinality(S)
      <3>1. Cardinality(1 .. Cardinality(S))
              = IF 1 > Cardinality(S) THEN 0 ELSE Cardinality(S) - 1 + 1
        BY <1>1, FS_Interval
      <3> QED
        BY <1>1, <3>1
    <2>3. Listed(S) \in Surjection(1 .. Cardinality(S), S)
      BY <2>1, <2>2, FS_Injection
    <2> QED
      BY <1>3, <2>3 DEF Surjection, Range
  <1> QED
    BY <1>1, <1>3, <1>4

\* Appending the members of a set that are not on the list yet.
LEMMA AppendIs ==
    ASSUME NEW s \in Seq(Caches), IsInjective(s),
           NEW S \in SUBSET Caches, S \cap Range(s) = {}
    PROVE  /\ s \o Listed(S) \in Seq(Caches)
           /\ IsInjective(s \o Listed(S))
           /\ Range(s \o Listed(S)) = Range(s) \cup S
  <1>1. IsFiniteSet(S)
    BY UpdateConstants, FS_Subset
  <1> DEFINE f == Listed(S)
             n == Cardinality(S)
  <1>2. f \in [1 .. n -> S] /\ IsInjective(f) /\ Range(f) = S /\ n \in Nat
    BY <1>1, ListedIs
  <1> HIDE DEF f, n
  <1>3. f \in Seq(Caches) /\ Len(f) = n /\ DOMAIN f = 1 .. n
    BY <1>2
  <1>4. Len(s) \in Nat /\ DOMAIN s = 1 .. Len(s)
    OBVIOUS
  <1>5. /\ s \o f \in Seq(Caches)
        /\ Len(s \o f) = Len(s) + n
        /\ DOMAIN (s \o f) = 1 .. (Len(s) + n)
        /\ \A i \in 1 .. Len(s) : (s \o f)[i] = s[i]
        /\ \A i \in 1 .. n : (s \o f)[Len(s) + i] = f[i]
    BY <1>2, <1>3, <1>4
  <1>6. \A i \in 1 .. (Len(s) + n) : i \in 1 .. Len(s) \/ \E j \in 1 .. n : i = Len(s) + j
    <2> TAKE i \in 1 .. (Len(s) + n)
    <2>1. CASE i <= Len(s)
      BY <1>4, <2>1
    <2>2. CASE i > Len(s)
      <3>1. i - Len(s) \in 1 .. n /\ i = Len(s) + (i - Len(s))
        BY <1>2, <1>4, <2>2
      <3> QED
        BY <3>1
    <2> QED
      BY <1>4, <2>1, <2>2
  <1>7. Range(s \o f) = Range(s) \cup S
    <2>1. Range(s \o f) \subseteq Range(s) \cup Range(f)
      <3> SUFFICES ASSUME NEW i \in 1 .. (Len(s) + n)
                   PROVE  (s \o f)[i] \in Range(s) \cup Range(f)
        BY <1>5 DEF Range
      <3>1. CASE i \in 1 .. Len(s)
        <4>1. (s \o f)[i] = s[i]
          BY <1>5, <3>1
        <4> QED
          BY <1>4, <3>1, <4>1 DEF Range
      <3>2. ASSUME NEW j \in 1 .. n, i = Len(s) + j
            PROVE  (s \o f)[i] \in Range(s) \cup Range(f)
        <4>1. (s \o f)[i] = f[j]
          BY <1>5, <3>2
        <4> QED
          BY <1>3, <4>1 DEF Range
      <3> QED
        BY <1>6, <3>1, <3>2
    <2>2. Range(s) \subseteq Range(s \o f)
      BY <1>2, <1>4, <1>5 DEF Range
    <2>3. Range(f) \subseteq Range(s \o f)
      <3> SUFFICES ASSUME NEW i \in 1 .. n PROVE f[i] \in Range(s \o f)
        BY <1>3 DEF Range
      <3>1. Len(s) + i \in 1 .. (Len(s) + n) /\ (s \o f)[Len(s) + i] = f[i]
        BY <1>2, <1>4, <1>5
      <3> QED
        BY <1>5, <3>1 DEF Range
    <2> QED
      BY <1>2, <2>1, <2>2, <2>3
  <1>8. IsInjective(s \o f)
    <2> SUFFICES ASSUME NEW a \in 1 .. (Len(s) + n), NEW b \in 1 .. (Len(s) + n),
                        (s \o f)[a] = (s \o f)[b]
                 PROVE  a = b
      BY <1>5 DEF IsInjective
    <2>1. \A i \in 1 .. Len(s), j \in 1 .. n : s[i] # f[j]
      BY <1>2, <1>3, <1>4 DEF Range
    <2>2. CASE a \in 1 .. Len(s) /\ b \in 1 .. Len(s)
      BY <1>4, <1>5, <2>2 DEF IsInjective
    <2>3. CASE a \in 1 .. Len(s) /\ b \notin 1 .. Len(s)
      <3>1. PICK j \in 1 .. n : b = Len(s) + j
        BY <1>6, <2>3
      <3> QED
        BY <1>5, <2>1, <2>3, <3>1
    <2>4. CASE a \notin 1 .. Len(s) /\ b \in 1 .. Len(s)
      <3>1. PICK j \in 1 .. n : a = Len(s) + j
        BY <1>6, <2>4
      <3> QED
        BY <1>5, <2>1, <2>4, <3>1
    <2>5. CASE a \notin 1 .. Len(s) /\ b \notin 1 .. Len(s)
      <3>1. PICK j \in 1 .. n : a = Len(s) + j
        BY <1>6, <2>5
      <3>2. PICK k \in 1 .. n : b = Len(s) + k
        BY <1>6, <2>5
      <3>3. f[j] = f[k]
        BY <1>5, <3>1, <3>2
      <3> QED
        BY <1>2, <1>3, <3>1, <3>2, <3>3 DEF IsInjective
    <2> QED
      BY <2>2, <2>3, <2>4, <2>5
  <1> QED
    BY <1>5, <1>7, <1>8 DEF f

\* Unlinking a cache from the list, wherever on it the cache is.
LEMMA RemoveIs ==
    ASSUME NEW s \in Seq(Caches), IsInjective(s), NEW c
    PROVE  /\ Unlinked(s, c) \in Seq(Caches) /\ IsInjective(Unlinked(s, c))
           /\ Range(Unlinked(s, c)) = Range(s) \ {c}
  <1>1. Len(s) \in Nat /\ DOMAIN s = 1 .. Len(s)
    OBVIOUS
  <1>2. CASE c \notin Range(s)
    <2>1. Unlinked(s, c) = s
      BY <1>2 DEF Unlinked
    <2> QED
      BY <1>1, <1>2, <2>1 DEF Range
  <1>3. CASE c \in Range(s)
    <2>1. PICK k \in 1 .. Len(s) : s[k] = c
      BY <1>1, <1>3 DEF Range
    <2>2. \A i \in DOMAIN s : s[i] = c => i = k
      BY <1>1, <2>1 DEF IsInjective
    <2>3. (CHOOSE i \in DOMAIN s : s[i] = c) = k
      BY <1>1, <2>1, <2>2
    <2>4. Unlinked(s, c) = SubSeq(s, 1, k - 1) \o SubSeq(s, k + 1, Len(s))
      BY <1>3, <2>3 DEF Unlinked
    <2> DEFINE r == SubSeq(s, 1, k - 1) \o SubSeq(s, k + 1, Len(s))
    <2>5. /\ r \in Seq(Caches) /\ Len(r) = Len(s) - 1 /\ DOMAIN r = 1 .. (Len(s) - 1)
          /\ \A i \in 1 .. (Len(s) - 1) : r[i] = IF i < k THEN s[i] ELSE s[i + 1]
      <3> DEFINE u == SubSeq(s, 1, k - 1)
                 v == SubSeq(s, k + 1, Len(s))
      <3>1. /\ u \in Seq(Caches) /\ Len(u) = k - 1
            /\ \A i \in 1 .. (k - 1) : u[i] = s[i]
        BY <1>1, <2>1
      <3>2. /\ v \in Seq(Caches) /\ Len(v) = Len(s) - k
            /\ \A i \in 1 .. (Len(s) - k) : v[i] = s[k + i]
        <4>1. k + 1 \in Int /\ Len(s) \in Int /\ \A i \in (k + 1) .. Len(s) : s[i] \in Caches
          BY <1>1, <2>1
        <4>2. /\ v \in Seq(Caches)
              /\ Len(v) = IF k + 1 <= Len(s) THEN Len(s) - (k + 1) + 1 ELSE 0
              /\ \A i \in 1 .. (Len(s) - (k + 1) + 1) : v[i] = s[(k + 1) + i - 1]
          BY <4>1, SubSeqProperties
        <4> HIDE DEF v
        <4>3. Len(s) - (k + 1) + 1 = Len(s) - k
          BY <1>1, <2>1
        <4>4. Len(v) = Len(s) - k
          <5>1. \A n \in Nat : \A j \in 1 .. n :
                  (IF j + 1 <= n THEN n - (j + 1) + 1 ELSE 0) = n - j
            OBVIOUS
          <5> QED
            BY <1>1, <4>2, <5>1, Zenon
        <4>5. ASSUME NEW i \in 1 .. (Len(s) - k) PROVE v[i] = s[k + i]
          <5>1. (k + 1) + i - 1 = k + i
            BY <1>1, <2>1
          <5>2. v[i] = s[(k + 1) + i - 1]
            BY <4>2, <4>3, Zenon
          <5> QED
            BY <5>1, <5>2, Zenon
        <4> QED
          BY <4>2, <4>4, <4>5, Zenon
      <3> HIDE DEF u, v
      <3>3. /\ u \o v \in Seq(Caches) /\ Len(u \o v) = Len(u) + Len(v)
            /\ \A i \in 1 .. (Len(u) + Len(v)) :
                 (u \o v)[i] = IF i <= Len(u) THEN u[i] ELSE v[i - Len(u)]
        BY <3>1, <3>2, ConcatProperties
      <3>4. Len(u) + Len(v) = Len(s) - 1
        BY <1>1, <2>1, <3>1, <3>2
      <3>5. \A i \in 1 .. (Len(s) - 1) : (u \o v)[i] = IF i < k THEN s[i] ELSE s[i + 1]
        <4> TAKE i \in 1 .. (Len(s) - 1)
        <4>1. CASE i < k
          BY <1>1, <2>1, <3>1, <3>3, <3>4, <4>1
        <4>2. CASE i >= k
          <5>1. i - (k - 1) \in 1 .. (Len(s) - k) /\ k + (i - (k - 1)) = i + 1
            BY <1>1, <2>1, <4>2
          <5>2. (u \o v)[i] = v[i - (k - 1)]
            BY <1>1, <2>1, <3>1, <3>3, <3>4, <4>2
          <5>3. v[i - (k - 1)] = s[i + 1]
            <6>1. v[i - (k - 1)] = s[k + (i - (k - 1))]
              BY <3>2, <5>1
            <6> QED
              BY <5>1, <6>1, Zenon
          <5> QED
            BY <1>1, <2>1, <4>2, <5>2, <5>3
        <4>3. i < k \/ i >= k
          BY <1>1, <2>1
        <4> QED
          BY <4>1, <4>2, <4>3, Zenon
      <3>6. DOMAIN (u \o v) = 1 .. (Len(s) - 1)
        BY <3>3, <3>4
      <3> QED
        BY <3>3, <3>4, <3>5, <3>6 DEF u, v
    <2> HIDE DEF r
    <2>6. IsInjective(r)
      <3> SUFFICES ASSUME NEW a \in 1 .. (Len(s) - 1), NEW b \in 1 .. (Len(s) - 1), r[a] = r[b]
                   PROVE  a = b
        BY <2>5 DEF IsInjective
      <3> DEFINE at(i) == IF i < k THEN i ELSE i + 1
      <3>1. \A i \in 1 .. (Len(s) - 1) : at(i) \in DOMAIN s /\ r[i] = s[at(i)]
        BY <1>1, <2>1, <2>5
      <3>2. at(a) = at(b)
        <4> HIDE DEF at
        <4> QED
          BY <3>1 DEF IsInjective
      <3> QED
        BY <1>1, <2>1, <3>2
    <2>7. Range(r) \subseteq Range(s) \ {c}
      <3> SUFFICES ASSUME NEW i \in 1 .. (Len(s) - 1)
                   PROVE  r[i] \in Range(s) /\ r[i] # c
        BY <2>5 DEF Range
      <3>1. PICK j \in 1 .. Len(s) : r[i] = s[j] /\ j # k
        BY <1>1, <2>1, <2>5
      <3> QED
        BY <1>1, <2>1, <3>1 DEF Range, IsInjective
    <2>8. Range(s) \ {c} \subseteq Range(r)
      <3> SUFFICES ASSUME NEW i \in 1 .. Len(s), s[i] # c PROVE s[i] \in Range(r)
        BY <1>1 DEF Range
      <3>1. PICK j \in 1 .. (Len(s) - 1) : r[j] = s[i]
        <4>1. CASE i < k
          <5>1. i \in 1 .. (Len(s) - 1) /\ r[i] = s[i]
            BY <1>1, <2>1, <2>5, <4>1
          <5> QED
            BY <5>1
        <4>2. CASE i > k
          <5>1. i - 1 \in 1 .. (Len(s) - 1) /\ r[i - 1] = s[i]
            BY <1>1, <2>1, <2>5, <4>2
          <5> QED
            BY <5>1
        <4> QED
          BY <1>1, <2>1, <4>1, <4>2
      <3> QED
        BY <2>5, <3>1 DEF Range
    <2> QED
      BY <2>4, <2>5, <2>6, <2>7, <2>8 DEF r
  <1> QED
    BY <1>2, <1>3

\* Appending to the update list and unlinking from it do what the steps rely on.
LEMMA ListsAre == ListFacts
  <1> SUFFICES ASSUME NEW s \in Seq(Caches), IsInjective(s)
               PROVE  /\ \A S \in SUBSET Caches : S \cap Range(s) = {} =>
                           /\ s \o Listed(S) \in Seq(Caches)
                           /\ IsInjective(s \o Listed(S))
                           /\ Range(s \o Listed(S)) = Range(s) \cup S
                      /\ \A c \in Caches :
                           /\ Unlinked(s, c) \in Seq(Caches)
                           /\ IsInjective(Unlinked(s, c))
                           /\ Range(Unlinked(s, c)) = Range(s) \ {c}
    BY DEF ListFacts
  <1> QED
    BY AppendIs, RemoveIs

-----------------------------------------------------------------------------
(* The theorems.                                                           *)

\* The invariant of the update machinery always holds.
LEMMA AlwaysIInv ==
    ASSUME NESTED = FALSE
    PROVE  Spec => []IInv
  <1>1. Init => IInv
    BY InitInv
  <1>2. IInv /\ [Next]_vars => IInv'
    BY NextInv, ListsAre
  <1> QED
    BY <1>1, <1>2, PTL DEF Spec

\* The invariant gives the three states of umem.c 4.1 and the single updater.
LEMMA StatesFollow ==
    ASSUME IInv
    PROVE  UpdateStates
  <1> USE DEF IInv
  <1>1. \A p \in Procs : cp[p] = {} \/ \E c \in Caches : cp[p] = {c}
    BY DEF Holdings
  <1>2. \A p \in Procs : Cardinality(cp[p]) <= 1
    <2> SUFFICES ASSUME NEW p \in Procs PROVE Cardinality(cp[p]) <= 1
      OBVIOUS
    <2>1. CASE cp[p] = {}
      BY <2>1, FS_EmptySet
    <2>2. CASE \E c \in Caches : cp[p] = {c}
      BY <2>2, FS_Singleton
    <2> QED
      BY <1>1, <2>1, <2>2
  <1>3. TypeOK
    BY <1>2 DEF Types, TypeOK
  <1>4. ASSUME NEW p \in Updating
        PROVE  Updating = {p} /\ p \in UpdateThreads
    BY OneInside DEF Updating, Inside
  <1>5. OneUpdater
    <2>1. Cardinality(Updating) <= 1
      <3>1. CASE Updating = {}
        BY <3>1, FS_EmptySet
      <3>2. CASE Updating # {}
        <4>1. PICK p : p \in Updating
          BY <3>2
        <4>2. Updating = {p}
          BY <1>4, <4>1
        <4> QED
          BY <4>2, FS_Singleton
      <3> QED
        BY <3>1, <3>2
    <2> QED
      BY <1>4, <2>1 DEF OneUpdater
  <1>6. ThreeStates
    <2> SUFFICES ASSUME NEW c \in Caches, c \in linked \/ BeingDestroyed(c)
                 PROVE  /\ c \in Range(ulist) <=> uflags[c] # {} /\ "ACTIVE" \notin uflags[c]
                        /\ "ACTIVE" \in uflags[c] <=> Cardinality(WorkingOn(c)) = 1
                        /\ "ACTIVE" \notin uflags[c] => WorkingOn(c) = {}
      BY DEF ThreeStates
    <2>1. /\ c \in Range(ulist) <=> uflags[c] # {} /\ "ACTIVE" \notin uflags[c]
          /\ "ACTIVE" \in uflags[c] => WorkingOn(c) # {}
      BY DEF FlagStates
    <2>2. WorkingOn(c) # {} => "ACTIVE" \in uflags[c]
      BY DEF WorkingOn, Holdings
    <2>3. WorkingOn(c) # {} => Cardinality(WorkingOn(c)) = 1
      <3>1. ASSUME NEW p \in WorkingOn(c) PROVE WorkingOn(c) = {p}
        BY OneInside DEF WorkingOn, Inside
      <3> QED
        BY <3>1, FS_Singleton
    <2>4. WorkingOn(c) = {} => Cardinality(WorkingOn(c)) # 1
      BY FS_EmptySet
    <2> QED
      BY <2>1, <2>2, <2>3, <2>4
  <1> QED
    BY <1>3, <1>5, <1>6 DEF UpdateStates

\* The machine of umem.c 4.1, for any number of caches, threads and update
\* threads and through any number of forks: each cache that is linked or being
\* destroyed is Inactive, Work Requested or Active, is on the update list
\* exactly when it is Work Requested, and is Active exactly while one thread,
\* the one IN_UPDATE() recognises, works on it.
THEOREM StatesAlwaysHold ==
    ASSUME NESTED = FALSE
    PROVE  Spec => []UpdateStates
  <1>1. Spec => []IInv
    BY AlwaysIInv
  <1>2. IInv => UpdateStates
    BY StatesFollow
  <1> QED
    BY <1>1, <1>2, PTL

\* umem_process_updates forgets no request: a cache whose cache_uflags are
\* clear has had every kind of work begun that was asked for, whether the
\* request came while it was on the list, while it was being worked on, or
\* before a fork.
THEOREM RequestsNeverLost ==
    ASSUME NESTED = FALSE
    PROVE  Spec => []NoRequestLost
  <1>1. Spec => []IInv
    BY AlwaysIInv
  <1>2. IInv => NoRequestLost
    <2> SUFFICES ASSUME IInv, NEW c \in linked, uflags[c] = {} PROVE owed[c] = {}
      BY DEF NoRequestLost
    <2>1. c \in Caches
      BY DEF IInv, Types
    <2>2. WorkingOn(c) = {}
      BY DEF IInv, Holdings, WorkingOn
    <2> QED
      BY <2>1, <2>2 DEF IInv, Requests
  <1> QED
    BY <1>1, <1>2, PTL

\* A new update thread uses its creator's stack only while the creator waits
\* for it, and once umem_remove_updates has returned no update thread has or
\* will have the destroyed cache.
THEOREM AlwaysOutOfReach ==
    ASSUME NESTED = FALSE
    PROVE  Spec => []OutOfReach
  <1>1. Spec => []IInv
    BY AlwaysIInv
  <1>2. IInv => OutOfReach
    BY DEF IInv, OutOfReach, HandshakeSafe, Publication
  <1> QED
    BY <1>1, <1>2, PTL

\* The assertion of umem_create_update_thread: when it publishes the thread it
\* has created, there is no update thread yet.
THEOREM CreatorsAssertion ==
    ASSUME NESTED = FALSE
    PROVE  Spec => []NoThreadYet
  <1>1. Spec => []IInv
    BY AlwaysIInv
  <1>2. IInv => NoThreadYet
    BY DEF IInv, NoThreadYet, Publication
  <1> QED
    BY <1>1, <1>2, PTL

=============================================================================
