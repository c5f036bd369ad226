---------------------------- MODULE UpdateSteps ----------------------------
(***************************************************************************)
(* The inductive invariant of the update machinery, and that every step    *)
(* preserves it.  umem_reap is taken not to be called from inside the      *)
(* pthread_create of umem_create_update_thread (NESTED = FALSE).  What the *)
(* two operators on the update list do is assumed here (ListFacts) and     *)
(* proved in UpdateProofs, where the library's theorems on sequences and   *)
(* cardinality are at hand.                                                *)
(***************************************************************************)
EXTENDS Update, TLAPS

\* The default prover of this module.
USE Zenon

\* Inside umem_process_updates or a global update.
Inside == {"pass", "walk", "top", "work"}
ThreadStates == {"idle", "adding", "added", "create", "publish", "go", "wait_done",
                 "remove", "wait", "dead"} \cup Inside
WorkerStates == {"none", "start", "sleep", "dead"} \cup Inside
States == ThreadStates \cup WorkerStates

\* From the test of umem_reaping to the go that the new thread waits for, or
\* to the end of the inline update.
Sole == {"adding", "added", "create", "publish", "go"} \cup Inside

Types ==
    /\ program \in PROGRAMS
    /\ forks \in Nat
    /\ scarce \in BOOLEAN
    /\ linked \in SUBSET Caches
    /\ uflags \in [Caches -> SUBSET Flags]
    /\ ulist \in Seq(Caches) /\ IsInjective(ulist)
    /\ cache_lock \in Procs \cup {NoOne}
    /\ reaping \in {"DONE", "ADDING", "ACTIVE"}
    /\ update_thr \in Workers \cup {NoOne}
    /\ st_update_thr \in Threads \cup {NoOne}
    /\ pc \in [Procs -> States]
    /\ \A t \in Threads : pc[t] \in ThreadStates
    /\ \A w \in Workers : pc[w] \in WorkerStates
    /\ cp \in [Procs -> SUBSET Caches]
    /\ round \in [Procs -> SUBSET Flags]
    /\ todo \in [Procs -> SUBSET KINDS]
    /\ notify \in [Procs -> BOOLEAN]
    /\ walk \in [Procs -> SUBSET Caches]
    /\ newthr \in [Threads -> Workers \cup {NoOne}]
    /\ why \in [Threads -> {"reap", "fork"}]
    /\ owed \in [Caches -> SUBSET KINDS]

\* One thread at a time is between locking out other reaps and handing over
\* to an update thread, and umem_reaping says how far it is; the fork handler
\* creates its thread when there is no other.
OneReaper ==
    /\ \A t, u \in Threads : pc[t] \in Sole /\ pc[u] \in Sole => t = u
    /\ \A t \in Threads : pc[t] \in {"adding", "added"} => reaping = "ADDING"
    /\ \A t \in Threads :
         /\ pc[t] \in Sole \ {"adding", "added"}
         /\ why[t] = "reap"
         => reaping = "ACTIVE"
    /\ \A t \in Threads : why[t] = "fork" =>
         /\ pc[t] \in {"create", "publish", "go", "wait_done"}
         /\ \A u \in Threads \ {t} : pc[u] = "dead"

\* Who the update thread is, while it is being created and afterwards.
Publication ==
    /\ \A t \in Threads : pc[t] \in {"create", "publish"} \cup Inside => update_thr = NoOne
    /\ \A t \in Threads : pc[t] \in Inside <=> st_update_thr = t
    /\ \A t \in Threads : pc[t] \in {"publish", "go", "wait_done"} => newthr[t] \in Workers
    /\ \A t \in Threads : pc[t] \in {"publish", "go"} => pc[newthr[t]] = "start"
    /\ \A t \in Threads : pc[t] \in {"go", "wait_done"} => newthr[t] = update_thr
    /\ \A t \in Threads : pc[t] \notin {"publish", "go", "wait_done"} => newthr[t] = NoOne
    /\ \A t, u \in Threads : newthr[t] = newthr[u] /\ newthr[t] # NoOne => t = u
    /\ \A w \in Workers : pc[w] = "start" => \E t \in Threads : newthr[t] = w
    /\ \A w \in Workers : pc[w] \in Inside \cup {"sleep"} => w = update_thr

\* A process has a cache exactly while it works on it or destroys it.
Holdings ==
    /\ \A p \in Procs : pc[p] = "work" =>
         /\ "ACTIVE" \in round[p]
         /\ \E c \in Caches : /\ cp[p] = {c}
                              /\ "ACTIVE" \in uflags[c]
                              /\ c \notin Range(ulist)
    /\ \A p \in Procs : pc[p] \in {"remove", "wait"} =>
         p \in Threads /\ \E c \in Caches : cp[p] = {c}
    /\ \A p \in Procs : pc[p] \notin {"work", "remove", "wait"} => cp[p] = {}

\* Whoever walks the list of caches holds umem_cache_lock, so that what it
\* has yet to visit stays on the list.
Walking ==
    \A p \in Procs : pc[p] = "walk" => cache_lock = p /\ walk[p] \subseteq linked

\* The three states of a cache that is linked or being destroyed; flags that
\* are set say what is to be done, also where nobody looks at them any more.
FlagStates ==
    /\ \A c \in Caches : c \in Range(ulist) => uflags[c] # {}
    /\ \A c \in Caches : uflags[c] # {} => uflags[c] \cap KINDS # {}
    /\ \A c \in Caches : c \in linked \/ BeingDestroyed(c) =>
         /\ c \in Range(ulist) <=> uflags[c] # {} /\ "ACTIVE" \notin uflags[c]
         /\ "ACTIVE" \in uflags[c] => WorkingOn(c) # {}

\* A request not begun yet is in the flags and, if the cache is being worked
\* on, either in this round or not part of it.
Requests ==
    /\ \A c \in Caches : WorkingOn(c) = {} => owed[c] \subseteq uflags[c]
    /\ \A p \in Procs : \A c \in cp[p] :
         pc[p] = "work" => owed[c] \subseteq todo[p] \cup (uflags[c] \ round[p])

IInv ==
    /\ NESTED = FALSE
    /\ Types
    /\ OneReaper
    /\ Publication
    /\ Holdings
    /\ Walking
    /\ FlagStates
    /\ Requests
    /\ DestroyedUntouched

-----------------------------------------------------------------------------
(* The update list.                                                        *)

\* Appending caches that are not on a list without repetitions, and unlinking
\* a cache from it.
ListFacts ==
    \A s \in Seq(Caches) : IsInjective(s) =>
        /\ \A S \in SUBSET Caches : S \cap Range(s) = {} =>
             /\ s \o Listed(S) \in Seq(Caches)
             /\ IsInjective(s \o Listed(S))
             /\ Range(s \o Listed(S)) = Range(s) \cup S
        /\ \A c \in Caches :
             /\ Unlinked(s, c) \in Seq(Caches)
             /\ IsInjective(Unlinked(s, c))
             /\ Range(Unlinked(s, c)) = Range(s) \ {c}

\* ListFacts, for one list and the caches appended to it.
LEMMA Appended ==
    ASSUME ListFacts, NEW s \in Seq(Caches), IsInjective(s),
           NEW S \in SUBSET Caches, S \cap Range(s) = {}
    PROVE  /\ s \o Listed(S) \in Seq(Caches)
           /\ IsInjective(s \o Listed(S))
           /\ Range(s \o Listed(S)) = Range(s) \cup S
  BY DEF ListFacts

\* ListFacts, for one list and the cache taken off it.
LEMMA Unlink ==
    ASSUME ListFacts, NEW s \in Seq(Caches), IsInjective(s), NEW c \in Caches
    PROVE  /\ Unlinked(s, c) \in Seq(Caches)
           /\ IsInjective(Unlinked(s, c))
           /\ Range(Unlinked(s, c)) = Range(s) \ {c}
  BY DEF ListFacts

\* Taking the head off a list without repetitions.
LEMMA TailIs ==
    ASSUME NEW s \in Seq(Caches), IsInjective(s), s # << >>
    PROVE  /\ Head(s) \in Caches /\ Head(s) \in Range(s)
           /\ Tail(s) \in Seq(Caches) /\ IsInjective(Tail(s))
           /\ Range(Tail(s)) = Range(s) \ {Head(s)}
  <1>1. /\ Len(s) \in Nat /\ Len(s) >= 1 /\ DOMAIN s = 1 .. Len(s)
        /\ Head(s) = s[1] /\ 1 \in DOMAIN s
    BY SMT
  <1>2. /\ Tail(s) \in Seq(Caches)
        /\ DOMAIN Tail(s) = 1 .. (Len(s) - 1)
        /\ \A i \in 1 .. (Len(s) - 1) : Tail(s)[i] = s[i + 1] /\ i + 1 \in DOMAIN s
    BY <1>1, SMT
  <1>3. IsInjective(Tail(s))
    <2> SUFFICES ASSUME NEW a \in 1 .. (Len(s) - 1), NEW b \in 1 .. (Len(s) - 1),
                        Tail(s)[a] = Tail(s)[b]
                 PROVE  a = b
      BY <1>2 DEF IsInjective
    <2>1. a + 1 = b + 1
      BY <1>2 DEF IsInjective
    <2> QED
      BY <1>1, <2>1, SMT
  <1>4. Range(Tail(s)) = Range(s) \ {Head(s)}
    <2>1. Range(Tail(s)) \subseteq Range(s) \ {Head(s)}
      <3> SUFFICES ASSUME NEW i \in 1 .. (Len(s) - 1)
                   PROVE  Tail(s)[i] \in Range(s) /\ Tail(s)[i] # Head(s)
        BY <1>2 DEF Range
      <3>1. Tail(s)[i] = s[i + 1] /\ i + 1 \in DOMAIN s /\ i + 1 # 1
        BY <1>1, <1>2, SMT
      <3> QED
        BY <1>1, <3>1 DEF Range, IsInjective
    <2>2. Range(s) \ {Head(s)} \subseteq Range(Tail(s))
      <3> SUFFICES ASSUME NEW i \in 1 .. Len(s), s[i] # s[1]
                   PROVE  s[i] \in Range(Tail(s))
        BY <1>1 DEF Range
      <3>1. i - 1 \in 1 .. (Len(s) - 1) /\ (i - 1) + 1 = i
        BY <1>1, SMT
      <3>2. Tail(s)[i - 1] = s[i]
        BY <1>2, <3>1
      <3> QED
        BY <1>2, <3>1, <3>2 DEF Range
    <2> QED
      BY <2>1, <2>2
  <1>5. Head(s) \in Caches /\ Head(s) \in Range(s)
    BY <1>1, SMT DEF Range
  <1> QED
    BY <1>2, <1>3, <1>4, <1>5

-----------------------------------------------------------------------------
(* Where processes are after a step.                                       *)

\* A step of p leaves the others where they are, or wakes them.
Others(p) ==
    \A r \in Procs \ {p} :
        \/ pc'[r] = pc[r]
        \/ pc[r] = "sleep" /\ pc'[r] = "top"
        \/ pc[r] = "wait" /\ pc'[r] = "remove"

\* The processes that have a cache are the same.
SameHolders ==
    \A r \in Procs :
        /\ pc'[r] = "work" <=> pc[r] = "work"
        /\ pc'[r] \in {"remove", "wait"} <=> pc[r] \in {"remove", "wait"}

\* A broadcast of umem_update_cv, and a step without one.
LEMMA Moves ==
    ASSUME Types, NEW p \in Procs, NEW q \in States,
           pc' = Broadcast(p, q) \/ pc' = [pc EXCEPT ![p] = q],
           p \in Threads => q \in ThreadStates,
           p \in Workers => q \in WorkerStates
    PROVE  /\ pc'[p] = q /\ Others(p)
           /\ pc' \in [Procs -> States]
           /\ \A t \in Threads : pc'[t] \in ThreadStates
           /\ \A w \in Workers : pc'[w] \in WorkerStates
  <1>1. pc'[p] = q /\ Others(p)
    BY DEF Types, Others, Broadcast
  <1>2. pc' \in [Procs -> States]
    <2>1. "top" \in States /\ "remove" \in States
      BY DEF States, ThreadStates, Inside
    <2>2. CASE pc' = Broadcast(p, q)
      BY <2>1, <2>2 DEF Types, Broadcast
    <2>3. CASE pc' = [pc EXCEPT ![p] = q]
      BY <2>3 DEF Types
    <2> QED
      BY <2>2, <2>3
  <1>3. \A t \in Threads : pc'[t] \in ThreadStates
    BY <1>1 DEF Types, Others, Procs, ThreadStates, Inside
  <1>4. \A w \in Workers : pc'[w] \in WorkerStates
    BY <1>1 DEF Types, Others, Procs, WorkerStates, Inside
  <1> QED
    BY <1>1, <1>2, <1>3, <1>4

\* One process at most is in an update, and it is one that IN_UPDATE()
\* recognises.
LEMMA OneInside ==
    ASSUME Types, OneReaper, Publication
    PROVE  \A p, q \in Procs :
             /\ pc[p] \in Inside => p \in UpdateThreads
             /\ pc[p] \in Inside /\ pc[q] \in Inside => p = q
  <1>1. \A t \in Threads : pc[t] \in Inside => t = st_update_thr /\ update_thr = NoOne
    BY DEF Publication
  <1>2. \A w \in Workers : pc[w] \in Inside => w = update_thr /\ w # NoOne
    BY UpdateConstants DEF Publication
  <1> QED
    BY <1>1, <1>2 DEF Procs, UpdateThreads

\* Being woken makes no difference to who is reaping, creating or updating,
\* and takes nobody's cache or lock away.
LEMMA OthersKeep ==
    ASSUME Types, NEW p \in Procs, Others(p), NEW r \in Procs, r # p
    PROVE  /\ r \in Threads =>
                /\ pc'[r] \in Sole <=> pc[r] \in Sole
                /\ pc'[r] \in {"adding", "added"} <=> pc[r] \in {"adding", "added"}
                /\ pc'[r] \in Inside <=> pc[r] \in Inside
                /\ \A x \in {"create", "publish", "go", "wait_done", "dead"} :
                      pc'[r] = x <=> pc[r] = x
           /\ r \in Workers =>
                /\ pc'[r] = "start" <=> pc[r] = "start"
                /\ pc'[r] \in Inside \cup {"sleep"} <=> pc[r] \in Inside \cup {"sleep"}
           /\ pc'[r] = "work" <=> pc[r] = "work"
           /\ pc'[r] = "walk" <=> pc[r] = "walk"
           /\ pc'[r] \in {"remove", "wait"} <=> pc[r] \in {"remove", "wait"}
  <1>1. r \in Threads => pc[r] # "sleep"
    BY DEF Types, ThreadStates, Inside
  <1>2. \/ pc'[r] = pc[r]
        \/ pc[r] = "sleep" /\ pc'[r] = "top"
        \/ pc[r] = "wait" /\ pc'[r] = "remove"
    BY DEF Others
  <1> QED
    BY <1>1, <1>2 DEF Sole, Inside

\* Steps that do not change who is reaping, creating or updating.
LEMMA ControlStable ==
    ASSUME Types, OneReaper, Publication, NEW p \in Procs, Others(p),
           UNCHANGED <<reaping, thrVars>>,
           \/ pc'[p] = pc[p]
           \/ pc[p] \in Inside /\ pc'[p] \in Inside
           \/ p \in Workers /\ {pc[p], pc'[p]} \subseteq Inside \cup {"sleep"}
           \/ pc[p] = "adding" /\ pc'[p] = "added"
           \/ {pc[p], pc'[p]} \subseteq {"idle", "remove", "wait"}
    PROVE  OneReaper' /\ Publication'
  <1>1. ASSUME NEW t \in Threads
        PROVE  /\ pc'[t] \in Sole <=> pc[t] \in Sole
               /\ pc'[t] \in {"adding", "added"} <=> pc[t] \in {"adding", "added"}
               /\ pc'[t] \in Inside <=> pc[t] \in Inside
               /\ \A x \in {"create", "publish", "go", "wait_done", "dead"} :
                     pc'[t] = x <=> pc[t] = x
    <2>1. t \notin Workers /\ t \in Procs /\ pc[t] # "sleep"
      BY UpdateConstants DEF Types, Procs, ThreadStates, Inside
    <2>2. CASE t # p
      BY <2>1, <2>2, OthersKeep
    <2>3. CASE t = p
      BY <2>1, <2>3 DEF Sole, Inside
    <2> QED
      BY <2>2, <2>3
  <1>2. ASSUME NEW w \in Workers
        PROVE  /\ pc'[w] = "start" <=> pc[w] = "start"
               /\ pc'[w] \in Inside \cup {"sleep"} <=> pc[w] \in Inside \cup {"sleep"}
    <2>1. w \in Procs
      BY DEF Procs
    <2>2. CASE w # p
      BY <2>1, <2>2, OthersKeep
    <2>3. CASE w = p
      BY <2>3 DEF Inside
    <2> QED
      BY <2>2, <2>3
  <1>3. OneReaper'
    <2>1. \A t, u \in Threads : pc'[t] \in Sole /\ pc'[u] \in Sole => t = u
      BY <1>1 DEF OneReaper
    <2>2. \A t \in Threads : pc'[t] \in {"adding", "added"} => reaping' = "ADDING"
      BY <1>1 DEF OneReaper
    <2>3. \A t \in Threads : pc'[t] \in Sole \ {"adding", "added"} /\ why'[t] = "reap"
                                => reaping' = "ACTIVE"
      BY <1>1 DEF OneReaper, thrVars
    <2>4. \A t \in Threads : why'[t] = "fork" =>
             /\ pc'[t] \in {"create", "publish", "go", "wait_done"}
             /\ \A u \in Threads \ {t} : pc'[u] = "dead"
      BY <1>1 DEF OneReaper, thrVars
    <2> QED
      BY <2>1, <2>2, <2>3, <2>4 DEF OneReaper
  <1>4. Publication'
    <2> USE DEF thrVars
    <2>1. \A t \in Threads : pc'[t] \in {"create", "publish"} \cup Inside => update_thr' = NoOne
      BY <1>1 DEF Publication
    <2>2. \A t \in Threads : pc'[t] \in Inside <=> st_update_thr' = t
      BY <1>1 DEF Publication
    <2>3. \A t \in Threads : pc'[t] \in {"publish", "go", "wait_done"} => newthr'[t] \in Workers
      BY <1>1 DEF Publication
    <2>4. \A t \in Threads : pc'[t] \in {"publish", "go"} => pc'[newthr'[t]] = "start"
      BY <1>1, <1>2 DEF Publication
    <2>5. \A t \in Threads : pc'[t] \in {"go", "wait_done"} => newthr'[t] = update_thr'
      BY <1>1 DEF Publication
    <2>6. \A t \in Threads : pc'[t] \notin {"publish", "go", "wait_done"} => newthr'[t] = NoOne
      BY <1>1 DEF Publication
    <2>7. /\ \A t, u \in Threads : newthr'[t] = newthr'[u] /\ newthr'[t] # NoOne => t = u
          /\ \A w \in Workers : pc'[w] = "start" => \E t \in Threads : newthr'[t] = w
      BY <1>2, SMT DEF Publication
    <2>8. \A w \in Workers : pc'[w] \in Inside \cup {"sleep"} => w = update_thr'
      BY <1>2 DEF Publication
    <2> QED
      BY <2>1, <2>2, <2>3, <2>4, <2>5, <2>6, <2>7, <2>8 DEF Publication
  <1> QED
    BY <1>3, <1>4

\* Steps that change no cache, no flag and no list.
LEMMA DataStable ==
    ASSUME Holdings, FlagStates, Requests, DestroyedUntouched, SameHolders,
           UNCHANGED <<linked, updVars, cp, round, todo, forks>>
    PROVE  Holdings' /\ FlagStates' /\ Requests' /\ DestroyedUntouched'
  <1> USE DEF updVars
  <1>1. \A c : WorkingOn(c)' = WorkingOn(c)
    BY DEF SameHolders, WorkingOn
  <1>2. \A c : BeingDestroyed(c)' <=> BeingDestroyed(c)
    BY DEF SameHolders, BeingDestroyed, Procs
  <1>3. Holdings'
    BY DEF SameHolders, Holdings
  <1>4. FlagStates'
    BY <1>1, <1>2 DEF FlagStates
  <1>5. Requests'
    BY <1>1 DEF SameHolders, Requests
  <1>6. DestroyedUntouched'
    BY <1>1, <1>2 DEF DestroyedUntouched
  <1> QED
    BY <1>3, <1>4, <1>5, <1>6

\* A step of p in which it keeps or lacks its cache leaves the holders alone.
LEMMA HoldersStable ==
    ASSUME Types, NEW p \in Procs, Others(p),
           pc'[p] = "work" <=> pc[p] = "work",
           pc'[p] \in {"remove", "wait"} <=> pc[p] \in {"remove", "wait"}
    PROVE  SameHolders
  <1> SUFFICES ASSUME NEW r \in Procs
               PROVE  /\ pc'[r] = "work" <=> pc[r] = "work"
                      /\ pc'[r] \in {"remove", "wait"} <=> pc[r] \in {"remove", "wait"}
    BY DEF SameHolders
  <1>1. CASE r = p
    BY <1>1
  <1>2. CASE r # p
    BY <1>2, OthersKeep
  <1> QED
    BY <1>1, <1>2

\* umem_cache_lock and the walk under it are untouched by a step of p that
\* does not walk.
LEMMA WalkingStable ==
    ASSUME Types, Walking, NEW p \in Procs, Others(p), pc'[p] # "walk",
           UNCHANGED <<linked, cache_lock, walk>>
    PROVE  Walking'
  <1> SUFFICES ASSUME NEW r \in Procs, pc'[r] = "walk"
               PROVE  cache_lock' = r /\ walk'[r] \subseteq linked'
    BY DEF Walking
  <1>1. r # p
    OBVIOUS
  <1>2. pc[r] = "walk"
    BY <1>1, OthersKeep
  <1> QED
    BY <1>2 DEF Walking

\* What a step of p has to establish when it changes no cache, no flag and no
\* list, and p neither takes nor gives up a cache or the lock.
LEMMA ControlSuffices ==
    ASSUME IInv, NEW p \in Procs, Others(p),
           pc[p] \notin {"work", "walk", "remove", "wait"},
           pc'[p] \notin {"work", "walk", "remove", "wait"},
           UNCHANGED <<linked, updVars, cache_lock, procVars, forks>>,
           Types', OneReaper', Publication'
    PROVE  IInv'
  <1> USE DEF IInv, procVars
  <1>1. SameHolders
    BY HoldersStable
  <1>2. Walking'
    BY WalkingStable
  <1> QED
    BY <1>1, <1>2, DataStable

-----------------------------------------------------------------------------
(* The loop of umem_update_thread.                                         *)

\* umem_cond_timedwait of the update thread runs out.
LEMMA WorkerTimeoutInv ==
    ASSUME IInv, NEW w \in Workers, WorkerTimeout(w), UNCHANGED rigid
    PROVE  IInv'
  <1> USE DEF IInv
  <1>1. /\ pc[w] = "sleep" /\ pc' = [pc EXCEPT ![w] = "top"] /\ w \in Procs
        /\ UNCHANGED <<linked, updVars, cache_lock, reaping, thrVars, procVars, forks, rigid>>
    BY DEF WorkerTimeout, Procs
  <1>2. /\ pc'[w] = "top" /\ Others(w) /\ pc' \in [Procs -> States]
        /\ \A t \in Threads : pc'[t] \in ThreadStates
        /\ \A v \in Workers : pc'[v] \in WorkerStates
    <2>1. w \notin Threads /\ "top" \in States /\ "top" \in WorkerStates
      BY UpdateConstants DEF States, WorkerStates, Inside
    <2> QED
      BY <1>1, <2>1, Moves
  <1>3. Types'
    BY <1>1, <1>2 DEF Types, updVars, thrVars, procVars, rigid
  <1>4. OneReaper' /\ Publication'
    BY <1>1, <1>2, ControlStable DEF Inside
  <1> QED
    BY <1>1, <1>2, <1>3, <1>4, ControlSuffices

\* The new update thread goes on once its creator has told it to.
LEMMA WorkerStartsInv ==
    ASSUME IInv, NEW w \in Workers, WorkerStarts(w), UNCHANGED rigid
    PROVE  IInv'
  <1> USE DEF IInv
  <1>1. /\ pc[w] = "start" /\ pc' = [pc EXCEPT ![w] = "top"] /\ w \in Procs
        /\ UNCHANGED <<linked, updVars, cache_lock, reaping, thrVars, procVars, forks, rigid>>
    BY DEF WorkerStarts, Procs
  <1>2. PICK c \in Threads : newthr[c] = w /\ pc[c] = "wait_done"
    BY DEF WorkerStarts
  <1>3. w = update_thr /\ w # NoOne
    BY <1>2, UpdateConstants DEF Publication
  <1>4. /\ pc'[w] = "top" /\ Others(w) /\ pc' \in [Procs -> States]
        /\ \A t \in Threads : pc'[t] \in ThreadStates
        /\ \A v \in Workers : pc'[v] \in WorkerStates
    <2>1. w \notin Threads /\ "top" \in States /\ "top" \in WorkerStates
      BY UpdateConstants DEF States, WorkerStates, Inside
    <2> QED
      BY <1>1, <2>1, Moves
  <1>5. \A r \in Procs \ {w} : pc'[r] = pc[r]
    BY <1>1 DEF Types
  <1>6. Types'
    BY <1>1, <1>4 DEF Types, updVars, thrVars, procVars, rigid
  <1>7. w \notin Threads /\ \A t \in Threads : t \in Procs /\ pc'[t] = pc[t]
    BY <1>5, UpdateConstants DEF Procs
  <1>8. OneReaper'
    BY <1>1, <1>7 DEF OneReaper, thrVars
  <1>9. Publication'
    <2> USE DEF thrVars
    <2>1. \A t \in Threads : pc[t] \notin {"publish", "go"}
      <3> SUFFICES ASSUME NEW t \in Threads, pc[t] \in {"publish", "go"} PROVE FALSE
        OBVIOUS
      <3>1. pc[t] = "go"
        BY <1>3 DEF Publication
      <3>2. newthr[t] = w /\ t # c
        BY <1>2, <1>3, <3>1 DEF Publication
      <3> QED
        BY <1>2, <1>3, <3>2, SMT DEF Publication
    <2>2. \A v \in Workers : pc'[v] = "start" => pc[v] = "start"
      BY <1>4, <1>5 DEF Procs
    <2>3. \A v \in Workers : pc'[v] \in Inside \cup {"sleep"} => v = update_thr
      BY <1>3, <1>5 DEF Publication, Procs
    <2> QED
      BY <1>1, <1>7, <2>1, <2>2, <2>3, SMT DEF Publication
  <1> QED
    BY <1>1, <1>4, <1>6, <1>8, <1>9, ControlSuffices

\* The update thread finds the update list empty: a reap is over.
LEMMA WorkerIdlesInv ==
    ASSUME IInv, NEW w \in Workers, WorkerIdles(w), UNCHANGED rigid
    PROVE  IInv'
  <1> USE DEF IInv
  <1>1. PICK q \in {"pass", "sleep"} : pc' = [pc EXCEPT ![w] = q]
    BY DEF WorkerIdles
  <1>2. /\ pc[w] = "top" /\ reaping' = ReapingOver /\ w \in Procs
        /\ UNCHANGED <<linked, updVars, cache_lock, thrVars, procVars, forks, rigid>>
    BY DEF WorkerIdles, Procs
  <1>3. w = update_thr /\ w # NoOne
    BY <1>2, UpdateConstants DEF Publication, Inside
  <1>4. /\ pc'[w] = q /\ Others(w) /\ pc' \in [Procs -> States]
        /\ \A t \in Threads : pc'[t] \in ThreadStates
        /\ \A v \in Workers : pc'[v] \in WorkerStates
    <2>1. w \notin Threads /\ q \in States /\ q \in WorkerStates
      BY UpdateConstants DEF States, WorkerStates, Inside
    <2> QED
      BY <1>1, <1>2, <2>1, Moves
  <1>5. \A r \in Procs \ {w} : pc'[r] = pc[r]
    BY <1>1 DEF Types
  <1>6. Types'
    BY <1>2, <1>4 DEF Types, updVars, thrVars, procVars, rigid, ReapingOver
  <1>7. w \notin Threads /\ \A t \in Threads : t \in Procs /\ pc'[t] = pc[t]
    BY <1>5, UpdateConstants DEF Procs
  <1>8. OneReaper'
    <2>1. \A t \in Threads : pc[t] \notin {"create", "publish", "go"} \cup Inside
      BY <1>2, <1>3 DEF Publication
    <2>2. \A t \in Threads : pc[t] \in Sole => pc[t] \in {"adding", "added"}
      BY <2>1 DEF Sole
    <2>3. reaping = "ADDING" => reaping' = "ADDING"
      BY <1>2 DEF ReapingOver
    <2> QED
      BY <1>2, <1>7, <2>2, <2>3 DEF OneReaper, thrVars
  <1>9. Publication'
    <2>1. \A v \in Workers : pc'[v] = "start" <=> pc[v] = "start"
      BY <1>2, <1>4, <1>5 DEF Procs
    <2>2. \A v \in Workers : pc'[v] \in Inside \cup {"sleep"} => v = update_thr
      BY <1>3, <1>5 DEF Publication, Procs
    <2> QED
      BY <1>2, <1>7, <2>1, <2>2, SMT DEF Publication, thrVars
  <1> QED
    BY <1>2, <1>4, <1>6, <1>8, <1>9, ControlSuffices

-----------------------------------------------------------------------------
(* umem_reap, and umem_create_update_thread.                               *)

\* umem_reap locks out other reaps.
LEMMA ReapBeginInv ==
    ASSUME IInv, NEW t \in Threads, ReapBegin(t), UNCHANGED rigid
    PROVE  IInv'
  <1> USE DEF IInv
  <1>1. /\ pc[t] = "idle" /\ pc' = [pc EXCEPT ![t] = "adding"] /\ t \in Procs
        /\ reaping = "DONE" /\ reaping' = "ADDING"
        /\ UNCHANGED <<linked, updVars, cache_lock, thrVars, procVars, forks, rigid>>
    BY DEF ReapBegin, MayReap, Procs
  <1>2. /\ pc'[t] = "adding" /\ Others(t) /\ pc' \in [Procs -> States]
        /\ \A u \in Threads : pc'[u] \in ThreadStates
        /\ \A v \in Workers : pc'[v] \in WorkerStates
    <2>1. t \notin Workers /\ "adding" \in States /\ "adding" \in ThreadStates
      BY UpdateConstants DEF States, ThreadStates
    <2> QED
      BY <1>1, <2>1, Moves
  <1>3. /\ \A r \in Procs \ {t} : pc'[r] = pc[r]
        /\ \A u \in Threads \ {t} : pc'[u] = pc[u]
        /\ \A w \in Workers : w # t /\ pc'[w] = pc[w]
    BY <1>1, UpdateConstants DEF Types, Procs
  <1>4. Types'
    BY <1>1, <1>2 DEF Types, updVars, thrVars, procVars, rigid
  <1>5. \A u \in Threads : why[u] = "reap" /\ pc[u] \notin Sole
    <2> SUFFICES ASSUME NEW u \in Threads PROVE why[u] = "reap" /\ pc[u] \notin Sole
      OBVIOUS
    <2>1. why[u] # "fork"
      BY <1>1 DEF OneReaper
    <2>2. why[u] = "reap"
      BY <2>1 DEF Types
    <2> QED
      BY <1>1, <2>2 DEF OneReaper
  <1>6. OneReaper'
    BY <1>1, <1>2, <1>3, <1>5 DEF OneReaper, thrVars
  <1>7. Publication'
    <2>1. \A u \in Threads : \A x \in {"create", "publish", "go", "wait_done"} \cup Inside :
             pc'[u] = x <=> pc[u] = x
      BY <1>1, <1>2, <1>3 DEF Inside
    <2> QED
      BY <1>1, <1>3, <2>1, SMT DEF Publication, thrVars
  <1> QED
    BY <1>1, <1>2, <1>4, <1>6, <1>7, ControlSuffices

\* The reap is announced: an update thread is woken, or one is to be created.
LEMMA ReapActivateInv ==
    ASSUME IInv, NEW t \in Threads, ReapActivate(t), UNCHANGED rigid
    PROVE  IInv'
  <1> USE DEF IInv
  <1> DEFINE q == IF update_thr # NoOne THEN "idle" ELSE "create"
  <1>1. /\ pc[t] = "added" /\ t \in Procs /\ reaping' = "ACTIVE"
        /\ pc' = Broadcast(t, q) \/ pc' = [pc EXCEPT ![t] = q]
        /\ why' = why \/ why' = [why EXCEPT ![t] = "reap"]
        /\ UNCHANGED <<linked, updVars, cache_lock, update_thr, st_update_thr, newthr, procVars,
                       forks, rigid>>
    BY DEF ReapActivate, Procs, Types, ThreadStates, Inside
  <1>2. q = "idle" \/ (q = "create" /\ update_thr = NoOne)
    OBVIOUS
  <1> HIDE DEF q
  <1>3. /\ pc'[t] = q /\ Others(t) /\ pc' \in [Procs -> States]
        /\ \A u \in Threads : pc'[u] \in ThreadStates
        /\ \A v \in Workers : pc'[v] \in WorkerStates
    <2>1. t \notin Workers /\ q \in States /\ q \in ThreadStates
      BY <1>2, UpdateConstants DEF States, ThreadStates, Inside
    <2> QED
      BY <1>1, <2>1, Moves
  <1>4. /\ \A u \in Threads \ {t} : pc[u] \notin Sole
        /\ \A u \in Threads : why[u] = "reap"
    <2>1. pc[t] \in Sole
      BY <1>1 DEF Sole
    <2>2. \A u \in Threads : why[u] # "fork"
      BY <1>1 DEF OneReaper
    <2> QED
      BY <2>1, <2>2 DEF OneReaper, Types
  <1>5. why' = why
    BY <1>1, <1>4 DEF Types
  <1>6. Types'
    BY <1>1, <1>3, <1>5 DEF Types, updVars, procVars, rigid
  <1>7. \A u \in Threads \ {t} : pc'[u] \notin Sole
    BY <1>1, <1>3, <1>4, OthersKeep DEF Procs
  <1>8. OneReaper'
    <2>1. pc'[t] \notin {"adding", "added"}
      BY <1>2, <1>3
    <2>2. \A u \in Threads : pc'[u] \notin {"adding", "added"}
      BY <1>7, <2>1 DEF Sole
    <2> QED
      BY <1>1, <1>4, <1>5, <1>7, <2>2 DEF OneReaper
  <1>9. Publication'
    <2>1. \A u \in Threads : pc'[u] \notin Inside \cup {"publish", "go"}
      BY <1>2, <1>3, <1>7 DEF Sole, Inside
    <2>2. \A u \in Threads : pc'[u] = "create" => update_thr = NoOne
      BY <1>2, <1>3, <1>7 DEF Sole
    <2>3. \A u \in Threads : pc[u] \notin Inside
      BY <1>1, <1>4 DEF Sole, Inside
    <2>4. \A u \in Threads : pc'[u] = "wait_done" <=> pc[u] \in {"publish", "go", "wait_done"}
      BY <1>1, <1>2, <1>3, <1>4, OthersKeep DEF Procs, Sole
    <2>5. \A w \in Workers :
             /\ pc'[w] = "start" <=> pc[w] = "start"
             /\ pc'[w] \in Inside \cup {"sleep"} <=> pc[w] \in Inside \cup {"sleep"}
      BY <1>1, <1>3, OthersKeep, UpdateConstants DEF Procs
    <2>6. \A u \in Threads : pc[u] = "wait_done" <=> pc[u] \in {"publish", "go", "wait_done"}
      BY <1>1, <1>4 DEF Sole
    <2> QED
      BY <1>1, <2>1, <2>2, <2>3, <2>4, <2>5, <2>6, SMT DEF Publication
  <1> QED
    BY <1>1, <1>2, <1>3, <1>6, <1>8, <1>9, ControlSuffices

\* pthread_create succeeds: the new thread waits for its creator's go.
LEMMA CreateOkInv ==
    ASSUME IInv, NEW t \in Threads, CreateOk(t), UNCHANGED rigid
    PROVE  IInv'
  <1> USE DEF IInv
  <1>1. PICK w \in Workers :
          /\ pc[w] = "none"
          /\ newthr' = [newthr EXCEPT ![t] = w]
          /\ pc' = [pc EXCEPT ![t] = "publish", ![w] = "start"]
    BY DEF CreateOk
  <1>2. /\ pc[t] = "create" /\ t \in Procs /\ w \in Procs /\ t # w
        /\ UNCHANGED <<linked, updVars, cache_lock, reaping, update_thr, st_update_thr, why,
                       procVars, forks, rigid>>
    BY UpdateConstants DEF CreateOk, Procs
  <1>3. /\ pc'[t] = "publish" /\ pc'[w] = "start"
        /\ \A r \in Procs \ {t, w} : pc'[r] = pc[r]
        /\ newthr'[t] = w /\ \A u \in Threads \ {t} : newthr'[u] = newthr[u]
    BY <1>1, <1>2 DEF Types
  <1>4. /\ \A u \in Threads \ {t} : u # w /\ pc'[u] = pc[u]
        /\ \A v \in Workers \ {w} : v # t /\ pc'[v] = pc[v]
    BY <1>3, UpdateConstants, SMT DEF Procs
  <1>5. Types'
    <2>1. pc' \in [Procs -> States]
      BY <1>1, <1>2 DEF Types, States, ThreadStates, WorkerStates
    <2>2. \A u \in Threads : pc'[u] \in ThreadStates
      BY <1>3, <1>4 DEF Types, ThreadStates
    <2>3. \A v \in Workers : pc'[v] \in WorkerStates
      BY <1>3, <1>4 DEF Types, WorkerStates
    <2>4. newthr' \in [Threads -> Workers \cup {NoOne}]
      BY <1>1 DEF Types
    <2> QED
      BY <1>2, <2>1, <2>2, <2>3, <2>4 DEF Types, updVars, procVars, rigid
  <1>6. update_thr = NoOne /\ newthr[t] = NoOne /\ w # NoOne /\ pc[t] \in Sole
    BY <1>2, UpdateConstants DEF Publication, Sole
  <1>7. \A u \in Threads \ {t} : pc[u] \notin Sole
    BY <1>6 DEF OneReaper
  <1>8. \A u \in Threads : newthr[u] # w
    <2> SUFFICES ASSUME NEW u \in Threads, newthr[u] = w PROVE FALSE
      OBVIOUS
    <2>1. pc[u] \in {"publish", "go", "wait_done"}
      BY <1>6 DEF Publication
    <2> QED
      BY <1>1, <1>6, <2>1 DEF Publication
  <1>9. OneReaper'
    BY <1>2, <1>3, <1>4, <1>7, SMT DEF OneReaper, Sole
  <1>10. Publication'
    <2>1. \A u \in Threads : newthr'[u] = w <=> u = t
      BY <1>3, <1>8
    <2>2. \A u \in Threads : pc'[u] \in {"publish", "go"} => u = t
      BY <1>4, <1>7 DEF Sole
    <2>3. \A u \in Threads : pc'[u] \in Inside <=> st_update_thr' = u
      BY <1>2, <1>3, <1>4, SMT DEF Publication, Inside
    <2>4. \A u \in Threads : pc'[u] \in {"publish", "go", "wait_done"} => newthr'[u] \in Workers
      BY <1>3, <1>4 DEF Publication
    <2>5. \A u \in Threads : pc'[u] \in {"go", "wait_done"} => newthr'[u] = update_thr'
      BY <1>2, <1>3, <1>4, SMT DEF Publication
    <2>6. \A u \in Threads : pc'[u] \notin {"publish", "go", "wait_done"} => newthr'[u] = NoOne
      BY <1>3, <1>4 DEF Publication
    <2>7. \A u, v \in Threads : newthr'[u] = newthr'[v] /\ newthr'[u] # NoOne => u = v
      BY <1>3, <2>1, SMT DEF Publication
    <2>8. \A v \in Workers : pc'[v] = "start" => \E u \in Threads : newthr'[u] = v
      <3> SUFFICES ASSUME NEW v \in Workers, pc'[v] = "start"
                   PROVE  \E u \in Threads : newthr'[u] = v
        OBVIOUS
      <3>1. CASE v = w
        BY <1>3, <3>1
      <3>2. CASE v # w
        <4>1. PICK u \in Threads : newthr[u] = v
          BY <1>4, <3>2 DEF Publication
        <4>2. u # t /\ newthr'[u] = v
          BY <1>3, <1>6, <4>1, UpdateConstants
        <4> QED
          BY <4>2
      <3> QED
        BY <3>1, <3>2
    <2>9. \A v \in Workers : pc'[v] \in Inside \cup {"sleep"} => v = update_thr'
      BY <1>2, <1>3, <1>4 DEF Publication, Inside
    <2>10. \A u \in Threads : pc'[u] \in {"publish", "go"} => pc'[newthr'[u]] = "start"
      BY <1>3, <2>2
    <2> QED
      BY <1>2, <1>6, <2>3, <2>4, <2>5, <2>6, <2>7, <2>8, <2>9, <2>10 DEF Publication
  <1>11. SameHolders
    BY <1>1, <1>2, <1>3 DEF SameHolders
  <1>12. Walking'
    BY <1>2, <1>3 DEF Walking, procVars
  <1> QED
    BY <1>2, <1>5, <1>9, <1>10, <1>11, <1>12, DataStable DEF procVars

\* The creator makes the new thread the update thread.
LEMMA CreatePublishInv ==
    ASSUME IInv, NEW t \in Threads, CreatePublish(t), UNCHANGED rigid
    PROVE  IInv'
  <1> USE DEF IInv
  <1>1. /\ pc[t] = "publish" /\ pc' = [pc EXCEPT ![t] = "go"] /\ t \in Procs
        /\ update_thr' = newthr[t]
        /\ UNCHANGED <<linked, updVars, cache_lock, reaping, st_update_thr, newthr, why, procVars,
                       forks, rigid>>
    BY DEF CreatePublish, Procs
  <1>2. /\ pc'[t] = "go" /\ Others(t) /\ pc' \in [Procs -> States]
        /\ \A u \in Threads : pc'[u] \in ThreadStates
        /\ \A v \in Workers : pc'[v] \in WorkerStates
    <2>1. t \notin Workers /\ "go" \in States /\ "go" \in ThreadStates
      BY UpdateConstants DEF States, ThreadStates, Inside
    <2> QED
      BY <1>1, <2>1, Moves
  <1>3. /\ \A u \in Threads \ {t} : pc'[u] = pc[u]
        /\ \A w \in Workers : w # t /\ pc'[w] = pc[w]
    BY <1>1, UpdateConstants DEF Types, Procs
  <1>4. /\ newthr[t] \in Workers /\ update_thr = NoOne /\ pc[newthr[t]] = "start"
        /\ pc[t] \in Sole
    BY <1>1 DEF Publication, Sole
  <1>5. Types'
    BY <1>1, <1>2, <1>4 DEF Types, updVars, procVars, rigid
  <1>6. \A u \in Threads \ {t} : pc[u] \notin Sole
    BY <1>4 DEF OneReaper
  <1>7. OneReaper'
    BY <1>1, <1>2, <1>3, <1>6, SMT DEF OneReaper, Sole
  <1>8. Publication'
    <2>1. \A u \in Threads \ {t} : pc[u] # "wait_done"
      BY <1>4, UpdateConstants, SMT DEF Publication
    <2>2. \A u \in Threads \ {t} : pc'[u] \notin {"create", "publish", "go", "wait_done"} \cup Inside
      BY <1>3, <1>6, <2>1 DEF Sole
    <2>3. \A w \in Workers : pc[w] \notin Inside \cup {"sleep"}
      BY <1>4, UpdateConstants DEF Publication
    <2>4. pc'[t] \notin {"create", "publish"} \cup Inside
      BY <1>2 DEF Inside
    <2>5. pc[t] \notin Inside
      BY <1>1 DEF Inside
    <2>6. \A u \in Threads \ {t} : pc[u] \notin {"create", "publish", "go", "wait_done"} \cup Inside
      BY <1>3, <2>2
    <2> QED
      BY <1>1, <1>2, <1>3, <1>4, <2>2, <2>3, <2>4, <2>5, <2>6, SMT DEF Publication
  <1> QED
    BY <1>1, <1>2, <1>5, <1>7, <1>8, ControlSuffices

\* The creator gives the new thread its go.
LEMMA CreateGoInv ==
    ASSUME IInv, NEW t \in Threads, CreateGo(t), UNCHANGED rigid
    PROVE  IInv'
  <1> USE DEF IInv
  <1>1. /\ pc[t] = "go" /\ pc' = [pc EXCEPT ![t] = "wait_done"] /\ t \in Procs
        /\ UNCHANGED <<linked, updVars, cache_lock, reaping, thrVars, procVars, forks, rigid>>
    BY DEF CreateGo, Procs
  <1>2. /\ pc'[t] = "wait_done" /\ Others(t) /\ pc' \in [Procs -> States]
        /\ \A u \in Threads : pc'[u] \in ThreadStates
        /\ \A v \in Workers : pc'[v] \in WorkerStates
    <2>1. t \notin Workers /\ "wait_done" \in States /\ "wait_done" \in ThreadStates
      BY UpdateConstants DEF States, ThreadStates, Inside
    <2> QED
      BY <1>1, <2>1, Moves
  <1>3. /\ \A u \in Threads \ {t} : pc'[u] = pc[u]
        /\ \A w \in Workers : w # t /\ pc'[w] = pc[w]
    BY <1>1, UpdateConstants DEF Types, Procs
  <1>4. Types'
    BY <1>1, <1>2 DEF Types, updVars, thrVars, procVars, rigid
  <1>5. OneReaper'
    BY <1>1, <1>2, <1>3, SMT DEF OneReaper, Sole, Inside, thrVars
  <1>6. Publication'
    <2>1. /\ pc'[t] \notin {"create", "publish", "go"} \cup Inside
          /\ pc[t] \notin Inside
      BY <1>1, <1>2 DEF Inside
    <2> QED
      BY <1>1, <1>2, <1>3, <2>1, SMT DEF Publication, thrVars
  <1> QED
    BY <1>1, <1>2, <1>4, <1>5, <1>6, ControlSuffices

\* umem_create_update_thread returns once the new thread has left the object
\* on its creator's stack alone.
LEMMA CreateReturnInv ==
    ASSUME IInv, NEW t \in Threads, CreateReturn(t), UNCHANGED rigid
    PROVE  IInv'
  <1> USE DEF IInv
  <1>0. AfterCreate(t) = "idle" /\ WhyAfter(t) = "reap"
    BY DEF AfterCreate, WhyAfter, Types
  <1>1. /\ pc[t] = "wait_done" /\ t \in Procs /\ pc[newthr[t]] # "start"
        /\ pc' = Broadcast(t, "idle") \/ pc' = [pc EXCEPT ![t] = "idle"]
        /\ newthr' = [newthr EXCEPT ![t] = NoOne]
        /\ why' = [why EXCEPT ![t] = "reap"]
        /\ UNCHANGED <<linked, updVars, cache_lock, reaping, update_thr, st_update_thr, procVars,
                       forks, rigid>>
    BY <1>0 DEF CreateReturn, WorkerDone, Procs
  <1>2. /\ pc'[t] = "idle" /\ Others(t) /\ pc' \in [Procs -> States]
        /\ \A u \in Threads : pc'[u] \in ThreadStates
        /\ \A v \in Workers : pc'[v] \in WorkerStates
    <2>1. t \notin Workers /\ "idle" \in States /\ "idle" \in ThreadStates
      BY UpdateConstants DEF States, ThreadStates, Inside
    <2> QED
      BY <1>1, <2>1, Moves
  <1>3. /\ newthr'[t] = NoOne /\ why'[t] = "reap"
        /\ \A u \in Threads \ {t} : newthr'[u] = newthr[u] /\ why'[u] = why[u]
        /\ newthr' \in [Threads -> Workers \cup {NoOne}]
        /\ why' \in [Threads -> {"reap", "fork"}]
    BY <1>1 DEF Types
  <1>4. Types'
    BY <1>1, <1>2, <1>3 DEF Types, updVars, procVars, rigid
  <1>5. \A u \in Threads \ {t} :
          /\ pc'[u] \in Sole <=> pc[u] \in Sole
          /\ pc'[u] \in {"adding", "added"} <=> pc[u] \in {"adding", "added"}
          /\ pc'[u] \in Inside <=> pc[u] \in Inside
          /\ \A x \in {"create", "publish", "go", "wait_done", "dead"} : pc'[u] = x <=> pc[u] = x
    BY <1>1, <1>2, OthersKeep DEF Procs
  <1>6. \A w \in Workers :
          /\ pc'[w] = "start" <=> pc[w] = "start"
          /\ pc'[w] \in Inside \cup {"sleep"} <=> pc[w] \in Inside \cup {"sleep"}
    BY <1>1, <1>2, OthersKeep, UpdateConstants DEF Procs
  <1>7. /\ pc[t] \notin Sole \cup Inside /\ pc'[t] \notin Sole \cup Inside
        /\ pc[t] # "dead" /\ pc[t] \notin {"create", "publish", "go"}
    BY <1>1, <1>2 DEF Sole, Inside
  <1>8. OneReaper'
    <2>1. \A u \in Threads \ {t} : why[u] # "fork"
      BY <1>7 DEF OneReaper
    <2>2. pc'[t] \notin {"adding", "added"}
      BY <1>2
    <2> QED
      BY <1>1, <1>3, <1>5, <1>7, <2>1, <2>2, SMT DEF OneReaper
  <1>9. Publication'
    <2>1. \A u \in Threads : pc'[u] \in {"create", "publish"} \cup Inside => update_thr' = NoOne
      BY <1>1, <1>2, <1>5, <1>7 DEF Publication
    <2>2. \A u \in Threads : pc'[u] \in Inside <=> st_update_thr' = u
      BY <1>1, <1>5, <1>7 DEF Publication
    <2>3. \A u \in Threads : pc'[u] \in {"publish", "go", "wait_done"} => newthr'[u] \in Workers
      BY <1>2, <1>3, <1>5 DEF Publication
    <2>4. \A u \in Threads : pc'[u] \in {"publish", "go"} => pc'[newthr'[u]] = "start"
      BY <1>2, <1>3, <1>5, <1>6, SMT DEF Publication
    <2>5. \A u \in Threads : pc'[u] \in {"go", "wait_done"} => newthr'[u] = update_thr'
      BY <1>1, <1>2, <1>3, <1>5 DEF Publication
    <2>6. \A u \in Threads : pc'[u] \notin {"publish", "go", "wait_done"} => newthr'[u] = NoOne
      BY <1>3, <1>5, SMT DEF Publication
    <2>7. \A u, v \in Threads : newthr'[u] = newthr'[v] /\ newthr'[u] # NoOne => u = v
      BY <1>3, SMT DEF Publication
    <2>8. \A w \in Workers : pc'[w] = "start" => \E u \in Threads : newthr'[u] = w
      BY <1>1, <1>3, <1>6, SMT DEF Publication
    <2>9. \A w \in Workers : pc'[w] \in Inside \cup {"sleep"} => w = update_thr'
      BY <1>1, <1>6 DEF Publication
    <2> QED
      BY <2>1, <2>2, <2>3, <2>4, <2>5, <2>6, <2>7, <2>8, <2>9 DEF Publication
  <1> QED
    BY <1>1, <1>2, <1>4, <1>8, <1>9, ControlSuffices

\* pthread_create fails: umem_reap does the update itself.
LEMMA CreateFailsInv ==
    ASSUME IInv, NEW t \in Threads, CreateFails(t), UNCHANGED rigid
    PROVE  IInv'
  <1> USE DEF IInv
  <1> DEFINE q == IF why[t] = "fork" THEN "idle" ELSE "pass"
  <1>1. /\ pc[t] = "create" /\ t \in Procs /\ pc' = [pc EXCEPT ![t] = q]
        /\ UNCHANGED <<linked, updVars, cache_lock, reaping, update_thr, newthr, procVars, forks, rigid>>
    BY DEF CreateFails, Procs
  <1>2. /\ why' \in [Threads -> {"reap", "fork"}] /\ why'[t] = "reap"
        /\ \A u \in Threads \ {t} : why'[u] = why[u]
    BY DEF CreateFails, Types
  <1>3. \/ q = "idle" /\ why[t] = "fork" /\ st_update_thr' = st_update_thr
        \/ q = "pass" /\ why[t] = "reap" /\ st_update_thr' = t
    BY DEF CreateFails, Types
  <1> HIDE DEF q
  <1>4. /\ pc'[t] = q /\ Others(t) /\ pc' \in [Procs -> States]
        /\ \A u \in Threads : pc'[u] \in ThreadStates
        /\ \A v \in Workers : pc'[v] \in WorkerStates
    <2>1. t \notin Workers /\ q \in States /\ q \in ThreadStates
      BY <1>3, UpdateConstants DEF States, ThreadStates, Inside
    <2> QED
      BY <1>1, <2>1, Moves
  <1>5. /\ \A u \in Threads \ {t} : pc'[u] = pc[u]
        /\ \A w \in Workers : w # t /\ pc'[w] = pc[w]
    BY <1>1, UpdateConstants DEF Types, Procs
  <1>6. Types'
    BY <1>1, <1>2, <1>3, <1>4 DEF Types, updVars, procVars, rigid
  <1>7. /\ pc[t] \in Sole /\ update_thr = NoOne /\ pc[t] \notin Inside
        /\ pc[t] \notin {"adding", "added"} /\ newthr[t] = NoOne
    BY <1>1 DEF Sole, Inside, Publication
  <1>8. \A u \in Threads \ {t} : pc[u] \notin Sole /\ why[u] = "reap"
    <2>1. \A u \in Threads \ {t} : why[u] # "fork"
      BY <1>1 DEF OneReaper
    <2> QED
      BY <1>7, <2>1 DEF OneReaper, Types
  <1>9. OneReaper'
    <2>1. why[t] = "reap" => reaping = "ACTIVE"
      BY <1>7 DEF OneReaper
    <2>2. pc'[t] \in Sole => why[t] = "reap"
      BY <1>3, <1>4 DEF Sole, Inside
    <2>3. pc'[t] \notin {"adding", "added"}
      BY <1>3, <1>4
    <2>4. \A u \in Threads : why'[u] = "reap"
      BY <1>2, <1>8
    <2>5. \A u \in Threads : pc'[u] \in Sole => u = t /\ reaping' = "ACTIVE"
      BY <1>1, <1>5, <1>8, <2>1, <2>2
    <2>6. \A u \in Threads : pc'[u] \notin {"adding", "added"}
      BY <1>5, <1>8, <2>3 DEF Sole
    <2> QED
      BY <2>4, <2>5, <2>6 DEF OneReaper
  <1>10. Publication'
    <2>1. \A u \in Threads : pc'[u] \notin {"go", "publish", "create"}
      BY <1>3, <1>4, <1>5, <1>8 DEF Sole
    <2>2. \A u \in Threads : pc'[u] \in Inside <=> st_update_thr' = u
      <3>1. st_update_thr # t /\ \A u \in Threads \ {t} : pc[u] \notin Inside /\ st_update_thr # u
        BY <1>7, <1>8 DEF Publication, Sole
      <3>2. pc'[t] \in Inside <=> st_update_thr' = t
        BY <1>3, <1>4, <3>1 DEF Inside
      <3>3. \A u \in Threads \ {t} : st_update_thr' # u
        BY <1>3, <3>1
      <3> QED
        BY <1>5, <3>1, <3>2, <3>3
    <2>3. \A u \in Threads : pc'[u] = "wait_done" <=> pc[u] = "wait_done"
      BY <1>1, <1>3, <1>4, <1>5
    <2>4. \A u \in Threads : pc[u] \notin {"go", "publish"}
      BY <1>1, <1>8 DEF Sole
    <2> QED
      BY <1>1, <1>5, <1>7, <2>1, <2>2, <2>3, <2>4, SMT DEF Publication
  <1> QED
    BY <1>1, <1>3, <1>4, <1>6, <1>9, <1>10, ControlSuffices

\* The inline update is over, and with it the reap.
LEMMA StUpdateEndsInv ==
    ASSUME IInv, NEW t \in Threads, StUpdateEnds(t), UNCHANGED rigid
    PROVE  IInv'
  <1> USE DEF IInv
  <1>0. AfterCreate(t) = "idle" /\ WhyAfter(t) = "reap"
    BY DEF AfterCreate, WhyAfter, Types
  <1>1. /\ pc[t] = "top" /\ t \in Procs /\ pc' = Broadcast(t, "idle")
        /\ reaping' = "DONE" /\ st_update_thr' = NoOne
        /\ why' = [why EXCEPT ![t] = "reap"]
        /\ UNCHANGED <<linked, updVars, cache_lock, update_thr, newthr, procVars, forks, rigid>>
    BY <1>0 DEF StUpdateEnds, Procs
  <1>2. /\ pc'[t] = "idle" /\ Others(t) /\ pc' \in [Procs -> States]
        /\ \A u \in Threads : pc'[u] \in ThreadStates
        /\ \A v \in Workers : pc'[v] \in WorkerStates
    <2>1. t \notin Workers /\ "idle" \in States /\ "idle" \in ThreadStates
      BY UpdateConstants DEF States, ThreadStates, Inside
    <2> QED
      BY <1>1, <2>1, Moves
  <1>3. /\ pc[t] \in Sole /\ pc[t] \in Inside
        /\ pc[t] \notin {"create", "publish", "go", "wait_done", "dead"}
        /\ pc'[t] \notin Sole /\ pc'[t] \notin Inside
    BY <1>1, <1>2 DEF Sole, Inside
  <1>4. \A u \in Threads : why[u] = "reap"
    <2>1. \A u \in Threads : why[u] # "fork"
      BY <1>3 DEF OneReaper
    <2> QED
      BY <2>1 DEF Types
  <1>5. why' = why
    BY <1>1, <1>4 DEF Types
  <1>6. Types'
    BY <1>1, <1>2, <1>5 DEF Types, updVars, procVars, rigid
  <1>7. \A u \in Threads \ {t} :
          /\ pc'[u] \in Sole <=> pc[u] \in Sole
          /\ pc'[u] \in Inside <=> pc[u] \in Inside
          /\ \A x \in {"create", "publish", "go", "wait_done", "dead"} : pc'[u] = x <=> pc[u] = x
    BY <1>1, <1>2, OthersKeep DEF Procs
  <1>8. \A u \in Threads : pc'[u] \notin Sole
    BY <1>3, <1>7 DEF OneReaper
  <1>9. OneReaper'
    <2>1. \A u \in Threads : pc'[u] \notin {"adding", "added"}
      BY <1>8 DEF Sole
    <2> QED
      BY <1>4, <1>5, <1>8, <2>1 DEF OneReaper
  <1>10. Publication'
    <2>1. \A u \in Threads : pc'[u] \notin Inside \cup {"create", "publish", "go"}
      BY <1>8 DEF Sole
    <2>2. NoOne \notin Threads
      BY UpdateConstants
    <2>3. \A u \in Threads : /\ pc'[u] = "wait_done" <=> pc[u] = "wait_done"
                             /\ pc[u] \notin {"publish", "go"}
      BY <1>1, <1>2, <1>3, <1>7, <2>1
    <2>4. \A w \in Workers :
             /\ pc'[w] = "start" <=> pc[w] = "start"
             /\ pc'[w] \in Inside \cup {"sleep"} <=> pc[w] \in Inside \cup {"sleep"}
      BY <1>1, <1>2, OthersKeep, UpdateConstants DEF Procs
    <2> QED
      BY <1>1, <2>1, <2>2, <2>3, <2>4, SMT DEF Publication
  <1> QED
    BY <1>1, <1>2, <1>6, <1>9, <1>10, ControlSuffices

-----------------------------------------------------------------------------
(* The global update.                                                      *)

\* A global update starts, with umem_cache_lock.
LEMMA StartWalkInv ==
    ASSUME IInv, NEW p \in Procs, StartWalk(p), UNCHANGED rigid
    PROVE  IInv'
  <1> USE DEF IInv
  <1>1. /\ pc[p] = "pass" /\ pc' = [pc EXCEPT ![p] = "walk"]
        /\ cache_lock = NoOne /\ cache_lock' = p
        /\ walk' = [walk EXCEPT ![p] = linked]
        /\ UNCHANGED <<linked, updVars, reaping, thrVars, cp, round, todo, notify, forks, rigid>>
    BY DEF StartWalk
  <1>2. /\ pc'[p] = "walk" /\ Others(p) /\ pc' \in [Procs -> States]
        /\ \A t \in Threads : pc'[t] \in ThreadStates
        /\ \A v \in Workers : pc'[v] \in WorkerStates
    <2>1. "walk" \in States /\ "walk" \in ThreadStates /\ "walk" \in WorkerStates
      BY DEF States, ThreadStates, WorkerStates, Inside
    <2> QED
      BY <1>1, <2>1, Moves
  <1>3. walk' \in [Procs -> SUBSET Caches] /\ walk'[p] = linked
    BY <1>1 DEF Types
  <1>4. Types'
    BY <1>1, <1>2, <1>3 DEF Types, updVars, thrVars, rigid
  <1>5. OneReaper' /\ Publication'
    BY <1>1, <1>2, ControlStable DEF Inside
  <1>6. \A r \in Procs : r # p => pc[r] # "walk" /\ pc'[r] = pc[r]
    BY <1>1, UpdateConstants DEF Types, Walking, Procs
  <1>7. SameHolders
    BY <1>1, <1>2, HoldersStable
  <1>8. Walking'
    BY <1>1, <1>3, <1>6 DEF Walking
  <1> QED
    BY <1>1, <1>4, <1>5, <1>7, <1>8, DataStable

\* The walk is over and umem_cache_lock released.
LEMMA EndWalkInv ==
    ASSUME IInv, NEW p \in Procs, EndWalk(p), UNCHANGED rigid
    PROVE  IInv'
  <1> USE DEF IInv
  <1>1. /\ pc[p] = "walk" /\ pc' = [pc EXCEPT ![p] = "top"] /\ cache_lock' = NoOne
        /\ UNCHANGED <<linked, updVars, reaping, thrVars, procVars, forks, rigid>>
    BY DEF EndWalk
  <1>2. /\ pc'[p] = "top" /\ Others(p) /\ pc' \in [Procs -> States]
        /\ \A t \in Threads : pc'[t] \in ThreadStates
        /\ \A v \in Workers : pc'[v] \in WorkerStates
    <2>1. "top" \in States /\ "top" \in ThreadStates /\ "top" \in WorkerStates
      BY DEF States, ThreadStates, WorkerStates, Inside
    <2> QED
      BY <1>1, <2>1, Moves
  <1>3. Types'
    BY <1>1, <1>2 DEF Types, updVars, thrVars, procVars, rigid
  <1>4. OneReaper' /\ Publication'
    BY <1>1, <1>2, ControlStable DEF Inside
  <1>5. SameHolders
    BY <1>1, <1>2, HoldersStable
  <1>6. Walking'
    <2>1. \A r \in Procs : r # p => pc[r] # "walk"
      BY <1>1 DEF Walking
    <2>2. \A r \in Procs : r # p => pc'[r] # "walk"
      BY <1>2, <2>1, OthersKeep
    <2> QED
      BY <1>2, <2>2 DEF Walking
  <1> QED
    BY <1>1, <1>3, <1>4, <1>5, <1>6, DataStable DEF procVars

\* A request for caches that are on the cache list: each is put on the update
\* list unless it is on it or being worked on.
LEMMA AddStable ==
    ASSUME ListFacts, IInv, NEW C \in SUBSET linked, NEW kinds \in SUBSET KINDS, AddUpdates(C, kinds),
           SameHolders, UNCHANGED <<linked, cp, round, todo, forks>>
    PROVE  /\ uflags' \in [Caches -> SUBSET Flags]
           /\ ulist' \in Seq(Caches) /\ IsInjective(ulist')
           /\ owed' \in [Caches -> SUBSET KINDS]
           /\ Holdings' /\ FlagStates' /\ Requests' /\ DestroyedUntouched'
  <1> USE DEF IInv
  <1>1. /\ kinds # {}
        /\ uflags' = [c \in Caches |-> IF c \in C THEN uflags[c] \cup kinds ELSE uflags[c]]
        /\ ulist' = ulist \o Listed(Fresh(C))
        /\ owed' = [c \in Caches |-> IF c \in C THEN owed[c] \cup (kinds \ Begun(c)) ELSE owed[c]]
    BY DEF AddUpdates
  <1>2. /\ C \subseteq Caches /\ Fresh(C) \in SUBSET Caches
        /\ Fresh(C) \cap Range(ulist) = {}
    BY DEF Types, Fresh, FlagStates
  <1>3. /\ ulist' \in Seq(Caches) /\ IsInjective(ulist')
        /\ Range(ulist') = Range(ulist) \cup Fresh(C)
    BY <1>1, <1>2, Appended DEF Types
  <1>4. /\ uflags' \in [Caches -> SUBSET Flags] /\ owed' \in [Caches -> SUBSET KINDS]
        /\ \A c \in Caches : uflags[c] \subseteq uflags'[c]
        /\ \A c \in Caches \ C : uflags'[c] = uflags[c] /\ owed'[c] = owed[c]
        /\ \A c \in C : /\ uflags'[c] = uflags[c] \cup kinds
                       /\ owed'[c] = owed[c] \cup (kinds \ Begun(c))
    BY <1>1, <1>2 DEF Types, Flags
  <1>5. \A c : WorkingOn(c)' = WorkingOn(c)
    BY DEF SameHolders, WorkingOn
  <1>6. \A c : BeingDestroyed(c)' <=> BeingDestroyed(c)
    BY DEF SameHolders, BeingDestroyed, Procs
  <1>7. "ACTIVE" \notin kinds
    BY UpdateConstants
  <1>8. Holdings'
    <2>1. \A p \in Procs : pc'[p] = "work" =>
             /\ "ACTIVE" \in round'[p]
             /\ \E c \in Caches : /\ cp'[p] = {c}
                                  /\ "ACTIVE" \in uflags'[c]
                                  /\ c \notin Range(ulist')
      <3> SUFFICES ASSUME NEW p \in Procs, pc[p] = "work"
                   PROVE  /\ "ACTIVE" \in round'[p]
                          /\ \E c \in Caches : /\ cp'[p] = {c}
                                               /\ "ACTIVE" \in uflags'[c]
                                               /\ c \notin Range(ulist')
        BY DEF SameHolders
      <3>1. PICK c \in Caches : cp[p] = {c} /\ "ACTIVE" \in uflags[c] /\ c \notin Range(ulist)
        BY DEF Holdings
      <3>2. c \notin Fresh(C)
        BY <3>1 DEF Fresh
      <3> QED
        BY <1>3, <1>4, <3>1, <3>2 DEF Holdings
    <2> QED
      BY <2>1 DEF Holdings, SameHolders
  <1>9. FlagStates'
    <2>1. ASSUME NEW c \in Caches, c \in Range(ulist') PROVE uflags'[c] # {}
      <3>1. CASE c \in Range(ulist)
        BY <1>4, <3>1 DEF FlagStates
      <3>2. CASE c \in Fresh(C)
        BY <1>1, <1>4, <3>2 DEF Fresh
      <3> QED
        BY <1>3, <2>1, <3>1, <3>2
    <2>2. ASSUME NEW c \in Caches, uflags'[c] # {} PROVE uflags'[c] \cap KINDS # {}
      <3>1. CASE c \in C
        BY <1>1, <1>4, <3>1
      <3>2. CASE c \notin C
        BY <1>4, <2>2, <3>2 DEF FlagStates
      <3> QED
        BY <3>1, <3>2
    <2>3. ASSUME NEW c \in Caches, c \in linked' \/ BeingDestroyed(c)'
          PROVE  /\ c \in Range(ulist') <=> uflags'[c] # {} /\ "ACTIVE" \notin uflags'[c]
                 /\ "ACTIVE" \in uflags'[c] => WorkingOn(c)' # {}
      <3>1. /\ c \in Range(ulist) <=> uflags[c] # {} /\ "ACTIVE" \notin uflags[c]
            /\ "ACTIVE" \in uflags[c] => WorkingOn(c) # {}
        BY <1>6, <2>3 DEF FlagStates
      <3>2. "ACTIVE" \in uflags'[c] <=> "ACTIVE" \in uflags[c]
        BY <1>4, <1>7
      <3>3. CASE c \in C
        <4>1. c \in Fresh(C) <=> uflags[c] = {}
          BY <3>3 DEF Fresh
        <4> QED
          BY <1>1, <1>3, <1>4, <1>5, <3>1, <3>2, <3>3, <4>1
      <3>4. CASE c \notin C
        BY <1>3, <1>4, <1>5, <3>1, <3>4 DEF Fresh
      <3> QED
        BY <3>3, <3>4
    <2> QED
      BY <2>1, <2>2, <2>3 DEF FlagStates
  <1>10. Requests'
    <2>1. ASSUME NEW c \in Caches, WorkingOn(c)' = {} PROVE owed'[c] \subseteq uflags'[c]
      BY <1>4, <1>5, <2>1, SMT DEF Requests
    <2>2. ASSUME NEW p \in Procs, NEW c \in cp[p], pc[p] = "work"
          PROVE  owed'[c] \subseteq todo[p] \cup (uflags'[c] \ round[p])
      <3>1. c \in Caches /\ owed[c] \subseteq todo[p] \cup (uflags[c] \ round[p])
        BY <2>2 DEF Requests, Types
      <3>2. round[p] \ todo[p] \subseteq Begun(c)
        BY <2>2 DEF Begun
      <3>3. CASE c \in C
        BY <1>4, <3>1, <3>2, <3>3
      <3>4. CASE c \notin C
        BY <1>4, <3>1, <3>4
      <3> QED
        BY <3>3, <3>4
    <2> QED
      BY <2>1, <2>2 DEF Requests, SameHolders
  <1>11. DestroyedUntouched'
    BY <1>3, <1>4, <1>5, <1>6 DEF DestroyedUntouched, Fresh
  <1> QED
    BY <1>3, <1>4, <1>8, <1>9, <1>10, <1>11

\* umem_cache_update asks for work on one cache, or for none.
LEMMA WalkCacheInv ==
    ASSUME ListFacts, IInv, NEW p \in Procs, WalkCache(p), UNCHANGED rigid
    PROVE  IInv'
  <1> USE DEF IInv
  <1>1. PICK c \in walk[p], kinds \in SUBSET program.kinds :
          /\ walk' = [walk EXCEPT ![p] = @ \ {c}]
          /\ IF kinds = {}
             THEN UNCHANGED <<updVars, pc>>
             ELSE /\ AddUpdates({c}, kinds)
                  /\ pc' = BroadcastUnlessUpdating(p, "walk")
    BY DEF WalkCache
  <1>2. /\ pc[p] = "walk"
        /\ UNCHANGED <<linked, cache_lock, reaping, thrVars, cp, round, todo, notify, forks, rigid>>
    BY DEF WalkCache
  <1>3. /\ pc'[p] = "walk" /\ Others(p) /\ pc' \in [Procs -> States]
        /\ \A t \in Threads : pc'[t] \in ThreadStates
        /\ \A v \in Workers : pc'[v] \in WorkerStates
    <2>1. "walk" \in States /\ "walk" \in ThreadStates /\ "walk" \in WorkerStates
      BY DEF States, ThreadStates, WorkerStates, Inside
    <2>2. CASE kinds = {}
      BY <1>1, <1>2, <2>2 DEF Types, Others
    <2>3. CASE kinds # {}
      <3>1. pc' = Broadcast(p, "walk") \/ pc' = [pc EXCEPT ![p] = "walk"]
        BY <1>1, <2>3 DEF BroadcastUnlessUpdating
      <3> QED
        BY <2>1, <3>1, Moves
    <2> QED
      BY <2>2, <2>3
  <1>4. SameHolders
    BY <1>2, <1>3, HoldersStable
  <1>5. OneReaper' /\ Publication'
    BY <1>2, <1>3, ControlStable
  <1>6. kinds \in SUBSET KINDS /\ {c} \in SUBSET linked
    BY <1>2, UpdateConstants, SMT DEF Walking, Types
  <1>7. Walking'
    <2>1. walk'[p] \subseteq walk[p]
      BY <1>1 DEF Types
    <2>2. \A r \in Procs : r # p => pc[r] # "walk"
      BY <1>2 DEF Walking
    <2>3. \A r \in Procs : r # p => pc'[r] # "walk"
      BY <1>3, <2>2, OthersKeep
    <2> QED
      BY <1>2, <2>1, <2>3 DEF Walking
  <1>8. walk' \in [Procs -> SUBSET Caches]
    BY <1>1 DEF Types
  <1>9. CASE kinds = {}
    <2>1. UNCHANGED updVars
      BY <1>1, <1>9
    <2>2. Types'
      BY <1>2, <1>3, <1>8, <2>1 DEF Types, updVars, thrVars, rigid
    <2> QED
      BY <1>2, <1>4, <1>5, <1>7, <2>1, <2>2, DataStable
  <1>10. CASE kinds # {}
    <2>1. AddUpdates({c}, kinds)
      BY <1>1, <1>10
    <2>2. /\ uflags' \in [Caches -> SUBSET Flags]
          /\ ulist' \in Seq(Caches) /\ IsInjective(ulist')
          /\ owed' \in [Caches -> SUBSET KINDS]
          /\ Holdings' /\ FlagStates' /\ Requests' /\ DestroyedUntouched'
      BY <1>2, <1>4, <1>6, <2>1, AddStable
    <2>3. Types'
      BY <1>2, <1>3, <1>8, <2>2 DEF Types, thrVars, rigid
    <2> QED
      BY <1>2, <1>5, <1>7, <2>2, <2>3
  <1> QED
    BY <1>9, <1>10

\* umem_updateall(UMU_REAP), by a thread that does not hold a cache.
LEMMA ReapAddInv ==
    ASSUME ListFacts, IInv, NEW t \in Threads, ReapAdd(t), UNCHANGED rigid
    PROVE  IInv'
  <1> USE DEF IInv
  <1>1. /\ pc[t] = "adding" /\ t \in Procs /\ AddUpdates(linked, {"REAP"})
        /\ pc' = Broadcast(t, "added") \/ pc' = [pc EXCEPT ![t] = "added"]
        /\ UNCHANGED <<linked, cache_lock, reaping, thrVars, procVars, forks, rigid>>
    <2>1. pc[t] = "adding"
      BY DEF ReapAdd, Types, ThreadStates, Inside
    <2> QED
      BY <2>1 DEF ReapAdd, BroadcastUnlessUpdating, Procs
  <1>2. /\ pc'[t] = "added" /\ Others(t) /\ pc' \in [Procs -> States]
        /\ \A u \in Threads : pc'[u] \in ThreadStates
        /\ \A v \in Workers : pc'[v] \in WorkerStates
    <2>1. t \notin Workers /\ "added" \in States /\ "added" \in ThreadStates
      BY UpdateConstants DEF States, ThreadStates
    <2> QED
      BY <1>1, <2>1, Moves
  <1>3. SameHolders
    BY <1>1, <1>2, HoldersStable
  <1>4. OneReaper' /\ Publication'
    BY <1>1, <1>2, ControlStable
  <1>5. {"REAP"} \in SUBSET KINDS /\ linked \in SUBSET linked
    BY UpdateConstants
  <1>6. /\ uflags' \in [Caches -> SUBSET Flags]
        /\ ulist' \in Seq(Caches) /\ IsInjective(ulist')
        /\ owed' \in [Caches -> SUBSET KINDS]
        /\ Holdings' /\ FlagStates' /\ Requests' /\ DestroyedUntouched'
    BY <1>1, <1>3, <1>5, AddStable DEF procVars
  <1>7. Walking'
    BY <1>1, <1>2, WalkingStable DEF procVars
  <1>8. Types'
    BY <1>1, <1>2, <1>6 DEF Types, thrVars, procVars, rigid
  <1> QED
    BY <1>1, <1>4, <1>6, <1>7, <1>8

-----------------------------------------------------------------------------
(* umem_process_updates.                                                   *)

\* The head of the update list is taken off it and becomes Active.
LEMMA TakeCacheInv ==
    ASSUME IInv, NEW p \in Procs, TakeCache(p), UNCHANGED rigid
    PROVE  IInv'
  <1> USE DEF IInv
  <1> DEFINE c == Head(ulist)
             flags == uflags[c] \cup {"ACTIVE"}
  <1>1. /\ pc[p] = "top" /\ ulist # << >> /\ ulist' = Tail(ulist)
        /\ pc' = [pc EXCEPT ![p] = "work"]
        /\ cp' = [cp EXCEPT ![p] = {c}]
        /\ uflags' = [uflags EXCEPT ![c] = flags]
        /\ round' = [round EXCEPT ![p] = flags]
        /\ todo' = [todo EXCEPT ![p] = flags \cap KINDS]
        /\ UNCHANGED <<linked, cache_lock, reaping, thrVars, notify, walk, forks, owed, rigid>>
    BY DEF TakeCache, StartRound
  <1>2. /\ c \in Caches /\ c \in Range(ulist)
        /\ ulist' \in Seq(Caches) /\ IsInjective(ulist')
        /\ Range(ulist') = Range(ulist) \ {c}
    BY <1>1, TailIs DEF Types
  <1>3. uflags[c] # {} /\ uflags[c] \cap KINDS # {}
    BY <1>2 DEF FlagStates
  <1> HIDE DEF c
  <1>4. /\ pc'[p] = "work" /\ Others(p) /\ pc' \in [Procs -> States]
        /\ \A t \in Threads : pc'[t] \in ThreadStates
        /\ \A v \in Workers : pc'[v] \in WorkerStates
    <2>1. "work" \in States /\ "work" \in ThreadStates /\ "work" \in WorkerStates
      BY DEF States, ThreadStates, WorkerStates, Inside
    <2> QED
      BY <1>1, <2>1, Moves
  <1>5. /\ cp'[p] = {c} /\ round'[p] = flags /\ todo'[p] = flags \cap KINDS
        /\ \A r \in Procs \ {p} : /\ cp'[r] = cp[r] /\ round'[r] = round[r]
                                  /\ todo'[r] = todo[r] /\ pc'[r] = pc[r]
        /\ uflags'[c] = flags /\ \A d \in Caches \ {c} : uflags'[d] = uflags[d]
    BY <1>1, <1>2 DEF Types
  <1>6. /\ cp' \in [Procs -> SUBSET Caches] /\ round' \in [Procs -> SUBSET Flags]
        /\ todo' \in [Procs -> SUBSET KINDS] /\ uflags' \in [Caches -> SUBSET Flags]
    <2>1. flags \in SUBSET Flags /\ flags \cap KINDS \in SUBSET KINDS /\ {c} \in SUBSET Caches
      BY <1>2 DEF Types, Flags
    <2> HIDE DEF flags
    <2> QED
      BY <1>1, <2>1 DEF Types
  <1>7. Types'
    BY <1>1, <1>2, <1>4, <1>6 DEF Types, thrVars, rigid
  <1>8. OneReaper' /\ Publication'
    BY <1>1, <1>4, ControlStable DEF Inside
  <1>9. Walking'
    BY <1>1, <1>4, WalkingStable
  <1>10. cp[p] = {} /\ \A r \in Procs : pc[r] # "work"
    <2>1. \A r \in Procs : pc[r] = "work" => r = p
      BY <1>1, OneInside DEF Inside
    <2> QED
      BY <1>1, <2>1 DEF Holdings
  <1>11. Holdings'
    <2>1. \A r \in Procs : pc'[r] = "work" => r = p
      BY <1>5, <1>10
    <2>2. "ACTIVE" \in round'[p] /\ cp'[p] = {c} /\ "ACTIVE" \in uflags'[c] /\ c \notin Range(ulist')
      BY <1>2, <1>5
    <2> QED
      BY <1>2, <1>4, <1>5, <2>1, <2>2, SMT DEF Holdings
  <1>12. \A d : WorkingOn(d) = {} /\ WorkingOn(d)' = IF d = c THEN {p} ELSE {}
    BY <1>4, <1>5, <1>10, SMT DEF WorkingOn
  <1>13. \A d : BeingDestroyed(d)' <=> BeingDestroyed(d)
    BY <1>1, <1>4, <1>5 DEF BeingDestroyed, Procs
  <1>14. FlagStates'
    <2>1. \A d \in Caches : d \in Range(ulist') => uflags'[d] # {}
      BY <1>2, <1>5 DEF FlagStates
    <2>2. \A d \in Caches : uflags'[d] # {} => uflags'[d] \cap KINDS # {}
      BY <1>3, <1>5 DEF FlagStates
    <2>3. ASSUME NEW d \in Caches, d \in linked' \/ BeingDestroyed(d)'
          PROVE  /\ d \in Range(ulist') <=> uflags'[d] # {} /\ "ACTIVE" \notin uflags'[d]
                 /\ "ACTIVE" \in uflags'[d] => WorkingOn(d)' # {}
      <3>1. CASE d = c
        BY <1>2, <1>5, <1>12, <3>1
      <3>2. CASE d # c
        <4>1. d \in linked \/ BeingDestroyed(d)
          BY <1>1, <1>13, <2>3
        <4> QED
          BY <1>2, <1>5, <1>12, <3>2, <4>1 DEF FlagStates
      <3> QED
        BY <3>1, <3>2
    <2> QED
      BY <2>1, <2>2, <2>3 DEF FlagStates
  <1>15. Requests'
    <2>1. \A d \in Caches : owed[d] \subseteq uflags[d] /\ owed[d] \subseteq KINDS
      BY <1>12 DEF Requests, Types
    <2>2. \A d \in Caches : WorkingOn(d)' = {} => owed'[d] \subseteq uflags'[d]
      BY <1>1, <1>5, <1>12, <2>1
    <2>3. \A r \in Procs : \A d \in cp'[r] : pc'[r] = "work" =>
             owed'[d] \subseteq todo'[r] \cup (uflags'[d] \ round'[r])
      BY <1>1, <1>2, <1>5, <1>10, <2>1, SMT
    <2> QED
      BY <2>2, <2>3 DEF Requests
  <1>16. DestroyedUntouched'
    <2> SUFFICES ASSUME NEW d \in Caches \ linked, forks = 0, ~BeingDestroyed(d)
                 PROVE  uflags'[d] = {} /\ d \notin Range(ulist') /\ WorkingOn(d)' = {}
      BY <1>1, <1>13 DEF DestroyedUntouched
    <2>1. uflags[d] = {} /\ d \notin Range(ulist)
      BY DEF DestroyedUntouched
    <2> QED
      BY <1>2, <1>5, <1>12, <2>1
  <1> QED
    BY <1>7, <1>8, <1>9, <1>11, <1>14, <1>15, <1>16

\* One kind of work is begun.
LEMMA DoWorkInv ==
    ASSUME IInv, NEW p \in Procs, DoWork(p), UNCHANGED rigid
    PROVE  IInv'
  <1> USE DEF IInv
  <1>1. PICK c \in cp[p], i \in 1 .. Len(Order) :
          /\ todo' = [todo EXCEPT ![p] = @ \ {Order[i]}]
          /\ owed' = [owed EXCEPT ![c] = @ \ {Order[i]}]
    BY DEF DoWork
  <1>2. /\ pc[p] = "work"
        /\ UNCHANGED <<linked, uflags, ulist, cache_lock, reaping, thrVars, pc, cp, round, notify,
                       walk, forks, rigid>>
    BY DEF DoWork
  <1> DEFINE k == Order[i]
  <1> HIDE DEF k
  <1>3. /\ c \in Caches
        /\ todo'[p] = todo[p] \ {k} /\ \A r \in Procs \ {p} : todo'[r] = todo[r]
        /\ owed'[c] = owed[c] \ {k} /\ \A d \in Caches \ {c} : owed'[d] = owed[d]
        /\ todo' \in [Procs -> SUBSET KINDS] /\ owed' \in [Caches -> SUBSET KINDS]
    BY <1>1 DEF Types, k
  <1>4. Types'
    BY <1>2, <1>3, SMT DEF Types, thrVars, rigid
  <1>5. OneReaper' /\ Publication' /\ Walking' /\ Holdings'
    <2>1. Others(p) /\ pc'[p] = pc[p]
      BY <1>2 DEF Others
    <2>2. OneReaper' /\ Publication'
      BY <1>2, <2>1, ControlStable
    <2>3. Walking'
      BY <1>2 DEF Walking
    <2>4. Holdings'
      BY <1>2 DEF Holdings
    <2> QED
      BY <2>2, <2>3, <2>4
  <1>6. \A d : WorkingOn(d)' = WorkingOn(d)
    BY <1>2 DEF WorkingOn
  <1>7. FlagStates' /\ DestroyedUntouched'
    <2>1. \A d : BeingDestroyed(d)' <=> BeingDestroyed(d)
      BY <1>2 DEF BeingDestroyed
    <2>2. FlagStates'
      BY <1>2, <1>6, <2>1 DEF FlagStates
    <2>3. DestroyedUntouched'
      BY <1>2, <1>6, <2>1 DEF DestroyedUntouched
    <2> QED
      BY <2>2, <2>3
  <1>8. Requests'
    <2>1. \A d \in Caches : WorkingOn(d)' = {} => owed'[d] \subseteq uflags'[d]
      BY <1>2, <1>3, <1>6 DEF Requests
    <2>2. ASSUME NEW r \in Procs, NEW d \in cp[r], pc[r] = "work"
          PROVE  owed'[d] \subseteq todo'[r] \cup (uflags[d] \ round[r])
      <3>1. r = p
        BY <1>2, <2>2, OneInside, SMT DEF Inside
      <3>2. d = c
        <4>1. \E e \in Caches : cp[p] = {e}
          BY <1>2 DEF Holdings
        <4> QED
          BY <2>2, <3>1, <4>1
      <3>3. owed[c] \subseteq todo[p] \cup (uflags[c] \ round[p])
        BY <1>2 DEF Requests
      <3> QED
        BY <1>3, <3>1, <3>2, <3>3
    <2> QED
      BY <1>2, <2>1, <2>2 DEF Requests
  <1> QED
    BY <1>4, <1>5, <1>7, <1>8

\* A round ends: another one starts if anything else was asked for, otherwise
\* the cache becomes Inactive.
LEMMA EndRoundInv ==
    ASSUME IInv, NEW p \in Procs, EndRound(p), UNCHANGED rigid
    PROVE  IInv'
  <1> USE DEF IInv
  <1>1. PICK c \in cp[p] :
          LET rest == Cleared(p, c)
              wanted == notify[p] \/ "NOTIFY" \in uflags[c]
          IN IF rest # {}
             THEN /\ uflags' = [uflags EXCEPT ![c] = rest \cup {"ACTIVE"}]
                  /\ StartRound(p, rest \cup {"ACTIVE"})
                  /\ notify' = [notify EXCEPT ![p] = wanted]
                  /\ UNCHANGED <<pc, cp>>
             ELSE /\ uflags' = [uflags EXCEPT ![c] = {}]
                  /\ round' = [round EXCEPT ![p] = {}]
                  /\ notify' = [notify EXCEPT ![p] = FALSE]
                  /\ cp' = [cp EXCEPT ![p] = {}]
                  /\ pc' = IF wanted THEN Broadcast(p, "top")
                           ELSE [pc EXCEPT ![p] = "top"]
                  /\ UNCHANGED todo
    BY DEF EndRound
  <1>2. /\ pc[p] = "work" /\ todo[p] = {}
        /\ UNCHANGED <<linked, ulist, cache_lock, reaping, thrVars, walk, forks, owed, rigid>>
    BY DEF EndRound
  <1> DEFINE rest == Cleared(p, c)
  <1>3. /\ c \in Caches /\ cp[p] = {c} /\ "ACTIVE" \in uflags[c] /\ c \notin Range(ulist)
        /\ "ACTIVE" \in round[p]
    <2>1. PICK d \in Caches : cp[p] = {d} /\ "ACTIVE" \in uflags[d] /\ d \notin Range(ulist)
      BY <1>2 DEF Holdings
    <2>2. "ACTIVE" \in round[p]
      BY <1>2 DEF Holdings
    <2> HIDE DEF IInv
    <2>3. c = d
      BY <2>1
    <2> QED
      BY <2>1, <2>2, <2>3
  <1>4. \A r \in Procs : pc[r] = "work" => r = p
    BY <1>2, OneInside DEF Inside
  <1>5. WorkingOn(c) = {p} /\ \A d : d # c => WorkingOn(d) = {}
    BY <1>2, <1>3, <1>4 DEF WorkingOn
  <1>6. /\ rest \subseteq uflags[c] /\ "ACTIVE" \notin rest /\ "NOTIFY" \notin rest
        /\ rest \subseteq KINDS
    BY <1>3, SMT DEF Cleared, Types, Flags
  <1>7. owed[c] \subseteq rest
    <2>1. owed[c] \subseteq uflags[c] \ round[p]
      BY <1>2 DEF Requests
    <2>2. "NOTIFY" \notin owed[c]
      BY <1>3, UpdateConstants, SMT DEF Types
    <2> QED
      BY <2>1, <2>2 DEF Cleared
  <1>8. CASE rest # {}
    <2> DEFINE flags == rest \cup {"ACTIVE"}
    <2>1. /\ uflags' = [uflags EXCEPT ![c] = flags]
          /\ round' = [round EXCEPT ![p] = flags]
          /\ todo' = [todo EXCEPT ![p] = flags \cap KINDS]
          /\ notify' = [notify EXCEPT ![p] = (notify[p] \/ "NOTIFY" \in uflags[c])]
          /\ UNCHANGED <<pc, cp>>
      BY <1>1, <1>8 DEF StartRound
    <2>2. flags \in SUBSET Flags /\ flags \cap KINDS = rest
      BY <1>6, UpdateConstants DEF Flags
    <2> HIDE DEF flags
    <2>3. /\ uflags'[c] = flags /\ \A d \in Caches \ {c} : uflags'[d] = uflags[d]
          /\ uflags' \in [Caches -> SUBSET Flags]
          /\ round'[p] = flags /\ \A r \in Procs \ {p} : round'[r] = round[r]
          /\ round' \in [Procs -> SUBSET Flags]
      BY <1>3, <2>1, <2>2 DEF Types
    <2>4. /\ todo'[p] = rest /\ todo' \in [Procs -> SUBSET KINDS]
          /\ notify' \in [Procs -> BOOLEAN]
      BY <1>6, <2>1, <2>2 DEF Types
    <2>5. Types'
      BY <1>2, <2>1, <2>3, <2>4 DEF Types, thrVars, rigid
    <2>6. OneReaper' /\ Publication' /\ Walking'
      <3>1. Others(p) /\ pc'[p] = pc[p]
        BY <2>1 DEF Others
      <3>2. OneReaper' /\ Publication'
        BY <1>2, <3>1, ControlStable
      <3>3. Walking'
        BY <1>2, <2>1 DEF Walking
      <3> QED
        BY <3>2, <3>3
    <2>7. \A d : WorkingOn(d)' = WorkingOn(d)
      BY <2>1 DEF WorkingOn
    <2>8. \A d : BeingDestroyed(d)' <=> BeingDestroyed(d)
      BY <2>1 DEF BeingDestroyed
    <2>0. "ACTIVE" \in flags
      BY DEF flags
    <2>9. Holdings'
      BY <1>2, <1>3, <1>4, <2>0, <2>1, <2>3 DEF Holdings
    <2>10. FlagStates'
      <3>1. \A d \in Caches : d \in Range(ulist) => uflags'[d] # {}
        BY <1>3, <2>3 DEF FlagStates
      <3>2. \A d \in Caches : uflags'[d] # {} => uflags'[d] \cap KINDS # {}
        BY <1>8, <2>2, <2>3 DEF FlagStates
      <3>3. \A d \in Caches : d \in linked \/ BeingDestroyed(d) =>
               /\ d \in Range(ulist) <=> uflags'[d] # {} /\ "ACTIVE" \notin uflags'[d]
               /\ "ACTIVE" \in uflags'[d] => WorkingOn(d) # {}
        BY <1>3, <1>5, <2>0, <2>3 DEF FlagStates
      <3> QED
        BY <1>2, <2>7, <2>8, <3>1, <3>2, <3>3 DEF FlagStates
    <2>11. Requests'
      <3>1. \A d \in Caches : WorkingOn(d)' = {} => owed'[d] \subseteq uflags'[d]
        BY <1>2, <1>5, <2>3, <2>7 DEF Requests
      <3>2. \A r \in Procs : \A d \in cp'[r] : pc'[r] = "work" =>
               owed'[d] \subseteq todo'[r] \cup (uflags'[d] \ round'[r])
        BY <1>2, <1>3, <1>4, <1>7, <2>1, <2>4, SMT
      <3> QED
        BY <3>1, <3>2 DEF Requests
    <2>12. DestroyedUntouched'
      BY <1>2, <1>5, <2>3, <2>7, <2>8 DEF DestroyedUntouched
    <2> QED
      BY <2>5, <2>6, <2>9, <2>10, <2>11, <2>12
  <1>9. CASE rest = {}
    <2>1. /\ uflags' = [uflags EXCEPT ![c] = {}]
          /\ round' = [round EXCEPT ![p] = {}]
          /\ notify' = [notify EXCEPT ![p] = FALSE]
          /\ cp' = [cp EXCEPT ![p] = {}]
          /\ pc' = Broadcast(p, "top") \/ pc' = [pc EXCEPT ![p] = "top"]
          /\ UNCHANGED todo
      BY <1>1, <1>9
    <2>2. /\ pc'[p] = "top" /\ Others(p) /\ pc' \in [Procs -> States]
          /\ \A t \in Threads : pc'[t] \in ThreadStates
          /\ \A v \in Workers : pc'[v] \in WorkerStates
      <3>1. "top" \in States /\ "top" \in ThreadStates /\ "top" \in WorkerStates
        BY DEF States, ThreadStates, WorkerStates, Inside
      <3> QED
        BY <2>1, <3>1, Moves
    <2>3. /\ uflags'[c] = {} /\ \A d \in Caches \ {c} : uflags'[d] = uflags[d]
          /\ uflags' \in [Caches -> SUBSET Flags]
          /\ round' \in [Procs -> SUBSET Flags] /\ notify' \in [Procs -> BOOLEAN]
          /\ cp' \in [Procs -> SUBSET Caches]
          /\ cp'[p] = {} /\ \A r \in Procs \ {p} : cp'[r] = cp[r]
      BY <1>3, <2>1 DEF Types
    <2>4. Types'
      BY <1>2, <2>1, <2>2, <2>3 DEF Types, thrVars, rigid
    <2>5. OneReaper' /\ Publication'
      BY <1>2, <2>2, ControlStable DEF Inside
    <2>6. Walking'
      BY <1>2, <2>2, WalkingStable
    <2>7. \A r \in Procs : pc'[r] # "work"
      BY <1>4, <2>2, OthersKeep
    <2>8. \A r \in Procs : pc'[r] \in {"remove", "wait"} <=> pc[r] \in {"remove", "wait"}
      BY <1>2, <2>2, OthersKeep
    <2>9. Holdings'
      BY <1>4, <2>2, <2>3, <2>7, <2>8, SMT DEF Holdings
    <2>10. \A d : WorkingOn(d)' = {}
      BY <2>7 DEF WorkingOn
    <2>11. \A d : BeingDestroyed(d)' <=> BeingDestroyed(d)
      <3>1. pc[p] \notin {"remove", "wait"} /\ pc'[p] \notin {"remove", "wait"}
        BY <1>2, <2>2
      <3> QED
        BY <2>3, <2>8, <3>1 DEF BeingDestroyed, Procs
    <2>12. FlagStates'
      <3>1. \A d \in Caches : d \in Range(ulist) => uflags'[d] # {}
        BY <1>3, <2>3 DEF FlagStates
      <3>2. \A d \in Caches : uflags'[d] # {} => uflags'[d] \cap KINDS # {}
        BY <2>3 DEF FlagStates
      <3>3. \A d \in Caches : d \in linked \/ BeingDestroyed(d) =>
               /\ d \in Range(ulist) <=> uflags'[d] # {} /\ "ACTIVE" \notin uflags'[d]
               /\ "ACTIVE" \notin uflags'[d]
        BY <1>3, <1>5, <2>3 DEF FlagStates
      <3> QED
        BY <1>2, <2>11, <3>1, <3>2, <3>3 DEF FlagStates
    <2>13. Requests'
      <3>1. \A d \in Caches : owed'[d] \subseteq uflags'[d]
        BY <1>2, <1>5, <1>7, <1>9, <2>3 DEF Requests
      <3> QED
        BY <2>7, <3>1 DEF Requests
    <2>14. DestroyedUntouched'
      BY <1>2, <2>3, <2>10, <2>11 DEF DestroyedUntouched
    <2> QED
      BY <2>4, <2>5, <2>6, <2>9, <2>12, <2>13, <2>14
  <1> QED
    BY <1>8, <1>9

-----------------------------------------------------------------------------
(* umem_cache_destroy and umem_remove_updates.                             *)

\* A cache is unlinked by the thread that destroys it.
LEMMA DestroyUnlinkInv ==
    ASSUME IInv, NEW t \in Threads, DestroyUnlink(t), UNCHANGED rigid
    PROVE  IInv'
  <1> USE DEF IInv
  <1>1. /\ pc[t] = "idle" /\ t \in Procs /\ pc' = [pc EXCEPT ![t] = "remove"]
        /\ cache_lock = NoOne
        /\ UNCHANGED <<updVars, cache_lock, reaping, thrVars, round, todo, notify, walk, forks, rigid>>
    BY DEF DestroyUnlink, Procs
  <1>2. PICK c \in linked : linked' = linked \ {c} /\ cp' = [cp EXCEPT ![t] = {c}]
    BY DEF DestroyUnlink
  <1>3. /\ pc'[t] = "remove" /\ Others(t) /\ pc' \in [Procs -> States]
        /\ \A u \in Threads : pc'[u] \in ThreadStates
        /\ \A v \in Workers : pc'[v] \in WorkerStates
    <2>1. t \notin Workers /\ "remove" \in States /\ "remove" \in ThreadStates
      BY UpdateConstants DEF States, ThreadStates, Inside
    <2> QED
      BY <1>1, <2>1, Moves
  <1>4. /\ c \in Caches /\ linked' \in SUBSET Caches /\ cp' \in [Procs -> SUBSET Caches]
        /\ cp'[t] = {c} /\ \A r \in Procs \ {t} : cp'[r] = cp[r] /\ pc'[r] = pc[r]
    BY <1>1, <1>2 DEF Types
  <1>5. Types'
    BY <1>1, <1>3, <1>4 DEF Types, updVars, thrVars, rigid
  <1>6. OneReaper' /\ Publication'
    BY <1>1, <1>3, ControlStable
  <1>7. Walking'
    <2>1. \A r \in Procs : pc[r] # "walk"
      BY <1>1, UpdateConstants DEF Walking, Procs
    <2>2. \A r \in Procs : pc'[r] # "walk"
      BY <1>3, <1>4, <2>1
    <2> QED
      BY <2>2 DEF Walking
  <1>8. Holdings'
    BY <1>1, <1>3, <1>4, SMT DEF Holdings, updVars
  <1>9. \A d : WorkingOn(d)' = WorkingOn(d)
    BY <1>1, <1>3, <1>4 DEF WorkingOn
  <1>10. \A d : BeingDestroyed(d)' <=> (BeingDestroyed(d) \/ d = c)
    <2>1. t \in Threads /\ pc'[t] = "remove" /\ pc[t] \notin {"remove", "wait"}
      BY <1>1, <1>3
    <2>2. \A u \in Threads : u # t => cp'[u] = cp[u] /\ pc'[u] = pc[u]
      BY <1>4 DEF Procs
    <2> QED
      BY <1>4, <2>1, <2>2 DEF BeingDestroyed
  <1>11. FlagStates'
    BY <1>1, <1>2, <1>9, <1>10 DEF FlagStates, updVars
  <1>12. Requests'
    BY <1>1, <1>3, <1>4, <1>9 DEF Requests, updVars
  <1>13. DestroyedUntouched'
    BY <1>1, <1>2, <1>9, <1>10 DEF DestroyedUntouched, updVars
  <1> QED
    BY <1>5, <1>6, <1>7, <1>8, <1>11, <1>12, <1>13

\* umem_remove_updates waits for whoever works on the cache.
LEMMA RemoveWaitsInv ==
    ASSUME IInv, NEW t \in Threads, RemoveWaits(t), UNCHANGED rigid
    PROVE  IInv'
  <1> USE DEF IInv
  <1>1. /\ pc[t] = "remove" /\ t \in Procs /\ pc' = [pc EXCEPT ![t] = "wait"]
        /\ UNCHANGED <<linked, ulist, cache_lock, reaping, thrVars, procVars, forks, owed, rigid>>
    BY DEF RemoveWaits, Procs
  <1>2. PICK c \in cp[t] :
          "ACTIVE" \in uflags[c] /\ uflags' = [uflags EXCEPT ![c] = @ \cup {"NOTIFY"}]
    BY DEF RemoveWaits, Quiet
  <1>3. /\ pc'[t] = "wait" /\ Others(t) /\ pc' \in [Procs -> States]
        /\ \A u \in Threads : pc'[u] \in ThreadStates
        /\ \A v \in Workers : pc'[v] \in WorkerStates
    <2>1. t \notin Workers /\ "wait" \in States /\ "wait" \in ThreadStates
      BY UpdateConstants DEF States, ThreadStates, Inside
    <2> QED
      BY <1>1, <2>1, Moves
  <1>4. /\ c \in Caches /\ uflags' \in [Caches -> SUBSET Flags]
        /\ uflags'[c] = uflags[c] \cup {"NOTIFY"}
        /\ \A d \in Caches \ {c} : uflags'[d] = uflags[d]
    <2>1. c \in Caches /\ uflags[c] \cup {"NOTIFY"} \in SUBSET Flags
      BY <1>1, <1>2 DEF Types, Flags
    <2> QED
      BY <1>2, <2>1 DEF Types
  <1>5. /\ \A d \in Caches : uflags[d] \subseteq uflags'[d]
        /\ \A d \in Caches : "ACTIVE" \in uflags'[d] <=> "ACTIVE" \in uflags[d]
        /\ \A d \in Caches : uflags'[d] = {} <=> uflags[d] = {}
        /\ \A d \in Caches : uflags[d] # {} => uflags'[d] \cap KINDS # {}
    BY <1>2, <1>4 DEF FlagStates
  <1>6. Types'
    BY <1>1, <1>3, <1>4 DEF Types, thrVars, procVars, rigid
  <1>7. OneReaper' /\ Publication'
    BY <1>1, <1>3, ControlStable
  <1>8. Walking'
    BY <1>1, <1>3, WalkingStable DEF procVars
  <1>9. SameHolders
    BY <1>1, <1>3, HoldersStable
  <1>10. \A d : WorkingOn(d)' = WorkingOn(d)
    BY <1>1, <1>9 DEF WorkingOn, SameHolders, procVars
  <1>11. \A d : BeingDestroyed(d)' <=> BeingDestroyed(d)
    BY <1>1, <1>9 DEF BeingDestroyed, SameHolders, procVars, Procs
  <1>12. Holdings'
    BY <1>1, <1>5, <1>9, SMT DEF Holdings, SameHolders, procVars
  <1>13. FlagStates'
    BY <1>1, <1>5, <1>10, <1>11 DEF FlagStates
  <1>14. Requests'
    <2>1. \A d \in Caches : WorkingOn(d)' = {} => owed'[d] \subseteq uflags'[d]
      BY <1>1, <1>5, <1>10 DEF Requests
    <2>2. \A r \in Procs : \A d \in cp'[r] : pc'[r] = "work" =>
             owed'[d] \subseteq todo'[r] \cup (uflags'[d] \ round'[r])
      BY <1>1, <1>5, <1>9, SMT DEF Requests, SameHolders, procVars, Types
    <2> QED
      BY <2>1, <2>2 DEF Requests
  <1>15. DestroyedUntouched'
    BY <1>1, <1>5, <1>10, <1>11 DEF DestroyedUntouched
  <1> QED
    BY <1>6, <1>7, <1>8, <1>12, <1>13, <1>14, <1>15

\* umem_remove_updates returns: nobody works on the cache, and it is off the
\* update list.
LEMMA RemoveDoneInv ==
    ASSUME ListFacts, IInv, NEW t \in Threads, RemoveDone(t), UNCHANGED rigid
    PROVE  IInv'
  <1> USE DEF IInv
  <1>1. /\ pc[t] = "remove" /\ t \in Procs /\ pc' = [pc EXCEPT ![t] = "idle"]
        /\ cp' = [cp EXCEPT ![t] = {}]
        /\ UNCHANGED <<linked, cache_lock, reaping, thrVars, round, todo, notify, walk, forks, rigid>>
    BY DEF RemoveDone, Procs
  <1>2. PICK c \in cp[t] :
          /\ "ACTIVE" \notin uflags[c]
          /\ ulist' = Unlinked(ulist, c)
          /\ uflags' = [uflags EXCEPT ![c] = {}]
          /\ owed' = [owed EXCEPT ![c] = {}]
    BY DEF RemoveDone, Quiet
  <1>3. /\ pc'[t] = "idle" /\ Others(t) /\ pc' \in [Procs -> States]
        /\ \A u \in Threads : pc'[u] \in ThreadStates
        /\ \A v \in Workers : pc'[v] \in WorkerStates
    <2>1. t \notin Workers /\ "idle" \in States /\ "idle" \in ThreadStates
      BY UpdateConstants DEF States, ThreadStates, Inside
    <2> QED
      BY <1>1, <2>1, Moves
  <1>4. /\ c \in Caches /\ uflags' \in [Caches -> SUBSET Flags] /\ owed' \in [Caches -> SUBSET KINDS]
        /\ uflags'[c] = {} /\ owed'[c] = {}
        /\ \A d \in Caches \ {c} : uflags'[d] = uflags[d] /\ owed'[d] = owed[d]
    BY <1>1, <1>2 DEF Types
  <1>5. /\ ulist' \in Seq(Caches) /\ IsInjective(ulist')
        /\ Range(ulist') = Range(ulist) \ {c}
    BY <1>2, <1>4, Unlink DEF Types
  <1>6. /\ cp' \in [Procs -> SUBSET Caches] /\ cp'[t] = {} /\ cp[t] = {c}
        /\ \A r \in Procs \ {t} : cp'[r] = cp[r] /\ pc'[r] = pc[r]
    BY <1>1, SMT DEF Types, Holdings
  <1>7. Types'
    BY <1>1, <1>3, <1>4, <1>5, <1>6 DEF Types, thrVars, rigid
  <1>8. OneReaper' /\ Publication'
    BY <1>1, <1>3, ControlStable
  <1>9. Walking'
    BY <1>1, <1>3, WalkingStable
  <1>10. \A r \in Procs : pc[r] = "work" => r # t /\ c \notin cp[r]
    BY <1>1, <1>2, SMT DEF Holdings
  <1>11. \A r \in Procs : pc'[r] = "work" <=> pc[r] = "work"
    BY <1>1, <1>3, <1>6
  <1>12. Holdings'
    <2>1. ASSUME NEW r \in Procs, pc'[r] = "work"
          PROVE  /\ "ACTIVE" \in round'[r]
                 /\ \E d \in Caches : /\ cp'[r] = {d}
                                      /\ "ACTIVE" \in uflags'[d]
                                      /\ d \notin Range(ulist')
      <3>1. pc[r] = "work" /\ r # t /\ c \notin cp[r]
        BY <1>10, <1>11, <2>1
      <3>2. "ACTIVE" \in round[r]
        BY <3>1 DEF Holdings
      <3>3. PICK d \in Caches : /\ cp[r] = {d} /\ "ACTIVE" \in uflags[d]
                                /\ d \notin Range(ulist)
        BY <3>1 DEF Holdings
      <3>4. d # c
        BY <3>1, <3>3
      <3> QED
        BY <1>1, <1>4, <1>5, <1>6, <3>1, <3>2, <3>3, <3>4
    <2>2. ASSUME NEW r \in Procs, pc'[r] \in {"remove", "wait"}
          PROVE  r \in Threads /\ \E d \in Caches : cp'[r] = {d}
      <3>1. r # t
        BY <1>3, <2>2
      <3>2. pc[r] \in {"remove", "wait"} /\ cp'[r] = cp[r]
        BY <1>6, <2>2, <3>1
      <3> QED
        BY <3>2 DEF Holdings
    <2>3. ASSUME NEW r \in Procs, pc'[r] \notin {"work", "remove", "wait"}
          PROVE  cp'[r] = {}
      BY <1>6, <2>3 DEF Holdings
    <2> QED
      BY <2>1, <2>2, <2>3 DEF Holdings
  <1>13. (\A d : WorkingOn(d)' = WorkingOn(d)) /\ WorkingOn(c) = {}
    BY <1>6, <1>10, <1>11 DEF WorkingOn
  <1>14. (\A d : BeingDestroyed(d)' => BeingDestroyed(d))
         /\ (\A d : BeingDestroyed(d) => (BeingDestroyed(d)' \/ d = c))
    <2>1. pc'[t] = "idle" /\ cp[t] = {c}
      BY <1>3, <1>6
    <2>2. \A u \in Threads : u # t => cp'[u] = cp[u] /\ pc'[u] = pc[u]
      BY <1>6 DEF Procs
    <2> QED
      BY <2>1, <2>2 DEF BeingDestroyed
  <1>15. FlagStates'
    <2>1. \A d \in Caches : d \in Range(ulist') => uflags'[d] # {}
      BY <1>4, <1>5 DEF FlagStates
    <2>2. \A d \in Caches : uflags'[d] # {} => uflags'[d] \cap KINDS # {}
      BY <1>4 DEF FlagStates
    <2>3. \A d \in Caches : d \in linked \/ BeingDestroyed(d) =>
             /\ d \in Range(ulist') <=> uflags'[d] # {} /\ "ACTIVE" \notin uflags'[d]
             /\ "ACTIVE" \in uflags'[d] => WorkingOn(d) # {}
      BY <1>4, <1>5 DEF FlagStates
    <2> QED
      BY <1>1, <1>13, <1>14, <2>1, <2>2, <2>3 DEF FlagStates
  <1>16. Requests'
    <2>1. \A d \in Caches : WorkingOn(d)' = {} => owed'[d] \subseteq uflags'[d]
      BY <1>4, <1>13 DEF Requests
    <2>2. ASSUME NEW r \in Procs, NEW d \in cp'[r], pc'[r] = "work"
          PROVE  owed'[d] \subseteq todo'[r] \cup (uflags'[d] \ round'[r])
      <3>1. pc[r] = "work" /\ d \in cp[r] /\ d # c /\ d \in Caches
        BY <1>6, <1>10, <1>11, <2>2 DEF Types
      <3>2. owed[d] \subseteq todo[r] \cup (uflags[d] \ round[r])
        BY <3>1 DEF Requests
      <3> QED
        BY <1>1, <1>4, <3>1, <3>2
    <2> QED
      BY <2>1, <2>2 DEF Requests
  <1>17. DestroyedUntouched'
    <2> SUFFICES ASSUME NEW d \in Caches \ linked, forks = 0, ~BeingDestroyed(d)'
                 PROVE  uflags'[d] = {} /\ d \notin Range(ulist') /\ WorkingOn(d)' = {}
      BY <1>1 DEF DestroyedUntouched
    <2>1. CASE d = c
      BY <1>4, <1>5, <1>13, <2>1
    <2>2. CASE d # c
      BY <1>4, <1>5, <1>13, <1>14, <2>2 DEF DestroyedUntouched
    <2> QED
      BY <2>1, <2>2
  <1> QED
    BY <1>7, <1>8, <1>9, <1>12, <1>15, <1>16, <1>17

-----------------------------------------------------------------------------
(* fork().                                                                 *)

\* The child of a fork: its one thread starts over with every request kept.
LEMMA ForkInv ==
    ASSUME ListFacts, IInv, NEW t \in Threads, Fork(t), UNCHANGED rigid
    PROVE  IInv'
  <1> USE DEF IInv
  <1>1. /\ pc[t] = "idle" /\ t \in Procs /\ cache_lock = NoOne
        /\ forks' = forks + 1 /\ update_thr' = NoOne /\ st_update_thr' = NoOne /\ reaping' = "DONE"
        /\ uflags' = [c \in Caches |-> IF c \in linked THEN ChildFlags(c) ELSE uflags[c]]
        /\ ulist' = ulist \o Listed(Abandoned)
        /\ pc' = [p \in Procs |-> IF p = t THEN "create"
                                  ELSE IF pc[p] = "none" THEN "none" ELSE "dead"]
        /\ owed' = [c \in Caches |-> IF c \in linked THEN uflags[c] \cap KINDS ELSE {}]
        /\ UNCHANGED <<linked, cache_lock, rigid>>
    BY DEF Fork, Procs
  <1>2. /\ cp' = [p \in Procs |-> {}] /\ round' = [p \in Procs |-> {}]
        /\ todo' = [p \in Procs |-> {}] /\ notify' = [p \in Procs |-> FALSE]
        /\ walk' = [p \in Procs |-> {}] /\ newthr' = [p \in Threads |-> NoOne]
        /\ why' = [why EXCEPT ![t] = "fork"]
    BY DEF Fork
  <1>3. /\ pc'[t] = "create" /\ \A p \in Procs \ {t} : pc'[p] \in {"none", "dead"}
        /\ \A u \in Threads \ {t} : pc'[u] = "dead"
        /\ \A w \in Workers : w # t /\ pc'[w] \in {"none", "dead"}
    <2>1. \A u \in Threads : pc[u] # "none"
      BY DEF Types, ThreadStates, Inside
    <2> QED
      BY <1>1, <2>1, UpdateConstants DEF Procs
  <1>4. /\ Abandoned \in SUBSET Caches /\ Abandoned \cap Range(ulist) = {}
    BY DEF Abandoned, Types, FlagStates
  <1>5. /\ ulist' \in Seq(Caches) /\ IsInjective(ulist')
        /\ Range(ulist') = Range(ulist) \cup Abandoned
    BY <1>1, <1>4, Appended DEF Types
  <1>6. /\ uflags' \in [Caches -> SUBSET Flags] /\ owed' \in [Caches -> SUBSET KINDS]
        /\ \A c \in Caches : c \in linked => /\ uflags'[c] = uflags[c] \ {"NOTIFY", "ACTIVE"}
                                            /\ owed'[c] = uflags[c] \cap KINDS
        /\ \A c \in Caches : c \notin linked => uflags'[c] = uflags[c] /\ owed'[c] = {}
    BY <1>1 DEF Types, ChildFlags
  <1>7. "NOTIFY" \notin KINDS /\ "ACTIVE" \notin KINDS
    BY UpdateConstants
  <1>8. \A c \in Caches : (uflags'[c] # {} <=> uflags[c] # {})
                         /\ (uflags[c] # {} => uflags'[c] \cap KINDS # {})
    <2> SUFFICES ASSUME NEW c \in Caches
                 PROVE  (uflags'[c] # {} <=> uflags[c] # {})
                        /\ (uflags[c] # {} => uflags'[c] \cap KINDS # {})
      OBVIOUS
    <2>1. uflags'[c] \subseteq uflags[c]
      BY <1>6
    <2>2. ASSUME uflags[c] # {} PROVE uflags'[c] \cap KINDS # {}
      <3>1. PICK k \in KINDS : k \in uflags[c]
        BY <2>2 DEF FlagStates
      <3>2. k \in uflags'[c]
        BY <1>6, <1>7, <3>1
      <3> QED
        BY <3>1, <3>2
    <2> QED
      BY <2>1, <2>2
  <1>9. Types'
    <2>1. pc' \in [Procs -> States]
      BY <1>1 DEF States, ThreadStates, WorkerStates
    <2>2. /\ \A u \in Threads : pc'[u] \in ThreadStates
          /\ \A w \in Workers : pc'[w] \in WorkerStates
      BY <1>3 DEF ThreadStates, WorkerStates
    <2>3. why' \in [Threads -> {"reap", "fork"}]
      BY <1>2 DEF Types
    <2>4. /\ cp' \in [Procs -> SUBSET Caches] /\ round' \in [Procs -> SUBSET Flags]
          /\ todo' \in [Procs -> SUBSET KINDS] /\ notify' \in [Procs -> BOOLEAN]
          /\ walk' \in [Procs -> SUBSET Caches] /\ newthr' \in [Threads -> Workers \cup {NoOne}]
      BY <1>2
    <2>5. forks' \in Nat
      BY <1>1, SMT DEF Types
    <2> QED
      BY <1>1, <1>5, <1>6, <2>1, <2>2, <2>3, <2>4, <2>5 DEF Types, rigid
  <1>10. OneReaper'
    <2>1. why'[t] = "fork" /\ \A u \in Threads : why'[u] = "fork" => u = t
      <3>1. \A u \in Threads : why[u] # "fork"
        BY <1>1 DEF OneReaper
      <3> QED
        BY <1>2, <3>1 DEF Types
    <2>2. \A u \in Threads : pc'[u] \in Sole => u = t
      BY <1>3 DEF Sole, Inside
    <2>3. \A u \in Threads : pc'[u] \notin {"adding", "added"}
      BY <1>3
    <2>4. \A u \in Threads : why'[u] = "reap" => u # t
      BY <2>1
    <2> QED
      BY <1>3, <2>1, <2>2, <2>3, <2>4 DEF OneReaper
  <1>11. Publication'
    <2>1. \A u \in Threads : pc'[u] \notin {"publish", "go", "wait_done"} \cup Inside
      BY <1>3 DEF Inside
    <2>2. \A w \in Workers : pc'[w] \notin Inside \cup {"sleep", "start"}
      BY <1>3 DEF Inside
    <2>3. \A u \in Threads : newthr'[u] = NoOne /\ u # NoOne
      BY <1>2, UpdateConstants
    <2> QED
      BY <1>1, <2>1, <2>2, <2>3 DEF Publication
  <1>12. \A p \in Procs : pc'[p] \notin {"work", "remove", "wait", "walk"} /\ cp'[p] = {}
    BY <1>2, <1>3
  <1>13. Walking' /\ Holdings'
    BY <1>12 DEF Walking, Holdings
  <1>14. (\A c : WorkingOn(c)' = {}) /\ (\A c : ~BeingDestroyed(c)')
    BY <1>12 DEF WorkingOn, BeingDestroyed, Procs
  <1>15. FlagStates'
    <2>1. \A c \in Caches : c \in Range(ulist') => uflags'[c] # {}
      <3>1. \A c \in Caches : c \in Range(ulist') => uflags[c] # {}
        BY <1>5 DEF FlagStates, Abandoned
      <3> QED
        BY <1>8, <3>1
    <2>2. \A c \in Caches : uflags'[c] # {} => uflags'[c] \cap KINDS # {}
      BY <1>8
    <2>3. ASSUME NEW c \in Caches, c \in linked
          PROVE  (c \in Range(ulist') <=> uflags'[c] # {}) /\ "ACTIVE" \notin uflags'[c]
      <3>1. c \in Range(ulist) <=> uflags[c] # {} /\ "ACTIVE" \notin uflags[c]
        BY <2>3 DEF FlagStates
      <3>2. c \in Abandoned <=> "ACTIVE" \in uflags[c]
        BY <2>3 DEF Abandoned
      <3> QED
        BY <1>5, <1>6, <1>8, <2>3, <3>1, <3>2
    <2> QED
      BY <1>1, <1>14, <2>1, <2>2, <2>3 DEF FlagStates
  <1>16. Requests'
    <2>1. \A c \in Caches : owed'[c] \subseteq uflags'[c]
      BY <1>6, <1>7, SMT
    <2> QED
      BY <1>12, <2>1 DEF Requests
  <1>17. DestroyedUntouched'
    <2>1. forks' # 0
      BY <1>1, SMT DEF Types
    <2> QED
      BY <2>1 DEF DestroyedUntouched
  <1> QED
    BY <1>9, <1>10, <1>11, <1>13, <1>15, <1>16, <1>17

-----------------------------------------------------------------------------
(* The invariant holds, and what follows from it.                          *)

\* umem_init leaves the invariant true.
LEMMA InitInv ==
    ASSUME NESTED = FALSE, Init
    PROVE  IInv
  <1>1. /\ program \in PROGRAMS /\ linked = program.caches
        /\ uflags = [c \in Caches |-> {}] /\ ulist = << >> /\ cache_lock = NoOne
        /\ reaping = "DONE" /\ scarce \in BOOLEAN /\ st_update_thr = NoOne
        /\ update_thr \in Workers \cup {NoOne}
        /\ pc = [p \in Procs |-> IF p \in Threads THEN "idle"
                                 ELSE IF p = update_thr THEN "top" ELSE "none"]
        /\ newthr = [t \in Threads |-> NoOne] /\ why = [t \in Threads |-> "reap"]
        /\ forks = 0 /\ owed = [c \in Caches |-> {}]
    BY DEF Init
  <1>2. /\ cp = [p \in Procs |-> {}] /\ round = [p \in Procs |-> {}]
        /\ todo = [p \in Procs |-> {}] /\ notify = [p \in Procs |-> FALSE]
        /\ walk = [p \in Procs |-> {}]
    BY DEF Init
  <1>3. /\ \A t \in Threads : pc[t] = "idle"
        /\ \A w \in Workers : pc[w] = IF w = update_thr THEN "top" ELSE "none"
        /\ \A p \in Procs : pc[p] \in {"idle", "top", "none"} /\ cp[p] = {}
    BY <1>1, <1>2, UpdateConstants DEF Procs
  <1>4. Range(ulist) = {} /\ ulist \in Seq(Caches) /\ IsInjective(ulist)
    BY <1>1, SMT DEF Range, IsInjective
  <1>5. Types
    <2>1. linked \in SUBSET Caches
      BY <1>1, UpdateConstants
    <2>2. pc \in [Procs -> States]
      BY <1>1 DEF States, ThreadStates, WorkerStates, Inside
    <2>3. /\ \A t \in Threads : pc[t] \in ThreadStates
          /\ \A w \in Workers : pc[w] \in WorkerStates
      BY <1>3 DEF ThreadStates, WorkerStates, Inside
    <2>4. /\ uflags \in [Caches -> SUBSET Flags] /\ owed \in [Caches -> SUBSET KINDS]
          /\ newthr \in [Threads -> Workers \cup {NoOne}] /\ why \in [Threads -> {"reap", "fork"}]
          /\ cp \in [Procs -> SUBSET Caches] /\ round \in [Procs -> SUBSET Flags]
          /\ todo \in [Procs -> SUBSET KINDS] /\ notify \in [Procs -> BOOLEAN]
          /\ walk \in [Procs -> SUBSET Caches]
      BY <1>1, <1>2
    <2> QED
      BY <1>1, <1>4, <2>1, <2>2, <2>3, <2>4 DEF Types
  <1>6. OneReaper
    BY <1>1, <1>3 DEF OneReaper, Sole, Inside
  <1>7. Publication
    BY <1>1, <1>3, UpdateConstants, SMT DEF Publication, Inside
  <1>8. Holdings /\ Walking
    BY <1>3 DEF Holdings, Walking
  <1>9. (\A c : WorkingOn(c) = {}) /\ (\A c : ~BeingDestroyed(c))
    BY <1>3 DEF WorkingOn, BeingDestroyed
  <1>10. FlagStates
    BY <1>1, <1>4, <1>9 DEF FlagStates
  <1>11. Requests
    BY <1>1, <1>3 DEF Requests
  <1>12. DestroyedUntouched
    BY <1>1, <1>4, <1>9 DEF DestroyedUntouched
  <1> QED
    BY <1>5, <1>6, <1>7, <1>8, <1>10, <1>11, <1>12 DEF IInv

\* Every step of the update machinery preserves the invariant.
LEMMA NextInv ==
    ASSUME ListFacts, IInv, [Next]_vars
    PROVE  IInv'
  <1>1. CASE UNCHANGED vars
    <2> USE <1>1 DEF vars, rigid
    <2>1. (\A c : WorkingOn(c)' = WorkingOn(c)) /\ (\A c : BeingDestroyed(c)' <=> BeingDestroyed(c))
      BY DEF WorkingOn, BeingDestroyed
    <2>2. Types'
      BY DEF IInv, Types
    <2>3. OneReaper' /\ Publication'
      <3>1. OneReaper'
        BY DEF IInv, OneReaper
      <3>2. Publication'
        BY DEF IInv, Publication
      <3> QED
        BY <3>1, <3>2
    <2>4. Holdings' /\ Walking'
      BY DEF IInv, Holdings, Walking
    <2>5. FlagStates'
      BY <2>1 DEF IInv, FlagStates
    <2>6. Requests'
      BY <2>1 DEF IInv, Requests
    <2>7. DestroyedUntouched'
      BY <2>1 DEF IInv, DestroyedUntouched
    <2> QED
      BY <2>2, <2>3, <2>4, <2>5, <2>6, <2>7 DEF IInv
  <1>2. CASE Next
    <2>1. UNCHANGED rigid /\ program.threads \subseteq Threads
      BY <1>2, UpdateConstants DEF Next, IInv, Types
    <2>2. ASSUME NEW p \in Procs, Process(p) \/ GlobalUpdate(p) PROVE IInv'
      BY <2>1, <2>2, TakeCacheInv, DoWorkInv, EndRoundInv, StartWalkInv, WalkCacheInv, EndWalkInv
         DEF Process, GlobalUpdate
    <2>3. ASSUME NEW w \in Workers, WorkerLoop(w) PROVE IInv'
      BY <2>1, <2>3, WorkerStartsInv, WorkerIdlesInv, WorkerTimeoutInv DEF WorkerLoop
    <2>4. ASSUME NEW t \in Threads,
                 \/ ReapBegin(t) \/ ReapContinues(t) \/ Create(t) \/ StUpdateEnds(t)
                 \/ DestroyUnlink(t) \/ RemoveUpdates(t) \/ Fork(t)
          PROVE  IInv'
      <3>1. CASE ReapBegin(t) \/ ReapContinues(t)
        BY <2>1, <3>1, ReapBeginInv, ReapAddInv, ReapActivateInv DEF ReapContinues
      <3>2. CASE Create(t)
        BY <2>1, <3>2, CreateOkInv, CreatePublishInv, CreateGoInv, CreateReturnInv, CreateFailsInv
           DEF Create
      <3>3. CASE StUpdateEnds(t) \/ Fork(t)
        BY <2>1, <3>3, StUpdateEndsInv, ForkInv
      <3>4. CASE DestroyUnlink(t) \/ RemoveUpdates(t)
        BY <2>1, <3>4, DestroyUnlinkInv, RemoveWaitsInv, RemoveDoneInv DEF RemoveUpdates
      <3> QED
        BY <2>4, <3>1, <3>2, <3>3, <3>4
    <2> QED
      BY <1>2, <2>1, <2>2, <2>3, <2>4 DEF Next
  <1> QED
    BY <1>1, <1>2

=============================================================================
