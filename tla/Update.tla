------------------------------- MODULE Update -------------------------------
(***************************************************************************)
(* The update machinery: requests for work on caches (cache_uflags and the *)
(* update list), the update thread and its creation, umem_reap() with the  *)
(* inline update it falls back to, umem_cache_destroy()'s wait for work in *)
(* progress, and the reset in a forked child (umem.c, umem_update_thread.c,*)
(* umem_fork.c).                                                           *)
(*                                                                         *)
(* A critical section of umem_update_lock is one action.  umem_cache_lock  *)
(* is a variable because the walk of a global update holds it across       *)
(* several of them.  The passing of time (reap and update intervals) is    *)
(* nondeterministic.                                                       *)
(***************************************************************************)
EXTENDS Naturals, Sequences, FiniteSets, Functions

CONSTANTS
    Caches,        \* caches a program creates
    Threads,       \* application threads
    Workers,       \* identities for update threads
    NoOne,         \* no thread: a thread id of 0
    KINDS,         \* kinds of work that are requested
    FORKS,         \* how many fork()s are followed into the child
    NESTED,        \* an allocation inside pthread_create may call umem_reap
    PROGRAMS       \* [caches, threads, kinds]: what a behaviour has of each

\* The kinds the code has, in the order one round of work does them.
Order == <<"HASH_RESCALE", "MAGAZINE_RESIZE", "REAP">>

ASSUME UpdateConstants ==
    /\ IsFiniteSet(Caches)
    /\ NoOne \notin Threads \cup Workers
    /\ Threads \cap Workers = {}
    /\ KINDS \subseteq {"HASH_RESCALE", "MAGAZINE_RESIZE", "REAP"}
    /\ "REAP" \in KINDS
    /\ NESTED \in BOOLEAN
    /\ FORKS \in Nat
    /\ PROGRAMS \subseteq [caches : SUBSET Caches, threads : SUBSET Threads,
                           kinds : SUBSET KINDS]

VARIABLES
    program,        \* the member of PROGRAMS this behaviour is of
    scarce,         \* whether pthread_create may fail
    linked,         \* caches on the global cache list
    uflags,         \* cache_uflags
    ulist,          \* the update list
    cache_lock,     \* owner of umem_cache_lock
    reaping,        \* umem_reaping
    update_thr,     \* umem_update_thr
    st_update_thr,  \* umem_st_update_thr
    pc,             \* per process: where it is
    cp,             \* per process: the cache it works on or destroys
    round,          \* per process: local uflags of umem_process_updates
    todo,           \* per process: kinds of this round not yet begun
    notify,         \* per process: local notify
    walk,           \* per process: caches its global update has yet to visit
    newthr,         \* per thread: newthread of umem_create_update_thread
    why,            \* per thread: who called umem_create_update_thread
    forks,          \* fork()s so far
    owed,           \* history: requests that some worker still has to begin
    late            \* history: requests made while such work was under way

updVars == <<uflags, ulist, owed, late>>
procVars == <<cp, round, todo, notify, walk>>
thrVars == <<update_thr, st_update_thr, newthr, why>>
rigid == <<program, scarce>>
vars == <<rigid, linked, uflags, ulist, cache_lock, reaping, update_thr,
          st_update_thr, pc, cp, round, todo, notify, walk, newthr, why,
          forks, owed, late>>

Procs == Threads \cup Workers
UpdateThreads == {update_thr, st_update_thr}

\* umem_init creates the update thread before it says UMEM_READY; when that
\* fails the library goes on without one.
Init ==
    /\ program \in PROGRAMS
    /\ linked = program.caches
    /\ uflags = [c \in Caches |-> {}]
    /\ ulist = <<>>
    /\ cache_lock = NoOne
    /\ reaping = "DONE"
    /\ scarce \in BOOLEAN
    /\ update_thr \in Workers \cup (IF scarce THEN {NoOne} ELSE {})
    /\ st_update_thr = NoOne
    /\ pc = [p \in Procs |-> IF p \in Threads THEN "idle"
                             ELSE IF p = update_thr THEN "top" ELSE "none"]
    /\ cp = [p \in Procs |-> {}]
    /\ round = [p \in Procs |-> {}]
    /\ todo = [p \in Procs |-> {}]
    /\ notify = [p \in Procs |-> FALSE]
    /\ walk = [p \in Procs |-> {}]
    /\ newthr = [t \in Threads |-> NoOne]
    /\ why = [t \in Threads |-> "reap"]
    /\ forks = 0
    /\ owed = [c \in Caches |-> {}]
    /\ late = [c \in Caches |-> {}]

-----------------------------------------------------------------------------
(* Requests.                                                               *)

\* Kinds of work some process has begun on c and not finished its round of.
Begun(c) == UNION {round[p] \ todo[p] : p \in {q \in Procs : c \in cp[q]
                                                 /\ pc[q] = "work"}}

\* The caches of C that have to be linked: those that were Inactive.
Fresh(C) == {c \in C : uflags[c] = {}}

\* The members of S as a list, in one fixed order.
Listed(S) == CHOOSE f \in [1 .. Cardinality(S) -> S] : IsInjective(f)

\* umem_add_update_unlocked for every cache of C: an Inactive cache goes to
\* the tail of the list (several go there in one fixed order).
AddUpdates(C, kinds) ==
    /\ kinds # {}
    /\ uflags' = [c \in Caches |-> IF c \in C THEN uflags[c] \cup kinds
                                   ELSE uflags[c]]
    /\ ulist' = ulist \o Listed(Fresh(C))
    /\ owed' = [c \in Caches |-> IF c \in C
                                 THEN owed[c] \cup (kinds \ Begun(c))
                                 ELSE owed[c]]
    /\ late' = [c \in Caches |-> IF c \in C
                                 THEN late[c] \cup (kinds \cap Begun(c))
                                 ELSE late[c]]

\* Mutant: only the update thread is woken.
Signal(p, q) ==
    [r \in Procs |-> IF r = p THEN q
                     ELSE IF pc[r] = "sleep" THEN "top"
                     ELSE pc[r]]

\* pc after a broadcast of umem_update_cv by p, which goes on at q.
Broadcast(p, q) ==
    [r \in Procs |-> IF r = p THEN q
                     ELSE IF pc[r] = "sleep" THEN "top"
                     ELSE IF pc[r] = "wait" THEN "remove"
                     ELSE pc[r]]

\* The broadcast is left out when p is the process doing updates.
BroadcastUnlessUpdating(p, q) ==
    IF p \in UpdateThreads THEN [pc EXCEPT ![p] = q] ELSE Broadcast(p, q)

-----------------------------------------------------------------------------
(* umem_process_updates, by the update thread or by an inline update.      *)

\* The round that starts on c: UMU_ACTIVE is set and the flags are read.
StartRound(p, flags) ==
    /\ round' = [round EXCEPT ![p] = flags]
    /\ todo' = [todo EXCEPT ![p] = flags \cap KINDS]

\* The head of the list is taken off it and becomes Active.
TakeCache(p) ==
    /\ pc[p] = "top"
    /\ ulist # <<>>
    /\ LET c == Head(ulist)
           flags == uflags[c] \cup {"ACTIVE"}
       IN /\ cp' = [cp EXCEPT ![p] = {c}]
          /\ uflags' = [uflags EXCEPT ![c] = flags]
          /\ StartRound(p, flags)
    /\ ulist' = Tail(ulist)
    /\ pc' = [pc EXCEPT ![p] = "work"]
    /\ UNCHANGED <<linked, cache_lock, reaping, thrVars, notify, walk, forks,
                   owed, late>>

\* umem_hash_rescale, umem_cache_magazine_resize and umem_cache_reap, in
\* this order, without the lock.
DoWork(p) ==
    /\ pc[p] = "work"
    /\ \E c \in cp[p], i \in 1 .. Len(Order) :
         /\ Order[i] \in todo[p]
         /\ \A j \in 1 .. (i - 1) : Order[j] \notin todo[p]
         /\ todo' = [todo EXCEPT ![p] = @ \ {Order[i]}]
         /\ owed' = [owed EXCEPT ![c] = @ \ {Order[i]}]
         /\ late' = [late EXCEPT ![c] = @ \ {Order[i]}]
    /\ UNCHANGED <<linked, uflags, ulist, cache_lock, reaping, thrVars, pc,
                   cp, round, notify, walk, forks>>

\* Mutant: every flag is cleared, not just those of the round.
ClearedAll(p, c) == {}

\* What is left of the flags of c after a round.
Cleared(p, c) == uflags[c] \ (round[p] \cup {"NOTIFY"})

\* The round is over.  Requests that came in meanwhile start another one;
\* otherwise the cache becomes Inactive and whoever waits for it is woken.
EndRound(p) ==
    /\ pc[p] = "work"
    /\ todo[p] = {}
    /\ \E c \in cp[p] :
         LET rest == Cleared(p, c)
             wanted == notify[p] \/ "NOTIFY" \in uflags[c]
         IN IF rest # {}
            THEN /\ uflags' = [uflags EXCEPT ![c] = rest \cup {"ACTIVE"}]
                 /\ StartRound(p, rest \cup {"ACTIVE"})
                 /\ notify' = [notify EXCEPT ![p] = wanted]
                 /\ UNCHANGED <<pc, cp>>
            ELSE /\ uflags' = [uflags EXCEPT ![c] = {}]
                 /\ round' = [round EXCEPT ![p] = {}]
                 /\ notify' = [notify EXCEPT ![p] = FALSE]
                 /\ cp' = [cp EXCEPT ![p] = {}]
                 /\ pc' = IF wanted THEN Broadcast(p, "top")
                          ELSE [pc EXCEPT ![p] = "top"]
                 /\ UNCHANGED todo
    /\ UNCHANGED <<linked, ulist, cache_lock, reaping, thrVars, walk, forks,
                   owed, late>>

-----------------------------------------------------------------------------
(* The global update: umem_cache_applyall(umem_cache_update).              *)

StartWalk(p) ==
    /\ pc[p] = "pass"
    /\ cache_lock = NoOne
    /\ cache_lock' = p
    /\ walk' = [walk EXCEPT ![p] = linked]
    /\ pc' = [pc EXCEPT ![p] = "walk"]
    /\ UNCHANGED <<linked, updVars, reaping, thrVars, cp, round, todo,
                   notify, forks>>

\* umem_cache_update of one cache, which may ask for any kind of work.
WalkCache(p) ==
    /\ pc[p] = "walk"
    /\ \E c \in walk[p], kinds \in SUBSET program.kinds :
         /\ walk' = [walk EXCEPT ![p] = @ \ {c}]
         /\ IF kinds = {}
            THEN UNCHANGED <<updVars, pc>>
            ELSE /\ AddUpdates({c}, kinds)
                 /\ pc' = BroadcastUnlessUpdating(p, "walk")
    /\ UNCHANGED <<linked, cache_lock, reaping, thrVars, cp, round, todo,
                   notify, forks>>

EndWalk(p) ==
    /\ pc[p] = "walk"
    /\ walk[p] = {}
    /\ cache_lock' = NoOne
    /\ pc' = [pc EXCEPT ![p] = "top"]
    /\ UNCHANGED <<linked, updVars, reaping, thrVars, procVars, forks>>

-----------------------------------------------------------------------------
(* The loop of umem_update_thread.                                         *)

\* The worker waits for the creator's go, then says it is done with the
\* object they share.
WorkerStarts(w) ==
    /\ pc[w] = "start"
    /\ \E t \in Threads : newthr[t] = w /\ pc[t] = "wait_done"
    /\ pc' = [pc EXCEPT ![w] = "top"]
    /\ UNCHANGED <<linked, updVars, cache_lock, reaping, thrVars, procVars,
                   forks>>

\* Mutant: only umem_st_update ends a reap.
ReapingKept == reaping

\* umem_reaping once the update thread finds the list empty.
ReapingOver == IF reaping = "ACTIVE" THEN "DONE" ELSE reaping

\* With the list empty a reap is over; then it is time for a global update,
\* or the worker sleeps.
WorkerIdles(w) ==
    /\ w \in Workers
    /\ pc[w] = "top"
    /\ ulist = <<>>
    /\ reaping' = ReapingOver
    /\ \E q \in {"pass", "sleep"} : pc' = [pc EXCEPT ![w] = q]
    /\ UNCHANGED <<linked, updVars, cache_lock, thrVars, procVars, forks>>

\* cond_timedwait runs out: it is time for a global update.
WorkerTimeout(w) ==
    /\ pc[w] = "sleep"
    /\ pc' = [pc EXCEPT ![w] = "top"]
    /\ UNCHANGED <<linked, updVars, cache_lock, reaping, thrVars, procVars,
                   forks>>

-----------------------------------------------------------------------------
(* umem_reap.                                                              *)

\* Mutant: the first, unlocked test is the only one that counts, and it
\* may be out of date.
ReapingUnchecked == TRUE

\* What umem_reap tests again under umem_update_lock.
MayReap == reaping = "DONE"

\* The checks, and umem_reaping locks out other reaps.
ReapBegin(t) ==
    /\ \/ pc[t] = "idle"
       \/ NESTED /\ pc[t] = "create" /\ why[t] = "fork"
    /\ MayReap
    /\ reaping' = "ADDING"
    /\ pc' = [pc EXCEPT ![t] = IF pc[t] = "idle" THEN "adding"
                               ELSE "nested_adding"]
    /\ UNCHANGED <<linked, updVars, cache_lock, thrVars, procVars, forks>>

\* umem_updateall(UMU_REAP).
ReapAdd(t) ==
    /\ pc[t] \in {"adding", "nested_adding"}
    /\ cache_lock = NoOne
    /\ AddUpdates(linked, {"REAP"})
    /\ pc' = BroadcastUnlessUpdating(t, IF pc[t] = "adding" THEN "added"
                                        ELSE "nested_added")
    /\ UNCHANGED <<linked, cache_lock, reaping, thrVars, procVars, forks>>

\* umem_reaping says there is a reap; an update thread is woken or, when
\* there is none, created.
ReapActivate(t) ==
    /\ pc[t] \in {"added", "nested_added"}
    /\ reaping' = "ACTIVE"
    /\ IF update_thr # NoOne
       THEN /\ pc' = Broadcast(t, IF pc[t] = "added" THEN "idle"
                                  ELSE "create")
            /\ UNCHANGED why
       ELSE /\ pc' = [pc EXCEPT ![t] = "create"]
            /\ why' = [why EXCEPT ![t] = IF pc[t] = "added" THEN "reap"
                                         ELSE "nested"]
    /\ UNCHANGED <<linked, updVars, cache_lock, update_thr, st_update_thr,
                   newthr, procVars, forks>>

-----------------------------------------------------------------------------
(* umem_create_update_thread, umem_update_lock dropped.                    *)

\* Where the caller goes on, and the caller of its caller.
AfterCreate(t) == IF why[t] = "nested" THEN "create" ELSE "idle"
WhyAfter(t) == IF why[t] = "nested" THEN "fork" ELSE "reap"

CreateOk(t) ==
    /\ pc[t] = "create"
    /\ \E w \in Workers :
         /\ pc[w] = "none"
         /\ newthr' = [newthr EXCEPT ![t] = w]
         /\ pc' = [pc EXCEPT ![t] = "publish", ![w] = "start"]
    /\ UNCHANGED <<linked, updVars, cache_lock, reaping, update_thr,
                   st_update_thr, why, procVars, forks>>

CreatePublish(t) ==
    /\ pc[t] = "publish"
    /\ update_thr' = newthr[t]
    /\ pc' = [pc EXCEPT ![t] = "go"]
    /\ UNCHANGED <<linked, updVars, cache_lock, reaping, st_update_thr,
                   newthr, why, procVars, forks>>

\* obj.go is set and the creator waits for obj.done.
CreateGo(t) ==
    /\ pc[t] = "go"
    /\ pc' = [pc EXCEPT ![t] = "wait_done"]
    /\ UNCHANGED <<linked, updVars, cache_lock, reaping, thrVars, procVars,
                   forks>>

\* The creator may return once the worker is past its start.
WorkerDone(t) == pc[newthr[t]] # "start"

CreateReturn(t) ==
    /\ pc[t] = "wait_done"
    /\ WorkerDone(t)
    /\ newthr' = [newthr EXCEPT ![t] = NoOne]
    /\ why' = [why EXCEPT ![t] = WhyAfter(t)]
    /\ pc' = IF why[t] = "fork" THEN [pc EXCEPT ![t] = AfterCreate(t)]
             ELSE Broadcast(t, AfterCreate(t))
    /\ UNCHANGED <<linked, updVars, cache_lock, reaping, update_thr,
                   st_update_thr, procVars, forks>>

\* pthread_create fails, or the process has one thread: a reap does the
\* update inline, the fork handler leaves it at that.
CreateFails(t) ==
    /\ scarce
    /\ pc[t] = "create"
    /\ IF why[t] = "fork"
       THEN /\ pc' = [pc EXCEPT ![t] = "idle"]
            /\ why' = [why EXCEPT ![t] = "reap"]
            /\ UNCHANGED st_update_thr
       ELSE /\ pc' = [pc EXCEPT ![t] = "pass"]
            /\ st_update_thr' = t
            /\ UNCHANGED why
    /\ UNCHANGED <<linked, updVars, cache_lock, reaping, update_thr, newthr,
                   procVars, forks>>

\* The end of umem_st_update and of umem_reap.
StUpdateEnds(t) ==
    /\ t \in Threads
    /\ pc[t] = "top"
    /\ ulist = <<>>
    /\ reaping' = "DONE"
    /\ st_update_thr' = NoOne
    /\ pc' = Broadcast(t, AfterCreate(t))
    /\ why' = [why EXCEPT ![t] = WhyAfter(t)]
    /\ UNCHANGED <<linked, updVars, cache_lock, update_thr, newthr, procVars,
                   forks>>

-----------------------------------------------------------------------------
(* umem_cache_destroy and umem_remove_updates.                             *)

DestroyUnlink(t) ==
    /\ pc[t] = "idle"
    /\ cache_lock = NoOne
    /\ \E c \in linked :
         /\ linked' = linked \ {c}
         /\ cp' = [cp EXCEPT ![t] = {c}]
    /\ pc' = [pc EXCEPT ![t] = "remove"]
    /\ UNCHANGED <<updVars, cache_lock, reaping, thrVars, round, todo,
                   notify, walk, forks>>

\* Mutant: a cache that is being worked on is not waited for.
QuietAlways(c) == TRUE

\* Nobody works on c.
Quiet(c) == "ACTIVE" \notin uflags[c]

\* An Active cache is waited for ...
RemoveWaits(t) ==
    /\ pc[t] = "remove"
    /\ \E c \in cp[t] :
         /\ ~Quiet(c)
         /\ uflags' = [uflags EXCEPT ![c] = @ \cup {"NOTIFY"}]
    /\ pc' = [pc EXCEPT ![t] = "wait"]
    /\ UNCHANGED <<linked, ulist, cache_lock, reaping, thrVars, procVars,
                   forks, owed, late>>

\* The list s without c.
Unlinked(s, c) ==
    IF c \in Range(s)
    THEN LET i == CHOOSE j \in DOMAIN s : s[j] = c
         IN  SubSeq(s, 1, i - 1) \o SubSeq(s, i + 1, Len(s))
    ELSE s

\* ... any other one is taken off the list; then the cache is destroyed.
RemoveDone(t) ==
    /\ pc[t] = "remove"
    /\ \E c \in cp[t] :
         /\ Quiet(c)
         /\ ulist' = Unlinked(ulist, c)
         /\ uflags' = [uflags EXCEPT ![c] = {}]
         /\ owed' = [owed EXCEPT ![c] = {}]
         /\ late' = [late EXCEPT ![c] = {}]
    /\ cp' = [cp EXCEPT ![t] = {}]
    /\ pc' = [pc EXCEPT ![t] = "idle"]
    /\ UNCHANGED <<linked, cache_lock, reaping, thrVars, round, todo, notify,
                   walk, forks>>

-----------------------------------------------------------------------------
(* fork(), seen from the child: umem_do_release(1) in the forking thread t,*)
(* after umem_lockup() had every lock.                                     *)

\* Caches on the list that were Active go back to its tail.
Abandoned == {c \in linked : "ACTIVE" \in uflags[c]}

\* Mutant: the request goes with the flag.
ChildFlagsNone(c) == IF "ACTIVE" \in uflags[c] THEN {} ELSE uflags[c]

\* cache_uflags of a listed cache in the child.
ChildFlags(c) == uflags[c] \ {"NOTIFY", "ACTIVE"}

Fork(t) ==
    /\ pc[t] = "idle"
    /\ cache_lock = NoOne
    /\ forks < FORKS
    /\ forks' = forks + 1
    /\ update_thr' = NoOne
    /\ st_update_thr' = NoOne
    /\ reaping' = "DONE"
    /\ uflags' = [c \in Caches |-> IF c \in linked THEN ChildFlags(c)
                                   ELSE uflags[c]]
    /\ ulist' = ulist \o Listed(Abandoned)
    /\ pc' = [p \in Procs |-> IF p = t THEN "create"
                              ELSE IF pc[p] = "none" THEN "none" ELSE "dead"]
    /\ cp' = [p \in Procs |-> {}]
    /\ round' = [p \in Procs |-> {}]
    /\ todo' = [p \in Procs |-> {}]
    /\ notify' = [p \in Procs |-> FALSE]
    /\ walk' = [p \in Procs |-> {}]
    /\ newthr' = [p \in Threads |-> NoOne]
    /\ why' = [why EXCEPT ![t] = "fork"]
    /\ owed' = [c \in Caches |-> IF c \in linked THEN uflags[c] \cap KINDS
                                 ELSE {}]
    /\ late' = [c \in Caches |-> {}]
    /\ UNCHANGED <<linked, cache_lock>>

-----------------------------------------------------------------------------
Process(p) == TakeCache(p) \/ DoWork(p) \/ EndRound(p)

GlobalUpdate(p) == StartWalk(p) \/ WalkCache(p) \/ EndWalk(p)

WorkerLoop(w) == WorkerStarts(w) \/ WorkerIdles(w) \/ WorkerTimeout(w)

ReapContinues(t) == ReapAdd(t) \/ ReapActivate(t)

Create(t) ==
    \/ CreateOk(t)
    \/ CreatePublish(t)
    \/ CreateGo(t)
    \/ CreateReturn(t)
    \/ CreateFails(t)

RemoveUpdates(t) == RemoveWaits(t) \/ RemoveDone(t)

Next ==
    /\ \/ \E p \in Procs : Process(p) \/ GlobalUpdate(p)
       \/ \E w \in Workers : WorkerLoop(w)
       \/ \E t \in program.threads :
             \/ ReapBegin(t) \/ ReapContinues(t) \/ Create(t) \/ StUpdateEnds(t)
             \/ DestroyUnlink(t) \/ RemoveUpdates(t) \/ Fork(t)
    /\ UNCHANGED rigid

Spec == Init /\ [][Next]_vars

\* Every thread that is runnable runs, and cond_timedwait returns.  The
\* update thread lets go of umem_cache_lock for a whole interval after each
\* walk, so a thread that waits for it gets it (strong fairness).  Nobody is
\* obliged to call umem_reap, umem_cache_destroy or fork.
Fairness ==
    /\ \A p \in Procs : /\ WF_vars(Process(p) /\ UNCHANGED rigid)
                        /\ WF_vars(GlobalUpdate(p) /\ UNCHANGED rigid)
    /\ \A w \in Workers : WF_vars(WorkerLoop(w) /\ UNCHANGED rigid)
    /\ \A t \in Threads : /\ SF_vars(ReapContinues(t) /\ UNCHANGED rigid)
                          /\ WF_vars(Create(t) /\ UNCHANGED rigid)
                          /\ WF_vars(StUpdateEnds(t) /\ UNCHANGED rigid)
                          /\ WF_vars(RemoveUpdates(t) /\ UNCHANGED rigid)

FairSpec == Spec /\ Fairness
-----------------------------------------------------------------------------
(* Properties.                                                             *)

Flags == KINDS \cup {"NOTIFY", "ACTIVE"}

\* The type invariant; a cache is on the update list at most once.
TypeOK ==
    /\ scarce \in BOOLEAN
    /\ linked \subseteq Caches
    /\ uflags \in [Caches -> SUBSET Flags]
    /\ ulist \in Seq(Caches) /\ IsInjective(ulist)
    /\ cache_lock \in Procs \cup {NoOne}
    /\ reaping \in {"DONE", "ADDING", "ACTIVE"}
    /\ update_thr \in Workers \cup {NoOne}
    /\ st_update_thr \in Threads \cup {NoOne}
    /\ cp \in [Procs -> SUBSET Caches]
    /\ \A p \in Procs : Cardinality(cp[p]) <= 1
    /\ round \in [Procs -> SUBSET Flags]
    /\ todo \in [Procs -> SUBSET KINDS]
    /\ notify \in [Procs -> BOOLEAN]
    /\ walk \in [Procs -> SUBSET Caches]
    /\ newthr \in [Threads -> Workers \cup {NoOne}]

\* Processes that are somewhere in a global update or in
\* umem_process_updates.
Updating == {p \in Procs : pc[p] \in {"top", "work", "pass", "walk"}}
WorkingOn(c) == {p \in Procs : pc[p] = "work" /\ c \in cp[p]}
BeingDestroyed(c) ==
    \E t \in Threads : pc[t] \in {"remove", "wait"} /\ c \in cp[t]

\* The three states of umem.c 4.1: a cache is Inactive (no flags, not on the
\* list), Work Requested (flags but not UMU_ACTIVE, on the list) or Active
\* (not on the list, and one thread really is working on it).  After a fork
\* the child keeps this for every cache on its list.
ThreeStates ==
    \A c \in Caches :
        c \in linked \/ BeingDestroyed(c) =>
            /\ c \in Range(ulist) <=> uflags[c] # {} /\ "ACTIVE" \notin uflags[c]
            /\ "ACTIVE" \in uflags[c] <=> Cardinality(WorkingOn(c)) = 1
            /\ "ACTIVE" \notin uflags[c] => WorkingOn(c) = {}

\* Work is done by one thread at a time, which umem_cache_magazine_purge,
\* umem_cache_magazine_resize and umem_hash_rescale rely on; and it is the
\* thread that IN_UPDATE() recognises.
OneUpdater ==
    /\ Cardinality(Updating) <= 1
    /\ \A p \in Updating : p \in UpdateThreads

\* The machine of umem.c 4.1: each cache in one of its three states, and one
\* thread doing the work.
UpdateStates == TypeOK /\ ThreeStates /\ OneUpdater

\* A request is not forgotten: a cache becomes Inactive only when every kind
\* of work asked for, other than one already under way when it was asked
\* for, has been begun.
NoRequestLost ==
    \A c \in linked : uflags[c] = {} => owed[c] = {}

\* The new thread uses the object on its creator's stack only while the
\* creator is still in umem_create_update_thread.
HandshakeSafe ==
    \A w \in Workers : pc[w] = "start" => \E t \in Threads : newthr[t] = w

\* Once umem_remove_updates has returned, nothing works on the cache or will.
DestroyedUntouched ==
    \A c \in Caches \ linked :
        forks = 0 /\ ~BeingDestroyed(c) =>
            /\ uflags[c] = {}
            /\ c \notin Range(ulist)
            /\ WorkingOn(c) = {}

\* No thread uses what its owner has taken back: the new update thread not its
\* creator's stack, the update thread not a destroyed cache.
OutOfReach == HandshakeSafe /\ DestroyedUntouched

\* A reap that has locked out other reaps ends, so that reaping is never
\* switched off for good: by an update thread, inline, or by the reset in a
\* forked child.
ReapEnds == reaping # "DONE" ~> reaping = "DONE"

\* umem_cache_destroy does not wait for ever for work on the cache to end.
DestroyEnds ==
    \A t \in Threads :
        pc[t] \in {"remove", "wait"} ~> pc[t] \notin {"remove", "wait"}

\* Every request made on a cache that stays is worked on in the end, through
\* forks as well, if update threads can be created (without one it waits for
\* the next umem_reap).
RequestServed ==
    \A c \in Caches :
        (~scarce /\ c \in linked /\ owed[c] # {}) ~> (c \notin linked \/ owed[c] = {})

\* umem.c 4.1 on a cache that is Active: the worker acts on a new update
\* before the cache becomes Inactive.
ActiveNoticesUpdate ==
    \A c \in linked : uflags[c] = {} => late[c] = {}

\* What umem_create_update_thread asserts before it publishes the thread it
\* has created: there is none yet.
NoThreadYet == \A t \in Threads : pc[t] = "publish" => update_thr = NoOne
=============================================================================
