-------------------------------- MODULE Hooks --------------------------------
(***************************************************************************)
(* The registry of application allocators (umem_hooks.c).  hook_list_lock  *)
(* is never held while a callback runs, so a step is one stay under the    *)
(* lock; a hook's reference count is what keeps it alive meanwhile.        *)
(* hook_quiesce_cv is the set of threads asleep on it.                     *)
(***************************************************************************)
EXTENDS Naturals, Sequences, SequencesExt

CONSTANTS
    Threads,
    HookSet,            \* the structures the application registers
    REFCNT_MAX,         \* UINT16_MAX
    WALKS               \* walks the application makes

VARIABLES
    hook_list_lock,     \* who holds it between two steps
    hook_list,          \* the registered hooks, latest first
    hook_active, hook_refcnt, hook_walk_gen,
    hook_walk_busy, hook_walk_gen_next,
    asleep,             \* threads in pthread_cond_wait(&hook_quiesce_cv)
    call,               \* what each thread does: [op, hook]
    throughout,         \* history: the hooks registered since the walk began
    visits              \* history: callbacks of the walk, or refusals, per hook

hookVars == <<hook_list_lock, hook_list, hook_active, hook_refcnt, hook_walk_gen,
              hook_walk_busy, hook_walk_gen_next, asleep, call, throughout, visits>>

NoHook == "no hook"
Nobody == "nobody"
Idle == [op |-> "idle", hook |-> NoHook]
Does(t, op, h) == call' = [call EXCEPT ![t] = [op |-> op, hook |-> h]]
Doing(t, op) == /\ call[t].op = op /\ t \notin asleep
                /\ hook_list_lock \in {Nobody, t}

Init ==
    /\ hook_list_lock = Nobody /\ hook_list = <<>>
    /\ hook_active = [h \in HookSet |-> FALSE]
    /\ hook_refcnt = [h \in HookSet |-> 0]
    /\ hook_walk_gen = [h \in HookSet |-> 0]
    /\ hook_walk_busy = FALSE /\ hook_walk_gen_next = 1
    /\ asleep = {}
    /\ call = [t \in Threads |-> Idle]
    /\ throughout = {}
    /\ visits = [h \in HookSet |-> 0]

MayHold(h) == hook_active[h] /\ hook_refcnt[h] # REFCNT_MAX

Held(h) == hook_refcnt' = [hook_refcnt EXCEPT ![h] = (@ + 1) % (REFCNT_MAX + 1)]

\* hook_rele wakes the sleepers with the last reference.
HookRele(h) ==
    /\ hook_refcnt' = [hook_refcnt EXCEPT ![h] = @ - 1]
    /\ asleep' = IF hook_refcnt[h] = 1 THEN {} ELSE asleep

-----------------------------------------------------------------------------
(* Registration.  A structure has one owner, who registers it, and         *)
(* unregisters it once.                                                    *)

Register(t, h) ==
    /\ Doing(t, "idle")
    /\ \A u \in Threads : call[u] # [op |-> "unregister", hook |-> h]
    /\ h \notin ToSet(hook_list)
    /\ hook_refcnt' = [hook_refcnt EXCEPT ![h] = 0]
    /\ hook_walk_gen' = [hook_walk_gen EXCEPT ![h] = 0]
    /\ hook_active' = [hook_active EXCEPT ![h] = TRUE]
    /\ hook_list' = <<h>> \o hook_list
    /\ UNCHANGED <<hook_list_lock, hook_walk_busy, 
                   hook_walk_gen_next, asleep, call, throughout, visits>>

Unregister(t, h) ==
    /\ Doing(t, "idle") /\ hook_active[h]
    /\ hook_active' = [hook_active EXCEPT ![h] = FALSE]
    /\ hook_list' = Remove(hook_list, h)
    /\ IF hook_refcnt[h] > 0
       THEN Does(t, "unregister", h) /\ asleep' = asleep \union {t}
       ELSE UNCHANGED <<call, asleep>>
    /\ throughout' = throughout \ {h}
    /\ UNCHANGED <<hook_list_lock, hook_refcnt, hook_walk_gen, hook_walk_busy, 
                   hook_walk_gen_next, visits>>

UnregisterWakes(t) ==
    /\ Doing(t, "unregister")
    /\ IF hook_refcnt[call[t].hook] > 0
       THEN asleep' = asleep \union {t} /\ UNCHANGED call
       ELSE Does(t, "idle", NoHook) /\ UNCHANGED asleep
    /\ UNCHANGED <<hook_list_lock, hook_list, hook_active, hook_refcnt, hook_walk_gen,
                   hook_walk_busy, hook_walk_gen_next, throughout, visits>>

-----------------------------------------------------------------------------
(* Tracking: a reference is held from before the callback until after the  *)
(* statistics are updated.                                                 *)

Track(t, h) ==
    /\ Doing(t, "idle")
    /\ MayHold(h)
    /\ Held(h) /\ Does(t, "callback", h)
    /\ UNCHANGED <<hook_list_lock, hook_list, hook_active, hook_walk_gen, hook_walk_busy,
                   hook_walk_gen_next, asleep, throughout, visits>>

TrackEnd(t) ==
    /\ Doing(t, "callback")
    /\ HookRele(call[t].hook) /\ Does(t, "idle", NoHook)
    /\ UNCHANGED <<hook_list_lock, hook_list, hook_active, hook_walk_gen, hook_walk_busy,
                   hook_walk_gen_next, throughout, visits>>

-----------------------------------------------------------------------------
(* umem_hook_walk, one walk at a time.  The thread that seeks the next hook *)
(* keeps the lock until it calls back or ends.                             *)

Walk(t) ==
    /\ \/ Doing(t, "idle") /\ hook_walk_gen_next <= WALKS
       \/ Doing(t, "walk")
    /\ IF hook_walk_busy
       THEN /\ Does(t, "walk", NoHook) /\ asleep' = asleep \union {t}
            /\ UNCHANGED <<hook_list_lock, hook_walk_busy, hook_walk_gen_next,
                           throughout, visits>>
       ELSE /\ Does(t, "seek", NoHook) /\ hook_list_lock' = t
            /\ hook_walk_busy' = TRUE
            /\ hook_walk_gen_next' = hook_walk_gen_next + 1
            /\ throughout' = ToSet(hook_list)
            /\ visits' = [h \in HookSet |-> 0]
            /\ UNCHANGED asleep
    /\ UNCHANGED <<hook_list, hook_active, hook_refcnt, hook_walk_gen>>

WalkEnds(t) ==
    /\ hook_walk_busy' = FALSE /\ asleep' = {}
    /\ Does(t, "idle", NoHook) /\ hook_list_lock' = Nobody

\* The first hook of the list not met in this generation; the marks on the hooks,
\* not a position, say where the walk is.
Seek(t) ==
    LET gen == hook_walk_gen_next - 1
        todo == SelectSeq(hook_list, LAMBDA h : hook_walk_gen[h] # gen)
    IN
    /\ Doing(t, "seek")
    /\ IF todo = <<>>
       THEN WalkEnds(t) /\ UNCHANGED <<hook_refcnt, hook_walk_gen, visits>>
       ELSE LET h == Head(todo) IN
            /\ hook_walk_gen' = [hook_walk_gen EXCEPT ![h] = gen]
            /\ visits' = [visits EXCEPT ![h] = IF h \in throughout THEN @ + 1 ELSE 0]
            /\ IF MayHold(h)
               THEN Held(h) /\ Does(t, "visit", h) /\ hook_list_lock' = Nobody
               ELSE UNCHANGED <<hook_refcnt, call, hook_list_lock>>
            /\ UNCHANGED <<hook_walk_busy, asleep>>
    /\ UNCHANGED <<hook_list, hook_active, hook_walk_gen_next, throughout>>

\* Back from the walk's callback, which may ask to stop.
Visited(t, stop) ==
    /\ Doing(t, "visit")
    /\ IF stop
       THEN /\ hook_refcnt' = [hook_refcnt EXCEPT ![call[t].hook] = @ - 1]
            /\ WalkEnds(t) /\ throughout' = {}
       ELSE /\ HookRele(call[t].hook) /\ Does(t, "seek", NoHook)
            /\ hook_list_lock' = t
            /\ UNCHANGED <<hook_walk_busy, throughout>>
    /\ UNCHANGED <<hook_list, hook_active, hook_walk_gen, hook_walk_gen_next, visits>>

Next ==
    \E t \in Threads :
       \/ \E h \in HookSet : Register(t, h) \/ Unregister(t, h) \/ Track(t, h)
       \/ UnregisterWakes(t) \/ TrackEnd(t)
       \/ Walk(t) \/ Seek(t)
       \/ \E stop \in BOOLEAN : Visited(t, stop)

Spec == Init /\ [][Next]_hookVars

-----------------------------------------------------------------------------
Inside(h) == { t \in Threads : call[t].op \in {"callback", "visit"} /\ call[t].hook = h }

=============================================================================
