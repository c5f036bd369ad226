------------------------------ MODULE Budget ------------------------------
(***************************************************************************)
(* Budget contexts (examples/umem_palloc.c): an arena with a budget, calls *)
(* that wait for room in it, and a child context that also asks its        *)
(* parent.  A stay under pressure_lock is one step; the arena is used      *)
(* outside of it.  A timed wait may end at any moment.                     *)
(***************************************************************************)
EXTENDS Naturals, FiniteSets

CONSTANTS
    Threads,
    BudgetSizes,        \* sizes asked for
    BUDGET,             \* budget of the root; the child's is one less
    MAX_RETRIES,
    BUDGET_CALLS,       \* bound on the calls made
    BUDGET_CONFIGS      \* [flags, prealloc, family]: WAIT, NOWAIT or NOFAIL; a
                        \* fixed or an importing arena; calls on the child too

VARIABLES
    budget_config,
    parent,             \* contexts that exist, each with its parent
    used,               \* vmem_size(arena, VMEM_ALLOC)
    waiters,
    live_count,         \* alloc_count - free_count
    budget_call,        \* each thread: [at, ctx, size, retries]
    unsignalled,        \* threads in pthread_cond_timedwait, not woken yet
    memory,             \* what each thread holds: [ctx, size] records
    budget_calls, aborted

budgetVars == <<budget_config, parent, used, waiters, live_count, budget_call,
                unsignalled, memory, budget_calls, aborted>>

Root == 1
Child == 2
None == 0
Contexts == {Root, Child}
budget(c) == IF c = Root THEN BUDGET ELSE BUDGET - 1
Outside == [at |-> "out", ctx |-> None, size |-> 0, retries |-> 0]
Nothing == [ctx |-> None, size |-> 0]

Init ==
    /\ budget_config \in BUDGET_CONFIGS
    /\ parent = [c \in {Root} |-> None]
    /\ used = [c \in Contexts |-> 0]
    /\ waiters = [c \in Contexts |-> 0]
    /\ live_count = [c \in Contexts |-> 0]
    /\ budget_call = [t \in Threads |-> Outside]
    /\ unsignalled = {}
    /\ memory = [t \in Threads |-> Nothing]
    /\ budget_calls = 0 /\ aborted = FALSE

Goes(t, place) == budget_call' = [budget_call EXCEPT ![t].at = place]
Call(t) == budget_call[t]

---------------------------------------------------------------------------
(* Creation and deletion, by a caller nobody else's call is in the way of. *)

Unused(c) == \A t \in Threads : Call(t).ctx # c /\ memory[t].ctx # c

CreateChild ==
    /\ budget_config.family /\ ~ aborted
    /\ Root \in DOMAIN parent /\ Child \notin DOMAIN parent
    /\ budget(Child) <= budget(Root)
    /\ parent' = [c \in Contexts |-> IF c = Child THEN Root ELSE None]
    /\ UNCHANGED <<budget_config, used, waiters, live_count, budget_call, unsignalled,
                   memory, budget_calls, aborted>>

\* umem_budget_delete: the children first, then the context leaves its parent.
Family(c) == {d \in DOMAIN parent : d = c \/ parent[d] = c}

BudgetDelete(c) ==
    /\ c \in DOMAIN parent /\ ~ aborted
    /\ \A d \in Family(c) : Unused(d)
    /\ parent' = [d \in DOMAIN parent \ Family(c) |-> parent[d]]
    /\ UNCHANGED <<budget_config, used, waiters, live_count, budget_call, unsignalled,
                   memory, budget_calls, aborted>>

---------------------------------------------------------------------------
(* umem_budget_alloc. *)

Room(c, size) == used[c] + size <= budget(c)

\* The context's own budget and check_parent_budget for its ancestor.
Fits(c, size) == Room(c, size) /\ (parent[c] # None => Room(parent[c], size))

BudgetAlloc(t, c, size) ==
    /\ Call(t).at = "out" /\ memory[t] = Nothing /\ ~ aborted
    /\ c \in DOMAIN parent
    /\ budget_calls < BUDGET_CALLS
    /\ budget_calls' = budget_calls + 1
    /\ budget_call' = [budget_call EXCEPT ![t] =
           [at |-> IF Fits(c, size) THEN "vmem" ELSE "reap",
            ctx |-> c, size |-> size, retries |-> 0]]
    /\ UNCHANGED <<budget_config, parent, used, waiters, live_count, unsignalled,
                   memory, aborted>>

Fail(t) == budget_call' = [budget_call EXCEPT ![t] = Outside]

\* After umem_reap, the lock taken again.
Recheck(t) ==
    /\ Call(t).at = "reap" /\ ~ aborted
    /\ LET c == Call(t).ctx
       IN  \/ /\ Fits(c, Call(t).size)
              /\ Goes(t, "vmem")
              /\ UNCHANGED <<waiters, unsignalled, aborted>>
           \/ /\ ~ Fits(c, Call(t).size) /\ budget_config.flags = "NOWAIT"
              /\ Fail(t)
              /\ UNCHANGED <<waiters, unsignalled, aborted>>
           \/ /\ ~ Fits(c, Call(t).size) /\ budget_config.flags = "NOFAIL"
              /\ aborted' = TRUE
              /\ UNCHANGED <<budget_call, waiters, unsignalled>>
           \/ /\ ~ Fits(c, Call(t).size) /\ budget_config.flags = "WAIT"
              /\ Call(t).retries >= MAX_RETRIES
              /\ Fail(t)
              /\ UNCHANGED <<waiters, unsignalled, aborted>>
           \/ /\ ~ Fits(c, Call(t).size) /\ budget_config.flags = "WAIT"
              /\ Call(t).retries < MAX_RETRIES
              /\ waiters' = [waiters EXCEPT ![c] = @ + 1]
              /\ unsignalled' = unsignalled \cup {t}
              /\ Goes(t, "wait")
              /\ UNCHANGED aborted
    /\ UNCHANGED <<budget_config, parent, used, live_count, memory, budget_calls>>

\* Signalled or timed out; the lock is held on to the next look at the budget.
WaitEnds(t) ==
    /\ Call(t).at = "wait" /\ ~ aborted
    /\ LET c == Call(t).ctx
       IN  /\ waiters' = [waiters EXCEPT ![c] = @ - 1]
           /\ budget_call' = [budget_call EXCEPT
                  ![t].at = IF Fits(c, Call(t).size) THEN "vmem" ELSE "reap",
                  ![t].retries = @ + 1]
    /\ unsignalled' = unsignalled \ {t}
    /\ UNCHANGED <<budget_config, parent, used, live_count, memory, budget_calls, aborted>>

\* vmem_alloc: a fixed arena has no more than the budget, the other one imports.
VmemAlloc(t) ==
    /\ Call(t).at = "vmem" /\ ~ aborted
    /\ LET c == Call(t).ctx
       IN  \/ /\ budget_config.prealloc => Room(c, Call(t).size)
              /\ used' = [used EXCEPT ![c] = @ + Call(t).size]
              /\ Goes(t, "count")
           \/ /\ budget_config.prealloc /\ ~ Room(c, Call(t).size)
              /\ Fail(t)
              /\ UNCHANGED used
    /\ UNCHANGED <<budget_config, parent, waiters, live_count, unsignalled, memory,
                   budget_calls, aborted>>

AllocEnd(t) ==
    /\ Call(t).at = "count" /\ ~ aborted
    /\ live_count' = [live_count EXCEPT ![Call(t).ctx] = @ + 1]
    /\ memory' = [memory EXCEPT ![t] = [ctx |-> Call(t).ctx, size |-> Call(t).size]]
    /\ Fail(t)
    /\ UNCHANGED <<budget_config, parent, used, waiters, unsignalled, budget_calls, aborted>>

---------------------------------------------------------------------------
(* umem_budget_free: the arena first, then the lock and the waiters.       *)

BudgetFree(t) ==
    /\ Call(t).at = "out" /\ memory[t] # Nothing /\ ~ aborted
    /\ used' = [used EXCEPT ![memory[t].ctx] = @ - memory[t].size]
    /\ budget_call' = [budget_call EXCEPT ![t] =
           [Outside EXCEPT !.at = "freed", !.ctx = memory[t].ctx]]
    /\ memory' = [memory EXCEPT ![t] = Nothing]
    /\ UNCHANGED <<budget_config, parent, waiters, live_count, unsignalled, budget_calls,
                   aborted>>

WokenOne(c) ==      \* pthread_cond_signal in the place of the broadcast
    LET W == {t \in unsignalled : Call(t).ctx = c}
    IN  IF W = {} THEN {} ELSE {CHOOSE t \in W : TRUE}

Woken(c) == {t \in unsignalled : Call(t).ctx = c}

Wake(c) == IF waiters[c] > 0 THEN unsignalled \ Woken(c) ELSE unsignalled

FreeEnd(t) ==
    /\ Call(t).at = "freed" /\ ~ aborted
    /\ live_count' = [live_count EXCEPT ![Call(t).ctx] = @ - 1]
    /\ unsignalled' = Wake(Call(t).ctx)
    /\ Fail(t)
    /\ UNCHANGED <<budget_config, parent, used, waiters, memory, budget_calls, aborted>>

BudgetDone ==
    /\ aborted \/ (\A t \in Threads : Call(t) = Outside)
    /\ UNCHANGED budgetVars

Next ==
    \/ CreateChild
    \/ \E c \in Contexts : BudgetDelete(c)
    \/ \E t \in Threads :
          \/ \E c \in Contexts, size \in BudgetSizes : BudgetAlloc(t, c, size)
          \/ Recheck(t) \/ WaitEnds(t) \/ VmemAlloc(t) \/ AllocEnd(t)
          \/ BudgetFree(t) \/ FreeEnd(t)
    \/ BudgetDone

Spec == Init /\ [][Next]_budgetVars

---------------------------------------------------------------------------
Busy(c) == {t \in Threads : Call(t).ctx = c}

\* No wakeup is lost on a context of its own although memory is given back
\* outside its lock: a thread sleeps beside room for it only while a free has
\* still to broadcast.  waiters is the number of threads that will subtract
\* themselves, a context nobody is in has counted all it has out, a fixed arena
\* never holds more than its budget, and no context outlives its parent.
BudgetSound ==
    /\ \A t \in unsignalled :
          /\ parent[Call(t).ctx] = None
          /\ Room(Call(t).ctx, Call(t).size)
          => \E u \in Busy(Call(t).ctx) : Call(u).at = "freed"
    /\ \A c \in Contexts :
          /\ waiters[c] = Cardinality({t \in Busy(c) : Call(t).at = "wait"})
          /\ Busy(c) = {} => live_count[c] = Cardinality({t \in Threads : memory[t].ctx = c})
          /\ budget_config.prealloc => used[c] <= budget(c)
    /\ \A c \in DOMAIN parent : parent[c] # None => parent[c] \in DOMAIN parent

\* umem_palloc.c on create_dynamic_arena: "The budget itself is still enforced
\* in umem_budget_alloc() by checking vmem_size(VMEM_ALLOC) before each
\* allocation, not by capping the arena."
BudgetEnforced == \A c \in Contexts : used[c] <= budget(c)
===========================================================================
