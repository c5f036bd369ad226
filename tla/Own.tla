--------------------------------- MODULE Own ---------------------------------
(***************************************************************************)
(* One owned allocation and its references (umem_own.c), with or without   *)
(* the debug header.  Every load, store and read-modify-write of the       *)
(* header is a step.  A reference is a value: its holder may be any        *)
(* thread, and releases it once.  Handles are used by the thread that has  *)
(* them; umem_drop frees the memory that the checks of a later call with   *)
(* a stale handle would read, so such calls are no part of this model.     *)
(***************************************************************************)
EXTENDS Integers, FiniteSets

CONSTANTS
    Threads,
    MAX_REFS,           \* references out at one time
    OWN_CONFIGS         \* [debug, shared, moves]: the debug header; references are
                        \* released by other threads too; umem_move is called

VARIABLES
    own_config,
    ohl_state,          \* OWNED, DROPPED, or none: no such allocation
    ohl_refcount, ohd_borrow_count, ohd_mut_borrow, ohd_owner_thread,
    refs,               \* the references out: a bag of "shared" and "mutable"
    own_pc              \* where each thread is

ownVars == <<own_config, ohl_state, ohl_refcount, ohd_borrow_count,
             ohd_mut_borrow, ohd_owner_thread, refs, own_pc>>
headerVars == <<ohl_state, ohl_refcount, ohd_borrow_count, ohd_mut_borrow,
                ohd_owner_thread>>

Kinds == {"shared", "mutable"}
debug == own_config.debug
Goes(t, pc) == own_pc' = [own_pc EXCEPT ![t] = pc]
At(t, pc) == own_pc[t] = pc
Out(k) == refs' = [refs EXCEPT ![k] = @ + 1]
Back(k) == refs' = [refs EXCEPT ![k] = @ - 1]

Init ==
    /\ own_config \in OWN_CONFIGS
    /\ ohl_state = "none"
    /\ ohl_refcount = 0 /\ ohd_borrow_count = 0 /\ ohd_mut_borrow = 0
    /\ ohd_owner_thread \in Threads
    /\ refs = [k \in Kinds |-> 0]
    /\ own_pc = [t \in Threads |-> "idle"]

\* umem_own_alloc, and umem_clone of another allocation: init_header.
OwnAlloc(t) ==
    /\ At(t, "idle") /\ ohl_state = "none"
    /\ ohl_state' = "OWNED" /\ ohl_refcount' = 0
    /\ ohd_owner_thread' = t
    /\ ohd_borrow_count' = 0 /\ ohd_mut_borrow' = 0
    /\ UNCHANGED <<own_config, refs, own_pc>>

\* require_owned and require_thread.
Required(t) ==
    /\ ohl_state = "OWNED"
    /\ t = ohd_owner_thread

-----------------------------------------------------------------------------
(* Borrowing                                                               *)

Borrow(t) ==
    /\ At(t, "idle") /\ Required(t)
    /\ refs["shared"] + refs["mutable"] < MAX_REFS
    /\ IF debug
       THEN /\ ohd_mut_borrow = 0
            /\ ohd_borrow_count' = ohd_borrow_count + 1
       ELSE UNCHANGED ohd_borrow_count
    /\ Goes(t, "shared")
    /\ UNCHANGED <<own_config, ohl_state, ohl_refcount, ohd_mut_borrow,
                   ohd_owner_thread, refs>>

MayBorrowMut == ohd_borrow_count = 0 /\ ohd_mut_borrow = 0

BorrowMut(t) ==
    /\ At(t, "idle") /\ Required(t)
    /\ refs["shared"] + refs["mutable"] < MAX_REFS
    /\ IF debug
       THEN MayBorrowMut /\ ohd_mut_borrow' = 1
       ELSE UNCHANGED ohd_mut_borrow
    /\ Goes(t, "mutable")
    /\ UNCHANGED <<own_config, ohl_state, ohl_refcount, ohd_borrow_count,
                   ohd_owner_thread, refs>>

\* The reference count follows the debug counts.
Referenced(t) ==
    /\ own_pc[t] \in Kinds
    /\ ohl_refcount' = ohl_refcount + 1
    /\ Out(own_pc[t]) /\ Goes(t, "idle")
    /\ UNCHANGED <<own_config, ohl_state, ohd_borrow_count, ohd_mut_borrow,
                   ohd_owner_thread>>

Unborrow(t, k) ==
    /\ At(t, "idle") /\ refs[k] > 0
    /\ own_config.shared \/ t = ohd_owner_thread
    /\ ohl_refcount' = ohl_refcount - 1
    /\ Back(k)
    /\ Goes(t, IF debug THEN (IF k = "shared" THEN "unshare" ELSE "unmut") ELSE "idle")
    /\ UNCHANGED <<own_config, ohl_state, ohd_borrow_count, ohd_mut_borrow,
                   ohd_owner_thread>>

Unborrowed(t) ==
    /\ own_pc[t] \in {"unshare", "unmut"}
    /\ IF At(t, "unmut")
       THEN ohd_mut_borrow' = 0 /\ UNCHANGED ohd_borrow_count
       ELSE ohd_borrow_count' = ohd_borrow_count - 1 /\ UNCHANGED ohd_mut_borrow
    /\ Goes(t, "idle")
    /\ UNCHANGED <<own_config, ohl_state, ohl_refcount, ohd_owner_thread, refs>>

-----------------------------------------------------------------------------
(* umem_move and umem_drop check the counts one after the other.           *)

MoveBegin(t) ==
    /\ At(t, "idle") /\ Required(t) /\ own_config.moves
    /\ ohl_refcount = 0
    /\ Goes(t, IF debug THEN "move" ELSE "idle")
    /\ UNCHANGED <<own_config, headerVars, refs>>

MoveShared(t) ==
    /\ At(t, "move")
    /\ ohd_owner_thread' = t /\ ohd_borrow_count' = 0
    /\ Goes(t, "move mut")
    /\ UNCHANGED <<own_config, ohl_state, ohl_refcount, ohd_mut_borrow, refs>>

MoveMut(t) ==
    /\ At(t, "move mut")
    /\ ohd_mut_borrow' = 0
    /\ Goes(t, "idle")
    /\ UNCHANGED <<own_config, ohl_state, ohl_refcount, ohd_borrow_count,
                   ohd_owner_thread, refs>>

DropCheck(t) ==
    Goes(t, IF debug /\ (ohd_borrow_count # 0 \/ ohd_mut_borrow # 0)
            THEN "idle" ELSE "drop")

DropBegin(t) ==
    /\ At(t, "idle") /\ Required(t)
    /\ ohl_refcount = 0
    /\ Goes(t, "drop check")
    /\ UNCHANGED <<own_config, headerVars, refs>>

DropChecked(t) ==
    /\ At(t, "drop check")
    /\ DropCheck(t)
    /\ UNCHANGED <<own_config, headerVars, refs>>

\* DROPPED is stored and the memory, header included, is freed.
Drop(t) ==
    /\ At(t, "drop")
    /\ ohl_state' = "DROPPED"
    /\ Goes(t, "free")
    /\ UNCHANGED <<own_config, ohl_refcount, ohd_borrow_count, ohd_mut_borrow,
                   ohd_owner_thread, refs>>

Freed(t) ==
    /\ At(t, "free")
    /\ ohl_state' = "none" /\ Goes(t, "idle")
    /\ UNCHANGED <<own_config, ohl_refcount, ohd_borrow_count, ohd_mut_borrow,
                   ohd_owner_thread, refs>>

Next ==
    \E t \in Threads :
       \/ OwnAlloc(t)
       \/ Borrow(t) \/ BorrowMut(t) \/ Referenced(t)
       \/ \E k \in Kinds : Unborrow(t, k)
       \/ Unborrowed(t)
       \/ MoveBegin(t) \/ MoveShared(t) \/ MoveMut(t)
       \/ DropBegin(t) \/ DropChecked(t) \/ Drop(t) \/ Freed(t)

Spec == Init /\ [][Next]_ownVars

-----------------------------------------------------------------------------
=============================================================================
