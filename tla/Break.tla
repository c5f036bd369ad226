-------------------------------- MODULE Break --------------------------------
(***************************************************************************)
(* The break engine and its server (umem_introspect.c): a client arms a    *)
(* predicate, an allocation that matches stops its thread, "continue"      *)
(* lets it go.  A stay under brk_lock is one step, except in cmd_sig_add,  *)
(* which reallocates the leak set and stores the new block in two.  fork() *)
(* turns the process into its child.                                       *)
(***************************************************************************)
EXTENDS Naturals, FiniteSets

CONSTANTS
    Threads,            \* the application's threads
    Sizes,              \* sizes of allocations
    COMMANDS,           \* commands the client sends
    BREAK_CONFIGS       \* [sigs, fork]: leak signatures are sent; the process forks

VARIABLES
    brk_config,
    introspect_once, server,        \* the once-control; where the server thread is
    brk_server_valid,
    brk_lock,                       \* held by the server between two steps
    umem_introspect_break_armed, brk_kind, brk_size, brk_seq, brk_seq_counter,
    brk_leakset, leaksigs, blocks,  \* the pointer, its contents, what malloc gave
    brk_generation, brk_stopped,
    alloc,                          \* each thread: [at, size, gen, kind]
    asleep,                         \* threads in pthread_cond_wait(&brk_cv)
    child, sent, freed_dead

brkVars == <<brk_config, introspect_once, server, brk_server_valid, brk_lock,
             umem_introspect_break_armed, brk_kind, brk_size, brk_seq,
             brk_seq_counter, brk_leakset, leaksigs, blocks, brk_generation,
             brk_stopped, alloc, asleep, child, sent, freed_dead>>
serverVars == <<introspect_once, server, brk_server_valid>>
predicate == <<brk_kind, brk_size, brk_seq, brk_seq_counter>>
leakVars == <<brk_leakset, leaksigs, blocks>>
rigid == <<brk_config, child, freed_dead>>

NULL == 0
Quiet == [at |-> "idle", size |-> 0, gen |-> 0, kind |-> "NONE"]
Blocks == 1 .. COMMANDS

Init ==
    /\ brk_config \in BREAK_CONFIGS
    /\ introspect_once = FALSE /\ server = "none" /\ brk_server_valid = FALSE
    /\ brk_lock = FALSE
    /\ umem_introspect_break_armed = FALSE
    /\ brk_kind = "NONE" /\ brk_size = 0 /\ brk_seq = 0 /\ brk_seq_counter = 0
    /\ brk_leakset = NULL /\ leaksigs = {} /\ blocks = {}
    /\ brk_generation = 0 /\ brk_stopped = 0
    /\ alloc = [t \in Threads |-> Quiet] /\ asleep = {}
    /\ child = FALSE /\ sent = 0 /\ freed_dead = FALSE

-----------------------------------------------------------------------------
(* The server thread: umem_introspect_start, introspect_thread.            *)

Start ==
    /\ ~ introspect_once
    /\ introspect_once' = TRUE /\ server' = "starting" /\ brk_server_valid' = TRUE
    /\ UNCHANGED <<rigid, brk_lock, umem_introspect_break_armed, predicate, leakVars,
                   brk_generation, brk_stopped, alloc, asleep, sent>>

\* No safe path clears brk_server_valid; no socket, bind or listen leaves it set.
Listen(path, bound) ==
    /\ server = "starting"
    /\ server' = IF path /\ bound THEN "accept" ELSE "gone"
    /\ brk_server_valid' = path
    /\ UNCHANGED <<rigid, introspect_once, brk_lock, umem_introspect_break_armed,
                   predicate, leakVars, brk_generation, brk_stopped, alloc, asleep, sent>>

Accept ==
    /\ server = "accept"
    /\ server' = "client"
    /\ UNCHANGED <<rigid, introspect_once, brk_server_valid, brk_lock,
                   umem_introspect_break_armed, predicate, leakVars,
                   brk_generation, brk_stopped, alloc, asleep, sent>>

AcceptFails ==
    /\ server = "accept"
    /\ server' = "gone" /\ brk_server_valid' = FALSE
    /\ UNCHANGED <<rigid, introspect_once, brk_lock, umem_introspect_break_armed,
                   predicate, leakVars, brk_generation, brk_stopped, alloc, asleep, sent>>

\* The client goes, also in the middle of a logtail, which serves nothing else.
Disconnect ==
    /\ server \in {"client", "logtail"}
    /\ server' = "accept"
    /\ UNCHANGED <<rigid, introspect_once, brk_server_valid, brk_lock,
                   umem_introspect_break_armed, predicate, leakVars,
                   brk_generation, brk_stopped, alloc, asleep, sent>>

Command ==
    /\ server = "client" /\ sent < COMMANDS /\ ~ brk_lock
    /\ sent' = sent + 1

Logtail ==
    /\ Command
    /\ server' = "logtail"
    /\ UNCHANGED <<rigid, introspect_once, brk_server_valid, brk_lock,
                   umem_introspect_break_armed, predicate, leakVars,
                   brk_generation, brk_stopped, alloc, asleep>>

-----------------------------------------------------------------------------
(* The commands that change the engine                                     *)

FreeLeakset ==
    /\ blocks' = blocks \ {brk_leakset}
    /\ brk_leakset' = NULL /\ leaksigs' = {}

Retire == brk_generation' = brk_generation + 1 /\ asleep' = {}

\* break size=, cache= (by what tells allocations apart), seq=, token=, leaked.
CmdBreak(kind, size, seq) ==
    /\ Command
    /\ IF kind = "LEAKED" THEN UNCHANGED leakVars ELSE FreeLeakset
    /\ Retire
    /\ brk_size' = size /\ brk_seq' = seq /\ brk_seq_counter' = 0
    /\ brk_kind' = kind
    /\ umem_introspect_break_armed' = TRUE
    /\ UNCHANGED <<rigid, serverVars, brk_lock, brk_stopped, alloc>>

CmdContinue ==
    /\ Command
    /\ brk_generation' = brk_generation + 1 /\ asleep' = {}
    /\ umem_introspect_break_armed' = FALSE /\ brk_kind' = "NONE"
    /\ FreeLeakset
    /\ UNCHANGED <<rigid, serverVars, brk_lock, brk_size, brk_seq, brk_seq_counter,
                   brk_stopped, alloc>>

\* realloc() frees the old block; brk_leakset is stored after it returns.
SigRealloc ==
    /\ Command /\ brk_config.sigs
    /\ \E b \in Blocks \ blocks : blocks' = (blocks \ {brk_leakset}) \union {b}
    /\ brk_lock' = TRUE
    /\ UNCHANGED <<rigid, serverVars, umem_introspect_break_armed, predicate,
                   brk_leakset, leaksigs, brk_generation, brk_stopped, alloc, asleep>>

SigStore(size) ==
    /\ brk_lock
    /\ brk_leakset' = CHOOSE b \in blocks : TRUE
    /\ leaksigs' = leaksigs \union {size}
    /\ brk_lock' = FALSE
    /\ UNCHANGED <<rigid, serverVars, umem_introspect_break_armed, predicate, blocks,
                   brk_generation, brk_stopped, alloc, asleep, sent>>

-----------------------------------------------------------------------------
(* An allocation: the unlocked look at the hint, then break_check.         *)

Allocate(t, size) ==
    /\ alloc[t].at = "idle" /\ umem_introspect_break_armed
    /\ alloc' = [alloc EXCEPT ![t] = [Quiet EXCEPT !.at = "check", !.size = size]]
    /\ UNCHANGED <<rigid, serverVars, brk_lock, umem_introspect_break_armed, predicate,
                   leakVars, brk_generation, brk_stopped, asleep, sent>>

Match(size) ==
    CASE brk_kind = "SIZE" -> size = brk_size
      [] brk_kind = "SEQ" -> brk_seq_counter + 1 = brk_seq
      [] brk_kind = "LEAKED" -> size \in leaksigs
      [] OTHER -> FALSE

\* Past its target the 64-bit counter matches no more; the bound is one past it.
Capped(n) == IF n > brk_seq THEN brk_seq + 1 ELSE n

BreakCheck(t) ==
    LET matches == umem_introspect_break_armed /\ Match(alloc[t].size) IN
    /\ alloc[t].at = "check" /\ ~ brk_lock
    /\ brk_seq_counter' = IF umem_introspect_break_armed /\ brk_kind = "SEQ"
                          THEN Capped(brk_seq_counter + 1) ELSE brk_seq_counter
    /\ IF matches
       THEN /\ alloc' = [alloc EXCEPT ![t].at = "stopped",
                            ![t].gen = brk_generation, ![t].kind = brk_kind]
            /\ brk_stopped' = brk_stopped + 1
            /\ asleep' = asleep \union {t}
       ELSE /\ alloc' = [alloc EXCEPT ![t] = Quiet]
            /\ UNCHANGED <<brk_stopped, asleep>>
    /\ UNCHANGED <<rigid, serverVars, brk_lock, umem_introspect_break_armed, brk_kind,
                   brk_size, brk_seq, leakVars, brk_generation, sent>>

Wakes(t) ==
    /\ alloc[t].at = "stopped" /\ t \notin asleep /\ ~ brk_lock
    /\ IF brk_generation = alloc[t].gen
       THEN asleep' = asleep \union {t} /\ UNCHANGED <<alloc, brk_stopped>>
       ELSE /\ alloc' = [alloc EXCEPT ![t] = Quiet]
            /\ brk_stopped' = brk_stopped - 1
            /\ UNCHANGED asleep
    /\ UNCHANGED <<rigid, serverVars, brk_lock, umem_introspect_break_armed, predicate,
                   leakVars, brk_generation, sent>>

-----------------------------------------------------------------------------
(* fork() by thread t, which alone lives on: umem_introspect_fork_child.   *)

ChildDisarms == umem_introspect_break_armed' = FALSE /\ brk_kind' = "NONE"

Fork(t) ==
    /\ ~ child /\ brk_config.fork /\ alloc[t].at = "idle"
    /\ child' = TRUE
    /\ brk_lock' = FALSE
    /\ ChildDisarms
    /\ freed_dead' = (brk_leakset # NULL /\ brk_leakset \notin blocks)
    /\ FreeLeakset
    /\ brk_generation' = 0 /\ brk_seq_counter' = 0 /\ brk_stopped' = 0
    /\ brk_server_valid' = FALSE /\ server' = "none" /\ introspect_once' = FALSE
    /\ alloc' = [u \in Threads |-> IF u = t THEN alloc[u]
                                   ELSE [Quiet EXCEPT !.at = "lost"]]
    /\ asleep' = {}
    /\ UNCHANGED <<brk_config, brk_size, brk_seq, sent>>

Stopped == (sent = COMMANDS \/ server = "gone") /\ UNCHANGED brkVars

Next ==
    \/ Start \/ Accept \/ AcceptFails \/ Disconnect \/ Logtail
    \/ \E path, bound \in BOOLEAN : Listen(path, bound)
    \/ \E s \in Sizes : CmdBreak("SIZE", s, 0)
    \/ \E n \in {1, 2} : CmdBreak("SEQ", 0, n)
    \/ CmdBreak("LEAKED", 0, 0)
    \/ CmdContinue \/ SigRealloc
    \/ \E s \in Sizes : SigStore(s)
    \/ \E t \in Threads :
          \/ \E s \in Sizes : Allocate(t, s)
          \/ BreakCheck(t) \/ Wakes(t) \/ Fork(t)
    \/ Stopped

Spec == Init /\ [][Next]_brkVars

-----------------------------------------------------------------------------
\* brk_stopped counts the stopped threads; a thread sleeps only for the predicate
\* that is armed now, so that the next "continue" or re-arm wakes it; and where no
\* server was started, as in a new child, nothing is armed (B1, B3, B5).
BreakSound ==
    /\ brk_stopped = Cardinality({ t \in Threads : alloc[t].at = "stopped" })
    /\ \A t \in asleep :
          /\ alloc[t].gen = brk_generation /\ alloc[t].kind = brk_kind
          /\ umem_introspect_break_armed
    /\ server \in {"none", "starting"} => ~ umem_introspect_break_armed

\* A thread that sleeps can be resumed: the server that takes "continue" is there.
Resumable == asleep # {} => server \in {"accept", "client", "logtail"}

\* The child frees the leak set it inherits, a block that malloc still has out.
ChildFreesLive == ~ freed_dead
=============================================================================
