------------------------------- MODULE Buftag --------------------------------
(***************************************************************************)
(* The checks of a debugged cache (umem.c: umem_cache_alloc_debug,         *)
(* umem_cache_free_debug, umem_free_redzone_ok, umem_error).  A buffer is  *)
(* followed by its tag: the redzone, in two halves, the pointer to its     *)
(* bufctl, and that pointer XORed with the buffer's state.                 *)
(*                                                                         *)
(* Threads allocate and free through umem_alloc() or umem_cache_alloc(),   *)
(* and now and then a program is wrong: it writes past the end of its      *)
(* buffer or to one it freed, frees it twice, with the wrong size, or      *)
(* frees an address that is not a buffer.                                  *)
(***************************************************************************)
EXTENDS Naturals, SequencesExt, FiniteSets

CONSTANTS
    Threads, Buffers,
    BUFSIZE,                \* words of a buffer, cells 0 .. BUFSIZE - 1
    MISUSES,                \* how often the program is wrong
    BUFTAG_CONFIGS          \* the caches: [verify, hash, fails, umem_abort]

VARIABLES
    buftag_config,
    mem,                    \* buffer -> cell -> its value
    magazine, freelist,     \* where free buffers are: in order; in the slabs
    held,                   \* buffer -> what the program knows of it, or NotHeld
    lost,                   \* buffers a report took out of circulation
    umem_logging,
    reporting,              \* thread -> its umem_error(), or Silent
    wrong,                  \* buffer -> what the program did wrong with it
    buftag_aborted,
    misuses

buftagVars == <<buftag_config, mem, magazine, freelist, held, lost, umem_logging, reporting,
                wrong, buftag_aborted, misuses>>

\* The cells of the tag.
Redzone0 == BUFSIZE
Redzone1 == BUFSIZE + 1
Bufctl == BUFSIZE + 2
Bxstat == BUFSIZE + 3
Cells == 0..Bxstat

\* Values of cells; an encoded size is the size itself.
UMEM_FREE_PATTERN == 101
UMEM_UNINITIALIZED_PATTERN == 102
UMEM_REDZONE_PATTERN == 103
UMEM_REDZONE_BYTE == 104
Data == 105
Smashed == 106
Link == 107                 \* of the slab's free list
UMEM_BUFTAG_ALLOC == 108
UMEM_BUFTAG_FREE == 109
Bcp == 110
UMEM_SIZE_ENCODE(size) == size
UMEM_SIZE_VALID(v) == v <= BUFSIZE

NotHeld == [by |-> "nobody", size |-> 0]
Silent == [error |-> "none"]
Verified == 0..(buftag_config.verify - 1)

copy_pattern(m, pattern) == [c \in Cells |-> IF c \in Verified THEN pattern ELSE m[c]]
verify_pattern(m, pattern) == \A c \in Verified : m[c] = pattern

\* umem_slab_create() and umem_slab_free(): without a hash table the bufctl is
\* where the redzone is.
InSlab(m) == IF buftag_config.hash THEN m
             ELSE [m EXCEPT ![Redzone0] = Link, ![Redzone1] = Link]

InitBuftag ==
    /\ buftag_config \in BUFTAG_CONFIGS
    /\ mem = [b \in Buffers |-> InSlab(copy_pattern(
                 [c \in Cells |-> CASE c < BUFSIZE -> Data
                                    [] c \in {Redzone0, Redzone1} -> UMEM_REDZONE_PATTERN
                                    [] c = Bufctl -> Bcp
                                    [] c = Bxstat -> UMEM_BUFTAG_FREE], UMEM_FREE_PATTERN))]
    /\ magazine = <<>> /\ freelist = Buffers
    /\ held = [b \in Buffers |-> NotHeld]
    /\ lost = {} /\ umem_logging = TRUE
    /\ reporting = [t \in Threads |-> Silent]
    /\ wrong = [b \in Buffers |-> {}]
    /\ buftag_aborted = FALSE /\ misuses = 0

Idle(t) == reporting[t] = Silent /\ ~buftag_aborted

-----------------------------------------------------------------------------
(* umem_error(): logging is stopped while it works out what the buffer is  *)
(* and reports; then the process aborts, or goes on.                       *)

\* Where an address is: a buffer, inside one, in another cache, or nowhere.
\* (A bufctl of its own is found through the hash table, so its pointer in the
\* tag is not needed.)
umem_error(error, where) ==
    CASE where = "nowhere" -> "BADADDR"
      [] where = "cache" -> "BADCACHE"
      [] where = "inside" -> "BADBASE"
      [] where = "buffer" -> error

Report(t, error, b, where) ==
    /\ reporting' = [reporting EXCEPT ![t] =
          [error |-> umem_error(error, where), buf |-> b, old_logging |-> umem_logging]]
    /\ umem_logging' = FALSE

ReportEnd(t) ==
    /\ reporting[t] # Silent /\ ~buftag_aborted
    /\ IF buftag_config.umem_abort
       THEN buftag_aborted' = TRUE /\ UNCHANGED <<umem_logging, reporting>>
       ELSE /\ umem_logging' = reporting[t].old_logging
            /\ reporting' = [reporting EXCEPT ![t] = Silent]
            /\ UNCHANGED buftag_aborted
    /\ UNCHANGED <<buftag_config, mem, magazine, freelist, held, lost, wrong, misuses>>

-----------------------------------------------------------------------------
(* Allocation.                                                             *)

BxstatIs(m, stat) == m[Bufctl] = Bcp /\ m[Bxstat] = stat
FreeIntact(m) == verify_pattern(m, UMEM_FREE_PATTERN)

\* What alloc_debug leaves in the buffer it hands out, and what _umem_alloc()
\* and _umem_zalloc() add for a request of that size.
Handed(m) == [copy_pattern(m, UMEM_UNINITIALIZED_PATTERN) EXCEPT
                ![Bxstat] = UMEM_BUFTAG_ALLOC,
                ![Redzone0] = UMEM_REDZONE_PATTERN, ![Redzone1] = UMEM_REDZONE_PATTERN]
Sized(m, size) == [m EXCEPT ![size] = UMEM_REDZONE_BYTE, ![Redzone1] = UMEM_SIZE_ENCODE(size)]
Zeroed(m, size) == [c \in Cells |-> IF c < size THEN Data ELSE m[c]]

\* A free buffer, from the magazine before the slabs.
Take(b) ==
    IF magazine # <<>>
    THEN b = Last(magazine) /\ magazine' = Front(magazine) /\ UNCHANGED freelist
    ELSE b \in freelist /\ freelist' = freelist \ {b} /\ UNCHANGED magazine

umem_cache_alloc_debug(t, b, m) ==
    \/ /\ ~BxstatIs(mem[b], UMEM_BUFTAG_FREE)
       /\ Report(t, "BADBUFTAG", b, "buffer")
       /\ Take(b) /\ lost' = lost \cup {b}
       /\ UNCHANGED <<mem, held>>
    \/ /\ BxstatIs(mem[b], UMEM_BUFTAG_FREE) /\ ~FreeIntact(mem[b])
       /\ Report(t, "MODIFIED", b, "buffer")
       /\ Take(b) /\ lost' = lost \cup {b}
       /\ UNCHANGED <<mem, held>>
    \/ /\ BxstatIs(mem[b], UMEM_BUFTAG_FREE) /\ FreeIntact(mem[b])
       /\ Take(b)
       /\ mem' = [mem EXCEPT ![b] = m]
       /\ UNCHANGED <<lost, umem_logging, reporting>>

\* An allocation of a size, or of an object of the cache (size 0).
Alloc(t) ==
    /\ Idle(t)
    /\ \E b \in Buffers, size \in 0..BUFSIZE, zero \in BOOLEAN :
          /\ zero => size # 0
          /\ LET m == IF size = 0 THEN Handed(mem[b]) ELSE Sized(Handed(mem[b]), size)
             IN umem_cache_alloc_debug(t, b, IF zero THEN Zeroed(m, size) ELSE m)
          /\ held' = IF lost' = lost THEN [held EXCEPT ![b] = [by |-> t, size |-> size]]
                     ELSE held
    /\ UNCHANGED <<buftag_config, wrong, buftag_aborted, misuses>>

\* The constructor fails, or umem_mtbf says so: the buffer goes back.
AllocFails(t) ==
    /\ Idle(t) /\ buftag_config.fails
    /\ \E b \in Buffers :
          /\ BxstatIs(mem[b], UMEM_BUFTAG_FREE) /\ FreeIntact(mem[b])
          /\ \/ /\ magazine # <<>> /\ b = Last(magazine) /\ magazine' = Front(magazine)
                /\ freelist' = freelist \cup {b}
             \/ magazine = <<>> /\ b \in freelist /\ UNCHANGED <<magazine, freelist>>
          /\ mem' = [mem EXCEPT ![b] = InSlab(
                [copy_pattern(Handed(@), UMEM_FREE_PATTERN) EXCEPT ![Bxstat] = UMEM_BUFTAG_FREE])]
    /\ UNCHANGED <<buftag_config, held, lost, umem_logging, reporting, wrong, buftag_aborted,
                   misuses>>

-----------------------------------------------------------------------------
(* Free.                                                                   *)

\* umem_free_redzone_ok(): what it reports, or "none".
RedzoneByteThere(m, size) == m[size] = UMEM_REDZONE_BYTE
umem_free_redzone_ok(m, size) ==
    IF m[Redzone1] # UMEM_SIZE_ENCODE(size)
    THEN IF m[0] = UMEM_FREE_PATTERN THEN "DUPFREE"
         ELSE IF UMEM_SIZE_VALID(m[Redzone1]) THEN "BADSIZE" ELSE "REDZONE"
    ELSE IF ~RedzoneByteThere(m, size) THEN "REDZONE" ELSE "none"
Marked(m) == [m EXCEPT ![Redzone0] = UMEM_REDZONE_PATTERN, ![Redzone1] = UMEM_REDZONE_PATTERN]

\* umem_cache_free_debug(): what it reports, or "none", and the buffer after.
umem_cache_free_debug(m) ==
    IF ~BxstatIs(m, UMEM_BUFTAG_ALLOC)
    THEN IF BxstatIs(m, UMEM_BUFTAG_FREE) THEN "DUPFREE" ELSE "REDZONE"
    ELSE IF m[Redzone0] # UMEM_REDZONE_PATTERN \/ m[Redzone1] # UMEM_REDZONE_PATTERN
    THEN "REDZONE" ELSE "none"
Freed(m) == [copy_pattern(m, UMEM_FREE_PATTERN) EXCEPT ![Bxstat] = UMEM_BUFTAG_FREE]

\* _umem_free() with a size, or _umem_cache_free() (size 0): the verdict.
Verdict(m, size) ==
    IF size # 0 /\ umem_free_redzone_ok(m, size) # "none" THEN umem_free_redzone_ok(m, size)
    ELSE umem_cache_free_debug(IF size = 0 THEN m ELSE Marked(m))

\* The buffer goes to the magazine, or straight to its slab.
_umem_free(t, b, size) ==
    LET m == IF size = 0 THEN mem[b] ELSE Marked(mem[b])
        verdict == Verdict(mem[b], size)
    IN IF verdict # "none"
       THEN /\ Report(t, verdict, b, "buffer")
            /\ lost' = IF held[b].by = t THEN lost \cup {b} ELSE lost
            /\ UNCHANGED <<mem, magazine, freelist>>
       ELSE /\ \/ magazine' = Append(magazine, b) /\ mem' = [mem EXCEPT ![b] = Freed(m)]
                  /\ UNCHANGED freelist
               \/ freelist' = freelist \cup {b} /\ mem' = [mem EXCEPT ![b] = InSlab(Freed(m))]
                  /\ UNCHANGED magazine
            /\ UNCHANGED <<lost, umem_logging, reporting>>

Free(t) ==
    /\ Idle(t)
    /\ \E b \in {c \in Buffers : held[c].by = t} :
          /\ _umem_free(t, b, held[b].size)
          /\ held' = [held EXCEPT ![b] = NotHeld]
    /\ UNCHANGED <<buftag_config, wrong, buftag_aborted, misuses>>

-----------------------------------------------------------------------------
(* The program is wrong.                                                   *)

Misuse(b, what) ==
    /\ misuses < MISUSES
    /\ misuses' = misuses + 1
    /\ wrong' = [wrong EXCEPT ![b] = @ \cup {what}]

\* It writes n words past the end of its buffer.
Overrun(t) ==
    /\ Idle(t)
    /\ \E b \in {c \in Buffers : held[c].by = t}, n \in 1..Cardinality(Cells) :
          LET end == IF held[b].size = 0 THEN BUFSIZE ELSE held[b].size
          IN /\ end + n <= Cardinality(Cells)
             /\ mem' = [mem EXCEPT ![b] =
                   [c \in Cells |-> IF c \in end..(end + n - 1) THEN Smashed ELSE @[c]]]
             /\ Misuse(b, "overrun")
    /\ UNCHANGED <<buftag_config, magazine, freelist, held, lost, umem_logging, reporting,
                   buftag_aborted>>

\* It writes to a buffer that it has freed.
WriteAfterFree(t) ==
    /\ Idle(t)
    /\ \E b \in freelist \cup ToSet(magazine), c \in 0..(BUFSIZE - 1) :
          /\ mem' = [mem EXCEPT ![b][c] = Smashed]
          /\ Misuse(b, IF c \in Verified THEN "written" ELSE "written unseen")
    /\ UNCHANGED <<buftag_config, magazine, freelist, held, lost, umem_logging, reporting,
                   buftag_aborted>>

\* It frees a buffer that is free, or its own with another size.
FreeAgain(t) ==
    /\ Idle(t)
    /\ \E b \in freelist \cup ToSet(magazine), size \in 0..BUFSIZE :
          _umem_free(t, b, size) /\ Misuse(b, "freed twice")
    /\ UNCHANGED <<buftag_config, held, buftag_aborted>>

FreeOtherSize(t) ==
    /\ Idle(t)
    /\ \E b \in {c \in Buffers : held[c].by = t /\ held[c].size # 0}, size \in 1..BUFSIZE :
          /\ size # held[b].size
          /\ _umem_free(t, b, size) /\ Misuse(b, "other size")
          /\ held' = [held EXCEPT ![b] = NotHeld]
    /\ UNCHANGED <<buftag_config, buftag_aborted>>

\* It frees an address that is not a buffer of the cache: what is found where
\* the tag would be is not a tag.
FreeElsewhere(t) ==
    /\ Idle(t)
    /\ \E b \in Buffers, where \in {"nowhere", "cache", "inside"},
          error \in {"DUPFREE", "BADSIZE", "REDZONE"} :
          Report(t, error, b, where) /\ Misuse(b, where)
    /\ UNCHANGED <<buftag_config, mem, magazine, freelist, held, lost, buftag_aborted>>

Aborted == buftag_aborted /\ UNCHANGED buftagVars

Init == InitBuftag
Next == \/ \E t \in Threads :
              \/ Alloc(t) \/ AllocFails(t) \/ Free(t) \/ ReportEnd(t)
              \/ Overrun(t) \/ WriteAfterFree(t) \/ FreeAgain(t) \/ FreeOtherSize(t)
              \/ FreeElsewhere(t)
        \/ Aborted
        \/ lost = Buffers /\ UNCHANGED buftagVars
Spec == Init /\ [][Next]_buftagVars

-----------------------------------------------------------------------------
(* Properties.                                                             *)

\* What each mistake may be reported as.
Errors(what) ==
    CASE what = "overrun" -> {"REDZONE", "BADBUFTAG", "DUPFREE", "BADSIZE"}
      [] what = "written" -> {"MODIFIED", "REDZONE"}
      [] what = "written unseen" -> {"REDZONE"}
      [] what = "freed twice" -> {"DUPFREE", "REDZONE", "BADSIZE"}
      [] what = "other size" -> {"BADSIZE"}
      [] what = "nowhere" -> {"BADADDR"}
      [] what = "cache" -> {"BADCACHE"}
      [] what = "inside" -> {"BADBASE"}

\* The reports are true and nothing is missed.  A report names a buffer that
\* the program misused, in a way that explains the error: no sequence of
\* correct calls, failed constructors and trips through magazine and slab
\* (which overwrite the redzone of a cache without a hash table) makes
\* umem_cache_alloc_debug() or umem_cache_free_debug() report.  A buffer
\* overrun while it was held is not accepted by free, one written while free is
\* not handed out, and whatever is freed twice or with a wrong size, no buffer
\* is ever in two places.
TagSound ==
    /\ \A t \in Threads : reporting[t] # Silent =>
          \E what \in wrong[reporting[t].buf] : reporting[t].error \in Errors(what)
    /\ \A b \in freelist \cup ToSet(magazine) : "overrun" \notin wrong[b]
    /\ \A b \in Buffers : held[b] # NotHeld => "written" \notin wrong[b]
    /\ IsInjective(magazine)
    /\ LET places == <<freelist, ToSet(magazine), lost, {b \in Buffers : held[b] # NotHeld}>>
       IN \A i, j \in 1..4 : i # j => places[i] \cap places[j] = {}

\* Logging resumes when no report is being made (umem_error: "resume logging").
LoggingResumed ==
    (\A t \in Threads : reporting[t] = Silent) => umem_logging

=============================================================================
