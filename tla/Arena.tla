-------------------------------- MODULE Arena --------------------------------
(***************************************************************************)
(* The bump allocator (umem_arena.c): one mapping, blocks cut from it in   *)
(* order, all given up at once by a reset.  Sizes are unsigned words of    *)
(* SIZE_MAX + 1 values.                                                    *)
(***************************************************************************)
EXTENDS Naturals, FiniteSets

CONSTANTS
    SIZE_MAX, ARENA_PAGE, ARENA_ALIGN,
    ARENA_CAPACITIES, ARENA_SIZES

VARIABLES
    arena,                  \* [capacity, offset], or NoArena
    blocks_out,             \* blocks given out since the last reset: [at, size]
    refused                 \* the size last refused, and the room there was; or 0

arenaVars == <<arena, blocks_out, refused>>

NoArena == [capacity |-> 0, offset |-> 0]
Word(n) == n % (SIZE_MAX + 1)
Round(sz, unit) == (Word(sz + unit - 1) \div unit) * unit
NotRefused == [size |-> 0, room |-> 0]

\* 0 when rounding would wrap.
arena_page_round(sz) == IF sz > SIZE_MAX - (ARENA_PAGE - 1) THEN 0 ELSE Round(sz, ARENA_PAGE)

Init == arena = NoArena /\ blocks_out = {} /\ refused = NotRefused

\* The header or the mapping may not be had: the arena is not made.
umem_arena_create(capacity) ==
    /\ arena = NoArena /\ capacity # 0
    /\ arena' = IF arena_page_round(capacity) = 0 THEN NoArena
                ELSE [capacity |-> arena_page_round(capacity), offset |-> 0]
    /\ UNCHANGED <<blocks_out, refused>>

RoomBySum(aligned) == Word(arena.offset + aligned) <= arena.capacity
Room(aligned) == aligned <= arena.capacity - arena.offset
umem_arena_alloc(size) ==
    LET aligned == Round(size, ARENA_ALIGN)
    IN /\ arena # NoArena /\ size # 0
       /\ IF size > SIZE_MAX - (ARENA_ALIGN - 1) \/ ~Room(aligned)
          THEN /\ refused' = [size |-> size, room |-> arena.capacity - arena.offset]
               /\ UNCHANGED <<arena, blocks_out>>
          ELSE /\ blocks_out' = blocks_out \cup {[at |-> arena.offset, size |-> size]}
               /\ arena' = [arena EXCEPT !.offset = Word(@ + aligned)]
               /\ UNCHANGED refused

umem_arena_reset ==
    /\ arena # NoArena
    /\ arena' = [arena EXCEPT !.offset = 0] /\ blocks_out' = {} /\ refused' = NotRefused

umem_arena_destroy ==
    /\ arena # NoArena
    /\ arena' = NoArena /\ blocks_out' = {} /\ refused' = NotRefused

Next == \/ \E c \in ARENA_CAPACITIES : umem_arena_create(c)
        \/ \E s \in ARENA_SIZES : umem_arena_alloc(s)
        \/ umem_arena_reset \/ umem_arena_destroy
Spec == Init /\ [][Next]_arenaVars

-----------------------------------------------------------------------------
(* Properties.                                                             *)

\* However close to SIZE_MAX a request is, the blocks are aligned, inside the
\* mapping and apart; and only a request that does not fit is refused.
ArenaSound ==
    /\ arena.offset <= arena.capacity
    /\ \A b \in blocks_out : /\ b.at % ARENA_ALIGN = 0
                             /\ b.at + b.size <= arena.offset
    /\ \A b, c \in blocks_out : b # c => b.at + b.size <= c.at \/ c.at + c.size <= b.at
    /\ refused # NotRefused => refused.size > refused.room

=============================================================================
