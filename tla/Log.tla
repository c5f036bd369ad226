--------------------------------- MODULE Log ---------------------------------
(***************************************************************************)
(* The transaction log (umem.c: umem_log_init, umem_log_enter, UMEM_AUDIT; *)
(* umem_inspect.c: collect_log, umem_log_dump).  A log is cut in chunks.   *)
(* Each CPU fills a chunk of its own under clh_lock; a full chunk goes to  *)
(* the tail of a ring and the CPU takes the one at the head, under         *)
(* lh_lock.  The dump holds lh_lock, but not the locks of the CPUs.        *)
(***************************************************************************)
EXTENDS Naturals, SequencesExt, FiniteSetsExt

CONSTANTS
    Threads,
    CPUS,                   \* umem_max_ncpus
    PER_CPU,                \* chunks per CPU
    CHUNK,                  \* words in a chunk
    RECORDS,                \* how many records are entered
    SHOWN,                  \* max_records of the dump, 0 for all
    LOG_CONFIGS             \* [size]: words in a record

VARIABLES
    log_config,
    lh_base,                \* chunk -> slot -> record, or Blank
    lh_free, lh_head, lh_tail, lh_lock,
    clh,                    \* CPU -> [chunk, current, avail]
    clh_lock,               \* CPU -> thread, or Nobody
    entry,                  \* thread -> its umem_log_enter(), or NotIn
    retired,                \* chunk -> when it was last put on the ring
    turns,                  \* how often a chunk was put on the ring
    now,                    \* gethrtime()
    dump                    \* the dump: [at, seen, due], and what it showed last

logVars == <<log_config, lh_base, lh_free, lh_head, lh_tail, lh_lock, clh, clh_lock, entry,
             retired, turns, now, dump>>

CPUs == 0..(CPUS - 1)
lh_nchunks == PER_CPU * CPUS
Chunks == 0..(lh_nchunks - 1)
Nobody == "nobody"
Blank == [time |-> 0, whole |-> TRUE]
NotIn == [at |-> "out"]
NoChunk == lh_nchunks       \* lh_free[] is not initialised where no chunk is
NoDump == [at |-> "idle", seen |-> <<>>, due |-> {}, shown |-> <<>>]

\* Slots: where a record of this size may start.
Slots == {o \in 0..(CHUNK - 1) : o % Min({log_config.size, CHUNK}) = 0
                                 /\ o + Min({log_config.size, CHUNK}) <= CHUNK}

\* umem_log_init().
InitLog ==
    /\ log_config \in LOG_CONFIGS
    /\ lh_base = [c \in Chunks |-> [o \in Slots |-> Blank]]
    /\ lh_free = [i \in Chunks |-> IF i < CPUS THEN NoChunk ELSE i]
    /\ lh_head = CPUS /\ lh_tail = 0 /\ lh_lock = Nobody
    /\ clh = [p \in CPUs |-> [chunk |-> p, current |-> 0, avail |-> 0]]
    /\ clh_lock = [p \in CPUs |-> Nobody]
    /\ entry = [t \in Threads |-> NotIn]
    /\ retired = [c \in Chunks |-> 0] /\ turns = 0 /\ now = 0
    /\ dump = NoDump

-----------------------------------------------------------------------------
(* UMEM_AUDIT(): a timestamp, then umem_log_enter().                       *)

Audit(t) ==
    /\ entry[t] = NotIn /\ now < RECORDS
    /\ now' = now + 1
    /\ \E p \in CPUs : entry' = [entry EXCEPT ![t] = [at |-> "enter", cpu |-> p, time |-> now + 1]]
    /\ UNCHANGED <<log_config, lh_base, lh_free, lh_head, lh_tail, lh_lock, clh, clh_lock,
                   retired, turns, dump>>

LockCpu(t) ==
    /\ entry[t].at = "enter" /\ clh_lock[entry[t].cpu] = Nobody
    /\ clh_lock' = [clh_lock EXCEPT ![entry[t].cpu] = t]
    /\ entry' = [entry EXCEPT ![t].at =
          IF log_config.size > clh[entry[t].cpu].avail THEN "rotate" ELSE "copy"]
    /\ UNCHANGED <<log_config, lh_base, lh_free, lh_head, lh_tail, lh_lock, clh, retired, turns,
                   now, dump>>

\* The CPU's chunk to the tail of the ring, the one at the head to the CPU.
Ring(chunk) == [lh_free EXCEPT ![lh_tail] = chunk]
Rotate(t) ==
    LET p == entry[t].cpu
    IN /\ entry[t].at = "rotate" /\ lh_lock = Nobody
       /\ lh_free' = Ring(clh[p].chunk)
       /\ lh_tail' = (lh_tail + 1) % lh_nchunks
       /\ clh' = [clh EXCEPT ![p] = [chunk |-> lh_free'[lh_head], current |-> 0, avail |-> CHUNK]]
       /\ lh_head' = (lh_head + 1) % lh_nchunks
       /\ turns' = turns + 1
       /\ retired' = [retired EXCEPT ![clh[p].chunk] = turns + 1]
       /\ entry' = [entry EXCEPT ![t].at = "copy"]
       /\ UNCHANGED <<log_config, lh_base, lh_lock, clh_lock, now, dump>>

\* A record larger than a chunk is cut; the space is taken, then filled: until
\* that is done it may still have the timestamp of what was there.
Copy(t) ==
    LET p == entry[t].cpu
        size == Min({log_config.size, CHUNK})
    IN /\ entry[t].at = "copy"
       /\ clh' = [clh EXCEPT ![p].current = @ + size, ![p].avail = @ - size]
       /\ \E time \in {lh_base[clh[p].chunk][clh[p].current].time, entry[t].time} :
             lh_base' = [lh_base EXCEPT ![clh[p].chunk][clh[p].current] =
                            [time |-> time, whole |-> FALSE]]
       /\ entry' = [entry EXCEPT ![t] = [at |-> "copied", cpu |-> p, time |-> @.time,
                                         chunk |-> clh[p].chunk, slot |-> clh[p].current]]
       /\ UNCHANGED <<log_config, lh_free, lh_head, lh_tail, lh_lock, clh_lock, retired, turns,
                      now, dump>>

Copied(t) ==
    LET e == entry[t]
    IN /\ e.at = "copied"
       /\ lh_base' = [lh_base EXCEPT ![e.chunk][e.slot] =
                                         [time |-> e.time, whole |-> TRUE]]
       /\ clh_lock' = [clh_lock EXCEPT ![e.cpu] = Nobody]
       /\ entry' = [entry EXCEPT ![t] = NotIn]
       /\ UNCHANGED <<log_config, lh_free, lh_head, lh_tail, lh_lock, clh, retired, turns, now,
                      dump>>

-----------------------------------------------------------------------------
(* umem_log_dump(): collect_log() under lh_lock, then sort and show.       *)

\* The finished records that no CPU is about to write over.
Ahead(c, o) == \E p \in CPUs : clh[p].chunk = c /\ o >= clh[p].current /\ clh[p].avail > 0
Finished == {lh_base[x[1]][x[2]].time :
                x \in {y \in Chunks \X Slots : /\ lh_base[y[1]][y[2]] # Blank
                                               /\ lh_base[y[1]][y[2]].whole
                                               /\ ~Ahead(y[1], y[2])}}

DumpStart ==
    /\ dump.at = "idle" /\ lh_lock = Nobody
    /\ log_config.size <= CHUNK
    /\ lh_lock' = "dump"
    /\ dump' = [at |-> "collect", seen |-> <<>>, due |-> Finished, shown |-> <<>>]
    /\ UNCHANGED <<log_config, lh_base, lh_free, lh_head, lh_tail, clh, clh_lock, entry, retired,
                   turns, now>>

\* collect_log() reads a chunk at a time; a record not written yet is skipped.
Order == SetToSortSeq(Slots, <)
InChunk(c) == SelectSeq([i \in DOMAIN Order |-> lh_base[c][Order[i]]], LAMBDA r : r.time # 0)
collect_log ==
    /\ dump.at = "collect" /\ lh_lock = "dump"
    /\ LET c == Len(dump.seen)
       IN /\ dump' = [dump EXCEPT !.seen = Append(@, InChunk(c)),
                                  !.at = IF c = lh_nchunks - 1 THEN "sort" ELSE @]
          /\ lh_lock' = IF c = lh_nchunks - 1 THEN Nobody ELSE lh_lock
    /\ UNCHANGED <<log_config, lh_base, lh_free, lh_head, lh_tail, clh, clh_lock, entry, retired,
                   turns, now>>

log_compare(a, b) == a.time < b.time
LastOf(s) == IF SHOWN # 0 /\ Len(s) > SHOWN THEN SubSeq(s, Len(s) - SHOWN + 1, Len(s)) ELSE s
Sort(s) == SortSeq(s, log_compare)
umem_log_dump ==
    /\ dump.at = "sort"
    /\ dump' = [dump EXCEPT !.at = "shown", !.shown = LastOf(Sort(FlattenSeq(dump.seen)))]
    /\ UNCHANGED <<log_config, lh_base, lh_free, lh_head, lh_tail, lh_lock, clh, clh_lock, entry,
                   retired, turns, now>>

DumpEnd ==
    /\ dump.at = "shown"
    /\ dump' = NoDump
    /\ UNCHANGED <<log_config, lh_base, lh_free, lh_head, lh_tail, lh_lock, clh, clh_lock, entry,
                   retired, turns, now>>

Written == now = RECORDS /\ (\A t \in Threads : entry[t] = NotIn) /\ UNCHANGED logVars

Init == InitLog
Next == \/ \E t \in Threads : Audit(t) \/ LockCpu(t) \/ Rotate(t) \/ Copy(t) \/ Copied(t)
        \/ DumpStart \/ collect_log \/ umem_log_dump \/ DumpEnd
        \/ Written
Spec == Init /\ [][Next]_logVars

-----------------------------------------------------------------------------
(* Properties.                                                             *)

\* The ring from its head on.
OnRing == [i \in 1..(lh_nchunks - CPUS) |-> lh_free[(lh_head + i - 1) % lh_nchunks]]

\* The log keeps what it should.  Every chunk belongs to one CPU or is on the
\* ring once, although lh_free[] starts half initialised; the ring is in the
\* order in which chunks were retired, so umem_log_enter() always writes over
\* the oldest one; a writer stays in the chunk of its CPU.  A dump shows, in
\* the order of their timestamps, the newest of the records it found, and
\* misses none that was finished when it began: rotation waits for lh_lock
\* while collect_log() reads.
LogSound ==
    /\ IsInjective(OnRing) /\ IsInjective([p \in 1..CPUS |-> clh[p - 1].chunk])
    /\ ToSet(OnRing) \cup {clh[p].chunk : p \in CPUs} = Chunks
    /\ \A i \in 1..(Len(OnRing) - 1) : retired[OnRing[i]] <= retired[OnRing[i + 1]]
    /\ \A t \in Threads : entry[t].at = "copied" =>
          clh[entry[t].cpu].chunk = entry[t].chunk /\ entry[t].slot < CHUNK
    /\ dump.at = "shown" =>
          LET times == [i \in DOMAIN dump.shown |-> dump.shown[i].time]
              all == FlattenSeq(dump.seen)
              found == {r.time : r \in ToSet(all)}
          IN /\ \A i \in 1..(Len(times) - 1) : times[i] <= times[i + 1]
             /\ dump.due \subseteq found
             /\ \A f \in found \ ToSet(times) : \A k \in ToSet(times) : f < k
             /\ Len(times) = IF SHOWN = 0 THEN Len(all) ELSE Min({SHOWN, Len(all)})

\* umem_walk_log() goes "in chronological order" (umem_inspect.h).
WalkChronological ==
    dump.at = "sort" =>
       LET walk == FlattenSeq(dump.seen)
       IN \A i \in 1..(Len(walk) - 1) : walk[i].time <= walk[i + 1].time

=============================================================================
