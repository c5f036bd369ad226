------------------------------ MODULE Profile ------------------------------
(***************************************************************************)
(* Allocation profiles (umem_profile.c).  A first process records: its     *)
(* update thread samples the caches, finds phases, and writes the profile  *)
(* when every cache is steady or at exit; it may be killed at any moment.  *)
(* A second process replays what is in the file: it matches its rates      *)
(* against the phases and allocates ahead for the next one, by the         *)
(* POSITION of the caches on the list when the profile was loaded, while   *)
(* the application creates and destroys caches of its own.                 *)
(*                                                                         *)
(* A rate is one of Rates.  The file is a sequence of blocks, one for each *)
(* write(2).  The exiting thread and the update thread are not in the      *)
(* profiler at the same time.                                              *)
(***************************************************************************)
EXTENDS Naturals, FiniteSets, SequencesExt, FiniteSetsExt

CONSTANTS
    Builtin,           \* sequence: the caches that exist when umem_init ends
    AppCaches,         \* names the application gives its caches
    UMP_MAX_CACHES, UMP_MAX_PHASES, UMP_STEADY_INTERVALS,
    SAMPLES            \* bound on the samples of each process

Rates == {0, 1, 3}

VARIABLES
    mode,              \* RECORD, USE or OFF; EXITED between the two processes
    list,              \* umem_null_cache's list, by name
    cache_names, rate, stable_intervals,     \* tracked caches; last rate; calm samples
    phases, profile_written,
    out, exiting,      \* blocks still to be written; umem_profile_fini runs
    file,
    loaded_caches, loaded_phases, cache_to_profile_idx, current_phase_idx, converged,
    cp, walk_idx,      \* the cache allocated from with umem_cache_lock dropped
    samples

recording == <<cache_names, rate, stable_intervals, phases, profile_written>>
replaying == <<loaded_caches, loaded_phases, cache_to_profile_idx,
               current_phase_idx, converged, cp, walk_idx>>
profileVars == <<mode, list, recording, out, exiting, file, replaying, samples>>

NoCache == "none"
Names == ToSet(Builtin) \cup AppCaches

Init ==
    /\ mode = "RECORD" /\ list = Builtin
    /\ cache_names = <<>> /\ rate = [n \in Names |-> 0]
    /\ stable_intervals = [n \in Names |-> 0]
    /\ phases = <<>> /\ profile_written = FALSE
    /\ out = <<>> /\ exiting = FALSE /\ file = <<>>
    /\ loaded_caches = <<>> /\ loaded_phases = <<>> /\ cache_to_profile_idx = <<>>
    /\ current_phase_idx = 0 /\ converged = FALSE
    /\ cp = NoCache /\ walk_idx = 0
    /\ samples = 0

---------------------------------------------------------------------------
(* The application's caches. *)

\* umem_cache_create links the cache in front of umem_null_cache.
Linked(n) == Append(list, n)

CacheCreate(n) ==
    /\ mode # "EXITED" /\ n \in AppCaches \ ToSet(list)
    /\ list' = Linked(n)
    /\ UNCHANGED <<mode, recording, out, exiting, file, replaying, samples>>

CacheDestroy(n) ==
    /\ mode # "EXITED" /\ n \in AppCaches \cap ToSet(list)
    /\ list' = SelectSeq(list, LAMBDA c : c # n)
    /\ UNCHANGED <<mode, recording, out, exiting, file, replaying, samples>>

---------------------------------------------------------------------------
(* Recording: umem_profile_sample in RECORD mode. *)

\* find_or_add_cache for every cache of the walk; the table may be full.
Track(known, n) ==
    IF n \in ToSet(known) \/ Len(known) >= UMP_MAX_CACHES THEN known ELSE Append(known, n)

\* A change of more than UMP_PHASE_THRESHOLD (0.50) of a rate that was not 0.
Jumps(old, new) == old > 0 /\ 2 * (IF new > old THEN new - old ELSE old - new) > old

\* What "entropy > 0.9 log2(n)" says of up to three caches with these rates.
Uniform(s) ==
    LET ones == Cardinality({i \in DOMAIN s : s[i] = 1})
    IN  /\ Len(s) > 1 /\ \A i \in DOMAIN s : s[i] > 0
        /\ ones \in {0, Len(s)} \/ (Len(s) = 3 /\ ones = 1)

RatesOf(names, r) == [i \in DOMAIN names |-> r[names[i]]]

\* write_profile: the header with its counts, the caches, the phases, the last
\* of which ends now.
Header == [kind |-> "header", caches |-> Len(cache_names'), phases |-> Len(phases')]
Blocks ==
    <<Header>>
    \o [i \in DOMAIN cache_names' |-> [kind |-> "cache", name |-> cache_names'[i]]]
    \o [i \in DOMAIN phases' |-> [kind |-> "phase", rates |-> phases'[i]]]

Begins == [kind |-> "open"]    \* umem_open_write: the file is emptied first

\* One sample with the rates r; `last` is the one umem_profile_fini takes.
Sample(r, last) ==
    LET names  == FoldLeft(Track, cache_names, list)
        walked == ToSet(list) \cap ToSet(names)
        new    == [n \in Names |-> IF n \in walked THEN r[n] ELSE rate[n]]
        jumped == {n \in walked : Jumps(rate[n], r[n])}
        calm   == [n \in Names |-> IF n \in jumped THEN 0
                                   ELSE IF n \in walked /\ stable_intervals[n] < UMP_STEADY_INTERVALS
                                   THEN stable_intervals[n] + 1
                                   ELSE stable_intervals[n]]
        random == Uniform(RatesOf(names, new))
        steady == \A n \in ToSet(names) : calm[n] >= UMP_STEADY_INTERVALS
        stop   == ~ random /\ names # <<>> /\ steady
    IN  /\ cache_names' = names /\ rate' = new /\ stable_intervals' = calm
        /\ phases' = IF ~ random /\ jumped # {} /\ Len(phases) < UMP_MAX_PHASES
                     THEN Append(phases, RatesOf(names, new)) ELSE phases
        /\ profile_written' = (stop \/ last)
        /\ out' = IF stop /\ last THEN <<Begins>> \o Blocks \o <<Begins>> \o Blocks
                  ELSE IF stop \/ last THEN <<Begins>> \o Blocks ELSE <<>>

RecordSample(r) ==
    /\ mode = "RECORD" /\ ~ profile_written /\ ~ exiting /\ samples < SAMPLES
    /\ Sample(r, FALSE)
    /\ samples' = samples + 1
    /\ UNCHANGED <<mode, list, exiting, file, replaying>>

\* umem_profile_fini, at exit: a profile not yet written is sampled once more
\* and written, even where that sample has just done so.
Fini(r) ==
    /\ mode = "RECORD" /\ ~ exiting /\ out = <<>>
    /\ exiting' = TRUE
    /\ IF profile_written THEN UNCHANGED <<recording, out>> ELSE Sample(r, TRUE)
    /\ UNCHANGED <<mode, list, file, replaying, samples>>

\* One write(2); a write that fails ends write_profile.
Written(f, b) == IF b = Begins THEN <<>> ELSE Append(f, b)

WriteBlock ==
    /\ out # <<>>
    /\ file' = Written(file, Head(out)) /\ out' = Tail(out)
    /\ UNCHANGED <<mode, list, recording, exiting, replaying, samples>>

WriteFails ==
    /\ out # <<>> /\ mode = "RECORD"
    /\ out' = <<>>
    /\ UNCHANGED <<mode, list, recording, exiting, file, replaying, samples>>

\* The process ends: killed anywhere, or after umem_profile_fini.
Ends ==
    /\ mode = "RECORD"
    /\ mode' = "EXITED" /\ out' = <<>> /\ list' = Builtin /\ samples' = 0
    /\ cache_names' = <<>> /\ rate' = [n \in Names |-> 0]
    /\ stable_intervals' = [n \in Names |-> 0]
    /\ phases' = <<>> /\ profile_written' = FALSE /\ exiting' = FALSE
    /\ UNCHANGED <<file, replaying>>

---------------------------------------------------------------------------
(* Replay: umem_profile_load from umem_init, umem_profile_check_phase.     *)

\* Every read(2) gets what it asks for.
Readable ==
    /\ file # <<>>
    /\ Len(file) >= 1 + file[1].caches + file[1].phases
    /\ file[1].caches <= UMP_MAX_CACHES /\ file[1].phases <= UMP_MAX_PHASES

Load ==
    /\ mode = "EXITED"
    /\ IF Readable
       THEN LET n == file[1].caches
            IN  /\ mode' = "USE"
                /\ loaded_caches' = SubSeq(file, 2, n + 1)
                /\ loaded_phases' = SubSeq(file, n + 2, n + 1 + file[1].phases)
                /\ cache_to_profile_idx' =
                     [i \in DOMAIN list |->
                        LET same == {j \in 1 .. n : file[j + 1].name = list[i]}
                        IN  IF same = {} THEN 0 ELSE Min(same)]
       ELSE mode' = "OFF" /\ UNCHANGED <<loaded_caches, loaded_phases, cache_to_profile_idx>>
    /\ UNCHANGED <<list, recording, out, exiting, file, current_phase_idx, converged,
                   cp, walk_idx, samples>>

IndexAt(i) == IF i \in DOMAIN cache_to_profile_idx THEN cache_to_profile_idx[i] ELSE 0

\* The L1 distance is under 20%, and never over 30% on the way.
PhaseMatches(current, profiled, n) ==
    LET p(j)   == IF j \in DOMAIN profiled THEN profiled[j] ELSE 0
        gap(j) == IF current[j] > p(j) THEN current[j] - p(j) ELSE p(j) - current[j]
        diff(k)  == MapThenSumSet(gap, 1 .. k)
        total(k) == MapThenSumSet(LAMBDA j : current[j] + p(j), 1 .. k)
    IN  /\ \A k \in 1 .. n : 10 * diff(k) <= 3 * total(k)
        /\ total(n) > 0 /\ 5 * diff(n) < total(n)

CheckPhase(r) ==
    /\ mode = "USE" /\ ~ converged /\ cp = NoCache /\ walk_idx = 0 /\ samples < SAMPLES
    /\ samples' = samples + 1
    /\ LET at(j)   == {i \in DOMAIN list : IndexAt(i) = j}
           used    == {IndexAt(i) : i \in DOMAIN list} \ {0}
           n       == IF used = {} THEN 0 ELSE Max(used)
           current == [j \in 1 .. n |-> IF at(j) = {} THEN 0 ELSE r[list[Max(at(j))]]]
           good    == {k \in DOMAIN loaded_phases :
                         n > 0 /\ PhaseMatches(current, loaded_phases[k].rates, n)}
       IN  IF good = {} \/ Min(good) = current_phase_idx
           THEN UNCHANGED <<current_phase_idx, walk_idx>>
           ELSE /\ current_phase_idx' = Min(good)
                /\ walk_idx' = IF Min(good) < Len(loaded_phases) THEN 1 ELSE 0
    /\ UNCHANGED <<mode, list, recording, out, exiting, file, loaded_caches, loaded_phases,
                   cache_to_profile_idx, converged, cp>>

\* The walk for the next phase, umem_cache_lock held: it goes on to the first
\* cache that is short of buffers and drops the lock there, or to the end.
After(i) == (i + 1) .. Len(list)
ShortAt(i) ==
    IndexAt(i) \in 1 .. Len(loaded_phases[current_phase_idx + 1].rates)

DropsLock(i) ==
    /\ i <= Len(list) /\ ShortAt(i)
    /\ cp' = list[i] /\ walk_idx' = i + 1
    /\ UNCHANGED converged

Finishes == cp' = NoCache /\ walk_idx' = 0 /\ converged' = TRUE

WalkBegin ==
    /\ mode = "USE" /\ cp = NoCache /\ walk_idx = 1
    /\ (\E i \in DOMAIN list : DropsLock(i)) \/ Finishes
    /\ UNCHANGED <<mode, list, recording, out, exiting, file, loaded_caches, loaded_phases,
                   cache_to_profile_idx, current_phase_idx, samples>>

\* The lock taken again: the walk follows cp->cache_next, wherever cp is now,
\* and goes on counting.
WalkNext ==
    /\ cp # NoCache /\ cp \in ToSet(list)
    /\ LET here == CHOOSE i \in DOMAIN list : list[i] = cp
       IN  \/ \E i \in After(here) :
                 /\ IndexAt(walk_idx + i - here - 1) \in
                       1 .. Len(loaded_phases[current_phase_idx + 1].rates)
                 /\ cp' = list[i] /\ walk_idx' = walk_idx + i - here
                 /\ UNCHANGED converged
           \/ Finishes
    /\ UNCHANGED <<mode, list, recording, out, exiting, file, loaded_caches, loaded_phases,
                   cache_to_profile_idx, current_phase_idx, samples>>

\* The sample after the match turns profiling off.
Converged ==
    /\ mode = "USE" /\ converged
    /\ mode' = "OFF"
    /\ UNCHANGED <<list, recording, out, exiting, file, replaying, samples>>

Replayed ==
    /\ mode \in {"USE", "OFF"}
    /\ UNCHANGED profileVars

Next ==
    \/ \E n \in AppCaches : CacheCreate(n) \/ CacheDestroy(n)
    \/ \E r \in [ToSet(list) -> Rates] : RecordSample(r) \/ Fini(r) \/ CheckPhase(r)
    \/ WriteBlock \/ WriteFails \/ Ends \/ Load
    \/ WalkBegin \/ WalkNext \/ Converged \/ Replayed

Spec == Init /\ [][Next]_profileVars

---------------------------------------------------------------------------
\* A file umem_profile_load accepts is one whole profile, whenever the
\* recording process was killed and however often it wrote: its caches are
\* distinct, as many as the header says, and no phase knows more of them.  The
\* position a cache had at load time still names it when the list has changed,
\* so that rates and allocations ahead go to the cache they were recorded for;
\* and a cache the walk allocates from without the lock is still on the list.
ProfileSound ==
    /\ Readable /\ mode = "EXITED" =>
         LET n == file[1].caches
         IN  /\ Len(file) = 1 + n + file[1].phases
             /\ \A i \in 2 .. n + 1 : file[i].kind = "cache"
             /\ \A i, j \in 2 .. n + 1 : i # j => file[i].name # file[j].name
             /\ \A i \in n + 2 .. Len(file) :
                   file[i].kind = "phase" /\ Len(file[i].rates) <= n
    /\ mode = "USE" =>
         /\ \A i \in DOMAIN list : IndexAt(i) # 0 => loaded_caches[IndexAt(i)].name = list[i]
         /\ cp # NoCache => cp \in ToSet(list) /\ loaded_caches[IndexAt(walk_idx - 1)].name = cp
===========================================================================
