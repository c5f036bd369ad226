-------------------------------- MODULE Batch --------------------------------
(***************************************************************************)
(* Several objects in one call (umem.c: umem_cache_alloc_batch,            *)
(* umem_cache_free_batch), next to the calls for one object, on a cache    *)
(* with a constructor, while the update thread changes the magazine size.  *)
(* One pass through the loop that holds cc_lock is a step: the depot is    *)
(* shared with other CPUs.  The calls for one object go through the same   *)
(* loop, but a debugged cache constructs and checks their object at the    *)
(* magazine; module Magazine has the depot in detail.                      *)
(***************************************************************************)
EXTENDS Integers, SequencesExt, FiniteSetsExt

CONSTANTS
    Threads, CPUs, Buffers,
    BATCH,                  \* most objects of a batch
    MAGSIZES,               \* magazine sizes of the cache's magtypes, in order
    BATCH_CALLS,            \* how many calls are made
    BATCH_CONFIGS           \* [debug, batches, fails]

VARIABLES
    batch_config,
    cpu_cache,              \* CPU -> [loaded, ploaded, magsize]
    cc_lock,                \* CPU -> thread, or Nobody
    depot_full, depot_empty,
    in_slab,
    constructed,            \* buffers whose constructor has run, and no destructor
    cache_magtype,
    batch_call,             \* thread -> its call, or Idle
    client,                 \* objects the program has
    resizing,               \* where umem_cache_magazine_resize() is, and CPUs done
    batch_calls

batchVars == <<batch_config, cpu_cache, cc_lock, depot_full, depot_empty, in_slab, constructed,
               cache_magtype, batch_call, client, resizing, batch_calls>>

Nobody == "nobody"
Idle == [at |-> "idle"]
NoMag == [size |-> 0, rounds |-> <<>>]
Mag(size) == [size |-> size, rounds |-> <<>>]
cc_rounds(m) == IF m = NoMag THEN -1 ELSE Len(m.rounds)

InitBatch ==
    /\ batch_config \in BATCH_CONFIGS
    /\ cpu_cache = [c \in CPUs |-> [loaded |-> NoMag, ploaded |-> NoMag, magsize |-> MAGSIZES[1]]]
    /\ cc_lock = [c \in CPUs |-> Nobody]
    /\ depot_full = <<>> /\ depot_empty = <<>>
    /\ in_slab = Buffers /\ constructed = {}
    /\ cache_magtype = 1
    /\ batch_call = [t \in Threads |-> Idle]
    /\ client = {} /\ batch_calls = 0
    /\ resizing = [at |-> "no", done |-> {}]

Becomes(t, call) == batch_call' = [batch_call EXCEPT ![t] = call]
Goes(t, at) == batch_call' = [batch_call EXCEPT ![t].at = at]
Holds(t) == cc_lock[batch_call[t].cpu] = t
Unlock(t) == cc_lock' = [cc_lock EXCEPT ![batch_call[t].cpu] = Nobody]
Mine(t) == cpu_cache[batch_call[t].cpu]

\* umem_cpu_reload()
Reload(t, mag) ==
    cpu_cache' = [cpu_cache EXCEPT ![batch_call[t].cpu] =
                     [loaded |-> mag, ploaded |-> Mine(t).loaded, magsize |-> Mine(t).magsize]]
PutBack(mags, t) == IF Mine(t).ploaded = NoMag THEN mags ELSE Append(mags, Mine(t).ploaded)

-----------------------------------------------------------------------------
(* Allocation.                                                             *)

AllocCall(t) ==
    /\ batch_call[t] = Idle /\ batch_calls < BATCH_CALLS
    /\ \E c \in CPUs, count \in 1..BATCH, one \in BOOLEAN :
          /\ IF one THEN count = 1 ELSE batch_config.batches
          /\ Becomes(t, [at |-> "lock", op |-> "alloc", cpu |-> c, one |-> one,
                         count |-> count, bufs |-> <<>>])
    /\ batch_calls' = batch_calls + 1
    /\ UNCHANGED <<batch_config, cpu_cache, cc_lock, depot_full, depot_empty, in_slab,
                   constructed, cache_magtype, client, resizing>>

LockCpu(t) ==
    /\ batch_call[t].at \in {"lock", "relock"} /\ cc_lock[batch_call[t].cpu] = Nobody
    /\ cc_lock' = [cc_lock EXCEPT ![batch_call[t].cpu] = t]
    /\ Goes(t, IF batch_call[t].at = "lock" THEN "loop" ELSE "donate")
    /\ UNCHANGED <<batch_config, cpu_cache, depot_full, depot_empty, in_slab, constructed,
                   cache_magtype, client, resizing, batch_calls>>

\* The last rounds of the loaded magazine, up to what is still wanted.  A
\* debugged cache runs the constructor on the object of a single call.
Drained(t) == Min({Len(Mine(t).loaded.rounds), batch_call[t].count - Len(batch_call[t].bufs)})
Drain(t) ==
    LET call == batch_call[t]
        mag == Mine(t).loaded
        taken == SubSeq(mag.rounds, Len(mag.rounds) - Drained(t) + 1, Len(mag.rounds))
    IN /\ cpu_cache' = [cpu_cache EXCEPT ![call.cpu].loaded.rounds =
                           SubSeq(@, 1, Len(@) - Drained(t))]
       /\ Becomes(t, [call EXCEPT !.bufs = @ \o Reverse(taken)])
       /\ constructed' = IF batch_config.debug /\ call.one THEN constructed \cup ToSet(taken)
                         ELSE constructed

AllocLoop(t) ==
    LET call == batch_call[t]
        cc == Mine(t)
    IN /\ call.at = "loop" /\ call.op = "alloc" /\ Holds(t)
       /\ \/ /\ Len(call.bufs) = call.count
             /\ Goes(t, "slab") /\ Unlock(t)
             /\ UNCHANGED <<cpu_cache, depot_full, depot_empty, constructed>>
          \/ /\ Len(call.bufs) < call.count /\ cc_rounds(cc.loaded) > 0
             /\ Drain(t)
             /\ UNCHANGED <<cc_lock, depot_full, depot_empty>>
          \/ /\ Len(call.bufs) < call.count /\ cc_rounds(cc.loaded) <= 0
             /\ cc_rounds(cc.ploaded) > 0
             /\ Reload(t, cc.ploaded)
             /\ UNCHANGED <<cc_lock, depot_full, depot_empty, constructed, batch_call>>
          \/ /\ Len(call.bufs) < call.count /\ cc_rounds(cc.loaded) <= 0
             /\ cc_rounds(cc.ploaded) <= 0
             /\ IF cc.magsize # 0 /\ depot_full # <<>>
                THEN /\ depot_empty' = PutBack(depot_empty, t)
                     /\ Reload(t, Last(depot_full)) /\ depot_full' = Front(depot_full)
                     /\ UNCHANGED <<cc_lock, batch_call>>
                ELSE /\ Goes(t, "slab") /\ Unlock(t)
                     /\ UNCHANGED <<cpu_cache, depot_full, depot_empty>>
             /\ UNCHANGED constructed
       /\ UNCHANGED <<batch_config, in_slab, cache_magtype, client, resizing, batch_calls>>

\* The rest from the slab layer, each with its constructor, which may fail.
Construct(b) == constructed \cup {b}
AllocSlab(t) ==
    LET call == batch_call[t]
    IN /\ call.at = "slab" /\ call.op = "alloc"
       /\ \/ /\ Len(call.bufs) < call.count
             /\ \E b \in in_slab :
                   /\ in_slab' = in_slab \ {b}
                   /\ constructed' = Construct(b)
                   /\ Becomes(t, [call EXCEPT !.bufs = Append(@, b)])
             /\ UNCHANGED client
          \/ /\ Len(call.bufs) = call.count \/ in_slab = {} \/ batch_config.fails
             /\ client' = client \cup ToSet(call.bufs)
             /\ Becomes(t, Idle)
             /\ UNCHANGED <<in_slab, constructed>>
       /\ UNCHANGED <<batch_config, cpu_cache, cc_lock, depot_full, depot_empty, cache_magtype,
                      resizing, batch_calls>>

-----------------------------------------------------------------------------
(* Free.                                                                   *)

\* umem_cache_free_debug() runs the destructor before anything else.
FreeCall(t) ==
    /\ batch_call[t] = Idle /\ batch_calls < BATCH_CALLS
    /\ \E c \in CPUs, bufs \in {s \in SUBSET client : s # {} /\ Cardinality(s) <= BATCH},
          one \in BOOLEAN :
          /\ IF one THEN Cardinality(bufs) = 1 ELSE batch_config.batches
          /\ client' = client \ bufs
          /\ constructed' = IF batch_config.debug /\ one THEN constructed \ bufs ELSE constructed
          /\ Becomes(t, [at |-> "lock", op |-> "free", cpu |-> c, one |-> one,
                         bufs |-> SetToSeq(bufs), mtp |-> 0])
    /\ batch_calls' = batch_calls + 1
    /\ UNCHANGED <<batch_config, cpu_cache, cc_lock, depot_full, depot_empty, in_slab,
                   cache_magtype, resizing>>

\* As many as the loaded magazine has room for.
Fill(t) ==
    LET call == batch_call[t]
        space == Min({Mine(t).magsize - Len(Mine(t).loaded.rounds), Len(call.bufs)})
    IN /\ cpu_cache' = [cpu_cache EXCEPT ![call.cpu].loaded.rounds =
                           @ \o SubSeq(call.bufs, 1, space)]
       /\ Becomes(t, [call EXCEPT !.bufs = SubSeq(@, space + 1, Len(@))])

\* (uint_t)rounds < magsize: no magazine is -1 rounds, which is never less.
HasRoom(cc) == cc_rounds(cc.loaded) # -1 /\ cc_rounds(cc.loaded) < cc.magsize
FreeLoop(t) ==
    LET call == batch_call[t]
        cc == Mine(t)
    IN /\ call.at = "loop" /\ call.op = "free" /\ Holds(t)
       /\ \/ /\ call.bufs = <<>>
             /\ Goes(t, "slab") /\ Unlock(t)
             /\ UNCHANGED <<cpu_cache, depot_full, depot_empty>>
          \/ /\ call.bufs # <<>> /\ HasRoom(cc)
             /\ Fill(t)
             /\ UNCHANGED <<cc_lock, depot_full, depot_empty>>
          \/ /\ call.bufs # <<>> /\ ~HasRoom(cc) /\ cc_rounds(cc.ploaded) = 0
             /\ Reload(t, cc.ploaded)
             /\ UNCHANGED <<cc_lock, depot_full, depot_empty, batch_call>>
          \/ /\ call.bufs # <<>> /\ ~HasRoom(cc) /\ cc_rounds(cc.ploaded) # 0
             /\ \/ /\ cc.magsize = 0
                   /\ Goes(t, "slab") /\ Unlock(t)
                   /\ UNCHANGED <<cpu_cache, depot_full, depot_empty>>
                \/ /\ cc.magsize # 0 /\ depot_empty # <<>>
                   /\ depot_full' = PutBack(depot_full, t)
                   /\ Reload(t, Last(depot_empty)) /\ depot_empty' = Front(depot_empty)
                   /\ UNCHANGED <<cc_lock, batch_call>>
                \/ /\ cc.magsize # 0 /\ depot_empty = <<>>
                   /\ Becomes(t, [call EXCEPT !.at = "newmag", !.mtp = cache_magtype])
                   /\ Unlock(t)
                   /\ UNCHANGED <<cpu_cache, depot_full, depot_empty>>
       /\ UNCHANGED <<batch_config, in_slab, constructed, cache_magtype, client, resizing,
                      batch_calls>>

\* A new magazine is allocated without cc_lock, from the magtype read before
\* the lock was dropped; it is donated only if the size is still the CPU's.
NewMag(t) ==
    /\ batch_call[t].at = "newmag"
    /\ Goes(t, "relock") \/ (batch_config.fails /\ Goes(t, "slab"))
    /\ UNCHANGED <<batch_config, cpu_cache, cc_lock, depot_full, depot_empty, in_slab,
                   constructed, cache_magtype, client, resizing, batch_calls>>

SameSize(t) == Mine(t).magsize = MAGSIZES[batch_call[t].mtp]
Donate(t) ==
    /\ batch_call[t].at = "donate" /\ Holds(t)
    /\ \/ /\ SameSize(t)
          /\ depot_empty' = Append(depot_empty, Mag(MAGSIZES[batch_call[t].mtp]))
          /\ Goes(t, "loop") /\ UNCHANGED cc_lock
       \/ ~SameSize(t) /\ Goes(t, "lock") /\ Unlock(t) /\ UNCHANGED depot_empty
    /\ UNCHANGED <<batch_config, cpu_cache, depot_full, in_slab, constructed, cache_magtype,
                   client, resizing, batch_calls>>

\* The rest to the slab layer, each after its destructor.
FreeSlab(t) ==
    LET call == batch_call[t]
    IN /\ call.at = "slab" /\ call.op = "free"
       /\ IF call.bufs = <<>>
          THEN Becomes(t, Idle) /\ UNCHANGED <<in_slab, constructed>>
          ELSE /\ in_slab' = in_slab \cup {Head(call.bufs)}
               /\ constructed' = constructed \ {Head(call.bufs)}
               /\ Becomes(t, [call EXCEPT !.bufs = Tail(@)])
       /\ UNCHANGED <<batch_config, cpu_cache, cc_lock, depot_full, depot_empty, cache_magtype,
                      client, resizing, batch_calls>>

-----------------------------------------------------------------------------
(* umem_cache_magazine_resize(): purge every CPU, then the depot; the next *)
(* magtype; enable every CPU.                                              *)

ResizeStart ==
    /\ resizing.at = "no" /\ cache_magtype < Len(MAGSIZES)
    /\ resizing' = [at |-> "purge", done |-> {}]
    /\ UNCHANGED <<batch_config, cpu_cache, cc_lock, depot_full, depot_empty, in_slab,
                   constructed, cache_magtype, batch_call, client, batch_calls>>

\* umem_magazine_destroy() of some magazines.
Destroyed(mags) ==
    LET bufs == UNION {ToSet(m.rounds) : m \in mags}
    IN in_slab' = in_slab \cup bufs /\ constructed' = constructed \ bufs

PurgeCpu(c) ==
    /\ resizing.at = "purge" /\ c \notin resizing.done /\ cc_lock[c] = Nobody
    /\ cpu_cache' = [cpu_cache EXCEPT ![c] = [loaded |-> NoMag, ploaded |-> NoMag, magsize |-> 0]]
    /\ Destroyed({cpu_cache[c].loaded, cpu_cache[c].ploaded})
    /\ resizing' = [resizing EXCEPT !.done = @ \cup {c}]
    /\ UNCHANGED <<batch_config, cc_lock, depot_full, depot_empty, cache_magtype, batch_call,
                   client, batch_calls>>

ResizeDepot ==
    /\ resizing = [at |-> "purge", done |-> CPUs]
    /\ Destroyed(ToSet(depot_full)) /\ depot_full' = <<>> /\ depot_empty' = <<>>
    /\ cache_magtype' = cache_magtype + 1
    /\ resizing' = [at |-> "enable", done |-> {}]
    /\ UNCHANGED <<batch_config, cpu_cache, cc_lock, batch_call, client, batch_calls>>

EnableCpu(c) ==
    /\ resizing.at = "enable" /\ c \notin resizing.done /\ cc_lock[c] = Nobody
    /\ cpu_cache' = [cpu_cache EXCEPT ![c].magsize = MAGSIZES[cache_magtype]]
    /\ resizing' = IF resizing.done \cup {c} = CPUs THEN [at |-> "no", done |-> {}]
                   ELSE [resizing EXCEPT !.done = @ \cup {c}]
    /\ UNCHANGED <<batch_config, cc_lock, depot_full, depot_empty, in_slab, constructed,
                   cache_magtype, batch_call, client, batch_calls>>

Ended == batch_calls = BATCH_CALLS /\ (\A t \in Threads : batch_call[t] = Idle)
         /\ UNCHANGED batchVars

Init == InitBatch
Next == \/ \E t \in Threads : \/ AllocCall(t) \/ LockCpu(t) \/ AllocLoop(t) \/ AllocSlab(t)
                              \/ FreeCall(t) \/ FreeLoop(t) \/ NewMag(t) \/ Donate(t)
                              \/ FreeSlab(t)
        \/ ResizeStart \/ ResizeDepot \/ \E c \in CPUs : PurgeCpu(c) \/ EnableCpu(c)
        \/ Ended
Spec == Init /\ [][Next]_batchVars

-----------------------------------------------------------------------------
(* Properties.                                                             *)

InCalls(t) == IF batch_call[t] = Idle THEN <<>> ELSE batch_call[t].bufs
Mags == [c \in CPUs |-> <<cpu_cache[c].loaded, cpu_cache[c].ploaded>>]

\* However batches of several threads and a change of the magazine size mix,
\* every object is in one place; the magazines of a CPU have the size it works
\* with, those of the depot are of the cache's magtype (the check after cc_lock
\* was dropped for a new magazine), and the full ones are full.
BatchSound ==
    /\ LET cpuRounds == FlattenSeq([i \in 1..Cardinality(CPUs) |->
                            LET c == SetToSeq(CPUs)[i] IN Mags[c][1].rounds \o Mags[c][2].rounds])
           depotRounds == FlattenSeq([i \in DOMAIN depot_full |-> depot_full[i].rounds])
           callRounds == FlattenSeq([i \in 1..Cardinality(Threads) |->
                            InCalls(SetToSeq(Threads)[i])])
           all == cpuRounds \o depotRounds \o callRounds \o SetToSeq(in_slab) \o SetToSeq(client)
       IN IsInjective(all) /\ ToSet(all) = Buffers
    /\ \A c \in CPUs, i \in 1..2 : Mags[c][i] # NoMag => Mags[c][i].size = cpu_cache[c].magsize
    /\ resizing.at # "purge" =>
          \A m \in ToSet(depot_full \o depot_empty) : m.size = MAGSIZES[cache_magtype]
    /\ \A m \in ToSet(depot_full) : Len(m.rounds) = m.size
    /\ \A m \in ToSet(depot_empty) : m.rounds = <<>>

\* The program gets constructed objects, and only raw ones are in the slabs
\* (umem_cache_alloc_batch(): "Magazine objects are pre-constructed").
Constructed == client \subseteq constructed /\ in_slab \cap constructed = {}

=============================================================================
