------------------------------- MODULE Options -------------------------------
(***************************************************************************)
(* The options of the library (envvar.c).  umem_init() collects the values *)
(* of UMEM_DEBUG, UMEM_OPTIONS and UMEM_LOGGING, from the environment and  *)
(* from functions of the program, and applies them item by item; the       *)
(* collection runs foreign code, which may allocate and so come back into  *)
(* umem_init(): the nested call drops what is incomplete and finishes the  *)
(* initialisation itself.                                                  *)
(*                                                                         *)
(* An item is [name, arg]; an argument is absent, a word, or a number with *)
(* a unit (0 none, 1 "k" ... 4 "t") and perhaps characters after it.       *)
(* ULONG, UINT and KILO stand for 2^64, 2^32 and 1024.                     *)
(***************************************************************************)
EXTENDS Naturals, SequencesExt

CONSTANTS
    ENVIRONMENTS,           \* the environments: [getenv, func, secure, faults]
    ULONG, UINT, KILO,
    UMEM_ALIGN, UMEM_MAXBUF,
    DEFAULT_SIZES,          \* umem_alloc_sizes as compiled in, 0 = free slot
    DEFAULTS                \* tunable -> its value as compiled in (1 if not given)

VARIABLES
    environment,            \* one of ENVIRONMENTS
    env_state,              \* of umem_setup_envvars(): GETENV, DLSYM, FUNC, ...
    env_cur,                \* the variable it is at
    env_getenv_result,      \* variable -> sequence of items, or Missing
    env_func_result,
    interrupted,            \* where the nested call came from, or "nowhere"
    applied,                \* the two results umem_process_envvars() started from
    items,                  \* the items left to process: <<variable, item>>
    umem_flags,             \* a set of UMF_ flags
    target,                 \* the numeric tunables
    umem_alloc_sizes,
    choice                  \* the other tunables

optionVars == <<environment, env_state, env_cur, env_getenv_result, env_func_result,
                interrupted, applied, items, umem_flags, target, umem_alloc_sizes, choice>>
collected == <<env_state, env_cur, env_getenv_result, env_func_result>>
tunables == <<umem_flags, target, umem_alloc_sizes, choice>>

umem_envvars == <<"UMEM_DEBUG", "UMEM_OPTIONS", "UMEM_LOGGING">>
Missing == <<[name |-> "missing", arg |-> [is |-> "none"]]>>
Nothing == [v \in ToSet(umem_envvars) |-> Missing]

-----------------------------------------------------------------------------
(* The tables.  A row: how its argument is processed, the flags it sets or *)
(* clears, the tunable its argument goes to, and whether it is ignored     *)
(* when the environment belongs to a less privileged user.                 *)

Row(type, flags, to, unsafe) ==
    [type |-> type, flags |-> flags, to |-> to, unsafe |-> unsafe]
Flag(flags) == Row("FLAG", flags, "none", FALSE)
Number(type, to) == Row(type, {}, to, FALSE)

umem_options_items ==
    [backend |-> Row("backend", {}, "none", TRUE),
     allocator |-> Row("allocator", {}, "none", FALSE),
     concurrency |-> Number("UINT", "umem_max_ncpus"),
     max_contention |-> Number("UINT", "umem_depot_contention"),
     nomagazines |-> Flag({"NOMAGAZINE"}),
     norseq |-> Flag({"rseq_disabled"}),
     reap_interval |-> Number("reap_interval", "umem_reap_interval"),
     magazine_tune |-> Number("UINT", "umem_magazine_tuning"),
     size_add |-> Number("size", "umem_size_tempval"),
     size_clear |-> Number("size", "umem_size_tempval"),
     size_remove |-> Number("size", "umem_size_tempval"),
     sbrk_minalloc |-> Number("SIZE", "vmem_sbrk_minalloc"),
     sbrk_pagesize |-> Number("SIZE", "vmem_sbrk_pagesize"),
     mmap_guard |-> Row("SIZE", {}, "vmem_mmap_guard_min", TRUE),
     reclaim |-> Number("UINT", "umem_reclaim_enabled"),
     reclaim_delay |-> Number("UINT", "umem_reclaim_delay"),
     perthread_cache |-> Number("SIZE", "umem_ptc_size"),
     tcache |-> Number("UINT", "umem_ptc_enabled"),
     tcache_max |-> Number("SIZE", "umem_ptc_maxsize"),
     ownership |-> Number("UINT", "umem_ownership_debug"),
     profile |-> Row("profile", {}, "none", TRUE),
     introspect |-> Row("UINT", {}, "umem_introspect_enabled", TRUE),
     abort |-> Flag({"abort"})]

umem_debug_items ==
    [default |-> Flag({"AUDIT", "CONTENTS", "DEADBEEF", "REDZONE"}),
     audit |-> Row("OPTUINT", {"AUDIT"}, "umem_stack_depth", FALSE),
     contents |-> Row("OPTSIZE", {"CONTENTS"}, "umem_content_maxsave", FALSE),
     guards |-> Flag({"DEADBEEF", "REDZONE"}),
     verbose |-> Row("FLAG", {"output1"}, "none", TRUE),
     nosignal |-> Flag({"AUDIT", "CHECKSIGNAL"}),
     firewall |-> Row("SIZE", {"FIREWALL"}, "umem_minfirewall", FALSE),
     lite |-> Flag({"LITE"}),
     maxverify |-> Number("SIZE", "umem_maxverify"),
     noabort |-> Row("CLEARFLAG", {"abort"}, "none", TRUE),
     mtbf |-> Row("UINT", {}, "umem_mtbf", TRUE),
     random |-> Flag({"RANDOMIZE"}),
     allverbose |-> Row("FLAG", {"output2"}, "none", TRUE),
     checknull |-> Flag({"CHECKNULL"})]

umem_logging_items ==
    [transaction |-> Number("log", "umem_transaction_log_size"),
     contents |-> Row("log", {"CONTENTS"}, "umem_content_log_size", FALSE),
     fail |-> Number("log", "umem_failure_log_size"),
     slab |-> Number("log", "umem_slab_log_size")]

env_item_list(v) ==
    CASE v = "UMEM_DEBUG" -> umem_debug_items
      [] v = "UMEM_OPTIONS" -> umem_options_items
      [] v = "UMEM_LOGGING" -> umem_logging_items

Tables == ToSet(umem_envvars)
Tunables == UNION {{env_item_list(v)[n].to : n \in DOMAIN env_item_list(v)} : v \in Tables}

Default(t) == IF t \in DOMAIN DEFAULTS THEN DEFAULTS[t] ELSE 1

InitOptions ==
    /\ environment \in ENVIRONMENTS
    /\ env_state = "GETENV" /\ env_cur = 1
    /\ env_getenv_result = Nothing /\ env_func_result = Nothing
    /\ interrupted = "nowhere"
    /\ applied = <<>> /\ items = <<>>
    /\ umem_flags = {"abort"}
    /\ target = [t \in Tunables |-> Default(t)]
    /\ umem_alloc_sizes = DEFAULT_SIZES
    /\ choice = [backend |-> {}, allocator |-> "instant", profile |-> "none",
                 logging |-> FALSE, ignored |-> 0, crashed |-> FALSE]

-----------------------------------------------------------------------------
(* umem_setup_envvars(0), one foreign call per step: getenv() of each      *)
(* variable, dlopen(), then dlsym() and the program's function for each.   *)

Collects == applied = <<>> \/ interrupted = "resumed"

\* The next variable, or from getenv() on to dlopen(), or done.
Advance(next, last) ==
    IF env_cur < Len(umem_envvars)
    THEN env_state' = next /\ env_cur' = env_cur + 1
    ELSE env_state' = last /\ env_cur' = 1

GetEnv ==
    /\ Collects /\ env_state = "GETENV"
    /\ env_getenv_result' = [env_getenv_result EXCEPT
          ![umem_envvars[env_cur]] = environment.getenv[umem_envvars[env_cur]]]
    /\ Advance("GETENV", "DLOPEN")
    /\ UNCHANGED <<environment, env_func_result, interrupted, applied, items, tunables>>

Dlopen ==
    /\ Collects /\ env_state = "DLOPEN"
    /\ env_state' \in {"DLSYM", "DONE"}
    /\ UNCHANGED <<environment, env_cur, env_getenv_result, env_func_result, interrupted,
                   applied, items, tunables>>

Dlsym ==
    /\ Collects /\ env_state = "DLSYM"
    /\ env_state' = "FUNC"
    /\ UNCHANGED <<environment, env_cur, env_getenv_result, env_func_result, interrupted,
                   applied, items, tunables>>

Func ==
    /\ Collects /\ env_state = "FUNC"
    /\ env_func_result' = [env_func_result EXCEPT
          ![umem_envvars[env_cur]] = environment.func[umem_envvars[env_cur]]]
    /\ Advance("DLSYM", "DONE")
    /\ UNCHANGED <<environment, env_getenv_result, interrupted, applied, items, tunables>>

\* umem_process_envvars() splits the value of each variable at its commas.
ItemsOf(results) ==
    FlattenSeq([i \in 1..Len(umem_envvars) |->
        LET v == umem_envvars[i]
            value == IF results[1][v] # Missing THEN results[1][v] ELSE results[2][v]
        IN IF value = Missing THEN <<>>
           ELSE [k \in 1..Len(value) |-> <<v, value[k]>>]])

Apply(results) ==
    /\ applied' = results
    /\ items' = ItemsOf(results)

\* umem_setup_envvars(1), from a nested umem_init(): what is incomplete is
\* dropped, and the nested call goes on to process what is left.
Dropped(result) == Nothing

Recurse ==
    /\ applied = <<>> /\ env_state # "DONE"
    /\ interrupted' = env_state
    /\ env_getenv_result' = IF env_state = "GETENV" THEN Dropped(env_getenv_result)
                            ELSE env_getenv_result
    /\ env_func_result' = Nothing
    /\ Apply(<<env_getenv_result', env_func_result'>>)
    /\ env_state' = "DONE"
    /\ UNCHANGED <<environment, env_cur, tunables>>

\* The collection ended undisturbed.
Collected ==
    /\ applied = <<>> /\ env_state = "DONE"
    /\ Apply(<<env_getenv_result, env_func_result>>)
    /\ UNCHANGED <<environment, collected, interrupted, tunables>>

\* The interrupted call comes back from its foreign call.  It returns when it
\* finds STATE_DONE; after dlopen() it does not look, and goes on.
Resume ==
    /\ interrupted \in {"GETENV", "DLOPEN", "DLSYM", "FUNC"}
    /\ items = <<>> /\ ~choice.crashed
    /\ interrupted' = "resumed"
    /\ env_getenv_result' = IF interrupted = "GETENV"
          THEN [env_getenv_result EXCEPT ![umem_envvars[env_cur]] =
                   environment.getenv[umem_envvars[env_cur]]]
          ELSE env_getenv_result
    /\ env_state' \in IF interrupted = "DLOPEN" THEN {"DLSYM", "DONE"} ELSE {"DONE"}
    /\ UNCHANGED <<environment, env_cur, env_func_result, applied, items, tunables>>

-----------------------------------------------------------------------------
(* The size table.                                                         *)

RoundUp(n, align) == ((n + align - 1) \div align) * align

umem_alloc_sizes_clear ==
    [i \in DOMAIN umem_alloc_sizes |-> IF i = 1 THEN UMEM_MAXBUF ELSE 0]

Place(size) == CHOOSE i \in DOMAIN umem_alloc_sizes :
                  /\ umem_alloc_sizes[i] > size
                  /\ \A j \in 1..(i - 1) : umem_alloc_sizes[j] <= size

umem_alloc_sizes_add(arg) ==
    LET size == RoundUp(arg, UMEM_ALIGN)
    IN IF \/ arg = 0 \/ arg > UMEM_MAXBUF
          \/ Last(umem_alloc_sizes) # 0
          \/ Contains(umem_alloc_sizes, size)
       THEN umem_alloc_sizes
       ELSE InsertAt(Front(umem_alloc_sizes), Place(size), size)

umem_alloc_sizes_remove(size) ==
    IF size \in {0, UMEM_MAXBUF} \/ ~Contains(umem_alloc_sizes, size)
    THEN umem_alloc_sizes
    ELSE Append(Remove(umem_alloc_sizes, size), 0)

-----------------------------------------------------------------------------
(* Arguments.  Each processor yields what it stored, or Bad.               *)

Bad == [ok |-> FALSE, value |-> 0]
Good(n) == [ok |-> TRUE, value |-> n]

item_uint_process(arg) ==
    IF arg.is # "number" \/ arg.unit # 0 \/ arg.junk \/ arg.n >= UINT
    THEN Bad ELSE Good(arg.n)

\* The product is taken modulo the word; it has overflowed when it is smaller
\* than the number it started from, at any of the multiplications.
Scaled(n, k) == (n * KILO^k) % ULONG
item_size_process(arg) ==
    IF \/ arg.is # "number" \/ arg.junk \/ arg.n >= ULONG
       \/ \E k \in 1..arg.unit : Scaled(arg.n, k) < arg.n
    THEN Bad ELSE Good(Scaled(arg.n, arg.unit))

\* What a processor leaves: whether it succeeded, and the tunables.
Fail == [ok |-> FALSE, target |-> target, sizes |-> umem_alloc_sizes, choice |-> choice]
Store(row, n) == [Fail EXCEPT !.ok = TRUE, !.target[row.to] = n]
Choose(field, value) == [Fail EXCEPT !.ok = TRUE, !.choice[field] = value]
Process(row, result) == IF result.ok THEN Store(row, result.value) ELSE Fail

umem_log_process(row, arg) ==
    LET result == item_size_process(arg)
    IN IF arg.is = "none" THEN [Store(row, 64) EXCEPT !.choice.logging = TRUE]
       ELSE IF ~result.ok THEN Fail
       ELSE [Store(row, result.value) EXCEPT !.choice.logging = @ \/ result.value # 0]

umem_size_process(name, row, arg) ==
    LET result == item_size_process(arg)
    IN IF name = "size_clear"
       THEN IF arg.is # "none" THEN Fail
            ELSE [Fail EXCEPT !.ok = TRUE, !.sizes = umem_alloc_sizes_clear]
       ELSE IF arg.is = "none" \/ ~result.ok THEN Fail
       ELSE [Store(row, result.value) EXCEPT !.sizes =
                IF name = "size_add" THEN umem_alloc_sizes_add(result.value)
                ELSE umem_alloc_sizes_remove(result.value)]

\* An absent argument is dereferenced.
umem_reap_interval_process(row, arg) ==
    IF arg.is = "none" THEN [Fail EXCEPT !.choice.crashed = TRUE]
    ELSE IF item_uint_process(arg) = Good(0) THEN Fail
    ELSE Process(row, item_uint_process(arg))

umem_backend_process(arg) ==
    IF arg.is = "word" /\ arg.word \in {"sbrk", "mmap"}
    THEN Choose("backend", choice.backend \cup {arg.word}) ELSE Fail

umem_allocator_process(arg) ==
    IF arg.is = "word" /\ arg.word \in {"best", "next", "first", "instant"}
    THEN Choose("allocator", arg.word) ELSE Fail

umem_profile_process(arg) ==
    IF arg.is = "word" /\ arg.word \in {"record", "use"}
    THEN Choose("profile", arg.word) ELSE Fail

Special(name, row, arg) ==
    CASE row.type = "log" -> umem_log_process(row, arg)
      [] row.type = "size" -> umem_size_process(name, row, arg)
      [] row.type = "reap_interval" -> umem_reap_interval_process(row, arg)
      [] row.type = "backend" -> umem_backend_process(arg)
      [] row.type = "allocator" -> umem_allocator_process(arg)
      [] row.type = "profile" -> umem_profile_process(arg)

\* One item: refused in secure mode, then its argument, then its flags.
Refused(row) == row.unsafe /\ environment.secure

process_item(name, row, arg) ==
    CASE Refused(row) -> [Fail EXCEPT !.choice.ignored = @ + 1]
      [] ~Refused(row) /\ row.type \in {"FLAG", "CLEARFLAG"} ->
            [Fail EXCEPT !.ok = arg.is = "none"]
      [] ~Refused(row) /\ row.type \in {"UINT", "SIZE", "OPTUINT", "OPTSIZE"} ->
            IF arg.is = "none" THEN [Fail EXCEPT !.ok = row.type \in {"OPTUINT", "OPTSIZE"}]
            ELSE Process(row, IF row.type \in {"UINT", "OPTUINT"}
                              THEN item_uint_process(arg) ELSE item_size_process(arg))
      [] OTHER -> Special(name, row, arg)

\* umem_process_value(): an item with a name the table does not have is
\* reported and skipped.
umem_process_value ==
    LET v == Head(items)[1]
        item == Head(items)[2]
        row == env_item_list(v)[item.name]
        done == process_item(item.name, row, item.arg)
    IN /\ items # <<>> /\ ~choice.crashed
       /\ items' = Tail(items)
       /\ IF item.name \in DOMAIN env_item_list(v)
          THEN /\ target' = done.target
               /\ umem_alloc_sizes' = done.sizes
               /\ choice' = done.choice
               /\ umem_flags' = IF ~done.ok THEN umem_flags
                                ELSE IF row.type = "CLEARFLAG" THEN umem_flags \ row.flags
                                ELSE umem_flags \cup row.flags
          ELSE UNCHANGED tunables
       /\ UNCHANGED <<environment, collected, interrupted, applied>>

\* The tunables are final.
Processed == applied # <<>> /\ items = <<>> /\ ~choice.crashed

OptionStep == \/ GetEnv \/ Dlopen \/ Dlsym \/ Func \/ Recurse \/ Collected \/ Resume
              \/ umem_process_value

-----------------------------------------------------------------------------
(* Properties.                                                             *)

\* The options applied are a consistent set: the values of getenv(3C) all of
\* them or none, the ones of the program's functions likewise, even when the
\* collection recursed into the allocator (umem_setup_envvars(1)).  In secure
\* mode no option with a side effect outside the allocator has had any effect,
\* and the abort on corruption is armed (process_item).
OptionsSound ==
    /\ applied # <<>> =>
          /\ applied[1] \in {environment.getenv, Nothing}
          /\ applied[2] \in {environment.func, Nothing}
    /\ environment.secure =>
          /\ choice.backend = {} /\ choice.profile = "none"
          /\ \A t \in {"umem_mtbf", "vmem_mmap_guard_min", "umem_introspect_enabled"} :
                target[t] = Default(t)
          /\ "abort" \in umem_flags /\ umem_flags \cap {"output1", "output2"} = {}

\* A size that an option gives is taken as written or refused: envvar.c says of
\* a valid item that its argument "doesn't overflow".
SizeExact ==
    items # <<>> /\ Head(items)[2].arg.is = "number" =>
       LET arg == Head(items)[2].arg
       IN item_size_process(arg) \in {Bad, Good(arg.n * KILO^arg.unit)}

=============================================================================
