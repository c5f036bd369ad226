------------------------------ MODULE Partition ------------------------------
(***************************************************************************)
(* Hash partitions (umem_hash_partition.c): the hash space is divided      *)
(* among claimants, equally, by sizes or by weights, and the claimant of a *)
(* hash is found by binary search.  The space is 0 .. HASH_MAX; a weight   *)
(* is a number of tenths, and NotFinite stands for a NaN or an infinity.   *)
(* What floating point rounds away of a share is not modelled.             *)
(***************************************************************************)
EXTENDS Integers, SequencesExt

CONSTANTS
    HASH_MAX,               \* UINT64_MAX
    MAX_CLAIMANTS,
    Amounts,                \* sizes and weights in the inputs
    NotFinite

VARIABLES
    how, input,             \* which hash_partitions_create*() and its arguments
    decimal_digits,
    hp,                     \* what it returned: a sequence of intervals, or Null
    asked,                  \* where hash_partitions_get_claimant() is
    hash, left, right, looks,
    answer

partitionVars == <<how, input, decimal_digits, hp, asked, hash, left, right, looks,
                   answer>>

\* A claimant's name is its position in the input.
Unnamed == 0
None == 0
Null == <<[name |-> None, lower |-> 0, size |-> 0]>>
Inputs ==
    {[i \in 1..(MAX_CLAIMANTS + 1) |-> [name |-> i, amount |-> 1]]} \cup
    UNION {{s \in [1..n -> [name : 0..n, amount : Amounts]] :
               \A i \in 1..n : s[i].name \in {Unnamed, i}} : n \in 0..MAX_CLAIMANTS}

\* Intervals of these sizes, one after the other.
Laid(named) == FoldLeft(LAMBDA s, x :
                           Append(s, [name |-> x.name, size |-> x.size, lower |->
                              IF s = <<>> THEN 0 ELSE Last(s).lower + Last(s).size]), <<>>, named)
Total(s) == FoldLeft(LAMBDA n, x : n + x.size, 0, s)
\* The last claimant gets what is left of the space.
Stretched(s) == IF s = <<>> THEN s
                ELSE [s EXCEPT ![Len(s)].size = @ + (HASH_MAX - Total(s))]

hash_partitions_create(claimants) ==
    LET named == SelectSeq(claimants, LAMBDA c : c.name # Unnamed)
    IN IF Len(claimants) \notin 1..MAX_CLAIMANTS THEN Null
       ELSE Stretched(Laid([i \in DOMAIN named |->
               [name |-> named[i].name, size |-> HASH_MAX \div Len(claimants)]]))

\* Each size is cut to what remains; intervals of no width are dropped.
Clamped(s, x) == IF Total(s) + x.size > HASH_MAX THEN [x EXCEPT !.size = HASH_MAX - Total(s)] ELSE x
hash_partitions_create_with_sizes(sizes) ==
    LET cut == FoldLeft(LAMBDA s, x : IF Clamped(s, x).size = 0 THEN s
                                      ELSE Append(s, Clamped(s, x)), <<>>, sizes)
    IN IF Len(sizes) \notin 1..MAX_CLAIMANTS \/ cut = <<>> THEN Null ELSE Stretched(Laid(cut))

round_f64(w, digits) == IF digits = 0 THEN ((w + 5) \div 10) * 10 ELSE w
WEIGHT_ACCEPTED(x) == x.amount # NotFinite /\ round_f64(x.amount, decimal_digits) > 0
                      /\ x.name # Unnamed
\* Both passes accept the same claimants: the j-th accepted one gets its own
\* weight.
WeightOf(weights, accepted, j) == accepted[j].amount
hash_partitions_create_with_weights(weights) ==
    LET accepted == SelectSeq(weights, WEIGHT_ACCEPTED)
        w(j) == round_f64(WeightOf(weights, accepted, j), decimal_digits)
        sum == FoldLeft(LAMBDA n, x : n + round_f64(x.amount, decimal_digits), 0, accepted)
    IN IF Len(weights) \notin 1..MAX_CLAIMANTS \/ accepted = <<>> THEN Null
       ELSE hash_partitions_create_with_sizes([j \in DOMAIN accepted |->
               [name |-> accepted[j].name,
                size |-> IF w(j) >= sum THEN HASH_MAX ELSE (HASH_MAX * w(j)) \div sum]])

Sized == [i \in DOMAIN input |-> [name |-> input[i].name,
                                  size |-> IF input[i].amount = NotFinite THEN 0 ELSE input[i].amount]]

InitPartition ==
    /\ how \in {"equal", "sizes", "weights"} /\ input \in Inputs
    /\ decimal_digits \in IF how = "weights" THEN {0, 1} ELSE {0}
    /\ hp = CASE how = "equal" -> hash_partitions_create(input)
              [] how = "sizes" -> hash_partitions_create_with_sizes(Sized)
              [] how = "weights" -> hash_partitions_create_with_weights(input)
    /\ asked = "no" /\ hash = 0
    /\ left = 1 /\ right = 0 /\ looks = 0 /\ answer = None

\* hash_partitions_get_claimant(), positions counted from 1.
Ask ==
    /\ asked = "no"
    /\ hash' \in 0..HASH_MAX
    /\ \/ /\ hp \in {Null, <<>>}
          /\ asked' = "told" /\ UNCHANGED <<right, answer>>
       \/ /\ hp \notin {Null, <<>>} /\ hash' >= Last(hp).lower
          /\ asked' = "told" /\ answer' = Last(hp).name /\ UNCHANGED right
       \/ /\ hp \notin {Null, <<>>} /\ hash' < Last(hp).lower
          /\ asked' = "search" /\ right' = Len(hp) /\ UNCHANGED answer
    /\ UNCHANGED <<how, input, decimal_digits, hp, left, looks>>

Search ==
    LET mid == left + (right - left) \div 2
        found == hash >= hp[mid].lower /\ (mid = Len(hp) \/ hash < hp[mid + 1].lower)
    IN /\ asked = "search"
       /\ looks' = looks + 1
       /\ IF left <= right /\ ~found /\ (hash >= hp[mid].lower \/ mid # 1)
          THEN /\ IF hash >= hp[mid].lower THEN left' = mid + 1 /\ UNCHANGED right
                  ELSE right' = mid - 1 /\ UNCHANGED left
               /\ UNCHANGED <<asked, answer>>
          ELSE /\ asked' = "told"
               /\ answer' = IF left <= right /\ found THEN hp[mid].name ELSE None
               /\ UNCHANGED <<left, right>>
       /\ UNCHANGED <<how, input, decimal_digits, hp, hash>>

Answered == asked = "told" /\ UNCHANGED partitionVars

Init == InitPartition
Next == Ask \/ Search \/ Answered
Spec == Init /\ [][Next]_partitionVars

-----------------------------------------------------------------------------
(* Properties.                                                             *)

\* The claimant whose interval has the hash; the last one has HASH_MAX too.
Owner(h) == LET has == {i \in DOMAIN hp : h \in hp[i].lower..(hp[i].lower + hp[i].size - 1)}
            IN IF has = {} THEN Last(hp).name ELSE hp[CHOOSE i \in has : TRUE].name

\* What a weight is worth: its part of all the weights that count.
Share(x) == (HASH_MAX * round_f64(x.amount, decimal_digits))
               \div FoldLeft(LAMBDA n, y : n + round_f64(y.amount, decimal_digits), 0,
                             SelectSeq(input, WEIGHT_ACCEPTED))

\* The intervals divide the whole space in the order of the claimants, none is
\* empty, and hash_partitions_get_claimant() finds the claimant whose interval
\* has the hash, in no more looks than a binary search needs.  By weights,
\* every accepted claimant but the last one left has the share of its own
\* weight, whatever entries before it were skipped.
PartitionSound ==
    hp \notin {Null, <<>>} =>
       /\ hp[1].lower = 0 /\ Total(hp) = HASH_MAX
       /\ \A i \in 1..(Len(hp) - 1) : hp[i].size > 0 /\ hp[i + 1].lower = hp[i].lower + hp[i].size
       /\ asked = "told" => answer = Owner(hash)
       /\ 2 ^ looks <= 2 * Len(hp)
       /\ how = "weights" =>
             LET accepted == SelectSeq(input, WEIGHT_ACCEPTED)
                 worth == SelectSeq(accepted, LAMBDA x : Share(x) > 0)
             IN /\ Len(hp) = Len(worth)
                /\ \A i \in DOMAIN hp :
                      /\ hp[i].name = worth[i].name
                      /\ i < Len(hp) => hp[i].size = Share(worth[i])
                      /\ hp[i].size >= Share(worth[i])

=============================================================================
