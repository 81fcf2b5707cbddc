---------------------------- MODULE BoundedCache ----------------------------
(***************************************************************************)
(* tmplBoundedCache: a hash with a time of access for each key, that drops *)
(* the half of its entries that were not used for the longest time when it *)
(* is full.  The operators take a cache and return what a call makes of it.*)
(*                                                                         *)
(* Each call holds the mutex of the cache from its first to its last line, *)
(* so a call is one step.  A time is a QTime: the milliseconds of a day.   *)
(***************************************************************************)
EXTENDS Naturals, FiniteSets

CONSTANT MaxItems

ASSUME MaxItemsAssumption == MaxItems \in Nat \ {0}

EmptyCache == [value |-> << >>, accessed |-> << >>]

Keys(cache) == DOMAIN cache.value
Values(cache) == {cache.value[k] : k \in Keys(cache)}

Assign(f, k, v) == [x \in DOMAIN f \cup {k} |-> IF x = k THEN v ELSE f[x]]
Without(f, ks) == [x \in DOMAIN f \ ks |-> f[x]]

\* Mutant: one entry too many.
Full_OffByOne(cache) == Cardinality(Keys(cache)) > MaxItems

Full(cache) == Cardinality(Keys(cache)) >= MaxItems

\* The keys of the MaxItems / 2 smallest times.  keys(time) returns every key of a
\* time, so those that share the last of these times go as well.
Expired(cache) ==
    LET older(k) == {j \in DOMAIN cache.accessed : cache.accessed[j] < cache.accessed[k]}
    IN  {k \in DOMAIN cache.accessed : Cardinality(older(k)) < MaxItems \div 2}

evict(cache) ==
    IF Full(cache) THEN [value    |-> Without(cache.value, Expired(cache)),
                         accessed |-> Without(cache.accessed, Expired(cache))]
    ELSE cache

insert(cache, k, v, time) ==
    [value    |-> Assign(evict(cache).value, k, v),
     accessed |-> Assign(evict(cache).accessed, k, time)]

\* Mutant: reading is no access.
touch_Never(cache, k, time) == cache

\* value() of a key that is stored counts as an access.
touch(cache, k, time) ==
    IF k \in Keys(cache) THEN [cache EXCEPT !.accessed = Assign(@, k, time)] ELSE cache

=============================================================================
