----------------------------- MODULE ConnCache -----------------------------
(***************************************************************************)
(* The cache of shadowsocks-libev (cache.c) on top of uthash.  A uthash    *)
(* table keeps its entries in the order they were added, so a cache is a   *)
(* sequence of entries, the oldest first, and the operations are functions *)
(* from a cache to the cache they leave; an operation that frees entries   *)
(* has an operator of its own that says which.                             *)
(***************************************************************************)
EXTENDS Naturals, Sequences, SequencesExt

\* HASH_FIND: the position of an entry with this key, 0 for none.
Find(cache, key) == SelectInSeq(cache, LAMBDA e : e.key = key)

Has(cache, key) == Find(cache, key) # 0

\* The data cache_lookup stores, where Has(cache, key).
Data(cache, key) == cache[Find(cache, key)].data

\* Mutant: a hit leaves the entry where it is.
LookupMutant(cache, key) == cache

\* cache_lookup and cache_key_exist: an entry that is found is deleted and added
\* again, which makes it the youngest.
Lookup(cache, key) ==
  IF Has(cache, key)
  THEN Append(RemoveAt(cache, Find(cache, key)), cache[Find(cache, key)])
  ELSE cache

\* cache_insert adds the entry, without a look at its key (malloc does not fail), ...
Added(cache, key, data) == Append(cache, [key |-> key, data |-> data])

\* Mutant: room is made only when the capacity is exceeded.
IsFullMutant(cache, capacity) == Len(cache) > capacity

\* ... and then makes room, if that filled the cache: the oldest entry goes.
IsFull(cache, capacity) == Len(cache) >= capacity

Insert(cache, key, data, capacity) ==
  LET c == Added(cache, key, data) IN IF IsFull(c, capacity) THEN Tail(c) ELSE c

\* The data free_cb is called with.
InsertFrees(cache, key, data, capacity) ==
  LET c == Added(cache, key, data) IN IF IsFull(c, capacity) THEN {Head(c).data} ELSE {}

\* cache_remove.
Remove1(cache, key) ==
  IF Has(cache, key) THEN RemoveAt(cache, Find(cache, key)) ELSE cache

Remove1Frees(cache, key) == IF Has(cache, key) THEN {Data(cache, key)} ELSE {}

\* cache_delete with keep_data = 0 empties the cache and frees all of this.
DeleteFrees(cache) == {cache[i].data : i \in DOMAIN cache}
=============================================================================
