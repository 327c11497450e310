-------------------------------- MODULE Cache --------------------------------
(***************************************************************************)
(* Cache: a map from keys to values whose entries expire by buckets of     *)
(* time.  Each operation takes the cache and the time.  The example relay  *)
(* and client keep the objects of a group under the group's id.            *)
(***************************************************************************)
EXTENDS Integers, FiniteSets

CONSTANTS
    CacheInterval,  \* interval_
    CacheBuckets    \* total_buckets_

ASSUME CacheAssumption == CacheInterval \in Nat \ {0} /\ CacheBuckets \in Nat \ {0, 1}

CacheDuration == CacheInterval * CacheBuckets
CacheSlots == 0..(CacheBuckets - 1)

NewCache ==
    [bucket_index |-> 0, current_ticks |-> 0, buckets |-> [i \in CacheSlots |-> {}], cache |-> <<>>]

ClearCache(c) == [NewCache EXCEPT !.current_ticks = c.current_ticks]

\* Mutant: the bucket that becomes the current one is cleared with those before it.
AdvanceOneMore(c, ticks) ==
    LET delta == IF c.current_ticks # 0 THEN (ticks - c.current_ticks) \div CacheInterval ELSE 0
        r == [c EXCEPT !.current_ticks = ticks]
        past == {(c.bucket_index + i) % CacheBuckets : i \in 0..delta}
        gone == UNION {c.buckets[i] : i \in past}
    IN  IF delta = 0 THEN r
        ELSE IF delta >= CacheBuckets THEN ClearCache(r)
        ELSE [r EXCEPT !.cache = [k \in DOMAIN @ \ gone |-> @[k]],
                       !.buckets = [i \in CacheSlots |-> IF i \in past THEN {} ELSE @[i]],
                       !.bucket_index = (@ + delta) % CacheBuckets]

\* The buckets that time has passed are emptied, and their keys leave the map.
AdvanceCache(c, ticks) ==
    LET delta == IF c.current_ticks # 0 THEN (ticks - c.current_ticks) \div CacheInterval ELSE 0
        r == [c EXCEPT !.current_ticks = ticks]
        past == {(c.bucket_index + i) % CacheBuckets : i \in 0..(delta - 1)}
        gone == UNION {c.buckets[i] : i \in past}
    IN  IF delta = 0 THEN r
        ELSE IF delta >= CacheBuckets THEN ClearCache(r)
        ELSE [r EXCEPT !.cache = [k \in DOMAIN @ \ gone |-> @[k]],
                       !.buckets = [i \in CacheSlots |-> IF i \in past THEN {} ELSE @[i]],
                       !.bucket_index = (@ + delta) % CacheBuckets]

\* InternalInsert, with a ttl of 0 or of at least an interval.
Insert(c, ticks, key, value, ttl) ==
    LET n == (IF ttl = 0 THEN CacheDuration ELSE ttl) \div CacheInterval
        r == AdvanceCache(c, ticks)
        b == (r.bucket_index + n - 1) % CacheBuckets
    IN  [r EXCEPT !.buckets[b] = @ \cup {key},
                  !.cache = [k \in DOMAIN @ \cup {key} |-> IF k = key THEN value ELSE @[k]]]

\* Get of a range: from start on to the end key, and to the end of the map when the end
\* key is not there.
GetRange(c, start, end) ==
    LET from == {k \in DOMAIN c.cache : k >= start}
    IN  IF start \notin DOMAIN c.cache THEN {}
        ELSE IF end \in from THEN {k \in from : k <= end} ELSE from
=============================================================================
