---------------------------- MODULE SharedCache ----------------------------
(***************************************************************************)
(* The operations of cache.c on one `struct prometheus_cache`: the buffer  *)
(* in shared memory in which the exporter keeps a whole HTTP response.     *)
(*                                                                         *)
(* A cache is a record: data is the NUL-terminated text, modelled as the   *)
(* sequence of its pieces (a piece stands for one unit of text, so that    *)
(* strlen is Len and memcpy at the end is concatenation), valid_until the  *)
(* second up to which it may be served (0: not valid), size the capacity   *)
(* of data, terminating NUL included.                                      *)
(*                                                                         *)
(* Every operation but Init is called with the cache's lock held; the lock *)
(* belongs to the callers (Metrics, Bridge).                               *)
(***************************************************************************)
EXTENDS Naturals, Sequences

\* pgexporter_time_t holds milliseconds.
MillisPerSecond == 1000

\* pgexporter_time_convert(t, FORMAT_TIME_S): whole seconds, rounded down.
ToSeconds(ms) == ms \div MillisPerSecond

\* pgexporter_time_is_valid: a duration that is switched on.
TimeIsValid(ms) == ms > 0

\* The states of a cache whose text is made of pieces of the set P.
CacheOf(P) == [data : Seq(P), valid_until : Nat, size : Nat]

\* The text and its terminating NUL fit in the buffer.
Fits(cache) == cache.data # << >> => Len(cache.data) < cache.size

\* pgexporter_cache_init: zero-filled buffer.
CacheInit(cache_size) ==
    [data |-> << >>, valid_until |-> 0, size |-> cache_size]

\* pgexporter_cache_is_valid, at second `now`.
CacheIsValid(cache, now) ==
    /\ cache.valid_until # 0
    /\ Len(cache.data) # 0
    /\ now <= cache.valid_until

\* Fault: the text is dropped and the validity is not.
CacheInvalidateKeepsValidity(cache) == [cache EXCEPT !.data = << >>]

\* pgexporter_cache_invalidate.
CacheInvalidate(cache) ==
    [data |-> << >>, valid_until |-> 0, size |-> cache.size]

\* Fault: no room is left for the terminating NUL.
CacheFitsWithoutNul(cache, text) ==
    Len(cache.data) + Len(text) <= cache.size

\* Whether pgexporter_cache_append stores the text or drops everything.
CacheFits(cache, text) ==
    Len(cache.data) + Len(text) < cache.size

\* pgexporter_cache_append: an append that would overflow empties the cache.
CacheAppend(cache, text) ==
    IF CacheFits(cache, text)
    THEN [cache EXCEPT !.data = @ \o text]
    ELSE CacheInvalidate(cache)

\* pgexporter_cache_finalize: from now on the cache may be served.
CacheFinalize(cache, max_age, now) ==
    [cache EXCEPT !.valid_until = now + ToSeconds(max_age)]

=============================================================================
