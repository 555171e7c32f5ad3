------------------------------- MODULE Bridge -------------------------------
(***************************************************************************)
(* The bridge (bridge.c): a port that scrapes other Prometheus endpoints   *)
(* and serves the union of their metrics, and a second port that serves    *)
(* the same metrics as JSON.  The children of both ports share two caches  *)
(* in shared memory, each with a lock of its own:                          *)
(*                                                                         *)
(*   - metrics_page takes the lock of the bridge cache and, when the cache *)
(*     is not valid, calls bridge_metrics, which takes the same lock       *)
(*     again, then the JSON lock, fills both caches and releases both;     *)
(*     afterwards metrics_page releases the bridge lock once more;         *)
(*   - bridge_json_metrics serves the JSON cache under the JSON lock.      *)
(*                                                                         *)
(* atomic_compare_exchange_strong stores the value it found in its         *)
(* `expected` argument when it fails.  metrics_page sets that argument     *)
(* again before every attempt; the other three loops set it only once, so  *)
(* it is part of their state.                                              *)
(***************************************************************************)
EXTENDS SharedCache, Integers

CONSTANTS
    BridgeChild,            \* processes serving the bridge port, one request each
    JsonChild,              \* processes serving the JSON port, one request each
    NoText,                 \* the empty JSON cache
    LastMetric,             \* a bridge response is the metrics 1..LastMetric
    bridge_cache_max_size,  \* capacity of the bridge cache, 0: disabled
    bridge_cache_max_age,   \* milliseconds
    JsonConfigured,         \* the JSON port is configured
    BlockingTimeout,        \* seconds a process waits for a lock
    Faults,                 \* the failures that happen: some of FaultKinds
    MaxTime                 \* bound on the clock

FaultKinds == {"write_error", "sigpipe", "no_memory"}

ASSUME BridgeAssumption ==
    /\ BridgeChild \cap JsonChild = {}
    /\ NoText \notin BridgeChild
    /\ LastMetric \in Nat \ {0}
    /\ bridge_cache_max_size \in Nat
    /\ bridge_cache_max_age \in Nat
    /\ JsonConfigured \in BOOLEAN
    /\ BlockingTimeout \in Nat \ {0}
    /\ Faults \subseteq FaultKinds
    /\ MaxTime \in Nat

VARIABLES
    lock,        \* the bridge cache's lock
    json_lock,   \* the JSON cache's lock
    cache,       \* the bridge cache
    json,        \* the JSON cache: who wrote it, or NoText
    now,         \* time(NULL)
    pc,          \* where each child is
    expected,    \* cache_is_free of bridge_metrics and bridge_json_metrics
    expected_json, \* cache_json_is_free of bridge_metrics
    start_time,  \* start of the current retry loop
    part         \* the next metric bridge_metrics outputs

vars == << lock, json_lock, cache, json, now, pc, expected, expected_json, start_time, part >>

Child == BridgeChild \cup JsonChild
Piece == [by : BridgeChild, part : 1..LastMetric]

\* is_bridge_cache_configured.
Configured == TimeIsValid(bridge_cache_max_age) /\ bridge_cache_max_size # 0

\* bridge_cache_size_to_alloc (reading the configuration caps the size).
SizeToAlloc == IF Configured THEN bridge_cache_max_size ELSE 0

\* Inside the outer locked branch of metrics_page; "json_lost" and its release
\* of the bridge lock follow a bridge_metrics that failed with the JSON lock.
Outer == {"hit", "miss", "scrape", "relock", "json_relock", "output", "json_clear",
          "json_copy", "finalize", "unlock_cache", "json_unlock", "end", "unlock",
          "json_lost", "json_lost_unlock"}

JsonReading == {"json_start", "json_check", "json_data", "json_empty", "json_release"}

PC == {"idle", "wait", "json_wait", "ended", "leaked", "crashed"} \cup Outer \cup JsonReading

Init ==
    /\ lock = "free"
    /\ json_lock = "free"
    /\ cache = CacheInit(SizeToAlloc)
    /\ json = NoText
    /\ now = 1
    /\ pc = [c \in Child |-> "idle"]
    /\ expected = [c \in Child |-> "free"]
    /\ expected_json = [c \in Child |-> "free"]
    /\ start_time = [c \in Child |-> 0]
    /\ part = [c \in Child |-> 1]

Goto(c, where) == pc' = [pc EXCEPT ![c] = where]

\* Fault: seconds are compared with milliseconds.
ExpiredInMilliseconds(c) == now - start_time[c] >= BlockingTimeout * MillisPerSecond

\* The retry loop that began at start_time[c] gives up.
Expired(c) == now - start_time[c] >= BlockingTimeout

\* A write whose error status ends the request with the lock still taken.
WriteThen(c, next) ==
    \/ Goto(c, next)
    \/ Faults \cap {"write_error", "sigpipe"} # {} /\ Goto(c, "leaked")

\* A write whose status is ignored: only SIGPIPE ends the process.
WriteIgnored(c, next) ==
    \/ Goto(c, next)
    \/ "sigpipe" \in Faults /\ Goto(c, "leaked")

-----------------------------------------------------------------------------
(* metrics_page.                                                           *)

\* pgexporter_bridge reads the request and dispatches it.  Without a cache
\* main.c allocates none, and metrics_page dereferences a null pointer.
\* Bound: no request arrives so late that its timeout is beyond MaxTime.
Serve(c) ==
    /\ c \in BridgeChild
    /\ pc[c] = "idle"
    /\ now + 2 * BlockingTimeout <= MaxTime
    /\ \/ Goto(c, IF Configured THEN "wait" ELSE "crashed")
       \/ Goto(c, "ended")
    /\ start_time' = [start_time EXCEPT ![c] = now]
    /\ UNCHANGED << lock, json_lock, cache, json, now, expected, expected_json, part >>

Lock(c) ==
    /\ pc[c] = "wait"
    /\ lock = "free"
    /\ lock' = "in_use"
    /\ Goto(c, IF CacheIsValid(cache, now) THEN "hit" ELSE "miss")
    /\ UNCHANGED << json_lock, cache, json, now, expected, expected_json, start_time, part >>

TimeOut(c) ==
    /\ pc[c] = "wait"
    /\ lock # "free"
    /\ Expired(c)
    /\ Goto(c, "ended")
    /\ UNCHANGED << lock, json_lock, cache, json, now, expected, expected_json, start_time, part >>

\* chunked_start, the cached text, chunked_end.
ServeHit(c) ==
    /\ pc[c] = "hit"
    /\ WriteThen(c, "unlock")
    /\ UNCHANGED << lock, json_lock, cache, json, now, expected, expected_json, start_time, part >>

\* bridge_cache_invalidate, chunked_start.
StartResponse(c) ==
    /\ pc[c] = "miss"
    /\ cache' = CacheInvalidate(cache)
    /\ WriteThen(c, "scrape")
    /\ UNCHANGED << lock, json_lock, json, now, expected, expected_json, start_time, part >>

\* Fault: bridge_metrics is trusted to have released the lock.
EndResponseOnly(c) ==
    /\ pc[c] = "end"
    /\ WriteIgnored(c, "ended")
    /\ UNCHANGED << lock, json_lock, cache, json, now, expected, expected_json, start_time, part >>

\* chunked_end, whatever became of bridge_metrics.
EndResponse(c) ==
    /\ \/ pc[c] = "end" /\ WriteIgnored(c, "unlock")
       \/ pc[c] = "json_lost" /\ WriteIgnored(c, "json_lost_unlock")
    /\ UNCHANGED << lock, json_lock, cache, json, now, expected, expected_json, start_time, part >>

\* "leaked": the process is over and one of the locks is still taken.
Unlock(c) ==
    /\ pc[c] \in {"unlock", "json_lost_unlock"}
    /\ lock' = "free"
    /\ Goto(c, IF pc[c] = "unlock" THEN "ended" ELSE "leaked")
    /\ UNCHANGED << json_lock, cache, json, now, expected, expected_json, start_time, part >>

-----------------------------------------------------------------------------
(* bridge_metrics.                                                         *)

\* The endpoints are scraped into a bridge, an iterator is created, and the
\* two expected values are set, once.
Scrape(c) ==
    /\ pc[c] = "scrape"
    /\ \/ Goto(c, "relock")
       \/ "no_memory" \in Faults /\ Goto(c, "end")
    /\ start_time' = [start_time EXCEPT ![c] = now]
    /\ expected' = [expected EXCEPT ![c] = "free"]
    /\ expected_json' = [expected_json EXCEPT ![c] = "free"]
    /\ UNCHANGED << lock, json_lock, cache, json, now, part >>

\* The second acquisition of the lock that metrics_page already holds.
Relock(c) ==
    /\ pc[c] = "relock"
    /\ \/ /\ lock = expected[c]
          /\ lock' = "in_use"
          /\ cache' = CacheInvalidate(cache)
          /\ Goto(c, IF JsonConfigured THEN "json_relock" ELSE "output")
          /\ UNCHANGED expected
       \/ /\ lock # expected[c]
          /\ expected' = [expected EXCEPT ![c] = lock]
          /\ Goto(c, IF Expired(c) THEN "end" ELSE "relock")
          /\ UNCHANGED << lock, cache >>
    /\ UNCHANGED << json_lock, json, now, expected_json, start_time, part >>

JsonRelock(c) ==
    /\ pc[c] = "json_relock"
    /\ \/ /\ json_lock = expected_json[c]
          /\ json_lock' = "in_use"
          /\ Goto(c, "output")
          /\ UNCHANGED expected_json
       \/ /\ json_lock # expected_json[c]
          /\ expected_json' = [expected_json EXCEPT ![c] = json_lock]
          /\ Goto(c, IF Expired(c) THEN "end" ELSE "json_relock")
          /\ UNCHANGED json_lock
    /\ UNCHANGED << lock, cache, json, now, expected, start_time, part >>

\* Fault: the loop over the metrics makes one turn too many.
OutputPastEnd(c) ==
    /\ pc[c] = "output"
    /\ cache' = CacheAppend(cache, << [by |-> c, part |-> part[c]] >>)
    /\ part' = [part EXCEPT ![c] = @ + 1]
    /\ Goto(c, IF part[c] <= LastMetric THEN "output" ELSE "finalize")
    /\ UNCHANGED << lock, json_lock, json, now, expected, expected_json, start_time >>

\* One metric: appended to the cache, then written with the status ignored.
\* A failing deque iterator ends bridge_metrics, the JSON lock still taken.
Output(c) ==
    /\ pc[c] = "output"
    /\ \/ /\ cache' = CacheAppend(cache, << [by |-> c, part |-> part[c]] >>)
          /\ part' = [part EXCEPT ![c] = @ + 1]
          /\ WriteIgnored(c, IF part[c] < LastMetric THEN "output"
                             ELSE IF JsonConfigured THEN "json_clear"
                             ELSE "finalize")
       \/ /\ "no_memory" \in Faults
          /\ Goto(c, IF JsonConfigured THEN "json_lost" ELSE "end")
          /\ UNCHANGED << cache, part >>
    /\ UNCHANGED << lock, json_lock, json, now, expected, expected_json, start_time >>

\* bridge_json_cache_set: the buffer is cleared, then the text is copied if
\* it fits.
JsonClear(c) ==
    /\ pc[c] = "json_clear"
    /\ json' = NoText
    /\ Goto(c, "json_copy")
    /\ UNCHANGED << lock, json_lock, cache, now, expected, expected_json, start_time, part >>

JsonCopy(c) ==
    /\ pc[c] = "json_copy"
    /\ json' = c \/ UNCHANGED json
    /\ Goto(c, "finalize")
    /\ UNCHANGED << lock, json_lock, cache, now, expected, expected_json, start_time, part >>

Finalize(c) ==
    /\ pc[c] = "finalize"
    /\ cache' = CacheFinalize(cache, bridge_cache_max_age, now)
    /\ Goto(c, "unlock_cache")
    /\ UNCHANGED << lock, json_lock, json, now, expected, expected_json, start_time, part >>

\* The first of the two releases of the bridge lock.
UnlockCache(c) ==
    /\ pc[c] = "unlock_cache"
    /\ lock' = "free"
    /\ Goto(c, IF JsonConfigured THEN "json_unlock" ELSE "end")
    /\ UNCHANGED << json_lock, cache, json, now, expected, expected_json, start_time, part >>

JsonUnlock(c) ==
    /\ pc[c] = "json_unlock"
    /\ json_lock' = "free"
    /\ Goto(c, "end")
    /\ UNCHANGED << lock, cache, json, now, expected, expected_json, start_time, part >>

-----------------------------------------------------------------------------
(* bridge_json_metrics.                                                    *)

\* The JSON port exists only when it is configured.
JsonServe(c) ==
    /\ c \in JsonChild
    /\ JsonConfigured
    /\ pc[c] = "idle"
    /\ now + BlockingTimeout <= MaxTime
    /\ Goto(c, "json_wait") \/ Goto(c, "ended")
    /\ start_time' = [start_time EXCEPT ![c] = now]
    /\ UNCHANGED << lock, json_lock, cache, json, now, expected, expected_json, part >>

JsonLock(c) ==
    /\ pc[c] = "json_wait"
    /\ \/ /\ json_lock = expected[c]
          /\ json_lock' = "in_use"
          /\ Goto(c, "json_start")
          /\ UNCHANGED expected
       \/ /\ json_lock # expected[c]
          /\ expected' = [expected EXCEPT ![c] = json_lock]
          /\ Goto(c, IF Expired(c) THEN "ended" ELSE "json_wait")
          /\ UNCHANGED json_lock
    /\ UNCHANGED << lock, cache, json, now, expected_json, start_time, part >>

JsonStart(c) ==
    /\ pc[c] = "json_start"
    /\ WriteThen(c, "json_check")
    /\ UNCHANGED << lock, json_lock, cache, json, now, expected, expected_json, start_time, part >>

\* strlen(cache->data) > 0 decides between the text and an empty object ...
JsonCheck(c) ==
    /\ pc[c] = "json_check"
    /\ Goto(c, IF json # NoText THEN "json_data" ELSE "json_empty")
    /\ UNCHANGED << lock, json_lock, cache, json, now, expected, expected_json, start_time, part >>

\* ... which is then written, with the end of the response.
JsonWrite(c) ==
    /\ pc[c] \in {"json_data", "json_empty"}
    /\ WriteIgnored(c, "json_release")
    /\ UNCHANGED << lock, json_lock, cache, json, now, expected, expected_json, start_time, part >>

JsonRelease(c) ==
    /\ pc[c] = "json_release"
    /\ json_lock' = "free"
    /\ Goto(c, "ended")
    /\ UNCHANGED << lock, cache, json, now, expected, expected_json, start_time, part >>

-----------------------------------------------------------------------------

Tick ==
    /\ now < MaxTime
    /\ now' = now + 1
    /\ UNCHANGED << lock, json_lock, cache, json, pc, expected, expected_json, start_time, part >>

\* A turn of one of the four retry loops.
Attempt(c) == Lock(c) \/ TimeOut(c) \/ Relock(c) \/ JsonRelock(c) \/ JsonLock(c)

\* A step of a child outside the retry loops.
Work(c) ==
    \/ ServeHit(c) \/ StartResponse(c) \/ EndResponse(c) \/ Unlock(c)
    \/ Scrape(c) \/ Output(c) \/ JsonClear(c) \/ JsonCopy(c) \/ Finalize(c)
    \/ UnlockCache(c) \/ JsonUnlock(c)
    \/ JsonStart(c) \/ JsonCheck(c) \/ JsonWrite(c) \/ JsonRelease(c)

Next ==
    \/ \E c \in Child : Serve(c) \/ JsonServe(c) \/ Attempt(c) \/ Work(c)
    \/ Tick

Spec == Init /\ [][Next]_vars

(***************************************************************************)
(* Fairness: time passes and a process in a retry loop tries again.        *)
(***************************************************************************)
WaiterSpec == Spec /\ WF_vars(Tick) /\ \A c \in Child : WF_vars(Attempt(c))

-----------------------------------------------------------------------------
(* Properties.                                                             *)

\* Every variable of the bridge keeps its type.
TypeOK ==
    /\ lock \in {"free", "in_use"}
    /\ json_lock \in {"free", "in_use"}
    /\ cache \in CacheOf(Piece)
    /\ json \in BridgeChild \cup {NoText}
    /\ now \in Nat
    /\ pc \in [Child -> PC]
    /\ expected \in [Child -> {"free", "in_use"}]
    /\ expected_json \in [Child -> {"free", "in_use"}]
    /\ start_time \in [Child -> Nat]
    /\ part \in [Child -> 1..LastMetric + 1]

\* The JSON lock is held, or was lost, in these steps of bridge_metrics.
JsonHolding ==
    {"output", "json_clear", "json_copy", "finalize", "unlock_cache", "json_unlock",
     "json_lost", "json_lost_unlock"}

\* However the two ports contend for the two locks, and although a stale
\* expected value lets a process take a lock that is in use, a lock that is
\* in use has a process that will still release it, or that was lost with it:
\* no interleaving leaves a lock taken that nobody remembers.
LockHasReleaser ==
    /\ lock = "in_use" =>
           \E c \in BridgeChild : pc[c] \in Outer \cup {"leaked"}
    /\ json_lock = "in_use" =>
           \E c \in Child : pc[c] \in JsonHolding \cup JsonReading \cup {"leaked"}

\* A child in any of the four retry loops leaves it, whatever the holders of
\* the locks do: the blocking timeout also ends the loop in which a process
\* waits for the lock it holds itself.
WaiterAnswered ==
    \A c \in Child : \A loop \in {"wait", "relock", "json_relock", "json_wait"} :
        pc[c] = loop ~> pc[c] # loop

\* The bridge cache holds the output of one request, in order: its operations
\* "require the caller to hold the lock on the cache" (bridge.c).
OneScrape ==
    \A i, j \in 1..Len(cache.data) :
        i < j => /\ cache.data[i].by = cache.data[j].by
                 /\ cache.data[i].part < cache.data[j].part

=============================================================================
