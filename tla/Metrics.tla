------------------------------ MODULE Metrics ------------------------------
(***************************************************************************)
(* The /metrics endpoint (prometheus.c, metrics_page): every accepted      *)
(* connection is served by a child process, and the children share one     *)
(* response cache and its lock with each other and with the main process.  *)
(*                                                                         *)
(*   - a child takes the lock, or waits for it up to the blocking timeout; *)
(*   - with a valid cache it writes the cached response;                   *)
(*   - otherwise it empties the cache and builds the response part by      *)
(*     part, writing each part to its client and appending it to the       *)
(*     cache, and finally marks the cache valid;                           *)
(*   - the main process, in its event loop, accepts connections, resets    *)
(*     the cache on request (MANAGEMENT_RESET) and stops on SIGTERM;       *)
(*   - the cache's maximal age is in shared memory too and is changed at   *)
(*     run time (conf set, reload).                                        *)
(*                                                                         *)
(* A write to the client may succeed, fail, or kill the child: SIGPIPE     *)
(* keeps its default action.  Two calls of metrics_page touch no state     *)
(* modelled here: storing the scrape (lines 544-559), which is in History, *)
(* and closing the PostgreSQL connections on the error path.               *)
(***************************************************************************)
EXTENDS SharedCache, Integers

CONSTANTS
    Child,                  \* the processes forked for requests, one request each
    Main,                   \* the main process
    NoProc,                 \* no process
    LastPart,               \* the parts of a response: 0 the header, 1..LastPart the body
    PartLength,             \* PartLength[p]: length of the text of part p
    metrics_cache_max_size, \* configured capacity of the cache, 0: the default
    MaxAges,                \* values metrics_cache_max_age is given, milliseconds
    blocking_timeout,       \* configured wait for the lock, milliseconds
    DefaultCacheSize,       \* PROMETHEUS_DEFAULT_CACHE_SIZE
    MaxCacheSize,           \* PROMETHEUS_MAX_CACHE_SIZE
    DefaultBlockingTimeout, \* DEFAULT_BLOCKING_TIMEOUT_SECONDS
    Faults,                 \* the failures that happen: some of FaultKinds
    MaxTime                 \* bound on the clock

\* A write fails with an error status or by SIGPIPE; an allocation fails.
FaultKinds == {"write_error", "sigpipe", "no_memory"}

ASSUME LastPartAssumption == LastPart \in Nat \ {0}
ASSUME FaultsAssumption == Faults \subseteq FaultKinds
ASSUME PartLengthAssumption == PartLength \in [0..LastPart -> Nat \ {0}]
ASSUME SizesAssumption ==
    /\ metrics_cache_max_size \in Nat
    /\ DefaultCacheSize \in Nat
    /\ MaxCacheSize \in Nat
ASSUME MaxAgesAssumption == MaxAges \subseteq Nat
ASSUME TimeoutAssumption ==
    /\ blocking_timeout \in Nat
    /\ DefaultBlockingTimeout \in Nat
    /\ MaxTime \in Nat
ASSUME ProcsAssumption ==
    /\ Main \notin Child
    /\ NoProc \notin Child \cup {Main}

VARIABLES
    lock,            \* cache->lock: STATE_FREE or STATE_IN_USE
    cache,           \* the prometheus_cache, without its lock
    max_age,         \* config->metrics_cache_max_age
    now,             \* time(NULL), seconds
    pc,              \* where each child is in its request
    start_time,      \* metrics_page's start_time, per child
    part,            \* the next part of the response the child outputs
    built,           \* the text the child has produced for its client so far
    main,            \* what the main process is doing
    sigterm,         \* a SIGTERM is pending in the main process
    logging_error    \* config->logging_error

vars == << lock, cache, max_age, now, pc, start_time, part, built,
           main, sigterm, logging_error >>

-----------------------------------------------------------------------------
(* Text.  A piece says who produced it and which part it belongs to.       *)

\* The blank line that ends the header: written to the client, not cached.
EndOfHeader == -1

Piece == [by : Child, part : 0..LastPart]
Sent == [by : Child, part : 0..LastPart \cup {EndOfHeader}]
Mark(c) == << [by |-> c, part |-> EndOfHeader] >>
Text(c, p) == [i \in 1..PartLength[p] |-> [by |-> c, part |-> p]]

-----------------------------------------------------------------------------
(* Configuration.                                                          *)

\* is_metrics_cache_configured (the metrics port is on, or nobody asks).
Configured == TimeIsValid(max_age)

\* metrics_cache_size_to_alloc, evaluated once, when the daemon starts.
SizeToAlloc(age) ==
    IF ~ TimeIsValid(age) THEN 0
    ELSE IF metrics_cache_max_size = 0 THEN DefaultCacheSize
    ELSE IF metrics_cache_max_size < MaxCacheSize THEN metrics_cache_max_size
    ELSE MaxCacheSize

\* The seconds after which a child gives up waiting for the lock.
BlockingTimeout ==
    IF ToSeconds(blocking_timeout) > 0
    THEN ToSeconds(blocking_timeout)
    ELSE DefaultBlockingTimeout

\* metrics_cache_append and metrics_cache_finalize do nothing when the
\* cache is switched off at the moment of the call.
MetricsCacheAppend(text) ==
    IF Configured THEN CacheAppend(cache, text) ELSE cache

MetricsCacheFinalize ==
    IF Configured THEN CacheFinalize(cache, max_age, now) ELSE cache

-----------------------------------------------------------------------------
(* Program counters.                                                       *)

\* Inside the branch that holds the lock.
Critical == {"hit", "miss", "header", "scrape", "output", "footer", "unlock"}

\* "ended": the request is over and the lock was not held; "leaked": the
\* process is over and it left the lock taken.
PC == {"idle", "wait", "ended", "leaked"} \cup Critical

MainState == {"loop", "reset", "reset_locked", "reset_unlock", "stopped"}

Init ==
    /\ max_age \in MaxAges
    /\ cache = CacheInit(SizeToAlloc(max_age))
    /\ lock = "free"
    /\ now = 1
    /\ pc = [c \in Child |-> "idle"]
    /\ start_time = [c \in Child |-> 0]
    /\ part = [c \in Child |-> 0]
    /\ built = [c \in Child |-> << >>]
    /\ main = "loop"
    /\ sigterm = FALSE
    /\ logging_error = 0

Goto(c, where) == pc' = [pc EXCEPT ![c] = where]

-----------------------------------------------------------------------------
(* The child.                                                              *)

\* accept_http_cb forks, pgexporter_prometheus reads the request and
\* dispatches it: /metrics goes on to metrics_page, any other path or a
\* request that cannot be read is answered without touching the cache.
\* Bound: no request arrives so late that its timeout is beyond MaxTime.
Serve(c) ==
    /\ main = "loop"
    /\ pc[c] = "idle"
    /\ now + BlockingTimeout <= MaxTime
    /\ \/ /\ Goto(c, "wait")
          /\ start_time' = [start_time EXCEPT ![c] = now]
       \/ /\ Goto(c, "ended")
          /\ UNCHANGED start_time
    /\ UNCHANGED << lock, cache, max_age, now, part, built, main, sigterm, logging_error >>

\* The compare-and-exchange succeeds; the response is in the cache or not.
Lock(c) ==
    /\ pc[c] = "wait"
    /\ lock = "free"
    /\ lock' = "in_use"
    /\ IF Configured /\ CacheIsValid(cache, now) THEN Goto(c, "hit") ELSE Goto(c, "miss")
    /\ UNCHANGED << cache, max_age, now, start_time, part, built, main, sigterm, logging_error >>

\* Fault: the child frees the lock it did not get.
TimeOutReleases(c) ==
    /\ pc[c] = "wait"
    /\ lock # "free"
    /\ now - start_time[c] >= BlockingTimeout
    /\ lock' = "free"
    /\ Goto(c, "ended")
    /\ UNCHANGED << cache, max_age, now, start_time, part, built, main, sigterm, logging_error >>

\* Fault: seconds are compared with milliseconds.
TimeOutInMilliseconds(c) ==
    /\ pc[c] = "wait"
    /\ lock # "free"
    /\ now - start_time[c] >= blocking_timeout
    /\ Goto(c, "ended")
    /\ UNCHANGED << lock, cache, max_age, now, start_time, part, built, main, sigterm, logging_error >>

\* The compare-and-exchange fails and the blocking timeout has passed.
TimeOut(c) ==
    /\ pc[c] = "wait"
    /\ lock # "free"
    /\ now - start_time[c] >= BlockingTimeout
    /\ Goto(c, "ended")
    /\ UNCHANGED << lock, cache, max_age, now, start_time, part, built, main, sigterm, logging_error >>

\* One turn of the retry loop that changes something.
Attempt(c) == Lock(c) \/ TimeOut(c)

\* pgexporter_write_message where an error ends the request: the error path
\* of metrics_page returns without releasing the lock, and a process killed
\* by SIGPIPE does not release it either.
WriteThen(c, next) ==
    \/ Goto(c, next)
    \/ Faults \cap {"write_error", "sigpipe"} # {} /\ Goto(c, "leaked")

\* Write the cached response.
ServeHit(c) ==
    /\ pc[c] = "hit"
    /\ WriteThen(c, "unlock")
    /\ UNCHANGED << lock, cache, max_age, now, start_time, part, built, main, sigterm, logging_error >>

\* Fault: the cache is not emptied first.
BuildHeaderAppends(c) ==
    /\ pc[c] = "miss"
    /\ cache' = MetricsCacheAppend(Text(c, 0))
    /\ built' = [built EXCEPT ![c] = Text(c, 0) \o Mark(c)]
    /\ Goto(c, "header")
    /\ UNCHANGED << lock, max_age, now, start_time, part, main, sigterm, logging_error >>

\* Empty the cache, then cache the header without its end ...
BuildHeader(c) ==
    /\ pc[c] = "miss"
    /\ cache' = IF Configured
                THEN CacheAppend(CacheInvalidate(cache), Text(c, 0))
                ELSE CacheInvalidate(cache)
    /\ built' = [built EXCEPT ![c] = Text(c, 0) \o Mark(c)]
    /\ Goto(c, "header")
    /\ UNCHANGED << lock, max_age, now, start_time, part, main, sigterm, logging_error >>

\* ... and write it with its end.
WriteHeader(c) ==
    /\ pc[c] = "header"
    /\ WriteThen(c, "scrape")
    /\ UNCHANGED << lock, cache, max_age, now, start_time, part, built, main, sigterm, logging_error >>

\* pgexporter_prometheus_scrape: fails only when the container cannot be
\* created, and then the error path leaves the lock taken.
Scrape(c) ==
    /\ pc[c] = "scrape"
    /\ \/ /\ Goto(c, "output")
          /\ part' = [part EXCEPT ![c] = 1]
          /\ UNCHANGED logging_error
       \/ /\ "no_memory" \in Faults
          /\ Goto(c, "leaked")
          /\ logging_error' = logging_error + 1
          /\ UNCHANGED part
    /\ UNCHANGED << lock, cache, max_age, now, start_time, built, main, sigterm >>

\* Fault: the last part is written and not cached.
OutputWithoutLast(c) ==
    /\ pc[c] = "output"
    /\ built' = [built EXCEPT ![c] = @ \o Text(c, part[c])]
    /\ cache' = IF part[c] = LastPart THEN cache ELSE MetricsCacheAppend(Text(c, part[c]))
    /\ part' = [part EXCEPT ![c] = @ + 1]
    /\ Goto(c, IF part[c] = LastPart THEN "footer" ELSE "output")
    /\ UNCHANGED << lock, max_age, now, start_time, main, sigterm, logging_error >>

\* output_art_metrics for one tree, or one turn of
\* prometheus_endpoints_information: a part without text is skipped, the
\* status of the write is ignored, but SIGPIPE kills the process before it
\* reaches the append.
Output(c) ==
    /\ pc[c] = "output"
    /\ \/ /\ built' = [built EXCEPT ![c] = @ \o Text(c, part[c])]
          /\ \/ /\ cache' = MetricsCacheAppend(Text(c, part[c]))
                /\ part' = [part EXCEPT ![c] = @ + 1]
                /\ Goto(c, IF part[c] = LastPart THEN "footer" ELSE "output")
             \/ /\ "sigpipe" \in Faults
                /\ Goto(c, "leaked")
                /\ UNCHANGED << cache, part >>
       \/ /\ part' = [part EXCEPT ![c] = @ + 1]
          /\ Goto(c, IF part[c] = LastPart THEN "footer" ELSE "output")
          /\ UNCHANGED << cache, built >>
    /\ UNCHANGED << lock, max_age, now, start_time, main, sigterm, logging_error >>

\* pgexporter_http_respond_chunked_end, then metrics_cache_finalize.
Footer(c) ==
    /\ pc[c] = "footer"
    /\ WriteThen(c, "unlock")
    /\ cache' = IF pc'[c] = "unlock" THEN MetricsCacheFinalize ELSE cache
    /\ UNCHANGED << lock, max_age, now, start_time, part, built, main, sigterm, logging_error >>

\* Fault: the request ends without releasing the lock.
UnlockMissing(c) ==
    /\ pc[c] = "unlock"
    /\ Goto(c, "ended")
    /\ UNCHANGED << lock, cache, max_age, now, start_time, part, built, main, sigterm, logging_error >>

\* atomic_store(&cache->lock, STATE_FREE), and the process ends.
Unlock(c) ==
    /\ pc[c] = "unlock"
    /\ lock' = "free"
    /\ Goto(c, "ended")
    /\ UNCHANGED << cache, max_age, now, start_time, part, built, main, sigterm, logging_error >>

-----------------------------------------------------------------------------
(* The main process.                                                       *)

\* Fault: the reset does not take the lock.
ResetWithoutLock ==
    /\ main = "loop"
    /\ cache' = CacheInvalidate(cache)
    /\ logging_error' = 0
    /\ UNCHANGED << lock, max_age, now, pc, start_time, part, built, main, sigterm >>

\* accept_mgt_cb, MANAGEMENT_RESET: pgexporter_prometheus_reset is called
\* from the event loop and spins until it has the lock.
Reset ==
    /\ main = "loop"
    /\ main' = "reset"
    /\ UNCHANGED << lock, cache, max_age, now, pc, start_time, part, built, sigterm, logging_error >>

ResetLock ==
    /\ main = "reset"
    /\ lock = "free"
    /\ lock' = "in_use"
    /\ main' = "reset_locked"
    /\ UNCHANGED << cache, max_age, now, pc, start_time, part, built, sigterm, logging_error >>

\* Fault: the counter is decremented instead of cleared.
ResetDecrements ==
    /\ main = "reset_locked"
    /\ cache' = CacheInvalidate(cache)
    /\ logging_error' = logging_error - 1
    /\ main' = "reset_unlock"
    /\ UNCHANGED << lock, max_age, now, pc, start_time, part, built, sigterm >>

\* metrics_cache_invalidate, and the logging counters start again.
ResetInvalidate ==
    /\ main = "reset_locked"
    /\ cache' = CacheInvalidate(cache)
    /\ logging_error' = 0
    /\ main' = "reset_unlock"
    /\ UNCHANGED << lock, max_age, now, pc, start_time, part, built, sigterm >>

\* Fault: the reset returns with the lock.
ResetUnlockMissing ==
    /\ main = "reset_unlock"
    /\ main' = "loop"
    /\ UNCHANGED << lock, cache, max_age, now, pc, start_time, part, built, sigterm, logging_error >>

ResetUnlock ==
    /\ main = "reset_unlock"
    /\ lock' = "free"
    /\ main' = "loop"
    /\ UNCHANGED << cache, max_age, now, pc, start_time, part, built, sigterm, logging_error >>

\* The signal handler only records the signal ...
SigTerm ==
    /\ main # "stopped"
    /\ ~ sigterm
    /\ sigterm' = TRUE
    /\ UNCHANGED << lock, cache, max_age, now, pc, start_time, part, built, main, logging_error >>

\* ... and shutdown_cb runs when the event loop dispatches it.
Shutdown ==
    /\ main = "loop"
    /\ sigterm
    /\ main' = "stopped"
    /\ UNCHANGED << lock, cache, max_age, now, pc, start_time, part, built, sigterm, logging_error >>

\* A conf set (a child of its own) or a reload stores a new maximal age.
SetMaxAge ==
    /\ \E age \in MaxAges \ {max_age} : max_age' = age
    /\ UNCHANGED << lock, cache, now, pc, start_time, part, built, main, sigterm, logging_error >>

Tick ==
    /\ now < MaxTime
    /\ now' = now + 1
    /\ UNCHANGED << lock, cache, max_age, pc, start_time, part, built, main, sigterm, logging_error >>

-----------------------------------------------------------------------------

ChildNext(c) ==
    \/ Serve(c) \/ Attempt(c)
    \/ ServeHit(c)
    \/ BuildHeader(c) \/ WriteHeader(c) \/ Scrape(c) \/ Output(c) \/ Footer(c)
    \/ Unlock(c)

MainNext ==
    Reset \/ ResetLock \/ ResetInvalidate \/ ResetUnlock \/ SigTerm \/ Shutdown

Next ==
    \/ \E c \in Child : ChildNext(c)
    \/ MainNext
    \/ SetMaxAge
    \/ Tick

Spec == Init /\ [][Next]_vars

(***************************************************************************)
(* Fairness.  The kernel schedules every process, and time passes: a child *)
(* in the retry loop tries again, the main process runs its loop.          *)
(***************************************************************************)
WaiterFairness ==
    /\ WF_vars(Tick)
    /\ \A c \in Child : WF_vars(Attempt(c))

\* The event loop dispatches pending signals on every turn (ev.c), so a
\* SIGTERM is not overlooked however often the loop finds a reset to run.
MainFairness ==
    /\ WF_vars(ResetLock \/ ResetInvalidate \/ ResetUnlock)
    /\ SF_vars(Shutdown)

\* Nothing is assumed of the child that holds the lock.
FairSpec == Spec /\ WaiterFairness /\ MainFairness

-----------------------------------------------------------------------------
(* Properties.                                                             *)

\* Every variable of the /metrics endpoint keeps its type.
TypeOK ==
    /\ lock \in {"free", "in_use"}
    /\ cache \in CacheOf(Piece)
    /\ max_age \in MaxAges
    /\ now \in Nat
    /\ pc \in [Child -> PC]
    /\ start_time \in [Child -> Nat]
    /\ part \in [Child -> 0..LastPart + 1]
    /\ built \in [Child -> Seq(Sent)]
    /\ main \in MainState
    /\ sigterm \in BOOLEAN
    /\ logging_error \in Nat

\* The processes that hold the lock, or ended with it.
MainHolds == main \in {"reset_locked", "reset_unlock"}

Holding ==
    {c \in Child : pc[c] \in Critical \cup {"leaked"}}
        \cup (IF MainHolds THEN {Main} ELSE {})

\* The lock of metrics_page and pgexporter_prometheus_reset is taken exactly
\* when one process holds it or has ended with it, and never by two: a child
\* that gives up waiting neither frees nor keeps it.
LockAccounting ==
    /\ lock = "free" <=> Holding = {}
    /\ \A p, q \in Holding : p = q

\* What the cache holds comes from one scrape, in the order of the response:
\* no interleaving of children, resets and processes killed half-way mixes
\* the output of two of them.
OneScrape ==
    \A i, j \in 1..Len(cache.data) :
        i < j => /\ cache.data[i].by = cache.data[j].by
                 /\ cache.data[i].part <= cache.data[j].part

\* The child that has started a response and has not finalized it.
Building(c) ==
    \/ pc[c] \in {"header", "scrape", "output", "footer"}
    \/ pc[c] = "leaked" /\ built[c] # << >>

\* A response under construction is never valid, not even after its builder
\* was killed or took an error path between two parts.
UnfinishedNotValid ==
    (\E c \in Child : Building(c)) => cache.valid_until = 0

\* The text in the cache leaves room for its terminating NUL, or the cache
\* is empty, whatever was appended before.
WithinSize == Fits(cache)

\* The header and body text of a response, without the one piece that ends
\* the header: what the client was sent, as far as it is cached.
Cacheable(text) ==
    [i \in 1..(Len(text) - 1) |-> IF i <= PartLength[0] THEN text[i] ELSE text[i + 1]]

\* A response served from the cache is the whole response some child built:
\* "This method should be invoked when the cache is complete and therefore
\* can be served" (prometheus.c, metrics_cache_finalize).
HitIsWhole ==
    (\E c \in Child : pc[c] = "hit") =>
        \E b \in Child : cache.data = Cacheable(built[b])

\* A child that waits for the lock does not wait for ever, even when the
\* process that holds it makes no step or is gone.
WaiterAnswered ==
    \A c \in Child : pc[c] = "wait" ~> pc[c] # "wait"

\* Only a child that keeps the lock of the cache for ever, because it makes no
\* step or ended with it, can keep the main process in a reset, where it spins:
\* otherwise a reset that an administrator asks for returns to the event loop,
\* and a SIGTERM stops the process, whatever else failed: "It should not be
\* needed to use SIGKILL for pgexporter" (doc/ARCHITECTURE.md).
MainGoesOn ==
    <>[](\A c \in Child : pc[c] \notin Critical \cup {"leaked"}) =>
        /\ main = "reset" ~> main # "reset"
        /\ sigterm ~> main = "stopped"

\* The endpoint implements a cache that only the holder of its lock changes.
Owner ==
    IF Holding = {} THEN NoProc ELSE CHOOSE p \in Holding : TRUE

Guarded == INSTANCE GuardedCache
    WITH Procs <- Child \cup {Main},
         Contents <- CacheOf(Piece),
         owner <- Owner,
         ended <- {c \in Child : pc[c] = "leaked"},
         content <- cache

\* Every change of the cache is made by the live process that holds the lock
\* ("Requires the caller to hold the lock on the cache!", prometheus.c).
ImplementsGuardedCache == Guarded!Spec

=============================================================================
