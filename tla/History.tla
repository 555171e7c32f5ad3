------------------------------ MODULE History ------------------------------
(***************************************************************************)
(* The history (history.c, history_sqlite.c): snapshots of the metrics are *)
(* stored in a database by forked processes.                               *)
(*                                                                         *)
(*   - on a timer, the main process forks a tick worker, which scrapes and *)
(*     stores a snapshot, unless one was stored within the interval;       *)
(*   - a child that serves /metrics and does not find its response in the  *)
(*     cache stores the snapshot it served;                                *)
(*   - on a second timer, the main process forks a retention worker, which *)
(*     deletes the rows older than the retention.                          *)
(*                                                                         *)
(* The flag history_worker_running, in shared memory, lets one process     *)
(* store at a time.  The main process records the pid of a worker, so that *)
(* sigchld_cb can clear the flag of a worker that died; a worker clears    *)
(* pid and flag itself when it is done.  A pid is used again once the main *)
(* process has reaped it.                                                  *)
(*                                                                         *)
(* SQLite is external: a transaction appears in the database as a whole at *)
(* COMMIT, one process writes at a time, and another one waits or, after   *)
(* busy_timeout, fails.                                                    *)
(***************************************************************************)
EXTENDS SharedCache, Integers

CONSTANTS
    Pid,                \* the process identifiers
    NoPid,              \* 0 in the pid fields of the shared memory
    Rows,               \* the rows of a snapshot
    history_interval,   \* milliseconds, 0: no timer
    history_retention,  \* milliseconds, 0: rows are kept for ever
    PruneInterval,      \* HISTORY_RETENTION_PRUNE_INTERVAL_MS, in seconds
    Faults,             \* the failures that happen: some of FaultKinds
    MaxTime             \* bound on the clock

\* A process is killed while it works, between clearing its pid and clearing
\* its flag, or while it stores what it served; the database, an allocation
\* or fork() fails.
FaultKinds == {"killed", "killed_cleanup", "killed_scrape",
               "db_error", "no_memory", "fork_error"}

ASSUME HistoryAssumption ==
    /\ NoPid \notin Pid
    /\ Rows \in Nat \ {0}
    /\ history_interval \in Nat
    /\ history_retention \in Nat
    /\ PruneInterval \in Nat \ {0}
    /\ Faults \subseteq FaultKinds
    /\ MaxTime \in Nat

VARIABLES
    now,                    \* time(NULL)
    main,                   \* where the main process is
    forked,                 \* its local variable pid
    tick_due,               \* when history_watcher fires next
    prune_due,              \* when history_retention_watcher fires next
    running,                \* config->history_worker_running
    worker_pid,             \* config->history_worker_pid
    retention_running,      \* config->history_retention_worker_running
    retention_pid,          \* config->history_retention_worker_pid
    last_store_time,        \* config->history_last_store_time
    cache_locked,           \* the lock of the metrics cache is taken by a scrape
    pc,                     \* where each process is
    role,                   \* what it was forked for
    ts,                     \* the time of its snapshot, or the cutoff of its prune
    rows,                   \* the rows it has inserted
    writer,                 \* the process that holds the database's write lock
    db                      \* the committed rows

flags == << running, worker_pid, retention_running, retention_pid, last_store_time >>
timers == << tick_due, prune_due >>
procs == << pc, role, ts, rows >>
disk == << writer, db >>

vars == << now, main, forked, timers, flags, cache_locked, procs, disk >>

Interval == ToSeconds(history_interval)
Retention == ToSeconds(history_retention)

\* One row of the snapshot that a process of some role took at some second.
Row == [by : {"tick", "scrape"}, ts : Nat, row : 1..Rows]

\* store: the steps of a process that stores a snapshot and holds the flag.
Storing == {"init", "scrape", "parse", "insert", "commit", "stamp"}
Cleanup == {"clear_pid", "clear_running"}
Pruning == {"cutoff", "delete"}

PC == {"none", "zombie", "output", "exit"} \cup Storing \cup Cleanup \cup Pruning

MainState == {"loop", "tick_cas", "tick_fork", "tick_record", "prune_fork", "prune_record"}

\* The retention watcher exists when the retention is set; main() calls its
\* callback once before the loop, hence the first due time.
Init ==
    /\ now = 1
    /\ main = "loop"
    /\ forked = NoPid
    /\ tick_due = 1 + Interval
    /\ prune_due = 1
    /\ running = FALSE
    /\ worker_pid = NoPid
    /\ retention_running = FALSE
    /\ retention_pid = NoPid
    /\ last_store_time = 0
    /\ cache_locked = FALSE
    /\ pc = [p \in Pid |-> "none"]
    /\ role = [p \in Pid |-> "none"]
    /\ ts = [p \in Pid |-> 0]
    /\ rows = [p \in Pid |-> 0]
    /\ writer = NoPid
    /\ db = {}

Goto(p, where) == pc' = [pc EXCEPT ![p] = where]

\* fork(): a process identifier that is not in use.
Fork(p, what, where) ==
    /\ pc[p] = "none"
    /\ Goto(p, where)
    /\ role' = [role EXCEPT ![p] = what]

\* fork() has no identifier left, or fails for another reason.
ForkFails == "fork_error" \in Faults \/ \A p \in Pid : pc[p] # "none"

-----------------------------------------------------------------------------
(* pgexporter_history_tick_cb.                                             *)

\* The timer fires and the last store is too recent, or not.
TickDue ==
    /\ main = "loop"
    /\ Interval > 0
    /\ now >= tick_due
    /\ tick_due' = now + Interval
    /\ main' = IF now < last_store_time + Interval THEN "loop" ELSE "tick_cas"
    /\ UNCHANGED << now, cache_locked, forked, prune_due, flags, procs, disk >>

TickCas ==
    /\ main = "tick_cas"
    /\ running' = TRUE
    /\ main' = IF running THEN "loop" ELSE "tick_fork"
    /\ UNCHANGED << now, cache_locked, forked, timers, worker_pid, retention_running,
                    retention_pid, last_store_time, procs, disk >>

\* Fault: the flag stays set when fork() fails.
TickForkKeepsFlag ==
    /\ main = "tick_fork"
    /\ \/ /\ \E p \in Pid : Fork(p, "tick", "init") /\ forked' = p
          /\ main' = "tick_record"
       \/ /\ ForkFails
          /\ main' = "loop"
          /\ UNCHANGED << forked, pc, role >>
    /\ UNCHANGED << now, cache_locked, timers, flags, ts, rows, disk >>

TickFork ==
    /\ main = "tick_fork"
    /\ \/ /\ \E p \in Pid : Fork(p, "tick", "init") /\ forked' = p
          /\ main' = "tick_record"
          /\ UNCHANGED running
       \/ /\ ForkFails
          /\ running' = FALSE
          /\ main' = "loop"
          /\ UNCHANGED << forked, pc, role >>
    /\ UNCHANGED << now, cache_locked, timers, worker_pid, retention_running, retention_pid,
                    last_store_time, ts, rows, disk >>

\* The parent records the pid, however far the worker has come.
TickRecord ==
    /\ main = "tick_record"
    /\ worker_pid' = forked
    /\ forked' = NoPid
    /\ main' = "loop"
    /\ UNCHANGED << now, cache_locked, timers, running, retention_running, retention_pid,
                    last_store_time, procs, disk >>

-----------------------------------------------------------------------------
(* pgexporter_history_retention_tick_cb.                                   *)

PruneDue ==
    /\ main = "loop"
    /\ TimeIsValid(history_retention)
    /\ now >= prune_due
    /\ prune_due' = now + PruneInterval
    /\ retention_running' = TRUE
    /\ main' = IF retention_running THEN "loop" ELSE "prune_fork"
    /\ UNCHANGED << now, cache_locked, forked, tick_due, running, worker_pid, retention_pid,
                    last_store_time, procs, disk >>

PruneFork ==
    /\ main = "prune_fork"
    /\ \/ /\ \E p \in Pid : Fork(p, "retention", "init") /\ forked' = p
          /\ main' = "prune_record"
          /\ UNCHANGED retention_running
       \/ /\ ForkFails
          /\ retention_running' = FALSE
          /\ main' = "loop"
          /\ UNCHANGED << forked, pc, role >>
    /\ UNCHANGED << now, cache_locked, timers, running, worker_pid, retention_pid,
                    last_store_time, ts, rows, disk >>

\* Fault: the pid of the retention worker is not recorded.
PruneRecordMissing ==
    /\ main = "prune_record"
    /\ forked' = NoPid
    /\ main' = "loop"
    /\ UNCHANGED << now, cache_locked, timers, flags, procs, disk >>

PruneRecord ==
    /\ main = "prune_record"
    /\ retention_pid' = forked
    /\ forked' = NoPid
    /\ main' = "loop"
    /\ UNCHANGED << now, cache_locked, timers, running, worker_pid, retention_running,
                    last_store_time, procs, disk >>

-----------------------------------------------------------------------------
(* The rest of the main process.                                           *)

\* accept_metrics_cb forks a child whose response is not in the cache.
AcceptScrape ==
    /\ main = "loop"
    /\ \E p \in Pid : Fork(p, "scrape", "output")
    /\ UNCHANGED << now, main, cache_locked, forked, timers, flags, ts, rows, disk >>

\* A child is reaped, whatever becomes of the flags.
Reap(p) ==
    /\ main = "loop"
    /\ pc[p] = "zombie"
    /\ Goto(p, "none")
    /\ role' = [role EXCEPT ![p] = "none"]
    /\ ts' = [ts EXCEPT ![p] = 0]
    /\ rows' = [rows EXCEPT ![p] = 0]
    /\ UNCHANGED << now, main, cache_locked, forked, timers, last_store_time, disk >>

\* Fault: a pid is left in place when the flag is already cleared.
SigChldKeepsPid(p) ==
    /\ Reap(p)
    /\ worker_pid' = IF worker_pid = p /\ running THEN NoPid ELSE worker_pid
    /\ running' = (running /\ worker_pid # p)
    /\ retention_pid' = IF retention_pid = p THEN NoPid ELSE retention_pid
    /\ retention_running' = (retention_running /\ retention_pid # p)

\* Fault: the death of any child clears the flag of the retention worker.
SigChldAnyChild(p) ==
    /\ Reap(p)
    /\ worker_pid' = IF worker_pid = p THEN NoPid ELSE worker_pid
    /\ running' = (running /\ worker_pid # p)
    /\ retention_pid' = NoPid
    /\ retention_running' = FALSE

\* sigchld_cb reaps one child, and clears the flag of a worker by its pid.
SigChld(p) ==
    /\ Reap(p)
    /\ worker_pid' = IF worker_pid = p THEN NoPid ELSE worker_pid
    /\ running' = (running /\ worker_pid # p)
    /\ retention_pid' = IF retention_pid = p THEN NoPid ELSE retention_pid
    /\ retention_running' = (retention_running /\ retention_pid # p)

-----------------------------------------------------------------------------
(* The processes.                                                          *)

\* metrics_page stores what it served while it holds the lock of the metrics
\* cache, if nobody else stores.
ScrapeCas(p) ==
    /\ pc[p] = "output"
    /\ ~ cache_locked
    /\ cache_locked' = TRUE
    /\ running' = TRUE
    /\ Goto(p, IF running THEN "exit" ELSE "init")
    /\ UNCHANGED << now, main, forked, timers, worker_pid, retention_running, retention_pid,
                    last_store_time, role, ts, rows, disk >>

\* The child gives up waiting for the lock of the metrics cache.
ScrapeTimeOut(p) ==
    /\ pc[p] = "output"
    /\ cache_locked
    /\ Goto(p, "zombie")
    /\ UNCHANGED << now, main, cache_locked, forked, timers, flags, role, ts, rows, disk >>

\* Where a process goes when its work is over, successful or not.
Done(p) == IF role[p] = "scrape" THEN "clear_running" ELSE "clear_pid"

\* pgexporter_history_init opens the database.
OpenDb(p) ==
    /\ pc[p] = "init"
    /\ \/ Goto(p, CASE role[p] = "tick" -> "scrape"
                    [] role[p] = "scrape" -> "parse"
                    [] OTHER -> "cutoff")
       \/ "db_error" \in Faults /\ Goto(p, Done(p))
    /\ UNCHANGED << now, main, cache_locked, forked, timers, flags, role, ts, rows, disk >>

\* pgexporter_prometheus_scrape, by the tick worker.
Scrape(p) ==
    /\ pc[p] = "scrape"
    /\ Goto(p, "parse") \/ ("no_memory" \in Faults /\ Goto(p, Done(p)))
    /\ UNCHANGED << now, main, cache_locked, forked, timers, flags, role, ts, rows, disk >>

\* pgexporter_history_store_metrics reads the clock and makes the rows; it
\* stores nothing when there are none or memory is short.
Parse(p) ==
    /\ pc[p] = "parse"
    /\ ts' = [ts EXCEPT ![p] = now]
    /\ Goto(p, "insert") \/ Goto(p, Done(p))
    /\ UNCHANGED << now, main, cache_locked, forked, timers, flags, role, rows, disk >>

\* The rows a process inserted become visible.
Commit(p) ==
    db' = db \cup {[by |-> role[p], ts |-> ts[p], row |-> i] : i \in 1..rows[p]}

\* Fault: every row is committed on its own.
InsertAutocommit(p) ==
    /\ pc[p] = "insert"
    /\ rows' = [rows EXCEPT ![p] = @ + 1]
    /\ db' = db \cup {[by |-> role[p], ts |-> ts[p], row |-> rows[p] + 1]}
    /\ Goto(p, IF rows[p] + 1 = Rows THEN "commit" ELSE "insert")
    /\ UNCHANGED << now, main, cache_locked, forked, timers, flags, role, ts, writer >>

\* Fault: the loop over the rows makes one turn too many.
InsertPastEnd(p) ==
    /\ pc[p] = "insert"
    /\ rows' = [rows EXCEPT ![p] = @ + 1]
    /\ Goto(p, IF rows[p] = Rows THEN "commit" ELSE "insert")
    /\ UNCHANGED << now, main, cache_locked, forked, timers, flags, role, ts, disk >>

\* pgexporter_history_sqlite_write_batch: the first INSERT of a transaction
\* waits for the write lock; an error rolls the transaction back.
Insert(p) ==
    /\ pc[p] = "insert"
    /\ \/ /\ writer \in {p, NoPid}
          /\ writer' = p
          /\ rows' = [rows EXCEPT ![p] = @ + 1]
          /\ Goto(p, IF rows[p] + 1 = Rows THEN "commit" ELSE "insert")
       \/ /\ writer \notin {p, NoPid} \/ "db_error" \in Faults
          /\ writer' = IF writer = p THEN NoPid ELSE writer
          /\ rows' = [rows EXCEPT ![p] = 0]
          /\ Goto(p, Done(p))
    /\ UNCHANGED << now, main, cache_locked, forked, timers, flags, role, ts, db >>

CommitBatch(p) ==
    /\ pc[p] = "commit"
    /\ writer' = NoPid
    /\ \/ Commit(p) /\ Goto(p, "stamp") /\ UNCHANGED rows
       \/ /\ "db_error" \in Faults
          /\ rows' = [rows EXCEPT ![p] = 0]
          /\ Goto(p, Done(p))
          /\ UNCHANGED db
    /\ UNCHANGED << now, main, cache_locked, forked, timers, flags, role, ts >>

\* The time of the store is written after the commit.
Stamp(p) ==
    /\ pc[p] = "stamp"
    /\ last_store_time' = now
    /\ Goto(p, Done(p))
    /\ UNCHANGED << now, main, cache_locked, forked, timers, running, worker_pid,
                    retention_running, retention_pid, role, ts, rows, disk >>

\* pgexporter_history_sqlite_prune computes the cutoff ...
Cutoff(p) ==
    /\ pc[p] = "cutoff"
    /\ IF Retention <= 0
       THEN Goto(p, Done(p)) /\ UNCHANGED ts
       ELSE Goto(p, "delete") /\ ts' = [ts EXCEPT ![p] = now - Retention]
    /\ UNCHANGED << now, main, cache_locked, forked, timers, flags, role, rows, disk >>

\* Fault: a row as old as the retention is deleted already.
ExpiredInclusive(p) == {r \in db : r.ts <= ts[p]}

\* The rows a prune deletes.
Expired(p) == {r \in db : r.ts < ts[p]}

\* ... and deletes in one statement once it has the write lock.
Delete(p) ==
    /\ pc[p] = "delete"
    /\ \/ writer = NoPid /\ db' = db \ Expired(p)
       \/ (writer # NoPid \/ "db_error" \in Faults) /\ UNCHANGED db
    /\ Goto(p, Done(p))
    /\ UNCHANGED << now, main, cache_locked, forked, timers, flags, role, ts, rows, writer >>

\* The worker clears its pid field, then its flag.
ClearPid(p) ==
    /\ pc[p] = "clear_pid"
    /\ IF role[p] = "tick"
       THEN worker_pid' = NoPid /\ UNCHANGED retention_pid
       ELSE retention_pid' = NoPid /\ UNCHANGED worker_pid
    /\ Goto(p, "clear_running")
    /\ UNCHANGED << now, main, cache_locked, forked, timers, running, retention_running,
                    last_store_time, role, ts, rows, disk >>

ClearRunning(p) ==
    /\ pc[p] = "clear_running"
    /\ IF role[p] = "retention"
       THEN retention_running' = FALSE /\ UNCHANGED running
       ELSE running' = FALSE /\ UNCHANGED retention_running
    /\ Goto(p, "exit")
    /\ UNCHANGED << now, main, cache_locked, forked, timers, worker_pid, retention_pid,
                    last_store_time, role, ts, rows, disk >>

\* The process ends; metrics_page releases its lock before.
Exit(p) ==
    /\ pc[p] = "exit"
    /\ Goto(p, "zombie")
    /\ cache_locked' = (cache_locked /\ role[p] # "scrape")
    /\ UNCHANGED << now, main, forked, timers, flags, role, ts, rows, disk >>

\* A process dies; the database rolls its transaction back.
Kill(p) ==
    /\ \/ /\ "killed" \in Faults
          /\ role[p] # "scrape"
          /\ pc[p] \in Storing \cup Pruning \cup {"clear_pid"}
       \/ /\ "killed_cleanup" \in Faults
          /\ role[p] # "scrape"
          /\ pc[p] = "clear_running"
       \/ /\ "killed_scrape" \in Faults
          /\ role[p] = "scrape"
          /\ pc[p] \in Storing \cup {"clear_running"}
    /\ Goto(p, "zombie")
    /\ writer' = IF writer = p THEN NoPid ELSE writer
    /\ UNCHANGED << now, main, cache_locked, forked, timers, flags, role, ts, rows, db >>

Tick ==
    /\ now < MaxTime
    /\ now' = now + 1
    /\ UNCHANGED << main, cache_locked, forked, timers, flags, procs, disk >>

-----------------------------------------------------------------------------

MainStep ==
    TickDue \/ TickCas \/ TickFork \/ TickRecord \/ PruneDue \/ PruneFork \/ PruneRecord

Step(p) ==
    \/ ScrapeCas(p) \/ ScrapeTimeOut(p) \/ OpenDb(p) \/ Scrape(p) \/ Parse(p)
    \/ Insert(p) \/ CommitBatch(p) \/ Stamp(p) \/ Cutoff(p) \/ Delete(p)
    \/ ClearPid(p) \/ ClearRunning(p) \/ Exit(p)

Next ==
    \/ MainStep
    \/ AcceptScrape
    \/ \E p \in Pid : SigChld(p) \/ Step(p) \/ Kill(p)
    \/ Tick

Spec == Init /\ [][Next]_vars

(***************************************************************************)
(* Fairness: the kernel schedules every process, the event loop runs its   *)
(* timers and dispatches SIGCHLD.                                          *)
(***************************************************************************)
FairSpec ==
    /\ Spec
    /\ WF_vars(MainStep)
    /\ \A p \in Pid : WF_vars(Step(p)) /\ WF_vars(SigChld(p))

-----------------------------------------------------------------------------
(* Properties.                                                             *)

\* Every variable of the history keeps its type.
TypeOK ==
    /\ now \in Nat
    /\ main \in MainState
    /\ forked \in Pid \cup {NoPid}
    /\ tick_due \in Nat /\ prune_due \in Nat
    /\ running \in BOOLEAN /\ retention_running \in BOOLEAN
    /\ worker_pid \in Pid \cup {NoPid} /\ retention_pid \in Pid \cup {NoPid}
    /\ last_store_time \in Nat
    /\ cache_locked \in BOOLEAN
    /\ pc \in [Pid -> PC]
    /\ role \in [Pid -> {"none", "tick", "scrape", "retention"}]
    /\ ts \in [Pid -> Int]
    /\ rows \in [Pid -> 0..Rows]
    /\ writer \in Pid \cup {NoPid}
    /\ db \subseteq Row

\* The pid fields sigchld_cb compares with name a worker of their kind that
\* has not been reaped, even when the worker was faster than the parent that
\* records it: sigchld_cb never mistakes a later process with the same pid
\* for the worker.
RecordedPidUnreaped ==
    /\ worker_pid # NoPid => role[worker_pid] = "tick"
    /\ retention_pid # NoPid => role[retention_pid] = "retention"

\* A retention worker between fork() and the clearing of its flag.
Retaining(p) ==
    role[p] = "retention" /\ pc[p] \in {"init"} \cup Pruning \cup Cleanup

\* There is one retention worker at a time and its flag is set while it
\* works: the safeguard in sigchld_cb never clears the flag of a live one.
OneRetentionWorker ==
    /\ \A p, q \in Pid : Retaining(p) /\ Retaining(q) => p = q
    /\ (\E p \in Pid : Retaining(p)) => retention_running

\* The database holds whole snapshots, whichever process is killed or fails
\* between two rows: a query of the history never sees a part of one.
SnapshotsWhole ==
    \A r \in db : \A i \in 1..Rows : [r EXCEPT !.row = i] \in db

\* A prune that waited for the database deletes no row that is younger than
\* the retention.
OnlyExpiredPruned ==
    [][\A r \in db \ db' : r.ts + Retention < now]_vars

\* Seen from a query, the history is a store of whole snapshots, from which only expired
\* ones disappear, and all of them at once: neither a process that dies or fails between
\* two rows, nor a prune that waited for the database, lets a query see anything else.
Stored == INSTANCE SnapshotStore WITH Takers <- {"tick", "scrape"}, clock <- now, stored <- db

ImplementsSnapshotStore == Stored!Spec

\* The flag of the storing processes does not stay set: "clear it here so
\* future ticks and scrape-time stores are not blocked permanently" (main.c).
FlagFreed == running ~> ~ running

\* Nor does the flag of the retention worker.
RetentionFlagFreed == retention_running ~> ~ retention_running

=============================================================================
