--------------------------- MODULE HistoryProofs ---------------------------
(***************************************************************************)
(* The history keeps whole snapshots, one retention worker and pids that   *)
(* mean what they say, for any number of processes, rows, intervals and    *)
(* failures.                                                               *)
(***************************************************************************)
EXTENDS History, TLAPS

\* Where a retention worker can be.
RetentionPC == {"init", "cutoff", "delete", "clear_pid", "clear_running", "exit", "zombie"}

\* A process has a role from its fork until it is reaped; a retention worker never stores
\* and only it prunes; a transaction has as many rows as the loop has made turns; the time
\* of a snapshot and the cutoff of a prune lie in the past.
Stage(p) ==
    /\ pc[p] = "none" <=> role[p] = "none"
    /\ role[p] = "retention" => pc[p] \in RetentionPC
    /\ pc[p] \in {"none", "output", "init", "scrape", "parse"} => rows[p] = 0
    /\ pc[p] = "insert" => rows[p] < Rows
    /\ pc[p] = "commit" => rows[p] = Rows
    /\ pc[p] \in {"insert", "commit"} => ts[p] \in Nat /\ ts[p] <= now
    /\ pc[p] = "delete" => ts[p] + Retention <= now

Stages == \A p \in Pid : Stage(p)

\* The process whose pid is about to be recorded has the role it was forked for.
ForkedKnown ==
    /\ main = "tick_record" => forked \in Pid /\ role[forked] = "tick"
    /\ main = "prune_record" => forked \in Pid /\ role[forked] = "retention"

\* The main process forks a retention worker only when there is none and it has the flag;
\* when sigchld_cb can run, a recorded pid is that of the only worker there may be.
RetentionKnown ==
    /\ main = "prune_fork" => retention_running /\ \A q \in Pid : ~ Retaining(q)
    /\ main = "prune_record" => \A q \in Pid : Retaining(q) => q = forked
    /\ main # "prune_record" /\ retention_pid # NoPid =>
         \A q \in Pid : Retaining(q) => q = retention_pid

IInv ==
    TypeOK /\ Stages /\ RecordedPidUnreaped /\ ForkedKnown /\ OneRetentionWorker
      /\ RetentionKnown /\ SnapshotsWhole

----------------------------------------------------------------------------
(* Types and stages.                                                       *)

\* Milliseconds become seconds.
LEMMA Durations == Interval \in Nat /\ Retention \in Nat
BY HistoryAssumption DEF Interval, Retention, ToSeconds, MillisPerSecond

LEMMA InitStages == Init => TypeOK /\ Stages
<1>. SUFFICES ASSUME Init PROVE TypeOK /\ Stages
  OBVIOUS
<1>1. TypeOK
  <2>1. now \in Nat /\ tick_due \in Nat /\ prune_due \in Nat /\ last_store_time \in Nat
    BY Durations DEF Init
  <2>2. /\ pc \in [Pid -> PC] /\ role \in [Pid -> {"none", "tick", "scrape", "retention"}]
        /\ ts \in [Pid -> Int] /\ rows \in [Pid -> 0..Rows]
    BY HistoryAssumption DEF Init, PC
  <2>3. /\ main \in MainState
        /\ {forked, worker_pid, retention_pid, writer} \subseteq Pid \cup {NoPid}
        /\ db \subseteq Row
    BY DEF Init, MainState
  <2>. QED
    BY <2>1, <2>2, <2>3 DEF Init, TypeOK
<1>2. Stages
  BY HistoryAssumption DEF Init, Stages, Stage
<1>. QED
  BY <1>1, <1>2

\* A fork gives one process a role and leaves the others alone.
LEMMA ForkStages ==
    ASSUME TypeOK, Stages, NEW p \in Pid, NEW what \in {"tick", "scrape", "retention"},
           NEW where \in {"init", "output"}, where = "output" => what = "scrape",
           Fork(p, what, where), UNCHANGED << now, ts, rows >>
    PROVE  /\ pc' \in [Pid -> PC]
           /\ role' \in [Pid -> {"none", "tick", "scrape", "retention"}]
           /\ Stages'
<1>1. pc' = [pc EXCEPT ![p] = where] /\ role' = [role EXCEPT ![p] = what] /\ pc[p] = "none"
  BY DEF Fork, Goto
<1>2. pc' \in [Pid -> PC]
  BY <1>1 DEF TypeOK, PC, Storing
<1>3. role' \in [Pid -> {"none", "tick", "scrape", "retention"}]
  BY <1>1 DEF TypeOK
<1>4. ASSUME NEW q \in Pid PROVE Stage(q)'
  <2>1. CASE q = p
    BY <1>1, <2>1 DEF TypeOK, Stages, Stage, RetentionPC
  <2>2. CASE q # p
    <3>1. pc'[q] = pc[q] /\ role'[q] = role[q]
      BY <1>1, <2>2 DEF TypeOK
    <3>. QED
      BY <3>1 DEF Stages, Stage
  <2>. QED
    BY <2>1, <2>2
<1>. QED
  BY <1>2, <1>3, <1>4 DEF Stages

\* A step of one process that keeps its own stage keeps them all.
LEMMA OneMoves ==
    ASSUME TypeOK, Stages, NEW p \in Pid, NEW where \in PC, Goto(p, where),
           UNCHANGED << now, role >>,
           \A q \in Pid : q # p => ts'[q] = ts[q] /\ rows'[q] = rows[q],
           Stage(p)'
    PROVE  pc' \in [Pid -> PC] /\ Stages'
<1>1. pc' \in [Pid -> PC] /\ \A q \in Pid : q # p => pc'[q] = pc[q]
  BY DEF TypeOK, Goto
<1>2. ASSUME NEW q \in Pid, q # p PROVE Stage(q)'
  BY <1>1, <1>2 DEF Stages, Stage
<1>. QED
  BY <1>1, <1>2 DEF Stages

LEMMA SameStages ==
    ASSUME Stages, UNCHANGED << now, procs >>
    PROVE  Stages'
BY DEF Stages, Stage, procs

LEMMA MainStages ==
    ASSUME TypeOK, Stages, MainStep
    PROVE  TypeOK' /\ Stages'
<1>1. CASE TickDue
  BY <1>1, SameStages, Durations DEF TickDue, TypeOK, MainState, flags, procs, disk
<1>2. CASE TickCas
  BY <1>2, SameStages DEF TickCas, TypeOK, MainState, timers, procs, disk
<1>3. CASE TickRecord
  BY <1>3, SameStages DEF TickRecord, TypeOK, MainState, timers, procs, disk
<1>4. CASE PruneDue
  BY <1>4, SameStages, HistoryAssumption DEF PruneDue, TypeOK, MainState, procs, disk
<1>5. CASE PruneRecord
  BY <1>5, SameStages DEF PruneRecord, TypeOK, MainState, timers, procs, disk
<1>6. CASE TickFork
  <2>1. CASE ForkFails /\ running' = FALSE /\ main' = "loop" /\ UNCHANGED << forked, pc, role >>
    BY <1>6, <2>1, SameStages DEF TickFork, TypeOK, MainState, timers, procs, disk
  <2>2. ASSUME NEW p \in Pid, Fork(p, "tick", "init"), forked' = p, main' = "tick_record", UNCHANGED running
        PROVE  TypeOK' /\ Stages'
    <3>1. UNCHANGED << now, ts, rows >>
      BY <1>6 DEF TickFork
    <3>2. /\ pc' \in [Pid -> PC]
          /\ role' \in [Pid -> {"none", "tick", "scrape", "retention"}]
          /\ Stages'
      BY <2>2, <3>1, ForkStages
    <3>. QED
      BY <1>6, <2>2, <3>2 DEF TickFork, TypeOK, MainState, timers, disk
  <2>. QED
    BY <1>6, <2>1, <2>2 DEF TickFork
<1>7. CASE PruneFork
  <2>1. CASE ForkFails /\ retention_running' = FALSE /\ main' = "loop" /\ UNCHANGED << forked, pc, role >>
    BY <1>7, <2>1, SameStages DEF PruneFork, TypeOK, MainState, timers, procs, disk
  <2>2. ASSUME NEW p \in Pid, Fork(p, "retention", "init"), forked' = p, main' = "prune_record",
               UNCHANGED retention_running
        PROVE  TypeOK' /\ Stages'
    <3>1. UNCHANGED << now, ts, rows >>
      BY <1>7 DEF PruneFork
    <3>2. /\ pc' \in [Pid -> PC]
          /\ role' \in [Pid -> {"none", "tick", "scrape", "retention"}]
          /\ Stages'
      BY <2>2, <3>1, ForkStages
    <3>. QED
      BY <1>7, <2>2, <3>2 DEF PruneFork, TypeOK, MainState, timers, disk
  <2>. QED
    BY <1>7, <2>1, <2>2 DEF PruneFork
<1>. QED
  BY <1>1, <1>2, <1>3, <1>4, <1>5, <1>6, <1>7 DEF MainStep

LEMMA AcceptStages ==
    ASSUME TypeOK, Stages, AcceptScrape
    PROVE  TypeOK' /\ Stages'
<1>. PICK p \in Pid : Fork(p, "scrape", "output")
  BY DEF AcceptScrape
<1>1. UNCHANGED << now, ts, rows >>
  BY DEF AcceptScrape
<1>2. /\ pc' \in [Pid -> PC]
      /\ role' \in [Pid -> {"none", "tick", "scrape", "retention"}]
      /\ Stages'
  BY <1>1, ForkStages
<1>. QED
  BY <1>2 DEF AcceptScrape, TypeOK, timers, flags, disk

LEMMA SigChldStages ==
    ASSUME TypeOK, Stages, NEW p \in Pid, SigChld(p)
    PROVE  TypeOK' /\ Stages'
<1>1. /\ pc' = [pc EXCEPT ![p] = "none"] /\ role' = [role EXCEPT ![p] = "none"]
      /\ ts' = [ts EXCEPT ![p] = 0] /\ rows' = [rows EXCEPT ![p] = 0] /\ now' = now
  BY DEF SigChld, Reap, Goto
<1>2. /\ pc' \in [Pid -> PC] /\ role' \in [Pid -> {"none", "tick", "scrape", "retention"}]
      /\ ts' \in [Pid -> Int] /\ rows' \in [Pid -> 0..Rows]
  BY <1>1, HistoryAssumption DEF TypeOK, PC
<1>3. running' \in BOOLEAN /\ retention_running' \in BOOLEAN
  BY DEF SigChld
<1>4. worker_pid' \in Pid \cup {NoPid} /\ retention_pid' \in Pid \cup {NoPid}
  BY DEF SigChld, TypeOK
<1>5. TypeOK'
  BY <1>2, <1>3, <1>4 DEF SigChld, Reap, TypeOK, timers, disk
<1>6. ASSUME NEW q \in Pid PROVE Stage(q)'
  <2>1. CASE q = p
    BY <1>1, <2>1, HistoryAssumption DEF TypeOK, Stage
  <2>2. CASE q # p
    <3>1. pc'[q] = pc[q] /\ role'[q] = role[q] /\ ts'[q] = ts[q] /\ rows'[q] = rows[q]
      BY <1>1, <2>2 DEF TypeOK
    <3>. QED
      BY <1>1, <3>1 DEF Stages, Stage
  <2>. QED
    BY <2>1, <2>2
<1>. QED
  BY <1>5, <1>6 DEF Stages

\* Where a process goes when its work is over.
LEMMA DoneFacts ==
    ASSUME NEW p \in Pid
    PROVE  Done(p) \in {"clear_pid", "clear_running"} /\ Done(p) \in PC
BY DEF Done, PC, Cleanup

\* The steps of a process that only move it on.
LEMMA PlainStages ==
    ASSUME TypeOK, Stages, NEW p \in Pid,
           \/ ScrapeCas(p) \/ ScrapeTimeOut(p) \/ OpenDb(p) \/ Scrape(p) \/ Stamp(p)
           \/ ClearPid(p) \/ ClearRunning(p) \/ Exit(p) \/ Delete(p) \/ Kill(p)
    PROVE  pc' \in [Pid -> PC] /\ Stages'
<1>1. PICK where \in PC :
        /\ Goto(p, where)
        /\ \/ where \in {"exit", "zombie", "clear_pid", "clear_running"} /\ pc[p] # "none"
           \/ where \in {"init", "scrape", "parse"} /\ pc[p] \in {"output", "init", "scrape"}
                /\ role[p] # "retention"
           \/ where = "cutoff" /\ pc[p] = "init"
  <2>1. CASE ScrapeCas(p)
    BY <2>1 DEF ScrapeCas, PC, Storing, Stages, Stage, RetentionPC
  <2>2. CASE ScrapeTimeOut(p) \/ Exit(p) \/ ClearRunning(p) \/ ClearPid(p)
    BY <2>2 DEF ScrapeTimeOut, Exit, ClearRunning, ClearPid, PC, Cleanup
  <2>3. CASE OpenDb(p)
    BY <2>3, DoneFacts DEF OpenDb, PC, Storing, Pruning
  <2>4. CASE Scrape(p)
    BY <2>4, DoneFacts DEF Scrape, PC, Storing, Stages, Stage, RetentionPC
  <2>5. CASE Stamp(p) \/ Delete(p)
    BY <2>5, DoneFacts DEF Stamp, Delete
  <2>6. CASE Kill(p)
    BY <2>6 DEF Kill, PC, Storing, Pruning, Cleanup
  <2>. QED
    BY <2>1, <2>2, <2>3, <2>4, <2>5, <2>6
<1>2. UNCHANGED << now, role, ts, rows >>
  BY DEF ScrapeCas, ScrapeTimeOut, OpenDb, Scrape, Stamp, ClearPid, ClearRunning, Exit, Delete, Kill
<1>3. pc'[p] = where
  BY <1>1 DEF Goto, TypeOK
<1>4. Stage(p)'
  BY <1>1, <1>2, <1>3 DEF Stages, Stage, RetentionPC
<1>. QED
  BY <1>1, <1>2, <1>4, OneMoves

LEMMA PlainTypes ==
    ASSUME TypeOK, Stages, NEW p \in Pid,
           \/ ScrapeCas(p) \/ ScrapeTimeOut(p) \/ OpenDb(p) \/ Scrape(p) \/ Stamp(p)
           \/ ClearPid(p) \/ ClearRunning(p) \/ Exit(p) \/ Delete(p) \/ Kill(p)
    PROVE  TypeOK'
<1>0. pc' \in [Pid -> PC]
  BY PlainStages
<1>1. CASE ScrapeCas(p)
  BY <1>0, <1>1 DEF ScrapeCas, TypeOK, timers, disk
<1>2. CASE ScrapeTimeOut(p) \/ OpenDb(p) \/ Scrape(p)
  BY <1>0, <1>2 DEF ScrapeTimeOut, OpenDb, Scrape, TypeOK, timers, flags, disk
<1>3. CASE Stamp(p)
  BY <1>0, <1>3 DEF Stamp, TypeOK, timers, disk
<1>4. CASE ClearPid(p)
  BY <1>0, <1>4 DEF ClearPid, TypeOK, timers, disk
<1>5. CASE ClearRunning(p)
  BY <1>0, <1>5 DEF ClearRunning, TypeOK, timers, disk
<1>6. CASE Exit(p)
  <2>1. cache_locked' \in BOOLEAN
    BY <1>6 DEF Exit
  <2>. QED
    BY <1>0, <1>6, <2>1 DEF Exit, TypeOK, timers, flags, disk
<1>7. CASE Delete(p)
  BY <1>0, <1>7 DEF Delete, TypeOK, timers, flags
<1>8. CASE Kill(p)
  BY <1>0, <1>8 DEF Kill, TypeOK, timers, flags
<1>. QED
  BY <1>1, <1>2, <1>3, <1>4, <1>5, <1>6, <1>7, <1>8

\* A snapshot gets its time, and a prune its cutoff.
LEMMA ClockStages ==
    ASSUME TypeOK, Stages, NEW p \in Pid, Parse(p) \/ Cutoff(p)
    PROVE  TypeOK' /\ Stages'
<1>1. PICK where \in PC :
        /\ Goto(p, where)
        /\ \/ where \in {"clear_pid", "clear_running"} /\ ts' \in [Pid -> Int] /\ pc[p] # "none"
           \/ where = "insert" /\ ts' = [ts EXCEPT ![p] = now] /\ pc[p] = "parse"
           \/ where = "delete" /\ ts' = [ts EXCEPT ![p] = now - Retention] /\ pc[p] = "cutoff"
  <2>1. CASE Parse(p)
    BY <2>1, DoneFacts DEF Parse, TypeOK, PC, Storing
  <2>2. CASE Cutoff(p)
    BY <2>2, DoneFacts DEF Cutoff, TypeOK, PC, Pruning
  <2>. QED
    BY <2>1, <2>2
<1>2. UNCHANGED << now, role, rows >> /\ pc'[p] = where /\ \A q \in Pid : q # p => ts'[q] = ts[q]
  BY <1>1 DEF Parse, Cutoff, Goto, TypeOK
<1>3. ts' \in [Pid -> Int]
  BY <1>1, Durations DEF TypeOK
<1>4. Stage(p)'
  BY <1>1, <1>2, Durations, HistoryAssumption DEF Stages, Stage, RetentionPC, TypeOK
<1>5. pc' \in [Pid -> PC] /\ Stages'
  BY <1>1, <1>2, <1>4, OneMoves
<1>6. TypeOK'
  BY <1>2, <1>3, <1>5 DEF TypeOK, Parse, Cutoff, timers, flags, disk
<1>. QED
  BY <1>5, <1>6

LEMMA InsertStages ==
    ASSUME TypeOK, Stages, NEW p \in Pid, Insert(p)
    PROVE  TypeOK' /\ Stages'
<1>0. rows[p] \in Nat /\ rows[p] < Rows /\ ts[p] \in Nat /\ ts[p] <= now /\ role[p] \notin {"none", "retention"}
  BY HistoryAssumption DEF Insert, Stages, Stage, TypeOK, RetentionPC
<1>1. PICK where \in PC :
        /\ Goto(p, where)
        /\ \/ where = "commit" /\ rows' = [rows EXCEPT ![p] = rows[p] + 1] /\ rows[p] + 1 = Rows
           \/ where = "insert" /\ rows' = [rows EXCEPT ![p] = rows[p] + 1] /\ rows[p] + 1 # Rows
           \/ where \in {"clear_pid", "clear_running"} /\ rows' = [rows EXCEPT ![p] = 0]
  BY DoneFacts DEF Insert, PC, Storing
<1>2. UNCHANGED << now, role, ts >> /\ pc'[p] = where /\ \A q \in Pid : q # p => rows'[q] = rows[q]
  BY <1>1 DEF Insert, Goto, TypeOK
<1>3. rows' \in [Pid -> 0..Rows]
  BY <1>0, <1>1, HistoryAssumption DEF TypeOK
<1>4. Stage(p)'
  BY <1>0, <1>1, <1>2, HistoryAssumption DEF Stage, TypeOK
<1>5. pc' \in [Pid -> PC] /\ Stages'
  BY <1>1, <1>2, <1>4, OneMoves
<1>6. writer' \in Pid \cup {NoPid}
  BY DEF Insert, TypeOK
<1>7. TypeOK'
  BY <1>2, <1>3, <1>5, <1>6 DEF TypeOK, Insert, timers, flags
<1>. QED
  BY <1>5, <1>7

\* What a commit adds is a snapshot.
LEMMA CommittedRows ==
    ASSUME TypeOK, Stages, NEW p \in Pid, pc[p] = "commit", Commit(p)
    PROVE  /\ role[p] \in {"tick", "scrape"} /\ ts[p] \in Nat
           /\ db' = db \cup {[by |-> role[p], ts |-> ts[p], row |-> i] : i \in 1..Rows}
           /\ db' \subseteq Row
<1>1. rows[p] = Rows /\ ts[p] \in Nat /\ role[p] \in {"tick", "scrape"}
  BY DEF Stages, Stage, RetentionPC, TypeOK
<1>2. db' = db \cup {[by |-> role[p], ts |-> ts[p], row |-> i] : i \in 1..Rows}
  BY <1>1 DEF Commit
<1>3. db' \subseteq Row
  BY <1>1, <1>2 DEF TypeOK, Row
<1>. QED
  BY <1>1, <1>2, <1>3

LEMMA CommitStages ==
    ASSUME TypeOK, Stages, NEW p \in Pid, CommitBatch(p)
    PROVE  TypeOK' /\ Stages'
<1>1. PICK where \in PC :
        /\ Goto(p, where)
        /\ \/ where = "stamp" /\ UNCHANGED rows /\ Commit(p)
           \/ where \in {"clear_pid", "clear_running"} /\ rows' = [rows EXCEPT ![p] = 0] /\ UNCHANGED db
  BY DoneFacts DEF CommitBatch, PC, Storing
<1>2. /\ UNCHANGED << now, role, ts >> /\ pc'[p] = where /\ pc[p] = "commit"
      /\ \A q \in Pid : q # p => rows'[q] = rows[q]
  BY <1>1 DEF CommitBatch, Goto, TypeOK
<1>3. rows' \in [Pid -> 0..Rows]
  BY <1>1, HistoryAssumption DEF TypeOK
<1>4. Stage(p)'
  BY <1>1, <1>2 DEF Stages, Stage, TypeOK, RetentionPC
<1>5. pc' \in [Pid -> PC] /\ Stages'
  BY <1>1, <1>2, <1>4, OneMoves
<1>6. db' \subseteq Row
  BY <1>1, <1>2, CommittedRows DEF TypeOK
<1>7. TypeOK'
  BY <1>2, <1>3, <1>5, <1>6 DEF TypeOK, CommitBatch, timers, flags
<1>. QED
  BY <1>5, <1>7

LEMMA TickStages ==
    ASSUME TypeOK, Stages, Tick
    PROVE  TypeOK' /\ Stages'
<1>1. TypeOK'
  BY DEF TypeOK, Tick, timers, flags, procs, disk
<1>2. ASSUME NEW q \in Pid PROVE Stage(q)'
  <2>1. ts[q] \in Int /\ now \in Nat /\ now' = now + 1 /\ UNCHANGED procs
    BY DEF TypeOK, Tick
  <2>. QED
    BY <2>1, Durations DEF Stages, Stage, procs
<1>. QED
  BY <1>1, <1>2 DEF Stages

\* Types and stages are kept by every step.
LEMMA NextStages == TypeOK /\ Stages /\ [Next]_vars => TypeOK' /\ Stages'
<1>. SUFFICES ASSUME TypeOK, Stages, [Next]_vars PROVE TypeOK' /\ Stages'
  OBVIOUS
<1>1. ASSUME NEW p \in Pid, Step(p) PROVE TypeOK' /\ Stages'
  BY <1>1, PlainTypes, PlainStages, ClockStages, InsertStages, CommitStages DEF Step
<1>2. CASE UNCHANGED vars
  BY <1>2, SameStages DEF vars, TypeOK, timers, flags, procs, disk
<1>. QED
  BY <1>1, <1>2, MainStages, AcceptStages, SigChldStages, PlainTypes, PlainStages, TickStages DEF Next

----------------------------------------------------------------------------
(* Recorded pids.                                                          *)

Pids == RecordedPidUnreaped /\ ForkedKnown

\* A pid that is recorded, or about to be, is not free for another fork.
LEMMA ForkPids ==
    ASSUME TypeOK, Stages, RecordedPidUnreaped, NEW p \in Pid, NEW what, NEW where,
           Fork(p, what, where), UNCHANGED << worker_pid, retention_pid >>
    PROVE  RecordedPidUnreaped' /\ role'[p] = what
<1>1. role' = [role EXCEPT ![p] = what] /\ role[p] = "none"
  BY DEF Fork, Stages, Stage
<1>2. role'[p] = what
  BY <1>1 DEF TypeOK
<1>3. \A q \in Pid : role[q] # "none" => role'[q] = role[q]
  BY <1>1 DEF TypeOK
<1>. QED
  BY <1>2, <1>3 DEF RecordedPidUnreaped, TypeOK

LEMMA MainPids ==
    ASSUME TypeOK, Stages, Pids, MainStep
    PROVE  Pids'
<1>1. CASE TickDue \/ TickCas \/ PruneDue
  BY <1>1 DEF TickDue, TickCas, PruneDue, Pids, RecordedPidUnreaped, ForkedKnown, flags, procs
<1>2. CASE TickRecord \/ PruneRecord
  BY <1>2 DEF TickRecord, PruneRecord, Pids, RecordedPidUnreaped, ForkedKnown, procs
<1>3. CASE TickFork
  <2>1. CASE main' = "loop" /\ UNCHANGED << forked, pc, role >>
    BY <1>3, <2>1 DEF TickFork, Pids, RecordedPidUnreaped, ForkedKnown
  <2>2. ASSUME NEW p \in Pid, Fork(p, "tick", "init"), forked' = p, main' = "tick_record" PROVE Pids'
    <3>1. UNCHANGED << worker_pid, retention_pid >>
      BY <1>3 DEF TickFork
    <3>. QED
      BY <2>2, <3>1, ForkPids DEF Pids, ForkedKnown
  <2>. QED
    BY <1>3, <2>1, <2>2 DEF TickFork
<1>4. CASE PruneFork
  <2>1. CASE main' = "loop" /\ UNCHANGED << forked, pc, role >>
    BY <1>4, <2>1 DEF PruneFork, Pids, RecordedPidUnreaped, ForkedKnown
  <2>2. ASSUME NEW p \in Pid, Fork(p, "retention", "init"), forked' = p, main' = "prune_record" PROVE Pids'
    <3>1. UNCHANGED << worker_pid, retention_pid >>
      BY <1>4 DEF PruneFork
    <3>. QED
      BY <2>2, <3>1, ForkPids DEF Pids, ForkedKnown
  <2>. QED
    BY <1>4, <2>1, <2>2 DEF PruneFork
<1>. QED
  BY <1>1, <1>2, <1>3, <1>4 DEF MainStep

\* A process is reaped in the loop, and its pid forgotten with it.
LEMMA SigChldPids ==
    ASSUME TypeOK, Pids, NEW p \in Pid, SigChld(p)
    PROVE  Pids'
<1>1. \A q \in Pid : q # p => role'[q] = role[q]
  BY DEF SigChld, Reap, TypeOK
<1>2. RecordedPidUnreaped'
  BY <1>1 DEF SigChld, Pids, RecordedPidUnreaped, TypeOK
<1>3. ForkedKnown'
  BY DEF SigChld, Reap, ForkedKnown
<1>. QED
  BY <1>2, <1>3 DEF Pids

LEMMA NextPids == TypeOK /\ Stages /\ Pids /\ [Next]_vars => Pids'
<1>. SUFFICES ASSUME TypeOK, Stages, Pids, [Next]_vars PROVE Pids'
  OBVIOUS
<1>1. CASE AcceptScrape
  <2>1. PICK p \in Pid : Fork(p, "scrape", "output")
    BY <1>1 DEF AcceptScrape
  <2>. QED
    BY <1>1, <2>1, ForkPids DEF AcceptScrape, Pids, ForkedKnown, flags
<1>2. ASSUME NEW p \in Pid, Step(p) \/ Kill(p) PROVE Pids'
  <2>1. CASE ClearPid(p)
    BY <2>1 DEF ClearPid, Pids, RecordedPidUnreaped, ForkedKnown
  <2>2. CASE ~ ClearPid(p)
    <3>1. UNCHANGED << main, forked, role, worker_pid, retention_pid >>
      BY <1>2, <2>2 DEF Step, ScrapeCas, ScrapeTimeOut, OpenDb, Scrape, Parse, Insert, CommitBatch,
           Stamp, Cutoff, Delete, ClearRunning, Exit, Kill, flags
    <3>. QED
      BY <3>1 DEF Pids, RecordedPidUnreaped, ForkedKnown
  <2>. QED
    BY <2>1, <2>2
<1>3. CASE Tick \/ UNCHANGED vars
  BY <1>3 DEF Tick, vars, flags, procs, Pids, RecordedPidUnreaped, ForkedKnown
<1>. QED
  BY <1>1, <1>2, <1>3, MainPids, SigChldPids DEF Next

----------------------------------------------------------------------------
(* The retention worker.                                                   *)

Worker == OneRetentionWorker /\ RetentionKnown

\* If nobody else becomes a retention worker, one stays one; nothing else of the
\* retention changes.
LEMMA SameWorkers ==
    ASSUME Worker, \A q \in Pid : Retaining(q)' => Retaining(q),
           UNCHANGED << main, forked, retention_running, retention_pid >>
    PROVE  Worker'
BY DEF Worker, OneRetentionWorker, RetentionKnown

\* The steps of a process make none a retention worker that was not.
LEMMA StepWorkers ==
    ASSUME TypeOK, Stages, NEW p \in Pid, Step(p) \/ Kill(p)
    PROVE  \A q \in Pid : Retaining(q)' => Retaining(q)
<1>1. role' = role /\ (\A q \in Pid : q # p => pc'[q] = pc[q]) /\ pc[p] # "none"
  BY DEF Step, ScrapeCas, ScrapeTimeOut, OpenDb, Scrape, Parse, Insert, CommitBatch, Stamp, Cutoff,
         Delete, ClearPid, ClearRunning, Exit, Kill, Goto, TypeOK, Storing, Pruning
<1>2. Retaining(p)' => Retaining(p)
  <2>1. role[p] = "retention" => pc[p] \in RetentionPC
    BY DEF Stages, Stage
  <2>2. pc[p] \in {"exit", "zombie"} => pc'[p] = "zombie"
    BY DEF Step, ScrapeCas, ScrapeTimeOut, OpenDb, Scrape, Parse, Insert, CommitBatch, Stamp, Cutoff,
         Delete, ClearPid, ClearRunning, Exit, Kill, Goto, TypeOK, Storing, Pruning
  <2>. QED
    BY <1>1, <2>1, <2>2 DEF Retaining, RetentionPC, Pruning, Cleanup
<1>3. ASSUME NEW q \in Pid, q # p PROVE Retaining(q)' => Retaining(q)
  BY <1>1, <1>3 DEF Retaining
<1>. QED
  BY <1>2, <1>3

\* Until its pid is recorded, and while it is, a retention worker clears its pid; the flag
\* it clears then is its own.
LEMMA ProcWorker ==
    ASSUME TypeOK, Stages, Worker, NEW p \in Pid, Step(p) \/ Kill(p)
    PROVE  Worker'
<1>0. (\A q \in Pid : Retaining(q)' => Retaining(q)) /\ UNCHANGED << main, forked >>
  <2>1. UNCHANGED << main, forked >>
    BY DEF Step, ScrapeCas, ScrapeTimeOut, OpenDb, Scrape, Parse, Insert, CommitBatch, Stamp, Cutoff,
           Delete, ClearPid, ClearRunning, Exit, Kill
  <2>. QED
    BY <2>1, StepWorkers
<1>1. CASE ClearPid(p)
  BY <1>0, <1>1 DEF ClearPid, Worker, OneRetentionWorker, RetentionKnown
<1>2. CASE ClearRunning(p)
  <2>1. CASE role[p] # "retention"
    BY <1>0, <1>2, <2>1, SameWorkers DEF ClearRunning
  <2>2. CASE role[p] = "retention"
    <3>1. Retaining(p) /\ pc'[p] = "exit"
      BY <1>2, <2>2 DEF ClearRunning, Retaining, Cleanup, Goto, TypeOK
    <3>2. ~ Retaining(p)'
      BY <3>1 DEF Retaining, Pruning, Cleanup
    <3>3. \A q \in Pid : ~ Retaining(q)'
      BY <1>0, <3>1, <3>2 DEF Worker, OneRetentionWorker
    <3>4. main # "prune_fork"
      BY <3>1 DEF Worker, RetentionKnown
    <3>. QED
      BY <1>0, <3>3, <3>4 DEF Worker, OneRetentionWorker, RetentionKnown
  <2>. QED
    BY <2>1, <2>2
<1>3. CASE ~ ClearPid(p) /\ ~ ClearRunning(p)
  <2>1. UNCHANGED << retention_running, retention_pid >>
    BY <1>3 DEF Step, ScrapeCas, ScrapeTimeOut, OpenDb, Scrape, Parse, Insert, CommitBatch, Stamp, Cutoff,
           Delete, Exit, Kill, flags
  <2>. QED
    BY <1>0, <2>1, SameWorkers
<1>. QED
  BY <1>1, <1>2, <1>3

LEMMA MainWorker ==
    ASSUME TypeOK, Stages, Worker, MainStep
    PROVE  Worker'
<1>1. CASE TickDue \/ TickCas \/ TickRecord
  <2>1. /\ \A q \in Pid : Retaining(q)' = Retaining(q)
        /\ UNCHANGED << retention_running, retention_pid >>
        /\ main \notin {"prune_fork", "prune_record"} /\ main' \notin {"prune_fork", "prune_record"}
    BY <1>1 DEF TickDue, TickCas, TickRecord, Retaining, flags, procs
  <2>. QED
    BY <2>1 DEF Worker, OneRetentionWorker, RetentionKnown
<1>2. CASE TickFork
  <2>1. \A q \in Pid : Retaining(q)' => Retaining(q)
    BY <1>2 DEF TickFork, Fork, Goto, Retaining, TypeOK
  <2>. QED
    BY <1>2, <2>1 DEF TickFork, Worker, OneRetentionWorker, RetentionKnown
<1>3. CASE PruneDue
  <2>1. \A q \in Pid : Retaining(q)' = Retaining(q)
    BY <1>3 DEF PruneDue, Retaining, procs
  <2>. QED
    BY <1>3, <2>1 DEF PruneDue, Worker, OneRetentionWorker, RetentionKnown
<1>4. CASE PruneRecord
  <2>1. \A q \in Pid : Retaining(q)' = Retaining(q)
    BY <1>4 DEF PruneRecord, Retaining, procs
  <2>. QED
    BY <1>4, <2>1 DEF PruneRecord, Worker, OneRetentionWorker, RetentionKnown
<1>5. CASE PruneFork
  <2>0. retention_running /\ \A q \in Pid : ~ Retaining(q)
    BY <1>5 DEF PruneFork, Worker, RetentionKnown
  <2>1. CASE retention_running' = FALSE /\ main' = "loop" /\ UNCHANGED << forked, pc, role >>
    <3>1. \A q \in Pid : ~ Retaining(q)'
      BY <2>0, <2>1 DEF Retaining
    <3>. QED
      BY <2>1, <3>1 DEF Worker, OneRetentionWorker, RetentionKnown
  <2>2. ASSUME NEW p \in Pid, Fork(p, "retention", "init"), forked' = p, main' = "prune_record",
               UNCHANGED retention_running
        PROVE  Worker'
    <3>1. \A q \in Pid : q # p => Retaining(q)' = Retaining(q)
      BY <2>2 DEF Fork, Goto, Retaining, TypeOK
    <3>. QED
      BY <2>0, <2>2, <3>1 DEF Worker, OneRetentionWorker, RetentionKnown
  <2>. QED
    BY <1>5, <2>1, <2>2 DEF PruneFork
<1>. QED
  BY <1>1, <1>2, <1>3, <1>4, <1>5 DEF MainStep

\* The flag that sigchld_cb clears is not that of a live worker.
LEMMA SigChldWorker ==
    ASSUME TypeOK, Worker, NEW p \in Pid, SigChld(p)
    PROVE  Worker'
<1>1. ~ Retaining(p) /\ main = "loop" /\ UNCHANGED << main, forked >>
  BY DEF SigChld, Reap, Retaining, Pruning, Cleanup
<1>2. \A q \in Pid : Retaining(q)' => Retaining(q)
  BY DEF SigChld, Reap, Goto, Retaining, TypeOK
<1>3. CASE retention_pid = p
  <2>1. \A q \in Pid : ~ Retaining(q)'
    BY <1>1, <1>2, <1>3, HistoryAssumption DEF Worker, RetentionKnown
  <2>. QED
    BY <1>1, <2>1 DEF Worker, OneRetentionWorker, RetentionKnown
<1>4. CASE retention_pid # p
  <2>1. retention_pid' = retention_pid /\ retention_running' = retention_running
    BY <1>4 DEF SigChld, TypeOK
  <2>. QED
    BY <1>1, <1>2, <2>1, SameWorkers
<1>. QED
  BY <1>3, <1>4

LEMMA NextWorker == TypeOK /\ Stages /\ Worker /\ [Next]_vars => Worker'
<1>. SUFFICES ASSUME TypeOK, Stages, Worker, [Next]_vars PROVE Worker'
  OBVIOUS
<1>1. CASE AcceptScrape
  <2>1. \A q \in Pid : Retaining(q)' => Retaining(q)
    BY <1>1 DEF AcceptScrape, Fork, Goto, Retaining, TypeOK
  <2>. QED
    BY <1>1, <2>1, SameWorkers DEF AcceptScrape, flags
<1>2. CASE Tick \/ UNCHANGED vars
  <2>1. \A q \in Pid : Retaining(q)' => Retaining(q)
    BY <1>2 DEF Tick, vars, procs, Retaining
  <2>. QED
    BY <1>2, <2>1, SameWorkers DEF Tick, vars, flags
<1>. QED
  BY <1>1, <1>2, MainWorker, SigChldWorker, ProcWorker DEF Next

----------------------------------------------------------------------------
(* The database.                                                           *)

\* A commit adds all rows of a snapshot, a prune takes all or none of them.
LEMMA NextSnapshots == TypeOK /\ Stages /\ SnapshotsWhole /\ [Next]_vars => SnapshotsWhole'
<1>. SUFFICES ASSUME TypeOK, Stages, SnapshotsWhole, [Next]_vars PROVE SnapshotsWhole'
  OBVIOUS
<1>1. CASE UNCHANGED db
  BY <1>1 DEF SnapshotsWhole
<1>2. ASSUME NEW p \in Pid, CommitBatch(p), Commit(p) PROVE SnapshotsWhole'
  <2>1. /\ role[p] \in {"tick", "scrape"} /\ ts[p] \in Nat
        /\ db' = db \cup {[by |-> role[p], ts |-> ts[p], row |-> i] : i \in 1..Rows}
    BY <1>2, CommittedRows DEF CommitBatch
  <2>2. ASSUME NEW r \in db', NEW i \in 1..Rows PROVE [r EXCEPT !.row = i] \in db'
    <3>1. CASE r \in db
      BY <2>1, <3>1 DEF SnapshotsWhole
    <3>2. ASSUME NEW j \in 1..Rows, r = [by |-> role[p], ts |-> ts[p], row |-> j]
          PROVE  [r EXCEPT !.row = i] \in db'
      <4>1. [r EXCEPT !.row = i] = [by |-> role[p], ts |-> ts[p], row |-> i]
        BY <3>2
      <4>. QED
        BY <2>1, <4>1
    <3>. QED
      BY <2>1, <2>2, <3>1, <3>2
  <2>. QED
    BY <2>2 DEF SnapshotsWhole
<1>3. ASSUME NEW p \in Pid, db' = db \ Expired(p) PROVE SnapshotsWhole'
  <2>1. ASSUME NEW r \in db', NEW i \in 1..Rows PROVE [r EXCEPT !.row = i] \in db'
    <3>1. r \in db /\ ~ (r.ts < ts[p]) /\ r \in Row
      BY <1>3, <2>1 DEF Expired, TypeOK
    <3>2. [r EXCEPT !.row = i] \in db
      BY <3>1 DEF SnapshotsWhole
    <3>3. [r EXCEPT !.row = i].ts = r.ts
      BY <3>1 DEF Row
    <3>. QED
      BY <1>3, <3>1, <3>2, <3>3 DEF Expired
  <2>. QED
    BY <2>1 DEF SnapshotsWhole
<1>4. \/ UNCHANGED db
      \/ \E p \in Pid : CommitBatch(p) /\ Commit(p)
      \/ \E p \in Pid : db' = db \ Expired(p)
  <2>1. CASE MainStep
    BY <2>1 DEF MainStep, TickDue, TickCas, TickFork, TickRecord, PruneDue, PruneFork, PruneRecord, disk
  <2>2. ASSUME NEW p \in Pid, Step(p) PROVE <1>4
    BY <2>2 DEF Step, ScrapeCas, ScrapeTimeOut, OpenDb, Scrape, Parse, Insert, CommitBatch, Stamp, Cutoff,
         Delete, ClearPid, ClearRunning, Exit, disk
  <2>3. ASSUME NEW p \in Pid, SigChld(p) \/ Kill(p) PROVE UNCHANGED db
    BY <2>3 DEF SigChld, Reap, Kill, disk
  <2>4. CASE AcceptScrape \/ Tick \/ UNCHANGED vars
    BY <2>4 DEF AcceptScrape, Tick, vars, disk
  <2>. QED
    BY <2>1, <2>2, <2>3, <2>4 DEF Next
<1>. QED
  BY <1>1, <1>2, <1>3, <1>4

----------------------------------------------------------------------------

LEMMA Invariant == Spec => []IInv
<1>1. Init => IInv
  <2>. SUFFICES ASSUME Init PROVE IInv
    OBVIOUS
  <2>1. TypeOK /\ Stages
    BY InitStages
  <2>. QED
    BY <2>1 DEF Init, IInv, RecordedPidUnreaped, ForkedKnown, OneRetentionWorker, RetentionKnown,
                SnapshotsWhole, Retaining
<1>2. IInv /\ [Next]_vars => IInv'
  BY NextStages, NextPids, NextWorker, NextSnapshots DEF IInv, Pids, Worker
<1>. QED
  BY <1>1, <1>2, PTL DEF Spec

\* Every variable of the history keeps its type.
THEOREM TypeCorrect == Spec => []TypeOK
<1>1. IInv => TypeOK
  BY DEF IInv
<1>. QED
  BY <1>1, Invariant, PTL

\* The pids that sigchld_cb compares with are those of workers that were not reaped yet,
\* although a worker may end before its pid is recorded and pids are used again.
THEOREM PidsAreUnreaped == Spec => []RecordedPidUnreaped
<1>1. IInv => RecordedPidUnreaped
  BY DEF IInv
<1>. QED
  BY <1>1, Invariant, PTL

\* There is one retention worker at a time, and sigchld_cb never clears the flag of it.
THEOREM RetentionWorkerIsOne == Spec => []OneRetentionWorker
<1>1. IInv => OneRetentionWorker
  BY DEF IInv
<1>. QED
  BY <1>1, Invariant, PTL

\* Whichever process is killed or fails, the database holds whole snapshots.
THEOREM SnapshotsAreWhole == Spec => []SnapshotsWhole
<1>1. IInv => SnapshotsWhole
  BY DEF IInv
<1>. QED
  BY <1>1, Invariant, PTL

\* However long a prune waits for the database, it deletes only rows older than the
\* retention.
THEOREM PrunesOnlyExpired == Spec => OnlyExpiredPruned
<1>1. IInv /\ [Next]_vars => [\A r \in db \ db' : r.ts + Retention < now]_vars
  <2>. SUFFICES ASSUME IInv, Next, NEW r \in db, r \notin db' PROVE r.ts + Retention < now
    OBVIOUS
  <2>1. CASE MainStep
    BY <2>1 DEF MainStep, TickDue, TickCas, TickFork, TickRecord, PruneDue, PruneFork, PruneRecord, disk
  <2>2. ASSUME NEW p \in Pid, Step(p) PROVE r.ts + Retention < now
    <3>1. Delete(p) /\ r \in Expired(p)
      BY <2>2 DEF Step, ScrapeCas, ScrapeTimeOut, OpenDb, Scrape, Parse, Insert, CommitBatch, Commit, Stamp,
           Cutoff, Delete, ClearPid, ClearRunning, Exit, disk
    <3>2. ts[p] + Retention <= now /\ ts[p] \in Int /\ now \in Nat /\ r.ts \in Nat /\ r.ts < ts[p]
      BY <3>1 DEF Delete, Expired, IInv, Stages, Stage, TypeOK, Row
    <3>. QED
      BY <3>2, Durations
  <2>3. ASSUME NEW p \in Pid, SigChld(p) \/ Kill(p) PROVE r.ts + Retention < now
    BY <2>3 DEF SigChld, Reap, Kill, disk
  <2>4. CASE AcceptScrape \/ Tick
    BY <2>4 DEF AcceptScrape, Tick, disk
  <2>. QED
    BY <2>1, <2>2, <2>3, <2>4 DEF Next
<1>. QED
  BY <1>1, Invariant, PTL DEF Spec, OnlyExpiredPruned

\* The history implements SnapshotStore: a step that changes the database commits one
\* whole snapshot of the past, or deletes all rows older than an expired cutoff.
THEOREM RefinesSnapshotStore == Spec => ImplementsSnapshotStore
<1>1. Init => Stored!Init
  BY DEF Init, Stored!Init
<1>2. IInv /\ [Next]_vars => [Stored!Next]_Stored!vars
  <2>. SUFFICES ASSUME IInv, [Next]_vars PROVE [Stored!Next]_Stored!vars
    OBVIOUS
  <2>0. TypeOK /\ Stages /\ now \in Nat
    BY DEF IInv, TypeOK
  <2>1. CASE MainStep \/ AcceptScrape \/ UNCHANGED vars
    BY <2>1 DEF MainStep, TickDue, TickCas, TickFork, TickRecord, PruneDue, PruneFork, PruneRecord, AcceptScrape,
                vars, disk, Stored!vars
  <2>2. CASE Tick
    BY <2>2 DEF Tick, disk, Stored!Next, Stored!Tick
  <2>3. ASSUME NEW p \in Pid, CommitBatch(p), Commit(p) PROVE [Stored!Next]_Stored!vars
    <3>1. /\ role[p] \in {"tick", "scrape"} /\ now' = now
          /\ db' = db \cup {[by |-> role[p], ts |-> ts[p], row |-> i] : i \in 1..Rows}
      BY <2>0, <2>3, CommittedRows DEF CommitBatch
    <3>2. ts[p] \in 0..now
      BY <2>0, <2>3 DEF CommitBatch, Stages, Stage
    <3>3. Stored!Store(role[p], ts[p])
      BY <3>1 DEF Stored!Store, Stored!Snapshot
    <3>. QED
      BY <3>1, <3>2, <3>3 DEF Stored!Next
  <2>4. ASSUME NEW p \in Pid, Delete(p), db' = db \ Expired(p) PROVE [Stored!Next]_Stored!vars
    <3>1. ts[p] \in Int /\ ts[p] + Retention <= now /\ now' = now /\ Retention \in Nat
      BY <2>0, <2>4, Durations DEF Delete, Stages, Stage, TypeOK
    <3>2. \A r \in db : r.ts \in Nat
      BY <2>0 DEF TypeOK, Row
    <3>3. CASE ts[p] >= 0
      <4>1. db' = {r \in db : r.ts >= ts[p]}
        BY <2>4, <3>1, <3>2 DEF Expired
      <4>2. Stored!Prune(ts[p]) /\ ts[p] \in 0..now
        BY <2>0, <3>1, <3>3, <4>1 DEF Stored!Prune
      <4>. QED
        BY <4>2 DEF Stored!Next
    <3>4. CASE ts[p] < 0
      <4>1. db' = db
        BY <2>4, <3>1, <3>2, <3>4 DEF Expired
      <4>. QED
        BY <3>1, <4>1 DEF Stored!vars
    <3>. QED
      BY <3>1, <3>3, <3>4
  <2>5. ASSUME NEW p \in Pid, Step(p), ~ (CommitBatch(p) /\ Commit(p)), ~ (Delete(p) /\ db' = db \ Expired(p))
        PROVE  now' = now /\ db' = db
    BY <2>5 DEF Step, ScrapeCas, ScrapeTimeOut, OpenDb, Scrape, Parse, Insert, CommitBatch, Stamp, Cutoff,
         Delete, ClearPid, ClearRunning, Exit, disk
  <2>6. ASSUME NEW p \in Pid, SigChld(p) \/ Kill(p) PROVE now' = now /\ db' = db
    BY <2>6 DEF SigChld, Reap, Kill, disk
  <2>. QED
    BY <2>1, <2>2, <2>3, <2>4, <2>5, <2>6 DEF Next, Stored!vars
<1>. QED
  BY <1>1, <1>2, Invariant, PTL DEF Spec, ImplementsSnapshotStore, Stored!Spec

====
