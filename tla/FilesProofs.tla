----------------------------- MODULE FilesProofs ----------------------------
(***************************************************************************)
(* What the processes leave in files: the lines of the log; the pidfile, the*)
(* lock files, the sockets and the ports of processes that start and stop; the*)
(* master key and the users file of pgexporter-admin.                      *)
(***************************************************************************)
EXTENDS Operations, SequenceTheorems, TLAPS

(* The log.                                                                *)

\* A piece of a line as it stands in a file.
Written == [by : Writer, n : Nat, part : {"prefix", "text", "dump"}]

LogTypes ==
    /\ L!TypeOK
    /\ logconf \in Logs
    /\ lines \in [L!Path -> Seq(Written)]

\* A process that is about to write a line has a file (one that is about to write a dump may
\* have none), and who writes holds the lock.
HasFile   == \A w \in Writer : wpc[w] \in {"lock", "prefix", "text"} => log_file[w] # L!Closed
HoldsLock == \A w \in Writer : wpc[w] \in L!Holding => log_lock = w

\* A prefix whose text does not follow.
Unfinished(p, i) ==
    /\ lines[p][i].part = "prefix"
    /\ ~ (i < Len(lines[p]) /\ lines[p][i + 1] = [lines[p][i] EXCEPT !.part = "text"])

\* It is the last thing in the file that its writer has open, or the writer was killed.
Finishing ==
    \A p \in L!Path : \A i \in 1..Len(lines[p]) :
        Unfinished(p, i) =>
            LET e == lines[p][i] IN
            \/ wpc[e.by] = "killed"
            \/ wpc[e.by] = "text" /\ i = Len(lines[p]) /\ p = log_file[e.by] /\ e.n = said[e.by]

\* With log_mode = create the contents are not followed.
NotFollowed == logconf.mode # "append" => \A p \in L!Path : lines[p] = << >>

LogInv == LogTypes /\ HasFile /\ HoldsLock /\ Finishing /\ NotFollowed

\* The path of the hour is a path, and no path is a closed handle.
LEMMA LogPaths ==
    ASSUME LogTypes
    PROVE  L!LogPath \in L!Path /\ L!Closed \notin L!Path
BY LogAssumption DEF LogTypes, L!TypeOK, L!LogPath, L!Path, L!Closed

LEMMA InitLog == L!Init => LogInv
<1>. SUFFICES ASSUME L!Init PROVE LogInv
  OBVIOUS
<1>. USE LogAssumption
<1>1. L!LogPath \in L!Path /\ L!Closed \notin L!Path
  BY DEF L!Init, L!LogPath, L!Path, L!Closed
<1>2. LogTypes
  <2>1. wpc \in [Writer -> {"idle", "killed"} \cup L!Waiting \cup L!Holding]
    BY DEF L!Init
  <2>2. logconf.rotate \in BOOLEAN
    BY DEF L!Init
  <2>. QED
    BY <1>1, <2>1, <2>2, EmptySeq DEF L!Init, LogTypes, L!TypeOK
<1>. QED
  BY <1>1, <1>2 DEF LogInv, L!Init, HasFile, HoldsLock, Finishing, NotFollowed, L!Holding

\* A step of w that writes nothing keeps the invariant if it leaves the others alone.
LEMMA LogQuiet ==
    ASSUME LogInv, NEW w \in Writer, NEW to, wpc' = [wpc EXCEPT ![w] = to],
           to \in {"idle", "lock", "lock_mem", "prefix", "rotate", "dump", "unlock", "killed"},
           wpc[w] # "killed", wpc[w] = "text" => to = "killed",
           UNCHANGED << logconf, lines >>, rotation' \in BOOLEAN, hour' \in 0..MaxHour,
           said' \in [Writer -> 0..MaxLines], \A v \in Writer : v # w => said'[v] = said[v],
           log_lock' \in Writer \cup {L!Free},
           log_file' \in [Writer -> L!Path \cup {L!Closed}],
           \A v \in Writer : v # w => log_file'[v] = log_file[v]
                                     /\ (wpc[v] \in L!Holding => log_lock' = v),
           to \in {"lock", "prefix"} => log_file'[w] # L!Closed,
           to \in L!Holding => log_lock' = w
    PROVE  LogInv'
<1>. USE DEF LogInv, L!Waiting, L!Holding
<1>1. LogTypes'
  BY DEF LogTypes, L!TypeOK, HasFile
<1>2. HasFile' /\ HoldsLock'
  BY DEF LogTypes, L!TypeOK, HasFile, HoldsLock
<1>3. Finishing'
  <2>. SUFFICES ASSUME NEW p \in L!Path, NEW i \in 1..Len(lines[p]), Unfinished(p, i)
                PROVE  \/ wpc'[lines[p][i].by] = "killed"
                       \/ /\ wpc'[lines[p][i].by] = "text" /\ i = Len(lines[p])
                          /\ p = log_file'[lines[p][i].by] /\ lines[p][i].n = said'[lines[p][i].by]
    BY DEF Finishing, Unfinished
  <2>1. lines[p][i] \in Written
    BY ElementOfSeq DEF LogTypes
  <2>2. lines[p][i].by \in Writer
    BY <2>1 DEF Written
  <2>3. CASE wpc[lines[p][i].by] = "killed"
    BY <2>2, <2>3 DEF LogTypes, L!TypeOK
  <2>4. CASE wpc[lines[p][i].by] # "killed"
    <3>1. /\ wpc[lines[p][i].by] = "text" /\ i = Len(lines[p]) /\ p = log_file[lines[p][i].by]
          /\ lines[p][i].n = said[lines[p][i].by]
      BY <2>4 DEF Finishing
    <3>. QED
      BY <2>2, <3>1 DEF LogTypes, L!TypeOK
  <2>. QED
    BY <2>3, <2>4
<1>4. NotFollowed'
  BY DEF NotFollowed
<1>. QED
  BY <1>1, <1>2, <1>3, <1>4

\* Opening a file changes none: with log_mode = create it was not followed.
LEMMA OpenKeeps ==
    ASSUME LogInv, NEW w \in Writer, L!Open(w)
    PROVE  /\ lines' = lines
           /\ log_file' = [log_file EXCEPT ![w] = L!LogPath]
           /\ log_file' \in [Writer -> L!Path \cup {L!Closed}]
           /\ log_file'[w] # L!Closed
<1>1. CASE logconf.mode = "create"
  <2>1. [lines EXCEPT ![L!LogPath] = << >>] = lines
    BY <1>1, LogPaths DEF LogInv, LogTypes, NotFollowed
  <2>. QED
    BY <1>1, <2>1, LogPaths DEF L!Open, LogInv, LogTypes, L!TypeOK
<1>2. CASE logconf.mode # "create"
  BY <1>2, LogPaths DEF L!Open, LogInv, LogTypes, L!TypeOK
<1>. QED
  BY <1>1, <1>2

\* pgexporter_stop_logging and pgexporter_start_logging.
LEMMA LogRestarts == ASSUME LogInv, NEW w \in Writer, L!RestartLogging(w) PROVE LogInv'
<1>1. /\ wpc[w] = "idle" /\ UNCHANGED << logconf, log_lock, hour, said, wpc >>
      /\ wpc' = [wpc EXCEPT ![w] = "idle"]
  BY DEF L!RestartLogging, LogInv, LogTypes, L!TypeOK
<1>2. CASE L!Open(w) /\ rotation' \in {rotation, logconf.rotate}
  <2>1. rotation' \in BOOLEAN
    BY <1>2, LogAssumption DEF LogInv, LogTypes, L!TypeOK
  <2>2. /\ lines' = lines /\ log_file' \in [Writer -> L!Path \cup {L!Closed}]
        /\ \A v \in Writer : v # w => log_file'[v] = log_file[v]
    BY <1>2, OpenKeeps DEF LogInv, LogTypes, L!TypeOK
  <2>. QED
    BY <1>1, <2>1, <2>2, LogQuiet DEF LogInv, LogTypes, L!TypeOK, HoldsLock, L!Holding
<1>3. CASE log_file' = [log_file EXCEPT ![w] = L!Closed] /\ rotation' = FALSE /\ UNCHANGED lines
  BY <1>1, <1>3, LogQuiet DEF LogInv, LogTypes, L!TypeOK, HoldsLock, L!Holding
<1>. QED
  BY <1>2, <1>3 DEF L!RestartLogging

LEMMA LogStarts == ASSUME LogInv, NEW w \in Writer, L!Log(w) \/ L!LogMem(w) PROVE LogInv'
<1>. USE DEF L!Holding
<1>1. /\ wpc[w] = "idle" /\ UNCHANGED << logconf, log_lock, hour >>
      /\ said' \in [Writer -> 0..MaxLines] /\ \A v \in Writer : v # w => said'[v] = said[v]
  BY LogAssumption DEF L!Log, L!LogMem, LogInv, LogTypes, L!TypeOK
<1>2. CASE log_file[w] # L!Closed /\ L!Goto(w, "lock") /\ UNCHANGED << rotation, log_file, lines >>
  BY <1>1, <1>2, LogQuiet DEF L!Goto, LogInv, LogTypes, L!TypeOK, HoldsLock
<1>3. CASE L!Open(w) /\ L!Goto(w, "lock") /\ UNCHANGED rotation
  <2>1. /\ lines' = lines /\ log_file' \in [Writer -> L!Path \cup {L!Closed}] /\ log_file'[w] # L!Closed
        /\ \A v \in Writer : v # w => log_file'[v] = log_file[v]
    BY <1>3, OpenKeeps DEF LogInv, LogTypes, L!TypeOK
  <2>. QED
    BY <1>1, <1>3, <2>1, LogQuiet DEF L!Goto, LogInv, LogTypes, L!TypeOK, HoldsLock
<1>4. CASE rotation' = FALSE /\ UNCHANGED << log_file, lines, wpc >>
  <2>. wpc' = [wpc EXCEPT ![w] = "idle"]
    BY <1>1, <1>4 DEF LogInv, LogTypes, L!TypeOK
  <2>. QED
    BY <1>1, <1>4, LogQuiet DEF LogInv, LogTypes, L!TypeOK, HoldsLock
<1>5. CASE L!LogMem(w)
  BY <1>1, <1>5, LogQuiet DEF L!LogMem, L!Goto, LogInv, LogTypes, L!TypeOK, HoldsLock
<1>. QED
  BY <1>2, <1>3, <1>4, <1>5 DEF L!Log

\* Taking and giving back the lock, rotating, being killed.
LEMMA LogMoves ==
    ASSUME LogInv, NEW w \in Writer,
           L!Lock(w) \/ L!Rotate(w) \/ L!NoRotation(w) \/ L!Unlock(w) \/ L!Killed(w)
    PROVE  LogInv'
<1>. USE DEF L!Waiting, L!Holding
<1>1. CASE L!Lock(w)
  BY <1>1, LogQuiet, LogAssumption DEF L!Lock, L!Goto, LogInv, LogTypes, L!TypeOK, HoldsLock, HasFile
<1>2. CASE L!Rotate(w)
  <2>1. /\ wpc[w] = "rotate" /\ wpc' = [wpc EXCEPT ![w] = "unlock"]
        /\ UNCHANGED << logconf, log_lock, rotation, hour, said >>
    BY <1>2 DEF L!Rotate, L!Goto
  <2>2. /\ lines' = lines /\ log_file' \in [Writer -> L!Path \cup {L!Closed}]
        /\ \A v \in Writer : v # w => log_file'[v] = log_file[v]
    <3>1. CASE L!Open(w)
      BY <3>1, OpenKeeps DEF LogInv, LogTypes, L!TypeOK
    <3>2. CASE log_file' = [log_file EXCEPT ![w] = L!Closed] /\ UNCHANGED lines
      BY <3>2 DEF LogInv, LogTypes, L!TypeOK
    <3>. QED
      BY <1>2, <3>1, <3>2 DEF L!Rotate
  <2>. QED
    BY <2>1, <2>2, LogQuiet DEF LogInv, LogTypes, L!TypeOK, HoldsLock
<1>3. CASE L!NoRotation(w)
  BY <1>3, LogQuiet DEF L!NoRotation, L!Goto, LogInv, LogTypes, L!TypeOK, HoldsLock
<1>4. CASE L!Unlock(w)
  BY <1>4, LogQuiet DEF L!Unlock, L!Goto, LogInv, LogTypes, L!TypeOK, HoldsLock
<1>5. CASE L!Killed(w)
  BY <1>5, LogQuiet DEF L!Killed, L!Goto, LogInv, LogTypes, L!TypeOK, HoldsLock
<1>. QED
  BY <1>1, <1>2, <1>3, <1>4, <1>5

\* A dump without a handle is the end of the process, with the lock.
LEMMA DumpDies ==
    ASSUME LogInv, NEW w \in Writer, L!Dump(w), log_file[w] = L!Closed
    PROVE  LogInv' /\ lines' = lines
BY LogQuiet DEF L!Dump, L!Goto, LogInv, LogTypes, L!TypeOK, HoldsLock, L!Holding

\* The steps of a line: the prefix becomes the last thing in the file, and the text follows
\* it. A dump is one piece.
LEMMA LogWrites ==
    ASSUME LogInv, NEW w \in Writer, L!Prefix(w) \/ L!Text(w) \/ (L!Dump(w) /\ log_file[w] # L!Closed)
    PROVE  LogInv'
<1>. USE DEF L!Waiting, L!Holding
<1>. DEFINE this == wpc[w]
            f == log_file[w]
            e == L!Line(w, this)
<1>1. /\ wpc[w] = this /\ this \in {"prefix", "text", "dump"} /\ log_file[w] # L!Closed
      /\ wpc' = [wpc EXCEPT ![w] = IF this = "prefix" THEN "text"
                                 ELSE IF this = "text" THEN "rotate" ELSE "unlock"]
      /\ L!Write(w, this)
      /\ UNCHANGED << logconf, log_lock, rotation, hour, log_file, said >>
  BY DEF L!Prefix, L!Text, L!Dump, L!Goto, LogInv, HasFile
<1>2. f \in L!Path /\ log_lock = w
  BY <1>1 DEF LogInv, LogTypes, L!TypeOK, HasFile, HoldsLock
<1>3. e \in Written /\ e = [by |-> w, n |-> said[w], part |-> this]
  BY <1>1, LogAssumption DEF L!Line, Written, LogInv, LogTypes, L!TypeOK
<1>4. CASE logconf.mode # "append"
  <2>1. lines' = lines /\ \A p \in L!Path : lines[p] = << >>
    BY <1>1, <1>4 DEF L!Write, LogInv, NotFollowed
  <2>2. LogTypes' /\ HasFile' /\ HoldsLock'
    BY <1>1, <1>2, <2>1 DEF LogInv, LogTypes, L!TypeOK, HasFile, HoldsLock
  <2>3. Finishing' /\ NotFollowed'
    BY <2>1 DEF Finishing, NotFollowed
  <2>. QED
    BY <2>2, <2>3 DEF LogInv
<1>5. CASE logconf.mode = "append"
  <2>1. lines' = [lines EXCEPT ![f] = Append(@, e)]
    BY <1>1, <1>5 DEF L!Write
  <2>2. /\ lines[f] \in Seq(Written) /\ Append(lines[f], e) \in Seq(Written)
        /\ Len(Append(lines[f], e)) = Len(lines[f]) + 1 /\ Len(lines[f]) \in Nat
        /\ \A i \in 1..Len(lines[f]) : Append(lines[f], e)[i] = lines[f][i]
        /\ Append(lines[f], e)[Len(lines[f]) + 1] = e
    BY <1>2, <1>3, AppendProperties, LenProperties DEF LogInv, LogTypes
  <2>3. lines' \in [L!Path -> Seq(Written)]
    BY <1>2, <2>1, <2>2 DEF LogInv, LogTypes
  <2>4. LogTypes' /\ HasFile' /\ HoldsLock'
    BY <1>1, <1>2, <2>3 DEF LogInv, LogTypes, L!TypeOK, HasFile, HoldsLock
  <2>5. Finishing'
    <3>. SUFFICES ASSUME NEW p \in L!Path, NEW i \in 1..Len(lines'[p]), Unfinished(p, i)',
                         wpc'[lines'[p][i].by] # "killed"
                  PROVE  /\ wpc'[lines'[p][i].by] = "text" /\ i = Len(lines'[p])
                         /\ p = log_file'[lines'[p][i].by] /\ lines'[p][i].n = said'[lines'[p][i].by]
      BY DEF Finishing
    <3>1. CASE p = f /\ i = Len(lines[f]) + 1
      BY <1>1, <1>2, <1>3, <2>1, <2>2, <3>1 DEF LogInv, LogTypes, L!TypeOK, Unfinished
    <3>2. CASE ~ (p = f /\ i = Len(lines[f]) + 1)
      <4>1. /\ i \in 1..Len(lines[p]) /\ lines'[p][i] = lines[p][i]
            /\ i < Len(lines[p]) => i < Len(lines'[p]) /\ lines'[p][i + 1] = lines[p][i + 1]
        BY <1>2, <2>1, <2>2, <3>2, LenProperties DEF LogInv, LogTypes
      <4>2. Unfinished(p, i)
        BY <4>1 DEF Unfinished
      <4>3. lines[p][i] \in Written /\ lines[p][i].by \in Writer
        <5>1. lines[p][i] \in Written
          BY <4>1, ElementOfSeq DEF LogInv, LogTypes
        <5>. QED
          BY <5>1 DEF Written
      <4>4. wpc[lines[p][i].by] # "killed"
        BY <1>1, <4>1, <4>3 DEF LogInv, LogTypes, L!TypeOK
      <4>5. /\ wpc[lines[p][i].by] = "text" /\ i = Len(lines[p]) /\ p = log_file[lines[p][i].by]
            /\ lines[p][i].n = said[lines[p][i].by]
        BY <4>1, <4>2, <4>4 DEF LogInv, Finishing
      <4>6. lines[p][i].by = w /\ this = "text" /\ p = f
        BY <1>1, <1>2, <4>3, <4>5 DEF LogInv, HoldsLock
      <4>7. e = [lines[p][i] EXCEPT !.part = "text"]
        <5>1. \A r \in Written : [r EXCEPT !.part = "text"] = [by |-> r.by, n |-> r.n, part |-> "text"]
          BY DEF Written
        <5>. QED
          BY <1>3, <4>3, <4>5, <4>6, <5>1
      <4>8. lines'[p] = Append(lines[f], e)
        BY <1>2, <2>1, <4>6 DEF LogInv, LogTypes
      <4>9. lines'[p][i + 1] = e /\ i < Len(lines'[p])
        BY <2>2, <4>5, <4>6, <4>8
      <4>. QED
        BY <4>1, <4>7, <4>9 DEF Unfinished
    <3>. QED
      BY <3>1, <3>2
  <2>6. NotFollowed'
    BY <1>1, <1>5 DEF NotFollowed
  <2>. QED
    BY <2>4, <2>5, <2>6 DEF LogInv
<1>. QED
  BY <1>4, <1>5

\* In the composition: a step is one of this part or leaves it alone.
LEMMA StepLog == LogInv /\ [Next]_vars => LogInv'
<1>. SUFFICES ASSUME LogInv, [Next]_vars PROVE LogInv'
  OBVIOUS
<1>1. ASSUME NEW w \in Writer,
             L!RestartLogging(w) \/ L!Log(w) \/ L!LogMem(w) \/ L!Writes(w) \/ L!Killed(w)
      PROVE  LogInv'
  BY <1>1, LogRestarts, LogStarts, LogMoves, LogWrites, DumpDies DEF L!Writes
<1>2. CASE L!Hour
  <2>. LogTypes' /\ UNCHANGED << logconf, log_lock, log_file, lines, said, wpc >>
    BY <1>2, LogAssumption DEF L!Hour, LogInv, LogTypes, L!TypeOK
  <2>. QED
    BY DEF LogInv, HasFile, HoldsLock, Finishing, Unfinished, NotFollowed
<1>3. CASE UNCHANGED LogVars
  BY <1>3 DEF LogVars, LogInv, LogTypes, L!TypeOK, HasFile, HoldsLock, Finishing, Unfinished, NotFollowed
<1>4. L!Next \/ UNCHANGED LogVars
  BY DEF Next, vars, ManagementStep, LoginStep, LogStep
<1>. QED
  BY <1>1, <1>2, <1>3, <1>4 DEF L!Next

\* What a step of the log does to a file with log_mode = append: nothing, or one piece at its end.
LEMMA AppendsOnly ==
    ASSUME LogInv, [Next]_vars, logconf.mode = "append", NEW p \in L!Path
    PROVE  \/ lines'[p] = lines[p]
           \/ \E e \in Written : lines'[p] = Append(lines[p], e)
<1>1. ASSUME NEW w \in Writer, NEW this \in {"prefix", "text", "dump"}, L!Write(w, this), wpc[w] = this
      PROVE  \/ lines'[p] = lines[p]
             \/ \E e \in Written : lines'[p] = Append(lines[p], e)
  <2>1. L!Line(w, this) \in Written
    BY LogAssumption DEF L!Line, Written, LogInv, LogTypes, L!TypeOK
  <2>. QED
    BY <1>1, <2>1 DEF L!Write, LogInv, LogTypes, L!TypeOK
<1>2. ASSUME NEW w \in Writer,
             L!RestartLogging(w) \/ L!Log(w) \/ L!LogMem(w) \/ L!Writes(w) \/ L!Killed(w)
      PROVE  \/ lines' = lines
             \/ \E this \in {"prefix", "text", "dump"} : L!Write(w, this) /\ wpc[w] = this
  BY <1>2 DEF L!RestartLogging, L!Log, L!LogMem, L!Open, L!Writes, L!Lock, L!Prefix, L!Text, L!Rotate,
              L!NoRotation, L!Dump, L!Unlock, L!Killed
<1>3. L!Next \/ UNCHANGED LogVars
  BY DEF Next, vars, ManagementStep, LoginStep, LogStep
<1>. QED
  BY <1>1, <1>2, <1>3 DEF L!Next, L!Hour, LogVars

\* With any number of processes and rotations, the lines of different processes do not run
\* into each other (pgexporter_log_line holds the lock from the prefix to the end of the
\* text, and a dump of pgexporter_log_mem does not come in between), and with
\* log_mode = append nothing that was written is lost, whoever rotates or starts logging anew.
THEOREM LogIsKept == Spec => LogKept
<1>1. LogInv => L!TypeOK /\ L!LinesWhole
  <2>. SUFFICES ASSUME LogInv, NEW p \in L!Path, NEW i \in DOMAIN lines[p], lines[p][i].part = "prefix",
                       ~ (i < Len(lines[p]) /\ lines[p][i + 1] = [lines[p][i] EXCEPT !.part = "text"])
                PROVE  wpc[lines[p][i].by] \in {"text", "killed"}
    BY DEF LogInv, LogTypes, L!LinesWhole
  <2>1. i \in 1..Len(lines[p])
    BY LenProperties DEF LogInv, LogTypes
  <2>. QED
    BY <2>1 DEF LogInv, Finishing, Unfinished
<1>2. LogInv /\ [Next]_vars =>
        [logconf.mode = "append" =>
           \A p \in L!Path : Len(lines'[p]) >= Len(lines[p])
                             /\ SubSeq(lines'[p], 1, Len(lines[p])) = lines[p]]_(L!vars)
  <2>. SUFFICES ASSUME LogInv, [Next]_vars, logconf.mode = "append", NEW p \in L!Path
                PROVE  Len(lines'[p]) >= Len(lines[p]) /\ SubSeq(lines'[p], 1, Len(lines[p])) = lines[p]
    OBVIOUS
  <2>1. lines[p] \in Seq(Written) /\ Len(lines[p]) \in Nat
    BY LenProperties DEF LogInv, LogTypes
  <2>2. CASE lines'[p] = lines[p]
    BY <2>1, <2>2, SubSeqFull
  <2>3. CASE \E e \in Written : lines'[p] = Append(lines[p], e)
    <3>1. PICK e \in Written : lines'[p] = Append(lines[p], e)
      BY <2>3
    <3>. DEFINE s == SubSeq(lines'[p], 1, Len(lines[p]))
    <3>2. /\ Len(lines'[p]) = Len(lines[p]) + 1
          /\ \A i \in 1..Len(lines[p]) : lines'[p][i] = lines[p][i]
      BY <2>1, <3>1, AppendProperties
    <3>3. \A i \in 1..Len(lines[p]) : lines'[p][i] \in Written
      BY <2>1, <3>2, ElementOfSeq
    <3>4. /\ s \in Seq(Written) /\ Len(s) = Len(lines[p])
          /\ \A i \in 1..Len(lines[p]) : s[i] = lines'[p][i]
      BY <2>1, <3>3, SubSeqProperties
    <3>5. s = lines[p]
      BY <2>1, <3>2, <3>4, SeqEqual
    <3>. QED
      BY <2>1, <3>2, <3>5
  <2>. QED
    BY <2>2, <2>3, AppendsOnly
<1>3. Init => LogInv
  BY InitLog DEF Init
<1>. QED
  BY <1>1, <1>2, <1>3, StepLog, PTL DEF Spec, LogKept, L!AppendKeeps

----------------------------------------------------------------------------

(* Starting and stopping: what the programs of a process consist of.      *)

\* The elements of a sequence; X ahead of Y in it; an element that occurs once; one after
\* the other.
Elems(s)       == {s[i] : i \in 1..Len(s)}
Ahead(s, X, Y) == \A i, j \in 1..Len(s) : s[i] \in X /\ s[j] \in Y => i < j
Once(s, x)     == \A i, j \in 1..Len(s) : s[i] = x /\ s[j] = x => i = j
After(s, x, y) == \E i, j \in 1..Len(s) : i < j /\ s[i] = x /\ s[j] = y

LEMMA ConcatIndex ==
    ASSUME NEW Elem, NEW s \in Seq(Elem), NEW t \in Seq(Elem)
    PROVE  /\ s \o t \in Seq(Elem) /\ Len(s) \in Nat /\ Len(t) \in Nat
           /\ Len(s \o t) = Len(s) + Len(t)
           /\ \A i \in 1..Len(s) : (s \o t)[i] = s[i]
           /\ \A i \in 1..Len(t) : (s \o t)[Len(s) + i] = t[i]
           /\ \A i \in 1..(Len(s) + Len(t)) :
                  i \in 1..Len(s) \/ \E j \in 1..Len(t) : i = Len(s) + j
<1>1. /\ s \o t \in Seq(Elem) /\ Len(s) \in Nat /\ Len(t) \in Nat
      /\ Len(s \o t) = Len(s) + Len(t)
      /\ \A i \in 1..(Len(s) + Len(t)) : (s \o t)[i] = IF i <= Len(s) THEN s[i] ELSE t[i - Len(s)]
  BY ConcatProperties, LenProperties
<1>. DEFINE m == Len(s)
            n == Len(t)
            u == s \o t
<1>2. m \in Nat /\ n \in Nat /\ \A i \in 1..(m + n) : u[i] = IF i <= m THEN s[i] ELSE t[i - m]
  BY <1>1
<1>. HIDE DEF m, n, u
<1>3. \A i \in 1..m : u[i] = s[i]
  BY <1>2
<1>4. ASSUME NEW i \in 1..n PROVE u[m + i] = t[i]
  <2>1. m + i \in 1..(m + n) /\ ~ (m + i <= m) /\ (m + i) - m = i
    BY <1>2
  <2>. QED
    BY <1>2, <2>1
<1>5. ASSUME NEW i \in 1..(m + n) PROVE i \in 1..m \/ \E j \in 1..n : i = m + j
  <2>1. CASE i <= m
    BY <1>2, <2>1
  <2>2. CASE ~ (i <= m)
    <3>1. i - m \in 1..n /\ i = m + (i - m)
      BY <1>2, <2>2
    <3>. QED
      BY <3>1
  <2>. QED
    BY <2>1, <2>2
<1>. QED
  BY <1>1, <1>3, <1>4, <1>5 DEF m, n, u

LEMMA ConcatElems ==
    ASSUME NEW Elem, NEW s \in Seq(Elem), NEW t \in Seq(Elem)
    PROVE  s \o t \in Seq(Elem) /\ Elems(s \o t) = Elems(s) \cup Elems(t)
<1>. DEFINE m == Len(s)
            n == Len(t)
            u == s \o t
<1>1. /\ u \in Seq(Elem) /\ m \in Nat /\ n \in Nat /\ Len(u) = m + n
      /\ \A i \in 1..m : u[i] = s[i]
      /\ \A i \in 1..n : u[m + i] = t[i]
      /\ \A i \in 1..(m + n) : i \in 1..m \/ \E j \in 1..n : i = m + j
  BY ConcatIndex
<1>2. Elems(s) = {s[i] : i \in 1..m} /\ Elems(t) = {t[i] : i \in 1..n} /\ Elems(u) = {u[i] : i \in 1..(m + n)}
  BY <1>1 DEF Elems
<1>. HIDE DEF m, n, u
<1>3. ASSUME NEW x \in Elems(u) PROVE x \in Elems(s) \cup Elems(t)
  <2>1. PICK i \in 1..(m + n) : x = u[i]
    BY <1>2
  <2>. QED
    BY <1>1, <1>2, <2>1
<1>4. ASSUME NEW x \in Elems(s) PROVE x \in Elems(u)
  <2>1. PICK i \in 1..m : x = s[i]
    BY <1>2
  <2>. QED
    BY <1>1, <1>2, <2>1
<1>5. ASSUME NEW x \in Elems(t) PROVE x \in Elems(u)
  <2>1. PICK i \in 1..n : x = t[i]
    BY <1>2
  <2>2. m + i \in 1..(m + n)
    BY <1>1
  <2>. QED
    BY <1>1, <1>2, <2>1, <2>2
<1>. QED
  BY <1>1, <1>3, <1>4, <1>5 DEF u

\* What comes behind is not ahead.
LEMMA ConcatAhead ==
    ASSUME NEW Elem, NEW s \in Seq(Elem), NEW t \in Seq(Elem), NEW X, NEW Y,
           Ahead(s, X, Y), Elems(t) \cap X = {}
    PROVE  Ahead(s \o t, X, Y)
<1>. DEFINE m == Len(s)
            n == Len(t)
            u == s \o t
<1>1. /\ m \in Nat /\ n \in Nat /\ Len(u) = m + n
      /\ \A i \in 1..m : u[i] = s[i]
      /\ \A i \in 1..n : u[m + i] = t[i]
      /\ \A i \in 1..(m + n) : i \in 1..m \/ \E j \in 1..n : i = m + j
  BY ConcatIndex
<1>2. /\ \A i, j \in 1..m : s[i] \in X /\ s[j] \in Y => i < j
      /\ \A i \in 1..n : t[i] \notin X
      /\ (\A i, j \in 1..(m + n) : u[i] \in X /\ u[j] \in Y => i < j) => Ahead(u, X, Y)
  BY <1>1 DEF Ahead, Elems
<1>. HIDE DEF m, n, u
<1>3. ASSUME NEW i \in 1..(m + n), NEW j \in 1..(m + n), u[i] \in X, u[j] \in Y PROVE i < j
  <2>1. i \in 1..m
    BY <1>1, <1>2, <1>3
  <2>2. CASE j \in 1..m
    BY <1>1, <1>2, <1>3, <2>1, <2>2
  <2>3. CASE j \notin 1..m
    BY <1>1, <2>1, <2>3
  <2>. QED
    BY <2>2, <2>3
<1>. QED
  BY <1>2, <1>3 DEF u

LEMMA AheadOfNone ==
    ASSUME NEW s, NEW X, NEW Y, Elems(s) \cap Y = {} \/ Elems(s) \cap X = {}
    PROVE  Ahead(s, X, Y)
BY DEF Ahead, Elems

LEMMA ConcatOnce ==
    ASSUME NEW Elem, NEW s \in Seq(Elem), NEW t \in Seq(Elem), NEW x,
           x \notin Elems(s) \/ x \notin Elems(t), Once(s, x), Once(t, x)
    PROVE  Once(s \o t, x)
<1>. DEFINE m == Len(s)
            n == Len(t)
            u == s \o t
<1>1. /\ m \in Nat /\ n \in Nat /\ Len(u) = m + n
      /\ \A i \in 1..m : u[i] = s[i]
      /\ \A i \in 1..n : u[m + i] = t[i]
      /\ \A i \in 1..(m + n) : i \in 1..m \/ \E j \in 1..n : i = m + j
  BY ConcatIndex
<1>2. /\ \A i, j \in 1..m : s[i] = x /\ s[j] = x => i = j
      /\ \A i, j \in 1..n : t[i] = x /\ t[j] = x => i = j
      /\ (\A i \in 1..m : s[i] # x) \/ (\A i \in 1..n : t[i] # x)
      /\ (\A i, j \in 1..(m + n) : u[i] = x /\ u[j] = x => i = j) => Once(u, x)
  BY <1>1 DEF Once, Elems
<1>. HIDE DEF m, n, u
<1>3. ASSUME NEW i \in 1..(m + n), NEW j \in 1..(m + n), u[i] = x, u[j] = x PROVE i = j
  <2>1. CASE i \in 1..m
    <3>1. s[i] = x
      BY <1>1, <1>3, <2>1
    <3>2. j \in 1..m
      BY <1>1, <1>2, <1>3, <2>1, <3>1
    <3>3. s[j] = x
      BY <1>1, <1>3, <3>2
    <3>. QED
      BY <1>2, <2>1, <3>1, <3>2, <3>3
  <2>2. CASE i \notin 1..m
    <3>1. PICK k \in 1..n : i = m + k
      BY <1>1, <2>2
    <3>2. t[k] = x
      BY <1>1, <1>3, <3>1
    <3>3. j \notin 1..m
      BY <1>1, <1>2, <1>3, <3>2
    <3>4. PICK l \in 1..n : j = m + l
      BY <1>1, <3>3
    <3>. QED
      BY <1>1, <1>2, <1>3, <3>1, <3>2, <3>4
  <2>. QED
    BY <2>1, <2>2
<1>. QED
  BY <1>2, <1>3 DEF u

LEMMA ConcatAfter ==
    ASSUME NEW Elem, NEW s \in Seq(Elem), NEW t \in Seq(Elem), NEW x, NEW y,
           After(s, x, y) \/ (x \in Elems(s) /\ y \in Elems(t))
    PROVE  After(s \o t, x, y)
<1>. DEFINE m == Len(s)
            n == Len(t)
            u == s \o t
<1>1. /\ m \in Nat /\ n \in Nat /\ Len(u) = m + n
      /\ \A i \in 1..m : u[i] = s[i]
      /\ \A i \in 1..n : u[m + i] = t[i]
  BY ConcatIndex
<1>2. (\E i, j \in 1..(m + n) : i < j /\ u[i] = x /\ u[j] = y) => After(u, x, y)
  BY <1>1 DEF After
<1>3. CASE After(s, x, y)
  <2>1. PICK i \in 1..m, j \in 1..m : i < j /\ s[i] = x /\ s[j] = y
    BY <1>3 DEF After
  <2>. HIDE DEF m, n, u
  <2>2. i \in 1..(m + n) /\ j \in 1..(m + n) /\ u[i] = x /\ u[j] = y
    BY <1>1, <2>1
  <2>3. After(u, x, y)
    BY <1>2, <2>1, <2>2
  <2>. QED
    BY <2>3 DEF u
<1>4. CASE x \in Elems(s) /\ y \in Elems(t)
  <2>1. PICK i \in 1..m, j \in 1..n : s[i] = x /\ t[j] = y
    BY <1>4 DEF Elems
  <2>. HIDE DEF m, n, u
  <2>2. i \in 1..(m + n) /\ m + j \in 1..(m + n) /\ i < m + j /\ u[i] = x /\ u[m + j] = y
    BY <1>1, <2>1
  <2>3. After(u, x, y)
    BY <1>2, <2>2
  <2>. QED
    BY <2>3 DEF u
<1>. QED
  BY <1>3, <1>4

LEMMA ConcatBehind ==
    ASSUME NEW Elem, NEW s \in Seq(Elem), NEW t \in Seq(Elem), NEW x, NEW y, After(t, x, y)
    PROVE  After(s \o t, x, y)
<1>. DEFINE m == Len(s)
            n == Len(t)
            u == s \o t
<1>1. /\ m \in Nat /\ n \in Nat /\ Len(u) = m + n
      /\ \A i \in 1..n : u[m + i] = t[i]
  BY ConcatIndex
<1>2. (\E i, j \in 1..(m + n) : i < j /\ u[i] = x /\ u[j] = y) => After(u, x, y)
  BY <1>1 DEF After
<1>3. PICK i \in 1..n, j \in 1..n : i < j /\ t[i] = x /\ t[j] = y
  BY DEF After
<1>. HIDE DEF m, n, u
<1>4. m + i \in 1..(m + n) /\ m + j \in 1..(m + n) /\ m + i < m + j
  BY <1>1, <1>3
<1>5. u[m + i] = x /\ u[m + j] = y
  BY <1>1, <1>3
<1>6. After(u, x, y)
  BY <1>2, <1>4, <1>5
<1>. QED
  BY <1>6 DEF u

Op(o, a) == [op |-> o, arg |-> a]

Instruction ==
    [op : {"create", "check", "daemon", "unix", "bind", "close", "remove"},
     arg : D!AllFiles \cup D!AllPorts
             \cup {"none", "definitions", "caches", "tls", "extension yamls"}]

\* The files a process claims with O_EXCL, and its sockets.
Claimed(c) == {D!Pidfile(c)} \cup {D!Lockfile(pt) : pt \in D!LockedPorts(c)}
Sockets(c) == {D!Socket(c, "main"), D!Socket(c, "transfer")}

LEMMA OpFields == \A o, a : Op(o, a).op = o /\ Op(o, a).arg = a
BY DEF Op

LEMMA OneInstruction ==
    ASSUME NEW o, NEW a, Op(o, a) \in Instruction
    PROVE  /\ D!Ins(o, a) \in Seq(Instruction) /\ Elems(D!Ins(o, a)) = {Op(o, a)}
           /\ \A x : Once(D!Ins(o, a), x)
<1>1. D!Ins(o, a) = << Op(o, a) >>
  BY DEF D!Ins, Op
<1>. DEFINE e == Op(o, a)
<1>. HIDE DEF e
<1>2. << e >> \in Seq(Instruction) /\ Elems(<< e >>) = {e} /\ \A x : Once(<< e >>, x)
  <2>1. e \in Instruction
    BY DEF e
  <2>2. << e >> \in Seq(Instruction) /\ Len(<< e >>) = 1 /\ << e >>[1] = e
    BY <2>1
  <2>. DEFINE q == << e >>
  <2>. HIDE DEF q
  <2>3. Elems(q) = {e}
    BY <2>2 DEF Elems, q
  <2>. QED
    BY <2>2, <2>3 DEF q, Once
<1>. QED
  BY <1>1, <1>2 DEF e

LEMMA NoInstruction == << >> \in Seq(Instruction) /\ Elems(<< >>) = {} /\ \A x : Once(<< >>, x)
BY EmptySeq DEF Elems, Once

LEMMA Optional ==
    ASSUME NEW b, NEW s \in Seq(Instruction)
    PROVE  /\ D!If(b, s) \in Seq(Instruction)
           /\ Elems(D!If(b, s)) = IF b THEN Elems(s) ELSE {}
           /\ \A x : Once(s, x) => Once(D!If(b, s), x)
BY NoInstruction DEF D!If

\* An instruction that is there on a condition.
LEMMA MayBe ==
    ASSUME NEW b, NEW o, NEW a, b => Op(o, a) \in Instruction
    PROVE  /\ D!If(b, D!Ins(o, a)) \in Seq(Instruction)
           /\ Elems(D!If(b, D!Ins(o, a))) = IF b THEN {Op(o, a)} ELSE {}
           /\ \A x : Once(D!If(b, D!Ins(o, a)), x)
<1>1. CASE b
  BY <1>1, OneInstruction, Optional
<1>2. CASE ~ b
  BY <1>2, NoInstruction DEF D!If
<1>. QED
  BY <1>1, <1>2

LEMMA Arguments ==
    ASSUME NEW c \in Config
    PROVE  /\ D!Pidfile(c) \in D!AllFiles
           /\ \A s \in {"main", "transfer"} : D!Socket(c, s) \in D!AllFiles
           /\ \A pt \in D!Port(c) : pt \in D!AllPorts /\ D!Lockfile(pt) \in D!AllFiles
           /\ \A pt \in {c.metrics, c.console, c.history, c.bridge, c.json, c.management} :
                  pt # "none" => pt \in D!Port(c)
           /\ D!LockedPorts(c) \subseteq D!Port(c)
BY DEF D!AllFiles, D!AllPorts, D!Port, D!LockedPorts, D!None

LEMMA ClaimProgram ==
    ASSUME NEW c \in Config
    PROVE  D!Claim(c) \in Seq(Instruction) /\ Elems(D!Claim(c)) = {Op("create", f) : f \in Claimed(c)}
<1>. DEFINE a == D!Ins("create", D!Pidfile(c))
            m == D!If(c.metrics # "none", D!Ins("create", D!Lockfile(c.metrics)))
            b == D!If(c.bridge # "none", D!Ins("create", D!Lockfile(c.bridge)))
            j == D!If(c.json # "none", D!Ins("create", D!Lockfile(c.json)))
<1>1. a \in Seq(Instruction) /\ Elems(a) = {Op("create", D!Pidfile(c))}
  BY OneInstruction, Arguments DEF Instruction, Op
<1>2. /\ m \in Seq(Instruction)
      /\ Elems(m) = IF c.metrics # "none" THEN {Op("create", D!Lockfile(c.metrics))} ELSE {}
  BY MayBe, Arguments DEF Instruction, Op
<1>3. /\ b \in Seq(Instruction)
      /\ Elems(b) = IF c.bridge # "none" THEN {Op("create", D!Lockfile(c.bridge))} ELSE {}
  BY MayBe, Arguments DEF Instruction, Op
<1>7. /\ j \in Seq(Instruction)
      /\ Elems(j) = IF c.json # "none" THEN {Op("create", D!Lockfile(c.json))} ELSE {}
  BY MayBe, Arguments DEF Instruction, Op
<1>. DEFINE s == a \o m
            t == s \o b
<1>4. D!Claim(c) = t \o j
  BY DEF D!Claim, D!None
<1>. HIDE DEF a, m, b, j
<1>5. s \in Seq(Instruction) /\ Elems(s) = Elems(a) \cup Elems(m)
  BY <1>1, <1>2, ConcatElems
<1>. HIDE DEF s
<1>8. t \in Seq(Instruction) /\ Elems(t) = Elems(s) \cup Elems(b)
  BY <1>3, <1>5, ConcatElems
<1>. HIDE DEF t
<1>6. D!Claim(c) \in Seq(Instruction)
        /\ Elems(D!Claim(c)) = Elems(a) \cup Elems(m) \cup Elems(b) \cup Elems(j)
  BY <1>4, <1>5, <1>7, <1>8, ConcatElems
<1>. QED
  BY <1>1, <1>2, <1>3, <1>6, <1>7 DEF Claimed, D!LockedPorts, D!None

LEMMA PrepareProgram ==
    ASSUME NEW c \in Config
    PROVE  /\ D!Prepare(c) \in Seq(Instruction)
           /\ Elems(D!Prepare(c)) = {Op("check", "definitions"), Op("check", "caches")}
                                       \cup IF c.daemon THEN {Op("daemon", "none")} ELSE {}
<1>. DEFINE a == D!Ins("check", "definitions")
            m == D!If(c.daemon, D!Ins("daemon", "none"))
            b == D!Ins("check", "caches")
<1>1. a \in Seq(Instruction) /\ Elems(a) = {Op("check", "definitions")}
  BY OneInstruction DEF Instruction, Op
<1>2. m \in Seq(Instruction) /\ Elems(m) = IF c.daemon THEN {Op("daemon", "none")} ELSE {}
  BY MayBe DEF Instruction, Op
<1>3. b \in Seq(Instruction) /\ Elems(b) = {Op("check", "caches")}
  BY OneInstruction DEF Instruction, Op
<1>. DEFINE s == a \o m
<1>4. D!Prepare(c) = s \o b
  BY DEF D!Prepare, D!None
<1>. HIDE DEF a, m, b
<1>5. s \in Seq(Instruction) /\ Elems(s) = Elems(a) \cup Elems(m)
  BY <1>1, <1>2, ConcatElems
<1>. HIDE DEF s
<1>6. D!Prepare(c) \in Seq(Instruction) /\ Elems(D!Prepare(c)) = Elems(a) \cup Elems(m) \cup Elems(b)
  BY <1>3, <1>4, <1>5, ConcatElems
<1>. QED
  BY <1>1, <1>2, <1>3, <1>6

\* The ports with a lock file, made or removed, are bound one after the other, also where two
\* of them are the same.
InTurn(s, x, y) == x # "none" /\ y # "none" => After(s, Op("bind", x), Op("bind", y))

BoundInTurn(s, c) ==
    /\ InTurn(s, c.metrics, c.console) /\ InTurn(s, c.metrics, c.bridge) /\ InTurn(s, c.metrics, c.json)
    /\ InTurn(s, c.console, c.bridge) /\ InTurn(s, c.console, c.json) /\ InTurn(s, c.bridge, c.json)

LEMMA OpenProgram ==
    ASSUME NEW c \in Config
    PROVE  /\ D!Open(c) \in Seq(Instruction)
           /\ Elems(D!Open(c)) = {Op("unix", f) : f \in Sockets(c)} \cup {Op("check", "tls")}
                                    \cup {Op("bind", pt) : pt \in D!Port(c)}
           /\ BoundInTurn(D!Open(c), c)
<1>. DEFINE u == D!Ins("unix", D!Socket(c, "main"))
            v == D!Ins("unix", D!Socket(c, "transfer"))
            k == D!Ins("check", "tls")
            B(pt) == D!If(pt # "none", D!Ins("bind", pt))
            s1 == u \o v
            s2 == s1 \o k
            s3 == s2 \o B(c.metrics)
            s4 == s3 \o B(c.console)
            s5 == s4 \o B(c.history)
            s6 == s5 \o B(c.bridge)
            s7 == s6 \o B(c.json)
            s8 == s7 \o B(c.management)
            Both(s, x) == x # "none" => Op("bind", x) \in Elems(s)
<1>1. /\ u \in Seq(Instruction) /\ Elems(u) = {Op("unix", D!Socket(c, "main"))}
      /\ v \in Seq(Instruction) /\ Elems(v) = {Op("unix", D!Socket(c, "transfer"))}
      /\ k \in Seq(Instruction) /\ Elems(k) = {Op("check", "tls")}
  BY OneInstruction, Arguments DEF Instruction, Op
<1>2. ASSUME NEW pt \in {c.metrics, c.console, c.history, c.bridge, c.json, c.management}
      PROVE  /\ B(pt) \in Seq(Instruction)
             /\ Elems(B(pt)) = IF pt # "none" THEN {Op("bind", pt)} ELSE {}
  BY MayBe, Arguments DEF Instruction, Op
<1>3. D!Open(c) = s8
  BY DEF D!Open, D!None
\* What another port adds.
<1>4. ASSUME NEW s \in Seq(Instruction),
             NEW pt \in {c.metrics, c.console, c.history, c.bridge, c.json, c.management}
      PROVE  /\ s \o B(pt) \in Seq(Instruction) /\ Elems(s \o B(pt)) = Elems(s) \cup Elems(B(pt))
             /\ \A x, y : InTurn(s, x, y) => InTurn(s \o B(pt), x, y)
             /\ \A x : Both(s, x) => InTurn(s \o B(pt), x, pt)
             /\ \A x : Both(s, x) => Both(s \o B(pt), x)
             /\ Both(s \o B(pt), pt)
  <2>. DEFINE t == B(pt)
  <2>1. t \in Seq(Instruction) /\ Elems(t) = IF pt # "none" THEN {Op("bind", pt)} ELSE {}
    BY <1>2
  <2>. HIDE DEF B
  <2>2. s \o t \in Seq(Instruction) /\ Elems(s \o t) = Elems(s) \cup Elems(t)
    BY <2>1, ConcatElems
  <2>3. \A x, y : After(s, x, y) => After(s \o t, x, y)
    BY <2>1, ConcatAfter
  <2>4. \A x, y : x \in Elems(s) /\ y \in Elems(t) => After(s \o t, x, y)
    BY <2>1, ConcatAfter
  <2>. HIDE DEF t
  <2>5. /\ \A x, y : InTurn(s, x, y) => InTurn(s \o t, x, y)
        /\ \A x : Both(s, x) => InTurn(s \o t, x, pt)
        /\ \A x : Both(s, x) => Both(s \o t, x)
        /\ Both(s \o t, pt)
    BY <2>1, <2>2, <2>3, <2>4 DEF InTurn
  <2>. QED
    BY <2>2, <2>5 DEF t
<1>. HIDE DEF u, v, k, B, Both
<1>5. s1 \in Seq(Instruction) /\ Elems(s1) = Elems(u) \cup Elems(v)
  BY <1>1, ConcatElems
<1>. HIDE DEF s1
<1>6. s2 \in Seq(Instruction) /\ Elems(s2) = Elems(s1) \cup Elems(k)
  BY <1>1, <1>5, ConcatElems
<1>. HIDE DEF s2
<1>7. s3 \in Seq(Instruction) /\ Elems(s3) = Elems(s2) \cup Elems(B(c.metrics)) /\ Both(s3, c.metrics)
  BY <1>4, <1>6
<1>. HIDE DEF s3
<1>8. /\ s4 \in Seq(Instruction) /\ Elems(s4) = Elems(s3) \cup Elems(B(c.console))
      /\ Both(s4, c.metrics) /\ Both(s4, c.console) /\ InTurn(s4, c.metrics, c.console)
  BY <1>4, <1>7
<1>. HIDE DEF s4
<1>9. /\ s5 \in Seq(Instruction) /\ Elems(s5) = Elems(s4) \cup Elems(B(c.history))
      /\ Both(s5, c.metrics) /\ Both(s5, c.console) /\ InTurn(s5, c.metrics, c.console)
  BY <1>4, <1>8
<1>. HIDE DEF s5
<1>10. /\ s6 \in Seq(Instruction) /\ Elems(s6) = Elems(s5) \cup Elems(B(c.bridge))
       /\ Both(s6, c.metrics) /\ Both(s6, c.console) /\ Both(s6, c.bridge)
       /\ InTurn(s6, c.metrics, c.console) /\ InTurn(s6, c.metrics, c.bridge)
       /\ InTurn(s6, c.console, c.bridge)
  BY <1>4, <1>9
<1>. HIDE DEF s6
<1>11. s7 \in Seq(Instruction) /\ Elems(s7) = Elems(s6) \cup Elems(B(c.json)) /\ BoundInTurn(s7, c)
  BY <1>4, <1>10 DEF BoundInTurn
<1>. HIDE DEF s7
<1>12. s8 \in Seq(Instruction) /\ Elems(s8) = Elems(s7) \cup Elems(B(c.management)) /\ BoundInTurn(s8, c)
  BY <1>4, <1>11 DEF BoundInTurn
<1>. HIDE DEF s8
<1>13. Elems(B(c.metrics)) \cup Elems(B(c.console)) \cup Elems(B(c.history)) \cup Elems(B(c.bridge))
         \cup Elems(B(c.json)) \cup Elems(B(c.management))
         = {Op("bind", pt) : pt \in D!Port(c)}
  BY <1>2 DEF D!Port, D!None
<1>14. Elems(u) \cup Elems(v) = {Op("unix", f) : f \in Sockets(c)}
  BY <1>1 DEF Sockets
<1>. QED
  BY <1>1, <1>3, <1>5, <1>6, <1>7, <1>8, <1>9, <1>10, <1>11, <1>12, <1>13, <1>14

Creates == {Op("create", f) : f \in D!AllFiles}

LEMMA StartUpProgram ==
    ASSUME NEW c \in Config
    PROVE  LET s == D!StartUp(c) IN
           /\ s \in Seq(Instruction)
           /\ Elems(s) = {Op("create", f) : f \in Claimed(c)}
                            \cup {Op("check", a) : a \in {"definitions", "caches", "tls", "extension yamls"}}
                            \cup (IF c.daemon THEN {Op("daemon", "none")} ELSE {})
                            \cup {Op("unix", f) : f \in Sockets(c)}
                            \cup {Op("bind", pt) : pt \in D!Port(c)}
           /\ Ahead(s, Creates, Instruction \ Creates)
           /\ BoundInTurn(s, c)
<1>. DEFINE a == D!Claim(c)
            b == D!Prepare(c)
            d == D!Open(c)
            e == D!Ins("check", "extension yamls")
            s1 == a \o b
            s2 == s1 \o d
            s3 == s2 \o e
<1>1. /\ a \in Seq(Instruction) /\ Elems(a) = {Op("create", f) : f \in Claimed(c)}
      /\ b \in Seq(Instruction)
      /\ Elems(b) = {Op("check", "definitions"), Op("check", "caches")}
                       \cup IF c.daemon THEN {Op("daemon", "none")} ELSE {}
      /\ d \in Seq(Instruction)
      /\ Elems(d) = {Op("unix", f) : f \in Sockets(c)} \cup {Op("check", "tls")}
                       \cup {Op("bind", pt) : pt \in D!Port(c)}
  BY ClaimProgram, PrepareProgram, OpenProgram
<1>2. e \in Seq(Instruction) /\ Elems(e) = {Op("check", "extension yamls")}
  BY OneInstruction DEF Instruction, Op
<1>3. D!StartUp(c) = s3
  BY DEF D!StartUp
<1>4. BoundInTurn(d, c)
  BY OpenProgram
<1>. DEFINE x0 == Op("check", "extension yamls")
<1>. HIDE DEF a, b, d, e, x0
<1>5. Elems(a) \cap (Instruction \ Creates) = {}
  BY <1>1, Arguments DEF Claimed, Creates
<1>6. Elems(b) \cap Creates = {} /\ Elems(d) \cap Creates = {} /\ Elems(e) \cap Creates = {}
  <2>1. \A x \in Creates : x.op = "create"
    BY DEF Creates, Op
  <2>2. \A x \in Elems(b) : x.op # "create"
    <3>1. \A x \in Elems(b) :
              x \in {Op("check", "definitions"), Op("check", "caches"), Op("daemon", "none")}
      BY <1>1
    <3>. QED
      BY <3>1 DEF Op
  <2>3. \A x \in Elems(d) : x.op # "create"
    BY <1>1 DEF Op
  <2>4. \A x \in Elems(e) : x.op # "create"
    <3>1. x0.op = "check" /\ Elems(e) = {x0}
      BY <1>2, OpFields, Zenon DEF x0
    <3>. QED
      BY <3>1
  <2>. QED
    BY <2>1, <2>2, <2>3, <2>4
<1>7. s1 \in Seq(Instruction) /\ Elems(s1) = Elems(a) \cup Elems(b) /\ Ahead(s1, Creates, Instruction \ Creates)
  BY <1>1, <1>5, <1>6, ConcatElems, ConcatAhead, AheadOfNone
<1>. HIDE DEF s1
<1>8. /\ s2 \in Seq(Instruction) /\ Elems(s2) = Elems(s1) \cup Elems(d)
      /\ Ahead(s2, Creates, Instruction \ Creates)
  BY <1>1, <1>6, <1>7, ConcatElems, ConcatAhead
<1>9. \A x, y : After(d, x, y) => After(s2, x, y)
  BY <1>1, <1>7, ConcatBehind
<1>. HIDE DEF s2
<1>10. /\ s3 \in Seq(Instruction) /\ Elems(s3) = Elems(s2) \cup Elems(e)
       /\ Ahead(s3, Creates, Instruction \ Creates)
       /\ \A x, y : After(s2, x, y) => After(s3, x, y)
  <2>. e \in Seq(Instruction) /\ Elems(e) = {x0}
    BY <1>2 DEF x0
  <2>1. s3 \in Seq(Instruction) /\ Elems(s3) = Elems(s2) \cup Elems(e)
    BY <1>8, ConcatElems
  <2>2. Ahead(s3, Creates, Instruction \ Creates)
    <3>. DEFINE Y == Instruction \ Creates
    <3>1. Ahead(s2, Creates, Y) /\ Elems(e) \cap Creates = {}
      BY <1>6, <1>8
    <3>. HIDE DEF Y
    <3>2. Ahead(s3, Creates, Y)
      BY <1>2, <1>8, <3>1, ConcatAhead
    <3>. QED
      BY <3>2 DEF Y
  <2>3. \A x, y : After(s2, x, y) => After(s3, x, y)
    BY <1>2, <1>8, ConcatAfter
  <2>. QED
    BY <2>1, <2>2, <2>3
<1>. HIDE DEF s3
<1>11. Elems(s3) = {Op("create", f) : f \in Claimed(c)}
                      \cup {Op("check", x) : x \in {"definitions", "caches", "tls", "extension yamls"}}
                      \cup (IF c.daemon THEN {Op("daemon", "none")} ELSE {})
                      \cup {Op("unix", f) : f \in Sockets(c)}
                      \cup {Op("bind", pt) : pt \in D!Port(c)}
  <2>. DEFINE k == IF c.daemon THEN {Op("daemon", "none")} ELSE {}
              l == {Op("unix", f) : f \in Sockets(c)}
              n == {Op("bind", pt) : pt \in D!Port(c)}
              o == {Op("create", f) : f \in Claimed(c)}
  <2>1. Elems(s3) = o \cup ({Op("check", "definitions"), Op("check", "caches")} \cup k)
                       \cup (l \cup {Op("check", "tls")} \cup n) \cup {Op("check", "extension yamls")}
    BY <1>1, <1>2, <1>7, <1>8, <1>10
  <2>. HIDE DEF k, l, n, o
  <2>2. Elems(s3) = o \cup {Op("check", x) : x \in {"definitions", "caches", "tls", "extension yamls"}}
                       \cup k \cup l \cup n
    BY <2>1
  <2>. QED
    BY <2>2 DEF k, l, n, o
<1>12. /\ s3 \in Seq(Instruction) /\ Ahead(s3, Creates, Instruction \ Creates)
       /\ \A x, y : After(d, x, y) => After(s3, x, y)
  BY <1>9, <1>10
<1>13. BoundInTurn(s3, c)
  <2>1. \A x, y : InTurn(d, x, y) => InTurn(s3, x, y)
    BY <1>12 DEF InTurn
  <2>. QED
    BY <1>4, <2>1 DEF BoundInTurn
<1>. QED
  BY <1>3, <1>11, <1>12, <1>13

\* Names of different kinds differ.
LEMMA FileNames ==
    /\ \A c, pt : D!Pidfile(c) # D!Lockfile(pt)
    /\ \A pt, qt : D!Lockfile(pt) = D!Lockfile(qt) => pt = qt
    /\ \A c, d : Sockets(c) \cap Claimed(d) = {}
    /\ \A c, d : D!Pidfile(c) \notin Sockets(d)
    /\ \A c, pt : D!Lockfile(pt) \notin Sockets(c)
    /\ \A c, d : D!Pidfile(c) = D!Pidfile(d) <=> c.pidfile = d.pidfile
<1>1. \A a, b, x, y : << a, x >> = << b, y >> => a = b /\ x = y
  OBVIOUS
<1>2. \A c, pt : D!Pidfile(c) # D!Lockfile(pt)
  BY DEF D!Pidfile, D!Lockfile
<1>3. \A pt, qt : D!Lockfile(pt) = D!Lockfile(qt) => pt = qt
  BY DEF D!Lockfile
<1>4. \A c, d : D!Pidfile(c) \notin Sockets(d)
  BY DEF D!Pidfile, Sockets, D!Socket
<1>5. \A c, pt : D!Lockfile(pt) \notin Sockets(c)
  BY DEF D!Lockfile, Sockets, D!Socket
<1>6. \A c, d : D!Pidfile(c) = D!Pidfile(d) <=> c.pidfile = d.pidfile
  BY DEF D!Pidfile
<1>7. \A c, d : Sockets(c) \cap Claimed(d) = {}
  BY <1>4, <1>5 DEF Claimed
<1>. QED
  BY <1>2, <1>3, <1>4, <1>5, <1>6, <1>7

\* No port is configured twice.
Distinct(c) ==
    /\ c.metrics # "none" => c.metrics \notin {c.console, c.bridge, c.json}
    /\ c.console # "none" => c.console \notin {c.bridge, c.json}
    /\ c.bridge # "none" => c.bridge # c.json

Removes(X) == {Op("remove", f) : f \in X}

LEMMA ClosingProgram ==
    ASSUME NEW c \in Config, c.metrics # "none"
    PROVE  LET s == D!Ins("close", c.metrics) \o D!Ins("remove", D!Socket(c, "main"))
                        \o D!Ins("remove", D!Socket(c, "transfer")) IN
           s \in Seq(Instruction) /\ Elems(s) = {Op("close", c.metrics)} \cup Removes(Sockets(c))
<1>. DEFINE a == D!Ins("close", c.metrics)
            m == D!Ins("remove", D!Socket(c, "main"))
            b == D!Ins("remove", D!Socket(c, "transfer"))
            s == a \o m
<1>1. /\ a \in Seq(Instruction) /\ Elems(a) = {Op("close", c.metrics)}
      /\ m \in Seq(Instruction) /\ Elems(m) = {Op("remove", D!Socket(c, "main"))}
      /\ b \in Seq(Instruction) /\ Elems(b) = {Op("remove", D!Socket(c, "transfer"))}
  BY OneInstruction, Arguments DEF Instruction, Op
<1>. HIDE DEF a, m, b
<1>2. s \in Seq(Instruction) /\ Elems(s) = Elems(a) \cup Elems(m)
  BY <1>1, ConcatElems
<1>. HIDE DEF s
<1>3. s \o b \in Seq(Instruction) /\ Elems(s \o b) = Elems(s) \cup Elems(b)
  BY <1>1, <1>2, ConcatElems
<1>4. Elems(s \o b) = {Op("close", c.metrics)} \cup Removes(Sockets(c))
  BY <1>1, <1>2, <1>3 DEF Removes, Sockets
<1>. QED
  BY <1>3, <1>4 DEF a, m, b, s

LEMMA ShutdownProgram ==
    ASSUME NEW c \in Config
    PROVE  LET s == D!Shutdown(c) IN
           /\ s \in Seq(Instruction)
           /\ Elems(s) \subseteq {Op("close", pt) : pt \in D!Port(c)} \cup Removes(Sockets(c))
                   \cup Removes(Claimed(c))
                   \cup (IF c.console # "none" THEN {Op("remove", D!Lockfile(c.console))} ELSE {})
           /\ Removes(Claimed(c)) \subseteq Elems(s)
           /\ Ahead(s, Removes(Sockets(c)), Removes(Claimed(c)))
           /\ Distinct(c) => \A f \in Claimed(c) : Once(s, Op("remove", f))
<1>. DEFINE Shut(pt) == D!If(pt # "none", D!Ins("close", pt))
            k == D!Ins("close", c.metrics) \o D!Ins("remove", D!Socket(c, "main"))
                     \o D!Ins("remove", D!Socket(c, "transfer"))
            m == D!If(c.metrics # "none", k)
            p == D!Ins("remove", D!Pidfile(c))
            R(pt) == D!If(pt # "none", D!Ins("remove", D!Lockfile(pt)))
            r1 == Shut(c.management) \o m
            r2 == r1 \o Shut(c.bridge)
            r3 == r2 \o Shut(c.json)
            s2 == r3 \o Shut(c.history)
            s3 == s2 \o p
            s4 == s3 \o R(c.metrics)
            s5 == s4 \o R(c.console)
            s6 == s5 \o R(c.bridge)
            s7 == s6 \o R(c.json)
            X == Removes(Sockets(c))
            Y == Removes(Claimed(c))
<1>1. D!Shutdown(c) = s7
  BY DEF D!Shutdown, D!None
<1>2. ASSUME NEW pt \in {c.management, c.bridge, c.json, c.history}
      PROVE  /\ Shut(pt) \in Seq(Instruction)
             /\ Elems(Shut(pt)) = IF pt # "none" THEN {Op("close", pt)} ELSE {}
  BY MayBe, Arguments DEF Instruction, Op
<1>4. m \in Seq(Instruction) /\ Elems(m) = IF c.metrics # "none" THEN {Op("close", c.metrics)} \cup X ELSE {}
  <2>1. CASE c.metrics # "none"
    <3>1. k \in Seq(Instruction) /\ Elems(k) = {Op("close", c.metrics)} \cup X
      BY <2>1, ClosingProgram
    <3>. HIDE DEF k, X
    <3>. QED
      BY <2>1, <3>1, Optional
  <2>2. CASE c.metrics = "none"
    BY <2>2, NoInstruction DEF D!If
  <2>. QED
    BY <2>1, <2>2
<1>5. p \in Seq(Instruction) /\ Elems(p) = {Op("remove", D!Pidfile(c))} /\ \A x : Once(p, x)
  BY OneInstruction, Arguments DEF Instruction, Op
<1>6. ASSUME NEW pt \in {c.metrics, c.console, c.bridge, c.json}
      PROVE  /\ R(pt) \in Seq(Instruction)
             /\ Elems(R(pt)) = IF pt # "none" THEN {Op("remove", D!Lockfile(pt))} ELSE {}
             /\ \A x : Once(R(pt), x)
  BY MayBe, Arguments DEF Instruction, Op
<1>. HIDE DEF Shut, k, m, p, R, X, Y
<1>7. r1 \in Seq(Instruction) /\ Elems(r1) = Elems(Shut(c.management)) \cup Elems(m)
  BY <1>2, <1>4, ConcatElems
<1>. HIDE DEF r1
<1>3. r2 \in Seq(Instruction) /\ Elems(r2) = Elems(r1) \cup Elems(Shut(c.bridge))
  BY <1>2, <1>7, ConcatElems
<1>. HIDE DEF r2
<1>29. r3 \in Seq(Instruction) /\ Elems(r3) = Elems(r2) \cup Elems(Shut(c.json))
  BY <1>2, <1>3, ConcatElems
<1>. HIDE DEF r3
<1>8. s2 \in Seq(Instruction) /\ Elems(s2) = Elems(r3) \cup Elems(Shut(c.history))
  BY <1>2, <1>29, ConcatElems
<1>. HIDE DEF s2
<1>9. s3 \in Seq(Instruction) /\ Elems(s3) = Elems(s2) \cup Elems(p)
  BY <1>5, <1>8, ConcatElems
<1>10. \A x : Once(s2, x) /\ (x \notin Elems(s2) \/ x \notin Elems(p)) => Once(s3, x)
  BY <1>5, <1>8, ConcatOnce
<1>11. Ahead(s2, X, Y) /\ Elems(p) \cap X = {} => Ahead(s3, X, Y)
  BY <1>5, <1>8, ConcatAhead
<1>. HIDE DEF s3
\* What removing another lock file adds.
<1>12. ASSUME NEW s \in Seq(Instruction), NEW pt \in {c.metrics, c.console, c.bridge, c.json}
       PROVE  /\ s \o R(pt) \in Seq(Instruction) /\ Elems(s \o R(pt)) = Elems(s) \cup Elems(R(pt))
              /\ \A x : Once(s, x) /\ (x \notin Elems(s) \/ x \notin Elems(R(pt))) => Once(s \o R(pt), x)
              /\ Ahead(s, X, Y) /\ Elems(R(pt)) \cap X = {} => Ahead(s \o R(pt), X, Y)
  <2>. DEFINE t == R(pt)
  <2>1. t \in Seq(Instruction) /\ \A x : Once(t, x)
    BY <1>6
  <2>. HIDE DEF t
  <2>2. /\ s \o t \in Seq(Instruction) /\ Elems(s \o t) = Elems(s) \cup Elems(t)
        /\ \A x : Once(s, x) /\ (x \notin Elems(s) \/ x \notin Elems(t)) => Once(s \o t, x)
        /\ Ahead(s, X, Y) /\ Elems(t) \cap X = {} => Ahead(s \o t, X, Y)
    BY <2>1, ConcatElems, ConcatOnce, ConcatAhead
  <2>. QED
    BY <2>2 DEF t
<1>13. /\ s4 \in Seq(Instruction) /\ Elems(s4) = Elems(s3) \cup Elems(R(c.metrics))
       /\ \A x : Once(s3, x) /\ (x \notin Elems(s3) \/ x \notin Elems(R(c.metrics))) => Once(s4, x)
       /\ Ahead(s3, X, Y) /\ Elems(R(c.metrics)) \cap X = {} => Ahead(s4, X, Y)
  BY <1>9, <1>12
<1>. HIDE DEF s4
<1>16. /\ s5 \in Seq(Instruction) /\ Elems(s5) = Elems(s4) \cup Elems(R(c.console))
       /\ \A x : Once(s4, x) /\ (x \notin Elems(s4) \/ x \notin Elems(R(c.console))) => Once(s5, x)
       /\ Ahead(s4, X, Y) /\ Elems(R(c.console)) \cap X = {} => Ahead(s5, X, Y)
  BY <1>12, <1>13
<1>. HIDE DEF s5
<1>19. /\ s6 \in Seq(Instruction) /\ Elems(s6) = Elems(s5) \cup Elems(R(c.bridge))
       /\ \A x : Once(s5, x) /\ (x \notin Elems(s5) \/ x \notin Elems(R(c.bridge))) => Once(s6, x)
       /\ Ahead(s5, X, Y) /\ Elems(R(c.bridge)) \cap X = {} => Ahead(s6, X, Y)
  BY <1>12, <1>16
<1>. HIDE DEF s6
<1>20. /\ s7 \in Seq(Instruction) /\ Elems(s7) = Elems(s6) \cup Elems(R(c.json))
       /\ \A x : Once(s6, x) /\ (x \notin Elems(s6) \/ x \notin Elems(R(c.json))) => Once(s7, x)
       /\ Ahead(s6, X, Y) /\ Elems(R(c.json)) \cap X = {} => Ahead(s7, X, Y)
  BY <1>12, <1>19
<1>. HIDE DEF s7
<1>21. /\ \A o, a, q, d : Op(o, a) = Op(q, d) => o = q /\ a = d
       /\ \A x \in X : \E f \in Sockets(c) : x = Op("remove", f)
       /\ \A f : Op("remove", f) \in Y => f \in Claimed(c)
       /\ \A f : Op("remove", f) \in X => f \in Sockets(c)
       /\ \A o, a : o # "remove" => Op(o, a) \notin X \cup Y
  BY OpFields DEF X, Y, Removes
<1>22. Elems(p) \cap X = {} /\ \A pt \in {c.metrics, c.console, c.bridge, c.json} : Elems(R(pt)) \cap X = {}
  BY <1>5, <1>6, <1>21, FileNames
<1>23. Elems(s2) \cap Y = {}
  <2>1. Elems(s2) \subseteq {Op("close", c.management), Op("close", c.metrics), Op("close", c.bridge),
                             Op("close", c.json), Op("close", c.history)} \cup X
    BY <1>2, <1>3, <1>4, <1>7, <1>8, <1>29
  <2>2. X \cap Y = {}
    BY <1>21, FileNames DEF X, Y, Removes
  <2>. QED
    BY <2>1, <2>2, <1>21
<1>24. Ahead(s7, X, Y)
  <2>1. Ahead(s3, X, Y)
    BY <1>11, <1>22, <1>23, AheadOfNone
  <2>. QED
    BY <1>13, <1>16, <1>19, <1>20, <1>22, <2>1
<1>25. Y = {Op("remove", D!Pidfile(c))} \cup {Op("remove", D!Lockfile(pt)) : pt \in D!LockedPorts(c)}
  BY DEF Y, Removes, Claimed
<1>26. Y \subseteq Elems(s7)
  <2>1. Elems(p) \cup Elems(R(c.metrics)) \cup Elems(R(c.bridge)) \cup Elems(R(c.json)) \subseteq Elems(s7)
    BY <1>9, <1>13, <1>16, <1>19, <1>20
  <2>. QED
    BY <1>5, <1>6, <1>25, <2>1 DEF D!LockedPorts, D!None
<1>27. Elems(s7) \subseteq {Op("close", pt) : pt \in D!Port(c)} \cup X \cup Y
                   \cup (IF c.console # "none" THEN {Op("remove", D!Lockfile(c.console))} ELSE {})
  <2>1. Elems(s2) \subseteq {Op("close", pt) : pt \in D!Port(c)} \cup X
    BY <1>2, <1>3, <1>4, <1>7, <1>8, <1>29 DEF D!Port, D!None
  <2>2. Elems(p) \cup Elems(R(c.metrics)) \cup Elems(R(c.bridge)) \cup Elems(R(c.json)) \subseteq Y
    BY <1>5, <1>6, <1>25 DEF D!LockedPorts, D!None
  <2>3. Elems(s7) = Elems(s2) \cup Elems(p) \cup Elems(R(c.metrics)) \cup Elems(R(c.console))
                       \cup Elems(R(c.bridge)) \cup Elems(R(c.json))
    BY <1>9, <1>13, <1>16, <1>19, <1>20
  <2>. QED
    BY <2>1, <2>2, <2>3, <1>6
<1>28. ASSUME Distinct(c), NEW f \in Claimed(c) PROVE Once(s7, Op("remove", f))
  <2>. DEFINE x == Op("remove", f)
  <2>1. x \in Y
    BY DEF Y, Removes
  <2>2. Once(s2, x)
    BY <1>23, <2>1 DEF Once, Elems
  <2>3. CASE f = D!Pidfile(c)
    <3>1. x \notin Elems(s2) /\ \A pt \in {c.metrics, c.console, c.bridge, c.json} : x \notin Elems(R(pt))
      BY <1>6, <1>21, <1>23, <2>1, <2>3, FileNames
    <3>. HIDE DEF x
    <3>2. Once(s3, x) /\ Once(s4, x) /\ Once(s5, x) /\ Once(s6, x) /\ Once(s7, x)
      BY <1>10, <1>13, <1>16, <1>19, <1>20, <2>2, <3>1
    <3>. QED
      BY <3>2 DEF x
  <2>4. CASE f # D!Pidfile(c)
    <3>1. PICK qt \in D!LockedPorts(c) : f = D!Lockfile(qt)
      BY <2>4 DEF Claimed
    <3>2. qt # "none" /\ qt \in {c.metrics, c.bridge, c.json}
      BY <3>1 DEF D!LockedPorts, D!None
    <3>3. x \notin Elems(s2) /\ x \notin Elems(p)
      BY <1>5, <1>21, <1>23, <2>1, <2>4
    <3>4. \A pt \in {c.metrics, c.console, c.bridge, c.json} : pt # qt => x \notin Elems(R(pt))
      BY <1>6, <1>21, <3>1, FileNames
    <3>. HIDE DEF x
    <3>5. Once(s3, x) /\ x \notin Elems(s3)
      BY <1>9, <1>10, <2>2, <3>3
    <3>6. Once(s4, x) /\ (x \notin Elems(s4) \/ qt = c.metrics)
      BY <1>13, <3>2, <3>4, <3>5
    <3>7. /\ qt # c.console /\ (qt = c.metrics => qt # c.bridge /\ qt # c.json)
          /\ qt = c.bridge => qt # c.json
      BY <1>28, <3>2 DEF Distinct
    <3>8. Once(s5, x) /\ (x \notin Elems(s5) \/ qt = c.metrics)
      BY <1>16, <3>4, <3>6, <3>7
    <3>9. Once(s6, x) /\ (x \notin Elems(s6) \/ qt = c.metrics \/ qt = c.bridge)
      BY <1>19, <3>2, <3>4, <3>7, <3>8
    <3>10. Once(s7, x)
      BY <1>20, <3>2, <3>4, <3>7, <3>9
    <3>. QED
      BY <3>10 DEF x
  <2>. QED
    BY <2>3, <2>4
<1>. QED
  BY <1>1, <1>20, <1>24, <1>26, <1>27, <1>28 DEF X, Y

Sequence(c, m) == IF m = "starting" THEN D!StartUp(c) ELSE D!Shutdown(c)

\* A program that is at instruction n has done x.
Done(s, n, x) == \E i \in 1..Len(s) : i < n /\ s[i] = x

\* A process in mode m, at step n of its program, has claimed f and not given it up; has
\* bound the socket f; has bound the port pt.
HoldsAt(c, m, n, f) ==
    /\ f \in Claimed(c)
    /\ \/ m = "starting" /\ Done(D!StartUp(c), n, Op("create", f))
       \/ m = "serving"
       \/ m = "stopping" /\ ~ Done(D!Shutdown(c), n, Op("remove", f))

OpenAt(c, m, n, f) ==
    /\ f \in Sockets(c)
    /\ m = "serving" \/ (m = "starting" /\ Done(D!StartUp(c), n, Op("unix", f)))

BoundAt(c, m, n, pt) ==
    \/ m = "serving" /\ pt \in D!Port(c)
    \/ m = "starting" /\ Done(D!StartUp(c), n, Op("bind", pt))

\* No port was bound twice, and none will be closed twice.
SoundAt(c, m, n) ==
    /\ m = "starting" =>
         \A i, j \in 1..Len(D!StartUp(c)) :
             i < j /\ j < n /\ D!StartUp(c)[j].op = "bind" => D!StartUp(c)[i] # D!StartUp(c)[j]
    /\ m \in {"serving", "stopping"} => Distinct(c)

Holds(p, f)  == HoldsAt(conf[p], mode[p], step[p], f)
Opened(p, f) == OpenAt(conf[p], mode[p], step[p], f)
Binds(p, pt) == BoundAt(conf[p], mode[p], step[p], pt)

\* No stop of a process with a console on that port removes f.
Guarded(f) ==
    \A q \in Proc : conf[q].console # "none" /\ f = D!Lockfile(conf[q].console) => ~ Distinct(conf[q])

\* Everybody else is kept out.
Alone(p) ==
    \A q \in Proc \ {p} : D!Rivals(p, q) /\ conf[q].console \notin D!LockedPorts(conf[p])

Steps ==
    /\ \A p \in Proc : mode[p] = "idle" => step[p] = 1
    /\ \A p \in Proc : SoundAt(conf[p], mode[p], step[p])

Background ==
    /\ \A p \in Proc : forked[p] => conf[p].daemon
    /\ \A f \in D!AllFiles : \A p \in Proc : file[f] = << p, TRUE >> => conf[p].daemon

\* Who made a file that is still there has not given it up, or failed; who has not given up a
\* guarded file owns it; the sockets of a process that is alone are its own.
Owned ==
    \A f \in D!AllFiles : file[f] # D!Free /\ (\A c \in Config : f \notin Sockets(c)) =>
        \E q \in Proc : /\ file[f][1] = q /\ f \in Claimed(conf[q])
                        /\ Holds(q, f) \/ mode[q] = "failed"

Kept       == \A p \in Proc : \A f \in D!AllFiles : Guarded(f) /\ Holds(p, f) => file[f][1] = p
OwnSockets == \A p \in Proc : \A f \in D!AllFiles : Alone(p) /\ Opened(p, f) => file[f][1] = p

\* A port has one process that accepts on it, and that is who has bound it.
Listening ==
    /\ \A pt \in D!AllPorts : \A p, q \in Proc :
           << p, "main" >> \in listener[pt] /\ << q, "main" >> \in listener[pt] => p = q
    /\ \A pt \in D!AllPorts : \A p \in Proc : Binds(p, pt) => << p, "main" >> \in listener[pt]

DaemonInv == D!TypeOK /\ Steps /\ Background /\ Owned /\ Kept /\ OwnSockets /\ Listening

LEMMA SequenceFacts ==
    ASSUME NEW c \in Config, NEW m
    PROVE  /\ Sequence(c, m) \in Seq(Instruction) /\ Len(Sequence(c, m)) \in Nat
           /\ D!StartUp(c) \in Seq(Instruction) /\ Len(D!StartUp(c)) \in Nat
           /\ D!Shutdown(c) \in Seq(Instruction) /\ Len(D!Shutdown(c)) \in Nat
BY StartUpProgram, ShutdownProgram, LenProperties DEF Sequence

LEMMA DoneFacts ==
    ASSUME NEW s \in Seq(Instruction), NEW n \in Nat
    PROVE  /\ \A x : ~ Done(s, 1, x)
           /\ \A x : Done(s, Len(s) + 1, x) <=> x \in Elems(s)
           /\ n \in 1..Len(s) => \A x : Done(s, n + 1, x) <=> Done(s, n, x) \/ s[n] = x
<1>. DEFINE l == Len(s)
<1>1. l \in Nat
  BY LenProperties
<1>2. \A k, x : Done(s, k, x) <=> \E i \in 1..l : i < k /\ s[i] = x
  BY DEF Done
<1>3. Elems(s) = {s[i] : i \in 1..l}
  BY DEF Elems
<1>. HIDE DEF l
<1>4. \A x : ~ Done(s, 1, x)
  BY <1>1, <1>2
<1>5. ASSUME NEW x PROVE Done(s, l + 1, x) <=> x \in Elems(s)
  <2>1. \A i \in 1..l : i < l + 1
    BY <1>1
  <2>. QED
    BY <1>2, <1>3, <2>1
<1>6. ASSUME n \in 1..l, NEW x PROVE Done(s, n + 1, x) <=> Done(s, n, x) \/ s[n] = x
  <2>1. \A i \in 1..l : i < n + 1 <=> i < n \/ i = n
    BY <1>1, <1>6
  <2>. QED
    BY <1>2, <1>6, <2>1
<1>. QED
  BY <1>4, <1>5, <1>6 DEF l

\* The instruction a process is at.
LEMMA AtFacts ==
    ASSUME D!TypeOK, NEW p \in Proc, NEW op, D!At(p, op)
    PROVE  LET s == Sequence(conf[p], mode[p]) IN
           /\ mode[p] \in {"starting", "stopping"} /\ conf[p] \in Config
           /\ step[p] \in 1..Len(s) /\ step[p] \in Nat /\ step[p] + 1 <= Len(s) + 1
           /\ s[step[p]] = Op(op, D!Arg(p)) /\ s[step[p]] \in Elems(s) /\ s[step[p]] \in Instruction
           /\ D!Arg(p) \in D!AllFiles \cup D!AllPorts
                            \cup {"none", "definitions", "caches", "tls", "extension yamls"}
<1>. DEFINE s == Sequence(conf[p], mode[p])
            n == step[p]
<1>1. mode[p] \in {"starting", "stopping"} /\ conf[p] \in Config /\ n \in Nat \ {0}
  BY DEF D!TypeOK, D!At
<1>2. s = D!Program(p) /\ n \in DOMAIN s /\ s[n].op = op /\ D!Arg(p) = s[n].arg
  BY DEF D!At, D!Program, Sequence, D!Arg
<1>3. s \in Seq(Instruction)
  BY <1>1, SequenceFacts
<1>. HIDE DEF s, n
<1>4. n \in 1..Len(s) /\ Len(s) \in Nat
  BY <1>2, <1>3, LenProperties
<1>5. s[n] \in Instruction
  BY <1>3, <1>4, ElementOfSeq
<1>6. s[n] = Op(op, D!Arg(p)) /\ D!Arg(p) \in D!AllFiles \cup D!AllPorts
                            \cup {"none", "definitions", "caches", "tls", "extension yamls"}
  BY <1>2, <1>5 DEF Instruction, Op
<1>7. s[n] \in Elems(s) /\ n + 1 <= Len(s) + 1
  BY <1>4 DEF Elems
<1>. QED
  BY <1>1, <1>4, <1>5, <1>6, <1>7 DEF s, n

\* A step of p that changes no file keeps what is said of files if p claims nothing, opens
\* nothing and gives up nothing that is still there.
LEMMA QuietFiles ==
    ASSUME DaemonInv, NEW p \in Proc, UNCHANGED << conf, file >>,
           \A q \in Proc : q # p => mode'[q] = mode[q] /\ step'[q] = step[q],
           \A f : Holds(p, f)' => Holds(p, f),
           \A f : Opened(p, f)' => Opened(p, f),
           \A f : Holds(p, f) \/ mode[p] = "failed" => Holds(p, f)' \/ mode'[p] = "failed"
    PROVE  Owned' /\ Kept' /\ OwnSockets'
<1>1. \A q \in Proc : q # p =>
          \A f : (Holds(q, f)' <=> Holds(q, f)) /\ (Opened(q, f)' <=> Opened(q, f))
  BY DEF Holds, Opened
<1>2. \A f : Guarded(f)' <=> Guarded(f)
  BY DEF Guarded
<1>3. \A q \in Proc : Alone(q)' <=> Alone(q)
  BY DEF Alone, D!Rivals
<1>4. Owned'
  <2>. SUFFICES ASSUME NEW f \in D!AllFiles, file[f] # D!Free, \A c \in Config : f \notin Sockets(c)
                PROVE  \E q \in Proc : /\ file[f][1] = q /\ f \in Claimed(conf[q])
                                       /\ Holds(q, f)' \/ mode'[q] = "failed"
    BY DEF Owned
  <2>1. PICK q \in Proc : /\ file[f][1] = q /\ f \in Claimed(conf[q])
                          /\ Holds(q, f) \/ mode[q] = "failed"
    BY DEF DaemonInv, Owned
  <2>2. Holds(q, f)' \/ mode'[q] = "failed"
    BY <1>1, <2>1
  <2>. QED
    BY <2>1, <2>2
<1>5. Kept'
  <2>. SUFFICES ASSUME NEW q \in Proc, NEW f \in D!AllFiles, Guarded(f), Holds(q, f)'
                PROVE  file[f][1] = q
    BY <1>2 DEF Kept
  <2>1. Holds(q, f)
    BY <1>1
  <2>. QED
    BY <2>1 DEF DaemonInv, Kept
<1>6. OwnSockets'
  <2>. SUFFICES ASSUME NEW q \in Proc, NEW f \in D!AllFiles, Alone(q), Opened(q, f)'
                PROVE  file[f][1] = q
    BY <1>3 DEF OwnSockets
  <2>1. Opened(q, f)
    BY <1>1
  <2>. QED
    BY <2>1 DEF DaemonInv, OwnSockets
<1>. QED
  BY <1>4, <1>5, <1>6

\* A step of p leaves the ports of the others alone.
LEMMA QuietPorts ==
    ASSUME DaemonInv, NEW p \in Proc, conf' = conf,
           \A q \in Proc : q # p => mode'[q] = mode[q] /\ step'[q] = step[q],
           \A q \in Proc : \A pt \in D!AllPorts :
               << q, "main" >> \in listener'[pt] => << q, "main" >> \in listener[pt],
           \A q \in Proc : \A pt \in D!AllPorts :
               q # p /\ << q, "main" >> \in listener[pt] => << q, "main" >> \in listener'[pt],
           \A pt \in D!AllPorts : Binds(p, pt)' => << p, "main" >> \in listener'[pt]
    PROVE  Listening'
<1>1. \A q \in Proc : q # p => \A pt : (Binds(q, pt)' <=> Binds(q, pt))
  BY DEF Binds
<1>2. ASSUME NEW pt \in D!AllPorts, NEW q \in Proc, Binds(q, pt)' PROVE << q, "main" >> \in listener'[pt]
  <2>1. CASE q = p
    BY <1>2, <2>1
  <2>2. CASE q # p
    <3>1. Binds(q, pt)
      BY <1>1, <1>2, <2>2
    <3>2. << q, "main" >> \in listener[pt]
      BY <3>1 DEF DaemonInv, Listening
    <3>. QED
      BY <2>2, <3>2
  <2>. QED
    BY <2>1, <2>2
<1>3. ASSUME NEW pt \in D!AllPorts, NEW q \in Proc, NEW r \in Proc,
             << q, "main" >> \in listener'[pt], << r, "main" >> \in listener'[pt]
      PROVE  q = r
  BY <1>3 DEF DaemonInv, Listening
<1>. QED
  BY <1>2, <1>3 DEF Listening

LEMMA QuietSteps ==
    ASSUME DaemonInv, NEW p \in Proc, conf' = conf,
           \A q \in Proc : q # p => mode'[q] = mode[q] /\ step'[q] = step[q],
           mode'[p] = "idle" => step'[p] = 1,
           SoundAt(conf[p], mode'[p], step'[p])
    PROVE  Steps'
BY DEF DaemonInv, Steps

\* Two processes that hold all they claim are no rivals.
HoldsAll(p) == \A f \in Claimed(conf[p]) : Holds(p, f)

LEMMA ClaimedFiles ==
    ASSUME NEW c \in Config
    PROVE  Claimed(c) \subseteq D!AllFiles /\ Sockets(c) \subseteq D!AllFiles
           /\ \A f \in Claimed(c) : \A d \in Config : f \notin Sockets(d)
BY Arguments, FileNames DEF Claimed, Sockets

\* What a process claims that is alone is guarded.
LEMMA AloneGuards ==
    ASSUME D!TypeOK, NEW p \in Proc, Alone(p), NEW f \in Claimed(conf[p])
    PROVE  Guarded(f)
<1>. SUFFICES ASSUME NEW q \in Proc, conf[q].console # "none", f = D!Lockfile(conf[q].console)
              PROVE  ~ Distinct(conf[q])
  BY DEF Guarded
<1>1. conf[q].console \in D!LockedPorts(conf[p])
  <2>1. f # D!Pidfile(conf[p])
    BY FileNames
  <2>2. PICK pt \in D!LockedPorts(conf[p]) : f = D!Lockfile(pt)
    BY <2>1 DEF Claimed
  <2>. QED
    BY <2>2, FileNames
<1>2. q = p
  BY <1>1 DEF Alone
<1>. QED
  BY <1>1, <1>2 DEF Distinct, D!LockedPorts, D!None

LEMMA KeptApart ==
    ASSUME DaemonInv, NEW p \in Proc, NEW q \in Proc, p # q, Alone(p), HoldsAll(p), HoldsAll(q)
    PROVE  FALSE
<1>1. D!Rivals(p, q)
  BY DEF Alone
<1>2. PICK f \in Claimed(conf[p]) : f \in Claimed(conf[q])
  <2>1. CASE conf[p].pidfile = conf[q].pidfile
    BY <2>1, FileNames DEF Claimed
  <2>2. CASE D!LockedPorts(conf[p]) \cap D!LockedPorts(conf[q]) # {}
    BY <2>2 DEF Claimed
  <2>. QED
    BY <1>1, <2>1, <2>2 DEF D!Rivals
<1>3. f \in D!AllFiles /\ Guarded(f)
  BY <1>2, ClaimedFiles, AloneGuards DEF DaemonInv, D!TypeOK
<1>4. Holds(p, f) /\ Holds(q, f)
  BY <1>2 DEF HoldsAll
<1>. QED
  BY <1>3, <1>4 DEF DaemonInv, Kept

\* After its claims, and until it starts to give them up, a process holds them all.
LEMMA HoldsAllWhen ==
    ASSUME D!TypeOK, NEW p \in Proc
    PROVE  /\ mode[p] = "serving" => HoldsAll(p)
           /\ mode[p] = "starting" /\ step[p] = Len(D!StartUp(conf[p])) + 1 => HoldsAll(p)
           /\ mode[p] = "starting" /\ step[p] \in 1..Len(D!StartUp(conf[p]))
                 /\ D!StartUp(conf[p])[step[p]].op # "create" => HoldsAll(p)
           /\ mode[p] = "stopping" /\ step[p] \in 1..Len(D!Shutdown(conf[p]))
                 /\ D!Shutdown(conf[p])[step[p]] \in Removes(Sockets(conf[p])) => HoldsAll(p)
<1>. DEFINE c == conf[p]
            s == D!StartUp(c)
            t == D!Shutdown(c)
            n == step[p]
<1>1. c \in Config /\ n \in Nat
  BY DEF D!TypeOK
<1>2. /\ s \in Seq(Instruction) /\ Ahead(s, Creates, Instruction \ Creates)
      /\ \A f \in Claimed(c) : Op("create", f) \in Elems(s)
  BY <1>1, StartUpProgram
<1>3. t \in Seq(Instruction) /\ Ahead(t, Removes(Sockets(c)), Removes(Claimed(c)))
  BY <1>1, ShutdownProgram
<1>4. /\ \A f : Holds(p, f) <=> HoldsAt(c, mode[p], n, f)
      /\ HoldsAll(p) <=> \A f \in Claimed(c) : Holds(p, f)
  BY DEF Holds, HoldsAll
<1>5. \A f \in Claimed(c) : Op("create", f) \in Creates /\ Op("remove", f) \in Removes(Claimed(c))
  BY <1>1, ClaimedFiles DEF Creates, Removes
<1>. HIDE DEF c, s, t, n
<1>6. ASSUME mode[p] = "serving" PROVE HoldsAll(p)
  BY <1>4, <1>6 DEF HoldsAt
<1>7. ASSUME mode[p] = "starting", \A f \in Claimed(c) : Done(s, n, Op("create", f)) PROVE HoldsAll(p)
  BY <1>4, <1>7 DEF HoldsAt, s
<1>8. ASSUME mode[p] = "starting", n = Len(s) + 1 PROVE HoldsAll(p)
  <2>1. \A f \in Claimed(c) : Done(s, n, Op("create", f))
    BY <1>1, <1>2, <1>8, DoneFacts
  <2>. QED
    BY <1>7, <1>8, <2>1
<1>9. ASSUME mode[p] = "starting", n \in 1..Len(s), s[n].op # "create" PROVE HoldsAll(p)
  <2>1. s[n] \in Instruction \ Creates
    <3>1. s[n] \in Instruction
      BY <1>2, <1>9, ElementOfSeq
    <3>2. \A x \in Creates : x.op = "create"
      BY DEF Creates, Op
    <3>. QED
      BY <1>9, <3>1, <3>2
  <2>2. ASSUME NEW f \in Claimed(c) PROVE Done(s, n, Op("create", f))
    <3>1. PICK i \in 1..Len(s) : s[i] = Op("create", f)
      BY <1>2 DEF Elems
    <3>2. i < n
      BY <1>2, <1>5, <1>9, <2>1, <3>1 DEF Ahead
    <3>. QED
      BY <3>1, <3>2 DEF Done
  <2>. QED
    BY <1>7, <1>9, <2>2
<1>10. ASSUME mode[p] = "stopping", n \in 1..Len(t), t[n] \in Removes(Sockets(c)) PROVE HoldsAll(p)
  <2>1. ASSUME NEW f \in Claimed(c), Done(t, n, Op("remove", f)) PROVE FALSE
    <3>1. PICK i \in 1..Len(t) : i < n /\ t[i] = Op("remove", f)
      BY <2>1 DEF Done
    <3>2. n < i
      BY <1>3, <1>5, <1>10, <3>1 DEF Ahead
    <3>3. Len(t) \in Nat
      BY <1>3, LenProperties
    <3>. QED
      BY <1>1, <3>1, <3>2, <3>3
  <2>. QED
    BY <1>4, <1>10, <2>1 DEF HoldsAt, t
<1>. QED
  BY <1>6, <1>8, <1>9, <1>10 DEF c, s, t, n

\* Which instructions there are.
LEMMA Instructions ==
    ASSUME D!TypeOK, NEW p \in Proc, NEW op, D!At(p, op)
    PROVE  /\ op \in {"create", "check", "daemon", "unix", "bind"} => mode[p] = "starting"
           /\ op \in {"close", "remove"} => mode[p] = "stopping"
           /\ mode[p] = "starting" => op \in {"create", "check", "daemon", "unix", "bind"}
           /\ mode[p] = "stopping" => op \in {"close", "remove"}
           /\ op = "create" => D!Arg(p) \in Claimed(conf[p])
           /\ op = "daemon" => conf[p].daemon
           /\ op = "unix" => D!Arg(p) \in Sockets(conf[p])
           /\ op \in {"bind", "close"} => D!Arg(p) \in D!Port(conf[p])
           /\ op = "remove" => \/ D!Arg(p) \in Sockets(conf[p]) \cup Claimed(conf[p])
                               \/ conf[p].console # "none" /\ D!Arg(p) = D!Lockfile(conf[p].console)
<1>. DEFINE c == conf[p]
            a == D!Arg(p)
            o == Op(op, a)
            E == Elems(Sequence(c, mode[p]))
<1>1. mode[p] \in {"starting", "stopping"} /\ c \in Config /\ o \in E
  BY AtFacts
<1>2. mode[p] = "starting" =>
        E = {Op("create", f) : f \in Claimed(c)}
              \cup {Op("check", x) : x \in {"definitions", "caches", "tls", "extension yamls"}}
              \cup (IF c.daemon THEN {Op("daemon", "none")} ELSE {})
              \cup {Op("unix", f) : f \in Sockets(c)}
              \cup {Op("bind", pt) : pt \in D!Port(c)}
  BY <1>1, StartUpProgram DEF Sequence
<1>3. mode[p] = "stopping" =>
        E \subseteq {Op("close", pt) : pt \in D!Port(c)} \cup Removes(Sockets(c)) \cup Removes(Claimed(c))
              \cup (IF c.console # "none" THEN {Op("remove", D!Lockfile(c.console))} ELSE {})
  BY <1>1, ShutdownProgram DEF Sequence
<1>4. o.op = op /\ o.arg = a
  BY OpFields
<1>. DEFINE X == {Op("check", x) : x \in {"definitions", "caches", "tls", "extension yamls"}}
<1>5. \A x \in X : x.op = "check"
  BY OpFields, Zenon
<1>. HIDE DEF c, a, o, E, X
<1>6. CASE mode[p] = "starting"
  <2>1. \/ \E f \in Claimed(c) : o = Op("create", f)
        \/ o \in X
        \/ c.daemon /\ o = Op("daemon", "none")
        \/ \E f \in Sockets(c) : o = Op("unix", f)
        \/ \E pt \in D!Port(c) : o = Op("bind", pt)
    BY <1>1, <1>2, <1>6 DEF X
  <2>2. \/ op = "create" /\ a \in Claimed(c)
        \/ op = "check"
        \/ op = "daemon" /\ c.daemon
        \/ op = "unix" /\ a \in Sockets(c)
        \/ op = "bind" /\ a \in D!Port(c)
    BY <1>4, <1>5, <2>1, OpFields
  <2>. QED
    BY <1>6, <2>2 DEF c, a
<1>7. CASE mode[p] = "stopping"
  <2>1. \/ \E pt \in D!Port(c) : o = Op("close", pt)
        \/ \E f \in Sockets(c) \cup Claimed(c) : o = Op("remove", f)
        \/ c.console # "none" /\ o = Op("remove", D!Lockfile(c.console))
    BY <1>1, <1>3, <1>7 DEF Removes
  <2>2. \/ op = "close" /\ a \in D!Port(c)
        \/ op = "remove" /\ a \in Sockets(c) \cup Claimed(c)
        \/ op = "remove" /\ c.console # "none" /\ a = D!Lockfile(c.console)
    BY <1>4, <2>1, OpFields
  <2>. QED
    BY <1>7, <2>2 DEF c, a
<1>. QED
  BY <1>1, <1>6, <1>7

\* What going on by one instruction means.
LEMMA Advance ==
    ASSUME D!TypeOK, NEW p \in Proc, NEW op, D!At(p, op), D!Proceed(p), UNCHANGED << conf, mode >>
    PROVE  /\ \A q \in Proc : q # p => step'[q] = step[q]
           /\ step' \in [Proc -> Nat \ {0}]
           /\ \A q \in Proc : mode[q] \in {"starting", "stopping"} => step'[q] <= Len(D!Program(q)') + 1
           /\ mode[p] # "idle"
           /\ \A f : Holds(p, f)' <=> /\ Holds(p, f) \/ (op = "create" /\ f = D!Arg(p))
                                      /\ ~ (op = "remove" /\ f = D!Arg(p))
           /\ \A f : Opened(p, f)' <=> Opened(p, f) \/ (op = "unix" /\ f = D!Arg(p))
           /\ \A pt : Binds(p, pt)' <=> Binds(p, pt) \/ (op = "bind" /\ pt = D!Arg(p))
           /\ SoundAt(conf[p], mode[p], step[p]) /\ (op = "bind" => ~ Binds(p, D!Arg(p)))
                 => SoundAt(conf[p], mode[p], step'[p])
<1>. DEFINE c == conf[p]
            m == mode[p]
            n == step[p]
            a == D!Arg(p)
            s == Sequence(c, m)
<1>1. /\ m \in {"starting", "stopping"} /\ c \in Config /\ n \in 1..Len(s) /\ n \in Nat
      /\ n + 1 <= Len(s) + 1 /\ s[n] = Op(op, a) /\ s \in Seq(Instruction)
  BY AtFacts, SequenceFacts
<1>2. step'[p] = n + 1 /\ step' \in [Proc -> Nat \ {0}] /\ \A q \in Proc : q # p => step'[q] = step[q]
  BY <1>1 DEF D!Proceed, D!TypeOK
<1>3. D!Program(p) = s /\ \A q \in Proc : D!Program(q)' = D!Program(q)
  BY DEF D!Program, Sequence
<1>4. \A q \in Proc : mode[q] \in {"starting", "stopping"} => step'[q] <= Len(D!Program(q)') + 1
  BY <1>1, <1>2, <1>3 DEF D!TypeOK
<1>5. \A x : Done(s, n + 1, x) <=> Done(s, n, x) \/ s[n] = x
  BY <1>1, DoneFacts
<1>6. /\ op \in {"create", "check", "daemon", "unix", "bind"} => m = "starting"
      /\ op \in {"close", "remove"} => m = "stopping"
      /\ op = "create" => a \in Claimed(c)
      /\ op = "unix" => a \in Sockets(c)
  BY Instructions
<1>7. /\ \A f : (Holds(p, f) <=> HoldsAt(c, m, n, f)) /\ (Holds(p, f)' <=> HoldsAt(c, m, n + 1, f))
      /\ \A f : (Opened(p, f) <=> OpenAt(c, m, n, f)) /\ (Opened(p, f)' <=> OpenAt(c, m, n + 1, f))
      /\ \A f : (Binds(p, f) <=> BoundAt(c, m, n, f)) /\ (Binds(p, f)' <=> BoundAt(c, m, n + 1, f))
  BY <1>2 DEF Holds, Opened, Binds
<1>8. /\ m = "starting" => s = D!StartUp(c)
      /\ m = "stopping" => s = D!Shutdown(c)
  BY DEF Sequence
<1>9. \A o, x : s[n] = Op(o, x) <=> o = op /\ x = a
  BY <1>1, OpFields
<1>. HIDE DEF c, m, n, a, s
<1>10. ASSUME NEW f PROVE HoldsAt(c, m, n + 1, f) <=> /\ HoldsAt(c, m, n, f) \/ (op = "create" /\ f = a)
                                                     /\ ~ (op = "remove" /\ f = a)
  <2>1. CASE m = "starting"
    BY <1>5, <1>6, <1>8, <1>9, <2>1 DEF HoldsAt
  <2>2. CASE m = "stopping"
    BY <1>5, <1>6, <1>8, <1>9, <2>2 DEF HoldsAt
  <2>. QED
    BY <1>1, <2>1, <2>2
<1>11. ASSUME NEW f PROVE OpenAt(c, m, n + 1, f) <=> OpenAt(c, m, n, f) \/ (op = "unix" /\ f = a)
  <2>1. CASE m = "starting"
    BY <1>5, <1>6, <1>8, <1>9, <2>1 DEF OpenAt
  <2>2. CASE m = "stopping"
    BY <1>6, <2>2 DEF OpenAt
  <2>. QED
    BY <1>1, <2>1, <2>2
<1>12. ASSUME NEW f PROVE BoundAt(c, m, n + 1, f) <=> BoundAt(c, m, n, f) \/ (op = "bind" /\ f = a)
  <2>1. CASE m = "starting"
    BY <1>5, <1>6, <1>8, <1>9, <2>1 DEF BoundAt
  <2>2. CASE m = "stopping"
    BY <1>6, <2>2 DEF BoundAt
  <2>. QED
    BY <1>1, <2>1, <2>2
<1>13. ASSUME SoundAt(c, m, n), op = "bind" => ~ BoundAt(c, m, n, a) PROVE SoundAt(c, m, n + 1)
  <2>1. CASE m = "starting"
    <3>. SUFFICES ASSUME NEW i \in 1..Len(s), NEW j \in 1..Len(s), i < j, j < n + 1, s[j].op = "bind", s[i] = s[j]
                  PROVE  FALSE
      BY <1>8, <2>1 DEF SoundAt
    <3>1. CASE j < n
      BY <1>8, <1>13, <2>1, <3>1 DEF SoundAt
    <3>2. CASE j = n
      <4>1. op = "bind" /\ s[i] = Op("bind", a) /\ i < n
        BY <1>1, <3>2, OpFields
      <4>2. Done(s, n, Op("bind", a))
        BY <4>1 DEF Done
      <4>. QED
        BY <1>8, <1>13, <2>1, <4>1, <4>2 DEF BoundAt
    <3>3. Len(s) \in Nat
      BY <1>1, LenProperties
    <3>. QED
      BY <1>1, <3>1, <3>2, <3>3
  <2>2. CASE m = "stopping"
    BY <1>13, <2>2 DEF SoundAt
  <2>. QED
    BY <1>1, <2>1, <2>2
<1>. QED
  <2>1. m # "idle"
    BY <1>1
  <2>2. SoundAt(c, m, n) /\ (op = "bind" => ~ Binds(p, a)) => SoundAt(c, m, step'[p])
    BY <1>2, <1>7, <1>13
  <2>3. /\ \A f : Holds(p, f)' <=> /\ Holds(p, f) \/ (op = "create" /\ f = a)
                                   /\ ~ (op = "remove" /\ f = a)
        /\ \A f : Opened(p, f)' <=> Opened(p, f) \/ (op = "unix" /\ f = a)
        /\ \A pt : Binds(p, pt)' <=> Binds(p, pt) \/ (op = "bind" /\ pt = a)
    BY <1>7, <1>10, <1>11, <1>12
  <2>. QED
    BY <1>2, <1>4, <2>1, <2>2, <2>3 DEF c, m, n, a

Modes == {"idle", "starting", "serving", "stopping", "stopped", "failed"}

LEMMA InitDaemon == D!Init => DaemonInv
<1>. SUFFICES ASSUME D!Init PROVE DaemonInv
  OBVIOUS
<1>1. D!TypeOK
  BY DEF D!Init, D!TypeOK
<1>2. \A p \in Proc : mode[p] = "idle" /\ step[p] = 1 /\ ~ forked[p]
  BY DEF D!Init
<1>3. \A p \in Proc : \A f : ~ Holds(p, f) /\ ~ Opened(p, f) /\ ~ Binds(p, f)
  BY <1>2 DEF Holds, Opened, Binds, HoldsAt, OpenAt, BoundAt
<1>4. Steps
  BY <1>2 DEF Steps, SoundAt
<1>5. Background
  BY <1>2 DEF D!Init, D!Free, Background
<1>6. Owned /\ Kept /\ OwnSockets
  BY <1>3 DEF D!Init, Owned, Kept, OwnSockets
<1>7. Listening
  BY <1>3 DEF D!Init, Listening
<1>. QED
  BY <1>1, <1>4, <1>5, <1>6, <1>7 DEF DaemonInv

\* A process that ends: it failed, or has given up everything.
LEMMA Leaving ==
    ASSUME DaemonInv, NEW p \in Proc, NEW how, D!Leave(p, how),
           UNCHANGED << conf, step, forked, file, kid >>,
           \/ how = "failed"
           \/ how = "stopped" /\ mode[p] # "failed" /\ \A f : ~ Holds(p, f)
    PROVE  DaemonInv'
<1>1. /\ mode'[p] = how /\ how \in {"failed", "stopped"}
      /\ \A q \in Proc : q # p => mode'[q] = mode[q] /\ step'[q] = step[q]
      /\ mode' \in [Proc -> Modes]
  BY DEF D!Leave, DaemonInv, D!TypeOK, Modes
<1>2. /\ \A pt \in D!AllPorts : listener'[pt] = listener[pt] \ {<< p, "main" >>}
      /\ listener' \in [D!AllPorts -> SUBSET (Proc \X {"main", "kid"})]
  BY DEF D!Leave, DaemonInv, D!TypeOK
<1>3. D!TypeOK'
  <2>1. \A q \in Proc : mode'[q] \in {"starting", "stopping"} =>
            mode[q] = mode'[q] /\ D!Program(q)' = D!Program(q)
    BY <1>1 DEF D!Program
  <2>. QED
    BY <1>1, <1>2, <2>1 DEF DaemonInv, D!TypeOK, Modes
<1>4. \A f : ~ Holds(p, f)' /\ ~ Opened(p, f)' /\ ~ Binds(p, f)'
  BY <1>1 DEF Holds, Opened, Binds, HoldsAt, OpenAt, BoundAt
<1>5. Owned' /\ Kept' /\ OwnSockets'
  BY <1>1, <1>4, QuietFiles
<1>6. Listening'
  BY <1>1, <1>2, <1>4, QuietPorts
<1>7. Steps'
  BY <1>1, QuietSteps DEF SoundAt
<1>8. Background'
  BY DEF DaemonInv, Background
<1>. QED
  BY <1>3, <1>5, <1>6, <1>7, <1>8 DEF DaemonInv

\* A step of p that changes its mode or its step only.
LEMMA Moving ==
    ASSUME DaemonInv, NEW p \in Proc, UNCHANGED << conf, forked, file, listener, kid >>,
           NEW m \in Modes, NEW n \in Nat \ {0},
           mode' = [mode EXCEPT ![p] = m], step' = [step EXCEPT ![p] = n],
           m \in {"starting", "stopping"} => n <= Len(Sequence(conf[p], m)) + 1,
           m = "idle" => n = 1, SoundAt(conf[p], m, n),
           \A f : HoldsAt(conf[p], m, n, f) <=> Holds(p, f),
           \A f : OpenAt(conf[p], m, n, f) => Opened(p, f),
           \A f : BoundAt(conf[p], m, n, f) => Binds(p, f),
           mode[p] = "failed" => m = "failed"
    PROVE  DaemonInv'
<1>1. /\ mode'[p] = m /\ step'[p] = n
      /\ \A q \in Proc : q # p => mode'[q] = mode[q] /\ step'[q] = step[q]
      /\ mode' \in [Proc -> Modes] /\ step' \in [Proc -> Nat \ {0}]
  BY DEF DaemonInv, D!TypeOK, Modes
<1>2. D!TypeOK'
  <2>1. ASSUME NEW q \in Proc, mode'[q] \in {"starting", "stopping"}
        PROVE  step'[q] <= Len(D!Program(q)') + 1
    <3>1. CASE q = p
      BY <1>1, <2>1, <3>1 DEF D!Program, Sequence
    <3>2. CASE q # p
      <4>1. D!Program(q)' = D!Program(q)
        BY <1>1, <3>2 DEF D!Program
      <4>. QED
        BY <1>1, <2>1, <3>2, <4>1 DEF DaemonInv, D!TypeOK
    <3>. QED
      BY <3>1, <3>2
  <2>. QED
    BY <1>1, <2>1 DEF DaemonInv, D!TypeOK, Modes
<1>3. /\ \A f : Holds(p, f)' <=> HoldsAt(conf[p], m, n, f)
      /\ \A f : Opened(p, f)' <=> OpenAt(conf[p], m, n, f)
      /\ \A f : Binds(p, f)' <=> BoundAt(conf[p], m, n, f)
  BY <1>1 DEF Holds, Opened, Binds
<1>4. Owned' /\ Kept' /\ OwnSockets'
  BY <1>1, <1>3, QuietFiles
<1>5. Listening'
  <2>1. \A pt \in D!AllPorts : Binds(p, pt)' => << p, "main" >> \in listener'[pt]
    BY <1>3 DEF DaemonInv, Listening
  <2>. QED
    BY <1>1, <2>1, QuietPorts
<1>6. Steps'
  BY <1>1, QuietSteps
<1>7. Background'
  BY DEF DaemonInv, Background
<1>. QED
  BY <1>2, <1>4, <1>5, <1>6, <1>7 DEF DaemonInv

LEMMA StartKeeps == ASSUME DaemonInv, NEW p \in Proc, D!Start(p) PROVE DaemonInv'
<1>. DEFINE c == conf[p]
<1>1. mode[p] = "idle" /\ step[p] = 1 /\ c \in Config /\ step = [step EXCEPT ![p] = 1]
  BY DEF D!Start, DaemonInv, Steps, D!TypeOK
<1>2. /\ D!StartUp(c) \in Seq(Instruction) /\ Len(D!StartUp(c)) \in Nat
      /\ \A x : ~ Done(D!StartUp(c), 1, x)
  BY <1>1, SequenceFacts, DoneFacts
<1>3. \A f : ~ HoldsAt(c, "starting", 1, f) /\ ~ OpenAt(c, "starting", 1, f) /\ ~ BoundAt(c, "starting", 1, f)
  BY <1>2 DEF HoldsAt, OpenAt, BoundAt
<1>4. \A f : ~ Holds(p, f)
  BY <1>1 DEF Holds, HoldsAt
<1>5. SoundAt(c, "starting", 1)
  <2>. DEFINE l == Len(D!StartUp(c))
  <2>. HIDE DEF l
  <2>1. \A j \in 1..l : ~ (j < 1)
    BY <1>2 DEF l
  <2>. QED
    BY <2>1 DEF SoundAt, l
<1>6. 1 <= Len(Sequence(c, "starting")) + 1
  BY <1>2 DEF Sequence
<1>7. /\ mode' = [mode EXCEPT ![p] = "starting"] /\ step' = [step EXCEPT ![p] = 1]
      /\ UNCHANGED << conf, forked, file, listener, kid >>
  BY <1>1 DEF D!Start
<1>8. 1 \in Nat \ {0} /\ "starting" \in Modes /\ "starting" # "idle" /\ mode[p] # "failed"
  BY <1>1 DEF Modes
<1>9. /\ \A f : HoldsAt(c, "starting", 1, f) <=> Holds(p, f)
      /\ \A f : OpenAt(c, "starting", 1, f) => Opened(p, f)
      /\ \A f : BoundAt(c, "starting", 1, f) => Binds(p, f)
  BY <1>3, <1>4
<1>. QED
  BY <1>5, <1>6, <1>7, <1>8, <1>9, Moving

LEMMA StartedKeeps == ASSUME DaemonInv, NEW p \in Proc, D!Started(p) PROVE DaemonInv'
<1>. DEFINE c == conf[p]
            s == D!StartUp(c)
            n == step[p]
<1>1. mode[p] = "starting" /\ n = Len(s) + 1 /\ c \in Config /\ n \in Nat \ {0} /\ step = [step EXCEPT ![p] = n]
  BY DEF D!Started, DaemonInv, D!TypeOK
<1>2. /\ s \in Seq(Instruction) /\ Len(s) \in Nat /\ \A x : Done(s, n, x) <=> x \in Elems(s)
  BY <1>1, SequenceFacts, DoneFacts
<1>3. /\ \A f \in Claimed(c) : Op("create", f) \in Elems(s)
      /\ \A f \in Sockets(c) : Op("unix", f) \in Elems(s)
      /\ \A pt \in D!Port(c) : Op("bind", pt) \in Elems(s)
      /\ BoundInTurn(s, c)
  BY <1>1, StartUpProgram
<1>4. /\ \A f : HoldsAt(c, "serving", n, f) <=> Holds(p, f)
      /\ \A f : OpenAt(c, "serving", n, f) => Opened(p, f)
      /\ \A f : BoundAt(c, "serving", n, f) => Binds(p, f)
  BY <1>1, <1>2, <1>3 DEF HoldsAt, OpenAt, BoundAt, Holds, Opened, Binds
<1>5. \A x : ~ After(s, Op("bind", x), Op("bind", x))
  <2>. SUFFICES ASSUME NEW x, After(s, Op("bind", x), Op("bind", x)) PROVE FALSE
    OBVIOUS
  <2>1. PICK i \in 1..Len(s), j \in 1..Len(s) : i < j /\ s[i] = Op("bind", x) /\ s[j] = Op("bind", x)
    BY DEF After
  <2>2. SoundAt(c, "starting", n)
    BY <1>1 DEF DaemonInv, Steps
  <2>3. j < n
    <3>. HIDE DEF s, n
    <3>. QED
      BY <1>1, <1>2
  <2>4. s[j].op = "bind"
    BY <2>1, OpFields
  <2>. QED
    BY <2>1, <2>2, <2>3, <2>4 DEF SoundAt
<1>. HIDE DEF s
<1>6. Distinct(c)
  <2>1. \A x, y : InTurn(s, x, y) /\ x # "none" => x # y
    BY <1>5 DEF InTurn
  <2>. QED
    BY <1>3, <2>1 DEF Distinct, BoundInTurn
<1>7. SoundAt(c, "serving", n)
  BY <1>6 DEF SoundAt
<1>8. /\ mode' = [mode EXCEPT ![p] = "serving"] /\ step' = [step EXCEPT ![p] = n]
      /\ UNCHANGED << conf, forked, file, listener, kid >>
  BY <1>1 DEF D!Started
<1>. QED
  BY <1>1, <1>4, <1>7, <1>8, Moving DEF Modes

LEMMA StopKeeps == ASSUME DaemonInv, NEW p \in Proc, D!Stop(p) PROVE DaemonInv'
<1>. DEFINE c == conf[p]
<1>1. mode[p] = "serving" /\ c \in Config
  BY DEF D!Stop, DaemonInv, D!TypeOK
<1>2. /\ D!Shutdown(c) \in Seq(Instruction) /\ Len(D!Shutdown(c)) \in Nat
      /\ \A x : ~ Done(D!Shutdown(c), 1, x)
  BY <1>1, SequenceFacts, DoneFacts
<1>3. /\ \A f : HoldsAt(c, "stopping", 1, f) <=> Holds(p, f)
      /\ \A f : ~ OpenAt(c, "stopping", 1, f) /\ ~ BoundAt(c, "stopping", 1, f)
  BY <1>1, <1>2 DEF HoldsAt, OpenAt, BoundAt, Holds
<1>4. SoundAt(c, "stopping", 1)
  BY <1>1 DEF DaemonInv, Steps, SoundAt
<1>5. 1 <= Len(Sequence(c, "stopping")) + 1
  BY <1>2 DEF Sequence
<1>6. /\ mode' = [mode EXCEPT ![p] = "stopping"] /\ step' = [step EXCEPT ![p] = 1]
      /\ UNCHANGED << conf, forked, file, listener, kid >>
  BY DEF D!Stop
<1>7. 1 \in Nat \ {0} /\ "stopping" \in Modes /\ "stopping" # "idle" /\ mode[p] # "failed"
  BY <1>1 DEF Modes
<1>8. /\ \A f : HoldsAt(c, "stopping", 1, f) <=> Holds(p, f)
      /\ \A f : OpenAt(c, "stopping", 1, f) => Opened(p, f)
      /\ \A f : BoundAt(c, "stopping", 1, f) => Binds(p, f)
  BY <1>3
<1>. QED
  BY <1>4, <1>5, <1>6, <1>7, <1>8, Moving

LEMMA EndKeeps == ASSUME DaemonInv, NEW p \in Proc, D!Stopped(p) \/ D!Crash(p) PROVE DaemonInv'
<1>1. CASE D!Crash(p)
  BY <1>1, Leaving DEF D!Crash
<1>2. CASE D!Stopped(p)
  <2>. DEFINE c == conf[p]
              s == D!Shutdown(c)
  <2>1. mode[p] = "stopping" /\ step[p] = Len(s) + 1 /\ c \in Config /\ step[p] \in Nat
    BY <1>2 DEF D!Stopped, DaemonInv, D!TypeOK
  <2>2. \A x : Done(s, step[p], x) <=> x \in Elems(s)
    BY <2>1, SequenceFacts, DoneFacts
  <2>3. \A f \in Claimed(c) : Op("remove", f) \in Elems(s)
    BY <2>1, ShutdownProgram DEF Removes
  <2>4. \A f : ~ Holds(p, f)
    BY <2>1, <2>2, <2>3 DEF Holds, HoldsAt
  <2>. QED
    BY <1>2, <2>1, <2>4, Leaving DEF D!Stopped
<1>. QED
  BY <1>1, <1>2

LEMMA KidKeeps ==
    ASSUME DaemonInv, NEW p \in Proc, D!Fork(p) \/ D!ShutdownPorts(p) \/ D!KidEnds(p)
    PROVE  DaemonInv'
<1>1. UNCHANGED << conf, mode, step, forked, file >>
  BY DEF D!Fork, D!ShutdownPorts, D!KidEnds
<1>2. /\ kid' \in [Proc -> {"none", "new", "serving"}]
      /\ listener' \in [D!AllPorts -> SUBSET (Proc \X {"main", "kid"})]
      /\ \A q \in Proc : \A pt \in D!AllPorts :
             << q, "main" >> \in listener'[pt] <=> << q, "main" >> \in listener[pt]
  <2>1. CASE D!Fork(p)
    BY <2>1 DEF D!Fork, DaemonInv, D!TypeOK
  <2>2. CASE D!ShutdownPorts(p)
    BY <2>2 DEF D!ShutdownPorts, DaemonInv, D!TypeOK
  <2>3. CASE D!KidEnds(p)
    BY <2>3 DEF D!KidEnds, DaemonInv, D!TypeOK
  <2>. QED
    BY <2>1, <2>2, <2>3
<1>3. /\ \A q \in Proc : \A f : (Holds(q, f)' <=> Holds(q, f)) /\ (Opened(q, f)' <=> Opened(q, f))
                                   /\ (Binds(q, f)' <=> Binds(q, f))
  BY <1>1 DEF Holds, Opened, Binds
<1>4. D!TypeOK'
  <2>1. \A q \in Proc : D!Program(q)' = D!Program(q)
    BY <1>1 DEF D!Program
  <2>. QED
    BY <1>1, <1>2, <2>1 DEF DaemonInv, D!TypeOK
<1>5. Owned' /\ Kept' /\ OwnSockets'
  BY <1>1, <1>3, QuietFiles
<1>6. Listening'
  BY <1>1, <1>2, <1>3, QuietPorts DEF DaemonInv, Listening
<1>7. Steps' /\ Background'
  BY <1>1 DEF DaemonInv, Steps, Background
<1>. QED
  BY <1>4, <1>5, <1>6, <1>7 DEF DaemonInv

LEMMA AgainKeeps == ASSUME DaemonInv, NEW p \in Proc, D!Again(p) PROVE DaemonInv'
<1>. DEFINE c == conf[p]
<1>1. /\ mode[p] = "stopped" /\ UNCHANGED << conf, file, listener, kid >>
      /\ mode'[p] = "idle" /\ step'[p] = 1
      /\ \A q \in Proc : q # p => mode'[q] = mode[q] /\ step'[q] = step[q]
      /\ mode' \in [Proc -> Modes] /\ step' \in [Proc -> Nat \ {0}] /\ forked' \in [Proc -> BOOLEAN]
  BY DEF D!Again, DaemonInv, D!TypeOK, Modes
<1>2. \A f : ~ Holds(p, f)' /\ ~ Opened(p, f)' /\ ~ Binds(p, f)' /\ ~ Holds(p, f)
  BY <1>1 DEF Holds, Opened, Binds, HoldsAt, OpenAt, BoundAt
<1>3. D!TypeOK'
  <2>1. \A q \in Proc : mode'[q] \in {"starting", "stopping"} =>
            mode[q] = mode'[q] /\ step'[q] = step[q] /\ D!Program(q)' = D!Program(q)
    BY <1>1 DEF D!Program
  <2>. QED
    BY <1>1, <2>1 DEF DaemonInv, D!TypeOK, Modes
<1>4. Owned' /\ Kept' /\ OwnSockets'
  BY <1>1, <1>2, QuietFiles
<1>5. Listening'
  BY <1>1, <1>2, QuietPorts
<1>6. Steps'
  BY <1>1, QuietSteps DEF SoundAt
<1>7. Background'
  <2>1. \A q \in Proc : forked'[q] => forked[q]
    BY DEF D!Again, DaemonInv, D!TypeOK
  <2>. QED
    BY <1>1, <2>1 DEF DaemonInv, Background
<1>. QED
  BY <1>3, <1>4, <1>5, <1>6, <1>7 DEF DaemonInv

\* An instruction that changes no file and binds no port.
LEMMA QuietInstruction ==
    ASSUME DaemonInv, NEW p \in Proc, NEW op \in {"check", "daemon", "close"}, D!At(p, op), D!Proceed(p),
           UNCHANGED << conf, mode, file >>,
           forked' \in [Proc -> BOOLEAN], \A q \in Proc : forked'[q] => conf[q].daemon,
           listener' \in [D!AllPorts -> SUBSET (Proc \X {"main", "kid"})], UNCHANGED kid,
           \A q \in Proc : \A pt \in D!AllPorts :
               << q, "main" >> \in listener'[pt] => << q, "main" >> \in listener[pt],
           \A q \in Proc : \A pt \in D!AllPorts :
               q # p /\ << q, "main" >> \in listener[pt] => << q, "main" >> \in listener'[pt],
           op # "close" => listener' = listener
    PROVE  DaemonInv'
<1>1. /\ \A q \in Proc : q # p => step'[q] = step[q]
      /\ step' \in [Proc -> Nat \ {0}]
      /\ \A q \in Proc : mode[q] \in {"starting", "stopping"} => step'[q] <= Len(D!Program(q)') + 1
      /\ mode[p] # "idle"
      /\ \A f : Holds(p, f)' <=> Holds(p, f)
      /\ \A f : Opened(p, f)' <=> Opened(p, f)
      /\ \A f : Binds(p, f)' <=> Binds(p, f)
      /\ SoundAt(conf[p], mode[p], step[p]) => SoundAt(conf[p], mode[p], step'[p])
  BY Advance DEF DaemonInv
<1>2. D!TypeOK'
  BY <1>1 DEF DaemonInv, D!TypeOK
<1>3. Owned' /\ Kept' /\ OwnSockets'
  BY <1>1, QuietFiles
<1>4. Steps'
  BY <1>1, QuietSteps DEF DaemonInv, Steps
<1>5. ASSUME NEW pt \in D!AllPorts, Binds(p, pt)' PROVE << p, "main" >> \in listener'[pt]
  <2>1. << p, "main" >> \in listener[pt]
    BY <1>1, <1>5 DEF DaemonInv, Listening
  <2>2. mode[p] # "stopping"
    BY <1>1, <1>5 DEF Binds, BoundAt
  <2>3. op # "close"
    BY <2>2, Instructions DEF DaemonInv
  <2>. QED
    BY <2>1, <2>3
<1>6. Listening'
  BY <1>1, <1>5, QuietPorts
<1>7. Background'
  BY DEF DaemonInv, Background
<1>. QED
  BY <1>2, <1>3, <1>4, <1>6, <1>7 DEF DaemonInv

LEMMA PreparesKeeps ==
    ASSUME DaemonInv, NEW p \in Proc, D!Check(p) \/ D!Daemonize(p) \/ D!Close(p)
    PROVE  DaemonInv'
<1>1. CASE D!Check(p)
  <2>1. CASE D!Proceed(p) /\ UNCHANGED << mode, listener >>
    BY <1>1, <2>1, QuietInstruction DEF D!Check, DaemonInv, D!TypeOK, Background
  <2>2. CASE D!Leave(p, "failed") /\ UNCHANGED step
    BY <1>1, <2>2, Leaving DEF D!Check
  <2>. QED
    BY <1>1, <2>1, <2>2 DEF D!Check
<1>2. CASE D!Daemonize(p)
  <2>1. conf[p].daemon
    BY <1>2, Instructions DEF D!Daemonize, DaemonInv
  <2>2. forked' \in [Proc -> BOOLEAN] /\ \A q \in Proc : forked'[q] => conf[q].daemon
    BY <1>2, <2>1 DEF D!Daemonize, DaemonInv, D!TypeOK, Background
  <2>. QED
    BY <1>2, <2>2, QuietInstruction DEF D!Daemonize, DaemonInv, D!TypeOK
<1>3. CASE D!Close(p)
  <2>1. /\ listener' \in [D!AllPorts -> SUBSET (Proc \X {"main", "kid"})]
        /\ \A q \in Proc : \A pt \in D!AllPorts :
               << q, "main" >> \in listener'[pt] => << q, "main" >> \in listener[pt]
        /\ \A q \in Proc : \A pt \in D!AllPorts :
               q # p /\ << q, "main" >> \in listener[pt] => << q, "main" >> \in listener'[pt]
    BY <1>3 DEF D!Close, DaemonInv, D!TypeOK
  <2>2. forked' \in [Proc -> BOOLEAN] /\ \A q \in Proc : forked'[q] => conf[q].daemon
    BY <1>3 DEF D!Close, DaemonInv, D!TypeOK, Background
  <2>. QED
    BY <1>3, <2>1, <2>2, QuietInstruction DEF D!Close
<1>. QED
  BY <1>1, <1>2, <1>3

LEMMA BindKeeps == ASSUME DaemonInv, NEW p \in Proc, D!Bind(p) PROVE DaemonInv'
<1>. DEFINE a == D!Arg(p)
<1>1. CASE listener[a] # {}
  BY <1>1, Leaving DEF D!Bind
<1>2. CASE listener[a] = {}
  <2>1. /\ D!At(p, "bind") /\ D!Proceed(p) /\ UNCHANGED << conf, mode, forked, file, kid >>
        /\ listener' = [listener EXCEPT ![a] = {<< p, "main" >>}]
    BY <1>2 DEF D!Bind
  <2>2. a \in D!AllPorts
    BY <2>1, Instructions, Arguments DEF DaemonInv, D!TypeOK
  <2>3. ~ Binds(p, a)
    BY <1>2, <2>2 DEF DaemonInv, Listening
  <2>4. /\ \A q \in Proc : q # p => step'[q] = step[q]
        /\ step' \in [Proc -> Nat \ {0}]
        /\ \A q \in Proc : mode[q] \in {"starting", "stopping"} => step'[q] <= Len(D!Program(q)') + 1
        /\ mode[p] # "idle"
        /\ \A f : Holds(p, f)' <=> Holds(p, f)
        /\ \A f : Opened(p, f)' <=> Opened(p, f)
        /\ \A pt : Binds(p, pt)' <=> Binds(p, pt) \/ pt = a
        /\ SoundAt(conf[p], mode[p], step[p]) => SoundAt(conf[p], mode[p], step'[p])
    BY <2>1, <2>3, Advance DEF DaemonInv
  <2>. HIDE DEF a
  <2>5. /\ listener' \in [D!AllPorts -> SUBSET (Proc \X {"main", "kid"})]
        /\ listener'[a] = {<< p, "main" >>}
        /\ \A pt \in D!AllPorts : pt # a => listener'[pt] = listener[pt]
    BY <2>1, <2>2 DEF DaemonInv, D!TypeOK
  <2>6. D!TypeOK'
    BY <2>1, <2>4, <2>5 DEF DaemonInv, D!TypeOK
  <2>7. Owned' /\ Kept' /\ OwnSockets'
    BY <2>1, <2>4, QuietFiles
  <2>8. Steps'
    BY <2>1, <2>4, QuietSteps DEF DaemonInv, Steps
  <2>9. Background'
    BY <2>1 DEF DaemonInv, Background
  <2>10. Listening'
    <3>1. ASSUME NEW pt \in D!AllPorts, NEW q \in Proc, NEW r \in Proc,
                 << q, "main" >> \in listener'[pt], << r, "main" >> \in listener'[pt]
          PROVE  q = r
      BY <2>5, <3>1 DEF DaemonInv, Listening
    <3>2. ASSUME NEW pt \in D!AllPorts, NEW q \in Proc, Binds(q, pt)' PROVE << q, "main" >> \in listener'[pt]
      <4>1. CASE q = p
        BY <2>4, <2>5, <3>2, <4>1 DEF DaemonInv, Listening
      <4>2. CASE q # p
        <5>1. Binds(q, pt)
          BY <2>1, <2>4, <3>2, <4>2 DEF Binds
        <5>2. << q, "main" >> \in listener[pt]
          BY <5>1 DEF DaemonInv, Listening
        <5>. QED
          BY <1>2, <2>5, <5>2 DEF a
      <4>. QED
        BY <4>1, <4>2
    <3>. QED
      BY <3>1, <3>2 DEF Listening
  <2>. QED
    BY <2>6, <2>7, <2>8, <2>9, <2>10 DEF DaemonInv
<1>. QED
  BY <1>1, <1>2

\* An instruction that changes the file it is about.
FileStep(p, op, v) ==
    /\ D!At(p, op) /\ D!Proceed(p) /\ UNCHANGED << conf, mode, forked, listener, kid >>
    /\ file' = [file EXCEPT ![D!Arg(p)] = v]

LEMMA FileStepRest ==
    ASSUME DaemonInv, NEW p \in Proc, NEW op \in {"create", "unix", "remove"}, NEW v \in {D!Free, D!Pid(p)},
           FileStep(p, op, v), D!Arg(p) \in D!AllFiles
    PROVE  /\ D!TypeOK' /\ Steps' /\ Background' /\ Listening'
           /\ file'[D!Arg(p)] = v /\ \A f \in D!AllFiles : f # D!Arg(p) => file'[f] = file[f]
           /\ \A f : Guarded(f)' <=> Guarded(f)
           /\ \A q \in Proc : Alone(q)' <=> Alone(q)
           /\ \A q \in Proc : q # p => \A f : (Holds(q, f)' <=> Holds(q, f)) /\ (Opened(q, f)' <=> Opened(q, f))
           /\ \A f : Holds(p, f)' <=> /\ Holds(p, f) \/ (op = "create" /\ f = D!Arg(p))
                                      /\ ~ (op = "remove" /\ f = D!Arg(p))
           /\ \A f : Opened(p, f)' <=> Opened(p, f) \/ (op = "unix" /\ f = D!Arg(p))
<1>1. /\ D!At(p, op) /\ D!Proceed(p) /\ UNCHANGED << conf, mode, forked, listener, kid >>
      /\ file' = [file EXCEPT ![D!Arg(p)] = v]
  BY DEF FileStep
<1>2. /\ \A q \in Proc : q # p => step'[q] = step[q]
      /\ step' \in [Proc -> Nat \ {0}]
      /\ \A q \in Proc : mode[q] \in {"starting", "stopping"} => step'[q] <= Len(D!Program(q)') + 1
      /\ mode[p] # "idle"
      /\ \A f : Holds(p, f)' <=> /\ Holds(p, f) \/ (op = "create" /\ f = D!Arg(p))
                                 /\ ~ (op = "remove" /\ f = D!Arg(p))
      /\ \A f : Opened(p, f)' <=> Opened(p, f) \/ (op = "unix" /\ f = D!Arg(p))
      /\ \A pt : Binds(p, pt)' <=> Binds(p, pt)
      /\ SoundAt(conf[p], mode[p], step[p]) => SoundAt(conf[p], mode[p], step'[p])
  BY <1>1, Advance DEF DaemonInv
<1>. DEFINE a == D!Arg(p)
<1>3. v \in {D!Free} \cup (Proc \X BOOLEAN)
  <2>1. forked[p] \in BOOLEAN
    BY DEF DaemonInv, D!TypeOK
  <2>2. D!Pid(p) \in Proc \X BOOLEAN
    BY <2>1, Zenon DEF D!Pid
  <2>. QED
    BY <2>2
<1>4. /\ file' \in [D!AllFiles -> {D!Free} \cup (Proc \X BOOLEAN)]
      /\ file'[a] = v /\ \A f \in D!AllFiles : f # a => file'[f] = file[f]
  BY <1>1, <1>3 DEF DaemonInv, D!TypeOK
<1>. HIDE DEF a
<1>5. D!TypeOK'
  BY <1>1, <1>2, <1>4 DEF DaemonInv, D!TypeOK
<1>6. Steps'
  BY <1>1, <1>2, QuietSteps DEF DaemonInv, Steps
<1>7. Listening'
  BY <1>1, <1>2, QuietPorts DEF DaemonInv, Listening
<1>8. Background'
  <2>1. ASSUME NEW f \in D!AllFiles, NEW q \in Proc, file'[f] = << q, TRUE >> PROVE conf[q].daemon
    <3>1. CASE f = a
      <4>1. v = << q, TRUE >>
        BY <1>4, <2>1, <3>1
      <4>2. v # D!Free
        BY <4>1, DaemonAssumption DEF D!Free
      <4>3. q = p /\ forked[p] = TRUE
        BY <4>1, <4>2 DEF D!Pid
      <4>. QED
        BY <4>3 DEF DaemonInv, Background
    <3>2. CASE f # a
      BY <1>4, <2>1, <3>2 DEF DaemonInv, Background
    <3>. QED
      BY <3>1, <3>2
  <2>. QED
    BY <1>1, <2>1 DEF DaemonInv, Background
<1>9. /\ \A f : Guarded(f)' <=> Guarded(f)
      /\ \A q \in Proc : Alone(q)' <=> Alone(q)
      /\ \A q \in Proc : q # p => \A f : (Holds(q, f)' <=> Holds(q, f)) /\ (Opened(q, f)' <=> Opened(q, f))
  BY <1>1, <1>2 DEF Guarded, Alone, D!Rivals, Holds, Opened
<1>. QED
  BY <1>2, <1>4, <1>5, <1>6, <1>7, <1>8, <1>9 DEF a

LEMMA CreateKeeps == ASSUME DaemonInv, NEW p \in Proc, D!Create(p) PROVE DaemonInv'
<1>. DEFINE a == D!Arg(p)
<1>1. CASE file[a] # D!Free
  BY <1>1, Leaving DEF D!Create
<1>2. CASE file[a] = D!Free
  <2>1. FileStep(p, "create", D!Pid(p))
    BY <1>2 DEF D!Create, FileStep
  <2>2. a \in Claimed(conf[p]) /\ mode[p] = "starting" /\ conf[p] \in Config
    BY <2>1, Instructions DEF FileStep, DaemonInv, D!TypeOK
  <2>3. a \in D!AllFiles /\ \A c \in Config : a \notin Sockets(c)
    BY <2>2, ClaimedFiles
  <2>4. /\ D!TypeOK' /\ Steps' /\ Background' /\ Listening'
        /\ file'[a] = D!Pid(p) /\ \A f \in D!AllFiles : f # a => file'[f] = file[f]
        /\ \A f : Guarded(f)' <=> Guarded(f)
        /\ \A q \in Proc : Alone(q)' <=> Alone(q)
        /\ \A q \in Proc : q # p => \A f : (Holds(q, f)' <=> Holds(q, f)) /\ (Opened(q, f)' <=> Opened(q, f))
        /\ \A f : Holds(p, f)' <=> Holds(p, f) \/ f = a
        /\ \A f : Opened(p, f)' <=> Opened(p, f)
    BY <2>1, <2>3, FileStepRest
  <2>5. /\ UNCHANGED << conf, mode >> /\ D!Pid(p)[1] = p
    BY <2>1 DEF FileStep, D!Pid
  <2>6. file[a][1] \notin Proc
    BY <1>2, DaemonAssumption DEF D!Free
  <2>. HIDE DEF a
  <2>7. Owned'
    <3>. SUFFICES ASSUME NEW f \in D!AllFiles, file'[f] # D!Free, \A c \in Config : f \notin Sockets(c)
                  PROVE  \E q \in Proc : /\ file'[f][1] = q /\ f \in Claimed(conf[q])
                                         /\ Holds(q, f)' \/ mode[q] = "failed"
      BY <2>5 DEF Owned
    <3>1. CASE f = a
      BY <2>2, <2>4, <2>5, <3>1
    <3>2. CASE f # a
      <4>1. PICK q \in Proc : /\ file[f][1] = q /\ f \in Claimed(conf[q])
                              /\ Holds(q, f) \/ mode[q] = "failed"
        BY <2>4, <3>2 DEF DaemonInv, Owned
      <4>. QED
        BY <2>4, <3>2, <4>1
    <3>. QED
      BY <3>1, <3>2
  <2>8. Kept'
    <3>. SUFFICES ASSUME NEW q \in Proc, NEW f \in D!AllFiles, Guarded(f), Holds(q, f)'
                  PROVE  file'[f][1] = q
      BY <2>4 DEF Kept
    <3>1. CASE f = a /\ q = p
      BY <2>4, <2>5, <3>1
    <3>2. CASE f # a \/ q # p
      <4>1. Holds(q, f)
        BY <2>4, <3>2
      <4>2. file[f][1] = q
        BY <4>1 DEF DaemonInv, Kept
      <4>3. f # a
        BY <2>6, <4>2
      <4>. QED
        BY <2>4, <4>2, <4>3
    <3>. QED
      BY <3>1, <3>2
  <2>9. OwnSockets'
    <3>. SUFFICES ASSUME NEW q \in Proc, NEW f \in D!AllFiles, Alone(q), Opened(q, f)'
                  PROVE  file'[f][1] = q
      BY <2>4 DEF OwnSockets
    <3>1. Opened(q, f)
      BY <2>4
    <3>2. f # a
      BY <2>3, <3>1 DEF Opened, OpenAt, DaemonInv, D!TypeOK
    <3>. QED
      BY <2>4, <3>1, <3>2 DEF DaemonInv, OwnSockets
  <2>. QED
    BY <2>4, <2>7, <2>8, <2>9 DEF DaemonInv
<1>. QED
  BY <1>1, <1>2

\* Who has a socket has everything it claims, and so has who takes one away.
LEMMA SocketUsers ==
    ASSUME DaemonInv, NEW p \in Proc
    PROVE  /\ \A f : Opened(p, f) => HoldsAll(p)
           /\ D!At(p, "unix") => HoldsAll(p)
           /\ D!At(p, "remove") /\ D!Arg(p) \in Sockets(conf[p]) => HoldsAll(p)
<1>. DEFINE c == conf[p]
            s == D!StartUp(c)
            t == D!Shutdown(c)
            n == step[p]
<1>1. D!TypeOK /\ c \in Config /\ n \in Nat \ {0}
  BY DEF DaemonInv, D!TypeOK
<1>2. ASSUME D!At(p, "unix") PROVE HoldsAll(p)
  <2>1. mode[p] = "starting"
    BY <1>1, <1>2, Instructions
  <2>2. n \in 1..Len(s) /\ s[n] = Op("unix", D!Arg(p))
    BY <1>1, <1>2, <2>1, AtFacts DEF Sequence
  <2>3. s[n].op # "create"
    BY <2>2, OpFields
  <2>. QED
    BY <1>1, <2>1, <2>2, <2>3, HoldsAllWhen
<1>3. ASSUME D!At(p, "remove"), D!Arg(p) \in Sockets(c) PROVE HoldsAll(p)
  <2>1. mode[p] = "stopping"
    BY <1>1, <1>3, Instructions
  <2>2. n \in 1..Len(t) /\ t[n] = Op("remove", D!Arg(p))
    BY <1>1, <1>3, <2>1, AtFacts DEF Sequence
  <2>3. t[n] \in Removes(Sockets(c))
    BY <1>3, <2>2 DEF Removes
  <2>. QED
    BY <1>1, <2>1, <2>2, <2>3, HoldsAllWhen
<1>4. ASSUME NEW f, Opened(p, f) PROVE HoldsAll(p)
  <2>1. CASE mode[p] = "serving"
    BY <1>1, <2>1, HoldsAllWhen
  <2>2. CASE mode[p] # "serving"
    <3>1. mode[p] = "starting" /\ Done(s, n, Op("unix", f))
      BY <1>4, <2>2 DEF Opened, OpenAt
    <3>2. PICK i \in 1..Len(s) : i < n /\ s[i] = Op("unix", f)
      BY <3>1 DEF Done
    <3>3. /\ s \in Seq(Instruction) /\ Ahead(s, Creates, Instruction \ Creates)
          /\ \A g \in Claimed(c) : Op("create", g) \in Elems(s)
      BY <1>1, StartUpProgram
    <3>4. \A g \in Claimed(c) : Op("create", g) \in Creates
      BY <1>1, ClaimedFiles DEF Creates
    <3>5. Len(s) \in Nat
      BY <3>3, LenProperties
    <3>. HIDE DEF s, n, c
    <3>6. s[i] \in Instruction \ Creates
      <4>1. s[i] \in Instruction
        BY <3>2, <3>3, ElementOfSeq
      <4>2. \A x \in Creates : x.op = "create"
        BY DEF Creates, Op
      <4>. QED
        BY <3>2, <4>1, <4>2, OpFields
    <3>7. ASSUME NEW g \in Claimed(c) PROVE Done(s, n, Op("create", g))
      <4>1. PICK j \in 1..Len(s) : s[j] = Op("create", g)
        BY <3>3 DEF Elems
      <4>2. j < i
        BY <3>2, <3>3, <3>4, <3>6, <4>1 DEF Ahead
      <4>3. j < n
        BY <1>1, <3>2, <3>5, <4>2
      <4>. QED
        BY <4>1, <4>3 DEF Done
    <3>. QED
      BY <3>1, <3>7 DEF HoldsAll, Holds, HoldsAt, s, n, c
  <2>. QED
    BY <2>1, <2>2
<1>. QED
  BY <1>2, <1>3, <1>4

LEMMA BindUnixKeeps == ASSUME DaemonInv, NEW p \in Proc, D!BindUnix(p) PROVE DaemonInv'
<1>. DEFINE a == D!Arg(p)
<1>1. FileStep(p, "unix", D!Pid(p)) /\ D!At(p, "unix")
  BY DEF D!BindUnix, FileStep
<1>2. a \in Sockets(conf[p]) /\ conf[p] \in Config /\ HoldsAll(p)
  BY <1>1, Instructions, SocketUsers DEF DaemonInv, D!TypeOK
<1>3. a \in D!AllFiles /\ \A c \in Config : a \notin Claimed(c)
  BY <1>2, ClaimedFiles
<1>4. /\ D!TypeOK' /\ Steps' /\ Background' /\ Listening'
      /\ file'[a] = D!Pid(p) /\ \A f \in D!AllFiles : f # a => file'[f] = file[f]
      /\ \A f : Guarded(f)' <=> Guarded(f)
      /\ \A q \in Proc : Alone(q)' <=> Alone(q)
      /\ \A q \in Proc : q # p => \A f : (Holds(q, f)' <=> Holds(q, f)) /\ (Opened(q, f)' <=> Opened(q, f))
      /\ \A f : Holds(p, f)' <=> Holds(p, f)
      /\ \A f : Opened(p, f)' <=> Opened(p, f) \/ f = a
  BY <1>1, <1>3, FileStepRest
<1>5. UNCHANGED << conf, mode >> /\ D!Pid(p)[1] = p
  BY <1>1 DEF FileStep, D!Pid
<1>. HIDE DEF a
<1>6. Owned'
  <2>. SUFFICES ASSUME NEW f \in D!AllFiles, file'[f] # D!Free, \A c \in Config : f \notin Sockets(c)
                PROVE  \E q \in Proc : /\ file'[f][1] = q /\ f \in Claimed(conf[q])
                                       /\ Holds(q, f)' \/ mode[q] = "failed"
    BY <1>5 DEF Owned
  <2>1. f # a
    BY <1>2
  <2>2. PICK q \in Proc : /\ file[f][1] = q /\ f \in Claimed(conf[q])
                          /\ Holds(q, f) \/ mode[q] = "failed"
    BY <1>4, <2>1 DEF DaemonInv, Owned
  <2>. QED
    BY <1>4, <2>1, <2>2
<1>7. Kept'
  <2>. SUFFICES ASSUME NEW q \in Proc, NEW f \in D!AllFiles, Guarded(f), Holds(q, f)'
                PROVE  file'[f][1] = q
    BY <1>4 DEF Kept
  <2>1. Holds(q, f)
    BY <1>4
  <2>2. f # a
    BY <1>3, <2>1 DEF Holds, HoldsAt, DaemonInv, D!TypeOK
  <2>. QED
    BY <1>4, <2>1, <2>2 DEF DaemonInv, Kept
<1>8. OwnSockets'
  <2>. SUFFICES ASSUME NEW q \in Proc, NEW f \in D!AllFiles, Alone(q), Opened(q, f)'
                PROVE  file'[f][1] = q
    BY <1>4 DEF OwnSockets
  <2>1. CASE q = p /\ f = a
    BY <1>4, <1>5, <2>1
  <2>2. CASE q = p /\ f # a
    BY <1>4, <2>2 DEF DaemonInv, OwnSockets
  <2>3. CASE q # p
    <3>1. Opened(q, f)
      BY <1>4, <2>3
    <3>2. HoldsAll(q)
      BY <3>1, SocketUsers
    <3>. QED
      BY <1>2, <2>3, <3>2, KeptApart
  <2>. QED
    BY <2>1, <2>2, <2>3
<1>. QED
  BY <1>4, <1>6, <1>7, <1>8 DEF DaemonInv

LEMMA RemoveKeeps == ASSUME DaemonInv, NEW p \in Proc, D!Remove(p) PROVE DaemonInv'
<1>. DEFINE a == D!Arg(p)
            c == conf[p]
<1>1. FileStep(p, "remove", D!Free) /\ D!At(p, "remove")
  BY DEF D!Remove, FileStep
<1>2. /\ c \in Config /\ mode[p] = "stopping" /\ D!TypeOK
      /\ \/ a \in Sockets(c) \cup Claimed(c)
         \/ c.console # "none" /\ a = D!Lockfile(c.console)
  BY <1>1, Instructions DEF DaemonInv, D!TypeOK
<1>3. a \in D!AllFiles
  BY <1>2, ClaimedFiles, Arguments
<1>4. /\ D!TypeOK' /\ Steps' /\ Background' /\ Listening'
      /\ file'[a] = D!Free /\ \A f \in D!AllFiles : f # a => file'[f] = file[f]
      /\ \A f : Guarded(f)' <=> Guarded(f)
      /\ \A q \in Proc : Alone(q)' <=> Alone(q)
      /\ \A q \in Proc : q # p => \A f : (Holds(q, f)' <=> Holds(q, f)) /\ (Opened(q, f)' <=> Opened(q, f))
      /\ \A f : Holds(p, f)' <=> Holds(p, f) /\ f # a
      /\ \A f : Opened(p, f)' <=> Opened(p, f)
  BY <1>1, <1>3, FileStepRest
<1>5. UNCHANGED << conf, mode >>
  BY <1>1 DEF FileStep
<1>6. Distinct(c)
  BY <1>2 DEF DaemonInv, Steps, SoundAt
\* What a process removes that it claimed it has not removed before.
<1>7. a \in Claimed(c) => Holds(p, a)
  <2>. SUFFICES ASSUME a \in Claimed(c), Done(D!Shutdown(c), step[p], Op("remove", a)) PROVE FALSE
    BY <1>2 DEF Holds, HoldsAt
  <2>. DEFINE t == D!Shutdown(c)
              n == step[p]
  <2>1. n \in 1..Len(t) /\ t[n] = Op("remove", a)
    BY <1>1, <1>2, AtFacts DEF Sequence
  <2>2. PICK i \in 1..Len(t) : i < n /\ t[i] = Op("remove", a)
    BY DEF Done
  <2>3. Once(t, Op("remove", a)) /\ t \in Seq(Instruction)
    BY <1>2, <1>6, ShutdownProgram
  <2>4. i = n
    BY <2>1, <2>2, <2>3 DEF Once
  <2>5. n \in Nat
    BY <1>2 DEF D!TypeOK
  <2>. QED
    BY <2>2, <2>4, <2>5
<1>8. a \in Sockets(c) => HoldsAll(p)
  BY <1>1, SocketUsers
<1>. HIDE DEF a
<1>9. Owned'
  <2>. SUFFICES ASSUME NEW f \in D!AllFiles, file'[f] # D!Free, \A d \in Config : f \notin Sockets(d)
                PROVE  \E q \in Proc : /\ file'[f][1] = q /\ f \in Claimed(conf[q])
                                       /\ Holds(q, f)' \/ mode[q] = "failed"
    BY <1>5 DEF Owned
  <2>1. f # a
    BY <1>4
  <2>2. PICK q \in Proc : /\ file[f][1] = q /\ f \in Claimed(conf[q])
                          /\ Holds(q, f) \/ mode[q] = "failed"
    BY <1>4, <2>1 DEF DaemonInv, Owned
  <2>. QED
    BY <1>4, <2>1, <2>2
<1>10. Kept'
  <2>. SUFFICES ASSUME NEW q \in Proc, NEW f \in D!AllFiles, Guarded(f), Holds(q, f)'
                PROVE  file'[f][1] = q
    BY <1>4 DEF Kept
  <2>1. Holds(q, f)
    BY <1>4
  <2>2. file[f][1] = q
    BY <2>1 DEF DaemonInv, Kept
  <2>3. f # a
    <3>. SUFFICES ASSUME f = a PROVE FALSE
      OBVIOUS
    <3>1. q # p
      BY <1>4
    <3>2. f \in Claimed(conf[q]) /\ conf[q] \in Config
      BY <1>2, <2>1 DEF Holds, HoldsAt, D!TypeOK
    <3>3. a \notin Sockets(c)
      BY <1>2, <3>2, ClaimedFiles
    <3>4. a \in Claimed(c)
      BY <1>2, <1>6, <3>3 DEF Guarded
    <3>5. file[f][1] = p
      BY <1>7, <3>4 DEF DaemonInv, Kept
    <3>. QED
      BY <2>2, <3>1, <3>5
  <2>. QED
    BY <1>4, <2>2, <2>3
<1>11. OwnSockets'
  <2>. SUFFICES ASSUME NEW q \in Proc, NEW f \in D!AllFiles, Alone(q), Opened(q, f)'
                PROVE  file'[f][1] = q
    BY <1>4 DEF OwnSockets
  <2>1. Opened(q, f)
    BY <1>4
  <2>2. file[f][1] = q
    BY <2>1 DEF DaemonInv, OwnSockets
  <2>3. f # a
    <3>. SUFFICES ASSUME f = a PROVE FALSE
      OBVIOUS
    <3>1. f \in Sockets(conf[q]) /\ conf[q] \in Config /\ mode[q] # "stopping"
      BY <1>2, <2>1 DEF Opened, OpenAt, D!TypeOK
    <3>2. q # p
      BY <1>2, <3>1
    <3>3. a \in Sockets(c)
      BY <1>2, <3>1, ClaimedFiles, FileNames
    <3>4. HoldsAll(p) /\ HoldsAll(q)
      BY <1>8, <2>1, <3>3, SocketUsers
    <3>. QED
      BY <3>2, <3>4, KeptApart
  <2>. QED
    BY <1>4, <2>2, <2>3
<1>. QED
  BY <1>4, <1>9, <1>10, <1>11 DEF DaemonInv

\* Files are deleted by hand while nobody runs.
LEMMA CleanUpKeeps == ASSUME DaemonInv, NEW p \in Proc, D!CleanUp(p) PROVE DaemonInv'
<1>1. /\ mode[p] = "failed" /\ UNCHANGED << conf, step, forked, listener, kid >>
      /\ \A q \in Proc : mode[q] \in {"idle", "stopped", "failed"}
      /\ mode'[p] = "stopped" /\ (\A q \in Proc : q # p => mode'[q] = mode[q])
      /\ mode' \in [Proc -> Modes]
      /\ file' = [f \in D!AllFiles |-> IF file[f][1] = p THEN D!Free ELSE file[f]]
  BY DEF D!CleanUp, DaemonInv, D!TypeOK, Modes
<1>2. \A q \in Proc : mode'[q] \in {"idle", "stopped", "failed"}
  BY <1>1
<1>3. \A q \in Proc : \A f : /\ ~ Holds(q, f)' /\ ~ Opened(q, f)' /\ ~ Binds(q, f)'
                            /\ ~ Holds(q, f) /\ ~ Opened(q, f) /\ ~ Binds(q, f)
  BY <1>1, <1>2 DEF Holds, Opened, Binds, HoldsAt, OpenAt, BoundAt
<1>4. /\ \A f \in D!AllFiles : file'[f] = IF file[f][1] = p THEN D!Free ELSE file[f]
      /\ file' \in [D!AllFiles -> {D!Free} \cup (Proc \X BOOLEAN)]
  BY <1>1 DEF DaemonInv, D!TypeOK
<1>5. D!TypeOK'
  BY <1>1, <1>2, <1>4 DEF DaemonInv, D!TypeOK, Modes
<1>6. Steps'
  BY <1>1, QuietSteps DEF SoundAt
<1>7. Background'
  <2>1. ASSUME NEW f \in D!AllFiles, NEW q \in Proc, file'[f] = << q, TRUE >> PROVE conf[q].daemon
    <3>1. file'[f] # D!Free
      BY <2>1, DaemonAssumption DEF D!Free
    <3>2. file[f] = << q, TRUE >>
      BY <1>4, <2>1, <3>1
    <3>. QED
      BY <3>2 DEF DaemonInv, Background
  <2>. QED
    BY <1>1, <2>1 DEF DaemonInv, Background
<1>8. Owned'
  <2>. SUFFICES ASSUME NEW f \in D!AllFiles, file'[f] # D!Free, \A d \in Config : f \notin Sockets(d)
                PROVE  \E q \in Proc : /\ file'[f][1] = q /\ f \in Claimed(conf[q])
                                       /\ mode'[q] = "failed"
    BY <1>1 DEF Owned
  <2>1. file'[f] = file[f] /\ file[f][1] # p
    BY <1>4
  <2>2. PICK q \in Proc : /\ file[f][1] = q /\ f \in Claimed(conf[q])
                          /\ Holds(q, f) \/ mode[q] = "failed"
    BY <2>1 DEF DaemonInv, Owned
  <2>. QED
    BY <1>1, <1>3, <2>1, <2>2
<1>9. Kept' /\ OwnSockets'
  BY <1>3 DEF Kept, OwnSockets
<1>10. Listening'
  BY <1>1, <1>3, QuietPorts
<1>. QED
  BY <1>5, <1>6, <1>7, <1>8, <1>9, <1>10 DEF DaemonInv

LEMMA StepDaemon == ASSUME DaemonInv, D!Next PROVE DaemonInv'
<1>. PICK p \in Proc :
        \/ D!Start(p) \/ D!Create(p) \/ D!Check(p) \/ D!Daemonize(p) \/ D!BindUnix(p) \/ D!Bind(p)
        \/ D!Started(p) \/ D!Stop(p) \/ D!Close(p) \/ D!Remove(p) \/ D!Stopped(p) \/ D!Crash(p)
        \/ D!Fork(p) \/ D!ShutdownPorts(p) \/ D!KidEnds(p) \/ D!Again(p) \/ D!CleanUp(p)
  BY DEF D!Next
<1>1. CASE D!Start(p) \/ D!Started(p) \/ D!Stop(p)
  BY <1>1, StartKeeps, StartedKeeps, StopKeeps
<1>2. CASE D!Create(p) \/ D!BindUnix(p) \/ D!Remove(p)
  BY <1>2, CreateKeeps, BindUnixKeeps, RemoveKeeps
<1>3. CASE D!Check(p) \/ D!Daemonize(p) \/ D!Close(p) \/ D!Bind(p)
  BY <1>3, PreparesKeeps, BindKeeps
<1>4. CASE D!Stopped(p) \/ D!Crash(p)
  BY <1>4, EndKeeps
<1>5. CASE D!Fork(p) \/ D!ShutdownPorts(p) \/ D!KidEnds(p)
  BY <1>5, KidKeeps
<1>6. CASE D!Again(p) \/ D!CleanUp(p)
  BY <1>6, AgainKeeps, CleanUpKeeps
<1>. QED
  BY <1>1, <1>2, <1>3, <1>4, <1>5, <1>6

LEMMA StutterDaemon == ASSUME DaemonInv, UNCHANGED DaemonVars PROVE DaemonInv'
<1>. conf' = conf /\ mode' = mode /\ step' = step /\ forked' = forked /\ file' = file
         /\ listener' = listener /\ kid' = kid
  BY DEF DaemonVars
<1>1. \A q \in Proc : \A f : (Holds(q, f)' <=> Holds(q, f)) /\ (Opened(q, f)' <=> Opened(q, f))
                                /\ (Binds(q, f)' <=> Binds(q, f))
  <2>1. \A q \in Proc : conf'[q] = conf[q] /\ mode'[q] = mode[q] /\ step'[q] = step[q]
    OBVIOUS
  <2>. QED
    BY <2>1 DEF Holds, Opened, Binds
<1>2. D!TypeOK'
  <2>1. \A q \in Proc : D!Program(q)' = D!Program(q)
    BY DEF D!Program
  <2>. QED
    BY <2>1 DEF DaemonInv, D!TypeOK
<1>3. \A q \in Proc : Alone(q)' <=> Alone(q)
  BY DEF Alone, D!Rivals
<1>4. \A f : Guarded(f)' <=> Guarded(f)
  BY DEF Guarded
<1>5. Steps' /\ Background'
  BY DEF DaemonInv, Steps, Background
<1>6. CASE Proc = {}
  BY <1>2, <1>5, <1>6 DEF DaemonInv, Owned, Kept, OwnSockets, Listening
<1>7. CASE Proc # {}
  <2>1. PICK p \in Proc : TRUE
    BY <1>7
  <2>. \A q \in Proc : q # p => mode'[q] = mode[q] /\ step'[q] = step[q]
    OBVIOUS
  <2>2. Owned' /\ Kept' /\ OwnSockets'
    BY <1>1, QuietFiles
  <2>3. Listening'
    BY <1>1, QuietPorts DEF DaemonInv, Listening
  <2>. QED
    BY <1>2, <1>5, <2>2, <2>3 DEF DaemonInv
<1>. QED
  BY <1>6, <1>7

\* Who has a listening socket open: a process that runs, on a port of its own, or its child,
\* which has closed two of them.
Tied ==
    \A pt \in D!AllPorts : \A p \in Proc :
        /\ << p, "main" >> \in listener[pt] =>
               mode[p] \in {"starting", "serving", "stopping"} /\ pt \in D!Port(conf[p])
        /\ << p, "kid" >> \in listener[pt] =>
               /\ kid[p] # "none" /\ pt \in D!Port(conf[p])
               /\ kid[p] = "serving" => pt \notin {conf[p].metrics, conf[p].management}

\* A step that opens no listening socket and ends no process that has one.
LEMMA TiedStays ==
    ASSUME Tied, conf' = conf, kid' = kid,
           \A pt \in D!AllPorts : listener'[pt] \subseteq listener[pt],
           \A q \in Proc : \/ mode'[q] \in {"starting", "serving", "stopping"}
                           \/ mode'[q] = mode[q]
                           \/ \A pt \in D!AllPorts : << q, "main" >> \notin listener'[pt]
    PROVE  Tied'
BY DEF Tied

LEMMA LeaveUnties ==
    ASSUME D!TypeOK, Tied, NEW p \in Proc, NEW how, D!Leave(p, how), UNCHANGED << conf, kid >>
    PROVE  Tied'
<1>1. /\ \A pt \in D!AllPorts : listener'[pt] = listener[pt] \ {<< p, "main" >>}
      /\ \A q \in Proc : q # p => mode'[q] = mode[q]
  BY DEF D!Leave, D!TypeOK
<1>. QED
  BY <1>1, TiedStays

LEMMA StepTied == ASSUME DaemonInv, Tied, D!Next PROVE Tied'
<1>. D!TypeOK
  BY DEF DaemonInv
<1>. PICK p \in Proc :
        \/ D!Start(p) \/ D!Create(p) \/ D!Check(p) \/ D!Daemonize(p) \/ D!BindUnix(p) \/ D!Bind(p)
        \/ D!Started(p) \/ D!Stop(p) \/ D!Close(p) \/ D!Remove(p) \/ D!Stopped(p) \/ D!Crash(p)
        \/ D!Fork(p) \/ D!ShutdownPorts(p) \/ D!KidEnds(p) \/ D!Again(p) \/ D!CleanUp(p)
  BY DEF D!Next
<1>1. CASE D!Start(p) \/ D!Started(p) \/ D!Stop(p)
  <2>1. /\ UNCHANGED << conf, kid, listener >>
        /\ \A q \in Proc : mode'[q] \in {"starting", "serving", "stopping"} \/ mode'[q] = mode[q]
    BY <1>1 DEF D!Start, D!Started, D!Stop, D!TypeOK
  <2>. QED
    BY <2>1, TiedStays
<1>2. CASE D!Create(p) \/ D!Check(p)
  <2>1. \/ UNCHANGED << conf, kid, mode, listener >>
        \/ D!Leave(p, "failed") /\ UNCHANGED << conf, kid >>
    BY <1>2 DEF D!Create, D!Check
  <2>. QED
    BY <2>1, TiedStays, LeaveUnties
<1>3. CASE D!Daemonize(p) \/ D!BindUnix(p) \/ D!Remove(p)
  BY <1>3, TiedStays DEF D!Daemonize, D!BindUnix, D!Remove
<1>4. CASE D!Bind(p)
  <2>. DEFINE a == D!Arg(p)
  <2>1. CASE listener[a] # {}
    BY <1>4, <2>1, LeaveUnties DEF D!Bind
  <2>2. CASE listener[a] = {}
    <3>1. /\ D!At(p, "bind") /\ UNCHANGED << conf, mode, kid >>
          /\ listener' = [listener EXCEPT ![a] = {<< p, "main" >>}]
      BY <1>4, <2>2 DEF D!Bind
    <3>2. mode[p] = "starting" /\ a \in D!Port(conf[p])
      BY <3>1, Instructions
    <3>. HIDE DEF a
    <3>3. \A pt \in D!AllPorts : listener'[pt] = IF pt = a THEN {<< p, "main" >>} ELSE listener[pt]
      BY <3>1 DEF D!TypeOK
    <3>4. \A pt \in D!AllPorts : \A q \in Proc :
              /\ << q, "main" >> \in listener'[pt] => (q = p /\ pt = a) \/ << q, "main" >> \in listener[pt]
              /\ << q, "kid" >> \in listener'[pt] => << q, "kid" >> \in listener[pt]
      BY <3>3
    <3>. QED
      BY <3>1, <3>2, <3>4 DEF Tied
  <2>. QED
    BY <2>1, <2>2
<1>5. CASE D!Close(p)
  <2>1. /\ \A pt \in D!AllPorts : listener'[pt] \subseteq listener[pt]
        /\ UNCHANGED << conf, mode, kid >>
    BY <1>5 DEF D!Close, D!TypeOK
  <2>. QED
    BY <2>1, TiedStays
<1>6. CASE D!Stopped(p) \/ D!Crash(p)
  BY <1>6, LeaveUnties DEF D!Stopped, D!Crash
<1>7. CASE D!Fork(p)
  <2>1. /\ UNCHANGED << conf, mode >> /\ kid'[p] = "new" /\ \A q \in Proc : q # p => kid'[q] = kid[q]
        /\ \A pt \in D!AllPorts : listener'[pt] = IF << p, "main" >> \in listener[pt]
                                                    THEN listener[pt] \cup {<< p, "kid" >>} ELSE listener[pt]
    BY <1>7 DEF D!Fork, D!TypeOK
  <2>2. \A pt \in D!AllPorts : \A q \in Proc :
            /\ << q, "main" >> \in listener'[pt] => << q, "main" >> \in listener[pt]
            /\ << q, "kid" >> \in listener'[pt] =>
                   (q = p /\ << p, "main" >> \in listener[pt]) \/ << q, "kid" >> \in listener[pt]
    <3>1. SUFFICES ASSUME NEW pt \in D!AllPorts, NEW q \in Proc
                   PROVE  /\ << q, "main" >> \in listener'[pt] => << q, "main" >> \in listener[pt]
                          /\ << q, "kid" >> \in listener'[pt] =>
                                 (q = p /\ << p, "main" >> \in listener[pt]) \/ << q, "kid" >> \in listener[pt]
      OBVIOUS
    <3>2. << q, "main" >> # << p, "kid" >> /\ (<< q, "kid" >> = << p, "kid" >> => q = p)
      OBVIOUS
    <3>3. CASE << p, "main" >> \in listener[pt]
      <4>1. listener'[pt] = listener[pt] \cup {<< p, "kid" >>}
        BY <2>1, <3>3
      <4>. QED
        BY <3>2, <3>3, <4>1, Zenon
    <3>4. CASE << p, "main" >> \notin listener[pt]
      <4>1. listener'[pt] = listener[pt]
        BY <2>1, <3>4
      <4>. QED
        BY <4>1, Zenon
    <3>. QED
      BY <3>3, <3>4
  <2>. QED
    BY <2>1, <2>2 DEF Tied
<1>8. CASE D!ShutdownPorts(p)
  <2>1. /\ UNCHANGED << conf, mode >> /\ kid'[p] = "serving" /\ \A q \in Proc : q # p => kid'[q] = kid[q]
        /\ kid[p] = "new"
        /\ \A pt \in D!AllPorts : listener'[pt] = IF pt \in {conf[p].metrics, conf[p].management}
                                                    THEN listener[pt] \ {<< p, "kid" >>} ELSE listener[pt]
    BY <1>8 DEF D!ShutdownPorts, D!TypeOK
  <2>2. \A pt \in D!AllPorts : \A q \in Proc :
            /\ << q, "main" >> \in listener'[pt] => << q, "main" >> \in listener[pt]
            /\ << q, "kid" >> \in listener'[pt] =>
                   /\ << q, "kid" >> \in listener[pt]
                   /\ q = p => pt \notin {conf[p].metrics, conf[p].management}
    BY <2>1
  <2>. QED
    BY <2>1, <2>2 DEF Tied
<1>9. CASE D!KidEnds(p)
  <2>1. /\ UNCHANGED << conf, mode >> /\ \A q \in Proc : q # p => kid'[q] = kid[q]
        /\ \A pt \in D!AllPorts : listener'[pt] = listener[pt] \ {<< p, "kid" >>}
    BY <1>9 DEF D!KidEnds, D!TypeOK
  <2>2. \A pt \in D!AllPorts : \A q \in Proc :
            /\ << q, "main" >> \in listener'[pt] => << q, "main" >> \in listener[pt]
            /\ << q, "kid" >> \in listener'[pt] => << q, "kid" >> \in listener[pt] /\ q # p
    BY <2>1
  <2>. QED
    BY <2>1, <2>2 DEF Tied
<1>10. CASE D!Again(p) \/ D!CleanUp(p)
  <2>1. /\ UNCHANGED << conf, kid, listener >> /\ mode[p] \in {"stopped", "failed"}
        /\ \A q \in Proc : q # p => mode'[q] = mode[q]
    BY <1>10 DEF D!Again, D!CleanUp, D!TypeOK
  <2>2. \A pt \in D!AllPorts : << p, "main" >> \notin listener[pt]
    BY <2>1 DEF Tied
  <2>. QED
    BY <2>1, <2>2, TiedStays
<1>. QED
  BY <1>1, <1>2, <1>3, <1>4, <1>5, <1>6, <1>7, <1>8, <1>9, <1>10

\* The lock file of a port that is nobody's console is guarded once its owner serves.
LEMMA LockGuarded ==
    ASSUME D!TypeOK, NEW p \in Proc, Distinct(conf[p]), NEW f \in Claimed(conf[p]),
           \A q \in Proc \ {p} : conf[q].console \notin D!LockedPorts(conf[p])
    PROVE  Guarded(f)
<1>. SUFFICES ASSUME NEW q \in Proc, conf[q].console # "none", f = D!Lockfile(conf[q].console)
              PROVE  FALSE
  BY DEF Guarded
<1>1. f # D!Pidfile(conf[p])
  BY FileNames
<1>2. PICK pt \in D!LockedPorts(conf[p]) : f = D!Lockfile(pt)
  BY <1>1 DEF Claimed
<1>3. conf[q].console \in D!LockedPorts(conf[p])
  BY <1>2, FileNames
<1>. QED
  BY <1>3 DEF Distinct, D!LockedPorts, D!None

LEMMA DaemonSafety == DaemonInv /\ Tied => InstancesApart
<1>. SUFFICES ASSUME DaemonInv, Tied PROVE InstancesApart
  OBVIOUS
<1>1. D!TypeOK
  BY DEF DaemonInv
<1>6. ASSUME NEW p \in Proc, mode[p] = "serving"
      PROVE  /\ conf[p] \in Config /\ HoldsAll(p) /\ Distinct(conf[p])
             /\ D!Pidfile(conf[p]) \in Claimed(conf[p]) /\ D!Pidfile(conf[p]) \in D!AllFiles
             /\ file[D!Pidfile(conf[p])][1] = p
             /\ \A pt \in D!Port(conf[p]) : pt \in D!AllPorts /\ << p, "main" >> \in listener[pt]
  <2>1. conf[p] \in Config /\ HoldsAll(p) /\ Distinct(conf[p])
    BY <1>1, <1>6, HoldsAllWhen DEF D!TypeOK, DaemonInv, Steps, SoundAt
  <2>. DEFINE f == D!Pidfile(conf[p])
  <2>2. f \in Claimed(conf[p]) /\ f \in D!AllFiles /\ Guarded(f)
    BY <2>1, Arguments, FileNames DEF Claimed, Guarded
  <2>3. file[f][1] = p
    BY <2>1, <2>2 DEF HoldsAll, DaemonInv, Kept
  <2>4. \A pt \in D!Port(conf[p]) : pt \in D!AllPorts /\ << p, "main" >> \in listener[pt]
    BY <1>6, <2>1, Arguments DEF Binds, BoundAt, DaemonInv, Listening
  <2>. QED
    BY <2>1, <2>2, <2>3, <2>4
<1>2. D!OneServes
  <2>. SUFFICES ASSUME NEW p \in Proc, NEW q \in Proc, p # q, D!Contend(p, q),
                       mode[p] = "serving", mode[q] = "serving"
                PROVE  FALSE
    BY DEF D!OneServes, D!Serving
  <2>1. CASE conf[p].pidfile = conf[q].pidfile
    <3>1. D!Pidfile(conf[p]) = D!Pidfile(conf[q])
      BY <2>1 DEF D!Pidfile
    <3>. QED
      BY <1>6, <3>1
  <2>2. CASE D!Port(conf[p]) \cap D!Port(conf[q]) # {}
    <3>1. PICK pt : pt \in D!Port(conf[p]) /\ pt \in D!Port(conf[q])
      BY <2>2
    <3>. QED
      BY <1>6, <3>1 DEF DaemonInv, Listening
  <2>. QED
    BY <2>1, <2>2 DEF D!Contend
<1>3. D!ServingKeepsItsOwn
  <2>. SUFFICES ASSUME NEW p \in Proc, mode[p] = "serving"
                PROVE  /\ file[D!Pidfile(conf[p])][1] = p
                       /\ \A pt \in D!Port(conf[p]) : << p, "main" >> \in listener[pt]
                       /\ (\A q \in Proc \ {p} : conf[q].console \notin D!LockedPorts(conf[p])) =>
                              \A pt \in D!LockedPorts(conf[p]) : file[D!Lockfile(pt)][1] = p
                       /\ Alone(p) => \A s \in {"main", "transfer"} : file[D!Socket(conf[p], s)][1] = p
    BY DEF D!ServingKeepsItsOwn, D!Serving, Alone
  <2>1. ASSUME \A q \in Proc \ {p} : conf[q].console \notin D!LockedPorts(conf[p]),
               NEW pt \in D!LockedPorts(conf[p])
        PROVE  file[D!Lockfile(pt)][1] = p
    <3>. DEFINE f == D!Lockfile(pt)
    <3>1. f \in Claimed(conf[p])
      BY DEF Claimed
    <3>2. f \in D!AllFiles /\ Guarded(f) /\ Holds(p, f)
      BY <1>1, <1>6, <2>1, <3>1, ClaimedFiles, LockGuarded DEF HoldsAll
    <3>. QED
      BY <3>2 DEF DaemonInv, Kept
  <2>2. Alone(p) => \A f \in Sockets(conf[p]) : file[f][1] = p
    BY <1>6, ClaimedFiles DEF Opened, OpenAt, DaemonInv, OwnSockets
  <2>. QED
    BY <1>6, <2>1, <2>2 DEF Sockets
<1>4. D!PidfileNamesServer
  <2>. SUFFICES ASSUME NEW p \in Proc, mode[p] = "serving", ~ conf[p].daemon
                PROVE  file[D!Pidfile(conf[p])] = D!Pid(p)
    BY DEF D!PidfileNamesServer, D!Serving
  <2>. DEFINE f == D!Pidfile(conf[p])
  <2>2. f \in D!AllFiles /\ file[f][1] = p
    BY <1>6
  <2>4. file[f] \in {D!Free} \cup (Proc \X BOOLEAN)
    BY <1>1, <2>2 DEF D!TypeOK
  <2>. HIDE DEF f
  <2>5. file[f] \in Proc \X BOOLEAN
    <3>1. D!Free[1] = "nobody"
      BY DEF D!Free
    <3>2. file[f] # D!Free
      BY <2>2, <3>1, DaemonAssumption
    <3>. QED
      BY <2>4, <3>2
  <2>6. PICK b \in BOOLEAN : file[f] = << p, b >>
    BY <2>2, <2>5
  <2>7. b = FALSE
    BY <2>2, <2>6 DEF DaemonInv, Background
  <2>8. forked[p] = FALSE
    BY <1>1 DEF DaemonInv, Background, D!TypeOK
  <2>. QED
    BY <2>6, <2>7, <2>8 DEF D!Pid, f
<1>5. D!NothingLeftBehind
  <2>. SUFFICES ASSUME \A q \in Proc : mode[q] \in {"idle", "stopped"}
                PROVE  /\ \A p \in Proc : \A f \in {D!Pidfile(conf[p])} \cup {D!Lockfile(pt) : pt \in D!Port(conf[p])} :
                              file[f] = D!Free
                       /\ \A pt \in D!AllPorts : \A l \in listener[pt] :
                              /\ l[2] = "kid" /\ kid[l[1]] # "none" /\ pt \in D!Port(conf[l[1]])
                              /\ kid[l[1]] = "serving" =>
                                     pt \notin {conf[l[1]].metrics, conf[l[1]].management}
    BY DEF D!NothingLeftBehind
  <2>1. ASSUME NEW p \in Proc,
               NEW f \in {D!Pidfile(conf[p])} \cup {D!Lockfile(pt) : pt \in D!Port(conf[p])}
        PROVE  file[f] = D!Free
    <3>. SUFFICES ASSUME file[f] # D!Free PROVE FALSE
      OBVIOUS
    <3>1. f \in D!AllFiles /\ \A c \in Config : f \notin Sockets(c)
      BY <1>1, Arguments, FileNames DEF D!TypeOK
    <3>2. PICK q \in Proc : Holds(q, f) \/ mode[q] = "failed"
      BY <3>1 DEF DaemonInv, Owned
    <3>. QED
      BY <3>2 DEF Holds, HoldsAt
  <2>2. ASSUME NEW pt \in D!AllPorts, NEW l \in listener[pt]
        PROVE  /\ l[2] = "kid" /\ kid[l[1]] # "none" /\ pt \in D!Port(conf[l[1]])
               /\ kid[l[1]] = "serving" => pt \notin {conf[l[1]].metrics, conf[l[1]].management}
    <3>1. l \in Proc \X {"main", "kid"}
      BY <1>1 DEF D!TypeOK
    <3>2. PICK q \in Proc, w \in {"main", "kid"} : l = << q, w >>
      BY <3>1
    <3>3. w # "main"
      BY <3>2 DEF Tied
    <3>. QED
      BY <3>2, <3>3 DEF Tied
  <2>. QED
    BY <2>1, <2>2
<1>. QED
  BY <1>1, <1>2, <1>3, <1>4, <1>5 DEF InstancesApart

\* For any number of processes, configurations, forks and failures between two steps of main:
\* of processes that share a pidfile or any port at most one serves (create_pidfile,
\* create_lockfile, pgexporter_bind); whoever else starts, fails or stops takes neither its
\* pidfile nor a port away from it, nor a lock file that is not the one of a console, nor its
\* sockets if the others are rivals; the pidfile names the one that serves; and orderly stops
\* leave no pidfile and no lock file (remove_pidfile, remove_lockfile), and no listening
\* socket but those that a child which is still there has inherited and not closed.
THEOREM InstancesStayApart == Spec => []InstancesApart
<1>1. Init => DaemonInv /\ Tied
  <2>1. D!Init => Tied
    BY DEF D!Init, Tied
  <2>. QED
    BY <2>1, InitDaemon DEF Init
<1>2. DaemonInv /\ Tied /\ [Next]_vars => DaemonInv' /\ Tied'
  <2>. SUFFICES ASSUME DaemonInv, Tied, [Next]_vars PROVE DaemonInv' /\ Tied'
    OBVIOUS
  <2>1. UNCHANGED DaemonVars => Tied'
    BY DEF Tied, DaemonVars
  <2>2. D!Next \/ UNCHANGED DaemonVars
    BY DEF Next, vars, ManagementStep, LoginStep, LogStep
  <2>. QED
    BY <2>1, <2>2, StepDaemon, StepTied, StutterDaemon
<1>. QED
  BY <1>1, <1>2, DaemonSafety, PTL DEF Spec

----------------------------------------------------------------------------

(* The master key and the users file.                                      *)

Entry == [user : {t[r].user : t \in Tasks, r \in Runs}, password : {t[r].password : t \in Tasks, r \in Runs},
          key : Runs \cup A!Broken]

KeyRun  == {r \in Runs : task[r].command = "master-key"}
UserRun == Runs \ KeyRun

\* Before it makes or opens a file; with a file of its own; with the users file.
Before   == {"idle", "key_check", "key_create", "add", "update", "remove"}
WithKey  == {"key_write", "key_link", "key_unlink"}
WithUser == {"add_check", "add_append", "rewrite", "rename"}

AdminTypes ==
    /\ A!TypeOK
    /\ task \in Tasks
    /\ DOMAIN data = A!Inode
    /\ \A r \in KeyRun : data[r] \in {<< >>, << r >>}
    /\ \A r \in UserRun : data[r] \in Seq(Entry)
    /\ buffer \in [Runs -> Seq(Entry)]
    /\ secret \in [Runs -> Runs \cup {"none"}]

\* Where a command can be.
Commands ==
    \A r \in Runs :
        /\ pc[r] \in {"key_check", "key_create"} \cup WithKey => r \in KeyRun
        /\ pc[r] \in {"add", "add_check", "add_append"} => task[r].command = "add"
        /\ pc[r] = "update" => task[r].command = "update"
        /\ pc[r] = "remove" => task[r].command = "remove"
        /\ pc[r] \in {"rewrite", "rename"} => task[r].command \in {"update", "remove"}

\* The files of keys and the files of users are different ones.
Kinds ==
    /\ \A n \in {"key", "key.tmp"} : dir[n] \in KeyRun \cup {"none"}
    /\ \A n \in {"users", "users.tmp"} : dir[n] \in UserRun \cup {"none"}
    /\ \A r \in Runs : pc[r] \in WithKey => output[r] = r
    /\ \A r \in Runs : pc[r] \in WithUser => output[r] \in UserRun
    /\ \A r \in Runs : pc[r] \in Before => output[r] = "none"

\* The file of a run that has not made it is nobody's.
Unmade ==
    \A r \in Runs : pc[r] \in Before =>
        /\ data[r] = << >>
        /\ \A n \in A!Name : dir[n] # r
        /\ \A q \in Runs : output[q] # r

\* Where the key of a run is written.
KeyDone == {"key_link", "key_unlink", "done"}

\* A key is linked when it is written, unless somebody removed the temporary file.
Keys ==
    /\ \A r \in KeyRun : pc[r] \in KeyDone => data[r] = << r >>
    /\ ~ intruded => /\ \A r \in Runs : pc[r] \in {"key_write", "key_link"} => dir["key.tmp"] = r
                     /\ dir["key"] # "none" => data[dir["key"]] = << dir["key"] >>

\* What is encrypted is encrypted under the key that is there, unless the line is broken.
Keyed(s) ==
    \A i \in 1..Len(s) :
        dir["key"] # "none" /\ (s[i].key = dir["key"] \/ (s[i].key \in A!Broken /\ cut # {}))

Encrypted ==
    /\ \A r \in UserRun : Keyed(data[r]) /\ Keyed(buffer[r])
    /\ \A r \in UserRun : task[r].command # "remove" /\ pc[r] \notin A!Over \cup {"idle"} =>
           dir["key"] # "none" /\ secret[r] = dir["key"]

\* One entry for each user; who is not in the one is in the other.
Different(s) == \A i, j \in 1..Len(s) : s[i].user = s[j].user => i = j

KeepsOthers(s, t, u) ==
    \A i \in 1..Len(s) : s[i].user # u => \E j \in 1..Len(t) : t[j] = s[i]

\* Runs that come one after the other: one is at work, and it has the users file as it found it.
AllAlone == \A r \in Runs : task[r].alone

UsersApart ==
    dir["users"] # "none" => dir["users"] # dir["users.tmp"] /\ Different(data[dir["users"]])

RunSound(r) ==
    /\ pc[r] \in {"add_check", "add_append"} =>
           dir["users"] # "none" /\ output[r] = dir["users"] /\ buffer[r] = data[dir["users"]]
    /\ pc[r] = "add_append" => ~ A!Knows(buffer[r], task[r].user)
    /\ pc[r] \in {"rewrite", "rename"} => dir["users"] # "none" /\ output[r] = dir["users.tmp"]
    /\ pc[r] = "rewrite" => buffer[r] = data[dir["users"]] /\ data[output[r]] = << >>
    /\ pc[r] = "rename" => /\ Different(data[output[r]])
                           /\ r \notin cut => KeepsOthers(data[dir["users"]], data[output[r]], task[r].user)

OneByOne ==
    AllAlone => /\ \A q, r \in A!AtWork : q = r
                /\ UsersApart
                /\ \A r \in Runs : RunSound(r)

AdminInv == AdminTypes /\ Commands /\ Kinds /\ Unmade /\ Keys /\ Encrypted /\ OneByOne

LEMMA EntryOf ==
    ASSUME task \in Tasks, NEW r \in Runs, secret[r] \in Runs
    PROVE  /\ A!Entry(r) \in Entry /\ A!Entry(r).user = task[r].user /\ A!Entry(r).key = secret[r]
BY DEF A!Entry, Entry

\* What is left of an old text under a new one.
LEMMA OverlayFacts ==
    ASSUME NEW Elem, NEW new \in Seq(Elem), NEW old \in Seq(Elem)
    PROVE  /\ A!Overlay(new, old) \in Seq(Elem)
           /\ Elems(A!Overlay(new, old)) \subseteq Elems(new) \cup Elems(old)
           /\ old = << >> => A!Overlay(new, old) = new
<1>. DEFINE m == Len(new)
            n == Len(old)
            rest == SubSeq(old, m + 1, n)
<1>1. m \in Nat /\ n \in Nat
  BY LenProperties
<1>2. \A i \in (m + 1)..n : old[i] \in Elem
  BY <1>1, ElementOfSeq
<1>3. /\ rest \in Seq(Elem)
      /\ Len(rest) = IF m + 1 <= n THEN n - (m + 1) + 1 ELSE 0
      /\ \A i \in 1..(n - (m + 1) + 1) : rest[i] = old[(m + 1) + i - 1]
  <2>. HIDE DEF m, n
  <2>. QED
    BY <1>1, <1>2, SubSeqProperties
<1>4. Elems(rest) \subseteq Elems(old)
  <2>. SUFFICES ASSUME NEW i \in 1..Len(rest) PROVE rest[i] \in Elems(old)
    BY DEF Elems
  <2>. DEFINE l == Len(rest)
              k == (m + 1) + i - 1
  <2>1. l = (IF m + 1 <= n THEN n - (m + 1) + 1 ELSE 0) /\ i \in 1..l
    BY <1>3
  <2>. HIDE DEF m, n, l, rest
  <2>2. i \in 1..(n - (m + 1) + 1) /\ k \in 1..n
    BY <1>1, <2>1
  <2>3. rest[i] = old[k]
    BY <1>3, <2>2
  <2>. QED
    BY <2>2, <2>3 DEF Elems, n
<1>5. A!Overlay(new, old) = new \o rest
  BY DEF A!Overlay
<1>6. /\ A!Overlay(new, old) \in Seq(Elem)
      /\ Elems(A!Overlay(new, old)) = Elems(new) \cup Elems(rest)
  <2>1. rest \in Seq(Elem)
    BY <1>3
  <2>. HIDE DEF rest
  <2>2. new \o rest \in Seq(Elem) /\ Elems(new \o rest) = Elems(new) \cup Elems(rest)
    BY <2>1, ConcatElems
  <2>. QED
    BY <1>5, <2>2
<1>7. ASSUME old = << >> PROVE A!Overlay(new, old) = new
  <2>1. Len(rest) = 0
    <3>1. n = 0
      BY <1>7, EmptySeq
    <3>. HIDE DEF m, n, rest
    <3>. QED
      BY <1>1, <1>3, <3>1
  <2>2. rest = << >>
    <3>. HIDE DEF rest
    <3>. QED
      BY <1>3, <2>1, EmptySeq
  <2>. QED
    BY <1>5, <2>2, ConcatEmptySeq
<1>. QED
  BY <1>4, <1>6, <1>7

\* The lines without those of a user.
LEMMA WithoutFacts ==
    ASSUME NEW s \in Seq(Entry), NEW u, NEW t \in A!Without(s, u)
    PROVE  t \in Seq(Entry) /\ Elems(t) \subseteq Elems(s) /\ KeepsOthers(s, t, u)
           /\ (Different(s) => Different(t))
<1>. DEFINE keep == {i \in DOMAIN s : s[i].user # u}
            Order(n) == {f \in [1..n -> keep] :
                           /\ \A i, j \in 1..n : i < j => f[i] < f[j]
                           /\ \A k \in keep : \E i \in 1..n : f[i] = k}
<1>1. PICK n \in 0..Len(s) : \E f \in Order(n) : t = [i \in 1..n |-> s[f[i]]]
  <2>1. t \in UNION {{[i \in 1..n |-> s[f[i]]] : f \in Order(n)} : n \in 0..Len(s)}
    BY DEF A!Without
  <2>. HIDE DEF Order
  <2>. QED
    BY <2>1
<1>2. DOMAIN s = 1..Len(s) /\ Len(s) \in Nat
  BY LenProperties
<1>0. PICK f \in Order(n) : t = [i \in 1..n |-> s[f[i]]]
  BY <1>1
<1>3. /\ n \in Nat /\ f \in [1..n -> keep]
      /\ \A i, j \in 1..n : i < j => f[i] < f[j]
      /\ \A k \in keep : \E i \in 1..n : f[i] = k
  BY <1>1, <1>2
<1>4. keep \subseteq 1..Len(s) /\ \A i \in 1..Len(s) : i \in keep <=> s[i].user # u
  BY <1>2
<1>. HIDE DEF keep, Order
<1>5. DOMAIN f = 1..n /\ \A i \in 1..n : f[i] \in 1..Len(s)
  BY <1>3, <1>4
<1>6. \A i \in 1..n : s[f[i]] \in Entry
  BY <1>5, ElementOfSeq
<1>7. t \in [1..n -> Entry] /\ \A i \in 1..n : t[i] = s[f[i]]
  BY <1>0, <1>5, <1>6
<1>8. t \in Seq(Entry)
  <2>. HIDE DEF Entry
  <2>. QED
    BY <1>3, <1>7, SeqDef
<1>9. Len(t) = n
  BY <1>3, <1>7, <1>8, LenProperties
<1>10. Elems(t) \subseteq Elems(s)
  BY <1>5, <1>7, <1>9 DEF Elems
<1>11. KeepsOthers(s, t, u)
  BY <1>3, <1>4, <1>5, <1>7, <1>9 DEF KeepsOthers
<1>12. ASSUME Different(s) PROVE Different(t)
  <2>. SUFFICES ASSUME NEW i \in 1..n, NEW j \in 1..n, t[i].user = t[j].user PROVE i = j
    BY <1>9 DEF Different
  <2>1. f[i] = f[j]
    BY <1>5, <1>7, <1>12 DEF Different
  <2>2. f[i] \in Nat /\ f[j] \in Nat
    BY <1>2, <1>5
  <2>3. ~ (i < j) /\ ~ (j < i)
    BY <1>3, <1>5, <2>1, <2>2
  <2>. QED
    BY <1>3, <2>3
<1>. QED
  BY <1>8, <1>10, <1>11, <1>12

LEMMA RewrittenFacts ==
    ASSUME AdminInv, NEW r \in UserRun, task[r].command \in {"update", "remove"}, pc[r] = "rewrite",
           NEW t \in A!Rewritten(r)
    PROVE  /\ t \in Seq(Entry) /\ KeepsOthers(buffer[r], t, task[r].user)
           /\ Keyed(t)
           /\ Different(buffer[r]) => Different(t)
<1>. DEFINE s == buffer[r]
            u == task[r].user
<1>1. r \in Runs /\ s \in Seq(Entry) /\ Keyed(s)
  BY DEF UserRun, AdminInv, AdminTypes, Encrypted
<1>2. CASE task[r].command = "remove"
  <2>1. t \in A!Without(s, u)
    BY <1>2 DEF A!Rewritten
  <2>2. t \in Seq(Entry) /\ Elems(t) \subseteq Elems(s) /\ KeepsOthers(s, t, u) /\ (Different(s) => Different(t))
    BY <1>1, <2>1, WithoutFacts
  <2>3. Keyed(t)
    <3>. SUFFICES ASSUME NEW i \in 1..Len(t)
                  PROVE  dir["key"] # "none" /\ (t[i].key = dir["key"] \/ (t[i].key \in A!Broken /\ cut # {}))
      BY DEF Keyed
    <3>1. t[i] \in Elems(t)
      BY DEF Elems
    <3>2. t[i] \in Elems(s)
      BY <2>2, <3>1
    <3>. HIDE DEF s
    <3>3. PICK j \in 1..Len(s) : t[i] = s[j]
      BY <3>2 DEF Elems
    <3>. QED
      BY <1>1, <3>3 DEF Keyed
  <2>. QED
    BY <2>2, <2>3
<1>3. CASE task[r].command = "update"
  <2>. DEFINE e == A!Entry(r)
              New(x) == IF x.user = u THEN e ELSE x
  <2>1. secret[r] = dir["key"] /\ secret[r] \in Runs /\ task \in Tasks
    BY <1>1, <1>3 DEF AdminInv, AdminTypes, Encrypted, A!Over
  <2>2. e \in Entry /\ e.user = u /\ e.key = dir["key"]
    BY <1>1, <2>1, EntryOf
  <2>3. t = s \/ t = [i \in DOMAIN s |-> IF s[i].user = u THEN e ELSE s[i]]
    BY <1>3 DEF A!Rewritten
  <2>4. CASE t = s
    BY <1>1, <2>4 DEF KeepsOthers
  <2>5. CASE t = [i \in DOMAIN s |-> IF s[i].user = u THEN e ELSE s[i]]
    <3>1. DOMAIN s = 1..Len(s) /\ Len(s) \in Nat
      BY <1>1, LenProperties
    <3>2. \A i \in 1..Len(s) : s[i] \in Entry
      BY <1>1, ElementOfSeq
    <3>. HIDE DEF s, u, e
    <3>3. /\ t \in [1..Len(s) -> Entry]
          /\ \A i \in 1..Len(s) : t[i] = IF s[i].user = u THEN e ELSE s[i]
      BY <2>2, <2>5, <3>1, <3>2
    <3>4. t \in Seq(Entry)
      <4>. HIDE DEF Entry
      <4>. QED
        BY <3>1, <3>3, SeqDef
    <3>5. Len(t) = Len(s)
      BY <3>1, <3>3, <3>4, LenProperties
    <3>6. \A i \in 1..Len(s) : t[i].user = s[i].user
      BY <2>2, <3>3
    <3>7. Keyed(t)
      BY <1>1, <2>2, <3>3, <3>5 DEF Keyed
    <3>8. KeepsOthers(s, t, u)
      BY <3>3, <3>5 DEF KeepsOthers
    <3>9. Different(s) => Different(t)
      BY <3>5, <3>6 DEF Different
    <3>. QED
      BY <3>4, <3>7, <3>8, <3>9 DEF s, u
  <2>. QED
    BY <2>3, <2>4, <2>5
<1>. QED
  BY <1>2, <1>3

\* Who works on the master key leaves the users file alone.
LEMMA KeyStepKeepsUsers ==
    ASSUME AdminInv, NEW r \in KeyRun, NEW at \in A!Over \cup WithKey \cup {"key_create"},
           pc[r] \in WithKey \cup {"key_check", "key_create"},
           pc' = [pc EXCEPT ![r] = at],
           task' = task, buffer' = buffer, secret' = secret, cut' = cut,
           \A q \in Runs : q # r => output'[q] = output[q],
           dir'["users"] = dir["users"], dir'["users.tmp"] = dir["users.tmp"],
           dir["key"] # "none" => dir'["key"] = dir["key"],
           \A q \in UserRun : data'[q] = data[q]
    PROVE  Encrypted' /\ OneByOne'
<1>1. /\ r \in Runs /\ pc \in [Runs -> A!Over \cup {"idle", "key_check", "key_create", "key_write", "key_link",
                                 "key_unlink", "add", "add_check", "add_append",
                                 "update", "remove", "rewrite", "rename"}]
      /\ \A q \in Runs : pc'[q] = IF q = r THEN at ELSE pc[q]
  BY DEF AdminInv, AdminTypes, A!TypeOK, KeyRun
<1>2. UserRun' = UserRun /\ UserRun \subseteq Runs /\ r \notin UserRun
  BY DEF UserRun, KeyRun
<1>3. ASSUME dir["key"] = "none", NEW q \in UserRun
      PROVE  Len(data[q]) = 0 /\ Len(buffer[q]) = 0
  <2>1. /\ data[q] \in Seq(Entry) /\ buffer[q] \in Seq(Entry)
        /\ ~ (\E i \in 1..Len(data[q]) : TRUE)
        /\ ~ (\E i \in 1..Len(buffer[q]) : TRUE)
    BY <1>2, <1>3 DEF AdminInv, AdminTypes, Encrypted, Keyed
  <2>2. /\ Len(data[q]) \in Nat /\ Len(buffer[q]) \in Nat
    BY <2>1, LenProperties
  <2>. QED
    BY <2>1, <2>2
<1>4. Encrypted'
  <2>1. \A q \in UserRun : Keyed(data[q])' /\ Keyed(buffer[q])'
    BY <1>2, <1>3 DEF AdminInv, Encrypted, Keyed
  <2>2. \A q \in UserRun : task[q].command # "remove" /\ pc'[q] \notin A!Over \cup {"idle"} =>
           dir'["key"] # "none" /\ secret[q] = dir'["key"]
    BY <1>1, <1>2 DEF AdminInv, Encrypted
  <2>. QED
    BY <1>2, <2>1, <2>2 DEF Encrypted, A!Over
<1>5. ASSUME AllAlone'
      PROVE  /\ \A p, q \in A!AtWork' : p = q
             /\ UsersApart'
             /\ \A q \in Runs : RunSound(q)'
  <2>1. AllAlone
    BY <1>5 DEF AllAlone
  <2>2. dir["users"] \in UserRun \cup {"none"} /\ dir["users.tmp"] \in UserRun \cup {"none"}
    BY DEF AdminInv, Kinds
  <2>3. \A p, q \in A!AtWork' : p = q
    BY <1>1, <2>1 DEF AdminInv, OneByOne, A!AtWork, A!Over, WithKey
  <2>4. UsersApart'
    BY <2>1, <2>2 DEF AdminInv, OneByOne, UsersApart, Different
  <2>5. ASSUME NEW q \in Runs PROVE RunSound(q)'
    <3>1. CASE q = r
      BY <1>1, <3>1 DEF RunSound, WithKey, A!Over
    <3>2. CASE q # r
      <4>1. RunSound(q) /\ pc'[q] = pc[q] /\ output'[q] = output[q]
        BY <1>1, <2>1, <3>2 DEF AdminInv, OneByOne
      <4>2. pc[q] \in WithUser => output[q] \in UserRun
        BY DEF AdminInv, Kinds
      <4>. QED
        BY <4>1, <4>2, <2>2 DEF RunSound, WithUser, Different, KeepsOthers, A!Knows
    <3>. QED
      BY <3>1, <3>2
  <2>. QED
    BY <2>3, <2>4, <2>5
<1>6. OneByOne'
  BY <1>5 DEF OneByOne
<1>. QED
  BY <1>4, <1>6

AdminPlaces == A!Over \cup {"idle", "key_check", "key_create", "key_write", "key_link", "key_unlink", "add",
                            "add_check", "add_append", "update", "remove", "rewrite", "rename"}

\* What every step may take for granted.
LEMMA AdminFacts ==
    ASSUME AdminInv
    PROVE  /\ pc \in [Runs -> AdminPlaces] /\ dir \in [A!Name -> A!Inode \cup {"none"}]
           /\ output \in [Runs -> A!Inode \cup {"none"}] /\ input \in [Runs -> A!Inode \cup {"none"}]
           /\ intruded \in BOOLEAN /\ cut \subseteq Runs /\ task \in Tasks /\ DOMAIN data = A!Inode /\ Runs \subseteq A!Inode
           /\ KeyRun \subseteq Runs /\ UserRun \subseteq Runs
           /\ "none" \notin Runs
           /\ \A r \in Runs : r \in KeyRun \/ r \in UserRun
BY AdminAssumption DEF AdminInv, AdminTypes, A!TypeOK, A!None, A!Inode, AdminPlaces, KeyRun, UserRun

\* A step that only moves on: what has to be looked at again.
LEMMA TypesByParts ==
    ASSUME AdminInv, task' = task, pc' \in [Runs -> AdminPlaces],
           dir' \in [A!Name -> A!Inode \cup {"none"}], output' \in [Runs -> A!Inode \cup {"none"}],
           input' \in [Runs -> A!Inode \cup {"none"}], intruded' \in BOOLEAN, cut' \subseteq Runs,
           \A q \in Runs : pc'[q] \in {"key_write", "key_link", "add_append", "rename"} => output'[q] # "none",
           DOMAIN data' = A!Inode,
           \A q \in KeyRun : data'[q] \in {<< >>, << q >>},
           \A q \in UserRun : data'[q] \in Seq(Entry),
           buffer' \in [Runs -> Seq(Entry)], secret' \in [Runs -> Runs \cup {"none"}]
    PROVE  AdminTypes'
<1>1. KeyRun' = KeyRun /\ UserRun' = UserRun
  BY DEF KeyRun, UserRun
<1>2. A!TypeOK'
  BY DEF A!TypeOK, AdminPlaces, A!None, A!Over, A!Inode, A!Name
<1>. QED
  BY <1>1, <1>2 DEF AdminTypes, AdminInv, A!Inode

\* A run on the master key ends, and removes the temporary file by its name.
LEMMA KeyRunEnds ==
    ASSUME AdminInv, NEW r \in KeyRun, NEW at \in {"failed", "done"},
           pc[r] \in WithKey \cup {"key_check", "key_create"}, at = "done" => pc[r] = "key_unlink",
           pc' = [pc EXCEPT ![r] = at], A!Unlink(r, "key.tmp"),
           task' = task, data' = data, input' = input, output' = output, buffer' = buffer, secret' = secret, cut' = cut
    PROVE  AdminInv'
<1>0. /\ dir' = [dir EXCEPT !["key.tmp"] = "none"]
      /\ intruded' = (intruded \/ dir["key.tmp"] \notin {"none", output[r]})
  BY DEF A!Unlink, A!None
<1>1. /\ pc \in [Runs -> AdminPlaces] /\ dir \in [A!Name -> A!Inode \cup {"none"}] /\ r \in Runs
      /\ intruded \in BOOLEAN /\ "none" \notin Runs
      /\ \A q \in Runs : pc'[q] = IF q = r THEN at ELSE pc[q]
      /\ \A n \in A!Name : dir'[n] = IF n = "key.tmp" THEN "none" ELSE dir[n]
  BY <1>0, AdminFacts DEF A!Name
<1>2. KeyRun' = KeyRun /\ UserRun' = UserRun
  BY DEF KeyRun, UserRun
<1>3. AdminTypes'
  <2>1. pc' \in [Runs -> AdminPlaces]
    BY <1>1 DEF AdminPlaces, A!Over
  <2>2. dir' \in [A!Name -> A!Inode \cup {"none"}]
    BY <1>0, <1>1
  <2>3. intruded' \in BOOLEAN
    BY <1>0, <1>1, Zenon
  <2>4. \A q \in Runs : pc'[q] \in {"key_write", "key_link", "add_append", "rename"} => output'[q] # "none"
    BY <1>1 DEF AdminInv, AdminTypes, A!TypeOK, A!None
  <2>5. /\ output' \in [Runs -> A!Inode \cup {"none"}] /\ input' \in [Runs -> A!Inode \cup {"none"}]
        /\ DOMAIN data' = A!Inode /\ \A q \in KeyRun : data'[q] \in {<< >>, << q >>}
        /\ \A q \in UserRun : data'[q] \in Seq(Entry)
        /\ buffer' \in [Runs -> Seq(Entry)] /\ secret' \in [Runs -> Runs \cup {"none"}] /\ cut' \subseteq Runs
    BY DEF AdminInv, AdminTypes, A!TypeOK, A!None
  <2>. QED
    BY <2>1, <2>2, <2>3, <2>4, <2>5, TypesByParts
<1>4. Commands'
  BY <1>1, <1>2 DEF AdminInv, Commands, WithKey
<1>5. Kinds'
  BY <1>1, <1>2 DEF AdminInv, Kinds, WithKey, WithUser, Before, A!Name
<1>6. Unmade'
  BY <1>1 DEF AdminInv, Unmade, Before
<1>7. Keys'
  <2>1. output[r] \in {r, "none"}
    BY <1>1 DEF AdminInv, Kinds, WithKey, Before
  <2>2. \A q \in KeyRun : pc'[q] \in KeyDone => data'[q] = << q >>
    BY <1>1 DEF AdminInv, Keys, KeyDone, KeyRun
  <2>3. ASSUME ~ intruded'
        PROVE  /\ \A q \in Runs : pc'[q] \in {"key_write", "key_link"} => dir'["key.tmp"] = q
               /\ dir'["key"] # "none" => data'[dir'["key"]] = << dir'["key"] >>
    <3>1. ~ intruded /\ dir["key.tmp"] \in {"none", output[r]}
      BY <1>0, <2>3
    <3>2. \A q \in Runs : pc'[q] \notin {"key_write", "key_link"}
      BY <1>1, <2>1, <3>1 DEF AdminInv, Keys, KeyDone, KeyRun
    <3>. QED
      BY <1>1, <3>1, <3>2 DEF AdminInv, Keys, KeyDone, KeyRun, A!Name
  <2>. QED
    BY <2>2, <2>3 DEF Keys, KeyDone, KeyRun
<1>8. Encrypted' /\ OneByOne'
  <2>1. /\ dir'["users"] = dir["users"] /\ dir'["users.tmp"] = dir["users.tmp"] /\ dir'["key"] = dir["key"]
        /\ at \in A!Over \cup WithKey \cup {"key_create"}
    BY <1>1 DEF A!Name, A!Over
  <2>. QED
    BY <2>1, KeyStepKeepsUsers
<1>. QED
  BY <1>3, <1>4, <1>5, <1>6, <1>7, <1>8 DEF AdminInv

LEMMA KeyCheckKeeps ==
    ASSUME AdminInv, NEW r \in Runs, A!KeyCheck(r)
    PROVE  AdminInv'
<1>1. r \in KeyRun /\ pc[r] = "key_check"
  BY DEF AdminInv, Commands, A!KeyCheck, WithKey
<1>2. CASE dir["key"] # "none"
  BY <1>1, <1>2, KeyRunEnds DEF A!KeyCheck, A!Goto, A!None
<1>3. CASE dir["key"] = "none"
  <2>0. /\ pc' = [pc EXCEPT ![r] = "key_create"] /\ dir' = dir /\ intruded' = intruded
        /\ task' = task /\ data' = data /\ input' = input /\ output' = output /\ buffer' = buffer /\ secret' = secret /\ cut' = cut
    BY <1>3 DEF A!KeyCheck, A!Goto, A!None
  <2>1. AdminTypes'
    BY <2>0 DEF AdminInv, AdminTypes, A!TypeOK, A!Over, KeyRun, UserRun, A!Inode, A!None, A!Name
  <2>2. Commands'
    BY <1>1, <2>0 DEF AdminInv, Commands, KeyRun, WithKey, AdminTypes, A!TypeOK
  <2>3. Kinds'
    BY <1>1, <2>0 DEF AdminInv, Kinds, KeyRun, UserRun, WithKey, WithUser, Before, AdminTypes, A!TypeOK
  <2>4. Unmade'
    BY <1>1, <2>0 DEF AdminInv, Unmade, Before, AdminTypes, A!TypeOK
  <2>5. Keys'
    BY <1>1, <2>0 DEF AdminInv, Keys, KeyDone, KeyRun, AdminTypes, A!TypeOK
  <2>6. Encrypted' /\ OneByOne'
    BY <1>1, <2>0, KeyStepKeepsUsers DEF WithKey, A!Over
  <2>. QED
    BY <2>1, <2>2, <2>3, <2>4, <2>5, <2>6 DEF AdminInv
<1>. QED
  BY <1>2, <1>3

\* The temporary file of the key is made by the run itself (O_EXCL).
LEMMA KeyCreateKeeps ==
    ASSUME AdminInv, NEW r \in Runs, A!KeyCreate(r)
    PROVE  AdminInv'
<1>1. r \in KeyRun /\ pc[r] = "key_create"
  BY DEF AdminInv, Commands, A!KeyCreate, WithKey
<1>2. CASE dir["key.tmp"] # "none"
  BY <1>1, <1>2, KeyRunEnds DEF A!KeyCreate, A!Goto, A!None
<1>3. CASE dir["key.tmp"] = "none"
  <2>0. /\ pc' = [pc EXCEPT ![r] = "key_write"] /\ dir' = [dir EXCEPT !["key.tmp"] = r]
        /\ output' = [output EXCEPT ![r] = r] /\ intruded' = intruded
        /\ task' = task /\ data' = data /\ input' = input /\ buffer' = buffer /\ secret' = secret /\ cut' = cut
    BY <1>3 DEF A!KeyCreate, A!Goto, A!None
  <2>. USE AdminFacts
  <2>a. /\ \A q \in Runs : pc'[q] = IF q = r THEN "key_write" ELSE pc[q]
        /\ \A q \in Runs : output'[q] = IF q = r THEN r ELSE output[q]
        /\ \A n \in A!Name : dir'[n] = IF n = "key.tmp" THEN r ELSE dir[n]
        /\ KeyRun' = KeyRun /\ UserRun' = UserRun
        /\ data[r] = << >> /\ \A n \in A!Name : dir[n] # r
        /\ \A q \in Runs : output[q] # r
    BY <1>1, <2>0 DEF A!Name, KeyRun, UserRun, AdminInv, Unmade, Before
  <2>1. AdminTypes'
    <3>1. pc' \in [Runs -> AdminPlaces]
      BY <2>0 DEF AdminPlaces
    <3>2. /\ dir' \in [A!Name -> A!Inode \cup {"none"}] /\ output' \in [Runs -> A!Inode \cup {"none"}]
      BY <2>0
    <3>3. \A q \in Runs : pc'[q] \in {"key_write", "key_link", "add_append", "rename"} => output'[q] # "none"
      BY <2>a DEF AdminInv, AdminTypes, A!TypeOK, A!None
    <3>4. /\ input' \in [Runs -> A!Inode \cup {"none"}] /\ intruded' \in BOOLEAN
          /\ DOMAIN data' = A!Inode /\ \A q \in KeyRun : data'[q] \in {<< >>, << q >>}
          /\ \A q \in UserRun : data'[q] \in Seq(Entry)
          /\ buffer' \in [Runs -> Seq(Entry)] /\ secret' \in [Runs -> Runs \cup {"none"}]
      BY <2>0 DEF AdminInv, AdminTypes, A!TypeOK, A!None
    <3>. QED
      BY <2>0, <3>1, <3>2, <3>3, <3>4, TypesByParts
  <2>2. Commands'
    BY <1>1, <2>0, <2>a DEF AdminInv, Commands, WithKey
  <2>3. Kinds'
    BY <1>1, <2>a DEF AdminInv, Kinds, WithKey, WithUser, Before, A!Name
  <2>4. Unmade'
    BY <1>1, <2>0, <2>a DEF AdminInv, Unmade, Before, A!Name
  <2>5. Keys'
    <3>1. \A q \in KeyRun : pc'[q] \in KeyDone => data'[q] = << q >>
      BY <2>0, <2>a DEF AdminInv, Keys, KeyDone, KeyRun
    <3>2. ASSUME ~ intruded PROVE \A q \in Runs : pc'[q] \in {"key_write", "key_link"} => dir'["key.tmp"] = q
      BY <1>3, <2>a, <3>2 DEF AdminInv, Keys, KeyDone, KeyRun, A!Name
    <3>3. ~ intruded /\ dir'["key"] # "none" => data'[dir'["key"]] = << dir'["key"] >>
      BY <2>0, <2>a DEF AdminInv, Keys, KeyDone, KeyRun, A!Name
    <3>. QED
      BY <2>0, <3>1, <3>2, <3>3 DEF Keys, KeyDone, KeyRun
  <2>6. Encrypted' /\ OneByOne'
    <3>1. /\ dir'["users"] = dir["users"] /\ dir'["users.tmp"] = dir["users.tmp"] /\ dir'["key"] = dir["key"]
          /\ "key_write" \in A!Over \cup WithKey \cup {"key_create"}
          /\ \A q \in Runs : q # r => output'[q] = output[q]
      BY <2>a DEF A!Name, WithKey
    <3>. QED
      BY <1>1, <2>0, <3>1, KeyStepKeepsUsers
  <2>. QED
    BY <2>1, <2>2, <2>3, <2>4, <2>5, <2>6 DEF AdminInv
<1>. QED
  BY <1>2, <1>3

\* The key is written into the file of the run.
LEMMA KeyWriteKeeps ==
    ASSUME AdminInv, NEW r \in Runs, A!KeyWrite(r)
    PROVE  AdminInv'
<1>1. r \in KeyRun /\ pc[r] = "key_write" /\ output[r] = r
  BY DEF AdminInv, Commands, Kinds, A!KeyWrite, WithKey
<1>2. CASE pc' = [pc EXCEPT ![r] = "failed"] /\ A!Unlink(r, "key.tmp") /\ data' = data
  <2>1. task' = task /\ input' = input /\ output' = output /\ buffer' = buffer /\ secret' = secret /\ cut' = cut
    BY DEF A!KeyWrite
  <2>. QED
    BY <1>1, <1>2, <2>1, KeyRunEnds DEF WithKey
<1>3. CASE /\ data' = [data EXCEPT ![r] = << r >>] /\ pc' = [pc EXCEPT ![r] = "key_link"]
           /\ dir' = dir /\ intruded' = intruded
  <2>0. task' = task /\ input' = input /\ output' = output /\ buffer' = buffer /\ secret' = secret /\ cut' = cut
    BY DEF A!KeyWrite
  <2>. USE AdminFacts
  <2>a. /\ \A q \in Runs : pc'[q] = IF q = r THEN "key_link" ELSE pc[q]
        /\ \A q \in Runs : data'[q] = IF q = r THEN << r >> ELSE data[q]
        /\ DOMAIN data' = A!Inode
        /\ KeyRun' = KeyRun /\ UserRun' = UserRun
    BY <1>1, <1>3, <2>0 DEF KeyRun, UserRun
  <2>b. r \notin UserRun
    BY <1>1 DEF UserRun
  <2>1. AdminTypes'
    <3>1. pc' \in [Runs -> AdminPlaces]
      BY <1>3 DEF AdminPlaces
    <3>2. \A q \in Runs : pc'[q] \in {"key_write", "key_link", "add_append", "rename"} => output'[q] # "none"
      BY <1>1, <2>0, <2>a DEF AdminInv, AdminTypes, A!TypeOK, A!None
    <3>3. /\ \A q \in KeyRun : data'[q] \in {<< >>, << q >>}
          /\ \A q \in UserRun : data'[q] \in Seq(Entry)
      BY <2>a, <2>b DEF AdminInv, AdminTypes
    <3>4. /\ buffer' \in [Runs -> Seq(Entry)] /\ secret' \in [Runs -> Runs \cup {"none"}]
      BY <2>0 DEF AdminInv, AdminTypes
    <3>. QED
      BY <1>3, <2>0, <2>a, <3>1, <3>2, <3>3, <3>4, TypesByParts
  <2>2. Commands'
    BY <1>1, <2>0, <2>a DEF AdminInv, Commands, WithKey
  <2>3. Kinds'
    BY <1>1, <1>3, <2>0, <2>a DEF AdminInv, Kinds, WithKey, WithUser, Before
  <2>4. Unmade'
    BY <1>1, <1>3, <2>0, <2>a DEF AdminInv, Unmade, Before
  <2>5. Keys'
    <3>1. \A q \in KeyRun : pc'[q] \in KeyDone => data'[q] = << q >>
      BY <2>a DEF AdminInv, Keys, KeyDone, KeyRun
    <3>2. ~ intruded => \A q \in Runs : pc'[q] \in {"key_write", "key_link"} => dir'["key.tmp"] = q
      BY <1>1, <1>3, <2>a DEF AdminInv, Keys, KeyDone, KeyRun
    <3>3. ~ intruded /\ dir'["key"] # "none" => data'[dir'["key"]] = << dir'["key"] >>
      BY <1>3, <2>a DEF AdminInv, Keys, KeyDone, KeyRun, Kinds
    <3>. QED
      BY <1>3, <2>a, <3>1, <3>2, <3>3 DEF Keys
  <2>6. Encrypted' /\ OneByOne'
    <3>1. /\ "key_link" \in A!Over \cup WithKey \cup {"key_create"}
          /\ \A q \in UserRun : data'[q] = data[q]
          /\ dir'["users"] = dir["users"] /\ dir'["users.tmp"] = dir["users.tmp"] /\ dir'["key"] = dir["key"]
      BY <1>3, <2>a, <2>b DEF WithKey
    <3>. QED
      BY <1>1, <1>3, <2>0, <3>1, KeyStepKeepsUsers DEF WithKey
  <2>. QED
    BY <2>1, <2>2, <2>3, <2>4, <2>5, <2>6 DEF AdminInv
<1>. QED
  BY <1>1, <1>2, <1>3 DEF A!KeyWrite, A!Goto

\* link() gives the temporary file, whosever it is, the name of the key that is not there.
LEMMA KeyLinkKeeps ==
    ASSUME AdminInv, NEW r \in Runs, A!KeyLink(r)
    PROVE  AdminInv'
<1>1. r \in KeyRun /\ pc[r] = "key_link" /\ output[r] = r
  BY DEF AdminInv, Commands, Kinds, A!KeyLink, WithKey
<1>0. task' = task /\ data' = data /\ input' = input /\ output' = output /\ buffer' = buffer /\ secret' = secret /\ cut' = cut
  BY DEF A!KeyLink
<1>2. CASE dir["key"] # "none" \/ dir["key.tmp"] = "none"
  <2>1. pc' = [pc EXCEPT ![r] = "failed"] /\ A!Unlink(r, "key.tmp")
    BY <1>2 DEF A!KeyLink, A!Goto, A!None
  <2>. QED
    BY <1>0, <1>1, <2>1, KeyRunEnds DEF WithKey
<1>3. CASE dir["key"] = "none" /\ dir["key.tmp"] # "none"
  <2>0. /\ pc' = [pc EXCEPT ![r] = "key_unlink"] /\ dir' = [dir EXCEPT !["key"] = dir["key.tmp"]]
        /\ intruded' = intruded
    BY <1>3 DEF A!KeyLink, A!Goto, A!None
  <2>. USE AdminFacts
  <2>a. /\ \A q \in Runs : pc'[q] = IF q = r THEN "key_unlink" ELSE pc[q]
        /\ \A n \in A!Name : dir'[n] = IF n = "key" THEN dir["key.tmp"] ELSE dir[n]
        /\ KeyRun' = KeyRun /\ UserRun' = UserRun
    BY <1>0, <1>1, <2>0 DEF KeyRun, UserRun, A!Name
  <2>1. AdminTypes'
    <3>1. pc' \in [Runs -> AdminPlaces]
      BY <2>0 DEF AdminPlaces
    <3>2. \A q \in Runs : pc'[q] \in {"key_write", "key_link", "add_append", "rename"} => output'[q] # "none"
      BY <1>0, <1>1, <2>a DEF AdminInv, AdminTypes, A!TypeOK, A!None
    <3>3. /\ \A q \in KeyRun : data'[q] \in {<< >>, << q >>}
          /\ \A q \in UserRun : data'[q] \in Seq(Entry)
          /\ buffer' \in [Runs -> Seq(Entry)] /\ secret' \in [Runs -> Runs \cup {"none"}]
      BY <1>0 DEF AdminInv, AdminTypes
    <3>4. dir' \in [A!Name -> A!Inode \cup {"none"}]
      BY <2>0 DEF A!Name
    <3>. QED
      BY <1>0, <2>0, <3>1, <3>2, <3>3, <3>4, TypesByParts
  <2>2. Commands'
    BY <1>0, <1>1, <2>a DEF AdminInv, Commands, WithKey
  <2>3. Kinds'
    BY <1>0, <1>1, <2>a DEF AdminInv, Kinds, WithKey, WithUser, Before, A!Name
  <2>4. Unmade'
    BY <1>0, <1>1, <2>a DEF AdminInv, Unmade, Before, A!Name
  <2>5. Keys'
    <3>1. \A q \in KeyRun : pc'[q] \in KeyDone => data'[q] = << q >>
      BY <1>0, <1>1, <2>a DEF AdminInv, Keys, KeyDone
    <3>2. ~ intruded => \A q \in Runs : pc'[q] \in {"key_write", "key_link"} => dir'["key.tmp"] = q
      BY <1>1, <2>a DEF AdminInv, Keys, KeyDone, KeyRun, A!Name
    <3>3. ~ intruded => dir'["key"] = r /\ data'[r] = << r >>
      BY <1>0, <1>1, <2>a DEF AdminInv, Keys, KeyDone, KeyRun, A!Name
    <3>. QED
      BY <2>0, <2>a, <3>1, <3>2, <3>3 DEF Keys
  <2>6. Encrypted' /\ OneByOne'
    <3>1. /\ "key_unlink" \in A!Over \cup WithKey \cup {"key_create"}
          /\ \A q \in UserRun : data'[q] = data[q]
          /\ dir'["users"] = dir["users"] /\ dir'["users.tmp"] = dir["users.tmp"]
          /\ dir["key"] # "none" => dir'["key"] = dir["key"]
      BY <1>0, <1>3, <2>a DEF WithKey, A!Name
    <3>. QED
      BY <1>0, <1>1, <2>0, <3>1, KeyStepKeepsUsers DEF WithKey
  <2>. QED
    BY <2>1, <2>2, <2>3, <2>4, <2>5, <2>6 DEF AdminInv
<1>. QED
  BY <1>2, <1>3

LEMMA KeyUnlinkKeeps ==
    ASSUME AdminInv, NEW r \in Runs, A!KeyUnlink(r)
    PROVE  AdminInv'
<1>1. r \in KeyRun /\ pc[r] = "key_unlink"
  BY DEF AdminInv, Commands, A!KeyUnlink, WithKey
<1>. QED
  BY <1>1, KeyRunEnds DEF A!KeyUnlink, A!Goto, WithKey

\* Runs one after the other: only the one at work has to be looked at.
LEMMA OneAtATime ==
    ASSUME AdminInv, NEW r \in Runs, NEW at, pc[r] \notin A!Over \cup {"idle"}, task' = task,
           pc' = [pc EXCEPT ![r] = at],
           AllAlone => UsersApart' /\ RunSound(r)'
    PROVE  OneByOne'
<1>1. \A q \in Runs : pc'[q] = IF q = r THEN at ELSE pc[q]
  BY AdminFacts
<1>2. ASSUME AllAlone'
      PROVE  (\A p, q \in A!AtWork' : p = q) /\ UsersApart' /\ \A q \in Runs : RunSound(q)'
  <2>1. AllAlone
    BY <1>2 DEF AllAlone
  <2>2. \A q \in Runs : q # r => pc[q] \in A!Over \cup {"idle"}
    BY <2>1 DEF AdminInv, OneByOne, A!AtWork
  <2>3. \A p, q \in A!AtWork' : p = q
    BY <1>1, <2>2 DEF A!AtWork, A!Over
  <2>4. \A q \in Runs : q # r => RunSound(q)'
    BY <1>1, <2>2 DEF RunSound, A!Over
  <2>. QED
    BY <2>1, <2>3, <2>4
<1>. QED
  BY <1>2 DEF OneByOne

LEMMA RunStarts ==
    ASSUME AdminInv, NEW r \in Runs, A!Start(r)
    PROVE  AdminInv'
<1>. DEFINE at == CASE task[r].command = "master-key"        -> "key_check"
                    [] task[r].command \in {"add", "update"} -> IF A!HasKey THEN task[r].command ELSE "failed"
                    [] task[r].command = "remove"            -> "remove"
<1>. USE AdminFacts
<1>1. /\ pc[r] = "idle" /\ (task[r].alone => A!AtWork = {})
      /\ task' = task /\ dir' = dir /\ data' = data /\ input' = input /\ output' = output
      /\ buffer' = buffer /\ intruded' = intruded /\ cut' = cut
      /\ secret' = [secret EXCEPT ![r] = IF A!HasKey THEN A!MasterKey ELSE "none"]
  BY DEF A!Start, A!None
<1>2. task[r].command \in {"master-key", "add", "update", "remove"} /\ task[r].alone \in BOOLEAN
  BY AdminAssumption
<1>3. pc' = [pc EXCEPT ![r] = at]
  BY DEF A!Start, A!Goto
<1>4. /\ task[r].command = "master-key" => at = "key_check"
      /\ task[r].command \in {"add", "update"} => at = IF A!HasKey THEN task[r].command ELSE "failed"
      /\ task[r].command = "remove" => at = "remove"
  BY <1>2
<1>. HIDE DEF at
<1>5. /\ \A q \in Runs : pc'[q] = IF q = r THEN at ELSE pc[q]
      /\ at \in {"key_check", "add", "update", "remove", "failed"}
      /\ KeyRun' = KeyRun /\ UserRun' = UserRun
  BY <1>1, <1>2, <1>3, <1>4 DEF KeyRun, UserRun
<1>6. A!HasKey => dir["key"] \in KeyRun /\ A!MasterKey = dir["key"]
  <2>. SUFFICES ASSUME A!HasKey PROVE dir["key"] \in KeyRun /\ A!MasterKey = dir["key"]
    OBVIOUS
  <2>1. dir["key"] # "none" /\ Len(data[dir["key"]]) = 1
    BY DEF A!HasKey, A!None
  <2>2. dir["key"] \in KeyRun /\ data[dir["key"]] \in {<< >>, << dir["key"] >>}
    BY <2>1 DEF AdminInv, Kinds, AdminTypes
  <2>. QED
    BY <2>1, <2>2 DEF A!MasterKey
<1>7. \A q \in Runs : secret'[q] = IF q # r THEN secret[q] ELSE IF A!HasKey THEN dir["key"] ELSE "none"
  BY <1>1, <1>6 DEF AdminInv, AdminTypes
<1>8. AdminTypes'
  <2>1. pc' \in [Runs -> AdminPlaces]
    BY <1>3, <1>5 DEF AdminPlaces, A!Over
  <2>2. secret' \in [Runs -> Runs \cup {"none"}]
    BY <1>1, <1>6 DEF AdminInv, AdminTypes
  <2>3. \A q \in Runs : pc'[q] \in {"key_write", "key_link", "add_append", "rename"} => output'[q] # "none"
    BY <1>1, <1>5 DEF AdminInv, AdminTypes, A!TypeOK, A!None
  <2>4. /\ \A q \in KeyRun : data'[q] \in {<< >>, << q >>}
        /\ \A q \in UserRun : data'[q] \in Seq(Entry)
        /\ buffer' \in [Runs -> Seq(Entry)]
    BY <1>1 DEF AdminInv, AdminTypes
  <2>. QED
    BY <1>1, <2>1, <2>2, <2>3, <2>4, TypesByParts
<1>9. Commands'
  BY <1>1, <1>2, <1>4, <1>5 DEF AdminInv, Commands, WithKey, KeyRun
<1>10. Kinds'
  BY <1>1, <1>5 DEF AdminInv, Kinds, WithKey, WithUser, Before
<1>11. Unmade'
  BY <1>1, <1>5 DEF AdminInv, Unmade, Before
<1>12. Keys'
  BY <1>1, <1>5 DEF AdminInv, Keys, KeyDone, KeyRun
<1>13. Encrypted'
  <2>1. \A q \in UserRun : Keyed(data[q])' /\ Keyed(buffer[q])'
    BY <1>1 DEF AdminInv, Encrypted, Keyed
  <2>2. ASSUME NEW q \in UserRun, task[q].command # "remove", pc'[q] \notin A!Over \cup {"idle"}
        PROVE  dir["key"] # "none" /\ secret'[q] = dir["key"]
    <3>1. CASE q # r
      BY <1>5, <1>7, <2>2, <3>1 DEF AdminInv, Encrypted
    <3>2. CASE q = r
      <4>1. A!HasKey
        BY <1>2, <1>4, <1>5, <2>2, <3>2 DEF UserRun, KeyRun, A!Over
      <4>. QED
        BY <1>6, <1>7, <3>2, <4>1
    <3>. QED
      BY <3>1, <3>2
  <2>. QED
    BY <1>1, <1>5, <2>1, <2>2 DEF Encrypted, A!Over
<1>14. OneByOne'
  <2>. SUFFICES ASSUME AllAlone' PROVE (\A p, q \in A!AtWork' : p = q) /\ UsersApart' /\ \A q \in Runs : RunSound(q)'
    BY DEF OneByOne
  <2>1. AllAlone /\ task[r].alone
    BY <1>1 DEF AllAlone
  <2>2. \A q \in Runs : q # r => pc[q] \in A!Over \cup {"idle"}
    BY <1>1, <2>1 DEF A!AtWork
  <2>3. \A p, q \in A!AtWork' : p = q
    BY <1>5, <2>2 DEF A!AtWork, A!Over
  <2>4. UsersApart'
    BY <1>1, <2>1 DEF AdminInv, OneByOne, UsersApart, Different
  <2>5. \A q \in Runs : RunSound(q)'
    BY <1>5, <2>2 DEF RunSound, A!Over
  <2>. QED
    BY <2>3, <2>4, <2>5
<1>. QED
  BY <1>8, <1>9, <1>10, <1>11, <1>12, <1>13, <1>14 DEF AdminInv

LEMMA RunKilled ==
    ASSUME AdminInv, NEW r \in Runs, A!Killed(r)
    PROVE  AdminInv'
<1>0. /\ pc[r] \notin A!Over \cup {"idle"} /\ pc' = [pc EXCEPT ![r] = "killed"]
      /\ task' = task /\ dir' = dir /\ data' = data /\ input' = input /\ output' = output
      /\ buffer' = buffer /\ secret' = secret /\ cut' = cut /\ intruded' = intruded
  BY DEF A!Killed, A!Goto, A!AtWork
<1>1. AdminTypes'
  BY <1>0 DEF AdminInv, AdminTypes, A!TypeOK, A!Over, KeyRun, UserRun, A!Inode, A!None, A!Name
<1>2. Commands'
  BY <1>0 DEF AdminInv, Commands, KeyRun, WithKey, AdminTypes, A!TypeOK
<1>3. Kinds'
  BY <1>0 DEF AdminInv, Kinds, KeyRun, UserRun, WithKey, WithUser, Before, AdminTypes, A!TypeOK
<1>4. Unmade'
  BY <1>0 DEF AdminInv, Unmade, Before, AdminTypes, A!TypeOK
<1>5. Keys'
  BY <1>0 DEF AdminInv, Keys, KeyDone, KeyRun, AdminTypes, A!TypeOK
<1>6. Encrypted'
  BY <1>0 DEF AdminInv, Encrypted, AdminTypes, A!TypeOK, Keyed, KeyRun, UserRun, A!Over
<1>7. OneByOne'
  <2>1. AllAlone => UsersApart' /\ RunSound(r)'
    BY <1>0 DEF AdminInv, OneByOne, AdminTypes, A!TypeOK, UsersApart, RunSound, Different
  <2>. QED
    BY <1>0, <2>1, OneAtATime
<1>. QED
  BY <1>1, <1>2, <1>3, <1>4, <1>5, <1>6, <1>7 DEF AdminInv

LEMMA AddChecks ==
    ASSUME AdminInv, NEW r \in Runs, A!AddCheck(r)
    PROVE  AdminInv'
<1>1. AdminTypes'
  BY AdminAssumption DEF AdminInv, AdminTypes, A!TypeOK, A!AddCheck, A!Goto, A!Over, KeyRun, UserRun, A!Inode, Kinds, WithUser, A!None
<1>2. Commands'
  BY DEF AdminInv, Commands, A!AddCheck, A!Goto, KeyRun, WithKey, AdminTypes, A!TypeOK
<1>3. Kinds'
  BY DEF AdminInv, Kinds, A!AddCheck, A!Goto, KeyRun, UserRun, WithKey, WithUser, Before, AdminTypes, A!TypeOK
<1>4. Unmade'
  BY DEF AdminInv, Unmade, A!AddCheck, A!Goto, Before, AdminTypes, A!TypeOK
<1>5. Keys'
  BY DEF AdminInv, Keys, KeyDone, KeyRun, A!AddCheck, A!Goto, AdminTypes, A!TypeOK
<1>6. Encrypted'
  BY DEF AdminInv, Encrypted, A!AddCheck, A!Goto, AdminTypes, A!TypeOK, Keyed, KeyRun, UserRun, A!Over
<1>7. OneByOne'
  <2>. DEFINE at == IF A!Knows(buffer[r], task[r].user) \/ Len(buffer[r]) > NumberOfUsers
                      THEN "failed" ELSE "add_append"
  <2>0. /\ pc[r] = "add_check" /\ pc' = [pc EXCEPT ![r] = at] /\ task' = task /\ dir' = dir /\ data' = data
        /\ output' = output /\ buffer' = buffer /\ cut' = cut
    BY DEF A!AddCheck, A!Goto
  <2>1. at \in {"failed", "add_append"} /\ (at = "add_append" => ~ A!Knows(buffer[r], task[r].user))
    OBVIOUS
  <2>. HIDE DEF at
  <2>2. pc'[r] = at
    BY <2>0, AdminFacts
  <2>3. AllAlone => UsersApart' /\ RunSound(r)'
    BY <2>0, <2>1, <2>2 DEF AdminInv, OneByOne, UsersApart, RunSound, Different, A!Knows
  <2>. QED
    BY <2>0, <2>3, OneAtATime DEF A!Over
<1>. QED
  BY <1>1, <1>2, <1>3, <1>4, <1>5, <1>6, <1>7 DEF AdminInv

\* The users file is opened, or made by the run itself.
LEMMA AddOpens ==
    ASSUME AdminInv, NEW r \in Runs, A!AddOpen(r)
    PROVE  AdminInv'
<1>. DEFINE i == IF dir["users"] = "none" THEN r ELSE dir["users"]
<1>. USE AdminFacts
<1>0. /\ pc[r] = "add" /\ pc' = [pc EXCEPT ![r] = "add_check"] /\ dir' = [dir EXCEPT !["users"] = i]
      /\ output' = [output EXCEPT ![r] = i] /\ buffer' = [buffer EXCEPT ![r] = data[i]]
      /\ task' = task /\ data' = data /\ input' = input /\ secret' = secret /\ cut' = cut /\ intruded' = intruded
  BY DEF A!AddOpen, A!Goto, A!None
<1>1. r \in UserRun
  BY <1>0 DEF AdminInv, Commands, UserRun, KeyRun
<1>2. i \in UserRun
  BY <1>1 DEF AdminInv, Kinds
<1>3. data[r] = << >> /\ (\A n \in A!Name : dir[n] # r) /\ \A q \in Runs : output[q] # r
  BY <1>0 DEF AdminInv, Unmade, Before
<1>4. \A q \in Runs : q # r /\ pc[q] \in Before => i # q
  BY DEF AdminInv, Unmade, A!Name
<1>5. i # dir["users.tmp"] \/ dir["users"] = dir["users.tmp"]
  BY <1>3 DEF A!Name
<1>6. dir["users"] = "none" => Len(data[i]) = 0 /\ i # dir["users.tmp"]
  BY <1>3, EmptySeq DEF A!Name
<1>6a. dir["users"] # "none" => i = dir["users"]
  OBVIOUS
<1>. HIDE DEF i
<1>7. /\ \A q \in Runs : pc'[q] = IF q = r THEN "add_check" ELSE pc[q]
      /\ \A q \in Runs : output'[q] = IF q = r THEN i ELSE output[q]
      /\ \A n \in A!Name : dir'[n] = IF n = "users" THEN i ELSE dir[n]
      /\ KeyRun' = KeyRun /\ UserRun' = UserRun
  BY <1>0 DEF KeyRun, UserRun, A!Name
<1>8. /\ buffer' \in [Runs -> Seq(Entry)]
      /\ \A q \in Runs : buffer'[q] = IF q = r THEN data[i] ELSE buffer[q]
  BY <1>0, <1>2 DEF AdminInv, AdminTypes
<1>9. AdminTypes'
  <2>1. pc' \in [Runs -> AdminPlaces]
    BY <1>0 DEF AdminPlaces
  <2>2. \A q \in Runs : pc'[q] \in {"key_write", "key_link", "add_append", "rename"} => output'[q] # "none"
    BY <1>2, <1>7 DEF AdminInv, AdminTypes, A!TypeOK, A!None
  <2>3. /\ \A q \in KeyRun : data'[q] \in {<< >>, << q >>}
        /\ \A q \in UserRun : data'[q] \in Seq(Entry)
        /\ secret' \in [Runs -> Runs \cup {"none"}]
    BY <1>0 DEF AdminInv, AdminTypes
  <2>4. dir' \in [A!Name -> A!Inode \cup {"none"}] /\ output' \in [Runs -> A!Inode \cup {"none"}]
    BY <1>0, <1>2
  <2>. QED
    BY <1>0, <1>8, <2>1, <2>2, <2>3, <2>4, TypesByParts
<1>10. Commands'
  BY <1>0, <1>7 DEF AdminInv, Commands, WithKey
<1>11. Kinds'
  BY <1>0, <1>2, <1>7 DEF AdminInv, Kinds, WithKey, WithUser, Before, A!Name
<1>12. Unmade'
  BY <1>0, <1>4, <1>7 DEF AdminInv, Unmade, Before, A!Name
<1>13. Keys'
  BY <1>0, <1>7 DEF AdminInv, Keys, KeyDone, KeyRun, A!Name
<1>14. Encrypted'
  <2>1. \A q \in UserRun : Keyed(data[q]) /\ Keyed(buffer[q])
    BY DEF AdminInv, Encrypted
  <2>2. \A q \in UserRun : Keyed(data[q])' /\ Keyed(buffer[q])'
    BY <1>0, <1>2, <1>7, <1>8, <2>1 DEF Keyed, A!Name
  <2>3. \A q \in UserRun : task[q].command # "remove" /\ pc'[q] \notin A!Over \cup {"idle"} =>
           dir'["key"] # "none" /\ secret[q] = dir'["key"]
    BY <1>0, <1>7 DEF AdminInv, Encrypted, A!Over, A!Name
  <2>. QED
    BY <1>0, <1>7, <2>2, <2>3 DEF Encrypted, A!Over
<1>15. OneByOne'
  <2>1. ASSUME AllAlone PROVE UsersApart' /\ RunSound(r)'
    <3>1. UsersApart
      BY <2>1 DEF AdminInv, OneByOne
    <3>2. dir'["users"] = i /\ dir'["users.tmp"] = dir["users.tmp"]
      BY <1>7 DEF A!Name
    <3>3. i # dir["users.tmp"] /\ Different(data[i])
      BY <1>5, <1>6, <1>6a, <3>1 DEF UsersApart, Different
    <3>4. UsersApart'
      BY <1>0, <3>2, <3>3 DEF UsersApart, Different
    <3>5. RunSound(r)'
      BY <1>0, <1>2, <1>7, <1>8, <3>2 DEF RunSound
    <3>. QED
      BY <3>4, <3>5
  <2>. QED
    BY <1>0, <2>1, OneAtATime DEF A!Over
<1>. QED
  BY <1>9, <1>10, <1>11, <1>12, <1>13, <1>14, <1>15 DEF AdminInv

\* A broken line has the user of the whole one.
LEMMA BrokenFacts ==
    ASSUME NEW e \in Entry
    PROVE  /\ A!Torn(e) \in Entry /\ A!Torn(e).user = e.user /\ A!Torn(e).key = "cut"
           /\ A!Joined(e) \in Entry /\ A!Joined(e).user = e.user /\ A!Joined(e).key = "joined"
BY DEF Entry, A!Torn, A!Joined, A!Broken

\* A line that is added comes after the others, or becomes part of the last one.
Longer(s, e, v, n) ==
    \/ /\ Len(v) = n + 1 /\ v[n + 1] = e
       /\ \A j \in 1..n : v[j] = s[j]
    \/ /\ n > 0 /\ s[n].key = "cut" /\ Len(v) = n
       /\ v[n].key \in A!Broken /\ v[n].user = s[n].user
       /\ \A j \in 1..(n - 1) : v[j] = s[j]

LEMMA AddedFacts ==
    ASSUME NEW s \in Seq(Entry), NEW e \in Entry
    PROVE  A!Added(s, e) \in Seq(Entry) /\ Len(s) \in Nat /\ Longer(s, e, A!Added(s, e), Len(s))
<1>. DEFINE v == A!Added(s, e)
            n == Len(s)
<1>1. n \in Nat /\ DOMAIN s = 1..n /\ s \in [1..n -> Entry]
  BY LenProperties
<1>2. CASE n > 0 /\ s[n].key = "cut"
  <2>. DEFINE x == IF e.key = "cut" THEN s[n] ELSE A!Joined(s[n])
  <2>1. v = [s EXCEPT ![n] = x]
    BY <1>2 DEF A!Added
  <2>2. s[n] \in Entry /\ n \in 1..n
    BY <1>1, <1>2
  <2>3. x \in Entry /\ x.user = s[n].user /\ x.key \in A!Broken
    <3>1. CASE e.key = "cut"
      BY <1>2, <2>2, <3>1 DEF A!Broken
    <3>2. CASE e.key # "cut"
      BY <2>2, <3>2, BrokenFacts DEF A!Broken
    <3>. QED
      BY <3>1, <3>2
  <2>. HIDE DEF x, v, n
  <2>4. v \in [1..n -> Entry] /\ v[n] = x /\ \A j \in 1..(n - 1) : v[j] = s[j]
    <3>. HIDE DEF Entry
    <3>. QED
      BY <1>1, <2>1, <2>2, <2>3
  <2>5. v \in Seq(Entry) /\ Len(v) = n
    <3>. HIDE DEF Entry
    <3>. QED
      BY <1>1, <2>4, SeqDef, LenProperties
  <2>6. Longer(s, e, v, n)
    BY <1>2, <2>3, <2>4, <2>5 DEF Longer
  <2>. QED
    BY <1>1, <2>5, <2>6 DEF v, n
<1>3. CASE ~ (n > 0 /\ s[n].key = "cut")
  <2>1. v = Append(s, e)
    BY <1>3 DEF A!Added
  <2>2. /\ v \in Seq(Entry) /\ Len(v) = n + 1 /\ v[n + 1] = e
        /\ \A j \in 1..n : v[j] = s[j]
    <3>. HIDE DEF Entry
    <3>. QED
      BY <1>1, <2>1, AppendProperties
  <2>. HIDE DEF v, n
  <2>3. Longer(s, e, v, n)
    BY <2>2 DEF Longer
  <2>. QED
    BY <1>1, <2>2, <2>3 DEF v, n
<1>. QED
  BY <1>2, <1>3

\* One line at the end, encrypted under the key that is there, or a piece of it.
LEMMA AddAppends ==
    ASSUME AdminInv, NEW r \in Runs, A!AddAppend(r)
    PROVE  AdminInv'
<1>. DEFINE o == output[r]
<1>. USE AdminFacts
<1>0. /\ pc[r] = "add_append"
      /\ task' = task /\ dir' = dir /\ input' = input /\ output' = output /\ buffer' = buffer
      /\ secret' = secret /\ intruded' = intruded
      /\ \/ /\ data' = [data EXCEPT ![o] = A!Added(data[o], A!Entry(r))] /\ cut' = cut
            /\ pc' = [pc EXCEPT ![r] = "done"]
         \/ /\ data' = [data EXCEPT ![o] = A!Added(data[o], A!Torn(A!Entry(r)))] /\ cut' = cut \cup {r}
            /\ pc' = [pc EXCEPT ![r] = "done"]
         \/ data' = data /\ cut' = cut \cup {r} /\ pc' = [pc EXCEPT ![r] = "done"]
         \/ data' = data /\ cut' = cut /\ pc' = [pc EXCEPT ![r] = "failed"]
  BY DEF A!AddAppend, A!Goto
<1>1. r \in UserRun /\ o \in UserRun /\ task[r].command = "add"
  BY <1>0 DEF AdminInv, Commands, UserRun, KeyRun, Kinds, WithUser
<1>2. secret[r] = dir["key"] /\ secret[r] \in Runs
  BY <1>0, <1>1 DEF AdminInv, Encrypted, A!Over, Kinds
<1>3. /\ A!Entry(r) \in Entry /\ A!Entry(r).user = task[r].user /\ A!Entry(r).key = dir["key"]
      /\ A!Torn(A!Entry(r)) \in Entry /\ A!Torn(A!Entry(r)).user = task[r].user
      /\ A!Torn(A!Entry(r)).key = "cut"
  BY <1>2, EntryOf, BrokenFacts
<1>3a. cut \subseteq cut' /\ cut' \subseteq Runs
  BY <1>0
<1>3b. PICK e \in Entry :
         /\ e.user = task[r].user
         /\ e.key = dir["key"] \/ (e.key \in A!Broken /\ cut' # {})
         /\ data' = data \/ data' = [data EXCEPT ![o] = A!Added(data[o], e)]
  BY <1>0, <1>3 DEF A!Broken
<1>4. data[o] \in Seq(Entry) /\ Keyed(data[o])
  BY <1>1 DEF AdminInv, AdminTypes, Encrypted
<1>. DEFINE v == A!Added(data[o], e)
            n == Len(data[o])
<1>5. v \in Seq(Entry) /\ n \in Nat /\ Longer(data[o], e, v, n)
  BY <1>4, AddedFacts
<1>5a. data' = data \/ data' = [data EXCEPT ![o] = v]
  BY <1>3b
<1>. HIDE DEF v
<1>6. /\ dir["key"] # "none"
      /\ \A j \in 1..Len(v) : v[j].key = dir["key"] \/ (v[j].key \in A!Broken /\ cut' # {})
  <2>. DEFINE d == data[o]
  <2>0. dir["key"] # "none" /\ dir["key"] \notin A!Broken
    BY <1>2, AdminAssumption DEF A!Broken
  <2>1. \A j \in 1..n : d[j].key = dir["key"] \/ (d[j].key \in A!Broken /\ cut # {})
    BY <1>4 DEF Keyed
  <2>2. cut # {} => cut' # {}
    BY <1>3a
  <2>3. CASE Len(v) = n + 1 /\ v[n + 1] = e /\ \A j \in 1..n : v[j] = d[j]
    <3>. SUFFICES ASSUME NEW j \in 1..Len(v)
                  PROVE  v[j].key = dir["key"] \/ (v[j].key \in A!Broken /\ cut' # {})
      BY <2>0
    <3>. HIDE DEF d, n
    <3>1. CASE j = n + 1
      BY <1>3b, <2>3, <3>1
    <3>2. CASE j \in 1..n
      BY <2>1, <2>2, <2>3, <3>2
    <3>. QED
      BY <1>5, <2>3, <3>1, <3>2
  <2>4. CASE /\ n > 0 /\ d[n].key = "cut" /\ Len(v) = n /\ v[n].key \in A!Broken
             /\ \A j \in 1..(n - 1) : v[j] = d[j]
    <3>. HIDE DEF d, n
    <3>1. n \in 1..n /\ d[n].key \in A!Broken
      BY <1>5, <2>4 DEF A!Broken
    <3>2. cut' # {}
      BY <2>0, <2>1, <2>2, <3>1
    <3>. SUFFICES ASSUME NEW j \in 1..Len(v)
                  PROVE  v[j].key = dir["key"] \/ (v[j].key \in A!Broken /\ cut' # {})
      BY <2>0
    <3>3. CASE j = n
      BY <2>4, <3>2, <3>3
    <3>4. CASE j \in 1..(n - 1)
      BY <1>5, <2>1, <2>4, <3>2, <3>4
    <3>. QED
      BY <1>5, <2>4, <3>3, <3>4
  <2>. QED
    BY <1>5, <2>3, <2>4 DEF Longer
<1>7. PICK at \in {"done", "failed"} : pc' = [pc EXCEPT ![r] = at]
  BY <1>0
<1>8. /\ \A q \in Runs : pc'[q] = IF q = r THEN at ELSE pc[q]
      /\ DOMAIN data' = A!Inode
      /\ \A q \in Runs : q # o => data'[q] = data[q]
      /\ data'[o] \in {v, data[o]}
      /\ KeyRun' = KeyRun /\ UserRun' = UserRun
  BY <1>0, <1>1, <1>5a, <1>7 DEF KeyRun, UserRun
<1>9. o \notin KeyRun /\ \A q \in Runs : pc[q] \in Before => o # q
  BY <1>1 DEF UserRun, AdminInv, Unmade
<1>10. AdminTypes'
  <2>1. pc' \in [Runs -> AdminPlaces]
    BY <1>7 DEF AdminPlaces, A!Over
  <2>2. \A q \in Runs : pc'[q] \in {"key_write", "key_link", "add_append", "rename"} => output'[q] # "none"
    BY <1>0, <1>8 DEF AdminInv, AdminTypes, A!TypeOK, A!None
  <2>3. /\ \A q \in KeyRun : data'[q] \in {<< >>, << q >>}
        /\ secret' \in [Runs -> Runs \cup {"none"}] /\ buffer' \in [Runs -> Seq(Entry)]
    BY <1>0, <1>8, <1>9 DEF AdminInv, AdminTypes
  <2>4. \A q \in UserRun : data'[q] \in Seq(Entry)
    BY <1>4, <1>5, <1>8 DEF AdminInv, AdminTypes
  <2>. QED
    BY <1>0, <1>3a, <1>8, <2>1, <2>2, <2>3, <2>4, TypesByParts
<1>11. Commands'
  BY <1>0, <1>8 DEF AdminInv, Commands, WithKey
<1>12. Kinds'
  BY <1>0, <1>8 DEF AdminInv, Kinds, WithKey, WithUser, Before
<1>13. Unmade'
  BY <1>0, <1>8, <1>9 DEF AdminInv, Unmade, Before
<1>14. Keys'
  <2>1. \A q \in KeyRun : pc'[q] \in KeyDone => data'[q] = << q >>
    BY <1>1, <1>8, <1>9 DEF AdminInv, Keys, KeyDone, UserRun
  <2>2. ~ intruded => \A q \in Runs : pc'[q] \in {"key_write", "key_link"} => dir["key.tmp"] = q
    BY <1>8 DEF AdminInv, Keys, KeyDone, KeyRun
  <2>3. ~ intruded /\ dir["key"] # "none" => data'[dir["key"]] = << dir["key"] >>
    BY <1>8, <1>9 DEF AdminInv, Keys, KeyDone, KeyRun, Kinds
  <2>. QED
    BY <1>0, <2>1, <2>2, <2>3 DEF Keys, KeyDone, KeyRun
<1>15. Encrypted'
  <2>1. \A q \in UserRun : Keyed(data[q]) /\ Keyed(buffer[q])
    BY DEF AdminInv, Encrypted
  <2>2. ASSUME NEW q \in UserRun PROVE Keyed(data[q])' /\ Keyed(buffer[q])'
    <3>1. Keyed(buffer[q])'
      BY <1>0, <1>3a, <2>1 DEF Keyed
    <3>2. CASE data'[q] = data[q]
      BY <1>0, <1>3a, <2>1, <3>1, <3>2 DEF Keyed
    <3>3. CASE q = o /\ data'[o] = v
      BY <1>0, <1>6, <3>1, <3>3 DEF Keyed
    <3>. QED
      BY <1>8, <3>2, <3>3
  <2>3. \A q \in UserRun : task[q].command # "remove" /\ pc'[q] \notin A!Over \cup {"idle"} =>
           dir'["key"] # "none" /\ secret[q] = dir'["key"]
    BY <1>0, <1>8 DEF AdminInv, Encrypted, A!Over
  <2>. QED
    BY <1>0, <1>8, <2>2, <2>3 DEF Encrypted, A!Over
<1>16. OneByOne'
  <2>1. ASSUME AllAlone PROVE UsersApart' /\ RunSound(r)'
    <3>1. UsersApart /\ RunSound(r)
      BY <2>1 DEF AdminInv, OneByOne
    <3>2. /\ dir["users"] = o /\ buffer[r] = data[o] /\ ~ A!Knows(data[o], task[r].user)
      BY <1>0, <3>1 DEF RunSound
    <3>3. dir["users.tmp"] # o /\ Different(data[o])
      BY <1>1, <3>1, <3>2 DEF UsersApart
    <3>4. \A j \in 1..Len(data[o]) : data[o][j].user # e.user
      BY <1>3b, <1>4, <3>2, LenProperties DEF A!Knows
    <3>5. Different(v)
      <4>. DEFINE d == data[o]
      <4>. SUFFICES ASSUME NEW a \in 1..Len(v), NEW b \in 1..Len(v), v[a].user = v[b].user PROVE a = b
        BY DEF Different
      <4>1. /\ n \in Nat /\ \A j \in 1..n : d[j].user # e.user
            /\ \A j, k \in 1..n : d[j].user = d[k].user => j = k
        BY <1>5, <3>3, <3>4 DEF Different
      <4>2. CASE Len(v) = n + 1 /\ v[n + 1] = e /\ \A j \in 1..n : v[j] = d[j]
        <5>. HIDE DEF d, n
        <5>1. CASE a = n + 1 \/ b = n + 1
          BY <4>1, <4>2, <5>1
        <5>2. CASE a \in 1..n /\ b \in 1..n
          BY <4>1, <4>2, <5>2
        <5>. QED
          BY <4>1, <4>2, <5>1, <5>2
      <4>3. CASE n > 0 /\ Len(v) = n /\ v[n].user = d[n].user /\ \A j \in 1..(n - 1) : v[j] = d[j]
        <5>. HIDE DEF d, n
        <5>1. \A j \in 1..n : v[j].user = d[j].user
          BY <4>1, <4>3
        <5>. QED
          BY <4>1, <4>3, <5>1
      <4>. QED
        BY <1>5, <4>2, <4>3 DEF Longer
    <3>6. UsersApart'
      BY <1>0, <1>8, <3>2, <3>3, <3>5 DEF UsersApart, Different
    <3>7. RunSound(r)'
      BY <1>8 DEF RunSound
    <3>. QED
      BY <3>6, <3>7
  <2>. QED
    BY <1>0, <1>7, <2>1, OneAtATime DEF A!Over
<1>. QED
  BY <1>10, <1>11, <1>12, <1>13, <1>14, <1>15, <1>16 DEF AdminInv

\* A temporary file that is there is emptied; the users file is another one.
LEMMA RewriteOpens ==
    ASSUME AdminInv, NEW r \in Runs, A!RewriteOpen(r)
    PROVE  AdminInv'
<1>. DEFINE i == IF dir["users.tmp"] = "none" THEN r ELSE dir["users.tmp"]
            u == dir["users"]
<1>. USE AdminFacts
<1>0. /\ pc[r] \in {"update", "remove"} /\ task' = task /\ secret' = secret /\ cut' = cut /\ intruded' = intruded
  BY DEF A!RewriteOpen
<1>1. r \in UserRun
  BY <1>0 DEF AdminInv, Commands, UserRun, KeyRun
<1>2. CASE u = "none"
  <2>0. /\ pc' = [pc EXCEPT ![r] = "failed"]
        /\ dir' = dir /\ data' = data /\ input' = input /\ output' = output /\ buffer' = buffer
    BY <1>2 DEF A!RewriteOpen, A!Goto, A!None
  <2>1. AdminTypes'
    BY <1>0, <2>0 DEF AdminInv, AdminTypes, A!TypeOK, A!Over, KeyRun, UserRun, A!Inode, A!None, A!Name
  <2>2. Commands'
    BY <1>0, <2>0 DEF AdminInv, Commands, KeyRun, WithKey, AdminTypes, A!TypeOK
  <2>3. Kinds'
    BY <1>0, <2>0 DEF AdminInv, Kinds, KeyRun, UserRun, WithKey, WithUser, Before, AdminTypes, A!TypeOK
  <2>4. Unmade'
    BY <1>0, <2>0 DEF AdminInv, Unmade, Before, AdminTypes, A!TypeOK
  <2>5. Keys'
    BY <1>0, <2>0 DEF AdminInv, Keys, KeyDone, KeyRun, AdminTypes, A!TypeOK
  <2>6. Encrypted'
    <3>1. \A q \in UserRun : Keyed(data[q])' /\ Keyed(buffer[q])'
      BY <1>0, <2>0 DEF AdminInv, Encrypted, Keyed
    <3>2. \A q \in Runs : pc'[q] \notin A!Over \cup {"idle"} => pc[q] \notin A!Over \cup {"idle"}
      BY <2>0 DEF A!Over
    <3>3. \A q \in UserRun : task[q].command # "remove" /\ pc'[q] \notin A!Over \cup {"idle"} =>
             dir["key"] # "none" /\ secret[q] = dir["key"]
      BY <3>2 DEF AdminInv, Encrypted
    <3>4. UserRun' = UserRun
      BY <1>0 DEF UserRun, KeyRun
    <3>. QED
      BY <1>0, <2>0, <3>1, <3>3, <3>4 DEF Encrypted, A!Over
  <2>7. OneByOne'
    <3>1. AllAlone => UsersApart' /\ RunSound(r)'
      BY <1>0, <2>0 DEF AdminInv, OneByOne, AdminTypes, A!TypeOK, UsersApart, RunSound, Different
    <3>. QED
      BY <1>0, <2>0, <3>1, OneAtATime DEF A!Over
  <2>. QED
    BY <2>1, <2>2, <2>3, <2>4, <2>5, <2>6, <2>7 DEF AdminInv
<1>3. CASE u # "none"
  <2>0. /\ pc' = [pc EXCEPT ![r] = "rewrite"] /\ dir' = [dir EXCEPT !["users.tmp"] = i]
        /\ data' = [data EXCEPT ![i] = << >>] /\ input' = [input EXCEPT ![r] = u]
        /\ output' = [output EXCEPT ![r] = i] /\ buffer' = [buffer EXCEPT ![r] = data[u]]
    BY <1>3 DEF A!RewriteOpen, A!Goto, A!None
  <2>1. i \in UserRun /\ u \in UserRun
    BY <1>1, <1>3 DEF AdminInv, Kinds
  <2>2. (\A n \in A!Name : dir[n] # r) /\ \A q \in Runs : output[q] # r
    BY <1>0 DEF AdminInv, Unmade, Before
  <2>3. i # u \/ u = dir["users.tmp"]
    BY <2>2 DEF A!Name
  <2>4. i \notin KeyRun /\ \A q \in Runs : q # r /\ pc[q] \in Before => i # q
    BY <2>1 DEF UserRun, AdminInv, Unmade, A!Name
  <2>. HIDE DEF i
  <2>5. u = dir["users"] /\ u \in Runs
    BY <2>1
  <2>. HIDE DEF u
  <2>6. /\ \A q \in Runs : pc'[q] = IF q = r THEN "rewrite" ELSE pc[q]
        /\ \A q \in Runs : output'[q] = IF q = r THEN i ELSE output[q]
        /\ \A n \in A!Name : dir'[n] = IF n = "users.tmp" THEN i ELSE dir[n]
        /\ \A q \in Runs : data'[q] = IF q = i THEN << >> ELSE data[q]
        /\ DOMAIN data' = A!Inode
        /\ KeyRun' = KeyRun /\ UserRun' = UserRun
    BY <1>0, <2>0, <2>1 DEF KeyRun, UserRun, A!Name
  <2>7. /\ buffer' \in [Runs -> Seq(Entry)]
        /\ \A q \in Runs : buffer'[q] = IF q = r THEN data[u] ELSE buffer[q]
    BY <2>0, <2>1 DEF AdminInv, AdminTypes
  <2>8. AdminTypes'
    <3>1. pc' \in [Runs -> AdminPlaces]
      BY <2>0 DEF AdminPlaces
    <3>2. \A q \in Runs : pc'[q] \in {"key_write", "key_link", "add_append", "rename"} => output'[q] # "none"
      BY <2>1, <2>6 DEF AdminInv, AdminTypes, A!TypeOK, A!None
    <3>3. /\ \A q \in KeyRun : data'[q] \in {<< >>, << q >>}
          /\ secret' \in [Runs -> Runs \cup {"none"}]
      BY <1>0, <2>4, <2>6 DEF AdminInv, AdminTypes
    <3>4. \A q \in UserRun : data'[q] \in Seq(Entry)
      <4>1. << >> \in Seq(Entry)
        BY EmptySeq
      <4>. QED
        BY <2>6, <4>1 DEF AdminInv, AdminTypes
    <3>5. /\ dir' \in [A!Name -> A!Inode \cup {"none"}] /\ output' \in [Runs -> A!Inode \cup {"none"}]
          /\ input' \in [Runs -> A!Inode \cup {"none"}]
      BY <2>0, <2>1
    <3>. QED
      BY <1>0, <2>6, <2>7, <3>1, <3>2, <3>3, <3>4, <3>5, TypesByParts
  <2>9. Commands'
    BY <1>0, <2>6 DEF AdminInv, Commands, WithKey
  <2>10. Kinds'
    BY <2>1, <2>6 DEF AdminInv, Kinds, WithKey, WithUser, Before, A!Name
  <2>11. Unmade'
    BY <2>4, <2>6 DEF AdminInv, Unmade, Before, A!Name
  <2>12. Keys'
    <3>1. \A q \in KeyRun : pc'[q] \in KeyDone => data'[q] = << q >>
      BY <2>4, <2>6 DEF AdminInv, Keys, KeyDone, KeyRun, Commands, WithKey
    <3>2. ~ intruded => \A q \in Runs : pc'[q] \in {"key_write", "key_link"} => dir'["key.tmp"] = q
      BY <2>6 DEF AdminInv, Keys, KeyDone, KeyRun, A!Name
    <3>3. ~ intruded /\ dir'["key"] # "none" => data'[dir'["key"]] = << dir'["key"] >>
      BY <2>4, <2>6 DEF AdminInv, Keys, KeyDone, KeyRun, Kinds, A!Name
    <3>. QED
      BY <1>0, <3>1, <3>2, <3>3 DEF Keys, KeyDone, KeyRun
  <2>13. Encrypted'
    <3>1. \A q \in UserRun : Keyed(data[q]) /\ Keyed(buffer[q])
      BY DEF AdminInv, Encrypted
    <3>2. \A q \in UserRun : Keyed(data[q])' /\ Keyed(buffer[q])'
      <4>. SUFFICES ASSUME NEW q \in UserRun PROVE Keyed(data[q])' /\ Keyed(buffer[q])'
        OBVIOUS
      <4>1. dir'["key"] = dir["key"]
        BY <2>6 DEF A!Name
      <4>2. Keyed(buffer[q])'
        <5>1. Keyed(data[u]) /\ Keyed(buffer[q])
          BY <2>1, <3>1
        <5>2. buffer'[q] = data[u] \/ buffer'[q] = buffer[q]
          BY <2>7
        <5>. QED
          BY <1>0, <4>1, <5>1, <5>2 DEF Keyed
      <4>3. CASE q # i
        BY <1>0, <2>6, <3>1, <4>1, <4>2, <4>3 DEF Keyed
      <4>4. CASE q = i
        <5>1. data'[q] = << >> /\ Len(<< >>) = 0
          BY <2>6, <4>4, EmptySeq
        <5>. QED
          BY <4>2, <5>1 DEF Keyed
      <4>. QED
        BY <4>3, <4>4
    <3>3. \A q \in UserRun : task[q].command # "remove" /\ pc'[q] \notin A!Over \cup {"idle"} =>
             dir'["key"] # "none" /\ secret[q] = dir'["key"]
      BY <1>0, <2>6 DEF AdminInv, Encrypted, A!Over, A!Name
    <3>. QED
      BY <1>0, <2>6, <3>2, <3>3 DEF Encrypted, A!Over
  <2>14. OneByOne'
    <3>1. ASSUME AllAlone PROVE UsersApart' /\ RunSound(r)'
      <4>1. UsersApart
        BY <3>1 DEF AdminInv, OneByOne
      <4>2. dir'["users"] = u /\ dir'["users.tmp"] = i /\ u # "none"
        BY <1>3, <2>5, <2>6 DEF A!Name
      <4>3. i # u /\ Different(data[u])
        BY <1>3, <2>3, <2>5, <4>1 DEF UsersApart
      <4>4. data'[u] = data[u]
        BY <2>5, <2>6, <4>3
      <4>5. UsersApart'
        BY <4>2, <4>3, <4>4 DEF UsersApart, Different
      <4>6. RunSound(r)'
        BY <2>1, <2>6, <2>7, <4>2, <4>4 DEF RunSound
      <4>. QED
        BY <4>5, <4>6
    <3>. QED
      BY <1>0, <2>0, <3>1, OneAtATime DEF A!Over
  <2>. QED
    BY <2>8, <2>9, <2>10, <2>11, <2>12, <2>13, <2>14 DEF AdminInv
<1>. QED
  BY <1>2, <1>3

\* What there is of lines whose writing came out short.
LEMMA ShortFacts ==
    ASSUME NEW s \in Seq(Entry), NEW t \in A!Short(s)
    PROVE  /\ t \in Seq(Entry) /\ Len(t) \in Nat /\ Len(t) <= Len(s) /\ Len(s) \in Nat
           /\ \A j \in 1..Len(t) : t[j].user = s[j].user /\ (t[j].key = s[j].key \/ t[j].key = "cut")
<1>1. PICK n \in 1..Len(s) :
        \/ t = [i \in 1..(n - 1) |-> s[i]]
        \/ t = [i \in 1..n |-> IF i = n THEN A!Torn(s[i]) ELSE s[i]]
  BY DEF A!Short
<1>2. Len(s) \in Nat /\ n \in Nat /\ n <= Len(s) /\ \A j \in 1..Len(s) : s[j] \in Entry
  BY <1>1, LenProperties, ElementOfSeq
<1>3. \A j \in 1..n : /\ s[j] \in Entry /\ A!Torn(s[j]) \in Entry /\ A!Torn(s[j]).user = s[j].user
                       /\ A!Torn(s[j]).key = "cut"
  BY <1>2, BrokenFacts
<1>. DEFINE m == IF t = [i \in 1..(n - 1) |-> s[i]] THEN n - 1 ELSE n
<1>4. /\ m \in Nat /\ m <= Len(s) /\ t \in [1..m -> Entry]
      /\ \A j \in 1..m : t[j].user = s[j].user /\ (t[j].key = s[j].key \/ t[j].key = "cut")
  <2>. HIDE DEF Entry
  <2>1. CASE t = [i \in 1..(n - 1) |-> s[i]]
    <3>1. m = n - 1
      BY <2>1
    <3>. HIDE DEF m
    <3>. QED
      BY <1>2, <1>3, <2>1, <3>1
  <2>2. CASE t # [i \in 1..(n - 1) |-> s[i]]
    <3>1. m = n /\ t = [i \in 1..n |-> IF i = n THEN A!Torn(s[i]) ELSE s[i]]
      BY <1>1, <2>2
    <3>. HIDE DEF m
    <3>. QED
      BY <1>2, <1>3, <3>1
  <2>. QED
    BY <2>1, <2>2
<1>. HIDE DEF m, Entry
<1>5. t \in Seq(Entry) /\ Len(t) = m
  BY <1>4, SeqDef, LenProperties
<1>. QED
  BY <1>2, <1>4, <1>5

\* Lines that can be decrypted or are broken once the step is done.
KeyedAfter(s) ==
    \A i \in 1..Len(s) :
        dir["key"] # "none" /\ (s[i].key = dir["key"] \/ (s[i].key \in A!Broken /\ cut' # {}))

LEMMA PutFacts ==
    ASSUME AdminInv, NEW r \in Runs, NEW s \in Seq(Entry), Keyed(s), A!Put(r, s)
    PROVE  /\ cut \subseteq cut' /\ cut' \subseteq Runs
           /\ \E t \in Seq(Entry) :
                /\ KeyedAfter(t) /\ (Different(s) => Different(t)) /\ (r \notin cut' => t = s)
                /\ data' = [data EXCEPT ![output[r]] = A!Overlay(t, data[output[r]])]
<1>0. cut \subseteq Runs
  BY AdminFacts
<1>1. CASE data' = [data EXCEPT ![output[r]] = A!Overlay(s, data[output[r]])] /\ cut' = cut
  <2>1. KeyedAfter(s)
    BY <1>1 DEF Keyed, KeyedAfter
  <2>. QED
    BY <1>0, <1>1, <2>1
<1>2. CASE /\ \E t \in A!Short(s) : data' = [data EXCEPT ![output[r]] = A!Overlay(t, data[output[r]])]
           /\ cut' = cut \cup {r}
  <2>1. PICK t \in A!Short(s) : data' = [data EXCEPT ![output[r]] = A!Overlay(t, data[output[r]])]
    BY <1>2
  <2>2. /\ t \in Seq(Entry) /\ Len(t) \in Nat /\ Len(t) <= Len(s) /\ Len(s) \in Nat
        /\ \A j \in 1..Len(t) : t[j].user = s[j].user /\ (t[j].key = s[j].key \/ t[j].key = "cut")
    BY ShortFacts
  <2>3. KeyedAfter(t)
    <3>1. cut' # {}
      BY <1>2
    <3>. QED
      BY <2>2, <3>1 DEF Keyed, KeyedAfter, A!Broken
  <2>4. Different(s) => Different(t)
    BY <2>2 DEF Different
  <2>. QED
    BY <1>0, <1>2, <2>1, <2>2, <2>3, <2>4
<1>. QED
  BY <1>1, <1>2 DEF A!Put

\* The lines are written over what the temporary file holds; that is nothing where runs do
\* not overlap.
LEMMA Rewrites ==
    ASSUME AdminInv, NEW r \in Runs, A!Rewrite(r)
    PROVE  AdminInv'
<1>. DEFINE o == output[r]
            u == task[r].user
<1>. USE AdminFacts
<1>0. /\ pc[r] = "rewrite" /\ task' = task /\ input' = input /\ output' = output /\ buffer' = buffer
      /\ secret' = secret
  BY DEF A!Rewrite
<1>1. r \in UserRun /\ o \in UserRun /\ task[r].command \in {"update", "remove"}
  BY <1>0 DEF AdminInv, Commands, UserRun, KeyRun, Kinds, WithUser
<1>2. \E t \in Seq(Entry) :
         /\ KeyedAfter(t) /\ data' = [data EXCEPT ![o] = A!Overlay(t, data[o])]
         /\ cut \subseteq cut' /\ cut' \subseteq Runs
         /\ \/ /\ pc' = [pc EXCEPT ![r] = "rename"] /\ dir' = dir /\ intruded' = intruded
               /\ r \notin cut' => KeepsOthers(buffer[r], t, u)
               /\ Different(buffer[r]) => Different(t)
            \/ pc' = [pc EXCEPT ![r] = "failed"] /\ A!Unlink(r, "users.tmp")
  <2>1. CASE A!Knows(buffer[r], u)
    <3>1. /\ \E s \in A!Rewritten(r) : A!Put(r, s)
          /\ pc' = [pc EXCEPT ![r] = "rename"] /\ dir' = dir /\ intruded' = intruded
      BY <2>1 DEF A!Rewrite, A!Goto
    <3>2. PICK s \in A!Rewritten(r) : A!Put(r, s)
      BY <3>1
    <3>3. /\ s \in Seq(Entry) /\ KeepsOthers(buffer[r], s, u) /\ Keyed(s) /\ (Different(buffer[r]) => Different(s))
      BY <1>0, <1>1, RewrittenFacts
    <3>4. /\ cut \subseteq cut' /\ cut' \subseteq Runs
          /\ \E t \in Seq(Entry) :
               /\ KeyedAfter(t) /\ (Different(s) => Different(t)) /\ (r \notin cut' => t = s)
               /\ data' = [data EXCEPT ![output[r]] = A!Overlay(t, data[output[r]])]
      BY <3>2, <3>3, PutFacts
    <3>5. PICK t \in Seq(Entry) :
               /\ KeyedAfter(t) /\ (Different(s) => Different(t)) /\ (r \notin cut' => t = s)
               /\ data' = [data EXCEPT ![output[r]] = A!Overlay(t, data[output[r]])]
      BY <3>4
    <3>. QED
      BY <3>1, <3>3, <3>4, <3>5
  <2>2. CASE ~ A!Knows(buffer[r], u)
    <3>1. /\ A!Put(r, buffer[r])
          /\ pc' = [pc EXCEPT ![r] = "failed"] /\ A!Unlink(r, "users.tmp")
      BY <2>2 DEF A!Rewrite, A!Goto
    <3>2. buffer[r] \in Seq(Entry) /\ Keyed(buffer[r])
      BY <1>1 DEF AdminInv, AdminTypes, Encrypted
    <3>. QED
      BY <3>1, <3>2, PutFacts
  <2>. QED
    BY <2>1, <2>2
<1>3. PICK t \in Seq(Entry) :
         /\ KeyedAfter(t) /\ data' = [data EXCEPT ![o] = A!Overlay(t, data[o])]
         /\ cut \subseteq cut' /\ cut' \subseteq Runs
         /\ \/ /\ pc' = [pc EXCEPT ![r] = "rename"] /\ dir' = dir /\ intruded' = intruded
               /\ r \notin cut' => KeepsOthers(buffer[r], t, u)
               /\ Different(buffer[r]) => Different(t)
            \/ pc' = [pc EXCEPT ![r] = "failed"] /\ A!Unlink(r, "users.tmp")
  BY <1>2
<1>. DEFINE v == A!Overlay(t, data[o])
<1>4. data[o] \in Seq(Entry) /\ Keyed(data[o])
  BY <1>1 DEF AdminInv, AdminTypes, Encrypted
<1>5. v \in Seq(Entry) /\ Elems(v) \subseteq Elems(t) \cup Elems(data[o]) /\ (data[o] = << >> => v = t)
  BY <1>4, OverlayFacts
<1>5a. data' = [data EXCEPT ![o] = v]
  BY <1>3
<1>. HIDE DEF v
<1>6. KeyedAfter(v)
  <2>. SUFFICES ASSUME NEW j \in 1..Len(v)
                PROVE  dir["key"] # "none" /\ (v[j].key = dir["key"] \/ (v[j].key \in A!Broken /\ cut' # {}))
    BY DEF KeyedAfter
  <2>1. v[j] \in Elems(t) \/ v[j] \in Elems(data[o])
    BY <1>5 DEF Elems
  <2>2. CASE v[j] \in Elems(t)
    BY <1>3, <2>2 DEF Elems, KeyedAfter
  <2>3. CASE v[j] \in Elems(data[o])
    BY <1>3, <1>4, <2>3 DEF Elems, Keyed
  <2>. QED
    BY <2>1, <2>2, <2>3
<1>7. PICK at \in {"rename", "failed"} : pc' = [pc EXCEPT ![r] = at]
  BY <1>3
<1>8. /\ dir' \in [A!Name -> A!Inode \cup {"none"}]
      /\ \A n \in A!Name : n # "users.tmp" => dir'[n] = dir[n]
      /\ dir'["users.tmp"] \in {dir["users.tmp"], "none"}
  BY <1>3 DEF A!Unlink, A!Name, A!None
<1>8a. intruded' \in BOOLEAN /\ (~ intruded' => ~ intruded)
  <2>1. intruded' = intruded \/ intruded' = (intruded \/ dir["users.tmp"] \notin {"none", output[r]})
    BY <1>3, Zenon DEF A!Unlink, A!None
  <2>2. intruded \in BOOLEAN
    BY AdminFacts
  <2>3. CASE intruded' = intruded
    BY <2>2, <2>3
  <2>4. CASE intruded' = (intruded \/ dir["users.tmp"] \notin {"none", output[r]})
    BY <2>4
  <2>. QED
    BY <2>1, <2>3, <2>4
<1>9. /\ \A q \in Runs : pc'[q] = IF q = r THEN at ELSE pc[q]
      /\ DOMAIN data' = A!Inode
      /\ \A q \in Runs : data'[q] = IF q = o THEN v ELSE data[q]
      /\ KeyRun' = KeyRun /\ UserRun' = UserRun
      /\ dir'["key"] = dir["key"] /\ dir'["key.tmp"] = dir["key.tmp"] /\ dir'["users"] = dir["users"]
  BY <1>0, <1>1, <1>5a, <1>7, <1>8 DEF KeyRun, UserRun, A!Name
<1>10. o \notin KeyRun /\ \A q \in Runs : pc[q] \in Before => o # q
  BY <1>1 DEF UserRun, AdminInv, Unmade
<1>11. AdminTypes'
  <2>1. pc' \in [Runs -> AdminPlaces]
    BY <1>7 DEF AdminPlaces, A!Over
  <2>2. \A q \in Runs : pc'[q] \in {"key_write", "key_link", "add_append", "rename"} => output'[q] # "none"
    BY <1>0, <1>1, <1>9 DEF AdminInv, AdminTypes, A!TypeOK, A!None
  <2>3. /\ \A q \in KeyRun : data'[q] \in {<< >>, << q >>}
        /\ secret' \in [Runs -> Runs \cup {"none"}] /\ buffer' \in [Runs -> Seq(Entry)]
    BY <1>0, <1>9, <1>10 DEF AdminInv, AdminTypes
  <2>4. \A q \in UserRun : data'[q] \in Seq(Entry)
    BY <1>5, <1>9 DEF AdminInv, AdminTypes
  <2>. QED
    BY <1>0, <1>3, <1>8, <1>8a, <1>9, <2>1, <2>2, <2>3, <2>4, TypesByParts
<1>12. Commands'
  BY <1>0, <1>1, <1>9 DEF AdminInv, Commands, WithKey
<1>13. Kinds'
  BY <1>0, <1>8, <1>9 DEF AdminInv, Kinds, WithKey, WithUser, Before, A!Name
<1>14. Unmade'
  <2>1. ASSUME NEW q \in Runs, pc'[q] \in Before
        PROVE  data'[q] = << >> /\ (\A n \in A!Name : dir'[n] # q) /\ \A p \in Runs : output'[p] # q
    <3>1. pc[q] \in Before /\ q # o
      BY <1>0, <1>9, <1>10, <2>1 DEF Before
    <3>. QED
      BY <1>0, <1>8, <1>9, <3>1 DEF AdminInv, Unmade, A!Name
  <2>. QED
    BY <2>1 DEF Unmade
<1>15. Keys'
  <2>1. \A q \in KeyRun : pc'[q] \in KeyDone => data'[q] = << q >>
    BY <1>1, <1>9, <1>10 DEF AdminInv, Keys, KeyDone, UserRun
  <2>2. ~ intruded => \A q \in Runs : pc'[q] \in {"key_write", "key_link"} => dir'["key.tmp"] = q
    BY <1>9 DEF AdminInv, Keys, KeyDone, KeyRun
  <2>3. ~ intruded /\ dir["key"] # "none" => data'[dir["key"]] = << dir["key"] >>
    BY <1>9, <1>10 DEF AdminInv, Keys, KeyDone, KeyRun, Kinds
  <2>. QED
    BY <1>8a, <1>9, <2>1, <2>2, <2>3 DEF Keys, KeyDone, KeyRun
<1>16. Encrypted'
  <2>1. \A q \in UserRun : Keyed(data[q]) /\ Keyed(buffer[q])
    BY DEF AdminInv, Encrypted
  <2>2. ASSUME NEW q \in UserRun PROVE Keyed(data[q])' /\ Keyed(buffer[q])'
    <3>0. dir'["key"] = dir["key"] /\ (cut # {} => cut' # {}) /\ data'[q] = IF q = o THEN v ELSE data[q]
      BY <1>3, <1>9
    <3>1. Keyed(buffer[q])'
      BY <1>0, <2>1, <3>0 DEF Keyed
    <3>2. CASE q # o
      BY <2>1, <3>0, <3>1, <3>2 DEF Keyed
    <3>3. CASE q = o
      BY <1>6, <3>0, <3>1, <3>3 DEF Keyed, KeyedAfter
    <3>. QED
      BY <3>2, <3>3
  <2>3. \A q \in UserRun : task[q].command # "remove" /\ pc'[q] \notin A!Over \cup {"idle"} =>
           dir'["key"] # "none" /\ secret[q] = dir'["key"]
    BY <1>0, <1>9 DEF AdminInv, Encrypted, A!Over
  <2>. QED
    BY <1>0, <1>9, <2>2, <2>3 DEF Encrypted, A!Over
<1>17. OneByOne'
  <2>1. ASSUME AllAlone PROVE UsersApart' /\ RunSound(r)'
    <3>1. UsersApart /\ RunSound(r)
      BY <2>1 DEF AdminInv, OneByOne
    <3>2. /\ dir["users"] # "none" /\ dir["users.tmp"] = o /\ buffer[r] = data[dir["users"]] /\ data[o] = << >>
      BY <1>0, <3>1 DEF RunSound
    <3>3. dir["users"] # o /\ Different(data[dir["users"]]) /\ dir["users"] \in Runs
      BY <3>1, <3>2 DEF UsersApart, AdminInv, Kinds
    <3>4. dir'["users"] = dir["users"] /\ data'[dir["users"]] = data[dir["users"]] /\ data'[o] = t
      BY <1>1, <1>5, <1>9, <3>2, <3>3
    <3>5. UsersApart'
      BY <1>1, <1>8, <3>2, <3>3, <3>4 DEF UsersApart, Different
    <3>6. CASE at = "failed"
      BY <1>9, <3>5, <3>6 DEF RunSound
    <3>7. CASE at = "rename"
      <4>1. pc'[r] = "rename"
        BY <1>9, <3>7
      <4>2. dir' = dir /\ (r \notin cut' => KeepsOthers(buffer[r], t, u)) /\ Different(t)
        BY <1>3, <1>9, <3>2, <3>3, <4>1
      <4>3. RunSound(r)'
        BY <1>0, <3>2, <3>4, <4>1, <4>2 DEF RunSound, Different, KeepsOthers
      <4>. QED
        BY <3>5, <4>3
    <3>. QED
      BY <3>6, <3>7
  <2>. QED
    BY <1>0, <1>7, <2>1, OneAtATime DEF A!Over
<1>. QED
  BY <1>11, <1>12, <1>13, <1>14, <1>15, <1>16, <1>17 DEF AdminInv

\* The temporary file becomes the users file.
LEMMA Renames ==
    ASSUME AdminInv, NEW r \in Runs, A!Rename(r)
    PROVE  AdminInv'
<1>. USE AdminFacts
<1>0. /\ pc[r] = "rename" /\ pc' = [pc EXCEPT ![r] = "done"]
      /\ task' = task /\ data' = data /\ input' = input /\ output' = output /\ buffer' = buffer
      /\ secret' = secret /\ cut' = cut /\ intruded' = intruded
  BY DEF A!Rename, A!Goto
<1>1. /\ dir' \in [A!Name -> A!Inode \cup {"none"}]
      /\ dir'["key"] = dir["key"] /\ dir'["key.tmp"] = dir["key.tmp"]
      /\ \/ dir["users.tmp"] = "none" /\ dir' = dir
         \/ dir["users.tmp"] # "none" /\ dir'["users"] = dir["users.tmp"] /\ dir'["users.tmp"] = "none"
  BY DEF A!Rename, A!None, A!Name
<1>2. /\ \A q \in Runs : pc'[q] = IF q = r THEN "done" ELSE pc[q]
      /\ KeyRun' = KeyRun /\ UserRun' = UserRun
  BY <1>0 DEF KeyRun, UserRun
<1>3. AdminTypes'
  <2>1. pc' \in [Runs -> AdminPlaces]
    BY <1>0 DEF AdminPlaces, A!Over
  <2>2. \A q \in Runs : pc'[q] \in {"key_write", "key_link", "add_append", "rename"} => output'[q] # "none"
    BY <1>0, <1>2 DEF AdminInv, AdminTypes, A!TypeOK, A!None
  <2>3. /\ \A q \in KeyRun : data'[q] \in {<< >>, << q >>}
        /\ \A q \in UserRun : data'[q] \in Seq(Entry)
        /\ secret' \in [Runs -> Runs \cup {"none"}] /\ buffer' \in [Runs -> Seq(Entry)]
    BY <1>0 DEF AdminInv, AdminTypes
  <2>. QED
    BY <1>0, <1>1, <2>1, <2>2, <2>3, TypesByParts
<1>4. Commands'
  BY <1>0, <1>2 DEF AdminInv, Commands, WithKey
<1>5. Kinds'
  BY <1>0, <1>1, <1>2 DEF AdminInv, Kinds, WithKey, WithUser, Before
<1>6. Unmade'
  BY <1>0, <1>1, <1>2 DEF AdminInv, Unmade, Before, A!Name
<1>7. Keys'
  <2>1. r \notin KeyRun
    BY <1>0 DEF AdminInv, Commands, KeyRun
  <2>2. \A q \in KeyRun : pc'[q] = pc[q]
    BY <1>2, <2>1 DEF KeyRun
  <2>3. \A q \in Runs : pc'[q] \in {"key_write", "key_link"} => pc[q] = pc'[q]
    BY <1>2
  <2>. QED
    BY <1>0, <1>1, <1>2, <2>2, <2>3 DEF AdminInv, Keys
<1>8. Encrypted'
  <2>1. \A q \in UserRun : Keyed(data[q])' /\ Keyed(buffer[q])'
    BY <1>0, <1>1 DEF AdminInv, Encrypted, Keyed
  <2>2. \A q \in UserRun : task[q].command # "remove" /\ pc'[q] \notin A!Over \cup {"idle"} =>
           dir'["key"] # "none" /\ secret[q] = dir'["key"]
    BY <1>0, <1>1, <1>2 DEF AdminInv, Encrypted, A!Over
  <2>. QED
    BY <1>0, <1>2, <2>1, <2>2 DEF Encrypted, A!Over
<1>9. OneByOne'
  <2>1. ASSUME AllAlone PROVE UsersApart' /\ RunSound(r)'
    <3>1. RunSound(r) /\ UsersApart
      BY <2>1 DEF AdminInv, OneByOne
    <3>2. output[r] = dir["users.tmp"] /\ Different(data[dir["users.tmp"]])
      BY <1>0, <3>1 DEF RunSound
    <3>3. UsersApart'
      BY <1>0, <1>1, <3>1, <3>2 DEF UsersApart, Different
    <3>. QED
      BY <1>2, <3>3 DEF RunSound
  <2>. QED
    BY <1>0, <2>1, OneAtATime DEF A!Over
<1>. QED
  BY <1>3, <1>4, <1>5, <1>6, <1>7, <1>8, <1>9 DEF AdminInv

LEMMA InitAdmin == Init => AdminInv
<1>. SUFFICES ASSUME Init PROVE AdminInv
  OBVIOUS
<1>1. A!Init
  BY DEF Init
<1>2. /\ task \in Tasks /\ pc = [r \in Runs |-> "idle"] /\ dir = [n \in A!Name |-> "none"]
      /\ data = [i \in A!Inode |-> << >>] /\ input = [r \in Runs |-> "none"]
      /\ output = [r \in Runs |-> "none"] /\ buffer = [r \in Runs |-> << >>]
      /\ secret = [r \in Runs |-> "none"] /\ cut = {} /\ intruded = FALSE
  BY <1>1 DEF A!Init, A!None
<1>3. << >> \in Seq(Entry) /\ Len(<< >>) = 0
  BY EmptySeq
<1>4. /\ \A r \in Runs : pc[r] = "idle" /\ output[r] = "none" /\ buffer[r] = << >> /\ data[r] = << >>
      /\ \A n \in A!Name : dir[n] = "none"
      /\ KeyRun \subseteq Runs /\ UserRun \subseteq Runs /\ Runs \subseteq A!Inode
  BY <1>2 DEF A!Inode, KeyRun, UserRun
<1>5. AdminTypes
  BY <1>2, <1>3, <1>4 DEF AdminTypes, A!TypeOK, A!None, A!Over
<1>6. Commands
  BY <1>4 DEF Commands, WithKey
<1>7. Kinds
  BY <1>4 DEF Kinds, A!Name, WithKey, WithUser
<1>8. Unmade
  BY <1>4, AdminAssumption DEF Unmade
<1>9. Keys
  BY <1>4 DEF Keys, KeyDone, KeyRun, A!Name
<1>10. Encrypted
  <2>1. \A r \in UserRun : Keyed(data[r]) /\ Keyed(buffer[r])
    BY <1>3, <1>4 DEF Keyed
  <2>. QED
    BY <1>4, <2>1 DEF Encrypted
<1>11. OneByOne
  BY <1>4 DEF OneByOne, UsersApart, RunSound, A!AtWork, A!Name
<1>. QED
  BY <1>5, <1>6, <1>7, <1>8, <1>9, <1>10, <1>11 DEF AdminInv

LEMMA StutterAdmin ==
    ASSUME AdminInv, UNCHANGED AdminVars
    PROVE  AdminInv'
<1>1. /\ task' = task /\ pc' = pc /\ dir' = dir /\ data' = data /\ input' = input /\ output' = output
      /\ buffer' = buffer /\ secret' = secret /\ cut' = cut /\ intruded' = intruded
  BY DEF AdminVars
<1>. QED
  BY <1>1 DEF AdminInv, AdminTypes, A!TypeOK, Commands, Kinds, Unmade, Keys, KeyDone, KeyRun, Encrypted, OneByOne, KeyRun, UserRun,
              Keyed, AllAlone, UsersApart, RunSound, Different, KeepsOthers, A!AtWork, A!Knows

LEMMA StepAdmin == AdminInv /\ [Next]_vars => AdminInv'
<1>. SUFFICES ASSUME AdminInv, [Next]_vars PROVE AdminInv'
  OBVIOUS
<1>1. ASSUME NEW r \in Runs, A!Step(r) \/ A!Killed(r) PROVE AdminInv'
  BY <1>1, RunStarts, RunKilled, KeyCheckKeeps, KeyCreateKeeps, KeyWriteKeeps, KeyLinkKeeps, KeyUnlinkKeeps,
     AddOpens, AddChecks, AddAppends, RewriteOpens, Rewrites, Renames DEF A!Step
<1>2. A!Next \/ UNCHANGED AdminVars
  BY DEF Next, vars, ManagementStep, LoginStep, LogStep
<1>. QED
  BY <1>1, <1>2, StutterAdmin DEF A!Next

\* A key that is there stays.
LEMMA KeyStays ==
    ASSUME AdminInv, A!Next, dir["key"] # "none"
    PROVE  dir'["key"] = dir["key"]
<1>1. PICK r \in Runs : A!Step(r) \/ A!Killed(r)
  BY DEF A!Next
<1>2. dir \in [A!Name -> A!Inode \cup {"none"}]
  BY AdminFacts
<1>3. CASE A!Start(r) \/ A!Killed(r) \/ A!AddCheck(r) \/ A!AddAppend(r)
  BY <1>3 DEF A!Start, A!Killed, A!AddCheck, A!AddAppend
<1>4. CASE A!KeyCheck(r) \/ A!KeyCreate(r) \/ A!KeyWrite(r) \/ A!KeyLink(r) \/ A!KeyUnlink(r)
  BY <1>2, <1>4 DEF A!KeyCheck, A!KeyCreate, A!KeyWrite, A!KeyLink, A!KeyUnlink, A!Unlink, A!Name, A!None
<1>5. CASE A!AddOpen(r) \/ A!RewriteOpen(r) \/ A!Rewrite(r) \/ A!Rename(r)
  BY <1>2, <1>5 DEF A!AddOpen, A!RewriteOpen, A!Rewrite, A!Rename, A!Unlink, A!Name
<1>. QED
  BY <1>1, <1>3, <1>4, <1>5 DEF A!Step

\* With runs one after the other the users file only gets a line at its end, until it is replaced.
LEMMA FileStays ==
    ASSUME AdminInv, AllAlone, NEW r \in Runs, A!Step(r) \/ A!Killed(r), ~ A!Rename(r), dir["users"] # "none"
    PROVE  /\ dir'["users"] = dir["users"]
           /\ \/ data'[dir["users"]] = data[dir["users"]]
              \/ \E e \in Entry : data'[dir["users"]] = A!Added(data[dir["users"]], e)
<1>. DEFINE u == dir["users"]
<1>. USE AdminFacts
<1>1. u \in UserRun /\ u \in Runs /\ u \notin KeyRun /\ u \in A!Inode
  BY DEF AdminInv, Kinds, UserRun
<1>2. UsersApart /\ RunSound(r)
  BY DEF AdminInv, OneByOne
<1>3. u # dir["users.tmp"]
  BY <1>2 DEF UsersApart
<1>4. CASE A!Start(r) \/ A!Killed(r) \/ A!AddCheck(r)
  BY <1>4 DEF A!Start, A!Killed, A!AddCheck
<1>5. CASE A!KeyCheck(r) \/ A!KeyCreate(r) \/ A!KeyLink(r) \/ A!KeyUnlink(r)
  BY <1>5 DEF A!KeyCheck, A!KeyCreate, A!KeyLink, A!KeyUnlink, A!Unlink, A!Name
<1>6. CASE A!KeyWrite(r)
  <2>1. output[r] = r /\ r \in KeyRun
    BY <1>6 DEF A!KeyWrite, AdminInv, Commands, Kinds, WithKey
  <2>2. dir'["users"] = u
    BY <1>6 DEF A!KeyWrite, A!Unlink, A!Name
  <2>3. data' = data \/ data' = [data EXCEPT ![r] = << r >>]
    BY <1>6, <2>1 DEF A!KeyWrite
  <2>. QED
    BY <1>1, <2>1, <2>2, <2>3
<1>7. CASE A!AddOpen(r)
  BY <1>7 DEF A!AddOpen, A!Name, A!None
<1>8. CASE A!AddAppend(r)
  <2>1. pc[r] = "add_append" /\ output[r] = u /\ r \in UserRun /\ task[r].command = "add"
    BY <1>2, <1>8 DEF A!AddAppend, RunSound, AdminInv, Commands, UserRun, KeyRun
  <2>2. secret[r] \in Runs
    BY <2>1 DEF AdminInv, Encrypted, A!Over, Kinds
  <2>3. A!Entry(r) \in Entry /\ A!Torn(A!Entry(r)) \in Entry
    BY <2>2, EntryOf, BrokenFacts
  <2>4. dir' = dir /\ \/ data' = data
                      \/ data' = [data EXCEPT ![u] = A!Added(data[u], A!Entry(r))]
                      \/ data' = [data EXCEPT ![u] = A!Added(data[u], A!Torn(A!Entry(r)))]
    BY <1>8, <2>1 DEF A!AddAppend
  <2>5. \/ data'[u] = data[u] \/ data'[u] = A!Added(data[u], A!Entry(r))
        \/ data'[u] = A!Added(data[u], A!Torn(A!Entry(r)))
    BY <1>1, <2>4
  <2>. QED
    BY <2>3, <2>4, <2>5
<1>9. CASE A!RewriteOpen(r)
  <2>1. dir["users.tmp"] # "none" \/ r # u
    BY <1>9 DEF A!RewriteOpen, AdminInv, Unmade, Before, A!Name
  <2>. DEFINE i == IF dir["users.tmp"] = "none" THEN r ELSE dir["users.tmp"]
  <2>2. dir' = [dir EXCEPT !["users.tmp"] = i] /\ data' = [data EXCEPT ![i] = << >>]
    BY <1>9 DEF A!RewriteOpen, A!None
  <2>3. i # u
    BY <1>3, <2>1
  <2>. HIDE DEF i
  <2>. QED
    BY <1>1, <2>2, <2>3 DEF A!Name
<1>10. CASE A!Rewrite(r)
  <2>1. output[r] # u
    BY <1>2, <1>3, <1>10 DEF A!Rewrite, RunSound
  <2>2. dir'["users"] = u
    BY <1>10 DEF A!Rewrite, A!Unlink, A!Name
  <2>3. \E v : data' = [data EXCEPT ![output[r]] = v]
    BY <1>10 DEF A!Rewrite, A!Put
  <2>. QED
    BY <1>1, <2>1, <2>2, <2>3
<1>. QED
  BY <1>4, <1>5, <1>6, <1>7, <1>8, <1>9, <1>10 DEF A!Step

LEMMA OthersStay ==
    ASSUME AdminInv, A!Next, AllAlone, NEW i \in DOMAIN A!Users
    PROVE  \/ A!Users[i].key \in A!Broken
           \/ \E j \in DOMAIN A!Users' : A!Users'[j] = A!Users[i]
           \/ \E r \in Runs : pc[r] = "rename" /\ (task[r].user = A!Users[i].user \/ r \in cut)
<1>. DEFINE u == dir["users"]
            s == data[u]
<1>1. dir["users"] # "none"
  BY DEF A!Users, A!None
<1>2. A!Users = s /\ u \in UserRun /\ s \in Seq(Entry)
  BY <1>1 DEF A!Users, A!None, AdminInv, Kinds, AdminTypes
<1>3. DOMAIN s = 1..Len(s) /\ Len(s) \in Nat /\ i \in 1..Len(s)
  BY <1>2, LenProperties
<1>4. PICK r \in Runs : A!Step(r) \/ A!Killed(r)
  BY DEF A!Next
<1>5. CASE A!Rename(r)
  <2>1. pc[r] = "rename" /\ data' = data
    BY <1>5 DEF A!Rename
  <2>2. RunSound(r)
    BY DEF AdminInv, OneByOne
  <2>3. /\ output[r] = dir["users.tmp"] /\ output[r] \in UserRun
        /\ r \notin cut => KeepsOthers(s, data[output[r]], task[r].user)
    BY <2>1, <2>2 DEF RunSound, AdminInv, Kinds, WithUser
  <2>. DEFINE v == data[output[r]]
  <2>4. dir'["users"] = output[r] /\ output[r] # "none"
    BY <1>5, <2>3, AdminFacts DEF A!Rename, A!Name, A!None
  <2>5. A!Users' = v /\ v \in Seq(Entry)
    BY <2>1, <2>3, <2>4 DEF A!Users, A!None, AdminInv, AdminTypes
  <2>6. DOMAIN v = 1..Len(v)
    BY <2>5, LenProperties
  <2>. QED
    BY <1>2, <1>3, <2>1, <2>3, <2>5, <2>6 DEF KeepsOthers
<1>6. CASE ~ A!Rename(r)
  <2>1. /\ dir'["users"] = u
        /\ data'[u] = s \/ \E e \in Entry : data'[u] = A!Added(s, e)
    BY <1>1, <1>4, <1>6, FileStays
  <2>2. A!Users' = data'[u]
    BY <1>1, <2>1 DEF A!Users, A!None
  <2>3. CASE data'[u] = s
    BY <1>2, <1>3, <2>2, <2>3
  <2>4. CASE \E e \in Entry : data'[u] = A!Added(s, e)
    <3>1. PICK e \in Entry : data'[u] = A!Added(s, e)
      BY <2>4
    <3>. DEFINE t == A!Added(s, e)
                n == Len(s)
    <3>2. t \in Seq(Entry) /\ n \in Nat /\ Longer(s, e, t, n)
      BY <1>2, AddedFacts
    <3>. HIDE DEF s, Entry
    <3>3. DOMAIN t = 1..Len(t)
      BY <3>2, LenProperties
    <3>4. A!Users' = t
      BY <2>2, <3>1
    <3>5. n \in Nat /\ i \in 1..n
      BY <1>3
    <3>. HIDE DEF t, n
    <3>6. s[i].key \in A!Broken \/ (i \in 1..Len(t) /\ t[i] = s[i])
      BY <3>2, <3>5 DEF Longer, A!Broken
    <3>. QED
      BY <1>2, <3>3, <3>4, <3>6
  <2>. QED
    BY <2>1, <2>3, <2>4
<1>. QED
  BY <1>5, <1>6

LEMMA AdminSafety == AdminInv => A!TypeOK /\ A!KeyIsWhole /\ A!EntriesReadable /\ A!OneEntryEach
<1>. SUFFICES ASSUME AdminInv PROVE A!TypeOK /\ A!KeyIsWhole /\ A!EntriesReadable /\ A!OneEntryEach
  OBVIOUS
<1>1. A!TypeOK
  BY DEF AdminInv, AdminTypes
<1>2. A!KeyIsWhole
  <2>. SUFFICES ASSUME dir["key"] # "none", ~ A!HasKey
                PROVE  intruded /\ pc[dir["key"]] \in {"key_write", "failed", "killed"}
    BY DEF A!KeyIsWhole, A!None
  <2>. DEFINE k == dir["key"]
  <2>. DEFINE one == << k >>
  <2>0. Len(one) = 1
    OBVIOUS
  <2>. HIDE DEF one
  <2>5. k \in KeyRun /\ data[k] # one
    BY <2>0 DEF AdminInv, Kinds, A!HasKey, A!None
  <2>1. k \in KeyRun /\ k \in Runs /\ data[k] # << k >>
    BY <2>5 DEF one, KeyRun
  <2>2. intruded
    BY <2>1 DEF AdminInv, Keys
  <2>3. pc[k] \notin KeyDone \cup Before
    BY <2>1 DEF AdminInv, Keys, Unmade, A!Name
  <2>4. pc[k] \in AdminPlaces /\ pc[k] \notin WithUser
    BY <2>1, AdminFacts DEF AdminInv, Commands, KeyRun, WithUser
  <2>. QED
    BY <2>2, <2>3, <2>4 DEF AdminPlaces, KeyDone, Before, WithUser, A!Over
<1>3. dir["users"] # "none" => /\ dir["users"] \in UserRun /\ data[dir["users"]] \in Seq(Entry)
                               /\ A!Users = data[dir["users"]] /\ Keyed(data[dir["users"]])
                               /\ DOMAIN data[dir["users"]] = 1..Len(data[dir["users"]])
  BY LenProperties DEF AdminInv, Kinds, AdminTypes, Encrypted, A!Users, A!None
<1>4. dir["users"] = "none" => DOMAIN A!Users = {}
  BY DEF A!Users, A!None
<1>5. A!EntriesReadable
  <2>. SUFFICES ASSUME dir["key"] # "none", A!HasKey, NEW i \in DOMAIN A!Users
                PROVE  A!Users[i].key = A!MasterKey \/ (A!Users[i].key \in A!Broken /\ cut # {})
    BY DEF A!EntriesReadable, A!None
  <2>1. dir["key"] \in KeyRun /\ data[dir["key"]] \in {<< >>, << dir["key"] >>} /\ Len(data[dir["key"]]) = 1
    BY DEF A!HasKey, AdminInv, Kinds, AdminTypes
  <2>2. A!MasterKey = dir["key"]
    BY <2>1 DEF A!MasterKey
  <2>. QED
    BY <1>3, <1>4, <2>2 DEF Keyed
<1>6. A!OneEntryEach
  <2>. SUFFICES ASSUME AllAlone PROVE \A i, j \in DOMAIN A!Users : A!Users[i].user = A!Users[j].user => i = j
    BY DEF A!OneEntryEach, AllAlone
  <2>1. UsersApart
    BY DEF AdminInv, OneByOne
  <2>. QED
    BY <1>3, <1>4, <2>1 DEF UsersApart, Different
<1>. QED
  BY <1>1, <1>2, <1>5, <1>6

\* For any number of runs of pgexporter-admin that overlap, fail and are killed: a master key
\* is never taken away or exchanged (master_key links it); it is whole, but after a failing
\* run removed the temporary file of another it may be one whose writer has still to write
\* it or never will; and every entry of the users file can be decrypted, but for the lines a
\* write on a full disk cut. Runs one after the other keep one entry for each user and touch
\* the one they are about only, wherever they are killed, unless a rewrite came out short and
\* was renamed all the same (add_user, update_user, remove_user).
THEOREM SecretsAreKept == Spec => SecretsKept
<1>0. [Next]_vars => A!Next \/ UNCHANGED A!vars
  BY DEF Next, vars, ManagementStep, LoginStep, LogStep, AdminVars, A!vars
<1>1. AdminInv /\ [Next]_vars => [dir["key"] # "none" => dir'["key"] = dir["key"]]_(A!vars)
  BY <1>0, KeyStays
<1>2. AdminInv /\ [Next]_vars =>
        [(\A r \in Runs : task[r].alone) =>
           \A i \in DOMAIN A!Users :
              \/ A!Users[i].key \in A!Broken
              \/ \E j \in DOMAIN A!Users' : A!Users'[j] = A!Users[i]
              \/ \E r \in Runs : pc[r] = "rename" /\ (task[r].user = A!Users[i].user \/ r \in cut)]_(A!vars)
  BY <1>0, OthersStay DEF AllAlone
<1>. QED
  BY <1>1, <1>2, InitAdmin, StepAdmin, AdminSafety, PTL DEF Spec, SecretsKept, A!KeyKept, A!OthersKept, A!None
=============================================================================
