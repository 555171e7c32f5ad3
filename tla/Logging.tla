------------------------------ MODULE Logging ------------------------------
(***************************************************************************)
(* The log of the main process and its children. The lock is in shared     *)
(* memory, the handle of the log file belongs to each process: a rotation  *)
(* opens the file of the hour in the process that notices and leaves the   *)
(* handles of the others where they are.                                   *)
(***************************************************************************)
EXTENDS Naturals, Sequences, FiniteSets

CONSTANTS
    Writer,           \* the processes that log
    Setups,           \* configurations to look at
    MaxLines,         \* bound: lines each process logs
    MaxHour           \* bound: the hour, which the path of the file may name

VARIABLES
    logconf,          \* log_mode, whether the path names the hour, rotation, log_level, kills
    log_lock,         \* config->log_lock
    rotation,         \* config->log_rotation_size is set: rotation is enabled
    hour,             \* the time
    log_file,         \* log_file[w]: the path w has open, or none
    lines,            \* lines[path]: what is in the file, half lines included
    said,             \* said[w]: lines or dumps w has logged
    wpc               \* wpc[w]: where w is

vars == << logconf, log_lock, rotation, hour, log_file, lines, said, wpc >>

----------------------------------------------------------------------------

Free   == "free"
Closed == << "closed" >>

Path    == {<< "log" >>} \cup {<< "log", h >> : h \in 0..MaxHour}
LogPath == IF logconf.by_hour THEN << "log", hour >> ELSE << "log" >>

\* What a process is doing from the moment it wants to log until the lock is given back.
Waiting == {"lock", "lock_mem"}
Holding == {"prefix", "text", "rotate", "dump", "unlock"}

Line(w, part) == [by |-> w, n |-> said[w], part |-> part]

Goto(w, at) == wpc' = [wpc EXCEPT ![w] = at]

\* Before the children exist the main process has opened the file (pgexporter_start_logging).
Init ==
    /\ logconf \in Setups
    /\ log_lock = Free
    /\ rotation = logconf.rotate
    /\ hour = 0
    /\ log_file = [w \in Writer |-> LogPath]
    /\ lines = [p \in Path |-> << >>]
    /\ said = [w \in Writer |-> 0]
    /\ wpc = [w \in Writer |-> "idle"]

Hour ==
    /\ logconf.by_hour /\ hour < MaxHour
    /\ hour' = hour + 1
    /\ UNCHANGED << logconf, log_lock, rotation, log_file, lines, said, wpc >>

\* fopen: "w" empties the file, "a" does not. A failed start disables rotation for
\* everybody.
Open(w) ==
    /\ log_file' = [log_file EXCEPT ![w] = LogPath]
    /\ lines' = IF logconf.mode = "create" THEN [lines EXCEPT ![LogPath] = << >>] ELSE lines

\* pgexporter_stop_logging, pgexporter_start_logging: in the main process on SIGUSR1, and in
\* the process that transfers a configuration with other settings of the log, which may set
\* the rotation again. The file is closed and opened; opening may fail.
RestartLogging(w) ==
    /\ wpc[w] = "idle"
    /\ \/ Open(w) /\ rotation' \in {rotation, logconf.rotate}
       \/ log_file' = [log_file EXCEPT ![w] = Closed] /\ rotation' = FALSE /\ UNCHANGED lines
    /\ UNCHANGED << logconf, log_lock, hour, said, wpc >>

\* pgexporter_log_line: the handle is opened when it was lost.
Log(w) ==
    /\ wpc[w] = "idle"
    /\ said[w] < MaxLines
    /\ \/ /\ log_file[w] # Closed
          /\ Goto(w, "lock")
          /\ UNCHANGED << rotation, log_file, lines >>
       \/ /\ log_file[w] = Closed
          /\ \/ Open(w) /\ Goto(w, "lock") /\ UNCHANGED rotation
             \/ rotation' = FALSE /\ UNCHANGED << log_file, lines, wpc >>
    /\ said' = [said EXCEPT ![w] = @ + 1]
    /\ UNCHANGED << logconf, log_lock, hour >>

\* pgexporter_log_mem, with log_level = debug5: nobody looks at the handle.
LogMem(w) ==
    /\ wpc[w] = "idle"
    /\ logconf.debug5
    /\ said[w] < MaxLines
    /\ said' = [said EXCEPT ![w] = @ + 1]
    /\ Goto(w, "lock_mem")
    /\ UNCHANGED << logconf, log_lock, rotation, hour, log_file, lines >>

\* Fault: the lock is not waited for.
LockAnyway(w) ==
    /\ wpc[w] \in Waiting
    /\ log_lock' = w
    /\ Goto(w, IF wpc[w] = "lock" THEN "prefix" ELSE "dump")
    /\ UNCHANGED << logconf, rotation, hour, log_file, lines, said >>

\* atomic_compare_exchange_strong; a process that does not get it sleeps and retries.
Lock(w) ==
    /\ wpc[w] \in Waiting
    /\ log_lock = Free
    /\ log_lock' = w
    /\ Goto(w, IF wpc[w] = "lock" THEN "prefix" ELSE "dump")
    /\ UNCHANGED << logconf, rotation, hour, log_file, lines, said >>

\* With log_mode = append a write goes to the end of the file. With create every handle
\* writes where it stands, over what others wrote: the contents are not followed.
Write(w, part) ==
    lines' = IF logconf.mode = "append"
               THEN [lines EXCEPT ![log_file[w]] = Append(@, Line(w, part))] ELSE lines

\* A line is put together by several calls, and stdio may write out any part of it: a
\* stop in between can leave half of it.
Prefix(w) ==
    /\ wpc[w] = "prefix"
    /\ Write(w, "prefix")
    /\ Goto(w, "text")
    /\ UNCHANGED << logconf, log_lock, rotation, hour, log_file, said >>

Text(w) ==
    /\ wpc[w] = "text"
    /\ Write(w, "text")
    /\ Goto(w, "rotate")
    /\ UNCHANGED << logconf, log_lock, rotation, hour, log_file, said >>

\* Fault: the rotation opens the file anew.
RotateTruncates(w) ==
    /\ wpc[w] = "rotate"
    /\ rotation
    /\ log_file' = [log_file EXCEPT ![w] = LogPath]
    /\ lines' = [lines EXCEPT ![LogPath] = << >>]
    /\ Goto(w, "unlock")
    /\ UNCHANGED << logconf, log_lock, rotation, hour, said >>

\* log_rotation_required, log_file_rotate: the file may be large or old enough. It is
\* closed and opened again; opening may fail, which leaves no handle.
Rotate(w) ==
    /\ wpc[w] = "rotate"
    /\ rotation
    /\ \/ Open(w)
       \/ log_file' = [log_file EXCEPT ![w] = Closed] /\ UNCHANGED lines
    /\ Goto(w, "unlock")
    /\ UNCHANGED << logconf, log_lock, rotation, hour, said >>

\* log_rotation_required: not enabled, or not large or old enough.
NoRotation(w) ==
    /\ wpc[w] = "rotate"
    /\ Goto(w, "unlock")
    /\ UNCHANGED << logconf, log_lock, rotation, hour, log_file, lines, said >>

\* The lines of pgexporter_log_mem (output_log_line), which never rotates. Without a handle
\* fprintf is given NULL: the process dies of it and nobody clears the lock.
Dump(w) ==
    /\ wpc[w] = "dump"
    /\ \/ log_file[w] # Closed /\ Write(w, "dump") /\ Goto(w, "unlock")
       \/ log_file[w] = Closed /\ Goto(w, "killed") /\ UNCHANGED lines
    /\ UNCHANGED << logconf, log_lock, rotation, hour, log_file, said >>

\* Fault: a process without a handle returns before it gives the lock back.
UnlockWithHandle(w) ==
    /\ wpc[w] = "unlock"
    /\ log_lock' = IF log_file[w] = Closed THEN log_lock ELSE Free
    /\ Goto(w, "idle")
    /\ UNCHANGED << logconf, rotation, hour, log_file, lines, said >>

Unlock(w) ==
    /\ wpc[w] = "unlock"
    /\ log_lock' = Free
    /\ Goto(w, "idle")
    /\ UNCHANGED << logconf, rotation, hour, log_file, lines, said >>

\* A process is killed; nobody clears the lock for it.
Killed(w) ==
    /\ logconf.kills
    /\ wpc[w] \notin {"killed", "idle"}
    /\ Goto(w, "killed")
    /\ UNCHANGED << logconf, log_lock, rotation, hour, log_file, lines, said >>

Writes(w) ==
    Lock(w) \/ Prefix(w) \/ Text(w) \/ Rotate(w) \/ NoRotation(w) \/ Dump(w) \/ Unlock(w)

Next == Hour \/ \E w \in Writer : RestartLogging(w) \/ Log(w) \/ LogMem(w) \/ Writes(w) \/ Killed(w)

\* A process goes on until it has logged its line, and retries for the lock.
Fairness == \A w \in Writer : WF_vars(Writes(w))

Spec == Init /\ [][Next]_vars /\ Fairness

----------------------------------------------------------------------------

TypeOK ==
    /\ log_lock \in Writer \cup {Free}
    /\ rotation \in BOOLEAN
    /\ hour \in 0..MaxHour
    /\ log_file \in [Writer -> Path \cup {Closed}]
    /\ said \in [Writer -> 0..MaxLines]
    /\ wpc \in [Writer -> {"idle", "killed"} \cup Waiting \cup Holding]

\* With log_mode = append lines of different processes do not run into each other: a
\* prefix is followed by its text, but for the process that is writing or was killed.
LinesWhole ==
    \A p \in Path : \A i \in DOMAIN lines[p] :
        lines[p][i].part = "prefix" =>
            \/ i < Len(lines[p]) /\ lines[p][i + 1] = [lines[p][i] EXCEPT !.part = "text"]
            \/ wpc[lines[p][i].by] \in {"text", "killed"}

\* With log_mode = append no line is lost, whoever rotates and whatever file the others
\* still have open. (With create a rotation empties the file it opens again.)
AppendKeeps ==
    [][logconf.mode = "append" =>
        \A p \in Path : Len(lines'[p]) >= Len(lines[p])
                        /\ SubSeq(lines'[p], 1, Len(lines[p])) = lines[p]]_vars

\* A process that wants to log gets its turn, whatever happens to the files, unless one
\* died with the lock: killed in the middle of its line, or by a dump without a handle,
\* which takes log_level = debug5.
LockLost ==
    \E v \in Writer : /\ wpc[v] = "killed" /\ log_lock = v
                      /\ logconf.kills \/ (logconf.debug5 /\ log_file[v] = Closed)

Logged == \A w \in Writer : wpc[w] \in Waiting ~> (wpc[w] \in {"idle", "killed"} \/ LockLost)

=============================================================================
