------------------------------- MODULE Daemon -------------------------------
(***************************************************************************)
(* Starting and stopping pgexporter: the pidfile, the lock files, the Unix *)
(* domain sockets and the listening ports, for several processes started   *)
(* with the same or with overlapping configurations. A process runs a      *)
(* fixed program of steps; one that fails exits and leaves what it made.   *)
(***************************************************************************)
EXTENDS Naturals, Sequences, FiniteSets

CONSTANTS
    Proc,             \* the processes that may be started
    Config            \* the configurations each may be started with

VARIABLES
    conf,             \* conf[p]: the configuration p is started with
    mode,             \* mode[p]: where p is in its life
    step,             \* step[p]: the next instruction of its program
    forked,           \* forked[p]: p went to the background, under another pid
    file,             \* file[f]: who made the file f, and under which pid
    listener,         \* listener[port]: the processes with the listening socket open
    kid               \* kid[p]: the child that p forked last

vars == << conf, mode, step, forked, file, listener, kid >>

----------------------------------------------------------------------------
(* Files, ports and the program of a process.                              *)

None == "none"

Port(c)      == {c.metrics, c.console, c.history, c.bridge, c.json, c.management} \ {None}
Pidfile(c)   == << "pid", c.pidfile >>
Lockfile(pt) == << "lock", pt >>
Socket(c, s) == << s, c.dir >>

AllPorts == UNION {Port(c) : c \in Config}
AllFiles == {Pidfile(c) : c \in Config} \cup {Lockfile(pt) : pt \in AllPorts}
                \cup {Socket(c, s) : c \in Config, s \in {"main", "transfer"}}

\* The process as a pidfile or a socket knows it.
Pid(p) == << p, forked[p] >>
Free   == << "nobody", FALSE >>

Ins(op, arg) == << [op |-> op, arg |-> arg] >>
If(b, s)     == IF b THEN s ELSE << >>

\* create_pidfile, then create_lockfile for the metrics port and those of the bridge. (A
\* configuration with bridge_json has bridge.)
Claim(c) ==
    Ins("create", Pidfile(c))
        \o If(c.metrics # None, Ins("create", Lockfile(c.metrics)))
        \o If(c.bridge # None, Ins("create", Lockfile(c.bridge)))
        \o If(c.json # None, Ins("create", Lockfile(c.json)))

\* Metric definitions, extensions, -d, caches: what is neither file nor port.
Prepare(c) == Ins("check", "definitions") \o If(c.daemon, Ins("daemon", None))
                  \o Ins("check", "caches")

\* The Unix domain sockets are bound whatever the configuration says; the ports when
\* they are configured.
Open(c) ==
    Ins("unix", Socket(c, "main")) \o Ins("unix", Socket(c, "transfer"))
        \o Ins("check", "tls")
        \o If(c.metrics # None, Ins("bind", c.metrics))
        \o If(c.console # None, Ins("bind", c.console))
        \o If(c.history # None, Ins("bind", c.history))
        \o If(c.bridge # None, Ins("bind", c.bridge))
        \o If(c.json # None, Ins("bind", c.json))
        \o If(c.management # None, Ins("bind", c.management))

StartUp(c) == Claim(c) \o Prepare(c) \o Open(c) \o Ins("check", "extension yamls")

\* Fault: the lock files go first, and the sockets after the pidfile.
ShutdownLocksFirst(c) ==
    If(c.bridge # None, Ins("remove", Lockfile(c.bridge)))
        \o If(c.management # None, Ins("close", c.management))
        \o If(c.metrics # None, Ins("close", c.metrics))
        \o If(c.bridge # None, Ins("close", c.bridge))
        \o Ins("remove", Pidfile(c))
        \o If(c.metrics # None, Ins("remove", Lockfile(c.metrics)) \o Ins("remove", Socket(c, "main"))
                                    \o Ins("remove", Socket(c, "transfer")))

\* Fault: the lock file of the bridge is forgotten.
ShutdownForgetsBridge(c) ==
    If(c.management # None, Ins("close", c.management))
        \o If(c.metrics # None, Ins("close", c.metrics) \o Ins("remove", Socket(c, "main"))
                                    \o Ins("remove", Socket(c, "transfer")))
        \o If(c.bridge # None, Ins("close", c.bridge))
        \o Ins("remove", Pidfile(c))
        \o If(c.metrics # None, Ins("remove", Lockfile(c.metrics)))

\* After the loop: ports, sockets, pidfile and lock files. The console is not closed, and
\* the lock file of its port, which was never made, is removed. (The SIGTERM that a daemon,
\* or one that was told to stop, sends to its group at the end changes nothing: in a child
\* the handler it inherited sets a flag that only the event loop reads.)
Shutdown(c) ==
    If(c.management # None, Ins("close", c.management))
        \o If(c.metrics # None, Ins("close", c.metrics) \o Ins("remove", Socket(c, "main"))
                                    \o Ins("remove", Socket(c, "transfer")))
        \o If(c.bridge # None, Ins("close", c.bridge))
        \o If(c.json # None, Ins("close", c.json))
        \o If(c.history # None, Ins("close", c.history))
        \o Ins("remove", Pidfile(c))
        \o If(c.metrics # None, Ins("remove", Lockfile(c.metrics)))
        \o If(c.console # None, Ins("remove", Lockfile(c.console)))
        \o If(c.bridge # None, Ins("remove", Lockfile(c.bridge)))
        \o If(c.json # None, Ins("remove", Lockfile(c.json)))

Program(p) == IF mode[p] = "starting" THEN StartUp(conf[p]) ELSE Shutdown(conf[p])

At(p, op) ==
    /\ mode[p] \in {"starting", "stopping"}
    /\ step[p] \in DOMAIN Program(p)
    /\ Program(p)[step[p]].op = op

Arg(p)     == Program(p)[step[p]].arg
Proceed(p) == step' = [step EXCEPT ![p] = @ + 1]

\* A process that ends closes its descriptors; its child keeps those it has.
Leave(p, how) ==
    /\ mode' = [mode EXCEPT ![p] = how]
    /\ listener' = [pt \in AllPorts |-> listener[pt] \ {<< p, "main" >>}]

----------------------------------------------------------------------------

Init ==
    /\ conf \in [Proc -> Config]
    /\ mode = [p \in Proc |-> "idle"]
    /\ step = [p \in Proc |-> 1]
    /\ forked = [p \in Proc |-> FALSE]
    /\ file = [f \in AllFiles |-> Free]
    /\ listener = [pt \in AllPorts |-> {}]
    /\ kid = [p \in Proc |-> "none"]

Start(p) ==
    /\ mode[p] = "idle"
    /\ mode' = [mode EXCEPT ![p] = "starting"]
    /\ UNCHANGED << conf, step, forked, file, listener, kid >>

\* Fault: the file is overwritten if it is there.
CreateAnyway(p) ==
    /\ At(p, "create")
    /\ file' = [file EXCEPT ![Arg(p)] = Pid(p)]
    /\ Proceed(p)
    /\ UNCHANGED << conf, mode, forked, listener, kid >>

\* open() with O_CREAT and O_EXCL.
Create(p) ==
    /\ At(p, "create")
    /\ IF file[Arg(p)] = Free
         THEN /\ file' = [file EXCEPT ![Arg(p)] = Pid(p)]
              /\ Proceed(p)
              /\ UNCHANGED << mode, listener >>
         ELSE Leave(p, "failed") /\ UNCHANGED << file, step >>
    /\ UNCHANGED << conf, forked, kid >>

Check(p) ==
    /\ At(p, "check")
    /\ \/ Proceed(p) /\ UNCHANGED << mode, listener >>
       \/ Leave(p, "failed") /\ UNCHANGED step
    /\ UNCHANGED << conf, forked, file, kid >>

\* -d: the parent exits, the child goes on under a pid the pidfile does not have.
Daemonize(p) ==
    /\ At(p, "daemon")
    /\ forked' = [forked EXCEPT ![p] = TRUE]
    /\ Proceed(p)
    /\ UNCHANGED << conf, mode, file, listener, kid >>

\* pgexporter_bind_unix_socket: what is there is unlinked first.
BindUnix(p) ==
    /\ At(p, "unix")
    /\ file' = [file EXCEPT ![Arg(p)] = Pid(p)]
    /\ Proceed(p)
    /\ UNCHANGED << conf, mode, forked, listener, kid >>

\* pgexporter_bind: refused while anybody listens there.
Bind(p) ==
    /\ At(p, "bind")
    /\ IF listener[Arg(p)] = {}
         THEN /\ listener' = [listener EXCEPT ![Arg(p)] = {<< p, "main" >>}]
              /\ Proceed(p)
              /\ UNCHANGED mode
         ELSE Leave(p, "failed") /\ UNCHANGED step
    /\ UNCHANGED << conf, forked, file, kid >>

Started(p) ==
    /\ mode[p] = "starting"
    /\ step[p] = Len(StartUp(conf[p])) + 1
    /\ mode' = [mode EXCEPT ![p] = "serving"]
    /\ UNCHANGED << conf, step, forked, file, listener, kid >>

\* Fault: the shutdown goes on from where the start-up ended.
StopKeepsStep(p) ==
    /\ mode[p] = "serving"
    /\ mode' = [mode EXCEPT ![p] = "stopping"]
    /\ UNCHANGED << conf, step, forked, file, listener, kid >>

\* The loop has ended: keep_running is false.
Stop(p) ==
    /\ mode[p] = "serving"
    /\ mode' = [mode EXCEPT ![p] = "stopping"]
    /\ step' = [step EXCEPT ![p] = 1]
    /\ UNCHANGED << conf, forked, file, listener, kid >>

Close(p) ==
    /\ At(p, "close")
    /\ listener' = [listener EXCEPT ![Arg(p)] = @ \ {<< p, "main" >>}]
    /\ Proceed(p)
    /\ UNCHANGED << conf, mode, forked, file, kid >>

\* unlink(), whoever made the file.
Remove(p) ==
    /\ At(p, "remove")
    /\ file' = [file EXCEPT ![Arg(p)] = Free]
    /\ Proceed(p)
    /\ UNCHANGED << conf, mode, forked, listener, kid >>

Stopped(p) ==
    /\ mode[p] = "stopping"
    /\ step[p] = Len(Shutdown(conf[p])) + 1
    /\ Leave(p, "stopped")
    /\ UNCHANGED << conf, step, forked, file, kid >>

\* Killed, or coredump_cb: nothing is cleaned up.
Crash(p) ==
    /\ mode[p] \in {"starting", "serving", "stopping"}
    /\ Leave(p, "failed")
    /\ UNCHANGED << conf, step, forked, file, kid >>

\* A request, or the timer of the history, is served by a child, which has every descriptor
\* of its parent.
Fork(p) ==
    /\ mode[p] = "serving"
    /\ kid[p] = "none"
    /\ kid' = [kid EXCEPT ![p] = "new"]
    /\ listener' = [pt \in AllPorts |->
                      IF << p, "main" >> \in listener[pt] THEN listener[pt] \cup {<< p, "kid" >>}
                                                         ELSE listener[pt]]
    /\ UNCHANGED << conf, mode, step, forked, file >>

\* shutdown_ports in the child of a request: the metrics and the management port only.
ShutdownPorts(p) ==
    /\ kid[p] = "new"
    /\ kid' = [kid EXCEPT ![p] = "serving"]
    /\ listener' = [pt \in AllPorts |->
                      IF pt \in {conf[p].metrics, conf[p].management}
                        THEN listener[pt] \ {<< p, "kid" >>} ELSE listener[pt]]
    /\ UNCHANGED << conf, mode, step, forked, file >>

KidEnds(p) ==
    /\ kid[p] # "none"
    /\ kid' = [kid EXCEPT ![p] = "none"]
    /\ listener' = [pt \in AllPorts |-> listener[pt] \ {<< p, "kid" >>}]
    /\ UNCHANGED << conf, mode, step, forked, file >>

\* The operator starts again what has ended; after a failure or a crash the files of
\* that process are deleted by hand, once nothing else runs.
Again(p) ==
    /\ mode[p] = "stopped"
    /\ mode' = [mode EXCEPT ![p] = "idle"]
    /\ step' = [step EXCEPT ![p] = 1]
    /\ forked' = [forked EXCEPT ![p] = FALSE]
    /\ UNCHANGED << conf, file, listener, kid >>

CleanUp(p) ==
    /\ mode[p] = "failed"
    /\ \A q \in Proc : mode[q] \in {"idle", "stopped", "failed"}
    /\ mode' = [mode EXCEPT ![p] = "stopped"]
    /\ file' = [f \in AllFiles |-> IF file[f][1] = p THEN Free ELSE file[f]]
    /\ UNCHANGED << conf, step, forked, listener, kid >>

Next == \E p \in Proc :
    \/ Start(p) \/ Create(p) \/ Check(p) \/ Daemonize(p) \/ BindUnix(p) \/ Bind(p)
    \/ Started(p) \/ Stop(p) \/ Close(p) \/ Remove(p) \/ Stopped(p) \/ Crash(p)
    \/ Fork(p) \/ ShutdownPorts(p) \/ KidEnds(p) \/ Again(p) \/ CleanUp(p)

Spec == Init /\ [][Next]_vars

----------------------------------------------------------------------------

TypeOK ==
    /\ conf \in [Proc -> Config]
    /\ mode \in [Proc -> {"idle", "starting", "serving", "stopping", "stopped", "failed"}]
    /\ step \in [Proc -> Nat \ {0}]
    /\ \A p \in Proc : mode[p] \in {"starting", "stopping"} => step[p] <= Len(Program(p)) + 1
    /\ forked \in [Proc -> BOOLEAN]
    /\ file \in [AllFiles -> {Free} \cup (Proc \X BOOLEAN)]
    /\ listener \in [AllPorts -> SUBSET (Proc \X {"main", "kid"})]
    /\ kid \in [Proc -> {"none", "new", "serving"}]

\* The ports that have a lock file.
LockedPorts(c) == {c.metrics, c.bridge, c.json} \ {None}

\* Two that want the same file or the same port; of these, two that claim the same file with
\* O_EXCL, which keeps the second one out before it touches a socket.
Contend(p, q) ==
    conf[p].pidfile = conf[q].pidfile \/ Port(conf[p]) \cap Port(conf[q]) # {}

Rivals(p, q) ==
    \/ conf[p].pidfile = conf[q].pidfile
    \/ LockedPorts(conf[p]) \cap LockedPorts(conf[q]) # {}

Serving(p) == mode[p] = "serving"

\* Of two processes that share the pidfile or any port at most one serves, whatever was
\* started, killed or stopped before (create_pidfile, create_lockfile, pgexporter_bind).
OneServes ==
    \A p, q \in Proc : p # q /\ Contend(p, q) => ~ (Serving(p) /\ Serving(q))

\* Whoever else is started, refused, killed or stopped takes nothing away from a process
\* that serves: its pidfile and its ports stay its own, and so does the lock file of a port
\* unless it is the port of somebody's console (the end of main removes that one too). The
\* Unix domain sockets are taken away by anybody who gets that far
\* (pgexporter_bind_unix_socket): they are safe from rivals only.
ServingKeepsItsOwn ==
    \A p \in Proc : Serving(p) =>
        LET others  == Proc \ {p}
            open(q) == conf[q].console \in LockedPorts(conf[p])
        IN  /\ file[Pidfile(conf[p])][1] = p
            /\ \A pt \in Port(conf[p]) : << p, "main" >> \in listener[pt]
            /\ (\A q \in others : ~ open(q)) =>
                   \A pt \in LockedPorts(conf[p]) : file[Lockfile(pt)][1] = p
            /\ (\A q \in others : Rivals(p, q) /\ ~ open(q)) =>
                   \A s \in {"main", "transfer"} : file[Socket(conf[p], s)][1] = p

\* The pidfile names the process that serves, unless it went to the background.
PidfileNamesServer ==
    \A p \in Proc : Serving(p) /\ ~ conf[p].daemon => file[Pidfile(conf[p])] = Pid(p)

\* When all have stopped orderly no pidfile and no lock file is left. A port is still taken
\* only by a child that is still there (nothing ends it), and a child that has called
\* shutdown_ports takes neither the metrics nor the management port.
NothingLeftBehind ==
    (\A p \in Proc : mode[p] \in {"idle", "stopped"}) =>
        /\ \A p \in Proc : \A f \in {Pidfile(conf[p])} \cup {Lockfile(pt) : pt \in Port(conf[p])} :
               file[f] = Free
        /\ \A pt \in AllPorts : \A l \in listener[pt] :
               /\ l[2] = "kid" /\ kid[l[1]] # "none" /\ pt \in Port(conf[l[1]])
               /\ kid[l[1]] = "serving" => pt \notin {conf[l[1]].metrics, conf[l[1]].management}

=============================================================================
