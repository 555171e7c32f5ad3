----------------------------- MODULE EventLoop -----------------------------
(***************************************************************************)
(* The event loop of the main process: one thread that waits, runs the     *)
(* callbacks of the signals that arrived and accepts the connections that  *)
(* are ready. A signal handler only sets a flag; the callbacks run between *)
(* the wait and the handling of the batch it returned. Children are forked *)
(* by the callbacks of the ports and reaped by the callback of SIGCHLD.    *)
(***************************************************************************)
EXTENDS Naturals, Sequences, FiniteSets

CONSTANTS
    Port,              \* the listening sockets that are served by a forked child
    Kid,               \* the children that can exist
    Setups,            \* deployments to look at: back end, faults
    MaxSignals,        \* bound: signals sent
    MaxClients         \* bound: connections made

VARIABLES
    setup,
    lpc,               \* where the loop is
    running,           \* loop->running
    keep_running,      \* config->keep_running
    pending,           \* signal_pending
    blocked,           \* signals the kernel keeps while the wait masks them
    at,                \* the signal number the dispatch has come to
    batch,             \* events the wait returned and that are not handled yet, of each watcher
    waiting,           \* connections not accepted yet, of each watcher
    fresh,             \* watchers with a connection since the kernel last reported them
    armed,             \* watchers the kernel reports on
    kids,              \* the state of each child
    sent, made         \* signals sent, connections made

vars == << setup, lpc, running, keep_running, pending, blocked, at, batch, waiting,
           fresh, armed, kids, sent, made >>

signals == << pending, blocked >>
loop    == << running, keep_running >>
net     == << batch, waiting, fresh, armed >>
bounds  == << sent, made >>

----------------------------------------------------------------------------

\* The handled signals, by number.
Signum   == << "HUP", "INT", "ABRT", "USR1", "ALRM", "TERM", "CHLD" >>
Signal   == {Signum[i] : i \in DOMAIN Signum}
Shutdown == {"INT", "ALRM", "TERM"}

Backend == {"epoll", "io_uring", "kqueue"}

\* The Unix domain socket of the management commands; the remote management port,
\* like the HTTP ports, is served by a child.
Mgt     == "mgt"
Watcher == Port \cup {Mgt}

LoopPC  == {"wait", "dispatch", "callback", "handle", "reading", "stopped", "aborted"}
Ended   == {"stopped", "aborted"}

NoEvents == [w \in Watcher |-> 0]

ASSUME SetupsAssumption == \A s \in Setups : s.backend \in Backend

Init ==
    /\ setup \in Setups
    /\ lpc = "wait"
    /\ running = TRUE
    /\ keep_running = TRUE
    /\ pending = {}
    /\ blocked = {}
    /\ at = 1
    /\ batch = NoEvents
    /\ waiting = [w \in Watcher |-> 0]
    /\ fresh = {}
    /\ armed = Watcher
    /\ kids = [k \in Kid |-> "none"]
    /\ sent = 0
    /\ made = 0

----------------------------------------------------------------------------
(* Signals.                                                                *)

\* signal_handler sets the flag. During the wait of epoll the handled signals are in
\* the mask and the kernel keeps them.
Deliver(s) ==
    IF lpc = "wait" /\ setup.backend = "epoll"
      THEN blocked' = blocked \cup {s} /\ UNCHANGED pending
      ELSE pending' = pending \cup {s} /\ UNCHANGED blocked

Send(s) ==
    /\ sent < MaxSignals
    /\ sent' = sent + 1
    /\ lpc \notin Ended
    /\ Deliver(s)
    /\ UNCHANGED << setup, lpc, loop, at, net, kids, made >>

ChildExits(k) ==
    /\ kids[k] = "alive"
    /\ kids' = [kids EXCEPT ![k] = "zombie"]
    /\ Deliver("CHLD")
    /\ UNCHANGED << setup, lpc, loop, at, net, bounds >>

\* Fault: the scan goes one past the last signal.
DispatchPastEnd ==
    /\ lpc = "dispatch"
    /\ at' = at + 1
    /\ \/ /\ at \in DOMAIN Signum
          /\ Signum[at] \in pending
          /\ pending' = pending \ {Signum[at]}
          /\ lpc' = "callback"
       \/ /\ at \in DOMAIN Signum => Signum[at] \notin pending
          /\ lpc' = IF at \in DOMAIN Signum THEN lpc ELSE "handle"
          /\ UNCHANGED pending
    /\ UNCHANGED << setup, loop, blocked, net, kids, bounds >>

\* dispatch_signal_callbacks: by number; the flag is cleared before the callback runs.
Dispatch ==
    /\ lpc = "dispatch"
    /\ \/ /\ at \in DOMAIN Signum
          /\ Signum[at] \in pending
          /\ pending' = pending \ {Signum[at]}
          /\ lpc' = "callback"
          /\ UNCHANGED at
       \/ /\ at \in DOMAIN Signum
          /\ Signum[at] \notin pending
          /\ at' = at + 1
          /\ UNCHANGED << lpc, pending >>
       \/ /\ at \notin DOMAIN Signum
          /\ lpc' = "handle"
          /\ UNCHANGED << pending, at >>
    /\ UNCHANGED << setup, loop, blocked, net, kids, bounds >>

NextSignal == lpc' = "dispatch" /\ at' = at + 1

\* Fault: a request to stop is dropped while a reload is pending.
ShutdownCbUnlessReload ==
    /\ lpc = "callback"
    /\ Signum[at] \in Shutdown
    /\ IF "HUP" \in pending THEN UNCHANGED loop ELSE running' = FALSE /\ keep_running' = FALSE
    /\ NextSignal
    /\ UNCHANGED << setup, signals, net, kids, bounds >>

ShutdownCb ==
    /\ lpc = "callback"
    /\ Signum[at] \in Shutdown
    /\ running' = FALSE
    /\ keep_running' = FALSE
    /\ NextSignal
    /\ UNCHANGED << setup, signals, net, kids, bounds >>

\* reload_cb and service_reload_cb change nothing the loop looks at.
ReloadCb ==
    /\ lpc = "callback"
    /\ Signum[at] \in {"HUP", "USR1"}
    /\ NextSignal
    /\ UNCHANGED << setup, loop, signals, net, kids, bounds >>

CoredumpCb ==
    /\ lpc = "callback"
    /\ Signum[at] = "ABRT"
    /\ lpc' = "aborted"
    /\ UNCHANGED << setup, loop, signals, at, net, kids, bounds >>

\* Fault: one child is reaped for each signal.
ReapOne(k) ==
    /\ lpc = "callback"
    /\ Signum[at] = "CHLD"
    /\ kids[k] = "zombie"
    /\ kids' = [kids EXCEPT ![k] = "none"]
    /\ NextSignal
    /\ UNCHANGED << setup, loop, signals, net, bounds >>

\* sigchld_cb: waitpid until there is nobody left to wait for.
Reap(k) ==
    /\ lpc = "callback"
    /\ Signum[at] = "CHLD"
    /\ kids[k] = "zombie"
    /\ kids' = [kids EXCEPT ![k] = "none"]
    /\ UNCHANGED << setup, lpc, loop, signals, at, net, bounds >>

ReapDone ==
    /\ lpc = "callback"
    /\ Signum[at] = "CHLD"
    /\ \A k \in Kid : kids[k] # "zombie"
    /\ NextSignal
    /\ UNCHANGED << setup, loop, signals, net, kids, bounds >>

----------------------------------------------------------------------------
(* Waiting and connections.                                                *)

Connect(w) ==
    /\ made < MaxClients
    /\ made' = made + 1
    /\ waiting' = [waiting EXCEPT ![w] = @ + 1]
    /\ fresh' = fresh \cup {w}
    /\ UNCHANGED << setup, lpc, loop, signals, at, batch, armed, kids, sent >>

\* What a wait reports of a port: epoll whether it has a connection, io_uring a
\* completion for each connection, kqueue (EV_CLEAR) whether one came since the last
\* report.
EpollReady(w)  == IF waiting[w] > 0 THEN 1 ELSE 0
UringReady(w)  == IF w \in armed THEN waiting[w] ELSE 0
KqueueReady(w) == IF w \in fresh /\ waiting[w] > 0 THEN 1 ELSE 0

Ready(w) == CASE setup.backend = "epoll"    -> EpollReady(w)
              [] setup.backend = "io_uring" -> UringReady(w)
              [] setup.backend = "kqueue"   -> KqueueReady(w)

\* The wait ends: something is ready, or the timeout of a few milliseconds.
Wait ==
    /\ lpc = "wait"
    /\ running
    /\ pending' = pending \cup blocked
    /\ blocked' = {}
    /\ at' = 1
    /\ batch' = [w \in Watcher |-> Ready(w)]
    /\ fresh' = {}
    /\ lpc' = "dispatch"
    /\ UNCHANGED << setup, loop, waiting, armed, kids, bounds >>

\* The wait is interrupted (EINTR): the callbacks run, nothing is reported. The wait of
\* epoll masks the signals.
Interrupted ==
    /\ lpc = "wait"
    /\ running
    /\ setup.backend = "kqueue"
    /\ pending # {}
    /\ at' = 1
    /\ lpc' = "dispatch"
    /\ UNCHANGED << setup, loop, signals, net, kids, bounds >>

\* Another error of the wait ends the loop (epoll, kqueue).
WaitFails ==
    /\ lpc = "wait"
    /\ running
    /\ setup.wait_error
    /\ setup.backend # "io_uring"
    /\ running' = FALSE
    /\ UNCHANGED << setup, lpc, keep_running, signals, at, net, kids, bounds >>

\* More completions than the ring holds end it (io_uring), after the callbacks.
Overflow ==
    /\ lpc = "dispatch"
    /\ at \notin DOMAIN Signum
    /\ setup.wait_error
    /\ setup.backend = "io_uring"
    /\ running' = FALSE
    /\ batch' = NoEvents
    /\ lpc' = "wait"
    /\ UNCHANGED << setup, keep_running, signals, at, waiting, fresh, armed, kids, bounds >>

Stop ==
    /\ lpc = "wait"
    /\ ~ running
    /\ lpc' = "stopped"
    /\ UNCHANGED << setup, loop, signals, at, net, kids, bounds >>

\* Fault: the rest of a batch is left to the next iteration.
HandleDoneEarly ==
    /\ lpc = "handle"
    /\ lpc' = "wait"
    /\ UNCHANGED << setup, loop, signals, at, net, kids, bounds >>

HandleDone ==
    /\ lpc = "handle"
    /\ batch = NoEvents
    /\ lpc' = "wait"
    /\ UNCHANGED << setup, loop, signals, at, net, kids, bounds >>

Accepted(w) ==
    /\ lpc = "handle"
    /\ batch[w] > 0
    /\ batch' = [batch EXCEPT ![w] = @ - 1]
    /\ waiting' = [waiting EXCEPT ![w] = @ - 1]
    /\ UNCHANGED fresh

\* Fault: a multishot accept that ended is not started again.
RearmNever(w) ==
    IF setup.backend = "io_uring"
      THEN \E more \in BOOLEAN : armed' = IF more THEN armed ELSE armed \ {w}
      ELSE UNCHANGED armed

\* io_uring: a multishot accept that ended is started again while the loop runs.
Rearm(w) ==
    IF setup.backend = "io_uring"
      THEN \E more \in BOOLEAN : armed' = IF more \/ running THEN armed ELSE armed \ {w}
      ELSE UNCHANGED armed

\* accept_http_cb, accept_management_cb: fork a child and close the connection here.
AcceptPort(p) ==
    /\ Accepted(p)
    /\ \/ \E k \in Kid : kids[k] = "none" /\ kids' = [kids EXCEPT ![k] = "alive"]
       \/ UNCHANGED kids                                \* fork() fails
    /\ Rearm(p)
    /\ UNCHANGED << setup, lpc, loop, signals, at, bounds >>

\* accept_mgt_cb reads the request itself: nothing else happens until it is there.
AcceptMgt ==
    /\ Accepted(Mgt)
    /\ Rearm(Mgt)
    /\ lpc' = "reading"
    /\ UNCHANGED << setup, loop, signals, at, kids, bounds >>

\* Fault: an accept that finds nothing counts as an error of the loop.
AcceptNothingEnds(w) ==
    /\ Accepted(w)
    /\ setup.backend # "io_uring"
    /\ running' = FALSE
    /\ UNCHANGED << setup, lpc, keep_running, signals, at, armed, kids, bounds >>

\* The connection is gone again: accept() says EAGAIN.
AcceptNothing(w) ==
    /\ Accepted(w)
    /\ setup.backend # "io_uring"
    /\ UNCHANGED << setup, lpc, loop, signals, at, armed, kids, bounds >>

\* accept() fails for another reason: epoll and kqueue leave the batch and the loop,
\* io_uring logs it and starts the accept again.
AcceptFails(w) ==
    /\ setup.accept_error
    /\ lpc = "handle"
    /\ batch[w] > 0
    /\ IF setup.backend = "io_uring"
         THEN /\ batch' = [batch EXCEPT ![w] = @ - 1]
              /\ armed' = IF running THEN armed ELSE armed \ {w}
              /\ UNCHANGED << running, lpc >>
         ELSE /\ batch' = NoEvents
              /\ running' = FALSE
              /\ lpc' = "wait"
              /\ UNCHANGED armed
    /\ waiting' = [waiting EXCEPT ![w] = @ - 1]
    /\ UNCHANGED << setup, keep_running, signals, at, fresh, kids, bounds >>

\* The commands of the management socket: shutdown; status, conf get and conf set in a
\* child; the others, and what cannot be read, here (reset, which waits for the cache, too).
Command(c) ==
    /\ lpc = "reading"
    /\ lpc' = "handle"
    /\ \/ /\ c = "shutdown"
          /\ keep_running' = FALSE
          /\ running' = FALSE
          /\ UNCHANGED kids
       \/ /\ c = "forked"
          /\ \/ \E k \in Kid : kids[k] = "none" /\ kids' = [kids EXCEPT ![k] = "alive"]
             \/ UNCHANGED kids
          /\ UNCHANGED loop
       \/ /\ c = "other"
          /\ UNCHANGED << loop, kids >>
    /\ UNCHANGED << setup, signals, at, net, bounds >>

ClientSends == \E c \in {"shutdown", "forked", "other"} : Command(c)

LoopStep ==
    \/ Wait \/ Interrupted \/ WaitFails \/ Overflow \/ Stop
    \/ Dispatch \/ ShutdownCb \/ ReloadCb \/ CoredumpCb
    \/ (\E k \in Kid : Reap(k)) \/ ReapDone
    \/ HandleDone \/ AcceptMgt
    \/ \E p \in Port : AcceptPort(p)
    \/ \E w \in Watcher : AcceptNothing(w) \/ AcceptFails(w)

Environment ==
    \/ \E s \in Signal : Send(s)
    \/ \E k \in Kid : ChildExits(k)
    \/ \E w \in Watcher : Connect(w)

Next == LoopStep \/ ClientSends \/ Environment

Spec == Init /\ [][Next]_vars

\* The loop is one thread that never sleeps for long; a client of the management
\* socket sends its request unless the setup has silent ones.
FairSpec ==
    /\ Spec
    /\ WF_vars(LoopStep)
    /\ WF_vars(~ setup.silent /\ ClientSends)

----------------------------------------------------------------------------

TypeOK ==
    /\ setup \in Setups /\ setup.backend \in Backend
    /\ lpc \in LoopPC
    /\ running \in BOOLEAN
    /\ keep_running \in BOOLEAN
    /\ pending \subseteq Signal
    /\ blocked \subseteq Signal
    /\ at \in 1..(Len(Signum) + 1)
    /\ lpc = "callback" => at \in DOMAIN Signum
    /\ batch \in [Watcher -> Nat]
    /\ waiting \in [Watcher -> Nat]
    /\ fresh \subseteq Watcher
    /\ armed \subseteq Watcher
    /\ kids \in [Kid -> {"none", "alive", "zombie"}]
    /\ sent \in Nat
    /\ made \in Nat

\* The signal of a child that ended is never lost, although one flag stands for all of
\* them and the callback itself takes many steps: a zombie is announced by the flag, by
\* the kernel, or the loop of waitpid is still going on.
ZombieNoticed ==
    (\E k \in Kid : kids[k] = "zombie") =>
        \/ "CHLD" \in pending \cup blocked
        \/ lpc = "callback" /\ Signum[at] = "CHLD"
        \/ lpc \in Ended

\* What the kernel reported and the loop has not handled yet is a connection that waits:
\* no event is handled twice, and no batch outlives the iteration that fetched it.
BatchIsWaiting ==
    /\ \A w \in Watcher : batch[w] <= waiting[w]
    /\ lpc \in {"wait", "stopped"} => batch = NoEvents

\* While the loop runs every port is listened on, whatever became of single accepts.
Listening == running => armed = Watcher

\* The loop ends because it was asked to: a signal or the shutdown command. (An error
\* of a wait or an accept, and more connections than completions, are its other ends.)
StopsOnlyWhenAsked ==
    lpc = "stopped" /\ ~ setup.accept_error /\ ~ setup.wait_error => ~ keep_running

\* No child that ended goes unnoticed, no event is handled that is not waiting, no port is
\* lost while the loop runs, and the loop stops only when it is asked to or cannot go on.
LoopSound == TypeOK /\ ZombieNoticed /\ BatchIsWaiting /\ Listening /\ StopsOnlyWhenAsked

\* A request to stop is obeyed: SIGTERM, SIGINT or SIGALRM at any moment ends the loop,
\* whatever else is pending, provided that its handlers return: a management client that
\* sends nothing keeps one of them, and so does the lock of a cache that the reset command
\* waits for (see MainGoesOn in Metrics).
TermStops ==
    \A s \in Shutdown : (s \in pending \cup blocked /\ ~ setup.silent) ~> lpc \in Ended

\* No zombie stays: each child that ends is reaped, or the main process ends.
Reaped ==
    \A k \in Kid : (kids[k] = "zombie" /\ ~ setup.silent) ~> (kids[k] # "zombie" \/ lpc \in Ended)

\* Every connection is accepted, although a wait hands out one at a time and a port
\* may stop listening: with epoll and io_uring. (With kqueue a port is reported once for
\* all the connections that came together and only one of them is accepted.)
ConnectionAccepted ==
    \A w \in Watcher :
        (waiting[w] > 0 /\ ~ setup.silent /\ setup.backend # "kqueue")
            ~> (waiting[w] = 0 \/ lpc \in Ended)
=============================================================================
