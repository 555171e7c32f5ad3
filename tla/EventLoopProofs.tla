-------------------------- MODULE EventLoopProofs --------------------------
(***************************************************************************)
(* The event loop is sound, whatever the ports, children, signals and back *)
(* ends are.                                                               *)
(***************************************************************************)
EXTENDS EventLoop, TLAPS

\* A loop that was told to stop, and met no error, was told so by the configuration: this
\* is what makes StopsOnlyWhenAsked inductive, which looks at the end only.
AskedToStop ==
    /\ ~ running /\ ~ setup.accept_error /\ ~ setup.wait_error => ~ keep_running
    /\ lpc = "stopped" => ~ running

IInv == TypeOK /\ ZombieNoticed /\ BatchIsWaiting /\ Listening /\ AskedToStop

\* The numbers of the signals.
LEMMA SignumFacts ==
    /\ DOMAIN Signum = 1..7
    /\ Len(Signum) = 7
    /\ Signal = {"HUP", "INT", "ABRT", "USR1", "ALRM", "TERM", "CHLD"}
    /\ \A i \in 1..7 : Signum[i] \in Signal
<1>1. DOMAIN Signum = 1..7 /\ Len(Signum) = 7
  BY DEF Signum
<1>2. \A i \in 1..7 : Signum[i] \in Signal
  BY <1>1 DEF Signal
<1>3. Signal = {"HUP", "INT", "ABRT", "USR1", "ALRM", "TERM", "CHLD"}
  <2>1. Signal = {Signum[1], Signum[2], Signum[3], Signum[4], Signum[5], Signum[6], Signum[7]}
    BY <1>1 DEF Signal
  <2>. QED
    BY <2>1 DEF Signum
<1>. QED
  BY <1>1, <1>2, <1>3

\* The loop begins with nothing to do and all ports open.
LEMMA InitIInv == Init => IInv
<1>. SUFFICES ASSUME Init PROVE IInv
  OBVIOUS
<1>1. TypeOK
  BY SetupsAssumption, SignumFacts DEF Init, TypeOK, LoopPC, NoEvents
<1>. QED
  BY <1>1 DEF Init, IInv, ZombieNoticed, BatchIsWaiting, Listening, AskedToStop, NoEvents

----------------------------------------------------------------------------
(* Signals and their callbacks.                                            *)

\* The flag of a signal, or the mask of the kernel, keeps it.
LEMMA DeliverKeeps ==
    ASSUME TypeOK, NEW s \in Signal, Deliver(s)
    PROVE  /\ pending' \subseteq Signal /\ blocked' \subseteq Signal
           /\ pending \cup blocked \subseteq pending' \cup blocked'
           /\ s \in pending' \cup blocked'
BY DEF Deliver, TypeOK

LEMMA SendStep ==
    ASSUME IInv, NEW s \in Signal, Send(s)
    PROVE  IInv'
<1>1. TypeOK'
  BY DeliverKeeps DEF IInv, TypeOK, Send, loop, net
<1>2. ZombieNoticed'
  BY DeliverKeeps DEF IInv, ZombieNoticed, Send, loop, net
<1>3. (BatchIsWaiting /\ Listening /\ AskedToStop)'
  BY DEF IInv, BatchIsWaiting, Listening, AskedToStop, Send, loop, net
<1>. QED
  BY <1>1, <1>2, <1>3 DEF IInv

LEMMA ChildExitsStep ==
    ASSUME IInv, NEW k \in Kid, ChildExits(k)
    PROVE  IInv'
<1>0. "CHLD" \in Signal
  BY SignumFacts
<1>1. TypeOK'
  BY <1>0, DeliverKeeps DEF IInv, TypeOK, ChildExits, loop, net, bounds
<1>2. ZombieNoticed'
  BY <1>0, DeliverKeeps DEF IInv, ZombieNoticed, ChildExits, loop, net, bounds
<1>3. (BatchIsWaiting /\ Listening /\ AskedToStop)'
  BY DEF IInv, BatchIsWaiting, Listening, AskedToStop, ChildExits, loop, net, bounds
<1>. QED
  BY <1>1, <1>2, <1>3 DEF IInv

\* The flag of SIGCHLD is cleared only when its callback begins.
LEMMA DispatchStep ==
    ASSUME IInv, Dispatch
    PROVE  IInv'
<1>1. TypeOK'
  <2>1. at' \in 1..(Len(Signum) + 1)
    BY SignumFacts DEF IInv, TypeOK, Dispatch
  <2>2. (lpc = "callback" => at \in DOMAIN Signum)'
    BY DEF Dispatch
  <2>3. pending' \subseteq Signal /\ lpc' \in LoopPC
    BY DEF IInv, TypeOK, Dispatch, LoopPC
  <2>. QED
    BY <2>1, <2>2, <2>3 DEF IInv, TypeOK, Dispatch, loop, net, bounds
<1>2. ZombieNoticed'
  BY SignumFacts DEF IInv, ZombieNoticed, Dispatch, loop, net, bounds, Ended
<1>3. (BatchIsWaiting /\ Listening /\ AskedToStop)'
  BY DEF IInv, BatchIsWaiting, Listening, AskedToStop, Dispatch, loop, net, bounds
<1>. QED
  BY <1>1, <1>2, <1>3 DEF IInv

\* A callback that does not wait for children leaves what announces them.
LEMMA CallbackStep ==
    ASSUME IInv, ShutdownCb \/ ReloadCb \/ CoredumpCb
    PROVE  IInv'
<1>0. Signum[at] # "CHLD"
  BY DEF ShutdownCb, ReloadCb, CoredumpCb, Shutdown
<1>1. TypeOK'
  <2>0. at + 1 \in 1..(Len(Signum) + 1)
    BY SignumFacts DEF IInv, TypeOK, ShutdownCb, ReloadCb, CoredumpCb
  <2>1. CASE ShutdownCb
    BY <2>0, <2>1 DEF IInv, TypeOK, ShutdownCb, NextSignal, net, bounds, signals, LoopPC
  <2>2. CASE ReloadCb
    BY <2>0, <2>2 DEF IInv, TypeOK, ReloadCb, NextSignal, loop, net, bounds, signals, LoopPC
  <2>3. CASE CoredumpCb
    BY <2>3 DEF IInv, TypeOK, CoredumpCb, loop, net, bounds, signals, LoopPC
  <2>. QED
    BY <2>1, <2>2, <2>3
<1>2. ZombieNoticed'
  BY <1>0 DEF IInv, ZombieNoticed, ShutdownCb, ReloadCb, CoredumpCb, NextSignal, net, bounds, signals, Ended
<1>3. (BatchIsWaiting /\ Listening /\ AskedToStop)'
  BY DEF IInv, BatchIsWaiting, Listening, AskedToStop, ShutdownCb, ReloadCb, CoredumpCb, NextSignal,
         loop, net, bounds, signals, TypeOK
<1>. QED
  BY <1>1, <1>2, <1>3 DEF IInv

\* The loop of waitpid goes on until there is no zombie.
LEMMA ReapStep ==
    ASSUME IInv, ReapDone \/ \E k \in Kid : Reap(k)
    PROVE  IInv'
<1>1. TypeOK'
  <2>1. CASE ReapDone
    BY <2>1, SignumFacts DEF IInv, TypeOK, ReapDone, NextSignal, loop, net, bounds, signals, LoopPC
  <2>2. ASSUME NEW k \in Kid, Reap(k) PROVE TypeOK'
    BY <2>2 DEF IInv, TypeOK, Reap, loop, net, bounds, signals
  <2>. QED
    BY <2>1, <2>2
<1>2. ZombieNoticed'
  BY DEF IInv, ZombieNoticed, ReapDone, Reap, NextSignal, signals
<1>3. (BatchIsWaiting /\ Listening /\ AskedToStop)'
  BY DEF IInv, BatchIsWaiting, Listening, AskedToStop, ReapDone, Reap, NextSignal, loop, net, bounds, signals
<1>. QED
  BY <1>1, <1>2, <1>3 DEF IInv

----------------------------------------------------------------------------
(* Waiting and connections.                                                *)

LEMMA ConnectStep ==
    ASSUME IInv, NEW w \in Watcher, Connect(w)
    PROVE  IInv'
<1>1. waiting' \in [Watcher -> Nat] /\ (\A v \in Watcher : waiting[v] <= waiting'[v])
  BY DEF IInv, TypeOK, Connect
<1>2. TypeOK'
  BY <1>1 DEF IInv, TypeOK, Connect, loop, signals
<1>3. BatchIsWaiting'
  BY <1>1 DEF IInv, TypeOK, BatchIsWaiting, Connect
<1>4. (ZombieNoticed /\ Listening /\ AskedToStop)'
  BY DEF IInv, ZombieNoticed, Listening, AskedToStop, Connect, loop, signals
<1>. QED
  BY <1>2, <1>3, <1>4 DEF IInv

\* No back end reports more connections than wait.
LEMMA ReadyIsWaiting ==
    ASSUME TypeOK, NEW w \in Watcher
    PROVE  Ready(w) \in Nat /\ Ready(w) <= waiting[w]
<1>1. setup.backend \in {"epoll", "io_uring", "kqueue"} /\ waiting[w] \in Nat
  BY DEF TypeOK, Backend
<1>2. CASE setup.backend = "epoll"
  BY <1>1, <1>2 DEF Ready, EpollReady
<1>3. CASE setup.backend = "io_uring"
  BY <1>1, <1>3 DEF Ready, UringReady
<1>4. CASE setup.backend = "kqueue"
  BY <1>1, <1>4 DEF Ready, KqueueReady
<1>. QED
  BY <1>1, <1>2, <1>3, <1>4

LEMMA WaitStep ==
    ASSUME IInv, Wait
    PROVE  IInv'
<1>0. \A w \in Watcher : Ready(w) \in Nat /\ Ready(w) <= waiting[w]
  BY ReadyIsWaiting DEF IInv
<1>1. batch' \in [Watcher -> Nat] /\ \A w \in Watcher : batch'[w] <= waiting[w]
  BY <1>0 DEF Wait
<1>2. TypeOK'
  BY <1>1, SignumFacts DEF IInv, TypeOK, Wait, loop, bounds, LoopPC
<1>3. BatchIsWaiting'
  BY <1>1 DEF BatchIsWaiting, Wait
<1>4. (ZombieNoticed /\ Listening /\ AskedToStop)'
  BY DEF IInv, ZombieNoticed, Listening, AskedToStop, Wait, loop, Ended
<1>. QED
  BY <1>2, <1>3, <1>4 DEF IInv

\* The other ends of a wait, and of an iteration.
LEMMA TurnStep ==
    ASSUME IInv, Interrupted \/ WaitFails \/ Stop \/ HandleDone
    PROVE  IInv'
<1>1. TypeOK'
  <2>1. CASE Interrupted
    BY <2>1, SignumFacts DEF IInv, TypeOK, Interrupted, loop, net, bounds, signals, LoopPC
  <2>2. CASE WaitFails
    BY <2>2 DEF IInv, TypeOK, WaitFails, net, bounds, signals
  <2>3. CASE Stop \/ HandleDone
    BY <2>3 DEF IInv, TypeOK, Stop, HandleDone, loop, net, bounds, signals, LoopPC
  <2>. QED
    BY <2>1, <2>2, <2>3
<1>2. ZombieNoticed'
  BY DEF IInv, ZombieNoticed, Interrupted, WaitFails, Stop, HandleDone, signals, Ended
<1>3. BatchIsWaiting'
  BY DEF IInv, BatchIsWaiting, Interrupted, WaitFails, Stop, HandleDone, net
<1>4. (Listening /\ AskedToStop)'
  BY DEF IInv, TypeOK, Listening, AskedToStop, Interrupted, WaitFails, Stop, HandleDone, loop, net
<1>. QED
  BY <1>1, <1>2, <1>3, <1>4 DEF IInv

LEMMA OverflowStep ==
    ASSUME IInv, Overflow
    PROVE  IInv'
<1>1. TypeOK'
  BY DEF IInv, TypeOK, Overflow, NoEvents, bounds, signals, LoopPC
<1>2. BatchIsWaiting'
  BY DEF IInv, TypeOK, BatchIsWaiting, Overflow, NoEvents
<1>3. (ZombieNoticed /\ Listening /\ AskedToStop)'
  BY DEF IInv, TypeOK, ZombieNoticed, Listening, AskedToStop, Overflow, signals, Ended
<1>. QED
  BY <1>1, <1>2, <1>3 DEF IInv

\* One event less of what was reported, one connection less that waits.
LEMMA OneLess ==
    ASSUME TypeOK, BatchIsWaiting, NEW w \in Watcher, batch[w] > 0,
           batch' = [batch EXCEPT ![w] = @ - 1],
           waiting' = [waiting EXCEPT ![w] = @ - 1]
    PROVE  /\ batch' \in [Watcher -> Nat]
           /\ waiting' \in [Watcher -> Nat]
           /\ \A v \in Watcher : batch'[v] <= waiting'[v]
<1>1. batch[w] \in Nat /\ waiting[w] \in Nat /\ batch[w] <= waiting[w]
  BY DEF TypeOK, BatchIsWaiting
<1>2. batch[w] - 1 \in Nat /\ waiting[w] - 1 \in Nat /\ batch[w] - 1 <= waiting[w] - 1
  BY <1>1
<1>. QED
  BY <1>2 DEF TypeOK, BatchIsWaiting

\* io_uring arms an accept again as long as the loop runs.
LEMMA RearmKeeps ==
    ASSUME TypeOK, Listening, NEW w \in Watcher, Rearm(w), running' = running
    PROVE  armed' \subseteq Watcher /\ Listening'
BY DEF TypeOK, Listening, Rearm

\* A fork makes a child alive, never one that ended.
LEMMA ForkKeeps ==
    ASSUME TypeOK, NEW k \in Kid, kids[k] = "none", kids' = [kids EXCEPT ![k] = "alive"]
    PROVE  /\ kids' \in [Kid -> {"none", "alive", "zombie"}]
           /\ \A j \in Kid : kids'[j] = "zombie" => kids[j] = "zombie"
BY DEF TypeOK

LEMMA AcceptPortStep ==
    ASSUME IInv, NEW p \in Port, AcceptPort(p)
    PROVE  IInv'
<1>0. p \in Watcher /\ running' = running
  BY DEF Watcher, AcceptPort, loop
<1>1. /\ batch' \in [Watcher -> Nat]
      /\ waiting' \in [Watcher -> Nat]
      /\ \A v \in Watcher : batch'[v] <= waiting'[v]
  BY <1>0, OneLess DEF IInv, AcceptPort, Accepted
<1>2. armed' \subseteq Watcher /\ Listening'
  BY <1>0, RearmKeeps DEF IInv, AcceptPort
<1>3. /\ kids' \in [Kid -> {"none", "alive", "zombie"}]
      /\ \A j \in Kid : kids'[j] = "zombie" => kids[j] = "zombie"
  <2>1. CASE UNCHANGED kids
    BY <2>1 DEF IInv, TypeOK
  <2>2. ASSUME NEW k \in Kid, kids[k] = "none", kids' = [kids EXCEPT ![k] = "alive"]
        PROVE  <1>3!1
    BY <2>2, ForkKeeps DEF IInv
  <2>. QED
    BY <2>1, <2>2, ForkKeeps DEF AcceptPort, IInv
<1>4. TypeOK'
  BY <1>1, <1>2, <1>3 DEF IInv, TypeOK, AcceptPort, Accepted, loop, signals, bounds
<1>5. BatchIsWaiting'
  BY <1>1 DEF BatchIsWaiting, AcceptPort, Accepted
<1>6. (ZombieNoticed /\ AskedToStop)'
  BY <1>3 DEF IInv, ZombieNoticed, AskedToStop, AcceptPort, loop, signals
<1>. QED
  BY <1>2, <1>4, <1>5, <1>6 DEF IInv

LEMMA AcceptMgtStep ==
    ASSUME IInv, AcceptMgt
    PROVE  IInv'
<1>0. Mgt \in Watcher /\ running' = running
  BY DEF Watcher, AcceptMgt, loop
<1>1. /\ batch' \in [Watcher -> Nat]
      /\ waiting' \in [Watcher -> Nat]
      /\ \A v \in Watcher : batch'[v] <= waiting'[v]
  BY <1>0, OneLess DEF IInv, AcceptMgt, Accepted
<1>2. armed' \subseteq Watcher /\ Listening'
  BY <1>0, RearmKeeps DEF IInv, AcceptMgt
<1>3. TypeOK'
  BY <1>1, <1>2 DEF IInv, TypeOK, AcceptMgt, Accepted, loop, signals, bounds, LoopPC
<1>4. BatchIsWaiting'
  BY <1>1 DEF BatchIsWaiting, AcceptMgt
<1>5. (ZombieNoticed /\ AskedToStop)'
  BY DEF IInv, ZombieNoticed, AskedToStop, AcceptMgt, Accepted, loop, signals, Ended
<1>. QED
  BY <1>2, <1>3, <1>4, <1>5 DEF IInv

LEMMA AcceptNothingStep ==
    ASSUME IInv, NEW w \in Watcher, AcceptNothing(w)
    PROVE  IInv'
<1>1. /\ batch' \in [Watcher -> Nat]
      /\ waiting' \in [Watcher -> Nat]
      /\ \A v \in Watcher : batch'[v] <= waiting'[v]
  BY OneLess DEF IInv, AcceptNothing, Accepted
<1>2. TypeOK'
  BY <1>1 DEF IInv, TypeOK, AcceptNothing, Accepted, loop, signals, bounds
<1>3. BatchIsWaiting'
  BY <1>1 DEF BatchIsWaiting, AcceptNothing, Accepted
<1>4. (ZombieNoticed /\ Listening /\ AskedToStop)'
  BY DEF IInv, ZombieNoticed, Listening, AskedToStop, AcceptNothing, loop, signals
<1>. QED
  BY <1>2, <1>3, <1>4 DEF IInv

\* An accept that fails ends the loop of epoll and kqueue with its batch, and is one event
\* less for io_uring.
LEMMA AcceptFailsStep ==
    ASSUME IInv, NEW w \in Watcher, AcceptFails(w)
    PROVE  IInv'
<1>1. CASE setup.backend = "io_uring"
  <2>1. /\ batch' \in [Watcher -> Nat]
        /\ waiting' \in [Watcher -> Nat]
        /\ \A v \in Watcher : batch'[v] <= waiting'[v]
    BY <1>1, OneLess DEF IInv, AcceptFails
  <2>2. armed' \subseteq Watcher /\ Listening'
    BY <1>1 DEF IInv, TypeOK, Listening, AcceptFails
  <2>3. TypeOK'
    BY <1>1, <2>1, <2>2 DEF IInv, TypeOK, AcceptFails, signals, bounds
  <2>4. BatchIsWaiting'
    BY <1>1, <2>1 DEF BatchIsWaiting, AcceptFails
  <2>5. (ZombieNoticed /\ AskedToStop)'
    BY <1>1 DEF IInv, ZombieNoticed, AskedToStop, AcceptFails, signals
  <2>. QED
    BY <2>2, <2>3, <2>4, <2>5 DEF IInv
<1>2. CASE setup.backend # "io_uring"
  <2>1. batch' = NoEvents /\ waiting' \in [Watcher -> Nat]
    <3>1. batch[w] \in Nat /\ waiting[w] \in Nat /\ batch[w] <= waiting[w] /\ batch[w] > 0
      BY DEF IInv, TypeOK, BatchIsWaiting, AcceptFails
    <3>2. waiting[w] - 1 \in Nat
      BY <3>1
    <3>. QED
      BY <1>2, <3>2 DEF IInv, TypeOK, AcceptFails
  <2>2. TypeOK'
    BY <1>2, <2>1 DEF IInv, TypeOK, AcceptFails, NoEvents, signals, bounds, LoopPC
  <2>3. BatchIsWaiting'
    BY <2>1 DEF BatchIsWaiting, NoEvents
  <2>4. (ZombieNoticed /\ Listening /\ AskedToStop)'
    BY <1>2 DEF IInv, ZombieNoticed, Listening, AskedToStop, AcceptFails, signals, Ended
  <2>. QED
    BY <2>2, <2>3, <2>4 DEF IInv
<1>. QED
  BY <1>1, <1>2

LEMMA CommandStep ==
    ASSUME IInv, NEW c \in {"shutdown", "forked", "other"}, Command(c)
    PROVE  IInv'
<1>1. /\ kids' \in [Kid -> {"none", "alive", "zombie"}]
      /\ \A j \in Kid : kids'[j] = "zombie" => kids[j] = "zombie"
  <2>1. CASE UNCHANGED kids
    BY <2>1 DEF IInv, TypeOK
  <2>2. ASSUME NEW k \in Kid, kids[k] = "none", kids' = [kids EXCEPT ![k] = "alive"]
        PROVE  <1>1!1
    BY <2>2, ForkKeeps DEF IInv
  <2>. QED
    BY <2>1, <2>2, ForkKeeps DEF Command, IInv
<1>2. /\ running' \in BOOLEAN /\ keep_running' \in BOOLEAN
      /\ running' => running
      /\ (running' = running /\ keep_running' = keep_running) \/ ~ keep_running'
  <2>1. CASE UNCHANGED loop
    BY <2>1 DEF IInv, TypeOK, loop
  <2>2. CASE running' = FALSE /\ keep_running' = FALSE
    BY <2>2
  <2>. QED
    BY <2>1, <2>2 DEF Command
<1>3. TypeOK'
  BY <1>1, <1>2 DEF IInv, TypeOK, Command, net, signals, bounds, LoopPC
<1>4. (ZombieNoticed /\ BatchIsWaiting)'
  BY <1>1 DEF IInv, ZombieNoticed, BatchIsWaiting, Command, net, signals, Ended
<1>5. (Listening /\ AskedToStop)'
  BY <1>2 DEF IInv, Listening, AskedToStop, Command, net
<1>. QED
  BY <1>3, <1>4, <1>5 DEF IInv

----------------------------------------------------------------------------

LEMMA NextIInv == IInv /\ [Next]_vars => IInv'
<1>. SUFFICES ASSUME IInv, [Next]_vars PROVE IInv'
  OBVIOUS
<1>1. CASE LoopStep
  BY <1>1, WaitStep, TurnStep, OverflowStep, DispatchStep, CallbackStep, ReapStep,
     AcceptMgtStep, AcceptPortStep, AcceptNothingStep, AcceptFailsStep DEF LoopStep
<1>2. CASE ClientSends
  BY <1>2, CommandStep DEF ClientSends
<1>3. CASE Environment
  BY <1>3, SendStep, ChildExitsStep, ConnectStep DEF Environment
<1>4. CASE UNCHANGED vars
  BY <1>4 DEF vars, IInv, TypeOK, ZombieNoticed, BatchIsWaiting, Listening, AskedToStop
<1>. QED
  BY <1>1, <1>2, <1>3, <1>4 DEF Next

\* For any ports, children and back ends: a child that ended is announced until it is
\* reaped, a batch names connections that wait and does not outlive its iteration, every
\* port is listened on while the loop runs, and without errors of the system it ends only
\* when a signal or a command asked for it.
THEOREM LoopIsSound == Spec => []LoopSound
<1>1. IInv => LoopSound
  BY DEF IInv, LoopSound, StopsOnlyWhenAsked, AskedToStop
<1>. QED
  BY <1>1, InitIInv, NextIInv, PTL DEF Spec
=============================================================================
