---------------------------- MODULE MCEventLoop ----------------------------
(* EventLoop on small instances.                                           *)
EXTENDS EventLoop

CONSTANTS http, k1, k2

\* Every back end, without faults, with failing waits and accepts, and with a client of
\* the management socket that sends nothing.
Deployments ==
    {[backend |-> b, accept_error |-> f = "accept", wait_error |-> f = "wait",
      silent |-> f = "silent"] :
        b \in {"epoll", "io_uring", "kqueue"}, f \in {"none", "accept", "wait", "silent"}}
=============================================================================
