---------------------------- MODULE GuardedCache ----------------------------
(***************************************************************************)
(* What the comments of cache.h, prometheus.c and bridge.c promise of a    *)
(* cache in shared memory: it "is protected by the `lock` field", and      *)
(* every operation on it "requires the caller to hold the lock".           *)
(*                                                                         *)
(* A process takes the free lock, changes the content while it holds the   *)
(* lock, and gives the lock back.  A process may also end at any time; one *)
(* that ends while it owns the lock takes the lock with it, because the    *)
(* lock is a byte in shared memory that nobody resets.                     *)
(***************************************************************************)
CONSTANTS Procs,     \* the processes that map the cache
          NoProc,    \* stands for no process
          Contents   \* what the cache may contain

VARIABLES owner,     \* who holds the lock, or NoProc
          ended,     \* the processes that no longer run
          content    \* what the cache contains

vars == << owner, ended, content >>

Init ==
    /\ owner = NoProc
    /\ ended = {}
    /\ content \in Contents

Acquire(p) ==
    /\ owner = NoProc
    /\ p \notin ended
    /\ owner' = p
    /\ UNCHANGED << ended, content >>

Update(p) ==
    /\ owner = p
    /\ p \notin ended
    /\ content' \in Contents
    /\ UNCHANGED << owner, ended >>

Release(p) ==
    /\ owner = p
    /\ p \notin ended
    /\ owner' = NoProc
    /\ UNCHANGED << ended, content >>

End(p) ==
    /\ ended' = ended \cup {p}
    /\ UNCHANGED << owner, content >>

Next ==
    \E p \in Procs : Acquire(p) \/ Update(p) \/ Release(p) \/ End(p)

Spec == Init /\ [][Next]_vars

=============================================================================
