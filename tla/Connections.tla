---------------------------- MODULE Connections ----------------------------
(***************************************************************************)
(* The connections to the PostgreSQL servers during scrapes.               *)
(*                                                                         *)
(* config->servers[] lives in shared memory, but a file descriptor means   *)
(* something only in the table of the process that opened it. Children     *)
(* that scrape (one per request to /metrics, one per history tick) open,   *)
(* use and close the connections through the shared entries: the model     *)
(* keeps both the shared entries and the table of every child, so that a   *)
(* number written by one child and used by another shows what it means     *)
(* there.                                                                  *)
(***************************************************************************)
EXTENDS Integers, FiniteSets, Sequences

CONSTANTS
    Proc,              \* children that may scrape
    NumServers,        \* config->number_of_servers
    Metrics,           \* custom metrics: exec_on_all_dbs, server_query_type
    NUMBER_OF_DATABASES,
    MaxOthers,         \* bound: databases of a server besides "postgres"
    Setups             \* deployments to look at, one is chosen at the start

ASSUME ConnectionsAssumption ==
    /\ NumServers \in Nat \ {0}
    /\ NUMBER_OF_DATABASES \in Nat
    /\ MaxOthers \in Nat
    /\ Setups \subseteq [metrics : BOOLEAN, history : BOOLEAN,
                         blocking_timeout : BOOLEAN, killed : BOOLEAN]
    /\ Metrics \in Seq([all : BOOLEAN, on : {"both", "primary", "replica"}])

VARIABLES
    setup,         \* /metrics is scraped; config->history > 0; a scrape may outlast the
                   \* blocking timeout of a waiter; children are killed
    cache_lock,    \* the lock of the metrics cache
    servers,       \* config->servers[]: fd, state, databases
    fds,           \* the descriptor table of each child
    role,          \* what a child was forked for
    pc,
    at             \* the loop variables of a child: server, metric, database

vars == << setup, cache_lock, servers, fds, role, pc, at >>

Server == 1..NumServers
\* One descriptor per server, the client's, and one in case of a leak.
Fd     == 1..(NumServers + 2)
NoFd   == -1

\* Databases of a server: "postgres", the others, and the one PostgreSQL takes when
\* it is asked for a database without a name.
Postgres   == 1
Unnamed    == 0
Database   == 0..(MaxOthers + 1)

\* What a descriptor refers to: a database of a server, or the socket of the HTTP client.
Conn(s, d) == [server |-> s, db |-> d]
Conns      == [server : Server, db : Database]
Free       == [server |-> 0, db |-> 0]
Client     == [server |-> 0, db |-> 1]

Closed     == [fd |-> NoFd, state |-> "unknown", dbs |-> << >>]

Init ==
    /\ setup \in Setups
    /\ cache_lock = FALSE
    /\ servers = [s \in Server |-> Closed]
    /\ fds = [p \in Proc |-> [f \in Fd |-> Free]]
    /\ role = [p \in Proc |-> "none"]
    /\ pc = [p \in Proc |-> "none"]
    /\ at = [p \in Proc |-> [s |-> 1, m |-> 1, d |-> 1]]

----------------------------------------------------------------------------

Goto(p, l)     == pc' = [pc EXCEPT ![p] = l]
At(p, s, m, d) == at' = [at EXCEPT ![p] = [s |-> s, m |-> m, d |-> d]]
NextServer(p)  == At(p, at[p].s + 1, 1, 1)

\* The lowest free number of the table of p: what socket() returns.
NewFd(p) == CHOOSE f \in Fd : fds[p][f] = Free /\ \A g \in Fd : fds[p][g] = Free => f <= g

\* Fault: every disconnect closes the first descriptor.
DisconnectFirst(p, f) == fds' = [fds EXCEPT ![p][1] = Free]

\* pgexporter_disconnect: close() of a number in the caller's own table.
Disconnect(p, f) == fds' = [fds EXCEPT ![p][f] = Free]

\* accept_metrics_cb forks a child, which inherits the socket of the client.
AcceptScrape(p) ==
    /\ setup.metrics
    /\ pc[p] = "none"
    /\ role' = [role EXCEPT ![p] = "metrics"]
    /\ fds' = [fds EXCEPT ![p][1] = Client]
    /\ Goto(p, "lock")
    /\ UNCHANGED << cache_lock, servers, at >>

\* The history ticker forks a worker, which scrapes without the cache's lock; the
\* running flag admits one at a time.
HistoryTick(p) ==
    /\ setup.history
    /\ pc[p] = "none"
    /\ \A q \in Proc : role[q] # "history"
    /\ role' = [role EXCEPT ![p] = "history"]
    /\ Goto(p, "open")
    /\ UNCHANGED << cache_lock, servers, fds, at >>

TakeLock(p) ==
    /\ pc[p] = "lock"
    /\ ~ cache_lock
    /\ cache_lock' = TRUE
    /\ Goto(p, "open")
    /\ UNCHANGED << servers, fds, role, at >>

\* A waiter that reaches blocking_timeout goes to the error path of metrics_page,
\* which closes "the" connections and leaves the lock alone.
LockTimeOut(p) ==
    /\ setup.blocking_timeout
    /\ pc[p] = "lock"
    /\ cache_lock
    /\ Goto(p, "error")
    /\ UNCHANGED << cache_lock, servers, fds, role, at >>

----------------------------------------------------------------------------
(* pgexporter_open_connections, one server at a time.                      *)

OpenNext(p) ==
    /\ pc[p] = "open"
    /\ \/ /\ at[p].s > NumServers
          /\ At(p, 1, 1, 1)
          /\ Goto(p, "collect")
       \/ /\ at[p].s \in Server
          /\ Goto(p, IF servers[at[p].s].fd # NoFd THEN "check" ELSE "auth")
          /\ UNCHANGED at
    /\ UNCHANGED << cache_lock, servers, fds, role >>

\* A descriptor that is already there is probed with a query. Whatever the number
\* means in this child's table is what gets probed: if it is not open the write
\* fails; a peer that answers with anything but an error passes for a server.
CheckValid(p) ==
    LET s == at[p].s
        f == servers[s].fd
    IN  /\ pc[p] = "check"
        /\ \/ /\ f # NoFd /\ fds[p][f] # Free
              /\ NextServer(p)
              /\ Goto(p, "open")
              /\ UNCHANGED << servers, fds >>
           \/ /\ IF f = NoFd THEN UNCHANGED fds ELSE Disconnect(p, f)
              /\ servers' = [servers EXCEPT ![s].fd = NoFd]
              /\ Goto(p, "auth")
              /\ UNCHANGED at
        /\ UNCHANGED << cache_lock, role >>

\* No user is configured for the server: it is skipped.
NoUser(p) ==
    /\ pc[p] = "auth"
    /\ NextServer(p)
    /\ Goto(p, "open")
    /\ UNCHANGED << cache_lock, servers, fds, role >>

\* pgexporter_server_authenticate starts by clearing the entry it will fill.
AuthenticateStart(p) ==
    /\ pc[p] \in {"auth", "switch"}
    /\ servers' = [servers EXCEPT ![at[p].s].fd = NoFd]
    /\ Goto(p, IF pc[p] = "auth" THEN "authing" ELSE "switching")
    /\ UNCHANGED << cache_lock, fds, role, at >>

\* Connect, TLS, start-up and authentication: on success the entry gets the new
\* descriptor, on any failure the socket is closed again and the entry stays empty.
AuthenticateEnd(p, d) ==
    LET f == NewFd(p) IN
    /\ \E g \in Fd : fds[p][g] = Free          \* socket() fails on a full table
    /\ fds' = [fds EXCEPT ![p][f] = Conn(at[p].s, d)]
    /\ servers' = [servers EXCEPT ![at[p].s].fd = f]

Authenticated(p) ==
    /\ pc[p] = "authing"
    /\ AuthenticateEnd(p, Postgres)
    /\ Goto(p, "setup")
    /\ UNCHANGED << cache_lock, role, at >>

AuthenticateFails(p) ==
    /\ pc[p] = "authing"
    /\ NextServer(p)
    /\ Goto(p, "open")
    /\ UNCHANGED << cache_lock, servers, fds, role >>

\* The databases other than "postgres", as the server lists them.
Others(n) == [i \in 1..n |-> i + 1]

\* Fault: "postgres" comes first.
DetectPostgresFirst(n) ==
    IF n > NUMBER_OF_DATABASES THEN Others(NUMBER_OF_DATABASES)
                               ELSE << Postgres >> \o Others(n)

\* pgexporter_detect_databases: the other databases, then "postgres"; too many of
\* them end the list early, and "postgres" is not on it.
DetectDatabases(n) ==
    IF n > NUMBER_OF_DATABASES THEN Others(NUMBER_OF_DATABASES)
                               ELSE Append(Others(n), Postgres)

\* pgexporter_server_info, the role, the databases (none if the query for them fails),
\* the extensions, the timeout.
Setup(p) ==
    /\ pc[p] = "setup"
    /\ servers[at[p].s].fd # NoFd
    /\ \E st \in {"primary", "replica"},
          dbs \in {<< >>} \cup {DetectDatabases(n) : n \in 0..MaxOthers} :
          servers' = [servers EXCEPT ![at[p].s] = [fd |-> @.fd, state |-> st, dbs |-> dbs]]
    /\ NextServer(p)
    /\ Goto(p, "open")
    /\ UNCHANGED << cache_lock, fds, role >>

\* Without the role pg_monitor (or without a connection to ask for it) the child
\* closes everything and exits: it does not come back to release the lock.
RoleMissing(p) ==
    LET s == at[p].s IN
    /\ pc[p] = "setup"
    /\ IF servers[s].fd = NoFd THEN UNCHANGED fds ELSE Disconnect(p, servers[s].fd)
    /\ servers' = [servers EXCEPT ![s] = [fd |-> NoFd, state |-> "unknown", dbs |-> @.dbs]]
    /\ At(p, 1, 1, 1)
    /\ Goto(p, "quit")
    /\ UNCHANGED << cache_lock, role >>

----------------------------------------------------------------------------
(* The collectors.                                                         *)

\* The built-in collectors query every server that has a descriptor.
Collect(p) ==
    /\ pc[p] = "collect"
    /\ IF at[p].s > NumServers
         THEN At(p, 1, 1, 1) /\ Goto(p, "custom")
         ELSE At(p, at[p].s + 1, 1, 1) /\ UNCHANGED pc
    /\ UNCHANGED << cache_lock, servers, fds, role >>

\* custom_metrics visits (metric, server, database); with exec_on_all_dbs every
\* database of the server, without it only the last one.
FirstDb(m, s) == IF Metrics[m].all THEN 1 ELSE Len(servers[s].dbs)

\* server_query_type and the version of the server decide whether the metric is for it.
Wanted(m, s) == Metrics[m].on \in {"both", servers[s].state}

\* The next (metric, server, database) after the one at hand.
Advance(p) ==
    IF at[p].s < NumServers THEN At(p, at[p].s + 1, at[p].m, -1)
                            ELSE At(p, 1, at[p].m + 1, -1)

CustomStart(p) ==
    /\ pc[p] = "custom"
    /\ At(p, 1, 1, -1)
    /\ Goto(p, "visit")
    /\ UNCHANGED << cache_lock, servers, fds, role >>

\* The position is (m, s, d): d = -1 before the first database of a server.
Visit(p) ==
    LET s == at[p].s
        m == at[p].m
        d == IF at[p].d = -1 THEN FirstDb(m, s) ELSE at[p].d + 1
    IN  /\ pc[p] = "visit"
        /\ \/ /\ m > Len(Metrics)
              /\ At(p, 1, 1, 1)
              /\ Goto(p, "extensions")
           \/ /\ m <= Len(Metrics)
              /\ \/ servers[s].fd = NoFd
                 \/ ~ Wanted(m, s)
                 \/ d > Len(servers[s].dbs)
              /\ Advance(p)
              /\ UNCHANGED pc
           \/ /\ m <= Len(Metrics)
              /\ servers[s].fd # NoFd
              /\ Wanted(m, s)
              /\ d <= Len(servers[s].dbs)
              /\ At(p, s, m, d)
              /\ Goto(p, "terminate")
        /\ UNCHANGED << cache_lock, servers, fds, role >>

\* Fault: the old connection is not closed before the next one is made.
SwitchDbKeepsOld(p) ==
    /\ pc[p] = "terminate"
    /\ servers' = [servers EXCEPT ![at[p].s].fd = NoFd]
    /\ Goto(p, "switch")
    /\ UNCHANGED << cache_lock, fds, role, at >>

\* pgexporter_switch_db: say goodbye, close, connect to the next database.
SwitchDb(p) ==
    LET f == servers[at[p].s].fd IN
    /\ pc[p] = "terminate"
    /\ IF f = NoFd THEN UNCHANGED fds ELSE Disconnect(p, f)
    /\ servers' = [servers EXCEPT ![at[p].s].fd = NoFd]
    /\ Goto(p, "switch")
    /\ UNCHANGED << cache_lock, role, at >>

\* The name at a position of the list. Without any database and without
\* exec_on_all_dbs the loop starts one before the first: the name there is empty.
DbName(s, d) == IF d \in DOMAIN servers[s].dbs THEN servers[s].dbs[d] ELSE Unnamed

\* Connected: the query of the metric runs there; its failure changes nothing here.
Switched(p) ==
    /\ pc[p] = "switching"
    /\ AuthenticateEnd(p, DbName(at[p].s, at[p].d))
    /\ Goto(p, "visit")
    /\ UNCHANGED << cache_lock, role, at >>

\* The connection fails: the loop over the databases of this server is left.
SwitchFails(p) ==
    /\ pc[p] = "switching"
    /\ Advance(p)
    /\ Goto(p, "visit")
    /\ UNCHANGED << cache_lock, servers, fds, role >>

\* extension_metrics queries every server that still has a descriptor, on the
\* database the custom metrics left it with; the alerts after it do the same.
Extensions(p) ==
    /\ pc[p] = "extensions"
    /\ IF at[p].s > NumServers
         THEN At(p, 1, 1, 1) /\ Goto(p, "close")
         ELSE At(p, at[p].s + 1, 1, 1) /\ UNCHANGED pc
    /\ UNCHANGED << cache_lock, servers, fds, role >>

----------------------------------------------------------------------------
(* pgexporter_close_connections and the end of a child.                    *)

Closing == {"close", "error", "quit"}

\* Fault: the descriptor is closed and its number stays in the entry.
CloseEntryKeepsNumber(p, s) ==
    /\ IF servers[s].fd = NoFd
         THEN UNCHANGED << servers, fds >>
         ELSE /\ Disconnect(p, servers[s].fd)
              /\ servers' = [servers EXCEPT ![s].state = "unknown"]

CloseEntry(p, s) ==
    /\ IF servers[s].fd = NoFd
         THEN UNCHANGED << servers, fds >>
         ELSE /\ Disconnect(p, servers[s].fd)
              /\ servers' = [servers EXCEPT ![s] = [fd |-> NoFd, state |-> "unknown", dbs |-> @.dbs]]

CloseNext(p) ==
    /\ pc[p] \in Closing
    /\ at[p].s \in Server
    /\ CloseEntry(p, at[p].s)
    /\ NextServer(p)
    /\ UNCHANGED << cache_lock, role, pc >>

\* The process ends: the kernel closes what its table still holds.
Exit(p, lock) ==
    /\ cache_lock' = lock
    /\ fds' = [fds EXCEPT ![p] = [f \in Fd |-> Free]]
    /\ role' = [role EXCEPT ![p] = "none"]
    /\ Goto(p, "none")
    /\ At(p, 1, 1, 1)
    /\ UNCHANGED servers

Finish(p) ==
    /\ pc[p] = "close"
    /\ at[p].s > NumServers
    /\ Exit(p, IF role[p] = "metrics" THEN FALSE ELSE cache_lock)

GiveUp(p) ==
    /\ pc[p] \in {"error", "quit"}
    /\ at[p].s > NumServers
    /\ Exit(p, cache_lock)

Kill(p) ==
    /\ setup.killed
    /\ pc[p] # "none"
    /\ Exit(p, cache_lock)

Step(p) ==
    \/ AcceptScrape(p) \/ HistoryTick(p) \/ TakeLock(p) \/ LockTimeOut(p)
    \/ OpenNext(p) \/ CheckValid(p) \/ NoUser(p)
    \/ AuthenticateStart(p) \/ Authenticated(p) \/ AuthenticateFails(p)
    \/ Setup(p) \/ RoleMissing(p)
    \/ Collect(p) \/ CustomStart(p) \/ Visit(p)
    \/ SwitchDb(p) \/ Switched(p) \/ SwitchFails(p) \/ Extensions(p)
    \/ CloseNext(p) \/ Finish(p) \/ GiveUp(p) \/ Kill(p)

Next == UNCHANGED setup /\ \E p \in Proc : Step(p)

Spec == Init /\ [][Next]_vars

----------------------------------------------------------------------------

TypeOK ==
    /\ setup \in Setups
    /\ cache_lock \in BOOLEAN
    /\ servers \in [Server -> [fd : Fd \cup {NoFd}, state : {"unknown", "primary", "replica"},
                               dbs : Seq(Database)]]
    /\ fds \in [Proc -> [Fd -> Conns \cup {Free, Client}]]
    /\ role \in [Proc -> {"none", "metrics", "history"}]
    /\ \A p \in Proc : at[p].s \in 1..(NumServers + 1)

\* The server whose descriptor the next step of p writes to or reads from.
Uses(p) ==
    IF \/ pc[p] \in {"setup", "terminate"}
       \/ pc[p] \in {"collect", "extensions"} \cup Closing /\ at[p].s \in Server
    THEN {at[p].s} ELSE {}

\* A child writes queries, role checks and the goodbye only to a connection to that
\* server which it opened itself: "child processes will create their own" (main.c).
\* A number another child left in shared memory would be some other file here.
OwnDescriptor ==
    \A p \in Proc : \A s \in Uses(p) :
        servers[s].fd # NoFd =>
            \E d \in Database : fds[p][servers[s].fd] = Conn(s, d)

\* Nothing but the lock of the metrics cache keeps two scrapes apart: one kind of
\* scraper, no waiter that gives up, and nobody is killed.
Exclusive ==
    /\ ~ (setup.metrics /\ setup.history)
    /\ ~ setup.blocking_timeout
    /\ ~ setup.killed

\* Where the cache's lock or the running flag really is exclusive, the shared entries
\* behave as if each child had its own.
OwnWhenExclusive == Exclusive => OwnDescriptor

\* The client's socket stays open until its child ends, so that the answer can be
\* written: no clean-up of server connections closes it.
ClientKept ==
    Exclusive => \A p \in Proc : role[p] = "metrics" => fds[p][1] = Client

\* A scrape leaves no descriptor behind: when no child is at work every entry is
\* empty again. 
NothingLeftOpen ==
    ~ setup.killed /\ (\A p \in Proc : pc[p] \in {"none", "lock"})
        => \A s \in Server : servers[s].fd = NoFd

\* No child holds more connections than there are servers: reconnecting to another
\* database or after a failed probe closes the old one first.
NoDescriptorLeak ==
    Exclusive => \A p \in Proc : Cardinality({f \in Fd : fds[p][f] \in Conns}) <= NumServers

\* extension_metrics and the alerts name no database: where the databases could be
\* listed they run in "postgres", since every round of custom metrics ends there.
ExtensionsInPostgres ==
    Exclusive => \A p \in Proc : pc[p] = "extensions" =>
        \A s \in Server :
            /\ servers[s].fd # NoFd
            /\ Postgres \in {servers[s].dbs[i] : i \in DOMAIN servers[s].dbs}
            => fds[p][servers[s].fd] = Conn(s, Postgres)

=============================================================================
