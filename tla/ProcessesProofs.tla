--------------------------- MODULE ProcessesProofs --------------------------
(***************************************************************************)
(* What the processes do to the structure they share: the descriptors of the*)
(* server connections, and the configuration.                              *)
(***************************************************************************)
EXTENDS Processes, SequenceTheorems, FiniteSetTheorems, WellFoundedInduction, TLAPS

(* Connections.                                                            *)

Entry == [fd : Fd \cup {NoFd}, state : {"unknown", "primary", "replica"}, dbs : Seq(Database)]

\* At work on one server, at work on one server of the custom metrics.
OnServer == {"check", "auth", "authing", "setup"}
OnMetric == {"visit", "terminate", "switch", "switching"}
Place    == {"none", "lock", "open", "collect", "custom", "extensions"} \cup OnServer \cup OnMetric \cup Closing

ConnTypes ==
    /\ setup \in Setups
    /\ cache_lock \in BOOLEAN
    /\ servers \in [Server -> Entry]
    /\ fds \in [Proc -> [Fd -> Conns \cup {Free, Client}]]
    /\ role \in [Proc -> {"none", "metrics", "history"}]
    /\ pc \in [Proc -> Place]
    /\ at \in [Proc -> [s : 1 .. (NumServers + 1), m : Nat, d : Nat \cup {-1}]]
    /\ \A p \in Proc : pc[p] \in OnServer \cup OnMetric => at[p].s \in Server

Working(p) == pc[p] \notin {"none", "lock"}

\* What a child was forked for tells where it can be.
Roles ==
    /\ \A p \in Proc :
         /\ role[p] = "none" <=> pc[p] = "none"
         /\ role[p] = "metrics" => setup.metrics
         /\ role[p] = "history" => setup.history
         /\ pc[p] = "lock" => role[p] = "metrics"
    /\ \A p, q \in Proc : role[p] = "history" /\ role[q] = "history" => p = q

\* "postgres" is the last database of the list, if it is on it.
PostgresLast ==
    \A s \in Server : \A i \in DOMAIN servers[s].dbs :
        servers[s].dbs[i] = Postgres => servers[s].dbs[Len(servers[s].dbs)] = Postgres

\* Somebody will still close the entry of s.
WillClose(p, s) == Working(p) /\ (pc[p] \in Closing => at[p].s <= s)
ClosedLater ==
    ~ setup.killed => \A s \in Server : servers[s].fd # NoFd => \E p \in Proc : WillClose(p, s)

\* One scrape at a time.
Alone ==
    /\ \A p \in Proc : Working(p) /\ role[p] = "metrics" => cache_lock
    /\ \A p, q \in Proc : Working(p) /\ Working(q) => p = q

\* The shared entries and the table of the child at work say the same.
Entries ==
    /\ \A p \in Proc : \A s \in Server :
         Working(p) /\ servers[s].fd # NoFd =>
            fds[p][servers[s].fd] \in Conns /\ fds[p][servers[s].fd].server = s
    /\ \A p \in Proc : \A f \in Fd :
         fds[p][f] \in Conns => Working(p) /\ servers[fds[p][f].server].fd = f
    /\ \A p \in Proc : role[p] = "metrics" => fds[p][1] = Client

InPostgres(p, s) == servers[s].fd # NoFd => fds[p][servers[s].fd] = Conn(s, Postgres)

Ready(p, s) ==
    (\E i \in DOMAIN servers[s].dbs : servers[s].dbs[i] = Postgres) => InPostgres(p, s)

\* Which databases the child at work is connected to.
Visiting(p) ==
    /\ pc[p] \in {"auth", "authing", "switch", "switching"} => servers[at[p].s].fd = NoFd
    /\ pc[p] \in {"open", "collect", "custom"} \cup OnServer => \A s \in Server : InPostgres(p, s)
    /\ pc[p] \in OnMetric => \A s \in Server \ {at[p].s} : Ready(p, s)
    /\ pc[p] \in {"terminate", "switch", "switching"} => at[p].d # -1
    /\ pc[p] = "visit" /\ at[p].d = -1 => Ready(p, at[p].s)
    /\ pc[p] \in OnMetric /\ at[p].d # -1 =>
         /\ at[p].m <= Len(Metrics) /\ Wanted(at[p].m, at[p].s)
         /\ at[p].d <= Len(servers[at[p].s].dbs)
    /\ pc[p] = "visit" /\ at[p].d # -1 /\ servers[at[p].s].fd # NoFd =>
         fds[p][servers[at[p].s].fd] = Conn(at[p].s, DbName(at[p].s, at[p].d))
    /\ pc[p] = "extensions" => \A s \in Server : Ready(p, s)

Apart == Alone /\ Entries /\ \A p \in Proc : Visiting(p)

ConnInv == ConnTypes /\ Roles /\ PostgresLast /\ ClosedLater /\ (Exclusive => Apart)

LEMMA ConnFacts ==
    /\ NumServers \in Nat \ {0} /\ Server = 1 .. NumServers /\ Fd = 1 .. (NumServers + 2)
    /\ NoFd \notin Fd
    /\ Free \notin Conns /\ Client \notin Conns /\ Free # Client
    /\ \A s \in Server, d \in Database : Conn(s, d) \in Conns /\ Conn(s, d).server = s /\ Conn(s, d).db = d
    /\ \A c \in Conns : c.server \in Server /\ c.db \in Database /\ c = Conn(c.server, c.db)
BY ConnectionsAssumption DEF Server, Fd, NoFd, Free, Client, Conns, Conn, Database

\* socket() returns a number that is free.
LEMMA NewFdFree ==
    ASSUME ConnTypes, NEW p \in Proc, \E g \in Fd : fds[p][g] = Free
    PROVE  NewFd(p) \in Fd /\ fds[p][NewFd(p)] = Free
<1>. DEFINE T == {g \in Fd : fds[p][g] = Free}
<1>1. T \subseteq Nat /\ T # {} /\ Fd \subseteq Nat
  BY ConnFacts
<1>. DEFINE R == {ss \in Nat \X Nat : ss[1] < ss[2]}
<1>2. \E x \in T : \A y \in T : ~ (<< y, x >> \in R)
  <2>1. IsWellFoundedOn(R, Nat)
    BY NatLessThanWellFounded DEF OpToRel
  <2>. HIDE DEF R
  <2>. QED
    BY <1>1, <2>1, WFMin
<1>3. \E x \in T : \A y \in T : x <= y
  <2>1. PICK x \in T : \A y \in T : ~ (<< y, x >> \in R)
    BY <1>2
  <2>2. \A y \in T : x <= y
    <3>. TAKE y \in T
    <3>1. x \in Nat /\ y \in Nat
      BY <1>1
    <3>2. y < x => << y, x >> \in R
      BY <3>1
    <3>. QED
      BY <2>1, <3>1, <3>2
  <2>. QED
    BY <2>2
<1>4. \E f \in Fd : fds[p][f] = Free /\ \A g \in Fd : fds[p][g] = Free => f <= g
  BY <1>3
<1>. QED
  BY <1>4 DEF NewFd

LEMMA InitConn == Init => ConnInv
<1>. SUFFICES ASSUME Init PROVE ConnInv
  OBVIOUS
<1>1. ConnTypes
  <2>1. Closed \in Entry
    BY EmptySeq DEF Closed, Entry, NoFd
  <2>2. at \in [Proc -> [s : 1 .. (NumServers + 1), m : Nat, d : Nat \cup {-1}]]
    BY ConnFacts DEF Init
  <2>. QED
    BY <2>1, <2>2 DEF Init, ConnTypes, Place, OnServer, OnMetric
<1>2. Roles /\ PostgresLast /\ ClosedLater
  BY DEF Init, Roles, PostgresLast, ClosedLater, Closed
<1>3. Alone /\ Entries /\ \A p \in Proc : Visiting(p)
  BY ConnFacts DEF Init, Alone, Entries, Visiting, Working, OnServer, OnMetric
<1>. QED
  BY <1>1, <1>2, <1>3 DEF ConnInv, Apart

Position == [s : 1 .. (NumServers + 1), m : Nat, d : Nat \cup {-1}]

\* The table of p and the entries, as p sees them.
EntriesOf(p) ==
    /\ \A s \in Server : servers[s].fd # NoFd =>
          fds[p][servers[s].fd] \in Conns /\ fds[p][servers[s].fd].server = s
    /\ \A f \in Fd : fds[p][f] \in Conns => servers[fds[p][f].server].fd = f
    /\ role[p] = "metrics" => fds[p][1] = Client

\* A step of a child that is at work and stays at work.
LEMMA StepOf ==
    ASSUME ConnInv, NEW p \in Proc, NEW l, NEW a, NEW t,
           Working(p), l \in Place \ {"none", "lock"},
           a \in Position, l \in OnServer \cup OnMetric => a.s \in Server,
           UNCHANGED << setup, role, cache_lock >>,
           pc' = [pc EXCEPT ![p] = l], at' = [at EXCEPT ![p] = a],
           fds' = [fds EXCEPT ![p] = t], t \in [Fd -> Conns \cup {Free, Client}],
           servers' \in [Server -> Entry], PostgresLast',
           ~ setup.killed => \A s \in Server : servers'[s].fd # NoFd =>
              l \notin Closing \/ a.s = 1 \/ (a.s <= s) \/ (\E q \in Proc \ {p} : WillClose(q, s)),
           Exclusive => EntriesOf(p)' /\ Visiting(p)'
    PROVE  ConnInv'
<1>0. ConnTypes /\ Roles
  BY DEF ConnInv
<1>1. pc'[p] = l /\ at'[p] = a /\ fds'[p] = t
  BY <1>0 DEF ConnTypes
<1>2. \A q \in Proc \ {p} : pc'[q] = pc[q] /\ at'[q] = at[q] /\ fds'[q] = fds[q]
  BY <1>0 DEF ConnTypes
<1>3. ConnTypes'
  <2>1. pc' \in [Proc -> Place] /\ at' \in [Proc -> Position] /\ fds' \in [Proc -> [Fd -> Conns \cup {Free, Client}]]
    BY <1>0 DEF ConnTypes, Position
  <2>2. \A q \in Proc : pc'[q] \in OnServer \cup OnMetric => at'[q].s \in Server
    BY <1>0, <1>1, <1>2 DEF ConnTypes
  <2>. QED
    BY <1>0, <2>1, <2>2 DEF ConnTypes, Position
<1>4. Roles'
  BY <1>0, <1>1, <1>2 DEF Roles, Working
<1>5. ClosedLater'
  <2>1. ASSUME ~ setup.killed, NEW s \in Server, servers'[s].fd # NoFd
        PROVE  \E q \in Proc : WillClose(q, s)'
    <3>1. CASE l \notin Closing
      BY <1>1, <3>1 DEF WillClose, Working
    <3>2. CASE a.s = 1 \/ a.s <= s
      <4>1. 1 <= s /\ a.s \in Int
        BY ConnFacts DEF Position
      <4>. QED
        BY <1>1, <3>2, <4>1 DEF WillClose, Working
    <3>3. CASE \E q \in Proc \ {p} : WillClose(q, s)
      BY <1>2, <3>3 DEF WillClose, Working
    <3>. QED
      BY <2>1, <3>1, <3>2, <3>3
  <2>. QED
    BY <2>1 DEF ClosedLater
<1>6. ASSUME Exclusive PROVE Apart'
  <2>0. Alone /\ Entries
    BY <1>6 DEF ConnInv, Apart
  <2>1. \A q \in Proc \ {p} : ~ Working(q) /\ ~ Working(q)'
    BY <1>2, <2>0 DEF Alone, Working
  <2>2. Alone'
    BY <1>1, <2>0, <2>1 DEF Alone, Working
  <2>3. Entries'
    <3>1. EntriesOf(p)' /\ Working(p)'
      BY <1>1, <1>6 DEF Working
    <3>2. ASSUME NEW q \in Proc \ {p} PROVE \A f \in Fd : fds'[q][f] \notin Conns
      BY <1>2, <2>0, <2>1 DEF Entries
    <3>3. ASSUME NEW q \in Proc \ {p}, role'[q] = "metrics" PROVE fds'[q][1] = Client
      BY <1>2, <2>0, <3>3 DEF Entries
    <3>. QED
      BY <2>1, <3>1, <3>2, <3>3 DEF Entries, EntriesOf
  <2>4. ASSUME NEW q \in Proc PROVE Visiting(q)'
    <3>1. CASE q = p
      BY <1>6, <3>1
    <3>2. CASE q # p
      BY <2>1, <3>2 DEF Visiting, Working, OnServer, OnMetric
    <3>. QED
      BY <3>1, <3>2
  <2>. QED
    BY <2>2, <2>3, <2>4 DEF Apart
<1>7. PostgresLast' /\ Exclusive' = Exclusive
  BY DEF Exclusive
<1>. QED
  BY <1>3, <1>4, <1>5, <1>6, <1>7 DEF ConnInv

\* A step that touches no entry and no descriptor.
LEMMA Walks ==
    ASSUME ConnInv, NEW p \in Proc, NEW l, NEW a,
           Working(p), l \in Place \ {"none", "lock"}, pc[p] \notin Closing,
           a \in Position, l \in OnServer \cup OnMetric => a.s \in Server,
           UNCHANGED << setup, role, cache_lock, servers, fds >>,
           pc' = [pc EXCEPT ![p] = l], at' = [at EXCEPT ![p] = a],
           l \in Closing => a.s = 1,
           Exclusive => Visiting(p)'
    PROVE  ConnInv'
<1>0. ConnTypes /\ Roles /\ PostgresLast
  BY DEF ConnInv
<1>1. fds' = [fds EXCEPT ![p] = fds[p]] /\ fds[p] \in [Fd -> Conns \cup {Free, Client}]
  BY <1>0 DEF ConnTypes
<1>2. servers' \in [Server -> Entry] /\ PostgresLast'
  BY <1>0 DEF ConnTypes, PostgresLast
<1>3. Exclusive => EntriesOf(p)'
  BY <1>0 DEF ConnInv, Apart, Entries, EntriesOf
<1>. QED
  BY <1>1, <1>2, <1>3, StepOf

\* A child at work has closed the entry of s.
LEMMA Closes ==
    ASSUME ConnInv, Exclusive, NEW p \in Proc, Working(p), NEW s \in Server, NEW t,
           t = IF servers[s].fd = NoFd THEN fds[p] ELSE [fds[p] EXCEPT ![servers[s].fd] = Free],
           fds' = [fds EXCEPT ![p] = t], UNCHANGED role,
           servers' \in [Server -> Entry], servers'[s].fd = NoFd,
           \A r \in Server \ {s} : servers'[r] = servers[r]
    PROVE  /\ EntriesOf(p)'
           /\ \A r \in Server : servers'[r].fd # NoFd =>
                servers[r].fd # NoFd /\ fds'[p][servers'[r].fd] = fds[p][servers[r].fd]
<1>0. ConnTypes /\ Entries
  BY DEF ConnInv, Apart
<1>1. fds'[p] = t /\ fds[p] \in [Fd -> Conns \cup {Free, Client}] /\ NoFd \notin Fd
      /\ \A r \in Server : servers[r].fd \in Fd \cup {NoFd}
  BY <1>0, ConnFacts DEF ConnTypes, Entry
<1>2. EntriesOf(p)
  BY <1>0 DEF Entries, EntriesOf
<1>3. Free \notin Conns /\ Client \notin Conns /\ 1 \in Fd
      /\ \A c \in Conns : c.server \in Server
  BY ConnFacts
<1>4. CASE servers[s].fd = NoFd
  <2>1. fds'[p] = fds[p]
    BY <1>1, <1>4
  <2>2. \A r \in Server : servers'[r].fd = servers[r].fd
    BY <1>4
  <2>. QED
    BY <2>1, <2>2, <1>2, <1>3 DEF EntriesOf
<1>5. CASE servers[s].fd # NoFd
  <2>. DEFINE f == servers[s].fd
  <2>1. f \in Fd /\ fds[p][f] \in Conns /\ fds[p][f].server = s
    BY <1>1, <1>2, <1>5 DEF EntriesOf
  <2>2. fds'[p][f] = Free /\ \A g \in Fd \ {f} : fds'[p][g] = fds[p][g]
    BY <1>1, <1>5, <2>1
  <2>3. ASSUME NEW r \in Server, servers'[r].fd # NoFd
        PROVE  /\ r # s /\ servers[r].fd # NoFd /\ servers'[r].fd = servers[r].fd
               /\ servers[r].fd \in Fd \ {f}
    <3>1. r # s /\ servers'[r] = servers[r]
      BY <2>3
    <3>. QED
      BY <3>1, <2>3, <1>1, <1>2, <2>1 DEF EntriesOf
  <2>4. ASSUME NEW g \in Fd, fds'[p][g] \in Conns
        PROVE  servers'[fds'[p][g].server].fd = g
    <3>1. g # f /\ fds'[p][g] = fds[p][g]
      BY <2>2, <2>4, <1>3
    <3>2. servers[fds[p][g].server].fd = g /\ fds[p][g].server \in Server
      BY <3>1, <2>4, <1>2, <1>3 DEF EntriesOf
    <3>3. fds[p][g].server # s
      BY <3>1, <3>2
    <3>. QED
      BY <3>1, <3>2, <3>3
  <2>5. role[p] = "metrics" => fds'[p][1] = Client
    BY <1>2, <1>3, <2>1, <2>2 DEF EntriesOf
  <2>. QED
    BY <2>2, <2>3, <2>4, <2>5, <1>2 DEF EntriesOf
<1>. QED
  BY <1>4, <1>5

\* A child at work has connected to a database of s.
LEMMA Opens ==
    ASSUME ConnInv, Exclusive, NEW p \in Proc, Working(p), NEW s \in Server, NEW d \in Database,
           NEW f \in Fd, fds[p][f] = Free, servers[s].fd = NoFd, UNCHANGED role,
           fds' = [fds EXCEPT ![p] = [fds[p] EXCEPT ![f] = Conn(s, d)]],
           servers' \in [Server -> Entry], servers'[s].fd = f,
           \A r \in Server \ {s} : servers'[r] = servers[r]
    PROVE  /\ EntriesOf(p)' /\ fds'[p][f] = Conn(s, d)
           /\ \A r \in Server \ {s} : servers'[r].fd # NoFd =>
                fds'[p][servers'[r].fd] = fds[p][servers[r].fd]
<1>0. ConnTypes /\ Entries
  BY DEF ConnInv, Apart
<1>1. fds[p] \in [Fd -> Conns \cup {Free, Client}]
      /\ \A r \in Server : servers[r].fd \in Fd \cup {NoFd}
  BY <1>0, ConnFacts DEF ConnTypes, Entry
<1>2. EntriesOf(p)
  BY <1>0 DEF Entries, EntriesOf
<1>3. Free \notin Conns /\ Client \notin Conns /\ 1 \in Fd /\ Free # Client /\ NoFd \notin Fd
      /\ \A c \in Conns : c.server \in Server
  BY ConnFacts
<1>4. Conn(s, d) \in Conns /\ Conn(s, d).server = s
  BY ConnFacts
<1>. HIDE DEF Conn
<1>5. fds'[p][f] = Conn(s, d) /\ \A g \in Fd \ {f} : fds'[p][g] = fds[p][g]
  BY <1>0, <1>1 DEF ConnTypes
<1>6. ASSUME NEW r \in Server \ {s}, servers'[r].fd # NoFd
      PROVE  /\ fds'[p][servers'[r].fd] = fds[p][servers[r].fd]
             /\ fds'[p][servers'[r].fd] \in Conns /\ fds'[p][servers'[r].fd].server = r
  <2>1. servers'[r] = servers[r] /\ servers[r].fd \in Fd
    BY <1>1, <1>6
  <2>2. fds[p][servers[r].fd] \in Conns /\ fds[p][servers[r].fd].server = r
    BY <2>1, <1>2, <1>6 DEF EntriesOf
  <2>3. servers[r].fd # f
    BY <2>2, <1>3
  <2>. QED
    BY <2>1, <2>2, <2>3, <1>5
<1>7. ASSUME NEW g \in Fd, fds'[p][g] \in Conns
      PROVE  servers'[fds'[p][g].server].fd = g
  <2>1. CASE g = f
    BY <2>1, <1>4, <1>5
  <2>2. CASE g # f
    <3>1. fds'[p][g] = fds[p][g]
      BY <2>2, <1>5
    <3>2. servers[fds[p][g].server].fd = g /\ fds[p][g].server \in Server
      BY <3>1, <1>7, <1>2, <1>3 DEF EntriesOf
    <3>3. fds[p][g].server # s
      BY <3>2, <1>3
    <3>. QED
      BY <3>1, <3>2, <3>3
  <2>. QED
    BY <2>1, <2>2
<1>8. role[p] = "metrics" => fds'[p][1] = Client
  BY <1>2, <1>3, <1>5 DEF EntriesOf
<1>. QED
  BY <1>4, <1>5, <1>6, <1>7, <1>8 DEF EntriesOf

\* Nobody is at work: every entry is empty.
LEMMA NobodyWorks ==
    ASSUME ConnInv, Exclusive, \A q \in Proc : ~ Working(q)
    PROVE  /\ \A s \in Server : servers[s].fd = NoFd
           /\ \A q \in Proc, f \in Fd : fds[q][f] \notin Conns
           /\ \A q \in Proc : role[q] = "metrics" => fds[q][1] = Client
<1>1. \A s \in Server : servers[s].fd = NoFd
  BY DEF ConnInv, ClosedLater, WillClose, Exclusive
<1>. QED
  BY <1>1 DEF ConnInv, Apart, Entries

LEMMA ConnAccepts ==
    ASSUME ConnInv, UNCHANGED setup, NEW p \in Proc, AcceptScrape(p)
    PROVE  ConnInv'
<1>0. ConnTypes /\ Roles /\ ClosedLater /\ PostgresLast
  BY DEF ConnInv
<1>. USE DEF AcceptScrape, Goto
<1>1. /\ pc[p] = "none" /\ pc'[p] = "lock" /\ role'[p] = "metrics"
      /\ fds'[p] = [fds[p] EXCEPT ![1] = Client]
  BY <1>0 DEF ConnTypes
<1>2. \A q \in Proc \ {p} : pc'[q] = pc[q] /\ role'[q] = role[q] /\ fds'[q] = fds[q]
  BY <1>0 DEF ConnTypes
<1>3. 1 \in Fd /\ Client \notin Conns
  BY ConnFacts
<1>4. ConnTypes'
  <2>1. fds'[p] \in [Fd -> Conns \cup {Free, Client}]
    BY <1>0, <1>1 DEF ConnTypes
  <2>2. fds' \in [Proc -> [Fd -> Conns \cup {Free, Client}]]
    BY <1>0, <2>1 DEF ConnTypes
  <2>. QED
    BY <1>0, <1>1, <1>2, <2>2 DEF ConnTypes, Place, OnServer, OnMetric, Closing
<1>5. Roles'
  BY <1>0, <1>1, <1>2 DEF Roles
<1>6. \A q \in Proc : Working(q)' = Working(q)
  BY <1>1, <1>2 DEF Working
<1>7. PostgresLast' /\ ClosedLater'
  <2>1. \A q \in Proc : \A s \in Server : WillClose(q, s) => WillClose(q, s)'
    BY <1>1, <1>2 DEF WillClose, Working
  <2>. QED
    BY <1>0, <2>1 DEF PostgresLast, ClosedLater
<1>8. ASSUME Exclusive PROVE Apart'
  <2>0. Alone /\ Entries /\ \A q \in Proc : Visiting(q)
    BY <1>8 DEF ConnInv, Apart
  <2>1. Alone'
    BY <1>1, <1>2, <1>6, <2>0 DEF Alone, Working
  <2>2. ~ Working(p) /\ \A f \in Fd : fds'[p][f] \notin Conns
    BY <1>0, <1>1, <1>3, <2>0 DEF Entries, Working, ConnTypes
  <2>3. fds'[p][1] = Client
    BY <1>0, <1>1, <1>3 DEF ConnTypes
  <2>4. Entries'
    <3>1. \A q \in Proc : \A s \in Server : Working(q)' /\ servers'[s].fd # NoFd =>
             fds'[q][servers'[s].fd] \in Conns /\ fds'[q][servers'[s].fd].server = s
      BY <1>2, <1>6, <2>0, <2>2 DEF Entries
    <3>2. \A q \in Proc : \A f \in Fd : fds'[q][f] \in Conns =>
             Working(q)' /\ servers'[fds'[q][f].server].fd = f
      BY <1>2, <1>6, <2>0, <2>2 DEF Entries
    <3>3. \A q \in Proc : role'[q] = "metrics" => fds'[q][1] = Client
      BY <1>2, <2>0, <2>3 DEF Entries
    <3>. QED
      BY <3>1, <3>2, <3>3 DEF Entries
  <2>5. ASSUME NEW q \in Proc PROVE Visiting(q)'
    <3>1. CASE q = p
      BY <1>1, <3>1 DEF Visiting, OnServer, OnMetric
    <3>2. CASE q # p
      BY <1>2, <2>0, <3>2 DEF Visiting, InPostgres, Ready, Wanted, DbName
    <3>. QED
      BY <3>1, <3>2
  <2>. QED
    BY <2>1, <2>4, <2>5 DEF Apart
<1>9. Exclusive' = Exclusive
  BY DEF Exclusive
<1>. QED
  BY <1>4, <1>5, <1>7, <1>8, <1>9 DEF ConnInv

\* A child starts to work: the history worker, and the one that took the lock.
LEMMA ConnStarts ==
    ASSUME ConnInv, UNCHANGED setup, NEW p \in Proc, NEW l,
           ~ Working(p), l \in {"open", "error"},
           pc' = [pc EXCEPT ![p] = l], UNCHANGED << servers, fds, at >>,
           cache_lock' \in BOOLEAN, role' \in [Proc -> {"none", "metrics", "history"}],
           Roles',
           Exclusive => /\ \A q \in Proc : ~ Working(q)
                        /\ role'[p] = "metrics" => role[p] = "metrics" /\ cache_lock'
                        /\ l = "open"
                        /\ \A q \in Proc \ {p} : role'[q] = role[q]
    PROVE  ConnInv'
<1>0. ConnTypes /\ Roles /\ ClosedLater /\ PostgresLast
  BY DEF ConnInv
<1>1. pc'[p] = l /\ \A q \in Proc \ {p} : pc'[q] = pc[q]
  BY <1>0 DEF ConnTypes
<1>2. ConnTypes'
  <2>1. l \in Place /\ l \notin OnServer \cup OnMetric
    BY DEF Place, OnServer, OnMetric, Closing
  <2>. QED
    BY <1>0, <1>1, <2>1 DEF ConnTypes
<1>3. PostgresLast' /\ ClosedLater'
  <2>1. \A q \in Proc : \A s \in Server : WillClose(q, s) => WillClose(q, s)'
    BY <1>1 DEF WillClose, Working
  <2>. QED
    BY <1>0, <2>1 DEF PostgresLast, ClosedLater
<1>4. ASSUME Exclusive PROVE Apart'
  <2>0. /\ \A s \in Server : servers[s].fd = NoFd
        /\ \A q \in Proc, f \in Fd : fds[q][f] \notin Conns
        /\ \A q \in Proc : role[q] = "metrics" => fds[q][1] = Client
    BY <1>4, NobodyWorks
  <2>1. Alone'
    BY <1>1, <1>4 DEF Alone, Working
  <2>2. Entries'
    BY <1>4, <2>0 DEF Entries
  <2>3. ASSUME NEW q \in Proc PROVE Visiting(q)'
    <3>1. CASE q = p
      BY <1>1, <1>4, <2>0, <3>1 DEF Visiting, OnServer, OnMetric, InPostgres
    <3>2. CASE q # p
      BY <1>1, <1>4, <3>2 DEF Visiting, Working, OnServer, OnMetric
    <3>. QED
      BY <3>1, <3>2
  <2>. QED
    BY <2>1, <2>2, <2>3 DEF Apart
<1>5. Exclusive' = Exclusive
  BY DEF Exclusive
<1>. QED
  BY <1>2, <1>3, <1>4, <1>5 DEF ConnInv

LEMMA ConnTicks ==
    ASSUME ConnInv, UNCHANGED setup, NEW p \in Proc, HistoryTick(p)
    PROVE  ConnInv'
<1>0. ConnTypes /\ Roles
  BY DEF ConnInv
<1>. USE DEF HistoryTick, Goto
<1>1. role'[p] = "history" /\ \A q \in Proc \ {p} : role'[q] = role[q]
  BY <1>0 DEF ConnTypes
<1>2. pc'[p] = "open" /\ \A q \in Proc \ {p} : pc'[q] = pc[q]
  BY <1>0 DEF ConnTypes
<1>3. Roles'
  BY <1>0, <1>1, <1>2 DEF Roles
<1>4. ASSUME Exclusive PROVE \A q \in Proc : ~ Working(q)
  BY <1>0, <1>4 DEF Roles, Exclusive, Working, ConnTypes
<1>5. ~ Working(p) /\ pc' = [pc EXCEPT ![p] = "open"]
  BY DEF Working
<1>6. cache_lock' \in BOOLEAN /\ role' \in [Proc -> {"none", "metrics", "history"}]
  BY <1>0 DEF ConnTypes
<1>7. UNCHANGED << servers, fds, at >>
  OBVIOUS
<1>. QED
  BY <1>1, <1>3, <1>4, <1>5, <1>6, <1>7, ConnStarts

LEMMA ConnTakesLock ==
    ASSUME ConnInv, UNCHANGED setup, NEW p \in Proc, TakeLock(p) \/ LockTimeOut(p)
    PROVE  ConnInv'
<1>0. ConnTypes /\ Roles
  BY DEF ConnInv
<1>. USE DEF TakeLock, LockTimeOut, Goto
<1>. DEFINE l == IF TakeLock(p) THEN "open" ELSE "error"
<1>1. pc' = [pc EXCEPT ![p] = l] /\ UNCHANGED << servers, fds, at, role >> /\ pc[p] = "lock"
  BY <1>0
<1>2. pc'[p] = l /\ \A q \in Proc \ {p} : pc'[q] = pc[q]
  BY <1>0, <1>1 DEF ConnTypes
<1>3. Roles'
  BY <1>0, <1>1, <1>2 DEF Roles
<1>4. ASSUME Exclusive
      PROVE  (\A q \in Proc : ~ Working(q)) /\ cache_lock' /\ l = "open" /\ role[p] = "metrics"
  <2>1. TakeLock(p) /\ cache_lock' /\ ~ cache_lock
    BY <1>4 DEF Exclusive
  <2>2. role[p] = "metrics" /\ setup.metrics /\ ~ setup.history
    BY <1>0, <1>1, <1>4 DEF Roles, Exclusive
  <2>3. Alone
    BY <1>4 DEF ConnInv, Apart
  <2>4. \A q \in Proc : ~ Working(q)
    BY <1>0, <2>1, <2>2, <2>3 DEF Alone, Roles, Working, ConnTypes
  <2>. QED
    BY <2>1, <2>2, <2>4
<1>5. ~ Working(p) /\ l \in {"open", "error"}
  BY <1>1 DEF Working
<1>6. cache_lock' \in BOOLEAN /\ role' \in [Proc -> {"none", "metrics", "history"}]
  BY <1>0 DEF ConnTypes
<1>. HIDE DEF l, TakeLock, LockTimeOut
<1>. QED
  BY <1>1, <1>3, <1>4, <1>5, <1>6, ConnStarts

\* The end of a child that has closed the entries, or was killed.
LEMMA ConnExits ==
    ASSUME ConnInv, UNCHANGED setup, NEW p \in Proc, NEW lock \in BOOLEAN, Exit(p, lock),
           (pc[p] \in Closing /\ at[p].s > NumServers) \/ setup.killed
    PROVE  ConnInv'
<1>0. ConnTypes /\ Roles /\ ClosedLater /\ PostgresLast
  BY DEF ConnInv
<1>. USE DEF Exit, Goto, At
<1>1. pc'[p] = "none" /\ role'[p] = "none" /\ fds'[p] = [f \in Fd |-> Free]
  BY <1>0 DEF ConnTypes
<1>2. \A q \in Proc \ {p} :
         pc'[q] = pc[q] /\ role'[q] = role[q] /\ fds'[q] = fds[q] /\ at'[q] = at[q]
  BY <1>0 DEF ConnTypes
<1>3. ConnTypes'
  <2>1. [f \in Fd |-> Free] \in [Fd -> Conns \cup {Free, Client}]
    OBVIOUS
  <2>2. fds' \in [Proc -> [Fd -> Conns \cup {Free, Client}]]
    BY <1>0, <2>1 DEF ConnTypes
  <2>3. [s |-> 1, m |-> 1, d |-> 1] \in Position
    BY ConnFacts DEF Position
  <2>4. at' \in [Proc -> Position]
    BY <1>0, <2>3 DEF ConnTypes, Position
  <2>5. pc' \in [Proc -> Place] /\ role' \in [Proc -> {"none", "metrics", "history"}]
    BY <1>0 DEF ConnTypes, Place
  <2>6. \A q \in Proc : pc'[q] \in OnServer \cup OnMetric => at'[q].s \in Server
    BY <1>0, <1>1, <1>2 DEF ConnTypes, OnServer, OnMetric
  <2>. QED
    BY <1>0, <2>2, <2>4, <2>5, <2>6 DEF ConnTypes, Position
<1>4. Roles'
  BY <1>0, <1>1, <1>2 DEF Roles
<1>5. PostgresLast'
  BY <1>0 DEF PostgresLast
<1>6. ClosedLater'
  <2>1. ASSUME ~ setup.killed, NEW s \in Server, servers[s].fd # NoFd
        PROVE  \E q \in Proc : WillClose(q, s)'
    <3>1. PICK q \in Proc : WillClose(q, s)
      BY <1>0, <2>1 DEF ClosedLater
    <3>2. q # p
      <4>1. at[p].s \in Int /\ s <= NumServers /\ s \in Int /\ NumServers \in Int
        BY <1>0, ConnFacts DEF ConnTypes
      <4>. QED
        BY <2>1, <3>1, <4>1 DEF WillClose
    <3>3. WillClose(q, s)'
      BY <1>2, <3>1, <3>2 DEF WillClose, Working
    <3>. QED
      BY <3>3
  <2>. QED
    BY <2>1 DEF ClosedLater
<1>7. ASSUME Exclusive PROVE Apart'
  <2>0. Alone /\ Entries
    BY <1>7 DEF ConnInv, Apart
  <2>1. Working(p)
    BY <1>7 DEF Exclusive, Working, Closing
  <2>2. \A q \in Proc : ~ Working(q)'
    BY <1>1, <1>2, <2>0, <2>1 DEF Alone, Working
  <2>3. Alone'
    BY <2>2 DEF Alone
  <2>4. Entries'
    <3>1. \A q \in Proc : \A f \in Fd : fds'[q][f] \notin Conns
      BY <1>1, <1>2, <2>0, <2>1, ConnFacts DEF Entries, Alone
    <3>2. \A q \in Proc : role'[q] = "metrics" => fds'[q][1] = Client
      BY <1>1, <1>2, <2>0 DEF Entries
    <3>. QED
      BY <2>2, <3>1, <3>2 DEF Entries
  <2>5. \A q \in Proc : Visiting(q)'
    BY <2>2 DEF Visiting, Working, OnServer, OnMetric
  <2>. QED
    BY <2>3, <2>4, <2>5 DEF Apart
<1>8. Exclusive' = Exclusive
  BY DEF Exclusive
<1>. QED
  BY <1>3, <1>4, <1>5, <1>6, <1>7, <1>8 DEF ConnInv

LEMMA Positions ==
    ASSUME ConnTypes, NEW p \in Proc
    PROVE  /\ at[p] \in Position
           /\ at' = at => at' = [at EXCEPT ![p] = at[p]]
           /\ pc' = pc => pc' = [pc EXCEPT ![p] = pc[p]]
           /\ \A s \in 1 .. (NumServers + 1), m \in Nat, d \in Nat \cup {-1} :
                 [s |-> s, m |-> m, d |-> d] \in Position
           /\ 1 \in 1 .. (NumServers + 1) /\ 1 \in Server /\ NumServers \in Nat
           /\ at[p].s \in Server => at[p].s + 1 \in 1 .. (NumServers + 1)
           /\ at[p].s \in Int /\ at[p].m \in Nat /\ at[p].m + 1 \in Nat /\ at[p].d \in Nat \cup {-1}
           /\ at[p].s \notin Server => at[p].s > NumServers
<1>1. NumServers \in Nat \ {0} /\ Server = 1 .. NumServers
  BY ConnFacts
<1>2. at \in [Proc -> Position] /\ pc \in [Proc -> Place]
  BY DEF ConnTypes, Position
<1>. QED
  BY <1>1, <1>2 DEF Position

LEMMA ConnOpens ==
    ASSUME ConnInv, UNCHANGED setup, NEW p \in Proc,
           OpenNext(p) \/ NoUser(p) \/ AuthenticateFails(p) \/ Collect(p) \/ CustomStart(p) \/ Extensions(p)
    PROVE  ConnInv'
<1>0. ConnTypes
  BY DEF ConnInv
<1>. USE DEF Goto, At, NextServer
<1>1. /\ UNCHANGED << setup, role, cache_lock, servers, fds >>
      /\ pc[p] \in {"open", "auth", "authing", "collect", "custom", "extensions"}
  BY DEF OpenNext, NoUser, AuthenticateFails, Collect, CustomStart, Extensions
<1>2. Working(p) /\ pc[p] \notin Closing
  BY <1>1 DEF Working, Closing
<1>3. \E l \in Place \ {"none", "lock"}, a \in Position :
        /\ pc' = [pc EXCEPT ![p] = l] /\ at' = [at EXCEPT ![p] = a]
        /\ l \in OnServer \cup OnMetric => a.s \in Server
        /\ l \in Closing => a.s = 1
        /\ Exclusive => Visiting(p)'
  <2>. USE DEF Place, OnServer, OnMetric, Closing
  <2>0. Exclusive => Visiting(p)
    BY DEF ConnInv, Apart
  <2>1. ASSUME NEW l \in Place, NEW a \in Position,
               pc' = [pc EXCEPT ![p] = l], at' = [at EXCEPT ![p] = a]
        PROVE  pc'[p] = l /\ at'[p] = a
    BY <1>0, <2>1 DEF ConnTypes
  <2>2. ASSUME NEW l \in {"open", "collect", "custom", "check", "auth"}, NEW a \in Position,
               pc[p] \in {"open", "collect", "custom"} \cup OnServer,
               pc' = [pc EXCEPT ![p] = l], at' = [at EXCEPT ![p] = a],
               l = "auth" => servers[a.s].fd = NoFd
        PROVE  Exclusive => Visiting(p)'
    <3>1. pc'[p] = l /\ at'[p] = a
      BY <2>1, <2>2
    <3>. QED
      BY <1>1, <2>0, <2>2, <3>1 DEF Visiting, InPostgres
  <2>3. CASE OpenNext(p)
    <3>1. CASE at[p].s > NumServers /\ At(p, 1, 1, 1) /\ Goto(p, "collect")
      <4>1. [s |-> 1, m |-> 1, d |-> 1] \in Position
        BY <1>0, Positions
      <4>. QED
        BY <2>2, <2>3, <3>1, <4>1 DEF OpenNext
    <3>2. CASE /\ at[p].s \in Server /\ UNCHANGED at
               /\ Goto(p, IF servers[at[p].s].fd # NoFd THEN "check" ELSE "auth")
      <4>1. at[p] \in Position /\ at' = [at EXCEPT ![p] = at[p]]
        BY <1>0, <3>2, Positions
      <4>. DEFINE l == IF servers[at[p].s].fd # NoFd THEN "check" ELSE "auth"
      <4>2. l \in {"check", "auth"} /\ pc' = [pc EXCEPT ![p] = l] /\ (l = "auth" => servers[at[p].s].fd = NoFd)
        BY <3>2
      <4>. HIDE DEF l
      <4>3. Exclusive => Visiting(p)'
        BY <2>2, <2>3, <4>1, <4>2 DEF OpenNext
      <4>4. l \in Place \ {"none", "lock"} /\ l \notin Closing
        BY <4>2
      <4>. QED
        BY <3>2, <4>1, <4>2, <4>3, <4>4
    <3>. QED
      BY <2>3, <3>1, <3>2 DEF OpenNext
  <2>4. CASE NoUser(p) \/ AuthenticateFails(p)
    <3>1. at[p].s \in Server
      BY <1>0, <2>4 DEF ConnTypes, NoUser, AuthenticateFails
    <3>2. [s |-> at[p].s + 1, m |-> 1, d |-> 1] \in Position
      BY <1>0, <3>1, Positions
    <3>. QED
      BY <2>2, <2>4, <3>2 DEF NoUser, AuthenticateFails
  <2>5. CASE Collect(p)
    <3>1. [s |-> 1, m |-> 1, d |-> 1] \in Position
      BY <1>0, Positions
    <3>2. CASE at[p].s > NumServers
      BY <2>2, <2>5, <3>1, <3>2 DEF Collect
    <3>3. CASE ~ at[p].s > NumServers
      <4>1. [s |-> at[p].s + 1, m |-> 1, d |-> 1] \in Position
        BY <1>0, <3>3, Positions
      <4>2. pc' = [pc EXCEPT ![p] = "collect"]
        BY <1>0, <2>5, <3>3, Positions DEF Collect
      <4>. QED
        BY <2>2, <2>5, <3>3, <4>1, <4>2 DEF Collect
    <3>. QED
      BY <3>2, <3>3
  <2>6. CASE CustomStart(p)
    <3>. DEFINE a == [s |-> 1, m |-> 1, d |-> -1]
    <3>1. a \in Position /\ a.s \in Server /\ a.d = -1
      BY <1>0, Positions
    <3>2. pc' = [pc EXCEPT ![p] = "visit"] /\ at' = [at EXCEPT ![p] = a] /\ pc[p] = "custom"
      BY <2>6 DEF CustomStart
    <3>. HIDE DEF a
    <3>3. pc'[p] = "visit" /\ at'[p] = a
      BY <3>1, <3>2, <2>1
    <3>4. Exclusive => Visiting(p)'
      BY <1>1, <2>0, <3>1, <3>2, <3>3 DEF Visiting, InPostgres, Ready
    <3>. QED
      BY <3>1, <3>2, <3>4
  <2>7. CASE Extensions(p)
    <3>1. CASE at[p].s > NumServers
      <4>. DEFINE a == [s |-> 1, m |-> 1, d |-> 1]
      <4>1. a \in Position /\ a.s = 1
        BY <1>0, Positions
      <4>2. pc' = [pc EXCEPT ![p] = "close"] /\ at' = [at EXCEPT ![p] = a]
        BY <2>7, <3>1 DEF Extensions
      <4>. HIDE DEF a
      <4>3. pc'[p] = "close" /\ at'[p] = a
        BY <4>1, <4>2, <2>1
      <4>4. Visiting(p)'
        BY <4>3 DEF Visiting
      <4>. QED
        BY <4>1, <4>2, <4>4
    <3>2. CASE ~ at[p].s > NumServers
      <4>. DEFINE a == [s |-> at[p].s + 1, m |-> 1, d |-> 1]
      <4>1. a \in Position
        BY <1>0, <3>2, Positions
      <4>2. pc' = [pc EXCEPT ![p] = "extensions"] /\ at' = [at EXCEPT ![p] = a] /\ pc[p] = "extensions"
        BY <1>0, <2>7, <3>2, Positions DEF Extensions
      <4>. HIDE DEF a
      <4>3. pc'[p] = "extensions" /\ at'[p] = a
        BY <4>1, <4>2, <2>1
      <4>4. Exclusive => Visiting(p)'
        BY <1>1, <2>0, <4>2, <4>3 DEF Visiting, Ready, InPostgres
      <4>. QED
        BY <4>1, <4>2, <4>4
    <3>. QED
      BY <3>1, <3>2
  <2>. QED
    BY <2>3, <2>4, <2>5, <2>6, <2>7
<1>. QED
  BY <1>1, <1>2, <1>3, Walks

\* All rounds end in "postgres": the loop moves to the next server or metric.
LEMMA MovesOn ==
    ASSUME ConnInv, UNCHANGED << setup, role, cache_lock, servers, fds >>, NEW p \in Proc,
           pc[p] \in {"visit", "switching"}, Advance(p), pc' = [pc EXCEPT ![p] = "visit"],
           Exclusive => \A s \in Server : Ready(p, s)
    PROVE  ConnInv'
<1>0. ConnTypes
  BY DEF ConnInv
<1>1. at[p].s \in Server
  BY <1>0 DEF ConnTypes, OnMetric
<1>. DEFINE a == IF at[p].s < NumServers THEN [s |-> at[p].s + 1, m |-> at[p].m, d |-> -1]
                                         ELSE [s |-> 1, m |-> at[p].m + 1, d |-> -1]
<1>2. at' = [at EXCEPT ![p] = a]
  BY DEF Advance, At
<1>3. a \in Position /\ a.s \in Server /\ a.d = -1
  <2>1. CASE at[p].s < NumServers
    <3>1. at[p].s + 1 \in Server /\ at[p].s + 1 \in 1 .. (NumServers + 1)
      BY <1>1, <2>1, ConnFacts
    <3>2. a = [s |-> at[p].s + 1, m |-> at[p].m, d |-> -1]
      BY <2>1
    <3>3. at[p].m \in Nat
      BY <1>0, Positions
    <3>. QED
      BY <3>1, <3>2, <3>3 DEF Position
  <2>2. CASE ~ at[p].s < NumServers
    BY <1>0, <1>1, <2>2, Positions, ConnFacts DEF Position
  <2>. QED
    BY <2>1, <2>2
<1>. HIDE DEF a
<1>4. pc'[p] = "visit" /\ at'[p] = a
  BY <1>0, <1>2 DEF ConnTypes
<1>5. Exclusive => Visiting(p)'
  BY <1>3, <1>4 DEF Visiting, Ready, InPostgres, OnServer, OnMetric
<1>6. Working(p) /\ pc[p] \notin Closing /\ "visit" \in Place \ {"none", "lock"} /\ "visit" \notin Closing
  BY DEF Working, Closing, Place, OnMetric
<1>. QED
  BY <1>2, <1>3, <1>5, <1>6, Walks

LEMMA ConnVisits ==
    ASSUME ConnInv, UNCHANGED setup, NEW p \in Proc, Visit(p)
    PROVE  ConnInv'
<1>0. ConnTypes /\ PostgresLast
  BY DEF ConnInv
<1>. DEFINE s == at[p].s
            m == at[p].m
            d == IF at[p].d = -1 THEN FirstDb(m, s) ELSE at[p].d + 1
<1>1. pc[p] = "visit" /\ UNCHANGED << setup, role, cache_lock, servers, fds >>
  BY DEF Visit
<1>2. s \in Server /\ m \in Nat /\ at[p].d \in Nat \cup {-1} /\ Len(servers[s].dbs) \in Nat
  <2>1. s \in Server
    BY <1>0, <1>1 DEF ConnTypes, OnMetric
  <2>2. servers[s].dbs \in Seq(Database)
    BY <1>0, <2>1 DEF ConnTypes, Entry
  <2>. QED
    BY <1>0, <2>1, <2>2, Positions, LenProperties
<1>3. d \in Nat
  BY <1>2 DEF FirstDb
<1>4. Exclusive => Visiting(p)
  BY DEF ConnInv, Apart
<1>5. Working(p) /\ pc[p] \notin Closing
  BY <1>1 DEF Working, Closing
<1>6. CASE m > Len(Metrics) /\ At(p, 1, 1, 1) /\ Goto(p, "extensions")
  <2>. DEFINE a == [s |-> 1, m |-> 1, d |-> 1]
  <2>1. a \in Position
    BY <1>0, Positions
  <2>2. pc' = [pc EXCEPT ![p] = "extensions"] /\ at' = [at EXCEPT ![p] = a]
    BY <1>6 DEF Goto, At
  <2>. HIDE DEF a
  <2>3. pc'[p] = "extensions" /\ at'[p] = a
    BY <1>0, <2>2 DEF ConnTypes
  <2>4. ASSUME Exclusive PROVE \A r \in Server : Ready(p, r)
    <3>1. at[p].d = -1
      <4>1. Len(Metrics) \in Nat
        BY ConnectionsAssumption, LenProperties
      <4>. QED
        BY <1>1, <1>2, <1>4, <1>6, <2>4, <4>1 DEF Visiting, OnMetric
    <3>. QED
      BY <1>1, <1>4, <2>4, <3>1 DEF Visiting, OnMetric
  <2>5. Exclusive => Visiting(p)'
    BY <1>1, <2>3, <2>4 DEF Visiting, Ready, InPostgres, OnServer, OnMetric
  <2>6. "extensions" \in Place \ {"none", "lock"} /\ "extensions" \notin Closing \cup OnServer \cup OnMetric
    BY DEF Place, OnMetric, OnServer, Closing
  <2>. QED
    BY <1>1, <1>5, <2>1, <2>2, <2>5, <2>6, Walks
<1>7. CASE /\ m <= Len(Metrics)
           /\ servers[s].fd = NoFd \/ ~ Wanted(m, s) \/ d > Len(servers[s].dbs)
           /\ Advance(p) /\ UNCHANGED pc
  <2>1. pc' = [pc EXCEPT ![p] = "visit"]
    BY <1>0, <1>1, <1>7, Positions
  <2>2. ASSUME Exclusive, at[p].d # -1, servers[s].fd # NoFd PROVE Ready(p, s)
    <3>1. at[p].d = Len(servers[s].dbs) /\ fds[p][servers[s].fd] = Conn(s, DbName(s, at[p].d))
      <4>1. Wanted(m, s) /\ at[p].d <= Len(servers[s].dbs)
            /\ fds[p][servers[s].fd] = Conn(s, DbName(s, at[p].d))
        BY <1>1, <1>4, <2>2 DEF Visiting, OnMetric
      <4>2. d > Len(servers[s].dbs) /\ d = at[p].d + 1
        BY <1>7, <2>2, <4>1
      <4>. QED
        BY <1>2, <2>2, <4>1, <4>2
    <3>2. ASSUME NEW i \in DOMAIN servers[s].dbs, servers[s].dbs[i] = Postgres
          PROVE  DbName(s, at[p].d) = Postgres
      <4>1. servers[s].dbs \in Seq(Database)
        BY <1>0, <1>2 DEF ConnTypes, Entry
      <4>2. DOMAIN servers[s].dbs = 1 .. Len(servers[s].dbs)
        BY <4>1, LenProperties
      <4>3. Len(servers[s].dbs) \in DOMAIN servers[s].dbs
        BY <1>2, <4>2
      <4>4. servers[s].dbs[Len(servers[s].dbs)] = Postgres
        BY <1>0, <1>2, <3>2 DEF PostgresLast
      <4>. QED
        BY <3>1, <4>3, <4>4 DEF DbName
    <3>. QED
      BY <3>1, <3>2 DEF Ready, InPostgres
  <2>3. ASSUME Exclusive PROVE \A r \in Server : Ready(p, r)
    <3>1. Ready(p, s)
      <4>1. CASE at[p].d = -1
        BY <1>1, <1>4, <2>3, <4>1 DEF Visiting
      <4>2. CASE servers[s].fd = NoFd
        BY <4>2 DEF Ready, InPostgres
      <4>. QED
        BY <2>2, <2>3, <4>1, <4>2
    <3>. QED
      BY <1>1, <1>4, <2>3, <3>1 DEF Visiting, OnMetric
  <2>. QED
    BY <1>1, <1>7, <2>1, <2>3, MovesOn
<1>8. CASE /\ m <= Len(Metrics) /\ servers[s].fd # NoFd /\ Wanted(m, s)
           /\ d <= Len(servers[s].dbs)
           /\ At(p, s, m, d) /\ Goto(p, "terminate")
  <2>. DEFINE a == [s |-> s, m |-> m, d |-> d]
  <2>1. a \in Position /\ a.s = s /\ a.m = m /\ a.d = d
    BY <1>0, <1>2, <1>3, Positions DEF Position
  <2>2. pc' = [pc EXCEPT ![p] = "terminate"] /\ at' = [at EXCEPT ![p] = a]
    BY <1>8 DEF Goto, At
  <2>. HIDE DEF a
  <2>3. pc'[p] = "terminate" /\ at'[p] = a
    BY <1>0, <2>2 DEF ConnTypes
  <2>4. Exclusive => Visiting(p)'
    <3>1. d # -1
      BY <1>3
    <3>. HIDE DEF d
    <3>. QED
      BY <1>1, <1>4, <1>8, <2>1, <2>3, <3>1 DEF Visiting, Ready, InPostgres, Wanted, OnServer, OnMetric
  <2>6. "terminate" \in Place \ {"none", "lock"} /\ "terminate" \notin Closing
    BY DEF Place, OnMetric, OnServer, Closing
  <2>. QED
    BY <1>1, <1>2, <1>5, <2>1, <2>2, <2>4, <2>6, Walks
<1>. QED
  BY <1>6, <1>7, <1>8 DEF Visit

LEMMA ConnSwitchFails ==
    ASSUME ConnInv, UNCHANGED setup, NEW p \in Proc, SwitchFails(p)
    PROVE  ConnInv'
<1>1. pc[p] = "switching" /\ UNCHANGED << role, cache_lock, servers, fds >>
      /\ Advance(p) /\ pc' = [pc EXCEPT ![p] = "visit"]
  BY DEF SwitchFails, Goto
<1>2. ASSUME Exclusive PROVE \A r \in Server : Ready(p, r)
  BY <1>1, <1>2 DEF ConnInv, Apart, Visiting, OnMetric, Ready, InPostgres
<1>. QED
  BY <1>1, <1>2, MovesOn

\* A child closes the entry of s, and moves on.
LEMMA StepCloses ==
    ASSUME ConnInv, UNCHANGED << setup, role, cache_lock >>, NEW p \in Proc, Working(p),
           NEW l, NEW a, NEW s \in Server, NEW st \in {"unknown", "primary", "replica"},
           l \in Place \ {"none", "lock"}, a \in Position,
           l \in OnServer \cup OnMetric => a.s \in Server,
           pc' = [pc EXCEPT ![p] = l], at' = [at EXCEPT ![p] = a],
           fds' = IF servers[s].fd = NoFd THEN fds
                  ELSE [fds EXCEPT ![p][servers[s].fd] = Free],
           servers' = [servers EXCEPT ![s] = [fd |-> NoFd, state |-> st, dbs |-> servers[s].dbs]],
           l \in Closing => a.s = 1 \/ (pc[p] \in Closing /\ s = at[p].s /\ a.s = s + 1),
           Exclusive => (/\ \A r \in Server : servers'[r].fd # NoFd =>
                              servers[r].fd # NoFd /\ fds'[p][servers'[r].fd] = fds[p][servers[r].fd]
                         => Visiting(p)')
    PROVE  ConnInv'
<1>0. ConnTypes /\ PostgresLast /\ ClosedLater
  BY DEF ConnInv
<1>. DEFINE t == IF servers[s].fd = NoFd THEN fds[p] ELSE [fds[p] EXCEPT ![servers[s].fd] = Free]
<1>1. fds[p] \in [Fd -> Conns \cup {Free, Client}] /\ fds \in [Proc -> [Fd -> Conns \cup {Free, Client}]]
      /\ \A r \in Server : servers[r].fd \in Fd \cup {NoFd}
  BY <1>0 DEF ConnTypes, Entry
<1>2. t \in [Fd -> Conns \cup {Free, Client}] /\ fds' = [fds EXCEPT ![p] = t]
  <2>1. CASE servers[s].fd = NoFd
    BY <1>1, <2>1
  <2>2. CASE servers[s].fd # NoFd
    BY <1>1, <2>2
  <2>. QED
    BY <2>1, <2>2
<1>3. servers' \in [Server -> Entry] /\ servers'[s].fd = NoFd /\ servers'[s].dbs = servers[s].dbs
      /\ \A r \in Server \ {s} : servers'[r] = servers[r]
  <2>1. servers \in [Server -> Entry]
    BY <1>0 DEF ConnTypes
  <2>2. [fd |-> NoFd, state |-> st, dbs |-> servers[s].dbs] \in Entry
    BY <2>1 DEF Entry
  <2>. QED
    BY <2>1, <2>2
<1>4. PostgresLast'
  <2>1. \A r \in Server : servers'[r].dbs = servers[r].dbs
    BY <1>3
  <2>. QED
    BY <1>0, <2>1 DEF PostgresLast
<1>5. ASSUME ~ setup.killed, NEW r \in Server, servers'[r].fd # NoFd
      PROVE  l \notin Closing \/ a.s = 1 \/ (a.s <= r) \/ (\E q \in Proc \ {p} : WillClose(q, r))
  <2>1. r # s /\ servers[r].fd # NoFd
    BY <1>3, <1>5
  <2>2. PICK q \in Proc : WillClose(q, r)
    BY <1>0, <1>5, <2>1 DEF ClosedLater
  <2>3. CASE q # p
    BY <2>2, <2>3
  <2>4. CASE q = p /\ pc[p] \in Closing /\ s = at[p].s /\ a.s = s + 1
    <3>1. s <= r /\ s \in Int /\ r \in Int
      BY <2>2, <2>4, ConnFacts DEF WillClose
    <3>. QED
      BY <2>1, <2>4, <3>1
  <2>. QED
    BY <2>3, <2>4
<1>. HIDE DEF t
<1>6. ASSUME Exclusive PROVE EntriesOf(p)' /\ Visiting(p)'
  <2>1. /\ EntriesOf(p)'
        /\ \A r \in Server : servers'[r].fd # NoFd =>
             servers[r].fd # NoFd /\ fds'[p][servers'[r].fd] = fds[p][servers[r].fd]
    BY <1>2, <1>3, <1>6, Closes DEF t
  <2>. QED
    BY <1>6, <2>1
<1>. QED
  BY <1>2, <1>3, <1>4, <1>5, <1>6, StepOf

\* The entry of s as a field-wise update leaves it.
LEMMA EntryOf ==
    ASSUME ConnTypes, NEW s \in Server, NEW f \in Fd \cup {NoFd}
    PROVE  /\ [servers EXCEPT ![s].fd = f]
                = [servers EXCEPT ![s] = [fd |-> f, state |-> servers[s].state, dbs |-> servers[s].dbs]]
           /\ servers[s].state \in {"unknown", "primary", "replica"}
<1>1. servers[s] \in Entry
  BY DEF ConnTypes
<1>2. [servers[s] EXCEPT !.fd = f] = [fd |-> f, state |-> servers[s].state, dbs |-> servers[s].dbs]
  BY <1>1 DEF Entry
<1>. QED
  BY <1>1, <1>2 DEF Entry

LEMMA ConnChecks ==
    ASSUME ConnInv, UNCHANGED setup, NEW p \in Proc, CheckValid(p)
    PROVE  ConnInv'
<1>0. ConnTypes
  BY DEF ConnInv
<1>. DEFINE s == at[p].s
            f == servers[s].fd
<1>1. pc[p] = "check" /\ UNCHANGED << role, cache_lock >>
  BY DEF CheckValid
<1>2. s \in Server /\ Working(p) /\ pc[p] \notin Closing
  BY <1>0, <1>1 DEF ConnTypes, OnServer, Working, Closing
<1>3. Exclusive => Visiting(p)
  BY DEF ConnInv, Apart
<1>4. CASE NextServer(p) /\ Goto(p, "open") /\ UNCHANGED << servers, fds >>
  <2>. DEFINE a == [s |-> at[p].s + 1, m |-> 1, d |-> 1]
  <2>1. a \in Position
    BY <1>0, <1>2, Positions
  <2>2. pc' = [pc EXCEPT ![p] = "open"] /\ at' = [at EXCEPT ![p] = a]
    BY <1>4 DEF NextServer, Goto, At
  <2>. HIDE DEF a
  <2>3. pc'[p] = "open"
    BY <1>0, <2>2 DEF ConnTypes
  <2>4. Exclusive => Visiting(p)'
    BY <1>1, <1>3, <1>4, <2>3 DEF Visiting, InPostgres, OnServer, OnMetric
  <2>5. "open" \in Place \ {"none", "lock"} /\ "open" \notin Closing \cup OnServer \cup OnMetric
    BY DEF Place, OnMetric, OnServer, Closing
  <2>. QED
    BY <1>1, <1>2, <1>4, <2>1, <2>2, <2>4, <2>5, Walks
<1>5. CASE /\ IF f = NoFd THEN UNCHANGED fds ELSE Disconnect(p, f)
           /\ servers' = [servers EXCEPT ![s].fd = NoFd]
           /\ Goto(p, "auth") /\ UNCHANGED at
  <2>1. servers' = [servers EXCEPT ![s] = [fd |-> NoFd, state |-> servers[s].state, dbs |-> servers[s].dbs]]
        /\ servers[s].state \in {"unknown", "primary", "replica"}
    BY <1>0, <1>2, <1>5, EntryOf
  <2>2. fds' = IF servers[s].fd = NoFd THEN fds ELSE [fds EXCEPT ![p][servers[s].fd] = Free]
    BY <1>5 DEF Disconnect
  <2>3. pc' = [pc EXCEPT ![p] = "auth"] /\ at' = [at EXCEPT ![p] = at[p]] /\ at[p] \in Position
    BY <1>0, <1>5, Positions DEF Goto
  <2>4. pc'[p] = "auth" /\ at'[p] = at[p] /\ servers'[s].fd = NoFd
    BY <1>0, <1>2, <2>1, <2>3 DEF ConnTypes
  <2>5. Exclusive => ((\A r \in Server : servers'[r].fd # NoFd =>
                         servers[r].fd # NoFd /\ fds'[p][servers'[r].fd] = fds[p][servers[r].fd])
                      => Visiting(p)')
    BY <1>1, <1>3, <2>4 DEF Visiting, InPostgres, OnServer, OnMetric
  <2>6. "auth" \in Place \ {"none", "lock"} /\ "auth" \notin Closing
    BY DEF Place, OnMetric, OnServer, Closing
  <2>. HIDE DEF s, f
  <2>. QED
    BY <1>1, <1>2, <2>1, <2>2, <2>3, <2>5, <2>6, StepCloses DEF s
<1>. QED
  BY <1>4, <1>5 DEF CheckValid

LEMMA ConnAuthStarts ==
    ASSUME ConnInv, UNCHANGED setup, NEW p \in Proc, AuthenticateStart(p)
    PROVE  ConnInv'
<1>0. ConnTypes /\ PostgresLast
  BY DEF ConnInv
<1>. DEFINE s == at[p].s
            l == IF pc[p] = "auth" THEN "authing" ELSE "switching"
            e == [fd |-> NoFd, state |-> servers[s].state, dbs |-> servers[s].dbs]
<1>1. pc[p] \in {"auth", "switch"} /\ UNCHANGED << role, cache_lock, fds, at >>
      /\ pc' = [pc EXCEPT ![p] = l] /\ servers' = [servers EXCEPT ![s].fd = NoFd]
  BY DEF AuthenticateStart, Goto
<1>2. s \in Server /\ Working(p)
  BY <1>0, <1>1 DEF ConnTypes, OnServer, OnMetric, Working
<1>3. l \in Place \ {"none", "lock"} /\ l \notin Closing /\ l \in {"authing", "switching"}
      /\ (l = "authing" <=> pc[p] = "auth")
  BY DEF Place, Closing, OnServer, OnMetric
<1>4. /\ servers' \in [Server -> Entry] /\ servers'[s].fd = NoFd /\ servers'[s].dbs = servers[s].dbs
      /\ servers'[s].state = servers[s].state
      /\ \A r \in Server \ {s} : servers'[r] = servers[r]
  <2>1. servers \in [Server -> Entry] /\ servers[s] \in Entry
    BY <1>0, <1>2 DEF ConnTypes
  <2>2. e \in Entry
    BY <2>1 DEF Entry
  <2>3. servers' = [servers EXCEPT ![s] = e]
    BY <1>0, <1>1, <1>2, EntryOf
  <2>. QED
    BY <1>2, <2>1, <2>2, <2>3
<1>5. PostgresLast'
  <2>1. \A r \in Server : servers'[r].dbs = servers[r].dbs
    BY <1>4
  <2>. QED
    BY <1>0, <2>1 DEF PostgresLast
<1>6. at[p] \in Position /\ at' = [at EXCEPT ![p] = at[p]] /\ fds[p] \in [Fd -> Conns \cup {Free, Client}]
      /\ fds' = [fds EXCEPT ![p] = fds[p]]
  BY <1>0, <1>1, Positions DEF ConnTypes
<1>7. pc'[p] = l /\ at'[p] = at[p]
  BY <1>0, <1>1 DEF ConnTypes
<1>. HIDE DEF l, e
<1>8. ASSUME Exclusive PROVE EntriesOf(p)' /\ Visiting(p)'
  <2>1. Visiting(p) /\ Entries
    BY <1>8 DEF ConnInv, Apart
  <2>2. servers[s].fd = NoFd
    BY <1>1, <2>1 DEF Visiting
  <2>3. \A r \in Server : servers'[r].fd = servers[r].fd /\ servers'[r].dbs = servers[r].dbs
             /\ servers'[r].state = servers[r].state
    BY <1>4, <2>2
  <2>4. EntriesOf(p)'
    <3>1. EntriesOf(p) /\ \A c \in Conns : c.server \in Server
      BY <1>2, <2>1, ConnFacts DEF Entries, EntriesOf
    <3>. QED
      BY <1>1, <2>3, <3>1 DEF EntriesOf
  <2>5. Visiting(p)'
    <3>1. /\ \A r \in Server : InPostgres(p, r)' <=> InPostgres(p, r)
          /\ \A r \in Server : Ready(p, r)' <=> Ready(p, r)
          /\ \A m : Wanted(m, s)' <=> Wanted(m, s)
      BY <1>1, <1>2, <2>3 DEF InPostgres, Ready, Wanted
    <3>2. CASE l = "authing"
      BY <1>3, <1>4, <1>7, <2>1, <3>1, <3>2 DEF Visiting, OnServer, OnMetric
    <3>3. CASE l = "switching"
      <4>1. pc[p] = "switch"
        BY <1>1, <1>3, <3>3
      <4>. QED
        BY <1>2, <1>4, <1>7, <2>1, <2>3, <3>1, <3>3, <4>1 DEF Visiting, OnServer, OnMetric
    <3>. QED
      BY <1>3, <3>2, <3>3
  <2>. QED
    BY <2>4, <2>5
<1>9. UNCHANGED << setup, role, cache_lock >> /\ (l \in OnServer \cup OnMetric => at[p].s \in Server)
  BY <1>1, <1>2
<1>10. pc' = [pc EXCEPT ![p] = l]
  BY <1>1
<1>. QED
  BY <1>2, <1>3, <1>4, <1>5, <1>6, <1>8, <1>9, <1>10, StepOf

\* A child connects to a database of the server it is at.
LEMMA ConnConnects ==
    ASSUME ConnInv, UNCHANGED << setup, role, cache_lock, at >>, NEW p \in Proc,
           NEW d \in Database, NEW l, AuthenticateEnd(p, d), pc' = [pc EXCEPT ![p] = l],
           \/ pc[p] = "authing" /\ l = "setup" /\ d = Postgres
           \/ pc[p] = "switching" /\ l = "visit" /\ d = DbName(at[p].s, at[p].d)
    PROVE  ConnInv'
<1>0. ConnTypes /\ PostgresLast
  BY DEF ConnInv
<1>. DEFINE s == at[p].s
            f == NewFd(p)
            t == [fds[p] EXCEPT ![f] = Conn(s, d)]
            e == [fd |-> f, state |-> servers[s].state, dbs |-> servers[s].dbs]
<1>1. s \in Server /\ Working(p) /\ l \in Place \ {"none", "lock"} /\ l \notin Closing
  BY <1>0 DEF ConnTypes, OnServer, OnMetric, Working, Place, Closing
<1>2. f \in Fd /\ fds[p][f] = Free
  BY <1>0, NewFdFree DEF AuthenticateEnd
<1>3. fds' = [fds EXCEPT ![p][f] = Conn(s, d)] /\ servers' = [servers EXCEPT ![s].fd = f]
  BY DEF AuthenticateEnd
<1>. HIDE DEF f
<1>4. Conn(s, d) \in Conns
  BY <1>1, ConnFacts
<1>5. fds' = [fds EXCEPT ![p] = t] /\ t \in [Fd -> Conns \cup {Free, Client}]
  BY <1>0, <1>2, <1>3, <1>4 DEF ConnTypes
<1>6. /\ servers' \in [Server -> Entry] /\ servers'[s].fd = f /\ servers'[s].dbs = servers[s].dbs
      /\ servers'[s].state = servers[s].state
      /\ \A r \in Server \ {s} : servers'[r] = servers[r]
  <2>1. servers \in [Server -> Entry] /\ servers[s] \in Entry
    BY <1>0, <1>1 DEF ConnTypes
  <2>2. e \in Entry
    BY <1>2, <2>1 DEF Entry
  <2>3. servers' = [servers EXCEPT ![s] = e]
    BY <1>0, <1>1, <1>2, <1>3, EntryOf
  <2>. QED
    BY <1>1, <2>1, <2>2, <2>3
<1>7. PostgresLast' /\ \A r \in Server : servers'[r].dbs = servers[r].dbs
  <2>1. \A r \in Server : servers'[r].dbs = servers[r].dbs
    BY <1>6
  <2>. QED
    BY <1>0, <2>1 DEF PostgresLast
<1>8. at[p] \in Position /\ at' = [at EXCEPT ![p] = at[p]]
  BY <1>0, Positions
<1>9. pc'[p] = l /\ at'[p] = at[p]
  BY <1>0 DEF ConnTypes
<1>. HIDE DEF t, e
<1>10. ASSUME Exclusive PROVE EntriesOf(p)' /\ Visiting(p)'
  <2>1. Visiting(p)
    BY <1>10 DEF ConnInv, Apart
  <2>2. servers[s].fd = NoFd
    BY <2>1 DEF Visiting
  <2>3. /\ EntriesOf(p)' /\ fds'[p][f] = Conn(s, d)
        /\ \A r \in Server \ {s} : servers'[r].fd # NoFd =>
             fds'[p][servers'[r].fd] = fds[p][servers[r].fd]
    <3>1. fds' = [fds EXCEPT ![p] = [fds[p] EXCEPT ![f] = Conn(s, d)]] /\ UNCHANGED role
      BY <1>5 DEF t
    <3>. HIDE DEF s
    <3>. QED
      BY ONLY ConnInv, p \in Proc, d \in Database, <1>1, <1>2, <1>6, <1>10, <2>2, <3>1, Opens
  <2>4. \A r \in Server \ {s} : (InPostgres(p, r) => InPostgres(p, r)') /\ (Ready(p, r) => Ready(p, r)')
    BY <1>6, <2>3 DEF InPostgres, Ready
  <2>5. CASE pc[p] = "authing" /\ l = "setup" /\ d = Postgres
    <3>1. InPostgres(p, s)'
      BY <1>6, <2>3, <2>5 DEF InPostgres
    <3>. QED
      BY <1>9, <2>1, <2>3, <2>4, <2>5, <3>1 DEF Visiting, OnServer, OnMetric
  <2>6. CASE pc[p] = "switching" /\ l = "visit" /\ d = DbName(s, at[p].d)
    <3>1. DbName(at[p].s, at[p].d)' = d
      BY <1>1, <1>6, <1>9, <2>6 DEF DbName
    <3>2. Wanted(at[p].m, at[p].s)' /\ at'[p].m <= Len(Metrics)
          /\ at'[p].d <= Len(servers'[at'[p].s].dbs)
      BY <1>1, <1>6, <1>9, <2>1, <2>6 DEF Visiting, Wanted, OnMetric
    <3>3. \A r \in Server \ {at'[p].s} : Ready(p, r)'
      BY <1>9, <2>1, <2>4, <2>6 DEF Visiting, OnMetric
    <3>4. fds'[p][servers'[at'[p].s].fd] = Conn(at'[p].s, d)
      BY <1>6, <1>9, <2>3
    <3>5. at'[p].d # -1
      BY <1>9, <2>1, <2>6 DEF Visiting
    <3>. QED
      BY <1>9, <2>3, <2>6, <3>1, <3>2, <3>3, <3>4, <3>5 DEF Visiting, OnServer, OnMetric
  <2>. QED
    BY <2>5, <2>6
<1>11. l \in OnServer \cup OnMetric => at[p].s \in Server
  BY <1>1
<1>. QED
  BY <1>1, <1>5, <1>6, <1>7, <1>8, <1>10, <1>11, StepOf

\* The list of databases ends with "postgres", or does not hold it.
LEMMA Detected ==
    ASSUME NEW n \in 0 .. MaxOthers
    PROVE  /\ DetectDatabases(n) \in Seq(Database)
           /\ \A i \in DOMAIN DetectDatabases(n) : DetectDatabases(n)[i] = Postgres =>
                DetectDatabases(n)[Len(DetectDatabases(n))] = Postgres
<1>1. ASSUME NEW k \in Nat, k <= MaxOthers
      PROVE  /\ Others(k) \in Seq(Database) /\ Len(Others(k)) = k
             /\ \A i \in DOMAIN Others(k) : Others(k)[i] # Postgres
  <2>1. \A i \in 1 .. k : i + 1 \in Database /\ i + 1 # Postgres
    BY <1>1, ConnectionsAssumption DEF Database, Postgres
  <2>. QED
    BY <1>1, <2>1, IsASeq DEF Others
<1>2. n \in Nat /\ n <= MaxOthers /\ NUMBER_OF_DATABASES \in Nat /\ MaxOthers \in Nat
  BY ConnectionsAssumption
<1>3. CASE n > NUMBER_OF_DATABASES
  <2>1. DetectDatabases(n) = Others(NUMBER_OF_DATABASES)
    BY <1>3 DEF DetectDatabases
  <2>. QED
    BY <1>1, <1>2, <1>3, <2>1
<1>4. CASE ~ n > NUMBER_OF_DATABASES
  <2>1. DetectDatabases(n) = Append(Others(n), Postgres)
    BY <1>4 DEF DetectDatabases
  <2>2. Others(n) \in Seq(Database) /\ Postgres \in Database
    BY <1>1, <1>2 DEF Database, Postgres
  <2>. HIDE DEF Postgres, Others
  <2>3. /\ Append(Others(n), Postgres) \in Seq(Database)
        /\ Append(Others(n), Postgres)[Len(Append(Others(n), Postgres))] = Postgres
    BY <2>2, AppendProperties
  <2>. QED
    BY <2>1, <2>3
<1>. QED
  BY <1>3, <1>4

LEMMA ConnSetsUp ==
    ASSUME ConnInv, UNCHANGED setup, NEW p \in Proc, Setup(p)
    PROVE  ConnInv'
<1>0. ConnTypes /\ PostgresLast
  BY DEF ConnInv
<1>. DEFINE s == at[p].s
            a == [s |-> at[p].s + 1, m |-> 1, d |-> 1]
<1>1. /\ pc[p] = "setup" /\ UNCHANGED << role, cache_lock, fds >>
      /\ pc' = [pc EXCEPT ![p] = "open"] /\ at' = [at EXCEPT ![p] = a]
  BY DEF Setup, NextServer, Goto, At
<1>2. s \in Server /\ Working(p) /\ "open" \in Place \ {"none", "lock"}
      /\ "open" \notin Closing \cup OnServer \cup OnMetric
  BY <1>0, <1>1 DEF ConnTypes, OnServer, OnMetric, Working, Place, Closing
<1>3. a \in Position
  BY <1>0, <1>2, Positions
<1>4. PICK st \in {"primary", "replica"}, dbs \in {<< >>} \cup {DetectDatabases(n) : n \in 0 .. MaxOthers} :
        servers' = [servers EXCEPT ![s] = [fd |-> servers[s].fd, state |-> st, dbs |-> dbs]]
  BY DEF Setup
<1>. DEFINE e == [fd |-> servers[s].fd, state |-> st, dbs |-> dbs]
<1>5. dbs \in Seq(Database) /\ \A i \in DOMAIN dbs : dbs[i] = Postgres => dbs[Len(dbs)] = Postgres
  <2>1. CASE dbs = << >>
    BY <2>1, EmptySeq
  <2>2. CASE dbs \in {DetectDatabases(n) : n \in 0 .. MaxOthers}
    BY <2>2, Detected
  <2>. QED
    BY <2>1, <2>2
<1>6. e \in Entry /\ e.fd = servers[s].fd /\ e.dbs = dbs
  BY <1>0, <1>2, <1>5 DEF ConnTypes, Entry
<1>. HIDE DEF e, a
<1>7. servers' \in [Server -> Entry] /\ servers'[s] = e /\ \A r \in Server \ {s} : servers'[r] = servers[r]
  <2>1. servers \in [Server -> Entry] /\ servers' = [servers EXCEPT ![s] = e]
    BY <1>0, <1>4 DEF ConnTypes, e
  <2>. QED
    BY <1>2, <1>6, <2>1
<1>8. PostgresLast'
  BY <1>0, <1>5, <1>6, <1>7 DEF PostgresLast
<1>9. fds[p] \in [Fd -> Conns \cup {Free, Client}] /\ fds' = [fds EXCEPT ![p] = fds[p]]
  BY <1>0, <1>1 DEF ConnTypes
<1>10. ASSUME Exclusive PROVE EntriesOf(p)' /\ Visiting(p)'
  <2>1. Visiting(p) /\ Entries
    BY <1>10 DEF ConnInv, Apart
  <2>2. \A r \in Server : servers'[r].fd = servers[r].fd
    BY <1>6, <1>7
  <2>3. EntriesOf(p) /\ \A c \in Conns : c.server \in Server
    BY <1>2, <2>1, ConnFacts DEF Entries, EntriesOf
  <2>4. EntriesOf(p)'
    BY <1>1, <2>2, <2>3 DEF EntriesOf
  <2>5. \A r \in Server : InPostgres(p, r)'
    BY <1>1, <2>1, <2>2 DEF Visiting, InPostgres, OnServer
  <2>6. pc'[p] = "open"
    BY <1>0, <1>1 DEF ConnTypes
  <2>7. Visiting(p)'
    BY <2>5, <2>6 DEF Visiting, OnServer, OnMetric
  <2>. QED
    BY <2>4, <2>7
<1>. QED
  BY <1>1, <1>2, <1>3, <1>7, <1>8, <1>9, <1>10, StepOf

LEMMA ConnLacksRole ==
    ASSUME ConnInv, UNCHANGED setup, NEW p \in Proc, RoleMissing(p)
    PROVE  ConnInv'
<1>0. ConnTypes
  BY DEF ConnInv
<1>. DEFINE s == at[p].s
            a == [s |-> 1, m |-> 1, d |-> 1]
<1>1. /\ pc[p] = "setup" /\ UNCHANGED << role, cache_lock >>
      /\ pc' = [pc EXCEPT ![p] = "quit"] /\ at' = [at EXCEPT ![p] = a]
      /\ fds' = IF servers[s].fd = NoFd THEN fds ELSE [fds EXCEPT ![p][servers[s].fd] = Free]
      /\ servers' = [servers EXCEPT ![s] = [fd |-> NoFd, state |-> "unknown", dbs |-> servers[s].dbs]]
  BY DEF RoleMissing, Goto, At, Disconnect
<1>2. s \in Server /\ Working(p) /\ "quit" \in Place \ {"none", "lock"}
      /\ "quit" \notin OnServer \cup OnMetric
  BY <1>0, <1>1 DEF ConnTypes, OnServer, OnMetric, Working, Place, Closing
<1>3. a \in Position /\ a.s = 1
  BY <1>0, Positions
<1>. HIDE DEF a
<1>4. pc'[p] = "quit"
  BY <1>0, <1>1 DEF ConnTypes
<1>5. Visiting(p)'
  BY <1>4 DEF Visiting, OnServer, OnMetric
<1>6. "unknown" \in {"unknown", "primary", "replica"}
  OBVIOUS
<1>. HIDE DEF s
<1>. QED
  BY <1>1, <1>2, <1>3, <1>5, <1>6, StepCloses

LEMMA ConnSwitches ==
    ASSUME ConnInv, UNCHANGED setup, NEW p \in Proc, SwitchDb(p)
    PROVE  ConnInv'
<1>0. ConnTypes
  BY DEF ConnInv
<1>. DEFINE s == at[p].s
<1>1. /\ pc[p] = "terminate" /\ UNCHANGED << role, cache_lock >>
      /\ pc' = [pc EXCEPT ![p] = "switch"]
      /\ fds' = IF servers[s].fd = NoFd THEN fds ELSE [fds EXCEPT ![p][servers[s].fd] = Free]
      /\ servers' = [servers EXCEPT ![s].fd = NoFd]
  BY DEF SwitchDb, Goto, Disconnect
<1>2. s \in Server /\ Working(p) /\ "switch" \in Place \ {"none", "lock"} /\ "switch" \notin Closing
  BY <1>0, <1>1 DEF ConnTypes, OnServer, OnMetric, Working, Place, Closing
<1>3. at[p] \in Position /\ at' = [at EXCEPT ![p] = at[p]]
  BY <1>0, Positions DEF SwitchDb
<1>4. servers' = [servers EXCEPT ![s] = [fd |-> NoFd, state |-> servers[s].state, dbs |-> servers[s].dbs]]
      /\ servers[s].state \in {"unknown", "primary", "replica"}
  BY <1>0, <1>1, <1>2, EntryOf
<1>5. pc'[p] = "switch" /\ at'[p] = at[p]
  BY <1>0, <1>1, <1>3 DEF ConnTypes
<1>6. /\ servers'[s].fd = NoFd /\ servers'[s].dbs = servers[s].dbs /\ servers'[s].state = servers[s].state
      /\ \A r \in Server \ {s} : servers'[r] = servers[r]
  BY <1>0, <1>2, <1>4 DEF ConnTypes
<1>7. ASSUME Exclusive,
             \A r \in Server : servers'[r].fd # NoFd =>
                servers[r].fd # NoFd /\ fds'[p][servers'[r].fd] = fds[p][servers[r].fd]
      PROVE  Visiting(p)'
  <2>1. Visiting(p)
    BY <1>7 DEF ConnInv, Apart
  <2>2. \A r \in Server \ {at'[p].s} : Ready(p, r)'
    BY <1>1, <1>5, <1>6, <1>7, <2>1 DEF Visiting, OnMetric, Ready, InPostgres
  <2>3. /\ Wanted(at[p].m, at[p].s)' /\ at'[p].m <= Len(Metrics) /\ at'[p].d # -1
        /\ at'[p].d <= Len(servers'[at'[p].s].dbs)
    BY <1>1, <1>2, <1>5, <1>6, <2>1 DEF Visiting, Wanted, OnMetric
  <2>. QED
    BY <1>5, <1>6, <2>2, <2>3 DEF Visiting, OnServer, OnMetric
<1>8. "switch" \in OnServer \cup OnMetric => at[p].s \in Server
  BY <1>2
<1>. HIDE DEF s
<1>. QED
  BY <1>1, <1>2, <1>3, <1>4, <1>7, <1>8, StepCloses

LEMMA ConnCloses ==
    ASSUME ConnInv, UNCHANGED setup, NEW p \in Proc, CloseNext(p)
    PROVE  ConnInv'
<1>0. ConnTypes
  BY DEF ConnInv
<1>. DEFINE s == at[p].s
            a == [s |-> at[p].s + 1, m |-> 1, d |-> 1]
<1>1. /\ pc[p] \in Closing /\ UNCHANGED << role, cache_lock, pc >> /\ s \in Server
      /\ at' = [at EXCEPT ![p] = a]
  BY DEF CloseNext, NextServer, At
<1>2. Working(p) /\ pc[p] \in Place \ {"none", "lock"} /\ pc[p] \notin OnServer \cup OnMetric
      /\ pc' = [pc EXCEPT ![p] = pc[p]] /\ pc'[p] = pc[p]
  BY <1>0, <1>1 DEF ConnTypes, OnServer, OnMetric, Working, Place, Closing
<1>3. a \in Position /\ a.s = s + 1
  BY <1>0, <1>1, Positions
<1>. HIDE DEF a
<1>4. Visiting(p)'
  BY <1>1, <1>2 DEF Visiting, OnServer, OnMetric, Closing
<1>5. CASE servers[s].fd = NoFd
  <2>1. UNCHANGED << servers, fds >>
    BY <1>5 DEF CloseNext, CloseEntry
  <2>2. fds' = IF servers[s].fd = NoFd THEN fds ELSE [fds EXCEPT ![p][servers[s].fd] = Free]
    BY <1>5, <2>1
  <2>3. /\ servers' = [servers EXCEPT ![s] = [fd |-> NoFd, state |-> servers[s].state, dbs |-> servers[s].dbs]]
        /\ servers[s].state \in {"unknown", "primary", "replica"}
    <3>1. servers \in [Server -> Entry] /\ servers[s] \in Entry
      BY <1>0, <1>1 DEF ConnTypes
    <3>2. servers[s] = [fd |-> NoFd, state |-> servers[s].state, dbs |-> servers[s].dbs]
      BY <1>5, <3>1 DEF Entry
    <3>3. servers = [servers EXCEPT ![s] = servers[s]]
      BY <3>1
    <3>. QED
      BY <2>1, <3>1, <3>2, <3>3 DEF Entry
  <2>. HIDE DEF s
  <2>. QED
    BY <1>1, <1>2, <1>3, <1>4, <2>2, <2>3, StepCloses DEF s
<1>6. CASE servers[s].fd # NoFd
  <2>1. /\ fds' = IF servers[s].fd = NoFd THEN fds ELSE [fds EXCEPT ![p][servers[s].fd] = Free]
        /\ servers' = [servers EXCEPT ![s] = [fd |-> NoFd, state |-> "unknown", dbs |-> servers[s].dbs]]
    BY <1>6 DEF CloseNext, CloseEntry, Disconnect
  <2>2. "unknown" \in {"unknown", "primary", "replica"}
    OBVIOUS
  <2>. HIDE DEF s
  <2>. QED
    BY <1>1, <1>2, <1>3, <1>4, <2>1, <2>2, StepCloses DEF s
<1>. QED
  BY <1>5, <1>6

LEMMA StepConn == ASSUME ConnInv, [Next]_connections PROVE ConnInv'
<1>1. CASE UNCHANGED connections
  <2>1. UNCHANGED << setup, cache_lock, servers, fds, role, pc, at >>
    BY <1>1 DEF connections
  <2>2. ConnTypes' /\ Roles' /\ PostgresLast' /\ ClosedLater' /\ Exclusive' = Exclusive
    BY <2>1 DEF ConnInv, ConnTypes, Roles, PostgresLast, ClosedLater, WillClose, Working, Exclusive
  <2>3. Apart => Apart'
    <3>1. Alone => Alone'
      BY <2>1 DEF Alone, Working
    <3>2. Entries => Entries'
      BY <2>1 DEF Entries, Working
    <3>3. \A p \in Proc : Visiting(p) => Visiting(p)'
      BY <2>1 DEF Visiting, Ready, InPostgres, Wanted, DbName
    <3>. QED
      BY <3>1, <3>2, <3>3 DEF Apart
  <2>. QED
    BY <2>2, <2>3 DEF ConnInv
<1>2. ASSUME UNCHANGED setup, NEW p \in Proc, Step(p) PROVE ConnInv'
  <2>1. CASE Authenticated(p) \/ Switched(p)
    <3>1. at[p].s \in Server /\ ConnTypes
      BY <2>1 DEF ConnInv, ConnTypes, OnServer, OnMetric, Authenticated, Switched
    <3>2. Postgres \in Database /\ DbName(at[p].s, at[p].d) \in Database
      <4>1. servers[at[p].s].dbs \in Seq(Database)
        BY <3>1 DEF ConnTypes, Entry
      <4>2. Postgres \in Database /\ Unnamed \in Database
        BY ConnectionsAssumption DEF Postgres, Unnamed, Database
      <4>. QED
        BY <4>1, <4>2, ElementOfSeq, LenProperties DEF DbName
    <3>3. CASE Authenticated(p)
      BY <1>2, <3>2, <3>3, ConnConnects DEF Authenticated, Goto
    <3>4. CASE Switched(p)
      BY <1>2, <3>2, <3>4, ConnConnects DEF Switched, Goto
    <3>. QED
      BY <2>1, <3>3, <3>4
  <2>2. CASE Finish(p) \/ GiveUp(p) \/ Kill(p)
    <3>1. cache_lock \in BOOLEAN /\ (IF role[p] = "metrics" THEN FALSE ELSE cache_lock) \in BOOLEAN
      BY DEF ConnInv, ConnTypes
    <3>2. CASE Finish(p)
      <4>. DEFINE lock == IF role[p] = "metrics" THEN FALSE ELSE cache_lock
      <4>1. lock \in BOOLEAN /\ Exit(p, lock) /\ pc[p] \in Closing /\ at[p].s > NumServers
        BY <3>1, <3>2 DEF Finish, Closing
      <4>. HIDE DEF lock
      <4>. QED
        BY <1>2, <4>1, ConnExits
    <3>3. CASE GiveUp(p)
      BY <1>2, <3>1, <3>3, ConnExits DEF GiveUp, Closing
    <3>4. CASE Kill(p)
      BY <1>2, <3>1, <3>4, ConnExits DEF Kill
    <3>. QED
      BY <2>2, <3>2, <3>3, <3>4
  <2>3. CASE AcceptScrape(p) \/ HistoryTick(p) \/ TakeLock(p) \/ LockTimeOut(p)
    BY <1>2, <2>3, ConnAccepts, ConnTicks, ConnTakesLock
  <2>4. CASE \/ OpenNext(p) \/ NoUser(p) \/ AuthenticateFails(p) \/ Collect(p)
             \/ CustomStart(p) \/ Extensions(p)
    BY <1>2, <2>4, ConnOpens
  <2>5. CASE \/ CheckValid(p) \/ AuthenticateStart(p) \/ Setup(p) \/ RoleMissing(p) \/ Visit(p)
             \/ SwitchDb(p) \/ SwitchFails(p) \/ CloseNext(p)
    BY <1>2, <2>5, ConnChecks, ConnAuthStarts, ConnSetsUp, ConnLacksRole, ConnVisits,
       ConnSwitches, ConnSwitchFails, ConnCloses
  <2>. QED
    BY <1>2, <2>1, <2>2, <2>3, <2>4, <2>5 DEF Step
<1>. QED
  BY <1>1, <1>2 DEF Next

LEMMA ConnSound == ASSUME ConnInv PROVE DescriptorsSound
<1>0. ConnTypes /\ Roles /\ ClosedLater
  BY DEF ConnInv
<1>1. TypeOK
  BY <1>0 DEF ConnTypes, TypeOK, Entry
<1>2. NothingLeftOpen
  BY <1>0 DEF NothingLeftOpen, ClosedLater, WillClose, Working
<1>3. ASSUME Exclusive, NEW p \in Proc
      PROVE  /\ \A s \in Uses(p) : servers[s].fd # NoFd =>
                  \E d \in Database : fds[p][servers[s].fd] = Conn(s, d)
             /\ role[p] = "metrics" => fds[p][1] = Client
             /\ Cardinality({f \in Fd : fds[p][f] \in Conns}) <= NumServers
             /\ pc[p] = "extensions" => \A s \in Server : Ready(p, s)
  <2>0. Entries /\ Visiting(p)
    BY <1>3 DEF ConnInv, Apart
  <2>1. ASSUME NEW s \in Uses(p), servers[s].fd # NoFd
        PROVE  \E d \in Database : fds[p][servers[s].fd] = Conn(s, d)
    <3>1. s = at[p].s /\ s \in Server /\ Working(p)
      BY <1>0, <2>1 DEF Uses, ConnTypes, OnServer, OnMetric, Working, Closing
    <3>. DEFINE c == fds[p][servers[s].fd]
    <3>2. c \in Conns /\ c.server = s
      BY <2>0, <2>1, <3>1 DEF Entries
    <3>. HIDE DEF c
    <3>3. c.db \in Database /\ c = Conn(s, c.db)
      BY <3>2, ConnFacts
    <3>. QED
      BY <3>3 DEF c
  <2>2. Cardinality({f \in Fd : fds[p][f] \in Conns}) <= NumServers
    <3>. DEFINE F == {f \in Fd : fds[p][f] \in Conns}
                g == [f \in F |-> fds[p][f].server]
    <3>1. g \in Injection(F, Server)
      <4>1. \A f \in F : fds[p][f].server \in Server /\ servers[fds[p][f].server].fd = f
        BY <2>0, ConnFacts DEF Entries
      <4>2. g \in [F -> Server]
        BY <4>1
      <4>3. \A a, b \in F : g[a] = g[b] => a = b
        BY <4>1
      <4>. QED
        BY <4>2, <4>3 DEF Injection, IsInjective
    <3>2. IsFiniteSet(Server) /\ Cardinality(Server) = NumServers
      BY ConnFacts, FS_Interval
    <3>. QED
      BY <3>1, <3>2, FS_Injection
  <2>. QED
    BY <2>0, <2>1, <2>2 DEF Entries, Visiting
<1>4. OwnWhenExclusive /\ ClientKept /\ NoDescriptorLeak
  BY <1>3 DEF OwnWhenExclusive, OwnDescriptor, ClientKept, NoDescriptorLeak
<1>5. ExtensionsInPostgres
  BY <1>3 DEF ExtensionsInPostgres, Ready, InPostgres
<1>. QED
  BY <1>1, <1>2, <1>4, <1>5 DEF DescriptorsSound

\* For any number of children, servers, metrics and databases. Where one kind of scraper runs,
\* no waiter gives up and nobody is killed, a child uses a descriptor of the shared entries
\* only if it opened it (pgexporter_open_connections, pgexporter_switch_db), keeps the
\* client's socket, holds at most one connection per server, and reads the metrics of
\* extensions from "postgres"; unless children are killed, no entry is left open
\* (pgexporter_close_connections).
THEOREM DescriptorsAreSound == PartSpec => []DescriptorsSound
<1>1. PartInit => ConnInv
  BY InitConn DEF PartInit
<1>2. ConnInv /\ [PartNext]_<< part, connections, configuration >> => ConnInv'
  BY StepConn DEF PartNext
<1>. QED
  BY <1>1, <1>2, ConnSound, PTL DEF PartSpec

----------------------------------------------------------------------------
(* The running configuration.                                              *)

Structures == [g : [C!Field -> C!Value], servers : Seq([C!SKey -> C!Value])]
Texts      == C!Text \cup {"absent"}
Files      == [g : [C!Key -> Texts], servers : Seq([C!SKey -> Texts]), users : {"a", "b"},
               names : {"distinct", "reserved", "duplicate"}]
Copying    == C!CopyBlocks \cup {"validate"}
Answers    == {"none", "unknown", "invalid", "failed", "restart", "success", "no_change"}
Jobs       == [pc : Copying \cup C!Decided \cup {"idle", "done", "died", "exited"},
               copy : Structures \cup {<< >>}, new : Structures \cup {<< >>},
               request : C!Request \cup {<< >>}, old : C!Value, answer : Answers,
               alone : BOOLEAN]

\* What validation looks at, what it rewrites.
ValidKeys  == {"host", "unix_socket_dir", "metrics", "bridge", "bridge_json",
               "bridge_json_cache_max_size", "log_level", "log_type", "log_mode", "users"}
MetricsCerts == {"metrics_ca_file", "metrics_cert_file", "metrics_key_file"}
HistoryCerts == {"history_ca_file", "history_cert_file", "history_key_file"}
Rewritten    == {"backlog", "metrics_query_timeout"} \cup MetricsCerts \cup HistoryCerts

\* Nothing is left for validation to rewrite but certificates.
Normal(c) == c.g["backlog"] # "a" /\ c.g["metrics_query_timeout"] # "a"

\* One or two servers.
Sized(c) == c \in Structures /\ Len(c.servers) \in 1 .. 2

Usable(c) == Sized(c) /\ Normal(c) /\ C!Valid(c)

ConfTypes ==
    /\ scope \in Scopes
    /\ certs \in BOOLEAN
    /\ edits \in 0 .. MaxEdits
    /\ foreign \subseteq C!Process
    /\ mixed \in BOOLEAN
    /\ file \in Files /\ Len(file.servers) <= 2
    /\ Sized(config) /\ Normal(config)
    /\ job \in [C!Process -> Jobs]

\* A copy under way: the keys copied so far are there, and current when p is alone.
CopiedKeys(b) ==
    (IF b = "copy_values" THEN {} ELSE C!CopyValues)
      \cup (IF b \in {"copy_values", "copy_servers", "copy_users"} THEN {} ELSE C!CopyUsers)
      \cup (IF b \in {"copy_alerts", "validate"} THEN C!CopyMetrics ELSE {})
      \cup (IF b = "validate" THEN C!CopyAlerts ELSE {})

NoServersYet == {"copy_values", "copy_servers"}

CopyInv(j, c) ==
    j.pc \in Copying =>
        /\ j.copy \in Structures /\ Normal(j.copy) /\ Len(j.copy.servers) <= 2
        /\ j.request \in C!Request
        /\ j.pc \notin NoServersYet => Len(j.copy.servers) \in 1 .. 2
        /\ j.alone => /\ \A k \in CopiedKeys(j.pc) \ C!NotCopied : j.copy.g[k] = c.g[k]
                      /\ j.pc \notin NoServersYet => j.copy.servers = c.servers

\* What a setter transfers is its copy but for the key it was asked to change.
OwnChange(j) ==
    /\ j.copy \in Structures
    /\ j.request \in C!Request /\ C!Known(j.request)
    /\ \A k \in C!Field :
          \/ j.new.g[k] = j.copy.g[k]
          \/ j.request.server = 0 /\ k = j.request.key
          \/ k \in C!SideEffects(j.request) \cup C!NotTransferred
    /\ DOMAIN j.new.servers = DOMAIN j.copy.servers
    /\ \A i \in DOMAIN j.copy.servers, k \in C!SKey :
          \/ j.new.servers[i][k] = j.copy.servers[i][k]
          \/ j.request.server = i /\ k = j.request.key

\* It is bound to what the start bound.
BoundLike(c) == \A k \in C!BoundAtStart : c.g[k] = C!AtStart.g[k]
FirstServer(c) == C!SameServer(c.servers[1], C!AtStart.servers[1])

NewInv(p, j) ==
    /\ j.pc \in C!Decided => Usable(j.new) /\ (p \in Setter => OwnChange(j))
    /\ j.pc \in C!Blocks => BoundLike(j.new) /\ FirstServer(j.new)
    /\ j.alone => j.pc \in Copying

\* What a transfer that runs alone has done so far.
DoneKeys(b) ==
    (IF b = "values" THEN {} ELSE C!ValueKeys)
      \cup (IF b \in {"metrics", "alerts"} THEN {"users"} ELSE {})
      \cup (IF b = "alerts" THEN C!MetricsKeys ELSE {})

Left == C!NotTransferred \cup {"log_line_prefix"}

DoneInv(j, c) ==
    j.pc \in C!Blocks =>
        /\ \A k \in DoneKeys(j.pc) \ Left : c.g[k] = j.new.g[k]
        /\ IF j.pc \in {"values", "clear_servers", "servers"}
             THEN Len(c.servers) <= Len(j.new.servers)
             ELSE c.servers = j.new.servers

\* A transfer in progress that no other overlaps.
AloneInv ==
    ~ mixed =>
        /\ \A p, q \in C!Process : job[p].pc \in C!Blocks /\ job[q].pc \in C!Blocks => p = q
        /\ \A p \in C!Process : DoneInv(job[p], config)
        /\ C!Transferring = {} => C!Valid(config)
        /\ job["main"].pc = "alerts" => "main" \notin foreign

\* What holds of the running configuration in every state.
ServersProper(c) ==
    \A i \in DOMAIN c.servers : /\ c.servers[i].host # "default"
                                /\ c.servers[i].port # "default"
                                /\ c.servers[i].type # "invalid"

LiveInv(c) ==
    /\ BoundLike(c)
    /\ C!EnumsValid(c)
    /\ c.g["users"] = "default" => C!Unfilled("users")
    /\ \/ ServersProper(c) /\ FirstServer(c)
       \/ c.servers[1].host = "default" /\ C!Unfilled("servers")

ConfInv ==
    /\ ConfTypes
    /\ \A p \in C!Process : CopyInv(job[p], config) /\ NewInv(p, job[p])
    /\ AloneInv
    /\ LiveInv(config)

LEMMA KeyFacts ==
    /\ C!RestartKeys \cup C!LogGroup \cup C!NotTransferred \cup Rewritten \subseteq C!Field
    /\ ValidKeys \cup {"metrics_path", "alerts"} \subseteq C!Field
    /\ {"users", "admins", "prometheus", "metric_names", "alert_definitions"} = C!Loaded
    /\ {"host", "port", "type", "user"} \subseteq C!SKey
<1>1. C!NetworkKeys \in C!KeyTables /\ C!BridgeKeys \in C!KeyTables /\ C!HistoryKeys \in C!KeyTables
      /\ C!BridgeHistoryKeys \in C!KeyTables /\ C!TlsKeys \in C!KeyTables /\ C!LoggingKeys \in C!KeyTables
      /\ C!SystemKeys \in C!KeyTables /\ C!MetricKeys \in C!KeyTables
  BY DEF C!KeyTables
<1>2. \A t \in C!KeyTables : DOMAIN t \subseteq C!Key
  BY DEF C!Key
<1>3. {"host", "metrics", "metrics_cache_max_size", "metrics_query_timeout"} \subseteq DOMAIN C!NetworkKeys
  BY DEF C!NetworkKeys
<1>4. {"bridge", "bridge_json", "bridge_json_cache_max_size", "management", "console"} \subseteq DOMAIN C!BridgeKeys
  BY DEF C!BridgeKeys
<1>5. {"history", "bridge_history"} \cup HistoryCerts \subseteq DOMAIN C!HistoryKeys
  BY DEF C!HistoryKeys, HistoryCerts
<1>6. "alerts" \in DOMAIN C!BridgeHistoryKeys
  BY DEF C!BridgeHistoryKeys
<1>7. MetricsCerts \subseteq DOMAIN C!TlsKeys
  BY DEF C!TlsKeys, MetricsCerts
<1>8. {"pidfile", "log_type", "log_level", "log_path", "log_rotation_size", "log_rotation_age"}
         \subseteq DOMAIN C!LoggingKeys
  BY DEF C!LoggingKeys
<1>9. {"log_line_prefix", "log_mode", "unix_socket_dir", "ev_backend", "backlog", "hugepage"}
         \subseteq DOMAIN C!SystemKeys
  BY DEF C!SystemKeys
<1>10. {"metrics_path", "extensions"} \subseteq DOMAIN C!MetricKeys
  BY DEF C!MetricKeys
<1>. HIDE DEF C!NetworkKeys, C!BridgeKeys, C!HistoryKeys, C!BridgeHistoryKeys, C!TlsKeys, C!LoggingKeys,
              C!SystemKeys, C!MetricKeys, C!Key, C!KeyTables
<1>11. C!RestartKeys \cup C!LogGroup \cup C!NotTransferred \cup Rewritten \subseteq C!Field
  BY <1>1, <1>2, <1>3, <1>4, <1>5, <1>6, <1>7, <1>8, <1>9, <1>10
     DEF C!RestartKeys, C!LogGroup, C!LogTriggers, C!NotTransferred, Rewritten, MetricsCerts, HistoryCerts, C!Field
<1>12. ValidKeys \cup {"metrics_path", "alerts"} \subseteq C!Field
  BY <1>1, <1>2, <1>3, <1>4, <1>5, <1>6, <1>7, <1>8, <1>9, <1>10 DEF ValidKeys, C!Field, C!Loaded
<1>13. {"host", "port", "type", "user"} \subseteq C!SKey
  BY DEF C!SKey, C!ServerKeys
<1>. QED
  BY <1>11, <1>12, <1>13 DEF C!Loaded

LEMMA ConvertedValue ==
    ASSUME NEW kind, NEW text
    PROVE  C!Stored(kind, text) \in C!Value /\ C!StoredOrAbsent(kind, text) \in C!Value
<1>1. C!Stored(kind, text) \in C!Value
  <2>1. CASE text \in {"a", "b"} /\ kind # "sqlite"
    BY <2>1 DEF C!Stored, C!Value
  <2>2. CASE ~ (text \in {"a", "b"} /\ kind # "sqlite")
    <3>1. CASE kind = "string" /\ text = "bad"
      BY <2>2, <3>1 DEF C!Stored, C!Value
    <3>2. CASE kind = "enum"
      BY <2>2, <3>2 DEF C!Stored, C!Value
    <3>3. CASE kind = "lenient"
      BY <2>2, <3>3 DEF C!Stored, C!Value
    <3>4. CASE kind = "dir" /\ text = "bad"
      BY <2>2, <3>4 DEF C!Stored, C!Value
    <3>5. CASE ~ (kind = "string" /\ text = "bad") /\ kind # "enum" /\ kind # "lenient"
               /\ ~ (kind = "dir" /\ text = "bad")
      BY <2>2, <3>5 DEF C!Stored, C!Value
    <3>. QED
      BY <3>1, <3>2, <3>3, <3>4, <3>5
  <2>. QED
    BY <2>1, <2>2
<1>. QED
  BY <1>1 DEF C!StoredOrAbsent, C!Value

\* Validation depends on a few keys and the servers.
LEMMA ValidDepends ==
    ASSUME NEW c, NEW d, \A k \in ValidKeys : c.g[k] = d.g[k], c.servers = d.servers, C!Valid(d)
    PROVE  C!Valid(c)
<1>. USE DEF ValidKeys
<1>1. C!PortsValid(c)
  BY DEF C!Valid, C!PortsValid
<1>2. C!EnumsValid(c)
  BY DEF C!Valid, C!EnumsValid
<1>3. C!ServersValid(c)
  <2>1. c.g["users"] = d.g["users"]
    OBVIOUS
  <2>. QED
    BY <2>1 DEF C!Valid, C!ServersValid
<1>. QED
  BY <1>1, <1>2, <1>3 DEF C!Valid

LEMMA CertsKeep ==
    ASSUME NEW g \in [C!Field -> C!Value], NEW ca, NEW cert, NEW key
    PROVE  /\ C!Certs(g, ca, cert, key) \in [C!Field -> C!Value]
           /\ \A k \in C!Field : \/ C!Certs(g, ca, cert, key)[k] = g[k]
                                 \/ ~ certs /\ k \in {ca, cert, key}
<1>1. "default" \in C!Value
  BY DEF C!Value
<1>2. CASE ~ certs /\ \E k \in {ca, cert, key} : g[k] # "default"
  BY <1>1, <1>2 DEF C!Certs
<1>3. CASE ~ (~ certs /\ \E k \in {ca, cert, key} : g[k] # "default")
  BY <1>3 DEF C!Certs
<1>. QED
  BY <1>2, <1>3

\* What validation rewrites.
LEMMA Normalised ==
    ASSUME NEW c \in Structures
    PROVE  /\ C!Normalise(c) \in Structures /\ C!Normalise(c).servers = c.servers
           /\ \A k \in C!Field : \/ C!Normalise(c).g[k] = c.g[k]
                                 \/ k \in {"backlog", "metrics_query_timeout"} /\ c.g[k] = "a"
                                 \/ ~ certs /\ k \in MetricsCerts \cup HistoryCerts
           /\ Normal(C!Normalise(c))
<1>. DEFINE g1 == [c.g EXCEPT !.backlog = IF @ = "a" THEN "default" ELSE @,
                              !.metrics_query_timeout = IF @ = "a" THEN "b" ELSE @]
            g2 == C!Certs(g1, "metrics_ca_file", "metrics_cert_file", "metrics_key_file")
            g3 == C!Certs(g2, "history_ca_file", "history_cert_file", "history_key_file")
<1>0. c.g \in [C!Field -> C!Value] /\ "backlog" \in C!Field /\ "metrics_query_timeout" \in C!Field
  BY KeyFacts DEF Structures, Rewritten
<1>1. /\ g1 \in [C!Field -> C!Value] /\ g1["backlog"] # "a" /\ g1["metrics_query_timeout"] # "a"
      /\ \A k \in C!Field : g1[k] = c.g[k] \/ (k \in {"backlog", "metrics_query_timeout"} /\ c.g[k] = "a")
  BY <1>0 DEF C!Value
<1>. HIDE DEF g1
<1>2. g2 \in [C!Field -> C!Value] /\ \A k \in C!Field : g2[k] = g1[k] \/ (~ certs /\ k \in MetricsCerts)
  BY <1>1, CertsKeep DEF MetricsCerts
<1>. HIDE DEF g2
<1>3. g3 \in [C!Field -> C!Value] /\ \A k \in C!Field : g3[k] = g2[k] \/ (~ certs /\ k \in HistoryCerts)
  BY <1>2, CertsKeep DEF HistoryCerts
<1>. HIDE DEF g3
<1>4. C!Normalise(c) = [c EXCEPT !.g = g3]
  BY DEF C!Normalise, g1, g2, g3
<1>5. C!Normalise(c) \in Structures /\ C!Normalise(c).servers = c.servers /\ C!Normalise(c).g = g3
  BY <1>3, <1>4 DEF Structures
<1>6. g3["backlog"] = g1["backlog"] /\ g3["metrics_query_timeout"] = g1["metrics_query_timeout"]
  BY <1>0, <1>2, <1>3 DEF MetricsCerts, HistoryCerts
<1>7. \A k \in C!Field : \/ g3[k] = c.g[k]
                         \/ k \in {"backlog", "metrics_query_timeout"} /\ c.g[k] = "a"
                         \/ ~ certs /\ k \in MetricsCerts \cup HistoryCerts
  BY <1>1, <1>2, <1>3
<1>. QED
  BY <1>1, <1>5, <1>6, <1>7 DEF Normal

LEMMA NormalisedValid ==
    ASSUME NEW c \in Structures, C!Valid(c)
    PROVE  C!Valid(C!Normalise(c))
<1>1. \A k \in ValidKeys : k \in C!Field /\ k \notin Rewritten
  BY KeyFacts DEF ValidKeys, Rewritten, MetricsCerts, HistoryCerts
<1>2. \A k \in ValidKeys : C!Normalise(c).g[k] = c.g[k]
  BY <1>1, Normalised DEF Rewritten
<1>. QED
  BY <1>2, Normalised, ValidDepends

\* What a reload reads is a structure; a valid one is usable once it is normalised.
LEMMA Loads ==
    ASSUME NEW f \in Files
    PROVE  /\ C!Load(f) \in Structures /\ Len(C!Load(f).servers) = Len(f.servers)
           /\ \A k \in C!Key \ C!Loaded : C!Load(f).g[k] = C!StoredOrAbsent(C!GlobalKeys[k], f.g[k])
           /\ C!Load(f).g["users"] = f.users
           /\ C!Load(f).servers = [i \in DOMAIN f.servers |-> C!ReadServer(f.servers[i])]
<1>. DEFINE g0 == [k \in C!Field |-> IF k \in C!Key THEN C!StoredOrAbsent(C!GlobalKeys[k], f.g[k]) ELSE "default"]
            ss == [i \in DOMAIN f.servers |-> C!ReadServer(f.servers[i])]
            g1 == [g0 EXCEPT !.users = f.users, !.admins = "a", !.prometheus = "a", !.metric_names = "a"]
<1>0. f.servers \in Seq([C!SKey -> Texts]) /\ f.users \in {"a", "b"}
  BY DEF Files
<1>1. g0 \in [C!Field -> C!Value]
  <2>1. "default" \in C!Value
    BY DEF C!Value
  <2>. QED
    BY <2>1, ConvertedValue
<1>2. ss \in Seq([C!SKey -> C!Value]) /\ Len(ss) = Len(f.servers)
  <2>1. \A s : C!ReadServer(s) \in [C!SKey -> C!Value]
    BY ConvertedValue DEF C!ReadServer
  <2>2. DOMAIN f.servers = 1 .. Len(f.servers) /\ Len(f.servers) \in Nat
    BY <1>0, LenProperties
  <2>. QED
    BY <2>1, <2>2, IsASeq
<1>5. \A k \in C!Key : g0[k] = C!StoredOrAbsent(C!GlobalKeys[k], f.g[k])
  BY DEF C!Field
<1>. HIDE DEF g0, ss
<1>6. g1["users"] = f.users /\ \A k \in C!Key \ C!Loaded : g1[k] = g0[k]
  BY <1>1 DEF C!Field, C!Loaded
<1>3. g1 \in [C!Field -> C!Value]
  <2>1. f.users \in C!Value /\ "a" \in C!Value
    BY <1>0 DEF C!Value
  <2>. QED
    BY <1>1, <2>1
<1>4. C!Load(f) = [g |-> g1, servers |-> ss]
  <2>. DEFINE c == C!ReadFile(f)
  <2>1. c = [g |-> g0, servers |-> ss]
    BY DEF C!ReadFile, g0, ss, C!Field
  <2>2. C!Load(f) = [c EXCEPT !.g = [c.g EXCEPT !.users = f.users, !.admins = "a",
                                                !.prometheus = "a", !.metric_names = "a"]]
    BY DEF C!Load
  <2>. HIDE DEF c
  <2>3. c.g = g0
    BY <2>1
  <2>4. C!Load(f) = [c EXCEPT !.g = g1]
    BY <2>2, <2>3
  <2>. HIDE DEF g1
  <2>. QED
    BY <2>1, <2>4
<1>. HIDE DEF g1
<1>7. C!Load(f) \in Structures /\ C!Load(f).g = g1 /\ C!Load(f).servers = ss
  BY <1>2, <1>3, <1>4 DEF Structures
<1>. QED
  BY <1>2, <1>5, <1>6, <1>7 DEF ss

LEMMA NormalUsable ==
    ASSUME NEW c \in Structures, C!Valid(c), Len(c.servers) <= 2
    PROVE  Usable(C!Normalise(c))
<1>1. Len(c.servers) \in 1 .. 2
  <2>. DEFINE n == Len(c.servers)
  <2>1. n \in Nat
    BY LenProperties DEF Structures
  <2>2. n > 0 /\ n <= 2
    BY DEF C!Valid, C!ServersValid
  <2>. HIDE DEF n
  <2>3. n \in 1 .. 2
    BY <2>1, <2>2
  <2>. QED
    BY <2>3 DEF n
<1>. QED
  BY <1>1, Normalised, NormalisedValid DEF Usable, Sized

\* The conversions of the keys a file must have.
LEMMA Kinds ==
    /\ C!GlobalKeys["host"] = "string" /\ C!GlobalKeys["metrics"] = "int"
    /\ C!GlobalKeys["unix_socket_dir"] = "dir"
    /\ {"host", "metrics", "unix_socket_dir", "bridge", "bridge_json", "log_level", "log_type", "log_mode"}
          \subseteq C!Key \ C!Loaded
<1>1. \A t \in C!KeyTables : ("host" \in DOMAIN t \/ "metrics" \in DOMAIN t) => t = C!NetworkKeys
  BY DEF C!KeyTables, C!NetworkKeys, C!BridgeKeys, C!HistoryKeys, C!BridgeHistoryKeys, C!TlsKeys,
         C!LoggingKeys, C!SystemKeys, C!MetricKeys
<1>2. \A t \in C!KeyTables : "unix_socket_dir" \in DOMAIN t => t = C!SystemKeys
  BY DEF C!KeyTables, C!NetworkKeys, C!BridgeKeys, C!HistoryKeys, C!BridgeHistoryKeys, C!TlsKeys,
         C!LoggingKeys, C!SystemKeys, C!MetricKeys
<1>3. C!NetworkKeys \in C!KeyTables /\ C!SystemKeys \in C!KeyTables
  BY DEF C!KeyTables
<1>4. "host" \in DOMAIN C!NetworkKeys /\ "metrics" \in DOMAIN C!NetworkKeys
      /\ C!NetworkKeys["host"] = "string" /\ C!NetworkKeys["metrics"] = "int"
  BY DEF C!NetworkKeys
<1>5. "unix_socket_dir" \in DOMAIN C!SystemKeys /\ C!SystemKeys["unix_socket_dir"] = "dir"
  BY DEF C!SystemKeys
<1>6. {"host", "metrics", "unix_socket_dir", "bridge", "bridge_json", "log_level", "log_type", "log_mode"}
         \subseteq C!Key \ C!Loaded
  BY KeyFacts DEF C!Field, ValidKeys, C!Loaded
<1>7. /\ (CHOOSE t \in C!KeyTables : "host" \in DOMAIN t) = C!NetworkKeys
      /\ (CHOOSE t \in C!KeyTables : "metrics" \in DOMAIN t) = C!NetworkKeys
      /\ (CHOOSE t \in C!KeyTables : "unix_socket_dir" \in DOMAIN t) = C!SystemKeys
  BY <1>1, <1>2, <1>3, <1>4, <1>5
<1>. QED
  BY <1>4, <1>5, <1>6, <1>7 DEF C!GlobalKeys

\* The copy a "conf set" works on, and what it makes of it.
LEMMA Changes ==
    ASSUME NEW c, Sized(c), NEW r \in C!Request, C!Known(r)
    PROVE  /\ C!Changed(c, r) \in Structures
           /\ Len(C!Changed(c, r).servers) = Len(c.servers)
           /\ \A k \in C!Field : \/ C!Changed(c, r).g[k] = c.g[k]
                                 \/ r.server = 0 /\ k = r.key
                                 \/ r.key = "metrics_path" /\ k \in {"prometheus", "metric_names"}
           /\ \A i \in DOMAIN c.servers, k \in C!SKey :
                 \/ C!Changed(c, r).servers[i][k] = c.servers[i][k]
                 \/ r.server = i /\ k = r.key
<1>. DEFINE h == c.g
<1>0. c \in Structures /\ c.g \in [C!Field -> C!Value] /\ c.servers \in Seq([C!SKey -> C!Value])
      /\ Len(c.servers) \in 1 .. 2
  BY DEF Sized, Structures
<1>1. h \in [C!Field -> C!Value]
  BY <1>0
<1>. HIDE DEF h
<1>3. c.g = h
  BY DEF h
<1>4. CASE r.server = 0
  <2>. DEFINE v == C!SetValue(r.key, r.text)
              h1 == [h EXCEPT ![r.key] = v, !.prometheus = "b", !.metric_names = "b"]
              h2 == [h EXCEPT ![r.key] = v]
              e == IF r.key = "metrics_path" /\ r.text # "empty" THEN h1 ELSE h2
  <2>1. C!Changed(c, r) = [c EXCEPT !.g = e]
    BY <1>3, <1>4 DEF C!Changed, C!SetGlobal
  <2>2. v \in C!Value /\ "b" \in C!Value
    BY ConvertedValue DEF C!SetValue, C!Value
  <2>. HIDE DEF v
  <2>3. h2 \in [C!Field -> C!Value] /\ \A k \in C!Field : h2[k] = h[k] \/ k = r.key
    BY <1>1, <2>2
  <2>4. h1 = [[h2 EXCEPT !.prometheus = "b"] EXCEPT !.metric_names = "b"]
    OBVIOUS
  <2>. HIDE DEF h1, h2
  <2>5. h1 \in [C!Field -> C!Value] /\ \A k \in C!Field : h1[k] = h2[k] \/ k \in {"prometheus", "metric_names"}
    BY <2>2, <2>3, <2>4
  <2>6. /\ e \in [C!Field -> C!Value]
        /\ \A k \in C!Field : \/ e[k] = h[k] \/ k = r.key
                              \/ r.key = "metrics_path" /\ k \in {"prometheus", "metric_names"}
    <3>1. CASE r.key = "metrics_path" /\ r.text # "empty"
      BY <2>3, <2>5, <3>1
    <3>2. CASE ~ (r.key = "metrics_path" /\ r.text # "empty")
      BY <2>3, <3>2
    <3>. QED
      BY <3>1, <3>2
  <2>. HIDE DEF e
  <2>7. C!Changed(c, r) \in Structures /\ C!Changed(c, r).g = e /\ C!Changed(c, r).servers = c.servers
    BY <1>0, <1>3, <2>1, <2>6 DEF Structures
  <2>. QED
    BY <1>1, <1>3, <1>4, <2>6, <2>7
<1>5. CASE r.server # 0
  <2>1. r.server = 1
    BY <1>5 DEF C!Request
  <2>. DEFINE v == C!Stored(C!ServerKeys[r.key], r.text)
              s1 == [c.servers[1] EXCEPT ![r.key] = v]
              ss == [c.servers EXCEPT ![1] = s1]
  <2>2. C!Changed(c, r) = [c EXCEPT !.servers = ss]
    BY <1>3, <2>1 DEF C!Changed, C!SetServer
  <2>3. v \in C!Value
    BY ConvertedValue
  <2>4. 1 \in 1 .. Len(c.servers) /\ DOMAIN c.servers = 1 .. Len(c.servers)
    <3>. DEFINE n == Len(c.servers)
    <3>1. n \in 1 .. 2
      BY <1>0
    <3>2. DOMAIN c.servers = 1 .. n
      BY <1>0, LenProperties
    <3>. HIDE DEF n
    <3>3. 1 \in 1 .. n
      BY <3>1
    <3>. QED
      BY <3>2, <3>3 DEF n
  <2>5. c.servers[1] \in [C!SKey -> C!Value]
    BY <1>0, <2>4, ElementOfSeq
  <2>. HIDE DEF v
  <2>6. s1 \in [C!SKey -> C!Value] /\ \A k \in C!SKey : s1[k] = c.servers[1][k] \/ k = r.key
    BY <2>3, <2>5
  <2>. HIDE DEF s1
  <2>7. ss \in Seq([C!SKey -> C!Value]) /\ Len(ss) = Len(c.servers) /\ ss[1] = s1
        /\ \A i \in DOMAIN c.servers : i # 1 => ss[i] = c.servers[i]
    BY <1>0, <2>4, <2>6, ExceptSeq
  <2>. HIDE DEF ss
  <2>8. C!Changed(c, r) \in Structures /\ C!Changed(c, r).g = h /\ C!Changed(c, r).servers = ss
    BY <1>0, <1>3, <2>2, <2>7 DEF Structures
  <2>. QED
    BY <1>1, <1>3, <2>1, <2>6, <2>7, <2>8
<1>. QED
  BY <1>4, <1>5

LEMMA InitConf == C!Init => ConfInv
<1>. SUFFICES ASSUME C!Init PROVE ConfInv
  OBVIOUS
<1>. DEFINE f  == C!StartFile
            sv == [k \in C!SKey |-> IF k \in {"host", "port", "user", "type"} THEN "a" ELSE "absent"]
<1>1. sv \in [C!SKey -> Texts]
  BY DEF Texts, C!Text
<1>2. f.servers = << sv >> /\ f.users = "a" /\ f.g \in [C!Key -> Texts]
      /\ f \in [g : [C!Key -> Texts], servers : {<< sv >>}, users : {"a", "b"},
               names : {"distinct", "reserved", "duplicate"}]
  BY DEF C!StartFile, Texts, C!Text
<1>3. << sv >> \in Seq([C!SKey -> Texts]) /\ Len(<< sv >>) = 1 /\ << sv >>[1] = sv
      /\ DOMAIN << sv >> = {1}
  BY <1>1
<1>4. f \in Files
  BY <1>2, <1>3 DEF Files
<1>5. /\ f.g["host"] = "a" /\ f.g["metrics"] = "a" /\ f.g["unix_socket_dir"] = "a"
      /\ f.g["bridge_json"] = "absent"
      /\ \A k \in {"log_level", "log_type", "log_mode"} : f.g[k] = "absent"
  BY Kinds DEF C!StartFile
<1>. HIDE DEF f
<1>. DEFINE c == C!Load(f)
<1>6. c \in Structures /\ Len(c.servers) = 1 /\ c.g["users"] = "a"
      /\ c.servers = [i \in DOMAIN f.servers |-> C!ReadServer(f.servers[i])]
      /\ \A k \in C!Key \ C!Loaded : c.g[k] = C!StoredOrAbsent(C!GlobalKeys[k], f.g[k])
  BY <1>2, <1>3, <1>4, Loads
<1>7. C!Valid(c)
  <2>1. c.g["host"] = "a" /\ c.g["metrics"] = "a" /\ c.g["unix_socket_dir"] = "a"
    BY <1>5, <1>6, Kinds DEF C!StoredOrAbsent, C!Stored
  <2>2. c.g["bridge_json"] = "default" /\ \A k \in {"log_level", "log_type", "log_mode"} : c.g[k] = "default"
    BY <1>5, <1>6, Kinds DEF C!StoredOrAbsent
  <2>3. DOMAIN c.servers = {1} /\ c.servers[1] = C!ReadServer(sv)
    BY <1>2, <1>3, <1>6
  <2>4. /\ C!ReadServer(sv)["host"] = "a" /\ C!ReadServer(sv)["port"] = "a"
        /\ C!ReadServer(sv)["type"] = "a" /\ C!ReadServer(sv)["user"] = "a"
    BY KeyFacts DEF C!ReadServer, C!StoredOrAbsent, C!Stored, C!ServerKeys
  <2>5. C!ServersValid(c)
    BY <1>6, <2>3, <2>4 DEF C!ServersValid, C!KnownUser
  <2>6. C!PortsValid(c) /\ C!EnumsValid(c)
    BY <2>1, <2>2 DEF C!PortsValid, C!EnumsValid
  <2>. QED
    BY <1>6, <2>1, <2>5, <2>6 DEF C!Valid
<1>. HIDE DEF c
<1>. DEFINE al == IF c.g.alerts \in {"default", "b"} THEN "default" ELSE "a"
            d  == [c EXCEPT !.g = [c.g EXCEPT !.alert_definitions = al]]
<1>8. C!StartUp(f) = C!Normalise(d)
  BY DEF C!StartUp, c
<1>9. d \in Structures /\ d.servers = c.servers /\ (\A k \in C!Field : d.g[k] = c.g[k] \/ k = "alert_definitions")
  <2>1. al \in C!Value
    BY DEF C!Value
  <2>. HIDE DEF al
  <2>2. c.g \in [C!Field -> C!Value]
    BY <1>6 DEF Structures
  <2>. DEFINE e == [c.g EXCEPT !.alert_definitions = al]
  <2>3. e \in [C!Field -> C!Value] /\ \A k \in C!Field : e[k] = c.g[k] \/ k = "alert_definitions"
    BY <2>1, <2>2
  <2>4. d = [c EXCEPT !.g = e]
    OBVIOUS
  <2>. HIDE DEF e
  <2>. QED
    BY <1>6, <2>3, <2>4 DEF Structures
<1>. HIDE DEF d
<1>10. C!Valid(d)
  <2>1. \A k \in ValidKeys : d.g[k] = c.g[k]
    BY <1>9, KeyFacts DEF ValidKeys
  <2>. QED
    BY <1>7, <1>9, <2>1, ValidDepends
<1>11. Usable(config)
  <2>. DEFINE n == Len(d.servers)
  <2>0. n = 1
    BY <1>6, <1>9
  <2>. HIDE DEF n
  <2>1. n <= 2
    BY <2>0
  <2>. QED
    BY <1>8, <1>9, <1>10, <2>1, NormalUsable DEF C!Init, f, n
<1>12. BoundLike(config)
  <2>1. \A k \in C!BoundAtStart : k \in C!Field /\ k \in C!Key \ C!Loaded
                                  /\ k \notin Rewritten /\ k # "alert_definitions"
    <3>1. C!BoundAtStart \subseteq C!RestartKeys
      BY DEF C!BoundAtStart, C!RestartKeys
    <3>2. \A k \in C!BoundAtStart : k \notin Rewritten /\ k \notin C!Loaded /\ k # "alert_definitions"
      BY DEF C!BoundAtStart, Rewritten, MetricsCerts, HistoryCerts, C!Loaded
    <3>. QED
      BY <3>1, <3>2, KeyFacts DEF C!Field
  <2>2. \A k \in C!BoundAtStart : C!Normalise(d).g[k] = d.g[k]
    BY <1>9, <2>1, Normalised DEF Rewritten
  <2>3. \A k \in C!BoundAtStart : d.g[k] = C!StoredOrAbsent(C!GlobalKeys[k], f.g[k])
    BY <1>6, <1>9, <2>1
  <2>4. \A k \in C!Key : C!AtStart.g[k] = C!StoredOrAbsent(C!GlobalKeys[k], f.g[k])
    BY DEF C!AtStart, C!ReadFile, C!Field, f
  <2>. QED
    BY <1>8, <2>1, <2>2, <2>3, <2>4 DEF C!Init, BoundLike, f
<1>13. FirstServer(config)
  <2>1. C!AtStart.servers = c.servers
    BY <1>6 DEF C!AtStart, C!ReadFile, f
  <2>2. config.servers = c.servers
    BY <1>8, <1>9, Normalised DEF C!Init, f
  <2>. QED
    BY <2>1, <2>2 DEF FirstServer, C!SameServer
<1>14. job \in [C!Process -> Jobs] /\ \A p \in C!Process : job[p].pc = "idle" /\ ~ job[p].alone
  <2>1. C!Idle \in Jobs /\ C!Idle.pc = "idle" /\ ~ C!Idle.alone
    BY DEF C!Idle, Jobs, Answers, C!Value
  <2>. QED
    BY <2>1 DEF C!Init
<1>15. Len(file.servers) <= 2 /\ file \in Files
  BY <1>2, <1>3, <1>4 DEF C!Init, f
<1>16. ConfTypes
  <2>1. scope \in Scopes /\ certs \in BOOLEAN /\ foreign \subseteq C!Process /\ mixed \in BOOLEAN
    BY DEF C!Init
  <2>2. edits \in 0 .. MaxEdits
    BY ProcessesAssumption DEF C!Init
  <2>3. Sized(config) /\ Normal(config)
    BY <1>11 DEF Usable
  <2>. QED
    BY <1>14, <1>15, <2>1, <2>2, <2>3 DEF ConfTypes
<1>17. \A p \in C!Process : job[p].pc \notin Copying \cup C!Decided \cup C!Blocks
  BY <1>14 DEF Copying, C!Decided, C!Blocks, C!CopyBlocks
<1>18. \A p \in C!Process : CopyInv(job[p], config) /\ NewInv(p, job[p]) /\ DoneInv(job[p], config)
  BY <1>14, <1>17 DEF CopyInv, NewInv, DoneInv
<1>19. AloneInv
  <2>1. "main" \in C!Process
    BY DEF C!Process
  <2>. QED
    BY <1>11, <1>14, <1>17, <1>18, <2>1 DEF AloneInv, Usable
<1>20. LiveInv(config)
  <2>1. ServersProper(config)
    BY <1>11 DEF Usable, C!Valid, C!ServersValid, ServersProper
  <2>2. C!EnumsValid(config) /\ config.g["users"] # "default"
    BY <1>11 DEF Usable, C!Valid
  <2>. QED
    BY <1>12, <1>13, <2>1, <2>2 DEF LiveInv
<1>. QED
  BY <1>16, <1>18, <1>19, <1>20 DEF ConfInv

\* Which keys are where.
LEMMA BlockFacts ==
    /\ C!ValueKeys \cup C!MetricsKeys \cup C!AlertKeys \cup {"users"} = C!Field
    /\ C!LogGroup \subseteq C!ValueKeys
    /\ ValidKeys \ {"users"} \subseteq C!ValueKeys \ Left
    /\ C!BoundAtStart \subseteq C!ValueKeys \cap C!RestartKeys
    /\ "users" \notin Left /\ "admins" \notin Left
    /\ {"backlog", "metrics_query_timeout"} \subseteq C!ValueKeys
    /\ Left \subseteq C!Field
<1>1. C!MetricsKeys \cup C!AlertKeys \cup {"users"} \subseteq C!Field
  <2>1. "alerts_path" \in DOMAIN C!BridgeHistoryKeys /\ "bridge_endpoints" \in DOMAIN C!BridgeKeys
        /\ C!BridgeHistoryKeys \in C!KeyTables /\ C!BridgeKeys \in C!KeyTables
    BY DEF C!BridgeHistoryKeys, C!BridgeKeys, C!KeyTables
  <2>2. "alerts_path" \in C!Key /\ "bridge_endpoints" \in C!Key
    BY <2>1 DEF C!Key
  <2>. QED
    BY <2>2, KeyFacts DEF C!MetricsKeys, C!AlertKeys, C!Field, C!Loaded
<1>2. C!LogGroup \cup (ValidKeys \ {"users"}) \cup C!BoundAtStart \cup {"backlog", "metrics_query_timeout"}
          \subseteq C!Field
  <2>1. C!BoundAtStart \subseteq C!RestartKeys
    BY DEF C!BoundAtStart, C!RestartKeys
  <2>. QED
    BY <2>1, KeyFacts DEF Rewritten
<1>3. \A k \in C!LogGroup \cup (ValidKeys \ {"users"}) \cup C!BoundAtStart \cup {"backlog", "metrics_query_timeout"} :
          k \notin C!MetricsKeys \cup C!AlertKeys \cup {"users"}
  BY DEF C!LogGroup, C!LogTriggers, ValidKeys, C!BoundAtStart, C!MetricsKeys, C!AlertKeys
<1>4. C!LogGroup \cup (ValidKeys \ {"users"}) \cup C!BoundAtStart \cup {"backlog", "metrics_query_timeout"}
          \subseteq C!ValueKeys
  BY <1>2, <1>3 DEF C!ValueKeys
<1>5. \A k \in ValidKeys \cup {"users", "admins"} : k \notin Left
  BY DEF ValidKeys, Left, C!NotTransferred
<1>6. C!BoundAtStart \subseteq C!RestartKeys
  BY DEF C!BoundAtStart, C!RestartKeys
<1>7. Left \subseteq C!Field
  BY KeyFacts DEF Left, C!LogGroup
<1>. QED
  BY <1>1, <1>4, <1>5, <1>6, <1>7 DEF C!ValueKeys

\* What one block of a transfer does.
Wrote(w, live, new, b) ==
    /\ Sized(w)
    /\ \A k \in C!Field : \/ w.g[k] \in {live.g[k], new.g[k]}
                          \/ k \in C!Cleared(b) /\ w.g[k] = "default"
    /\ \A k \in C!Field \ (C!BlockKeys(b) \cup C!Cleared(b)) : w.g[k] = live.g[k]
    /\ \A k \in C!BlockKeys(b) \ Left : w.g[k] = new.g[k]
    /\ \A k \in C!NotTransferred : w.g[k] = live.g[k]
    /\ b = "servers" => w.servers = new.servers
    /\ b = "clear_servers" => /\ DOMAIN w.servers = DOMAIN live.servers
                              /\ Len(w.servers) = Len(live.servers)
                              /\ \A i \in DOMAIN w.servers : w.servers[i] = C!NoServer
    /\ b \notin {"servers", "clear_servers"} => w.servers = live.servers

LEMMA Writes ==
    ASSUME NEW live, NEW new, Sized(live), Sized(new), NEW b \in C!Blocks
    PROVE  Wrote(C!Write(live, new, b), live, new, b)
<1>. DEFINE T  == C!Transferred(live, new)
            M  == C!BlockKeys(b) \cap T
            G  == C!Cleared(b)
            t  == [k \in DOMAIN live.g |-> IF k \in G THEN "default" ELSE IF k \in M THEN new.g[k] ELSE live.g[k]]
            ss == CASE b = "clear_servers" -> [i \in DOMAIN live.servers |-> C!NoServer]
                    [] b = "servers"       -> new.servers
                    [] OTHER               -> live.servers
            w  == C!Write(live, new, b)
<1>0. live.g \in [C!Field -> C!Value] /\ new.g \in [C!Field -> C!Value] /\ DOMAIN live.g = C!Field
      /\ live.servers \in Seq([C!SKey -> C!Value]) /\ new.servers \in Seq([C!SKey -> C!Value])
      /\ Len(live.servers) \in 1 .. 2 /\ Len(new.servers) \in 1 .. 2
  BY DEF Sized, Structures
<1>1. w = [g |-> t, servers |-> ss]
  BY DEF C!Write
<1>2. /\ t \in [C!Field -> C!Value]
      /\ \A k \in C!Field : t[k] = IF k \in G THEN "default" ELSE IF k \in M THEN new.g[k] ELSE live.g[k]
  <2>1. "default" \in C!Value
    BY DEF C!Value
  <2>. QED
    BY <1>0, <2>1
<1>3. /\ b = "servers" => ss = new.servers
      /\ b = "clear_servers" => ss = [i \in DOMAIN live.servers |-> C!NoServer]
      /\ b \notin {"servers", "clear_servers"} => ss = live.servers
  OBVIOUS
<1>4. /\ ss \in Seq([C!SKey -> C!Value]) /\ Len(ss) \in 1 .. 2
      /\ b = "clear_servers" => Len(ss) = Len(live.servers) /\ DOMAIN ss = DOMAIN live.servers
  <2>1. CASE b = "clear_servers"
    <3>1. C!NoServer \in [C!SKey -> C!Value]
      BY DEF C!NoServer, C!Value
    <3>2. DOMAIN live.servers = 1 .. Len(live.servers) /\ Len(live.servers) \in Nat
      BY <1>0, LenProperties
    <3>. HIDE DEF ss
    <3>3. ss = [i \in 1 .. Len(live.servers) |-> C!NoServer]
      BY <1>3, <2>1, <3>2
    <3>4. ss \in Seq([C!SKey -> C!Value]) /\ Len(ss) = Len(live.servers) /\ DOMAIN ss = 1 .. Len(live.servers)
      BY <3>1, <3>2, <3>3, IsASeq
    <3>. QED
      BY <1>0, <3>2, <3>4
  <2>2. CASE b # "clear_servers"
    BY <1>0, <1>3, <2>2
  <2>. QED
    BY <2>1, <2>2
<1>. HIDE DEF t, ss
<1>5. w.g = t /\ w.servers = ss /\ Sized(w)
  BY <1>1, <1>2, <1>4 DEF Sized, Structures
<1>. HIDE DEF w
<1>6. \A k \in C!BlockKeys(b) \ Left : k \in C!Field /\ t[k] = new.g[k]
  <2>. TAKE k \in C!BlockKeys(b) \ Left
  <2>1. k \in C!Field /\ k \notin G /\ k \notin C!NotTransferred
    BY BlockFacts DEF C!BlockKeys, C!Blocks, C!Cleared, C!MetricsKeys, C!AlertKeys, C!ValueKeys, Left
  <2>2. CASE k \notin C!LogGroup
    <3>1. k \in T
      BY <1>0, <2>1, <2>2 DEF C!Transferred
    <3>. QED
      BY <1>2, <2>1, <3>1
  <2>3. CASE k \in C!LogTriggers
    <3>1. CASE \E l \in C!LogTriggers : live.g[l] # new.g[l]
      <4>1. k \in T
        BY <2>3, <3>1 DEF C!Transferred, C!LogGroup
      <4>. QED
        BY <1>2, <2>1, <4>1
    <3>2. CASE \A l \in C!LogTriggers : live.g[l] = new.g[l]
      BY <1>2, <2>1, <2>3, <3>2
    <3>. QED
      BY <3>1, <3>2
  <2>. QED
    BY <2>1, <2>2, <2>3 DEF C!LogGroup, Left
<1>7. \A k \in C!NotTransferred : k \in C!Field /\ t[k] = live.g[k]
  <2>1. \A k \in C!NotTransferred : k \in C!Field /\ k \notin C!LogGroup /\ k \notin G
    BY KeyFacts DEF C!NotTransferred, C!LogGroup, C!LogTriggers, C!Cleared
  <2>2. \A k \in C!NotTransferred : k \notin T
    BY <2>1 DEF C!Transferred
  <2>. QED
    BY <1>2, <2>1, <2>2
<1>8. \A k \in C!Field : t[k] \in {live.g[k], new.g[k]} \/ (k \in G /\ t[k] = "default")
  BY <1>2
<1>9. \A k \in C!Field \ (C!BlockKeys(b) \cup G) : t[k] = live.g[k]
  BY <1>2
<1>10. b = "clear_servers" => \A i \in DOMAIN ss : ss[i] = C!NoServer
  BY <1>3
<1>. QED
  BY <1>3, <1>4, <1>5, <1>6, <1>7, <1>8, <1>9, <1>10 DEF Wrote, w

LEMMA PcFacts ==
    /\ Copying \cap C!Blocks = {} /\ Copying \cap C!Decided = {} /\ C!Blocks \subseteq C!Decided
    /\ \A x \in {"idle", "done", "died", "exited"} : x \notin Copying \cup C!Decided
    /\ "servers" \in C!Blocks /\ "users" \in C!Blocks /\ "metrics" \in C!Blocks
    /\ "check" \in C!Decided \ C!Blocks /\ "answer" \in C!Decided \ C!Blocks
    /\ "main" \in C!Process /\ Setter \subseteq C!Process
BY DEF Copying, C!Blocks, C!Decided, C!CopyBlocks, C!Process

\* A step of p that writes nothing: it comes from no block, or dies at the query trees.
LEMMA QuietStep ==
    ASSUME ConfInv, NEW p \in C!Process, NEW x \in Jobs, job' = [job EXCEPT ![p] = x],
           UNCHANGED << scope, file, certs, edits, config, mixed >>,
           foreign' \subseteq C!Process, "main" \in foreign' => "main" \in foreign,
           x.pc \notin C!Blocks, job[p].pc \notin C!Blocks \/ job[p].pc = "metrics",
           CopyInv(x, config), NewInv(p, x)
    PROVE  ConfInv'
<1>0. job'[p] = x /\ (\A q \in C!Process \ {p} : job'[q] = job[q]) /\ job' \in [C!Process -> Jobs]
  BY DEF ConfInv, ConfTypes
<1>1. ConfTypes'
  BY <1>0 DEF ConfInv, ConfTypes
<1>2. \A q \in C!Process : CopyInv(job[q], config)' /\ NewInv(q, job[q])'
  <2>. TAKE q \in C!Process
  <2>1. CASE q = p
    BY <1>0, <2>1 DEF CopyInv, NewInv, OwnChange, C!SideEffects
  <2>2. CASE q # p
    <3>1. CopyInv(job[q], config) /\ NewInv(q, job[q]) /\ job'[q] = job[q]
      BY <1>0, <2>2 DEF ConfInv
    <3>. QED
      BY <3>1 DEF CopyInv, NewInv, OwnChange, C!SideEffects
  <2>. QED
    BY <2>1, <2>2
<1>3. \A q \in C!Process : job'[q].pc \in C!Blocks => job'[q] = job[q] /\ q # p
  BY <1>0
<1>4. AloneInv'
  <2>. SUFFICES ASSUME ~ mixed
                PROVE  /\ \A q, r \in C!Process : job'[q].pc \in C!Blocks /\ job'[r].pc \in C!Blocks => q = r
                       /\ \A q \in C!Process : DoneInv(job'[q], config)
                       /\ C!Transferring' = {} => C!Valid(config)
                       /\ job'["main"].pc = "alerts" => "main" \notin foreign'
    BY DEF AloneInv
  <2>1. \A q, r \in C!Process : job'[q].pc \in C!Blocks /\ job'[r].pc \in C!Blocks => q = r
    BY <1>3 DEF ConfInv, AloneInv
  <2>2. \A q \in C!Process : DoneInv(job'[q], config)
    BY <1>3 DEF ConfInv, AloneInv, DoneInv
  <2>3. C!Transferring' = {} => C!Valid(config)
    <3>1. CASE C!Transferring = {}
      BY <3>1 DEF ConfInv, AloneInv
    <3>2. ASSUME C!Transferring # {}, C!Transferring' = {} PROVE C!Valid(config)
      <4>1. PICK q \in C!Process : job[q].pc \in C!Blocks
        BY <3>2 DEF C!Transferring
      <4>2. q = p
        BY <1>0, <3>2, <4>1 DEF C!Transferring
      <4>3. job[p].pc = "metrics"
        BY <4>1, <4>2
      <4>4. DoneInv(job[p], config) /\ Usable(job[p].new)
        BY <4>1, <4>2, PcFacts DEF ConfInv, AloneInv, NewInv
      <4>5. config.servers = job[p].new.servers
        BY <4>3, <4>4, PcFacts DEF DoneInv
      <4>6. \A k \in ValidKeys : k \in DoneKeys("metrics") \ Left
        BY BlockFacts DEF DoneKeys
      <4>7. \A k \in ValidKeys : config.g[k] = job[p].new.g[k]
        BY <4>3, <4>4, <4>6, PcFacts DEF DoneInv
      <4>. QED
        BY <4>4, <4>5, <4>7, ValidDepends DEF Usable
    <3>. QED
      BY <3>1, <3>2
  <2>4. job'["main"].pc = "alerts" => "main" \notin foreign'
    <3>1. "alerts" \in C!Blocks
      BY DEF C!Blocks
    <3>. QED
      BY <1>3, <3>1, PcFacts DEF ConfInv, AloneInv
  <2>. QED
    BY <2>1, <2>2, <2>3, <2>4
<1>5. LiveInv(config)'
  <2>1. C!Unfilled("users") => C!Unfilled("users")'
    BY <1>0, PcFacts DEF C!Unfilled
  <2>2. C!Unfilled("servers") => C!Unfilled("servers")'
    BY <1>0, PcFacts DEF C!Unfilled
  <2>. QED
    BY <2>1, <2>2 DEF ConfInv, LiveInv
<1>. QED
  BY <1>1, <1>2, <1>4, <1>5 DEF ConfInv

\* The end of a job.
LEMMA Finishes ==
    ASSUME ConfInv, NEW p \in C!Process, NEW b \in {"idle", "done", "died", "exited"}, NEW a \in Answers,
           C!Finish(p, b, a), UNCHANGED << scope, file, certs, edits, config, foreign, mixed >>,
           job[p].pc \notin C!Blocks \/ job[p].pc = "metrics"
    PROVE  ConfInv'
<1>. DEFINE x == [C!Idle EXCEPT !.pc = b, !.request = job[p].request, !.answer = a]
<1>1. job' = [job EXCEPT ![p] = x]
  BY DEF C!Finish
<1>2. job[p].request \in C!Request \cup {<< >>}
  BY DEF ConfInv, ConfTypes, Jobs
<1>3. x \in Jobs /\ x.pc = b /\ ~ x.alone
  BY <1>2 DEF C!Idle, Jobs, C!Value, Answers
<1>. HIDE DEF x
<1>4. CopyInv(x, config) /\ NewInv(p, x) /\ x.pc \notin C!Blocks
  BY <1>3, PcFacts DEF CopyInv, NewInv
<1>5. foreign' \subseteq C!Process
  BY DEF ConfInv, ConfTypes
<1>. QED
  BY <1>1, <1>3, <1>4, <1>5, QuietStep

LEMMA Ends ==
    ASSUME ConfInv, NEW p \in C!Process, NEW a \in Answers, C!End(p, a),
           UNCHANGED << scope, file, certs, edits, config, foreign, mixed >>, job[p].pc \notin C!Blocks
    PROVE  ConfInv'
BY Finishes DEF C!End

LEMMA ConfDies ==
    ASSUME ConfInv, NEW p \in C!Process, C!Dies(p)
    PROVE  ConfInv'
<1>1. job[p].pc \notin C!Blocks \/ job[p].pc = "metrics"
  BY DEF C!Dies, C!Blocks
<1>. QED
  BY <1>1, Finishes DEF C!Dies, Answers

LEMMA ConfAnswers ==
    ASSUME ConfInv, NEW p \in C!Process, C!SetAnswer(p)
    PROVE  ConfInv'
<1>1. C!Answer(job[p].old, C!Shown(config, job[p].request), job[p].request) \in Answers
  BY DEF C!Answer, Answers
<1>. QED
  BY <1>1, Ends, PcFacts DEF C!SetAnswer

LEMMA ConfStarts ==
    ASSUME ConfInv, NEW p \in Setter, NEW r \in C!Request, C!SetStart(p, r)
    PROVE  ConfInv'
<1>. DEFINE al == C!Transferring = {}
            x == [C!Idle EXCEPT !.pc = "copy_values", !.copy = C!Blank, !.request = r, !.alone = al]
<1>1. job' = [job EXCEPT ![p] = x]
  BY DEF C!SetStart
<1>2. C!Blank \in Structures /\ Normal(C!Blank) /\ Len(C!Blank.servers) <= 2
  <2>1. [k \in C!Field |-> "default"] \in [C!Field -> C!Value]
    BY DEF C!Value
  <2>2. << >> \in Seq([C!SKey -> C!Value]) /\ Len(<< >>) = 0
    OBVIOUS
  <2>3. C!Blank.g["backlog"] = "default" /\ C!Blank.g["metrics_query_timeout"] = "default"
    BY KeyFacts DEF C!Blank, Rewritten
  <2>. QED
    BY <2>1, <2>2, <2>3 DEF C!Blank, Structures, Normal
<1>. HIDE DEF al
<1>3. x \in [pc : {"copy_values"}, copy : {C!Blank}, new : {<< >>}, request : {r}, old : {"default"},
             answer : {"none"}, alone : {al}]
  BY DEF C!Idle
<1>4. x \in Jobs /\ x.pc = "copy_values" /\ x.copy = C!Blank /\ x.request = r
  <2>1. al \in BOOLEAN
    BY DEF al
  <2>. QED
    BY <1>2, <1>3, <2>1 DEF Jobs, Answers, C!Value, Copying, C!CopyBlocks
<1>. HIDE DEF x
<1>5. CopyInv(x, config) /\ NewInv(p, x) /\ x.pc \notin C!Blocks
  <2>1. CopiedKeys("copy_values") = {}
    BY DEF CopiedKeys
  <2>2. "copy_values" \in Copying
    BY DEF Copying, C!CopyBlocks
  <2>. QED
    BY <1>2, <1>4, <2>1, <2>2, PcFacts DEF CopyInv, NewInv, NoServersYet
<1>6. foreign' \subseteq C!Process /\ ("main" \in foreign' => "main" \in foreign)
  BY ProcessesAssumption, PcFacts DEF ConfInv, ConfTypes, C!SetStart
<1>7. job[p].pc \notin C!Blocks
  BY DEF C!SetStart, C!Blocks
<1>8. p \in C!Process /\ UNCHANGED << scope, file, certs, edits, config, mixed >>
  BY PcFacts DEF C!SetStart
<1>. QED
  BY <1>1, <1>4, <1>5, <1>6, <1>7, <1>8, QuietStep

\* A block of the copy, alone or not.
LEMMA Copies ==
    ASSUME NEW c \in Structures, NEW live, Sized(live), Normal(c), Normal(live), Len(c.servers) <= 2,
           NEW b \in C!CopyBlocks
    PROVE  LET d == C!Copied(c, live, b) IN
           /\ d \in Structures /\ Normal(d) /\ Len(d.servers) <= 2
           /\ b = "copy_servers" => d.servers = live.servers
           /\ b # "copy_servers" => d.servers = c.servers
           /\ \A k \in C!Field : IF k \in C!CopyKeys(b) \ C!NotCopied THEN d.g[k] = live.g[k]
                                                                     ELSE d.g[k] = c.g[k]
<1>. DEFINE d == C!Copied(c, live, b)
            t == [k \in DOMAIN c.g |-> IF k \in C!CopyKeys(b) \ C!NotCopied THEN live.g[k] ELSE c.g[k]]
            ss == IF b = "copy_servers" THEN live.servers ELSE c.servers
<1>0. c.g \in [C!Field -> C!Value] /\ live.g \in [C!Field -> C!Value] /\ DOMAIN c.g = C!Field
      /\ c.servers \in Seq([C!SKey -> C!Value]) /\ live.servers \in Seq([C!SKey -> C!Value])
  BY DEF Sized, Structures
<1>1. d = [g |-> t, servers |-> ss]
  BY DEF C!Copied
<1>2. t \in [C!Field -> C!Value]
      /\ \A k \in C!Field : t[k] = IF k \in C!CopyKeys(b) \ C!NotCopied THEN live.g[k] ELSE c.g[k]
  BY <1>0
<1>3. ss \in Seq([C!SKey -> C!Value]) /\ Len(ss) <= 2
  <2>. DEFINE n == Len(live.servers)
  <2>0. n \in 1 .. 2
    BY DEF Sized
  <2>. HIDE DEF n
  <2>1. n <= 2
    BY <2>0
  <2>. QED
    BY <1>0, <2>1 DEF n
<1>4. t["backlog"] # "a" /\ t["metrics_query_timeout"] # "a"
  BY <1>2, KeyFacts DEF Rewritten, Normal
<1>5. (b = "copy_servers" => ss = live.servers) /\ (b # "copy_servers" => ss = c.servers)
  OBVIOUS
<1>. HIDE DEF t, ss
<1>6. d.g = t /\ d.servers = ss /\ d \in Structures
  BY <1>1, <1>2, <1>3 DEF Structures
<1>. HIDE DEF d
<1>. QED
  BY <1>2, <1>3, <1>4, <1>5, <1>6 DEF Normal, d

LEMMA ConfCopies ==
    ASSUME ConfInv, NEW p \in C!Process, C!SetCopy(p)
    PROVE  ConfInv'
<1>. DEFINE j == job[p]
            d == C!Copied(j.copy, config, j.pc)
            x == [j EXCEPT !.pc = C!AfterCopy(j.pc), !.copy = d]
<1>0. j \in Jobs /\ j.pc \in C!CopyBlocks /\ j.pc \in Copying
  BY DEF ConfInv, ConfTypes, C!SetCopy, Copying
<1>1. job' = [job EXCEPT ![p] = x]
  BY DEF C!SetCopy
<1>2. /\ j.copy \in Structures /\ Normal(j.copy) /\ Len(j.copy.servers) <= 2 /\ j.request \in C!Request
      /\ j.pc \notin NoServersYet => Len(j.copy.servers) \in 1 .. 2
      /\ j.alone => /\ \A k \in CopiedKeys(j.pc) \ C!NotCopied : j.copy.g[k] = config.g[k]
                    /\ j.pc \notin NoServersYet => j.copy.servers = config.servers
  BY <1>0 DEF ConfInv, CopyInv
<1>3. Sized(config) /\ Normal(config) /\ foreign \subseteq C!Process
  BY DEF ConfInv, ConfTypes
<1>4. /\ d \in Structures /\ Normal(d) /\ Len(d.servers) <= 2
      /\ j.pc = "copy_servers" => d.servers = config.servers
      /\ j.pc # "copy_servers" => d.servers = j.copy.servers
      /\ \A k \in C!Field : IF k \in C!CopyKeys(j.pc) \ C!NotCopied THEN d.g[k] = config.g[k]
                                                                   ELSE d.g[k] = j.copy.g[k]
  BY <1>0, <1>2, <1>3, Copies
<1>5. C!AfterCopy(j.pc) \in Copying /\ C!AfterCopy(j.pc) # "copy_values"
  BY <1>0 DEF C!AfterCopy, C!CopyBlocks, Copying
<1>. HIDE DEF d
<1>6. x \in Jobs /\ x.pc = C!AfterCopy(j.pc) /\ x.copy = d /\ x.request = j.request /\ x.alone = j.alone
  BY <1>0, <1>4, <1>5 DEF Jobs
<1>. HIDE DEF x
<1>7. j.pc = "copy_servers" \/ C!AfterCopy(j.pc) = "copy_servers" \/ j.pc \notin NoServersYet
  BY <1>0 DEF C!AfterCopy, C!CopyBlocks, NoServersYet
<1>8. x.pc \notin NoServersYet => /\ Len(d.servers) \in 1 .. 2
                                  /\ x.alone => d.servers = config.servers
  <2>1. CASE j.pc = "copy_servers"
    BY <1>3, <1>4, <2>1 DEF Sized
  <2>2. CASE C!AfterCopy(j.pc) = "copy_servers"
    BY <1>6, <2>2 DEF NoServersYet
  <2>3. CASE j.pc \notin NoServersYet
    BY <1>2, <1>4, <1>6, <2>3 DEF NoServersYet
  <2>. QED
    BY <1>7, <2>1, <2>2, <2>3
<1>9. CopiedKeys(x.pc) \subseteq CopiedKeys(j.pc) \cup C!CopyKeys(j.pc)
  BY <1>0, <1>6 DEF CopiedKeys, C!CopyKeys, C!AfterCopy, C!CopyBlocks
<1>10. CopiedKeys(x.pc) \subseteq C!Field
  <2>1. C!CopyUsers \cup C!CopyMetrics \cup C!CopyAlerts \subseteq C!Field
    BY BlockFacts, KeyFacts DEF C!CopyUsers, C!CopyMetrics, C!CopyAlerts, C!AlertKeys, C!Field, C!Loaded
  <2>. QED
    BY <2>1 DEF CopiedKeys, C!CopyValues
<1>11. x.alone => \A k \in CopiedKeys(x.pc) \ C!NotCopied : d.g[k] = config.g[k]
  BY <1>2, <1>4, <1>6, <1>9, <1>10
<1>12. CopyInv(x, config)
  BY <1>2, <1>4, <1>6, <1>8, <1>11 DEF CopyInv
<1>13. NewInv(p, x) /\ x.pc \notin C!Blocks /\ job[p].pc \notin C!Blocks
  BY <1>0, <1>5, <1>6, PcFacts DEF NewInv
<1>14. UNCHANGED << scope, file, certs, edits, config, foreign, mixed >>
  BY DEF C!SetCopy
<1>. QED
  BY <1>1, <1>3, <1>6, <1>12, <1>13, <1>14, QuietStep

\* What can be set is a key of the file.
LEMMA SettableFacts == C!SettableKeys \subseteq C!Key
<1>1. C!NetworkKeys \in C!KeyTables /\ C!BridgeKeys \in C!KeyTables /\ C!HistoryKeys \in C!KeyTables
      /\ C!BridgeHistoryKeys \in C!KeyTables /\ C!TlsKeys \in C!KeyTables /\ C!LoggingKeys \in C!KeyTables
      /\ C!SystemKeys \in C!KeyTables /\ C!MetricKeys \in C!KeyTables
  BY DEF C!KeyTables
<1>2. \A t \in C!KeyTables : DOMAIN t \subseteq C!Key
  BY DEF C!Key
<1>3. DOMAIN C!NetworkKeys = {"host", "metrics", "metrics_cache_max_size", "metrics_cache_max_age",
                              "metrics_query_timeout"}
  BY DEF C!NetworkKeys
<1>4. DOMAIN C!BridgeKeys = {"bridge", "bridge_endpoints", "bridge_cache_max_size", "bridge_cache_max_age",
                             "bridge_json", "bridge_json_cache_max_size", "management", "console"}
  BY DEF C!BridgeKeys
<1>5. DOMAIN C!HistoryKeys = {"history", "history_interval", "history_retention", "history_backend",
                              "history_path", "history_cert_file", "history_key_file",
                              "history_ca_file", "bridge_history"}
  BY DEF C!HistoryKeys
<1>6. DOMAIN C!BridgeHistoryKeys = {"bridge_history_interval", "bridge_history_retention",
                                    "bridge_history_backend", "bridge_history_path", "alerts", "cache",
                                    "alerts_path", "tls"}
  BY DEF C!BridgeHistoryKeys
<1>7. DOMAIN C!TlsKeys = {"tls_ca_file", "tls_cert_file", "tls_key_file", "metrics_ca_file",
                          "metrics_cert_file", "metrics_key_file"}
  BY DEF C!TlsKeys
<1>8. DOMAIN C!LoggingKeys = {"blocking_timeout", "pidfile", "update_process_title", "log_type", "log_level",
                              "log_path", "log_rotation_size", "log_rotation_age"}
  BY DEF C!LoggingKeys
<1>9. DOMAIN C!SystemKeys = {"log_line_prefix", "log_mode", "unix_socket_dir", "ev_backend", "keep_alive",
                             "nodelay", "non_blocking", "backlog", "hugepage"}
  BY DEF C!SystemKeys
<1>10. "metrics_path" \in DOMAIN C!MetricKeys
  BY DEF C!MetricKeys
<1>. HIDE DEF C!NetworkKeys, C!BridgeKeys, C!HistoryKeys, C!BridgeHistoryKeys, C!TlsKeys, C!LoggingKeys,
              C!SystemKeys, C!MetricKeys, C!Key, C!KeyTables
<1>11. C!SetNetworkKeys \subseteq C!Key
  BY <1>1, <1>2, <1>3, <1>4, <1>10 DEF C!SetNetworkKeys
<1>12. C!SetBridgeKeys \subseteq C!Key
  BY <1>1, <1>2, <1>4, <1>5 DEF C!SetBridgeKeys
<1>13. C!SetHistoryKeys \subseteq C!Key
  BY <1>1, <1>2, <1>4, <1>5, <1>6 DEF C!SetHistoryKeys
<1>14. C!SetTlsKeys \subseteq C!Key
  BY <1>1, <1>2, <1>7, <1>8 DEF C!SetTlsKeys
<1>15. C!SetLoggingKeys \cup C!SetSystemKeys \subseteq C!Key
  BY <1>1, <1>2, <1>8, <1>9 DEF C!SetLoggingKeys, C!SetSystemKeys
<1>. QED
  BY <1>11, <1>12, <1>13, <1>14, <1>15 DEF C!SettableKeys

\* What is reported is a value.
LEMMA Reports ==
    ASSUME NEW c, Sized(c), NEW r \in C!Request, C!Known(r)
    PROVE  C!Shown(c, r) \in C!Value
<1>0. c.g \in [C!Field -> C!Value] /\ c.servers \in Seq([C!SKey -> C!Value]) /\ Len(c.servers) \in 1 .. 2
  BY DEF Sized, Structures
<1>1. CASE r.server # 0
  <2>1. r.server = 1 /\ r.key \in C!SKey
    BY <1>1 DEF C!Request, C!Known, C!SettableServerKeys
  <2>. DEFINE n == Len(c.servers)
  <2>2. n \in 1 .. 2
    BY <1>0
  <2>. HIDE DEF n
  <2>3. 1 \in 1 .. n
    BY <2>2
  <2>4. c.servers[1] \in [C!SKey -> C!Value]
    BY <1>0, <2>3, ElementOfSeq DEF n
  <2>5. r.key # "bridge_endpoints"
    BY <2>1 DEF C!SKey, C!ServerKeys
  <2>6. C!Shown(c, r) = c.servers[1][r.key]
    BY <1>1, <2>1, <2>5 DEF C!Shown
  <2>. QED
    BY <2>1, <2>4, <2>6
<1>2. CASE r.server = 0
  <2>1. r.key \in C!SettableKeys
    BY <1>2 DEF C!Known
  <2>2. r.key \in C!Key
    BY <2>1, SettableFacts
  <2>. QED
    BY <1>0, <1>2, <2>2 DEF C!Shown, C!Field, C!Value
<1>. QED
  BY <1>1, <1>2

\* What a "conf set" transfers.
LEMMA ChangeOwn ==
    ASSUME NEW c, Sized(c), Normal(c), NEW r \in C!Request, C!Known(r)
    PROVE  LET d == C!Normalise(C!Changed(c, r)) IN
           /\ Sized(d) /\ Normal(d)
           /\ \A k \in C!Field : \/ d.g[k] = c.g[k]
                                 \/ r.server = 0 /\ k = r.key
                                 \/ k \in C!SideEffects(r) \cup C!NotTransferred
           /\ DOMAIN d.servers = DOMAIN c.servers
           /\ \A i \in DOMAIN c.servers, k \in C!SKey :
                 d.servers[i][k] = c.servers[i][k] \/ (r.server = i /\ k = r.key)
<1>. DEFINE e == C!Changed(c, r)
            d == C!Normalise(e)
<1>1. /\ e \in Structures /\ Len(e.servers) = Len(c.servers)
      /\ \A k \in C!Field : \/ e.g[k] = c.g[k]
                            \/ r.server = 0 /\ k = r.key
                            \/ r.key = "metrics_path" /\ k \in {"prometheus", "metric_names"}
      /\ \A i \in DOMAIN c.servers, k \in C!SKey :
                 \/ e.servers[i][k] = c.servers[i][k]
                 \/ r.server = i /\ k = r.key
  BY Changes
<1>. HIDE DEF e
<1>2. /\ d \in Structures /\ d.servers = e.servers /\ Normal(d)
      /\ \A k \in C!Field : \/ d.g[k] = e.g[k]
                            \/ k \in {"backlog", "metrics_query_timeout"} /\ e.g[k] = "a"
                            \/ ~ certs /\ k \in MetricsCerts \cup HistoryCerts
  BY <1>1, Normalised
<1>. HIDE DEF d
<1>3. Sized(d)
  BY <1>1, <1>2 DEF Sized
<1>4. DOMAIN d.servers = DOMAIN c.servers
  <2>1. c.servers \in Seq([C!SKey -> C!Value]) /\ d.servers \in Seq([C!SKey -> C!Value])
    BY <1>2 DEF Sized, Structures
  <2>. QED
    BY <1>1, <1>2, <2>1, LenProperties
<1>5. \A k \in C!Field : \/ d.g[k] = c.g[k]
                         \/ r.server = 0 /\ k = r.key
                         \/ k \in C!SideEffects(r) \cup C!NotTransferred
  <2>. TAKE k \in C!Field
  <2>1. CASE k \in {"backlog", "metrics_query_timeout"} /\ e.g[k] = "a"
    <3>1. c.g[k] # "a"
      BY <2>1 DEF Normal
    <3>. QED
      BY <1>1, <2>1, <3>1
  <2>2. CASE ~ certs /\ k \in MetricsCerts \cup HistoryCerts
    BY <2>2 DEF C!SideEffects, MetricsCerts, HistoryCerts, C!NotTransferred
  <2>3. CASE d.g[k] = e.g[k]
    <3>1. r.key = "metrics_path" /\ k \in {"prometheus", "metric_names"} => k \in C!SideEffects(r)
      BY DEF C!SideEffects
    <3>. QED
      BY <1>1, <2>3, <3>1
  <2>. QED
    BY <1>2, <2>1, <2>2, <2>3
<1>. QED
  BY <1>1, <1>2, <1>3, <1>4, <1>5 DEF d, e

LEMMA ConfValidates ==
    ASSUME ConfInv, NEW p \in C!Process, C!SetValidate(p)
    PROVE  ConfInv'
<1>. DEFINE j == job[p]
            r == j.request
<1>0. j \in Jobs /\ j.pc = "validate" /\ j.pc \in Copying /\ j.pc \notin C!Blocks
      /\ UNCHANGED << scope, file, certs, edits, config, foreign, mixed >>
  BY DEF ConfInv, ConfTypes, C!SetValidate, Copying, C!Blocks
<1>1. j.copy \in Structures /\ Normal(j.copy) /\ Len(j.copy.servers) \in 1 .. 2 /\ r \in C!Request
  BY <1>0 DEF ConfInv, CopyInv, NoServersYet
<1>2. ASSUME NEW a \in {"unknown", "invalid", "failed"}, C!End(p, a) PROVE ConfInv'
  BY <1>0, <1>2, Ends DEF Answers
<1>3. ASSUME C!Known(r), C!Acceptable(p),
             job' = [job EXCEPT ![p] = [@ EXCEPT !.pc = "check", !.new = C!Candidate(p),
                                                 !.old = C!Shown(config, r), !.alone = FALSE]]
      PROVE  ConfInv'
  <2>. DEFINE n == C!Candidate(p)
              o == C!Shown(config, r)
              x == [j EXCEPT !.pc = "check", !.new = n, !.old = o, !.alone = FALSE]
  <2>0. Sized(j.copy)
    BY <1>1 DEF Sized
  <2>1. /\ Sized(n) /\ Normal(n)
        /\ \A k \in C!Field : \/ n.g[k] = j.copy.g[k]
                              \/ r.server = 0 /\ k = r.key
                              \/ k \in C!SideEffects(r) \cup C!NotTransferred
        /\ DOMAIN n.servers = DOMAIN j.copy.servers
        /\ \A i \in DOMAIN j.copy.servers, k \in C!SKey :
              n.servers[i][k] = j.copy.servers[i][k] \/ (r.server = i /\ k = r.key)
    BY <1>1, <1>3, <2>0, ChangeOwn DEF C!Candidate
  <2>2. C!Valid(n)
    BY <1>3 DEF C!Acceptable
  <2>3. o \in C!Value
    BY <1>1, <1>3, Reports DEF ConfInv, ConfTypes
  <2>. HIDE DEF n, o
  <2>4. /\ x \in Jobs /\ x.pc = "check" /\ x.new = n /\ ~ x.alone
        /\ x.copy = j.copy /\ x.request = r
    BY <1>0, <2>1, <2>3 DEF Jobs, Sized, C!Decided
  <2>5. job' = [job EXCEPT ![p] = x]
    BY <1>3 DEF n, o
  <2>. HIDE DEF x
  <2>6. CopyInv(x, config) /\ x.pc \notin C!Blocks
    BY <2>4, PcFacts DEF CopyInv
  <2>7. NewInv(p, x)
    <3>1. Usable(x.new)
      BY <2>1, <2>2, <2>4 DEF Usable
    <3>2. OwnChange(x)
      BY <1>1, <1>3, <2>1, <2>4 DEF OwnChange
    <3>. QED
      BY <2>4, <3>1, <3>2, PcFacts DEF NewInv
  <2>8. foreign \subseteq C!Process
    BY DEF ConfInv, ConfTypes
  <2>. QED
    BY <1>0, <2>4, <2>5, <2>6, <2>7, <2>8, QuietStep
<1>. QED
  BY <1>2, <1>3 DEF C!SetValidate

LEMMA ConfReads ==
    ASSUME ConfInv, C!ReloadRead
    PROVE  ConfInv'
<1>. DEFINE p == "main"
            j == job[p]
            n == C!Normalise(C!Load(file))
            x == [j EXCEPT !.pc = "check", !.new = n]
<1>0. j \in Jobs /\ j.pc = "idle" /\ j.pc \notin C!Blocks \cup Copying /\ p \in C!Process
      /\ UNCHANGED << scope, file, certs, edits, config, foreign, mixed >>
  BY PcFacts DEF ConfInv, ConfTypes, C!ReloadRead, C!Blocks
<1>1. CASE C!Finish("main", "exited", "none")
  BY <1>0, <1>1, Finishes DEF Answers
<1>2. CASE C!Valid(C!Load(file)) /\ job' = [job EXCEPT !["main"].pc = "check",
                                            !["main"].new = C!Normalise(C!Load(file))]
  <2>1. file \in Files /\ Len(file.servers) <= 2 /\ foreign \subseteq C!Process
    BY DEF ConfInv, ConfTypes
  <2>2. Usable(n)
    BY <1>2, <2>1, Loads, NormalUsable
  <2>. HIDE DEF n
  <2>3. x \in Jobs /\ x.pc = "check" /\ x.new = n /\ x.alone = j.alone
    BY <1>0, <2>2 DEF Jobs, Usable, Sized, C!Decided
  <2>4. job' = [job EXCEPT ![p] = x]
    BY <1>2 DEF n
  <2>5. ~ j.alone
    BY <1>0 DEF ConfInv, NewInv
  <2>. HIDE DEF x
  <2>6. CopyInv(x, config) /\ NewInv(p, x) /\ x.pc \notin C!Blocks
    BY <2>2, <2>3, <2>5, PcFacts, ProcessesAssumption DEF CopyInv, NewInv
  <2>. QED
    BY <1>0, <2>1, <2>3, <2>4, <2>6, QuietStep
<1>. QED
  BY <1>1, <1>2 DEF C!ReloadRead

\* A transfer begins when no restart is required.
LEMMA ConfBegins ==
    ASSUME ConfInv, NEW p \in C!Process, job[p].pc = "check", ~ C!RestartRequired(config, job[p].new),
           C!Goto(p, "values"), mixed' = (C!Transferring # {}),
           UNCHANGED << scope, file, certs, edits, config, foreign >>
    PROVE  ConfInv'
<1>. DEFINE j == job[p]
            x == [j EXCEPT !.pc = "values"]
<1>0. j \in Jobs /\ Usable(j.new) /\ ~ j.alone /\ (p \in Setter => OwnChange(j))
  BY PcFacts DEF ConfInv, ConfTypes, NewInv
<1>1. "values" \in C!Blocks /\ "values" \in C!Decided /\ "values" \notin Copying
  BY DEF C!Blocks, C!Decided, Copying, C!CopyBlocks
<1>2. x \in Jobs /\ x.pc = "values" /\ x.new = j.new /\ x.copy = j.copy /\ x.request = j.request /\ ~ x.alone
  BY <1>0, <1>1 DEF Jobs
<1>3. job'[p] = x /\ (\A q \in C!Process \ {p} : job'[q] = job[q]) /\ job' \in [C!Process -> Jobs]
  <2>1. job' = [job EXCEPT ![p] = x]
    BY DEF C!Goto
  <2>. QED
    BY <1>2, <2>1 DEF ConfInv, ConfTypes
<1>. HIDE DEF x
<1>4. ConfTypes'
  BY <1>3 DEF ConfInv, ConfTypes
<1>5. BoundLike(j.new)
  <2>1. \A k \in C!BoundAtStart : config.g[k] = j.new.g[k]
    BY BlockFacts DEF C!RestartRequired
  <2>. QED
    BY <2>1 DEF ConfInv, LiveInv, BoundLike
<1>6. FirstServer(j.new) /\ Len(config.servers) <= Len(j.new.servers)
  <2>. DEFINE m == Len(config.servers)
              n == Len(j.new.servers)
  <2>0. /\ m \in 1 .. 2 /\ n \in 1 .. 2
        /\ DOMAIN config.servers = 1 .. m /\ DOMAIN j.new.servers = 1 .. n
    BY <1>0, LenProperties DEF ConfInv, ConfTypes, Usable, Sized, Structures
  <2>1. ~ (m > n)
    BY DEF C!RestartRequired
  <2>. HIDE DEF m, n
  <2>2. 1 \in 1 .. m /\ 1 \in 1 .. n /\ m <= n
    BY <2>0, <2>1
  <2>3. 1 \in DOMAIN config.servers /\ 1 \in DOMAIN j.new.servers
    BY <2>0, <2>2
  <2>4. C!SameServer(config.servers[1], j.new.servers[1])
    BY <2>3 DEF C!RestartRequired
  <2>5. j.new.servers[1].host # "default"
    BY <1>0, <2>3 DEF Usable, C!Valid, C!ServersValid
  <2>6. FirstServer(config)
    BY <2>4, <2>5 DEF ConfInv, LiveInv, C!SameServer
  <2>. QED
    BY <2>2, <2>4, <2>6 DEF FirstServer, C!SameServer, m, n
<1>7. \A q \in C!Process : CopyInv(job[q], config)' /\ NewInv(q, job[q])'
  <2>. TAKE q \in C!Process
  <2>1. CASE q = p
    <3>1. CopyInv(x, config)
      BY <1>1, <1>2 DEF CopyInv
    <3>2. p \in Setter => OwnChange(x)
      BY <1>0, <1>2 DEF OwnChange
    <3>3. NewInv(p, x)
      BY <1>0, <1>1, <1>2, <1>5, <1>6, <3>2 DEF NewInv
    <3>. QED
      BY <1>3, <2>1, <3>1, <3>3 DEF CopyInv, NewInv, OwnChange, C!SideEffects
  <2>2. CASE q # p
    <3>1. CopyInv(job[q], config) /\ NewInv(q, job[q]) /\ job'[q] = job[q]
      BY <1>3, <2>2 DEF ConfInv
    <3>. QED
      BY <3>1 DEF CopyInv, NewInv, OwnChange, C!SideEffects
  <2>. QED
    BY <2>1, <2>2
<1>8. AloneInv'
  <2>. SUFFICES ASSUME ~ mixed'
                PROVE  /\ \A q, r \in C!Process : job'[q].pc \in C!Blocks /\ job'[r].pc \in C!Blocks => q = r
                       /\ \A q \in C!Process : DoneInv(job'[q], config')
                       /\ C!Transferring' = {} => C!Valid(config)'
                       /\ job'["main"].pc = "alerts" => "main" \notin foreign'
    BY DEF AloneInv
  <2>1. \A q \in C!Process \ {p} : job'[q].pc \notin C!Blocks
    BY <1>3 DEF C!Transferring
  <2>2. p \in C!Transferring'
    BY <1>1, <1>2, <1>3 DEF C!Transferring
  <2>3. DoneInv(x, config)
    <3>1. DoneKeys("values") = {}
      BY DEF DoneKeys
    <3>. QED
      BY <1>2, <1>6, <3>1 DEF DoneInv
  <2>4. \A q \in C!Process : DoneInv(job'[q], config')
    BY <1>3, <2>1, <2>3 DEF DoneInv
  <2>5. "alerts" \in C!Blocks
    BY DEF C!Blocks
  <2>6. job'["main"].pc # "alerts"
    BY <1>2, <1>3, <2>1, <2>5, PcFacts
  <2>. QED
    BY <2>1, <2>2, <2>4, <2>6
<1>9. LiveInv(config)'
  <2>1. C!Unfilled("users") => C!Unfilled("users")'
    BY <1>3 DEF C!Unfilled
  <2>2. C!Unfilled("servers") => C!Unfilled("servers")'
    BY <1>3 DEF C!Unfilled
  <2>. QED
    BY <2>1, <2>2 DEF ConfInv, LiveInv
<1>. QED
  BY <1>4, <1>7, <1>8, <1>9 DEF ConfInv

LEMMA ConfChecks ==
    ASSUME ConfInv, NEW p \in C!Process, C!Check(p)
    PROVE  ConfInv'
<1>1. CASE C!RestartRequired(config, job[p].new)
  BY <1>1, Ends, PcFacts DEF C!Check, Answers
<1>2. CASE ~ C!RestartRequired(config, job[p].new)
  BY <1>2, ConfBegins DEF C!Check
<1>. QED
  BY <1>1, <1>2

\* What is done when a block is, what a block clears.
LEMMA BlockOrder ==
    ASSUME NEW b \in C!Blocks
    PROVE  /\ C!After(b) \in C!Decided
           /\ b # "alerts" => /\ C!After(b) \in C!Blocks
                              /\ DoneKeys(C!After(b)) \subseteq DoneKeys(b) \cup C!BlockKeys(b)
           /\ C!After(b) = "alerts" => b = "metrics"
           /\ b = "alerts" => C!After(b) \notin C!Blocks
           /\ C!Cleared(b) \subseteq {"users", "admins"} /\ C!Cleared(b) \cap DoneKeys(b) = {}
           /\ "users" \in C!BlockKeys(b) => b = "users"
           /\ "users" \in C!Cleared(b) => b = "clear_users"
           /\ C!BlockKeys(b) \cap C!Cleared(b) = {}
           /\ DoneKeys(b) \subseteq C!Field
<1>1. /\ C!After(b) \in C!Decided
      /\ b # "alerts" => C!After(b) \in C!Blocks
      /\ C!After(b) = "alerts" => b = "metrics"
      /\ b = "alerts" => C!After(b) \notin C!Blocks
  BY DEF C!After, C!Blocks, C!Decided
<1>2. C!Cleared(b) \subseteq {"users", "admins"} /\ ("users" \in C!Cleared(b) => b = "clear_users")
      /\ (b = "alerts" => C!Cleared(b) = {})
  BY DEF C!Cleared, C!Blocks
<1>3. {"users", "admins"} \cap C!ValueKeys = {} /\ "users" \notin C!MetricsKeys \cup C!AlertKeys
  BY DEF C!ValueKeys, C!MetricsKeys, C!AlertKeys
<1>4. C!Cleared(b) \cap DoneKeys(b) = {}
  BY <1>3 DEF C!Cleared, DoneKeys, C!Blocks
<1>5. "users" \in C!BlockKeys(b) => b = "users"
  BY <1>3 DEF C!BlockKeys, C!Blocks
<1>6. C!BlockKeys(b) \cap C!Cleared(b) = {}
  BY <1>3 DEF C!BlockKeys, C!Cleared, C!Blocks
<1>7. b # "alerts" => DoneKeys(C!After(b)) \subseteq DoneKeys(b) \cup C!BlockKeys(b)
  BY DEF DoneKeys, C!After, C!BlockKeys, C!Blocks
<1>8. DoneKeys(b) \subseteq C!Field
  BY BlockFacts DEF DoneKeys
<1>. QED
  BY <1>1, <1>2, <1>4, <1>5, <1>6, <1>7, <1>8

\* A block of a transfer that runs alone.
LEMMA DoneMore ==
    ASSUME NEW j, NEW c, Sized(c), Sized(j.new), j.pc \in C!Blocks, DoneInv(j, c), j.pc # "alerts",
           NEW k, k.pc = C!After(j.pc), k.new = j.new
    PROVE  DoneInv(k, C!Write(c, j.new, j.pc))
<1>. DEFINE b == j.pc
            n == j.new
            w == C!Write(c, n, b)
<1>0. b \in C!Blocks /\ Sized(n) /\ b # "alerts"
  OBVIOUS
<1>. HIDE DEF b, n
<1>w. Wrote(w, c, n, b)
  BY <1>0, Writes
<1>. HIDE DEF w
<1>1. /\ \A l \in C!Field \ (C!BlockKeys(b) \cup C!Cleared(b)) : w.g[l] = c.g[l]
      /\ \A l \in C!BlockKeys(b) \ Left : w.g[l] = n.g[l]
      /\ b = "servers" => w.servers = n.servers
      /\ b = "clear_servers" => Len(w.servers) = Len(c.servers)
      /\ b \notin {"servers", "clear_servers"} => w.servers = c.servers
  BY <1>w DEF Wrote
<1>2. \A l \in DoneKeys(C!After(b)) \ Left : w.g[l] = n.g[l]
  <2>. TAKE l \in DoneKeys(C!After(b)) \ Left
  <2>1. CASE l \in C!BlockKeys(b)
    BY <1>1, <2>1
  <2>2. CASE l \notin C!BlockKeys(b)
    <3>1. l \in DoneKeys(b) /\ l \in C!Field /\ l \notin C!Cleared(b)
      BY <1>0, <2>2, BlockOrder
    <3>. QED
      BY <1>1, <2>2, <3>1 DEF DoneInv, b, n
  <2>. QED
    BY <2>1, <2>2
<1>3. IF C!After(b) \in {"values", "clear_servers", "servers"}
        THEN Len(w.servers) <= Len(n.servers)
        ELSE w.servers = n.servers
  <2>1. CASE b \in {"values", "clear_servers"}
    <3>1. C!After(b) \in {"clear_servers", "servers"} /\ Len(w.servers) = Len(c.servers)
      BY <1>1, <2>1 DEF C!After
    <3>. QED
      BY <2>1, <3>1 DEF DoneInv, b, n
  <2>2. CASE b = "servers"
    BY <1>1, <2>2 DEF C!After
  <2>3. CASE b \in {"clear_users", "users", "metrics"}
    <3>1. C!After(b) \notin {"values", "clear_servers", "servers"}
      BY <2>3 DEF C!After
    <3>. QED
      BY <1>1, <2>3, <3>1 DEF DoneInv, b, n
  <2>. QED
    BY <1>0, <2>1, <2>2, <2>3 DEF C!Blocks, b
<1>. QED
  BY <1>2, <1>3 DEF DoneInv, w, b, n

LEMMA ConfTransfers ==
    ASSUME ConfInv, NEW p \in C!Process, C!TransferBlock(p)
    PROVE  ConfInv'
<1>. DEFINE j == job[p]
            b == j.pc
            n == j.new
            w == C!Write(config, n, b)
            x == IF p = "main" /\ b = "alerts" THEN C!Idle ELSE [j EXCEPT !.pc = C!After(b)]
<1>0. /\ j \in Jobs /\ b \in C!Blocks /\ b \in C!Decided /\ Usable(n) /\ Sized(n) /\ Sized(config) /\ Normal(config)
      /\ ~ j.alone /\ BoundLike(n) /\ FirstServer(n) /\ (p \in Setter => OwnChange(j))
      /\ config' = w /\ UNCHANGED << scope, file, certs, edits, mixed >>
  BY PcFacts DEF ConfInv, ConfTypes, NewInv, Usable, C!TransferBlock
<1>1. Wrote(w, config, n, b)
  BY <1>0, Writes
<1>2. C!After(b) \in C!Decided
  BY <1>0, BlockOrder
<1>3. /\ x \in Jobs /\ ~ x.alone /\ x.pc \notin Copying
      /\ x.pc \in C!Decided => /\ x = [j EXCEPT !.pc = C!After(b)] /\ x.pc = C!After(b)
                               /\ x.new = n /\ x.copy = j.copy /\ x.request = j.request
      /\ (p = "main" /\ b = "alerts") \/ x.pc = C!After(b)
  <2>1. CASE p = "main" /\ b = "alerts"
    BY <2>1, PcFacts DEF C!Idle, Jobs, Answers, C!Value
  <2>2. CASE ~ (p = "main" /\ b = "alerts")
    <3>1. x = [j EXCEPT !.pc = C!After(b)]
      BY <2>2
    <3>2. [j EXCEPT !.pc = C!After(b)] \in Jobs
      BY <1>0, <1>2 DEF Jobs
    <3>3. x.pc = C!After(b) /\ x.new = n /\ x.copy = j.copy /\ x.request = j.request /\ x.alone = j.alone
      BY <1>0, <3>1 DEF Jobs
    <3>. QED
      BY <1>0, <1>2, <3>1, <3>2, <3>3, PcFacts
  <2>. QED
    BY <2>1, <2>2
<1>4. /\ job'[p] = x
      /\ \A q \in C!Process \ {p} : job'[q] = [job[q] EXCEPT !.alone = FALSE]
      /\ job' \in [C!Process -> Jobs]
  <2>1. job' = [q \in C!Process |-> IF q # p THEN [job[q] EXCEPT !.alone = FALSE] ELSE x]
    BY DEF C!TransferBlock
  <2>2. \A q \in C!Process : [job[q] EXCEPT !.alone = FALSE] \in Jobs
    BY DEF ConfInv, ConfTypes, Jobs
  <2>. HIDE DEF x
  <2>. QED
    BY <1>3, <2>1, <2>2
<1>5. \A q \in C!Process \ {p} : /\ job'[q].pc = job[q].pc /\ job'[q].copy = job[q].copy /\ job'[q].new = job[q].new
                                 /\ job'[q].request = job[q].request /\ ~ job'[q].alone
  BY <1>4 DEF ConfInv, ConfTypes, Jobs
<1>. HIDE DEF x, w
<1>6. ConfTypes'
  <2>1. Sized(w) /\ Normal(w)
    <3>1. \A k \in {"backlog", "metrics_query_timeout"} : w.g[k] \in {config.g[k], n.g[k]} \/ w.g[k] = "default"
      BY <1>1, KeyFacts DEF Wrote, Rewritten
    <3>2. \A k \in {"backlog", "metrics_query_timeout"} : config.g[k] # "a" /\ n.g[k] # "a"
      BY <1>0 DEF Usable, Normal
    <3>. QED
      BY <1>1, <3>1, <3>2 DEF Wrote, Normal
  <2>2. foreign' \subseteq C!Process
    BY DEF ConfInv, ConfTypes, C!TransferBlock
  <2>. QED
    BY <1>0, <1>4, <2>1, <2>2 DEF ConfInv, ConfTypes
<1>7. \A q \in C!Process : CopyInv(job[q], config)' /\ NewInv(q, job[q])'
  <2>. TAKE q \in C!Process
  <2>1. CASE q = p
    <3>1. CopyInv(x, config')
      BY <1>3 DEF CopyInv
    <3>2. NewInv(p, x)
      <4>1. ASSUME x.pc \in C!Decided, p \in Setter PROVE OwnChange(x)
        BY <1>0, <1>3, <4>1 DEF OwnChange
      <4>. QED
        BY <1>0, <1>3, <4>1, PcFacts DEF NewInv
    <3>. QED
      BY <1>0, <1>4, <2>1, <3>1, <3>2 DEF CopyInv, NewInv, OwnChange, C!SideEffects
  <2>2. CASE q # p
    <3>1. CopyInv(job[q], config) /\ NewInv(q, job[q])
      BY DEF ConfInv
    <3>2. CopyInv(job[q], config)'
      BY <1>5, <2>2, <3>1 DEF CopyInv
    <3>3. NewInv(q, job[q])'
      BY <1>0, <1>5, <2>2, <3>1 DEF NewInv, OwnChange, C!SideEffects
    <3>. QED
      BY <3>2, <3>3
  <2>. QED
    BY <2>1, <2>2
<1>8. AloneInv'
  <2>. SUFFICES ASSUME ~ mixed
                PROVE  /\ \A q, r \in C!Process : job'[q].pc \in C!Blocks /\ job'[r].pc \in C!Blocks => q = r
                       /\ \A q \in C!Process : DoneInv(job'[q], w)
                       /\ C!Transferring' = {} => C!Valid(w)
                       /\ job'["main"].pc = "alerts" => "main" \notin foreign'
    BY <1>0 DEF AloneInv
  <2>1. \A q \in C!Process \ {p} : job[q].pc \notin C!Blocks /\ job'[q].pc \notin C!Blocks
    BY <1>0, <1>5 DEF ConfInv, AloneInv
  <2>2. DoneInv(j, config)
    BY DEF ConfInv, AloneInv
  <2>3. DoneInv(x, w)
    <3>1. CASE x.pc \notin C!Blocks
      BY <3>1 DEF DoneInv
    <3>2. CASE x.pc \in C!Blocks
      <4>1. x.pc = C!After(b) /\ x.new = n /\ b # "alerts"
        BY <1>0, <1>3, <3>2, BlockOrder, PcFacts
      <4>. QED
        BY <1>0, <2>2, <4>1, DoneMore DEF w
    <3>. QED
      BY <3>1, <3>2
  <2>4. \A q \in C!Process : DoneInv(job'[q], w)
    BY <1>4, <2>1, <2>3 DEF DoneInv
  <2>5. C!Transferring' = {} => C!Valid(w)
    <3>1. CASE b # "alerts"
      <4>1. x.pc \in C!Blocks
        BY <1>0, <1>3, <3>1, BlockOrder
      <4>. QED
        BY <1>4, <4>1 DEF C!Transferring
    <3>2. CASE b = "alerts"
      <4>1. config.servers = n.servers /\ \A k \in DoneKeys("alerts") \ Left : config.g[k] = n.g[k]
        BY <1>0, <2>2, <3>2 DEF DoneInv
      <4>2. \A k \in ValidKeys : /\ k \in DoneKeys("alerts") \ Left /\ k \in C!Field
                                 /\ k \notin C!BlockKeys("alerts") \cup C!Cleared("alerts")
        <5>1. \A k \in ValidKeys : k \in DoneKeys("alerts") \ Left /\ k \in C!Field
          BY BlockFacts DEF DoneKeys
        <5>2. \A k \in ValidKeys : k \notin C!BlockKeys("alerts") \cup C!Cleared("alerts")
          BY DEF ValidKeys, C!BlockKeys, C!Cleared, C!AlertKeys
        <5>. QED
          BY <5>1, <5>2
      <4>3. w.servers = config.servers /\ \A k \in ValidKeys : w.g[k] = config.g[k]
        BY <1>1, <3>2, <4>2 DEF Wrote
      <4>4. \A k \in ValidKeys : w.g[k] = n.g[k]
        BY <4>1, <4>2, <4>3
      <4>. QED
        BY <1>0, <4>1, <4>3, <4>4, ValidDepends DEF Usable
    <3>. QED
      BY <3>1, <3>2
  <2>6. job'["main"].pc = "alerts" => "main" \notin foreign'
    <3>. SUFFICES ASSUME job'["main"].pc = "alerts" PROVE "main" \notin foreign'
      OBVIOUS
    <3>1. "alerts" \in C!Blocks
      BY DEF C!Blocks
    <3>2. p = "main"
      BY <2>1, <3>1, PcFacts
    <3>3. b = "metrics"
      BY <1>0, <1>3, <1>4, <3>1, <3>2, BlockOrder, PcFacts
    <3>. QED
      BY <3>2, <3>3 DEF C!TransferBlock
  <2>. QED
    BY <1>4, <2>1, <2>4, <2>5, <2>6
<1>9. LiveInv(config)'
  <2>0. LiveInv(config)
    BY DEF ConfInv
  <2>1. BoundLike(w) /\ C!EnumsValid(w)
    <3>1. \A k \in C!BoundAtStart \cup {"log_level", "log_type", "log_mode"} :
             k \in C!ValueKeys /\ k \in C!Field /\ k \notin {"users", "admins"}
      <4>1. \A k \in {"log_level", "log_type", "log_mode"} : k \in ValidKeys \ {"users"}
        BY DEF ValidKeys
      <4>2. "users" \notin C!ValueKeys /\ "admins" \notin C!ValueKeys
        BY DEF C!ValueKeys, C!MetricsKeys
      <4>. QED
        BY <4>1, <4>2, BlockFacts
    <3>2. \A k \in C!BoundAtStart \cup {"log_level", "log_type", "log_mode"} : w.g[k] \in {config.g[k], n.g[k]}
      BY <1>0, <1>1, <3>1, BlockOrder DEF Wrote
    <3>3. C!EnumsValid(n)
      BY <1>0 DEF Usable, C!Valid
    <3>. QED
      BY <1>0, <2>0, <3>2, <3>3 DEF LiveInv, BoundLike, C!EnumsValid
  <2>2. w.g["users"] = "default" => C!Unfilled("users")'
    <3>. SUFFICES ASSUME w.g["users"] = "default" PROVE C!Unfilled("users")'
      OBVIOUS
    <3>1. CASE b = "clear_users"
      <4>1. x.pc = "users"
        BY <1>3, <3>1 DEF C!After
      <4>. QED
        BY <1>4, <4>1 DEF C!Unfilled
    <3>2. CASE b = "users"
      <4>1. "users" \in C!BlockKeys("users") \ Left
        BY BlockFacts DEF C!BlockKeys
      <4>2. w.g["users"] = n.g["users"]
        BY <1>1, <3>2, <4>1 DEF Wrote
      <4>. QED
        BY <1>0, <4>2 DEF Usable, C!Valid
    <3>3. CASE b \notin {"clear_users", "users"}
      <4>1. "users" \in C!Field /\ "users" \notin C!BlockKeys(b) \cup C!Cleared(b)
        BY <1>0, <3>3, BlockOrder, BlockFacts
      <4>2. w.g["users"] = config.g["users"]
        BY <1>1, <4>1 DEF Wrote
      <4>3. PICK q \in C!Process : job[q].pc = "users"
        BY <2>0, <4>2 DEF LiveInv, C!Unfilled
      <4>. QED
        BY <1>5, <3>3, <4>3 DEF C!Unfilled
    <3>. QED
      BY <3>1, <3>2, <3>3
  <2>3. \/ ServersProper(w) /\ FirstServer(w)
        \/ w.servers[1].host = "default" /\ C!Unfilled("servers")'
    <3>1. CASE b = "clear_servers"
      <4>1. x.pc = "servers"
        BY <1>3, <3>1 DEF C!After
      <4>2. 1 \in DOMAIN w.servers
        <5>. DEFINE m == Len(w.servers)
        <5>1. m \in 1 .. 2 /\ DOMAIN w.servers = 1 .. m
          BY <1>1, LenProperties DEF Wrote, Sized, Structures
        <5>. HIDE DEF m
        <5>. QED
          BY <5>1
      <4>3. w.servers[1] = C!NoServer
        BY <1>1, <3>1, <4>2 DEF Wrote
      <4>4. w.servers[1].host = "default"
        BY <4>3, KeyFacts DEF C!NoServer
      <4>. QED
        BY <1>4, <4>1, <4>4 DEF C!Unfilled
    <3>2. CASE b = "servers"
      <4>1. w.servers = n.servers
        BY <1>1, <3>2 DEF Wrote
      <4>. QED
        BY <1>0, <4>1 DEF ServersProper, FirstServer, Usable, C!Valid, C!ServersValid
    <3>3. CASE b \notin {"clear_servers", "servers"}
      <4>1. w.servers = config.servers
        BY <1>1, <3>3 DEF Wrote
      <4>2. CASE ServersProper(config) /\ FirstServer(config)
        BY <4>1, <4>2 DEF ServersProper, FirstServer
      <4>3. CASE config.servers[1].host = "default" /\ C!Unfilled("servers")
        <5>1. PICK q \in C!Process : job[q].pc = "servers"
          BY <4>3 DEF C!Unfilled
        <5>. QED
          BY <1>5, <3>3, <4>1, <4>3, <5>1 DEF C!Unfilled
      <4>. QED
        BY <2>0, <4>2, <4>3 DEF LiveInv
    <3>. QED
      BY <3>1, <3>2, <3>3
  <2>. QED
    BY <1>0, <2>1, <2>2, <2>3 DEF LiveInv
<1>. QED
  BY <1>6, <1>7, <1>8, <1>9 DEF ConfInv

\* Nothing is said of the files or the certificates.
LEMMA ConfEdited ==
    ASSUME ConfInv, NEW f \in Files, Len(f.servers) <= 2, C!Edit(f)
    PROVE  ConfInv'
<1>1. edits' \in 0 .. MaxEdits
  BY ProcessesAssumption DEF ConfInv, ConfTypes, C!Edit
<1>2. file' = f /\ UNCHANGED << scope, certs, config, foreign, mixed, job >>
  BY DEF C!Edit
<1>3. ConfTypes'
  BY <1>1, <1>2 DEF ConfInv, ConfTypes
<1>4. \A q \in C!Process : CopyInv(job[q], config)' /\ NewInv(q, job[q])'
  BY <1>2 DEF ConfInv, CopyInv, NewInv, OwnChange, C!SideEffects
<1>5. AloneInv'
  BY <1>2 DEF ConfInv, AloneInv, C!Transferring
<1>6. LiveInv(config)'
  BY <1>2 DEF ConfInv, LiveInv, C!Unfilled
<1>. QED
  BY <1>3, <1>4, <1>5, <1>6 DEF ConfInv

LEMMA ConfCerts ==
    ASSUME ConfInv, C!CertsRemoved
    PROVE  ConfInv'
<1>1. certs /\ certs' = FALSE /\ UNCHANGED << scope, file, edits, config, foreign, mixed, job >>
  BY DEF C!CertsRemoved
<1>2. ConfTypes'
  BY <1>1 DEF ConfInv, ConfTypes
<1>3. \A q \in C!Process : CopyInv(job[q], config)' /\ NewInv(q, job[q])'
  <2>. TAKE q \in C!Process
  <2>1. CopyInv(job[q], config) /\ NewInv(q, job[q]) /\ job'[q] = job[q]
    BY <1>1 DEF ConfInv
  <2>2. \A r : C!SideEffects(r) \subseteq C!SideEffects(r)'
    BY <1>1 DEF C!SideEffects
  <2>3. OwnChange(job[q]) => OwnChange(job[q])'
    BY <2>1, <2>2 DEF OwnChange
  <2>. QED
    BY <1>1, <2>1, <2>3 DEF CopyInv, NewInv
<1>4. AloneInv'
  BY <1>1 DEF ConfInv, AloneInv, C!Transferring
<1>5. LiveInv(config)'
  BY <1>1 DEF ConfInv, LiveInv, C!Unfilled
<1>. QED
  BY <1>2, <1>3, <1>4, <1>5 DEF ConfInv

LEMMA ConfEdits ==
    ASSUME ConfInv, C!SomeEdit
    PROVE  ConfInv'
<1>. DEFINE n == Len(file.servers)
<1>0. file \in Files /\ file.servers \in Seq([C!SKey -> Texts]) /\ n \in Nat /\ n <= 2
      /\ file.g \in [C!Key -> Texts] /\ DOMAIN file.servers = 1 .. n
  BY LenProperties DEF ConfInv, ConfTypes, Files
<1>. HIDE DEF n
<1>1. ASSUME NEW k \in C!Key, NEW text \in C!Text, C!EditKey(k, text) PROVE ConfInv'
  <2>. DEFINE g == [file.g EXCEPT ![k] = text]
              f == [file EXCEPT !.g = g]
  <2>1. C!Edit(f)
    BY <1>1 DEF C!EditKey
  <2>2. g \in [C!Key -> Texts]
    BY <1>0 DEF Texts
  <2>. HIDE DEF g
  <2>3. f \in Files /\ f.servers = file.servers
    BY <1>0, <2>2 DEF Files
  <2>. HIDE DEF f
  <2>. QED
    BY <1>0, <2>1, <2>3, ConfEdited DEF n
<1>2. ASSUME NEW k \in C!SKey, NEW text \in C!Text, C!EditServer(k, text) PROVE ConfInv'
  <2>. DEFINE s  == [file.servers[1] EXCEPT ![k] = text]
              ss == [file.servers EXCEPT ![1] = s]
              f  == [file EXCEPT !.servers = ss]
  <2>1. C!Edit(f) /\ file.servers # << >>
    BY <1>2 DEF C!EditServer
  <2>2. 1 \in 1 .. n
    <3>1. n # 0
      BY <1>0, <2>1, EmptySeq DEF n
    <3>. QED
      BY <1>0, <3>1
  <2>3. file.servers[1] \in [C!SKey -> Texts]
    BY <1>0, <2>2, ElementOfSeq DEF n
  <2>4. s \in [C!SKey -> Texts]
    BY <2>3 DEF Texts
  <2>. HIDE DEF s
  <2>5. ss \in Seq([C!SKey -> Texts]) /\ Len(ss) = n
    BY <1>0, <2>2, <2>4, ExceptSeq DEF n
  <2>. HIDE DEF ss
  <2>6. f \in Files /\ f.servers = ss
    BY <1>0, <2>5 DEF Files
  <2>. HIDE DEF f
  <2>7. Len(f.servers) <= 2
    BY <1>0, <2>5, <2>6
  <2>. QED
    BY <2>1, <2>6, <2>7, ConfEdited
<1>3. ASSUME C!EditUsers PROVE ConfInv'
  <2>. DEFINE f == [file EXCEPT !.users = "b"]
  <2>1. C!Edit(f)
    BY <1>3 DEF C!EditUsers
  <2>2. f \in Files /\ f.servers = file.servers
    BY <1>0 DEF Files
  <2>. HIDE DEF f
  <2>. QED
    BY <1>0, <2>1, <2>2, ConfEdited DEF n
<1>4. ASSUME C!AddServer PROVE ConfInv'
  <2>. DEFINE ss == file.servers \o file.servers
              f  == [file EXCEPT !.servers = ss]
  <2>1. C!Edit(f) /\ n = 1
    BY <1>4 DEF C!AddServer, n
  <2>2. ss \in Seq([C!SKey -> Texts]) /\ Len(ss) = n + n
    BY <1>0, ConcatProperties DEF n
  <2>. HIDE DEF ss
  <2>3. f \in Files /\ f.servers = ss
    BY <1>0, <2>2 DEF Files
  <2>. HIDE DEF f
  <2>4. Len(f.servers) <= 2
    <3>1. n + n = 2
      BY <2>1
    <3>2. Len(f.servers) = 2
      BY <2>2, <2>3, <3>1
    <3>. QED
      BY <3>2
  <2>. QED
    BY <2>1, <2>3, <2>4, ConfEdited
<1>5. ASSUME C!RemoveServer PROVE ConfInv'
  <2>. DEFINE ss == Tail(file.servers)
              f  == [file EXCEPT !.servers = ss]
  <2>1. C!Edit(f) /\ file.servers # << >>
    BY <1>5 DEF C!RemoveServer
  <2>2. ss \in Seq([C!SKey -> Texts]) /\ Len(ss) = n - 1
    BY <1>0, <2>1, HeadTailProperties DEF n
  <2>. HIDE DEF ss
  <2>3. f \in Files /\ f.servers = ss
    BY <1>0, <2>2 DEF Files
  <2>. HIDE DEF f
  <2>4. Len(f.servers) <= 2
    BY <1>0, <2>2, <2>3
  <2>. QED
    BY <2>1, <2>3, <2>4, ConfEdited
<1>10. ASSUME NEW m \in {"reserved", "duplicate"}, C!EditNames(m) PROVE ConfInv'
  <2>. DEFINE f == [file EXCEPT !.names = m]
  <2>1. C!Edit(f)
    BY <1>10 DEF C!EditNames
  <2>2. f \in Files /\ f.servers = file.servers
    BY <1>0 DEF Files
  <2>. HIDE DEF f
  <2>. QED
    BY <1>0, <2>1, <2>2, ConfEdited DEF n
<1>6. ASSUME NEW k, NEW text, C!EditKey(k, text) PROVE k \in C!Key
  BY <1>6 DEF C!EditKey
<1>7. "b" \in C!Text
  BY DEF C!Text
<1>9. "user" \in C!SKey
  BY KeyFacts
<1>. QED
  BY <1>1, <1>2, <1>3, <1>4, <1>5, <1>6, <1>7, <1>9, <1>10 DEF C!SomeEdit

\* The requests of the races name a key of the file.
LEMMA SomeRequest ==
    ASSUME NEW p \in Setter, C!SomeSet(p)
    PROVE  \E r \in C!Request : C!SetStart(p, r)
<1>1. \A k \in Probe : [server |-> 0, key |-> k, text |-> "b"] \in C!Request
  BY ProcessesAssumption DEF C!Request, C!Text
<1>. QED
  BY <1>1 DEF C!SomeSet

LEMMA StepConf ==
    ASSUME ConfInv, [C!Next]_configuration
    PROVE  ConfInv'
<1>1. CASE UNCHANGED configuration
  <2>1. UNCHANGED << scope, file, certs, edits, config, foreign, mixed, job >>
    BY <1>1 DEF configuration
  <2>2. ConfTypes'
    BY <2>1 DEF ConfInv, ConfTypes
  <2>3. \A q \in C!Process : CopyInv(job[q], config)' /\ NewInv(q, job[q])'
    BY <2>1 DEF ConfInv, CopyInv, NewInv, OwnChange, C!SideEffects
  <2>4. AloneInv' /\ LiveInv(config)'
    BY <2>1 DEF ConfInv, AloneInv, LiveInv, C!Transferring, C!Unfilled
  <2>. QED
    BY <2>2, <2>3, <2>4 DEF ConfInv
<1>2. ASSUME NEW p \in Setter, C!SetterStep(p) PROVE ConfInv'
  <2>0. p \in C!Process
    BY PcFacts
  <2>. QED
    BY <1>2, <2>0, SomeRequest, ConfStarts, ConfCopies, ConfValidates, ConfAnswers DEF C!SetterStep
<1>3. ASSUME NEW p \in C!Process, C!Check(p) \/ C!TransferBlock(p) \/ C!Dies(p) PROVE ConfInv'
  BY <1>3, ConfChecks, ConfTransfers, ConfDies
<1>. QED
  BY <1>1, <1>2, <1>3, ConfReads, ConfEdits, ConfCerts DEF C!Next

\* What the file of the start makes of the keys it must have.
LEMMA StartValues ==
    /\ C!AtStart.g["host"] = "a" /\ C!AtStart.g["metrics"] = "a"
    /\ C!AtStart.g["unix_socket_dir"] = "a" /\ C!AtStart.g["bridge_json"] = "default"
<1>1. \A k \in C!Key : C!AtStart.g[k] = C!StoredOrAbsent(C!GlobalKeys[k], C!StartFile.g[k])
  BY DEF C!AtStart, C!ReadFile, C!Field
<1>2. /\ C!StartFile.g["host"] = "a" /\ C!StartFile.g["metrics"] = "a"
      /\ C!StartFile.g["unix_socket_dir"] = "a" /\ C!StartFile.g["bridge_json"] = "absent"
  BY Kinds DEF C!StartFile
<1>. QED
  BY <1>1, <1>2, Kinds DEF C!StoredOrAbsent, C!Stored

LEMMA ConfSound == ConfInv => RunningIsValid
<1>. SUFFICES ASSUME ConfInv PROVE RunningIsValid
  OBVIOUS
<1>1. ASSUME NEW c, c \in Structures, Len(c.servers) <= 2 PROVE C!Structure(c)
  <2>. DEFINE n == Len(c.servers)
  <2>1. n \in Nat /\ n <= 2
    BY <1>1, LenProperties DEF Structures
  <2>. HIDE DEF n
  <2>2. n \in 0 .. 2
    BY <2>1
  <2>. QED
    BY <1>1, <2>2 DEF C!Structure, Structures, n
<1>2. ASSUME NEW c, Sized(c) PROVE C!Structure(c)
  <2>. DEFINE n == Len(c.servers)
  <2>1. n \in 1 .. 2
    BY <1>2 DEF Sized
  <2>. HIDE DEF n
  <2>2. n <= 2
    BY <2>1
  <2>. QED
    BY <1>1, <1>2, <2>2 DEF Sized, n
<1>3. C!TypeOK
  <2>1. \A p \in C!Process : /\ job[p].pc \in C!CopyBlocks \cup C!Decided \cup {"idle", "validate", "done", "died", "exited"}
                             /\ job[p].pc \in C!CopyBlocks \cup {"validate"} => C!Structure(job[p].copy)
                             /\ job[p].pc \in C!Decided => C!Structure(job[p].new)
    <3>. TAKE p \in C!Process
    <3>1. job[p] \in Jobs /\ CopyInv(job[p], config) /\ NewInv(p, job[p])
      BY DEF ConfInv, ConfTypes
    <3>2. job[p].pc \in Copying => C!Structure(job[p].copy)
      BY <1>1, <3>1 DEF CopyInv
    <3>3. job[p].pc \in C!Decided => C!Structure(job[p].new)
      BY <1>2, <3>1 DEF NewInv, Usable
    <3>. QED
      BY <3>1, <3>2, <3>3 DEF Jobs, Copying
  <2>. QED
    BY <1>2, <2>1 DEF C!TypeOK, ConfInv, ConfTypes
<1>4. C!ValuesValid
  <2>1. LiveInv(config)
    BY DEF ConfInv
  <2>2. /\ config.g["host"] = "a" /\ config.g["metrics"] = "a"
        /\ config.g["unix_socket_dir"] = "a" /\ config.g["bridge_json"] = "default"
    BY <2>1, StartValues DEF LiveInv, BoundLike, C!BoundAtStart
  <2>3. C!PortsValid(config)
    BY <2>2 DEF C!PortsValid
  <2>4. config.servers # << >>
    <3>. DEFINE n == Len(config.servers)
    <3>1. n \in 1 .. 2
      BY DEF ConfInv, ConfTypes, Sized
    <3>. HIDE DEF n
    <3>2. n # 0
      BY <3>1
    <3>. QED
      BY <3>2 DEF n
  <2>. QED
    BY <2>1, <2>2, <2>3, <2>4 DEF C!ValuesValid, LiveInv, ServersProper
<1>5. C!RunningIsValid
  BY DEF C!RunningIsValid, ConfInv, AloneInv
<1>. QED
  BY <1>3, <1>4, <1>5 DEF RunningIsValid

\* For any number of processes that set and reload, whose unlocked copies and transfers of
\* the structure interleave block by block, every value of the running configuration is one
\* that pgexporter_validate_configuration accepted, and after a transfer that no other
\* overlapped the servers know their users as well.
THEOREM RunningStaysValid == PartSpec => []RunningIsValid
<1>1. PartInit => ConfInv
  BY InitConf DEF PartInit
<1>2. ConfInv /\ [PartNext]_<< part, connections, configuration >> => ConfInv'
  BY StepConf DEF PartNext
<1>. QED
  BY <1>1, <1>2, ConfSound, PTL DEF PartSpec

\* What holds of every state and is not about validity.
LEMMA ConfContained == ConfInv => C!StructuralFixed /\ C!CopyIsFaithful
<1>. SUFFICES ASSUME ConfInv PROVE C!StructuralFixed /\ C!CopyIsFaithful
  OBVIOUS
<1>1. C!StructuralFixed
  BY DEF ConfInv, LiveInv, BoundLike, FirstServer, C!StructuralFixed
<1>2. C!CopyIsFaithful
  <2>. SUFFICES ASSUME NEW p \in Setter, job[p].pc = "validate", job[p].alone
                PROVE  /\ job[p].copy.servers = config.servers
                       /\ \A k \in C!Field \ (C!NeverSet \cup {"metric_names"}) : job[p].copy.g[k] = config.g[k]
    BY DEF C!CopyIsFaithful
  <2>1. "validate" \in Copying /\ "validate" \notin NoServersYet
    BY DEF Copying, NoServersYet
  <2>2. /\ job[p].copy.servers = config.servers
        /\ \A k \in CopiedKeys("validate") \ C!NotCopied : job[p].copy.g[k] = config.g[k]
    BY <2>1, PcFacts DEF ConfInv, CopyInv
  <2>3. C!Field \subseteq CopiedKeys("validate")
    BY DEF CopiedKeys, C!CopyValues
  <2>4. C!NotCopied \subseteq C!NeverSet \cup {"metric_names"}
    BY DEF C!NotCopied, C!NeverSet
  <2>. QED
    BY <2>2, <2>3, <2>4
<1>. QED
  BY <1>1, <1>2

\* Only a transfer writes.
LEMMA OnlyTransfersWrite ==
    ASSUME ConfInv, [C!Next]_configuration,
           config' # config \/ \E p \in C!Process : job[p].pc \in C!Blocks /\ job'[p] # job[p]
    PROVE  \E p \in C!Process : C!TransferBlock(p) \/ C!Dies(p)
<1>. SUFFICES ASSUME \A p \in C!Process : ~ C!TransferBlock(p) /\ ~ C!Dies(p)
              PROVE  config' = config /\ \A p \in C!Process : job[p].pc \in C!Blocks => job'[p] = job[p]
  OBVIOUS
<1>0. job \in [C!Process -> Jobs]
  BY DEF ConfInv, ConfTypes
<1>1. ASSUME NEW p \in C!Process, NEW x, job' = [job EXCEPT ![p] = x], job[p].pc \notin C!Blocks
      PROVE  \A q \in C!Process : job[q].pc \in C!Blocks => job'[q] = job[q]
  BY <1>0, <1>1
<1>2. ASSUME NEW p \in C!Process, NEW b, NEW a, C!Finish(p, b, a), job[p].pc \notin C!Blocks
      PROVE  \A q \in C!Process : job[q].pc \in C!Blocks => job'[q] = job[q]
  BY <1>1, <1>2 DEF C!Finish
<1>3. ASSUME NEW p \in Setter, C!SetterStep(p)
      PROVE  config' = config /\ \A q \in C!Process : job[q].pc \in C!Blocks => job'[q] = job[q]
  <2>0. p \in C!Process
    BY PcFacts
  <2>1. CASE C!SomeSet(p)
    <3>1. PICK r \in C!Request : C!SetStart(p, r)
      BY <2>1, SomeRequest
    <3>2. job[p].pc \notin C!Blocks
      BY <3>1 DEF C!SetStart, C!Blocks
    <3>. QED
      BY <1>1, <2>0, <3>1, <3>2 DEF C!SetStart
  <2>2. CASE C!SetCopy(p)
    <3>1. job[p].pc \notin C!Blocks
      BY <2>2 DEF C!SetCopy, C!Blocks, C!CopyBlocks
    <3>. QED
      BY <1>1, <2>0, <2>2, <3>1 DEF C!SetCopy
  <2>3. CASE C!SetValidate(p)
    <3>1. job[p].pc \notin C!Blocks /\ config' = config
      BY <2>3 DEF C!SetValidate, C!Blocks
    <3>. QED
      BY <1>1, <1>2, <2>0, <2>3, <3>1 DEF C!SetValidate, C!End
  <2>4. CASE C!SetAnswer(p)
    <3>1. job[p].pc \notin C!Blocks /\ config' = config
      BY <2>4 DEF C!SetAnswer, C!Blocks
    <3>. QED
      BY <1>2, <2>0, <2>4, <3>1 DEF C!SetAnswer, C!End
  <2>. QED
    BY <1>3, <2>1, <2>2, <2>3, <2>4 DEF C!SetterStep
<1>4. ASSUME NEW p \in C!Process, C!Check(p)
      PROVE  config' = config /\ \A q \in C!Process : job[q].pc \in C!Blocks => job'[q] = job[q]
  <2>1. job[p].pc \notin C!Blocks /\ config' = config
    BY <1>4 DEF C!Check, C!Blocks
  <2>2. CASE C!End(p, "restart")
    BY <1>2, <2>1, <2>2 DEF C!End
  <2>3. CASE C!Goto(p, "values")
    <3>1. job' = [job EXCEPT ![p] = [job[p] EXCEPT !.pc = "values"]]
      BY <2>3 DEF C!Goto
    <3>. QED
      BY <1>1, <2>1, <3>1
  <2>. QED
    BY <1>4, <2>2, <2>3 DEF C!Check
<1>5. CASE C!ReloadRead
  <2>1. job["main"].pc \notin C!Blocks /\ config' = config /\ "main" \in C!Process
    BY <1>5, PcFacts DEF C!ReloadRead, C!Blocks
  <2>2. CASE C!Finish("main", "exited", "none")
    BY <1>2, <2>1, <2>2
  <2>3. CASE job' = [job EXCEPT !["main"].pc = "check", !["main"].new = C!Normalise(C!Load(file))]
    <3>. DEFINE x == [job["main"] EXCEPT !.pc = "check", !.new = C!Normalise(C!Load(file))]
    <3>1. job' = [job EXCEPT !["main"] = x]
      BY <2>3
    <3>. HIDE DEF x
    <3>. QED
      BY <1>1, <2>1, <3>1
  <2>. QED
    BY <1>5, <2>2, <2>3 DEF C!ReloadRead
<1>6. CASE C!SomeEdit \/ C!CertsRemoved
  BY <1>6 DEF C!SomeEdit, C!EditKey, C!EditServer, C!EditUsers, C!EditNames, C!AddServer, C!RemoveServer,
              C!Edit, C!CertsRemoved
<1>7. CASE UNCHANGED configuration
  BY <1>7 DEF configuration
<1>. QED
  BY <1>3, <1>4, <1>5, <1>6, <1>7 DEF C!Next

LEMMA StepServers ==
    ASSUME ConfInv, [C!Next]_configuration
    PROVE  [~ mixed => Len(config'.servers) >= Len(config.servers)]_config
<1>. SUFFICES ASSUME config' # config, ~ mixed PROVE Len(config'.servers) >= Len(config.servers)
  OBVIOUS
<1>1. PICK p \in C!Process : C!TransferBlock(p)
  BY OnlyTransfersWrite DEF C!Dies
<1>. DEFINE b == job[p].pc
            n == job[p].new
<1>2. b \in C!Blocks /\ Sized(n) /\ Sized(config) /\ config' = C!Write(config, n, b) /\ DoneInv(job[p], config)
  BY <1>1, PcFacts DEF ConfInv, ConfTypes, NewInv, Usable, AloneInv, C!TransferBlock
<1>3. Wrote(config', config, n, b)
  BY <1>2, Writes
<1>4. Len(config.servers) \in Nat /\ Len(n.servers) \in Nat
  BY <1>2, LenProperties DEF Sized, Structures
<1>5. CASE b = "servers"
  BY <1>2, <1>3, <1>4, <1>5 DEF Wrote, DoneInv
<1>6. CASE b # "servers"
  <2>1. Len(config'.servers) = Len(config.servers)
    BY <1>3, <1>6 DEF Wrote
  <2>. QED
    BY <1>4, <2>1
<1>. QED
  BY <1>5, <1>6

LEMMA StepTouches ==
    ASSUME ConfInv, [C!Next]_configuration, NEW p \in Setter, job[p].pc \in C!Blocks, job'[p] # job[p]
    PROVE  LET r == job[p].request
               c == job[p].copy
           IN  /\ \A k \in C!Field :
                     \/ config'.g[k] \in {config.g[k], c.g[k]}
                     \/ r.server = 0 /\ k = r.key
                     \/ k \in C!SideEffects(r) \cup C!Cleared(job[p].pc)
               /\ job[p].pc = "servers" =>
                     /\ DOMAIN config'.servers = DOMAIN c.servers
                     /\ \A i \in DOMAIN c.servers, k \in C!SKey :
                           config'.servers[i][k] = c.servers[i][k] \/ (r.server = i /\ k = r.key)
<1>. DEFINE r == job[p].request
            c == job[p].copy
            b == job[p].pc
            n == job[p].new
<1>0. p \in C!Process /\ job \in [C!Process -> Jobs]
  BY PcFacts DEF ConfInv, ConfTypes
<1>1. /\ b \in C!Blocks /\ Sized(n) /\ Sized(config) /\ ~ job[p].alone /\ OwnChange(job[p])
  BY <1>0, PcFacts DEF ConfInv, ConfTypes, NewInv, Usable
<1>2. PICK q \in C!Process : C!TransferBlock(q) \/ C!Dies(q)
  BY <1>0, OnlyTransfersWrite
<1>3. q = p
  <2>. SUFFICES ASSUME q # p PROVE FALSE
    OBVIOUS
  <2>1. CASE C!Dies(q)
    BY <1>0, <2>1 DEF C!Dies, C!Finish
  <2>2. CASE C!TransferBlock(q)
    <3>1. job'[p] = [job[p] EXCEPT !.alone = FALSE]
      BY <1>0, <2>2 DEF C!TransferBlock
    <3>2. job[p].alone = FALSE /\ job[p] \in Jobs
      BY <1>0, <1>1 DEF Jobs
    <3>3. [job[p] EXCEPT !.alone = FALSE] = job[p]
      BY <3>2 DEF Jobs
    <3>. QED
      BY <3>1, <3>3
  <2>. QED
    BY <1>2, <2>1, <2>2
<1>4. CASE C!Dies(p)
  <2>1. config' = config /\ b # "servers"
    BY <1>4 DEF C!Dies
  <2>. QED
    BY <2>1
<1>5. CASE C!TransferBlock(p)
  <2>1. Wrote(config', config, n, b)
    BY <1>1, <1>5, Writes DEF C!TransferBlock
  <2>2. \A k \in C!Field : \/ config'.g[k] \in {config.g[k], c.g[k]}
                           \/ r.server = 0 /\ k = r.key
                           \/ k \in C!SideEffects(r) \cup C!Cleared(b)
    <3>. TAKE k \in C!Field
    <3>1. CASE k \in C!NotTransferred
      BY <2>1, <3>1 DEF Wrote
    <3>2. CASE k \notin C!NotTransferred
      <4>1. config'.g[k] \in {config.g[k], n.g[k]} \/ k \in C!Cleared(b)
        BY <2>1 DEF Wrote
      <4>2. n.g[k] = c.g[k] \/ (r.server = 0 /\ k = r.key) \/ k \in C!SideEffects(r)
        BY <1>1, <3>2 DEF OwnChange
      <4>. QED
        BY <4>1, <4>2
    <3>. QED
      BY <3>1, <3>2
  <2>3. b = "servers" => config'.servers = n.servers
    BY <2>1 DEF Wrote
  <2>. QED
    BY <1>1, <2>2, <2>3 DEF OwnChange
<1>. QED
  BY <1>2, <1>3, <1>4, <1>5

LEMMA StepReload ==
    ASSUME ConfInv, [C!Next]_configuration,
           job["main"].pc = "alerts", job'["main"].pc = "idle", ~ mixed
    PROVE  /\ \A k \in C!Field \ C!NotLikeRestart : config'.g[k] = job["main"].new.g[k]
           /\ config'.servers = job["main"].new.servers
           /\ "main" \notin foreign'
<1>. DEFINE n == job["main"].new
<1>0. "main" \in C!Process /\ "alerts" \in C!Blocks /\ job \in [C!Process -> Jobs]
  BY PcFacts DEF C!Blocks, ConfInv, ConfTypes
<1>1. Sized(n) /\ Sized(config) /\ DoneInv(job["main"], config) /\ "main" \notin foreign
  BY <1>0, PcFacts DEF ConfInv, ConfTypes, NewInv, Usable, AloneInv
<1>2. PICK q \in C!Process : C!TransferBlock(q) \/ C!Dies(q)
  BY <1>0, OnlyTransfersWrite
<1>3. q = "main"
  <2>1. job[q].pc \in C!Blocks \/ C!Dies(q)
    BY <1>2 DEF C!TransferBlock
  <2>2. CASE job[q].pc \in C!Blocks
    BY <1>0, <2>2 DEF ConfInv, AloneInv
  <2>3. CASE C!Dies(q)
    BY <1>0, <2>3 DEF C!Dies, C!Finish
  <2>. QED
    BY <2>1, <2>2, <2>3
<1>4. C!TransferBlock("main")
  BY <1>2, <1>3 DEF C!Dies
<1>5. Wrote(config', config, n, "alerts") /\ foreign' = foreign
  BY <1>0, <1>1, <1>4, Writes DEF C!TransferBlock
<1>6. config'.servers = n.servers
  BY <1>0, <1>1, <1>5 DEF Wrote, DoneInv
<1>7. \A k \in C!Field \ C!NotLikeRestart : config'.g[k] = n.g[k]
  <2>. TAKE k \in C!Field \ C!NotLikeRestart
  <2>1. k \notin Left
    BY DEF Left, C!NotTransferred, C!NotLikeRestart
  <2>2. C!BlockKeys("alerts") = C!AlertKeys /\ C!Cleared("alerts") = {}
    BY DEF C!BlockKeys, C!Cleared
  <2>3. CASE k \in C!AlertKeys
    BY <1>5, <2>1, <2>2, <2>3 DEF Wrote
  <2>4. CASE k \notin C!AlertKeys
    <3>1. k \in DoneKeys("alerts")
      BY <2>4, BlockFacts DEF DoneKeys
    <3>2. config.g[k] = n.g[k]
      BY <1>0, <1>1, <2>1, <3>1 DEF DoneInv
    <3>. QED
      BY <1>5, <2>2, <2>4, <3>2 DEF Wrote
  <2>. QED
    BY <2>3, <2>4
<1>. QED
  BY <1>1, <1>5, <1>6, <1>7

\* For any number of requests and reloads, interleaved block by block: what was bound at the
\* start stays (check_restart_required, although the structure may have changed between the
\* check and the transfer), a transfer that runs alone takes no server away, the copy that
\* copy_configuration_values makes lacks nothing unless somebody writes meanwhile, and a
\* "conf set" writes its own key and otherwise what it copied.
THEOREM ChangesAreContained == PartSpec => ChangesContained
<1>1. PartInit => ConfInv
  BY InitConf DEF PartInit
<1>2. ConfInv /\ [PartNext]_<< part, connections, configuration >> => ConfInv'
  BY StepConf DEF PartNext
<1>3. ConfInv => (part = "configuration" => C!StructuralFixed /\ C!CopyIsFaithful)
  BY ConfContained
<1>4. ASSUME ConfInv, [PartNext]_<< part, connections, configuration >>
      PROVE  /\ [~ mixed => Len(config'.servers) >= Len(config.servers)]_config
             /\ [ \A p \in Setter :
                    job[p].pc \in C!Blocks /\ job'[p] # job[p] =>
                        LET r == job[p].request
                            c == job[p].copy
                        IN  /\ \A k \in C!Field :
                                  \/ config'.g[k] \in {config.g[k], c.g[k]}
                                  \/ r.server = 0 /\ k = r.key
                                  \/ k \in C!SideEffects(r) \cup C!Cleared(job[p].pc)
                            /\ job[p].pc = "servers" =>
                                  /\ DOMAIN config'.servers = DOMAIN c.servers
                                  /\ \A i \in DOMAIN c.servers, k \in C!SKey :
                                        config'.servers[i][k] = c.servers[i][k] \/ (r.server = i /\ k = r.key)
                ]_<< config, job >>
  <2>1. [C!Next]_configuration
    BY <1>4 DEF PartNext
  <2>. QED
    BY <1>4, <2>1, StepServers, StepTouches
<1>. QED
  BY <1>1, <1>2, <1>3, <1>4, PTL
     DEF PartSpec, ChangesContained, C!ServersStay, C!SetTouchesOnlyItsKey

\* Whatever was set or reloaded before, a reload that no other transfer overlaps makes
\* everything what a restart would make it, but for the certificates of the history port, the
\* extensions, the alert definitions and a log_line_prefix that changed alone; and the query
\* trees in shared memory are the main process's own (transfer_configuration).
THEOREM ReloadsLikeRestart == PartSpec => ReloadLikeRestart
<1>1. PartInit => ConfInv
  BY InitConf DEF PartInit
<1>2. ConfInv /\ [PartNext]_<< part, connections, configuration >> => ConfInv'
  BY StepConf DEF PartNext
<1>3. ASSUME ConfInv, [PartNext]_<< part, connections, configuration >>
      PROVE  [ job["main"].pc = "alerts" /\ job'["main"].pc = "idle" /\ ~ mixed =>
                 /\ \A k \in C!Field \ C!NotLikeRestart : config'.g[k] = job["main"].new.g[k]
                 /\ config'.servers = job["main"].new.servers
                 /\ "main" \notin foreign'
             ]_<< config, job >>
  <2>1. [C!Next]_configuration
    BY <1>3 DEF PartNext
  <2>. QED
    BY <1>3, <2>1, StepReload
<1>. QED
  BY <1>1, <1>2, <1>3, PTL DEF PartSpec, ReloadLikeRestart, C!ReloadLikeRestart
=============================================================================
