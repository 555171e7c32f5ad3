-------------------------- MODULE ResponsesProofs --------------------------
(***************************************************************************)
(* What a response shows, for each of the two parts of Responses:          *)
(*  - Exposition: the results of the queries, for any metrics, servers and *)
(*    results;                                                             *)
(*  - PrometheusClient: what the endpoints of a bridge sent, for any       *)
(*    number of endpoints, any responses and any limit on the values that  *)
(*    are kept.                                                            *)
(***************************************************************************)
EXTENDS Responses, WellFoundedInduction, TLAPS

----------------------------------------------------------------------------
(* Exposition. The definitions: U holds what they and the results consist  *)
(* of.                                                                     *)

Column(U) == [name : U, type : U]

ValuesOf(columns) == {c \in DOMAIN columns : columns[c].type # "label"}

\* The columns of a query have different names; a row that is returned has a column.
Defined(U, m) ==
    /\ m.tag \in U /\ m.sort \in U /\ m.histogram \in U
    /\ \A v \in DOMAIN m.columns :
         /\ m.columns[v] \in Seq(Column(U))
         /\ \A c, d \in ValuesOf(m.columns[v]) : m.columns[v][c].name = m.columns[v][d].name => c = d
    /\ Returned(m) \subseteq Seq(Seq(U) \ {<< >>})

\* Queries with the same tag and column, which are alternatives of one metric unless names
\* are published twice, agree on the order of the rows and on the type of the column.
Agree(m, n) ==
    m.tag = n.tag =>
        \A v \in DOMAIN m.columns, w \in DOMAIN n.columns :
            \A c \in ValuesOf(m.columns[v]), d \in ValuesOf(n.columns[w]) :
                m.columns[v][c].name = n.columns[w][d].name =>
                    m.columns[v][c].type = n.columns[w][d].type /\ m.sort = n.sort

Sound(U, s) ==
    /\ s.metrics \in Seq(U) /\ s.servers \in Seq(U)
    /\ \A i \in DOMAIN s.metrics : Defined(U, s.metrics[i])
    /\ \A i, j \in DOMAIN s.metrics : Agree(s.metrics[i], s.metrics[j])
    /\ \A i \in DOMAIN s.servers : s.servers[i].databases \in Seq(U) \ {<< >>}

Universe(U) == MaxColumns \in Nat /\ {"", "name"} \subseteq U /\ \A s \in Scrapes : Sound(U, s)

DefinitionsAgree == \E U : Universe(U)

----------------------------------------------------------------------------
(* The inductive invariant.                                                *)

ResultSet(U) ==
    [tag : U, sort : U, histogram : U, server : Nat, database : U, columns : Seq(Column(U)),
     rows : Seq(Seq(U)), nr : Nat]

LineSet(U) == [tag : U, name : U, nr : Nat, at : Nat, row : Seq(U), database : U, server : Nat]

EntrySet(U) == [tag : U, name : U, type : U, sort : U, lines : Seq(LineSet(U))]

Types(U) ==
    /\ scrape \in Scrapes
    /\ stage \in {"query", "gather", "done", "exit"}
    /\ ask \in [metric : Nat \ {0}, server : Nat \ {0}, database : Nat \ {0}]
    /\ sent \in Seq(ResultSet(U)) /\ list \in Seq(ResultSet(U))
    /\ cell \in [column : Nat \ {0}, row : Nat \ {0}]
    /\ store \in Seq(EntrySet(U)) /\ entry \in Nat /\ entry <= Len(store)
    /\ text \in Seq(LineSet(U))

\* Each result is one of a query that was defined.
Of(node, m) ==
    /\ node.tag = m.tag /\ node.sort = m.sort
    /\ \E v \in DOMAIN m.columns : node.columns = m.columns[v]
    /\ node.rows \in Returned(m) \cup {E!Failed}

SentAreResults ==
    \A n \in DOMAIN sent :
        /\ sent[n].nr = n
        /\ \E a \in DOMAIN scrape.metrics : Of(sent[n], scrape.metrics[a])

ListIsSent ==
    /\ \A i \in DOMAIN list : list[i].nr \in DOMAIN sent /\ list[i] = sent[list[i].nr]
    /\ \A i, j \in DOMAIN list : i < j => list[i].nr < list[j].nr

Listed(n) == \E i \in DOMAIN list : list[i].nr = n

NoneLost == stage = "query" => \A n \in DOMAIN sent : sent[n].rows # E!Failed => Listed(n)

\* The inner loop starts again before the outer one goes on.
LoopsNested ==
    /\ fds \subseteq DOMAIN scrape.servers
    /\ IF scrape.kind = "custom" THEN ask.server = 1 \/ ask.server <= Len(scrape.servers)
       ELSE ask.metric = 1 \/ ask.metric <= Len(scrape.metrics)

\* The loops came past this database.
Behind(i, s, d) ==
    IF scrape.kind = "custom"
      THEN \/ i < ask.metric
           \/ i = ask.metric /\ (s < ask.server \/ (s = ask.server /\ d < ask.database))
      ELSE \/ s < ask.server
           \/ s = ask.server /\ (i < ask.metric \/ (i = ask.metric /\ d < ask.database))

BehindAsked ==
    /\ stage = "query" =>
         \A i \in DOMAIN scrape.metrics, s \in fds :
            LET m == scrape.metrics[i]
            IN  E!Passes(m.collector) /\ E!Applies(m, s) =>
                  \A d \in DOMAIN E!DatabasesOf(m, s) : Behind(i, s, d) => E!Asked(m, s, d)
    /\ E!EverythingAsked

\* Nothing is gathered before all was asked for, nothing rendered before all was gathered.
InOrder ==
    /\ stage = "query" => cell = [column |-> 1, row |-> 1] /\ store = << >>
    /\ entry = 0 => text = << >>
    /\ entry # 0 => stage \in {"gather", "done"} /\ list = << >>
    /\ stage = "done" => list = << >> /\ entry = Len(store)

CellIs == list # << >> /\ Head(list).rows # E!Failed => cell.row \in E!RowsOf(Head(list))

\* The cells that were gathered.
Gathered(n, c, r) ==
    \/ ~ Listed(n)
    \/ /\ list # << >> /\ n = Head(list).nr
       /\ c < cell.column \/ (c = cell.column /\ r < cell.row)

Cell(n, c, r) ==
    /\ n \in DOMAIN sent /\ sent[n].rows # E!Failed
    /\ c \in E!ValueColumns(sent[n]) /\ r \in E!RowsOf(sent[n]) /\ ~ E!Empty(sent[n], c, r)

EntriesWhole ==
    \A k \in DOMAIN store :
        /\ store[k].lines # << >>
        /\ \A i \in DOMAIN store[k].lines :
             /\ store[k].lines[i].tag = store[k].tag /\ store[k].lines[i].name = store[k].name
             /\ store[k].lines[i].nr = 0 <=> i = 1

EntriesApart ==
    \A k, l \in DOMAIN store : store[k].tag = store[l].tag /\ store[k].name = store[l].name => k = l

\* Each entry is that of a column.
EntriesAreColumns ==
    \A k \in DOMAIN store : \E n \in DOMAIN sent : \E c \in E!ValueColumns(sent[n]) :
        E!Matches(store[k], E!Entry(sent[n], c))

LinesAreCells ==
    \A k \in DOMAIN store : \A i \in DOMAIN store[k].lines : i # 1 =>
        \E n \in DOMAIN sent : \E c \in E!ValueColumns(sent[n]), r \in E!RowsOf(sent[n]) :
            Cell(n, c, r) /\ Gathered(n, c, r) /\ store[k].lines[i] = E!Line(sent[n], c, r)

LinesApart ==
    \A k \in DOMAIN store : \A i, j \in DOMAIN store[k].lines :
        /\ i # 1 /\ j # 1
        /\ store[k].lines[i].nr = store[k].lines[j].nr /\ store[k].lines[i].at = store[k].lines[j].at
        => i = j

Stored(n, c, r) == \E k \in DOMAIN store : \E i \in DOMAIN store[k].lines : store[k].lines[i] = E!Line(sent[n], c, r)

\* Full, and without an entry for the column.
LeftOut(n, c) == Len(store) >= MaxColumns /\ E!Unknown(sent[n], c)

CellsAreStored ==
    stage # "query" =>
        \A n \in DOMAIN sent : \A c \in E!ValueColumns(sent[n]), r \in E!RowsOf(sent[n]) :
            Cell(n, c, r) /\ Gathered(n, c, r) => LeftOut(n, c) \/ Stored(n, c, r)

\* A line that is sorted by its first column.
Keyed(l) == l.nr # 0 /\ l.row # << >> /\ sent[l.nr].sort = "data"

\* Those at q are grouped by their keys, and those without a key come last.
OrderedBy(q, key) ==
    \A i, j \in q : i < j =>
        /\ key[i] = Missing => key[j] = Missing
        /\ \A k \in q : j < k /\ key[k] = key[i] => key[j] = key[i]

KeyedAt(ls) == {i \in DOMAIN ls : Keyed(ls[i])}

KeysOf(ls) == [i \in DOMAIN ls |-> ls[i].row[1]]

GroupedIn(ls) == OrderedBy(KeyedAt(ls), KeysOf(ls))

EntriesGrouped == \A k \in DOMAIN store : GroupedIn(store[k].lines)

TextIsStore ==
    /\ \A i \in DOMAIN text : \E k \in 1..entry : \E x \in DOMAIN store[k].lines : text[i] = store[k].lines[x]
    /\ \A k \in 1..entry : \A x \in DOMAIN store[k].lines : \E i \in DOMAIN text : text[i] = store[k].lines[x]

TextApart ==
    \A i, j \in DOMAIN text :
        text[i].nr # 0 /\ text[i].nr = text[j].nr /\ text[i].name = text[j].name /\ text[i].at = text[j].at => i = j

Results == SentAreResults /\ ListIsSent /\ NoneLost /\ InOrder /\ CellIs

Entries ==
    /\ EntriesWhole /\ EntriesApart /\ EntriesAreColumns
    /\ LinesAreCells /\ LinesApart /\ CellsAreStored /\ EntriesGrouped

TextSound == TextIsStore /\ TextApart /\ E!FamiliesWhole /\ E!HeaderFirst /\ E!RowsGrouped

IInv(U) == Types(U) /\ Results /\ Entries /\ TextSound

----------------------------------------------------------------------------
(* Sequences.                                                              *)

\* A set of numbers that is not empty has a smallest one.
LEMMA Smallest ==
    ASSUME NEW T, T \subseteq Nat, T # {}
    PROVE  \E x \in T : \A y \in T : x <= y
<1>. DEFINE R == {ss \in Nat \X Nat : ss[1] < ss[2]}
<1>1. \E x \in T : \A y \in T : ~ (<< y, x >> \in R)
  <2>1. IsWellFoundedOn(R, Nat)
    BY NatLessThanWellFounded DEF OpToRel
  <2>. HIDE DEF R
  <2>. QED
    BY <2>1, WFMin
<1>2. PICK x \in T : \A y \in T : ~ (<< y, x >> \in R)
  BY <1>1
<1>3. \A y \in T : x <= y
  <2>. TAKE y \in T
  <2>1. x \in Nat /\ y \in Nat
    OBVIOUS
  <2>2. y < x => << y, x >> \in R
    BY <2>1
  <2>. QED
    BY <1>2, <2>1, <2>2
<1>. QED
  BY <1>3

LEMMA FirstIsLeast ==
    ASSUME NEW ks, ks \subseteq Nat, ks # {}
    PROVE  E!FirstOf(ks) \in ks /\ \A l \in ks : E!FirstOf(ks) <= l
BY Smallest DEF E!FirstOf

\* What InsertAt returns.
LEMMA Inserted ==
    ASSUME NEW S, NEW s \in Seq(S), NEW e \in S, NEW p \in 1..(Len(s) + 1)
    PROVE  /\ E!InsertAt(s, p, e) \in Seq(S)
           /\ Len(E!InsertAt(s, p, e)) = Len(s) + 1
           /\ \A j \in 1..(p - 1) : E!InsertAt(s, p, e)[j] = s[j]
           /\ E!InsertAt(s, p, e)[p] = e
           /\ \A j \in (p + 1)..(Len(s) + 1) : E!InsertAt(s, p, e)[j] = s[j - 1]
<1>. DEFINE a == SubSeq(s, 1, p - 1)
            b == SubSeq(s, p, Len(s))
            t == E!InsertAt(s, p, e)
<1>1. a \in Seq(S) /\ Len(a) = p - 1 /\ \A j \in 1..(p - 1) : a[j] = s[j]
  OBVIOUS
<1>2. b \in Seq(S) /\ Len(b) = Len(s) - p + 1 /\ \A j \in 1..(Len(s) - p + 1) : b[j] = s[p + j - 1]
  OBVIOUS
<1>3. t = (a \o << e >>) \o b
  BY DEF E!InsertAt
<1>. HIDE DEF a, b, t
<1>. DEFINE c == a \o << e >>
<1>4. c \in Seq(S) /\ Len(c) = p /\ c[p] = e /\ \A j \in 1..(p - 1) : c[j] = s[j]
  BY <1>1
<1>5. t = c \o b
  BY <1>3
<1>. HIDE DEF c
<1>6. t \in Seq(S) /\ Len(t) = Len(s) + 1
  <2>1. Len(s) \in Nat /\ p \in Nat
    OBVIOUS
  <2>2. t \in Seq(S) /\ Len(t) = Len(c) + Len(b)
    <3>1. c \in Seq(S) /\ b \in Seq(S)
      BY <1>2, <1>4
    <3>. QED
      BY <1>5, <3>1
  <2>. QED
    BY <1>2, <1>4, <2>1, <2>2
<1>7. \A j \in 1..p : t[j] = c[j]
  BY <1>2, <1>4, <1>5
<1>8. \A j \in (p + 1)..(Len(s) + 1) : t[j] = b[j - p]
  BY <1>2, <1>4, <1>5
<1>9. \A j \in (p + 1)..(Len(s) + 1) : t[j] = s[j - 1]
  BY <1>2, <1>8
<1>. QED
  BY <1>4, <1>6, <1>7, <1>9 DEF t

\* Where add_column_to_store puts a line.
LEMMA Added ==
    ASSUME NEW U, NEW ls \in Seq(LineSet(U)), NEW sort, NEW l \in LineSet(U), ls # << >>
    PROVE  \E p \in 2..(Len(ls) + 1) :
             /\ E!AddColumn(ls, sort, l) = E!InsertAt(ls, p, l)
             /\ sort = "data" =>
                  /\ \A j \in 2..(p - 1) : ~ E!Before(ls[j], l.row)
                  /\ p <= Len(ls) => E!Before(ls[p], l.row)
<1>. DEFINE stops == {i \in 2..Len(ls) : E!Before(ls[i], l.row)}
<1>0. Len(ls) \in Nat /\ Len(ls) >= 1
  OBVIOUS
<1>1. CASE sort # "data" \/ stops = {}
  <2>1. E!AddColumn(ls, sort, l) = E!InsertAt(ls, Len(ls) + 1, l)
    BY <1>1 DEF E!AddColumn
  <2>. QED
    BY <1>0, <1>1, <2>1
<1>2. CASE sort = "data" /\ stops # {}
  <2>1. E!AddColumn(ls, sort, l) = E!InsertAt(ls, E!FirstOf(stops), l)
    BY <1>2 DEF E!AddColumn
  <2>2. stops \subseteq Nat
    BY <1>0
  <2>3. E!FirstOf(stops) \in stops /\ \A j \in stops : E!FirstOf(stops) <= j
    BY <1>2, <2>2, FirstIsLeast
  <2>. DEFINE p == E!FirstOf(stops)
  <2>4. p \in 2..Len(ls) /\ E!Before(ls[p], l.row)
    BY <2>3
  <2>5. \A j \in 2..(p - 1) : ~ E!Before(ls[j], l.row)
    BY <1>0, <2>3, <2>4
  <2>6. E!AddColumn(ls, sort, l) = E!InsertAt(ls, p, l)
    BY <2>1
  <2>. HIDE DEF p
  <2>7. p \in 2..(Len(ls) + 1)
    BY <1>0, <2>4
  <2>. QED
    BY <2>4, <2>5, <2>6, <2>7
<1>. QED
  BY <1>1, <1>2

----------------------------------------------------------------------------
(* Results.                                                                *)

LEMMA FailedIs ==
    ASSUME NEW U PROVE E!Failed \in Seq(Seq(U)) /\ E!Failed \notin Seq(Seq(U) \ {<< >>}) /\ E!Failed # << >>
<1>1. << >> \in Seq(U)
  OBVIOUS
<1>2. E!Failed \in Seq(Seq(U)) /\ E!Failed # << >>
  BY <1>1 DEF E!Failed
<1>3. 1 \in DOMAIN E!Failed /\ E!Failed[1] = << >>
  BY DEF E!Failed
<1>4. \A s \in Seq(Seq(U) \ {<< >>}) : \A i \in DOMAIN s : s[i] # << >>
  OBVIOUS
<1>. QED
  BY <1>2, <1>3, <1>4

\* What is asked for next is a defined metric and a server.
LEMMA AskedIs ==
    ASSUME NEW U, Universe(U), Types(U), E!Asking
    PROVE  /\ ask.metric \in DOMAIN scrape.metrics /\ ask.server \in DOMAIN scrape.servers
           /\ Defined(U, E!Metric)
           /\ E!Databases \in Seq(U)
<1>1. Sound(U, scrape) /\ "" \in U
  BY DEF Universe, Types
<1>2. scrape.metrics \in Seq(U) /\ scrape.servers \in Seq(U)
  BY <1>1 DEF Sound
<1>3. /\ ask.metric \in Nat \ {0} /\ ask.server \in Nat \ {0}
      /\ ask.metric <= Len(scrape.metrics) /\ ask.server <= Len(scrape.servers)
  BY DEF Types, E!Asking
<1>4. ask.metric \in DOMAIN scrape.metrics /\ ask.server \in DOMAIN scrape.servers
  BY <1>2, <1>3
<1>5. Defined(U, E!Metric)
  BY <1>1, <1>4 DEF Sound, E!Metric
<1>6. E!Databases \in Seq(U)
  <2>. DEFINE ds == scrape.servers[ask.server].databases
  <2>1. ds \in Seq(U) /\ ds # << >>
    BY <1>1, <1>4 DEF Sound
  <2>2. ds[Len(ds)] \in U
    BY <2>1
  <2>. HIDE DEF ds
  <2>4. \A x \in U : << x >> \in Seq(U)
    OBVIOUS
  <2>3. << ds[Len(ds)] >> \in Seq(U) /\ << "" >> \in Seq(U)
    BY <1>1, <2>2, <2>4
  <2>. QED
    BY <2>1, <2>3 DEF E!Databases, E!DatabasesOf, ds
<1>. QED
  BY <1>4, <1>5, <1>6

\* A result is one of the metric that was asked for.
LEMMA NodeIs ==
    ASSUME NEW U, Universe(U), Types(U), E!Asking, E!Wanted,
           NEW rows \in Returned(E!Metric) \cup {E!Failed}
    PROVE  /\ E!Node(rows) \in ResultSet(U)
           /\ E!Node(rows).nr = Len(sent) + 1 /\ E!Node(rows).rows = rows
           /\ \E a \in DOMAIN scrape.metrics : Of(E!Node(rows), scrape.metrics[a])
<1>1. /\ ask.metric \in DOMAIN scrape.metrics /\ Defined(U, E!Metric)
      /\ E!Databases \in Seq(U)
  BY AskedIs
<1>. DEFINE v == scrape.servers[ask.server].version
<1>2. v \in DOMAIN E!Metric.columns
  BY DEF E!Wanted, E!Applies
<1>3. E!Databases[ask.database] \in U
  <2>1. ask.database \in Nat \ {0} /\ ask.database <= Len(E!Databases)
    BY DEF E!Wanted, Types
  <2>. QED
    BY <1>1, <2>1
<1>4. rows \in Seq(Seq(U))
  <2>1. Seq(Seq(U) \ {<< >>}) \subseteq Seq(Seq(U))
    OBVIOUS
  <2>. QED
    BY <1>1, <2>1, FailedIs DEF Defined
<1>5. Len(sent) + 1 \in Nat /\ ask.server \in Nat
  BY DEF Types
<1>6. E!Metric.columns[v] \in Seq(Column(U))
  BY <1>1, <1>2 DEF Defined
<1>7. E!Metric.tag \in U /\ E!Metric.sort \in U /\ E!Metric.histogram \in U
  BY <1>1 DEF Defined
<1>8. E!Node(rows) = [tag |-> E!Metric.tag, sort |-> E!Metric.sort, histogram |-> E!Metric.histogram,
                      server |-> ask.server, database |-> E!Databases[ask.database],
                      columns |-> E!Metric.columns[v], rows |-> rows, nr |-> Len(sent) + 1]
  BY DEF E!Node
<1>9. E!Node(rows) \in ResultSet(U)
  BY <1>3, <1>4, <1>5, <1>6, <1>7, <1>8 DEF ResultSet
<1>10. Of(E!Node(rows), scrape.metrics[ask.metric])
  BY <1>2, <1>8 DEF Of, E!Metric
<1>. QED
  BY <1>1, <1>8, <1>9, <1>10

\* What results have in common.
LEMMA ResultsAre ==
    ASSUME NEW U, Universe(U), Types(U), SentAreResults
    PROVE  \A n \in DOMAIN sent :
             /\ sent[n] \in ResultSet(U)
             /\ sent[n].rows # E!Failed => sent[n].rows \in Seq(Seq(U) \ {<< >>})
             /\ \A c, d \in E!ValueColumns(sent[n]) : sent[n].columns[c].name = sent[n].columns[d].name => c = d
             /\ \A m \in DOMAIN sent : sent[m].tag = sent[n].tag =>
                  \A c \in E!ValueColumns(sent[n]), d \in E!ValueColumns(sent[m]) :
                     sent[n].columns[c].name = sent[m].columns[d].name =>
                       sent[n].columns[c].type = sent[m].columns[d].type /\ sent[n].sort = sent[m].sort
<1>1. Sound(U, scrape)
  BY DEF Universe, Types
<1>. TAKE n \in DOMAIN sent
<1>2. PICK a \in DOMAIN scrape.metrics : Of(sent[n], scrape.metrics[a])
  BY DEF SentAreResults
<1>3. PICK v \in DOMAIN scrape.metrics[a].columns : sent[n].columns = scrape.metrics[a].columns[v]
  BY <1>2 DEF Of
<1>4. Defined(U, scrape.metrics[a])
  BY <1>1 DEF Sound
<1>5. sent[n] \in ResultSet(U)
  BY DEF Types
<1>6. sent[n].rows # E!Failed => sent[n].rows \in Seq(Seq(U) \ {<< >>})
  BY <1>2, <1>4 DEF Of, Defined
<1>7. \A c, d \in E!ValueColumns(sent[n]) : sent[n].columns[c].name = sent[n].columns[d].name => c = d
  BY <1>3, <1>4 DEF Defined, E!ValueColumns, ValuesOf
<1>8. ASSUME NEW m \in DOMAIN sent, sent[m].tag = sent[n].tag
      PROVE  \A c \in E!ValueColumns(sent[n]), d \in E!ValueColumns(sent[m]) :
                sent[n].columns[c].name = sent[m].columns[d].name =>
                  sent[n].columns[c].type = sent[m].columns[d].type /\ sent[n].sort = sent[m].sort
  <2>1. PICK b \in DOMAIN scrape.metrics : Of(sent[m], scrape.metrics[b])
    BY DEF SentAreResults
  <2>2. PICK w \in DOMAIN scrape.metrics[b].columns : sent[m].columns = scrape.metrics[b].columns[w]
    BY <2>1 DEF Of
  <2>3. Agree(scrape.metrics[a], scrape.metrics[b])
    BY <1>1 DEF Sound
  <2>. QED
    BY <1>2, <1>3, <1>8, <2>1, <2>2, <2>3 DEF Of, Agree, E!ValueColumns, ValuesOf
<1>. QED
  BY <1>5, <1>6, <1>7, <1>8

----------------------------------------------------------------------------
(* The current result and its cells.                                       *)

LEMMA RowsOfIs ==
    ASSUME NEW U, NEW node \in ResultSet(U), node.rows # E!Failed
    PROVE  /\ 1 \in E!RowsOf(node)
           /\ E!RowsOf(node) \subseteq Nat \ {0}
           /\ \A r \in E!RowsOf(node) :
                /\ \A q \in Nat \ {0} : q <= r => q \in E!RowsOf(node)
                /\ r + 1 \notin E!RowsOf(node) => \A q \in E!RowsOf(node) : q <= r
           /\ node.rows # << >> => E!RowsOf(node) = DOMAIN node.rows
<1>1. node.rows \in Seq(Seq(U)) /\ Len(node.rows) \in Nat
  BY DEF ResultSet
<1>2. CASE node.rows = << >>
  <2>1. E!RowsOf(node) = 1..1
    BY <1>2 DEF E!RowsOf
  <2>. QED
    BY <1>2, <2>1
<1>3. CASE node.rows # << >>
  <2>1. E!RowsOf(node) = 1..Len(node.rows) /\ Len(node.rows) >= 1
    BY <1>1, <1>3 DEF E!RowsOf
  <2>. QED
    BY <1>1, <2>1
<1>. QED
  BY <1>2, <1>3

\* The first of the results that are left.
LEMMA ResultIs ==
    ASSUME NEW U, Types(U), ListIsSent, list # << >>
    PROVE  /\ 1 \in DOMAIN list /\ E!Result = list[1] /\ Head(list) = list[1]
           /\ E!Result \in ResultSet(U)
           /\ E!Result.nr \in DOMAIN sent /\ E!Result = sent[E!Result.nr]
           /\ Listed(E!Result.nr)
<1>1. list \in Seq(ResultSet(U))
  BY DEF Types
<1>2. 1 \in DOMAIN list /\ E!Result = list[1] /\ Head(list) = list[1]
  BY <1>1 DEF E!Result
<1>3. E!Result \in ResultSet(U)
  BY <1>1, <1>2
<1>. QED
  BY <1>2, <1>3 DEF ListIsSent, Listed

LEMMA LineIs ==
    ASSUME NEW U, NEW node \in ResultSet(U), node.rows # E!Failed, NEW c \in E!ValueColumns(node), NEW r \in E!RowsOf(node)
    PROVE  E!Line(node, c, r) \in LineSet(U)
<1>1. << >> \in Seq(U)
  OBVIOUS
<1>2. node.rows # << >> => node.rows[r] \in Seq(U)
  <2>1. node.rows \in Seq(Seq(U))
    BY DEF ResultSet
  <2>. QED
    BY <2>1, RowsOfIs
<1>3. r \in Nat
  BY RowsOfIs
<1>4. /\ node.tag \in U /\ node.nr \in Nat /\ node.database \in U /\ node.server \in Nat
      /\ node.columns \in Seq(Column(U))
  BY DEF ResultSet
<1>5. node.columns[c].name \in U
  <2>1. c \in DOMAIN node.columns
    BY DEF E!ValueColumns
  <2>2. node.columns[c] \in Column(U)
    BY <1>4, <2>1
  <2>. QED
    BY <2>2 DEF Column
<1>. DEFINE row == IF node.rows = << >> THEN << >> ELSE node.rows[r]
<1>6. row \in Seq(U)
  BY <1>1, <1>2
<1>7. E!Line(node, c, r) = [tag |-> node.tag, name |-> node.columns[c].name, nr |-> node.nr, at |-> r, row |-> row,
                            database |-> node.database, server |-> IF row = << >> THEN 1 ELSE node.server]
  BY DEF E!Line
<1>. HIDE DEF row
<1>. QED
  BY <1>3, <1>4, <1>5, <1>6, <1>7 DEF LineSet

LEMMA EntryIs ==
    ASSUME NEW U, Universe(U), NEW node \in ResultSet(U), NEW c \in E!ValueColumns(node)
    PROVE  /\ E!Entry(node, c) \in EntrySet(U)
           /\ E!Entry(node, c).tag = node.tag /\ E!Entry(node, c).name = node.columns[c].name
           /\ E!Entry(node, c).type = node.columns[c].type
           /\ Len(E!Entry(node, c).lines) = 1
           /\ LET l == E!Entry(node, c).lines[1]
              IN  l.nr = 0 /\ l.tag = node.tag /\ l.name = node.columns[c].name /\ l \in LineSet(U)
<1>1. << >> \in Seq(U)
  OBVIOUS
<1>0. "" \in U /\ "name" \in U
  BY DEF Universe
<1>2. node.tag \in U /\ node.sort \in U /\ node.columns \in Seq(Column(U))
  BY DEF ResultSet
<1>3. node.columns[c] \in Column(U)
  <2>1. c \in DOMAIN node.columns
    BY DEF E!ValueColumns
  <2>. QED
    BY <1>2, <2>1
<1>4. node.columns[c].name \in U /\ node.columns[c].type \in U
  BY <1>3 DEF Column
<1>. DEFINE l == [tag |-> node.tag, name |-> node.columns[c].name, nr |-> 0, at |-> 0, row |-> << >>,
                  database |-> "", server |-> 0]
            sort == IF node.columns[c].type = "histogram" THEN node.sort ELSE "name"
<1>5. l \in LineSet(U)
  BY <1>0, <1>1, <1>2, <1>4 DEF LineSet
<1>6. l.nr = 0 /\ l.tag = node.tag /\ l.name = node.columns[c].name
  OBVIOUS
<1>7. sort \in U
  BY <1>0, <1>2
<1>8. E!Entry(node, c) = [tag |-> node.tag, name |-> node.columns[c].name, type |-> node.columns[c].type,
                          sort |-> sort, lines |-> << l >>]
  BY DEF E!Entry
<1>. HIDE DEF l, sort
<1>9. << l >> \in Seq(LineSet(U)) /\ Len(<< l >>) = 1 /\ << l >>[1] = l
  BY <1>5
<1>10. E!Entry(node, c) \in EntrySet(U)
  <2>. DEFINE ls == << l >>
  <2>1. ls \in Seq(LineSet(U))
    BY <1>9
  <2>2. E!Entry(node, c) = [tag |-> node.tag, name |-> node.columns[c].name, type |-> node.columns[c].type,
                            sort |-> sort, lines |-> ls]
    BY <1>8
  <2>. HIDE DEF ls
  <2>. QED
    BY <1>2, <1>4, <1>7, <2>1, <2>2 DEF EntrySet
<1>. QED
  BY <1>5, <1>6, <1>8, <1>9, <1>10

----------------------------------------------------------------------------
(* A row that is added to the store.                                       *)

\* Where a line was before one was inserted at p.
Old(p, j) == IF j < p THEN j ELSE j - 1

NewLine == E!Line(E!Result, cell.column, cell.row)

\* NewLine was put at p into the entry k.
PutInto(k, p) ==
    /\ k \in E!Known /\ p \in 2..(Len(store[k].lines) + 1)
    /\ DOMAIN store' = DOMAIN store /\ Len(store') = Len(store)
    /\ \A j \in DOMAIN store : j # k => store'[j] = store[j]
    /\ store'[k].tag = store[k].tag /\ store'[k].name = store[k].name
    /\ store'[k].type = store[k].type /\ store'[k].sort = store[k].sort
    /\ DOMAIN store'[k].lines = 1..(Len(store[k].lines) + 1)
    /\ store'[k].lines[p] = NewLine
    /\ \A j \in 1..(Len(store[k].lines) + 1) : j # p => store'[k].lines[j] = store[k].lines[Old(p, j)]
    /\ E!Result.sort = "data" =>
         /\ \A j \in 2..(p - 1) : ~ E!Before(store[k].lines[j], NewLine.row)
         /\ p <= Len(store[k].lines) => E!Before(store[k].lines[p], NewLine.row)

LEMMA OldIs ==
    ASSUME NEW len \in Nat, NEW p \in 2..(len + 1)
    PROVE  /\ \A j \in 1..(len + 1) : j # p => Old(p, j) \in 1..len /\ (Old(p, j) = 1 <=> j = 1)
           /\ \A i, j \in 1..(len + 1) : i # p /\ j # p => (i < j <=> Old(p, i) < Old(p, j)) /\ (i = j <=> Old(p, i) = Old(p, j))
           /\ \A i \in 1..len : \E j \in 1..(len + 1) : j # p /\ Old(p, j) = i
           /\ \A j \in 1..(len + 1) : j # p => (j < p <=> Old(p, j) < p)
<1>1. \A i \in 1..len : \E j \in 1..(len + 1) : j # p /\ Old(p, j) = i
  <2>. TAKE i \in 1..len
  <2>1. CASE i < p
    <3>1. i \in 1..(len + 1) /\ i # p /\ Old(p, i) = i
      BY <2>1 DEF Old
    <3>. QED
      BY <3>1
  <2>2. CASE ~ (i < p)
    <3>1. i + 1 \in 1..(len + 1) /\ i + 1 # p /\ Old(p, i + 1) = i
      BY <2>2 DEF Old
    <3>. QED
      BY <3>1
  <2>. QED
    BY <2>1, <2>2
<1>. QED
  BY <1>1 DEF Old

\* What is known to match is in the store, and its lines are a sequence.
LEMMA KnownIs ==
    ASSUME NEW U, Types(U), NEW k \in E!Known
    PROVE  /\ k \in DOMAIN store /\ k \in Nat /\ store[k] \in EntrySet(U) /\ store[k].lines \in Seq(LineSet(U))
           /\ E!Matches(store[k], E!Entry(E!Result, cell.column))
<1>1. k \in DOMAIN store /\ E!Matches(store[k], E!Entry(E!Result, cell.column))
  BY DEF E!Known
<1>2. store \in Seq(EntrySet(U))
  BY DEF Types
<1>3. store[k] \in EntrySet(U) /\ k \in Nat
  BY <1>1, <1>2
<1>. QED
  BY <1>1, <1>3 DEF EntrySet

LEMMA AtValueIs ==
    ASSUME NEW U, Types(U), ListIsSent, CellIs, E!AtColumn
    PROVE  /\ stage = "gather" /\ list # << >>
           /\ E!Result \in ResultSet(U) /\ E!Result.rows # E!Failed
           /\ E!Result.nr \in DOMAIN sent /\ E!Result = sent[E!Result.nr] /\ Listed(E!Result.nr)
           /\ cell.row \in E!RowsOf(E!Result)
           /\ cell.column \in DOMAIN E!Result.columns
           /\ Head(list) = E!Result
<1>1. stage = "gather" /\ list # << >> /\ E!Result.rows # E!Failed /\ cell.column \in DOMAIN E!Result.columns
  BY DEF E!AtColumn, E!Gathering
<1>. QED
  BY <1>1, ResultIs DEF CellIs

LEMMA RowAdded ==
    ASSUME NEW U, Universe(U), Types(U), ListIsSent, CellIs, EntriesWhole, E!AddRow
    PROVE  /\ store' \in Seq(EntrySet(U))
           /\ NewLine \in LineSet(U)
           /\ \E k \in DOMAIN store : \E p \in 2..(Len(store[k].lines) + 1) : PutInto(k, p)
<1>1. E!AtColumn /\ cell.column \in E!ValueColumns(E!Result) /\ E!Known # {}
  BY DEF E!AddRow, E!AtValue
<1>2. NewLine \in LineSet(U)
  BY <1>1, AtValueIs, LineIs DEF NewLine
<1>. DEFINE k == E!FirstOf(E!Known)
            new == E!AddColumn(store[k].lines, E!Result.sort, NewLine)
<1>3. k \in E!Known
  <2>1. E!Known \subseteq Nat
    BY KnownIs
  <2>. QED
    BY <1>1, <2>1, FirstIsLeast
<1>4. store' = [store EXCEPT ![k].lines = new]
  BY DEF E!AddRow, NewLine
<1>. HIDE DEF k
<1>5. /\ k \in DOMAIN store /\ store[k] \in EntrySet(U) /\ store[k].lines \in Seq(LineSet(U))
      /\ store[k].lines # << >> /\ Len(store[k].lines) \in Nat
  BY <1>3, KnownIs DEF EntriesWhole
<1>6. PICK p \in 2..(Len(store[k].lines) + 1) :
        /\ new = E!InsertAt(store[k].lines, p, NewLine)
        /\ E!Result.sort = "data" =>
             /\ \A j \in 2..(p - 1) : ~ E!Before(store[k].lines[j], NewLine.row)
             /\ p <= Len(store[k].lines) => E!Before(store[k].lines[p], NewLine.row)
  BY <1>2, <1>5, Added
<1>. HIDE DEF new
<1>7. p \in 1..(Len(store[k].lines) + 1) /\ p \in Nat
  BY <1>5
<1>8. /\ new \in Seq(LineSet(U)) /\ Len(new) = Len(store[k].lines) + 1
      /\ \A j \in 1..(p - 1) : new[j] = store[k].lines[j]
      /\ new[p] = NewLine
      /\ \A j \in (p + 1)..(Len(store[k].lines) + 1) : new[j] = store[k].lines[j - 1]
  <2>. DEFINE s == store[k].lines
              t == E!InsertAt(s, p, NewLine)
  <2>1. s \in Seq(LineSet(U)) /\ p \in 1..(Len(s) + 1)
    BY <1>5, <1>7
  <2>2. new = t
    BY <1>6
  <2>. HIDE DEF s
  <2>3. /\ t \in Seq(LineSet(U)) /\ Len(t) = Len(s) + 1
        /\ \A j \in 1..(p - 1) : t[j] = s[j]
        /\ t[p] = NewLine
        /\ \A j \in (p + 1)..(Len(s) + 1) : t[j] = s[j - 1]
    BY <1>2, <2>1, Inserted
  <2>. HIDE DEF t
  <2>. QED
    BY <2>2, <2>3 DEF s
<1>9. DOMAIN new = 1..(Len(store[k].lines) + 1)
  BY <1>8
<1>10. \A j \in 1..(Len(store[k].lines) + 1) : j # p => new[j] = store[k].lines[Old(p, j)]
  BY <1>5, <1>7, <1>8 DEF Old
<1>11. store \in Seq(EntrySet(U))
  BY DEF Types
<1>12. [store[k] EXCEPT !.lines = new] \in EntrySet(U)
  BY <1>5, <1>8 DEF EntrySet
<1>13. store'[k] = [store[k] EXCEPT !.lines = new]
  BY <1>4, <1>5, <1>11
<1>14. store' \in Seq(EntrySet(U)) /\ DOMAIN store' = DOMAIN store /\ Len(store') = Len(store)
  BY <1>4, <1>5, <1>11, <1>12
<1>15. \A j \in DOMAIN store : j # k => store'[j] = store[j]
  BY <1>4, <1>11
<1>16. /\ store'[k].tag = store[k].tag /\ store'[k].name = store[k].name
       /\ store'[k].type = store[k].type /\ store'[k].sort = store[k].sort /\ store'[k].lines = new
  BY <1>5, <1>13 DEF EntrySet
<1>17. PutInto(k, p)
  BY <1>3, <1>6, <1>8, <1>9, <1>10, <1>14, <1>15, <1>16 DEF PutInto
<1>. QED
  BY <1>2, <1>5, <1>14, <1>17

----------------------------------------------------------------------------
(* While the queries are sent.                                             *)

LEMMA PlacedIs ==
    ASSUME NEW U, Types(U), ListIsSent, NoneLost, SentAreResults, stage = "query",
           NEW node \in ResultSet(U), node.nr = Len(sent) + 1,
           list' = E!Placed(node), sent' = Append(sent, node), UNCHANGED << scrape, stage >>,
           \E a \in DOMAIN scrape.metrics : Of(node, scrape.metrics[a])
    PROVE  /\ sent' \in Seq(ResultSet(U)) /\ list' \in Seq(ResultSet(U))
           /\ SentAreResults' /\ ListIsSent' /\ NoneLost'
<1>1. /\ sent \in Seq(ResultSet(U)) /\ list \in Seq(ResultSet(U))
      /\ Len(sent) \in Nat /\ Len(list) \in Nat /\ DOMAIN sent = 1..Len(sent) /\ DOMAIN list = 1..Len(list)
  BY DEF Types
<1>2. /\ sent' \in Seq(ResultSet(U)) /\ DOMAIN sent' = 1..(Len(sent) + 1)
      /\ \A n \in 1..Len(sent) : sent'[n] = sent[n]
      /\ sent'[Len(sent) + 1] = node
  BY <1>1
<1>3. SentAreResults'
  <2>. SUFFICES ASSUME NEW n \in DOMAIN sent'
                PROVE  sent'[n].nr = n /\ \E a \in DOMAIN scrape.metrics : Of(sent'[n], scrape.metrics[a])
    BY DEF SentAreResults, Of
  <2>1. CASE n = Len(sent) + 1
    BY <1>2, <2>1
  <2>2. CASE n # Len(sent) + 1
    <3>1. n \in DOMAIN sent /\ sent'[n] = sent[n]
      BY <1>1, <1>2, <2>2
    <3>. QED
      BY <3>1 DEF SentAreResults
  <2>. QED
    BY <2>1, <2>2
\* The list keeps all but perhaps a last node that failed, and ends with the new one.
<1>4. \E x \in Nat :
        /\ x <= Len(list) /\ list' \in Seq(ResultSet(U)) /\ DOMAIN list' = 1..(x + 1)
        /\ \A i \in 1..x : list'[i] = list[i]
        /\ list'[x + 1] = node
        /\ \A i \in 1..Len(list) : i > x => list[i].rows = E!Failed
  <2>1. CASE list = << >> \/ list[Len(list)].rows # E!Failed
    <3>1. list' = Append(list, node)
      BY <2>1 DEF E!Placed
    <3>2. /\ list' \in Seq(ResultSet(U)) /\ DOMAIN list' = 1..(Len(list) + 1)
          /\ \A i \in 1..Len(list) : list'[i] = list[i]
          /\ list'[Len(list) + 1] = node
      BY <1>1, <3>1
    <3>. QED
      BY <1>1, <3>2
  <2>2. CASE list # << >> /\ list[Len(list)].rows = E!Failed
    <3>1. list' = [list EXCEPT ![Len(list)] = node]
      BY <2>2 DEF E!Placed
    <3>2. Len(list) - 1 \in Nat
      BY <1>1, <2>2
    <3>3. /\ list' \in Seq(ResultSet(U)) /\ DOMAIN list' = 1..Len(list)
          /\ \A i \in 1..(Len(list) - 1) : list'[i] = list[i]
          /\ list'[Len(list)] = node
      <4>1. \A z \in DOMAIN list :
              LET l == [list EXCEPT ![z] = node]
              IN  l \in Seq(ResultSet(U)) /\ DOMAIN l = DOMAIN list /\ l[z] = node
                  /\ \A i \in DOMAIN list : i # z => l[i] = list[i]
        BY <1>1
      <4>2. Len(list) \in DOMAIN list
        BY <1>1, <3>2
      <4>3. \A i \in 1..(Len(list) - 1) : i \in DOMAIN list /\ i # Len(list)
        <5>1. \A y \in Nat : \A i \in 1..(y - 1) : i \in 1..y /\ i # y
          OBVIOUS
        <5>. QED
          BY <1>1, <5>1
      <4>. QED
        BY <1>1, <3>1, <4>1, <4>2, <4>3
    <3>. DEFINE x == Len(list) - 1
    <3>4. x + 1 = Len(list) /\ x <= Len(list)
      BY <1>1
    <3>5. \A i \in 1..Len(list) : i > x => i = Len(list)
      <4>1. \A y \in Nat : \A i \in 1..y : i > y - 1 => i = y
        OBVIOUS
      <4>2. Len(list) \in Nat
        BY <1>1
      <4>. QED
        BY <4>1, <4>2
    <3>. HIDE DEF x
    <3>6. x \in Nat /\ \A i \in 1..x : list'[i] = list[i]
      BY <3>2, <3>3 DEF x
    <3>. QED
      BY <2>2, <3>3, <3>4, <3>5, <3>6
  <2>. QED
    BY <2>1, <2>2
<1>5. PICK x \in Nat :
        /\ x <= Len(list) /\ list' \in Seq(ResultSet(U)) /\ DOMAIN list' = 1..(x + 1)
        /\ \A i \in 1..x : list'[i] = list[i]
        /\ list'[x + 1] = node
        /\ \A i \in 1..Len(list) : i > x => list[i].rows = E!Failed
  BY <1>4
<1>6. \A i \in 1..x : i \in DOMAIN list /\ list'[i].nr \in DOMAIN sent /\ list'[i] = sent[list'[i].nr]
  <2>. TAKE i \in 1..x
  <2>1. i \in DOMAIN list
    <3>1. Len(list) \in Nat /\ x \in Nat /\ x <= Len(list)
      BY <1>1, <1>5
    <3>2. i \in 1..Len(list)
      BY <3>1
    <3>. QED
      BY <1>1, <3>2
  <2>2. list'[i] = list[i]
    BY <1>5
  <2>. QED
    BY <2>1, <2>2 DEF ListIsSent
<1>7. \A i \in DOMAIN list' : list'[i].nr \in DOMAIN sent' /\ list'[i] = sent'[list'[i].nr]
  <2>. TAKE i \in DOMAIN list'
  <2>1. CASE i \in 1..x
    BY <1>1, <1>2, <1>6, <2>1
  <2>2. CASE i = x + 1
    BY <1>1, <1>2, <1>5, <2>2
  <2>. QED
    BY <1>5, <2>1, <2>2
<1>8. \A i, j \in DOMAIN list' : i < j => list'[i].nr < list'[j].nr
  <2>. SUFFICES ASSUME NEW i \in DOMAIN list', NEW j \in DOMAIN list', i < j PROVE list'[i].nr < list'[j].nr
    OBVIOUS
  <2>1. i \in 1..x
    BY <1>5
  <2>2. CASE j \in 1..x
    BY <1>5, <1>6, <2>1, <2>2 DEF ListIsSent
  <2>3. CASE j = x + 1
    <3>1. list'[i].nr \in 1..Len(sent)
      BY <1>1, <1>6, <2>1
    <3>2. list'[j].nr = Len(sent) + 1
      BY <1>5, <2>3
    <3>. QED
      BY <1>1, <3>1, <3>2
  <2>. QED
    BY <1>5, <2>2, <2>3
<1>9. ASSUME NEW n \in DOMAIN sent', sent'[n].rows # E!Failed PROVE \E i \in DOMAIN list' : list'[i].nr = n
  <2>1. CASE n = Len(sent) + 1
    <3>1. x + 1 \in DOMAIN list' /\ list'[x + 1].nr = n
      BY <1>5, <2>1
    <3>. QED
      BY <3>1
  <2>2. CASE n # Len(sent) + 1
    <3>1. n \in DOMAIN sent /\ sent[n].rows # E!Failed
      BY <1>1, <1>2, <1>9, <2>2
    <3>2. PICK i \in DOMAIN list : list[i].nr = n
      BY <3>1 DEF NoneLost, Listed
    <3>3. list[i].rows # E!Failed
      BY <3>1, <3>2 DEF ListIsSent
    <3>4. i \in 1..x
      BY <1>1, <1>5, <3>3
    <3>5. i \in DOMAIN list' /\ list'[i].nr = n
      BY <1>5, <3>2, <3>4
    <3>. QED
      BY <3>5
  <2>. QED
    BY <2>1, <2>2
<1>. QED
  BY <1>2, <1>3, <1>5, <1>7, <1>8, <1>9 DEF ListIsSent, NoneLost, Listed

\* Nothing was gathered as long as the first cell is the next one.
LEMMA NothingGathered ==
    ASSUME NEW U, Types(U), cell = [column |-> 1, row |-> 1],
           NEW n, NEW c \in Nat \ {0}, NEW r \in Nat \ {0}, Gathered(n, c, r)
    PROVE  ~ Listed(n)
<1>1. cell.column = 1 /\ cell.row = 1
  OBVIOUS
<1>. QED
  BY <1>1 DEF Gathered

\* Before anything is gathered the invariant is about the results.
LEMMA AskingKeeps ==
    ASSUME NEW U, Universe(U), IInv(U), stage = "query", Types(U)', Results', UNCHANGED << store, entry, text >>,
           stage' # "query" => UNCHANGED << sent, list, cell >>
    PROVE  IInv(U)'
<1>1. store = << >> /\ entry = 0 /\ text = << >>
  <2>1. store = << >>
    BY DEF IInv, Results, InOrder
  <2>2. entry \in Nat /\ entry <= 0
    BY <2>1 DEF IInv, Types
  <2>3. entry = 0
    BY <2>2
  <2>. QED
    BY <2>1, <2>3 DEF IInv, Results, InOrder
<1>2. store' = << >> /\ entry' = 0 /\ text' = << >> /\ DOMAIN store' = {} /\ DOMAIN text' = {} /\ 1..entry' = {}
  BY <1>1
<1>3. (EntriesWhole /\ EntriesApart /\ EntriesAreColumns /\ LinesAreCells /\ LinesApart /\ EntriesGrouped)'
  BY <1>2 DEF EntriesWhole, EntriesApart, EntriesAreColumns, LinesAreCells, LinesApart, EntriesGrouped
<1>4. CellsAreStored'
  <2>. SUFFICES ASSUME stage' # "query", NEW n \in DOMAIN sent', NEW c \in E!ValueColumns(sent[n])',
                       NEW r \in E!RowsOf(sent[n])', Cell(n, c, r)', Gathered(n, c, r)'
                PROVE  FALSE
    BY DEF CellsAreStored
  <2>1. UNCHANGED << sent, list, cell >>
    OBVIOUS
  <2>2. n \in DOMAIN sent /\ sent[n].rows # E!Failed /\ c \in E!ValueColumns(sent[n]) /\ r \in E!RowsOf(sent[n])
    BY <2>1 DEF Cell, E!ValueColumns, E!RowsOf, E!Failed
  <2>3. Gathered(n, c, r)
    BY <2>1 DEF Gathered, Listed
  <2>4. Listed(n)
    BY <2>2 DEF IInv, Results, NoneLost
  <2>5. sent[n] \in ResultSet(U)
    BY <2>2 DEF IInv, Types
  <2>6. r \in Nat \ {0}
    BY <2>2, <2>5, RowsOfIs
  <2>7. c \in Nat \ {0}
    <3>1. sent[n].columns \in Seq(Column(U))
      BY <2>5 DEF ResultSet
    <3>2. c \in DOMAIN sent[n].columns
      BY <2>2 DEF E!ValueColumns
    <3>. QED
      BY <3>1, <3>2
  <2>8. cell = [column |-> 1, row |-> 1] /\ Types(U)
    BY DEF IInv, Results, InOrder
  <2>. QED
    BY <2>3, <2>4, <2>6, <2>7, <2>8, NothingGathered
<1>5. TextSound'
  BY <1>2 DEF TextSound, TextIsStore, TextApart, E!FamiliesWhole, E!HeaderFirst, E!RowsGrouped
<1>. QED
  BY <1>3, <1>4, <1>5 DEF IInv, Entries

\* A result comes in, whether rows or a failure.
LEMMA ResultStep ==
    ASSUME NEW U, Universe(U), IInv(U), E!Execute \/ E!SwitchFails
    PROVE  IInv(U)'
<1>1. E!Asking /\ E!Wanted /\ stage = "query" /\ UNCHANGED << scrape, stage, cell, store, entry, text >>
  BY DEF E!Execute, E!SwitchFails, E!Asking
<1>2. \E rows \in Returned(E!Metric) \cup {E!Failed} : list' = E!Placed(E!Node(rows)) /\ sent' = Append(sent, E!Node(rows))
  BY DEF E!Execute, E!SwitchFails
<1>3. PICK rows \in Returned(E!Metric) \cup {E!Failed} : list' = E!Placed(E!Node(rows)) /\ sent' = Append(sent, E!Node(rows))
  BY <1>2
<1>4. Types(U) /\ Results
  BY DEF IInv
<1>. DEFINE node == E!Node(rows)
<1>5. /\ node \in ResultSet(U) /\ node.nr = Len(sent) + 1
      /\ \E a \in DOMAIN scrape.metrics : Of(node, scrape.metrics[a])
  BY <1>1, <1>4, NodeIs
<1>6. list' = E!Placed(node) /\ sent' = Append(sent, node)
  BY <1>3
<1>. HIDE DEF node
<1>7. /\ sent' \in Seq(ResultSet(U)) /\ list' \in Seq(ResultSet(U))
      /\ SentAreResults' /\ ListIsSent' /\ NoneLost'
  BY <1>1, <1>4, <1>5, <1>6, PlacedIs DEF Results
<1>8. ask' \in [metric : Nat \ {0}, server : Nat \ {0}, database : Nat \ {0}]
  <2>1. ask' = ask \/ ask' = [ask EXCEPT !.database = @ + 1]
    BY DEF E!Execute, E!SwitchFails
  <2>2. ask \in [metric : Nat \ {0}, server : Nat \ {0}, database : Nat \ {0}]
    BY <1>4 DEF Types
  <2>. QED
    BY <2>1, <2>2
<1>9. Types(U)'
  BY <1>1, <1>4, <1>7, <1>8 DEF Types
<1>10. cell = [column |-> 1, row |-> 1] /\ store = << >> /\ entry = 0
  <2>1. cell = [column |-> 1, row |-> 1] /\ store = << >>
    BY <1>1, <1>4 DEF Results, InOrder
  <2>2. entry \in Nat /\ entry <= 0
    BY <1>4, <2>1 DEF Types
  <2>. QED
    BY <2>1, <2>2
<1>11. InOrder'
  BY <1>1, <1>4, <1>10 DEF Results, InOrder
<1>12. CellIs'
  <2>. SUFFICES ASSUME list' # << >>, Head(list').rows # E!Failed PROVE cell'.row \in E!RowsOf(Head(list'))
    BY DEF CellIs, E!Failed, E!RowsOf
  <2>1. Head(list') \in ResultSet(U)
    BY <1>7
  <2>2. cell'.row = 1
    BY <1>1, <1>10
  <2>. QED
    BY <2>1, <2>2, RowsOfIs
<1>. QED
  BY <1>1, <1>7, <1>9, <1>11, <1>12, AskingKeeps DEF Results

\* Something is passed over, or it ends.
LEMMA AskStep ==
    ASSUME NEW U, Universe(U), IInv(U), E!Pass \/ E!CollectorExits \/ E!Queried
    PROVE  IInv(U)'
<1>1. /\ stage = "query" /\ stage' \in {"query", "exit", "gather"}
      /\ UNCHANGED << scrape, sent, list, cell, store, entry, text >>
  BY DEF E!Pass, E!CollectorExits, E!Queried, E!Asking
<1>2. Types(U) /\ Results
  BY DEF IInv
<1>3. ask' \in [metric : Nat \ {0}, server : Nat \ {0}, database : Nat \ {0}]
  <2>1. ask \in [metric : Nat \ {0}, server : Nat \ {0}, database : Nat \ {0}]
    BY <1>2 DEF Types
  <2>2. ask' = ask \/ ask' = E!Onward
    BY DEF E!Pass, E!CollectorExits, E!Queried
  <2>3. E!Onward \in [metric : Nat \ {0}, server : Nat \ {0}, database : Nat \ {0}]
    <3>1. \A m, s \in Nat \ {0} : E!At(m, s) \in [metric : Nat \ {0}, server : Nat \ {0}, database : Nat \ {0}]
      BY DEF E!At
    <3>2. {ask.metric, ask.server, ask.metric + 1, ask.server + 1, 1} \subseteq Nat \ {0}
      BY <2>1
    <3>. QED
      BY <3>1, <3>2 DEF E!Onward
  <2>. QED
    BY <2>1, <2>2, <2>3
<1>4. Types(U)'
  BY <1>1, <1>2, <1>3 DEF Types
<1>5. entry = 0 /\ text = << >> /\ store = << >>
  <2>1. store = << >>
    BY <1>1, <1>2 DEF Results, InOrder
  <2>2. entry \in Nat /\ entry <= 0
    BY <1>2, <2>1 DEF Types
  <2>3. entry = 0
    BY <2>2
  <2>. QED
    BY <1>2, <2>1, <2>3 DEF Results, InOrder
<1>6. Results'
  <2>1. SentAreResults' /\ ListIsSent' /\ CellIs'
    BY <1>1, <1>2 DEF Results, SentAreResults, ListIsSent, CellIs, Of, E!RowsOf, E!Failed
  <2>2. NoneLost'
    BY <1>1, <1>2 DEF Results, NoneLost, Listed, E!Failed
  <2>3. InOrder'
    BY <1>1, <1>2, <1>5 DEF Results, InOrder
  <2>. QED
    BY <2>1, <2>2, <2>3 DEF Results
<1>. QED
  BY <1>1, <1>4, <1>6, AskingKeeps

----------------------------------------------------------------------------
(* The cells that were gathered, while the loops go on.                    *)

ThisCell(n, c, r) == n = E!Result.nr /\ c = cell.column /\ r = cell.row

LEMMA CellMoves ==
    ASSUME NEW U, Types(U), ListIsSent, CellIs, E!AtColumn, cell' = E!NextCell, UNCHANGED << sent, list >>
    PROVE  /\ cell' \in [column : Nat \ {0}, row : Nat \ {0}]
           /\ CellIs'
           /\ \A n \in DOMAIN sent : \A c \in Nat, r \in E!RowsOf(sent[n]) :
                Gathered(n, c, r)' <=> Gathered(n, c, r) \/ ThisCell(n, c, r)
<1>1. /\ list # << >> /\ E!Result \in ResultSet(U) /\ E!Result.rows # E!Failed
      /\ E!Result.nr \in DOMAIN sent /\ E!Result = sent[E!Result.nr] /\ Listed(E!Result.nr)
      /\ cell.row \in E!RowsOf(E!Result) /\ Head(list) = E!Result
  BY AtValueIs
<1>2. cell \in [column : Nat \ {0}, row : Nat \ {0}]
  BY DEF Types
<1>3. /\ 1 \in E!RowsOf(E!Result) /\ E!RowsOf(E!Result) \subseteq Nat \ {0}
      /\ cell.row + 1 \notin E!RowsOf(E!Result) => \A q \in E!RowsOf(E!Result) : q <= cell.row
  BY <1>1, RowsOfIs
<1>4. \/ cell'.column = cell.column /\ cell'.row = cell.row + 1 /\ cell.row + 1 \in E!RowsOf(E!Result)
      \/ cell'.column = cell.column + 1 /\ cell'.row = 1 /\ cell.row + 1 \notin E!RowsOf(E!Result)
  BY <1>2 DEF E!NextCell, E!NextColumn
<1>5. cell' \in [column : Nat \ {0}, row : Nat \ {0}]
  <2>1. cell' = [cell EXCEPT !.row = @ + 1] \/ cell' = [column |-> cell.column + 1, row |-> 1]
    BY DEF E!NextCell, E!NextColumn
  <2>. QED
    BY <1>2, <2>1
<1>6. CellIs'
  <2>1. cell'.row \in E!RowsOf(E!Result)
    BY <1>3, <1>4
  <2>2. list' = list /\ E!RowsOf(Head(list))' = E!RowsOf(E!Result)
    BY <1>1 DEF E!RowsOf
  <2>. QED
    BY <2>1, <2>2 DEF CellIs, E!RowsOf
<1>7. ASSUME NEW n \in DOMAIN sent, NEW c \in Nat, NEW r \in E!RowsOf(sent[n])
      PROVE  Gathered(n, c, r)' <=> Gathered(n, c, r) \/ ThisCell(n, c, r)
  <2>1. Listed(n)' <=> Listed(n)
    BY DEF Listed
  <2>2. Gathered(n, c, r)' <=>
          ~ Listed(n) \/ (n = E!Result.nr /\ (c < cell'.column \/ (c = cell'.column /\ r < cell'.row)))
    BY <1>1, <2>1 DEF Gathered
  <2>3. Gathered(n, c, r) <=>
          ~ Listed(n) \/ (n = E!Result.nr /\ (c < cell.column \/ (c = cell.column /\ r < cell.row)))
    BY <1>1 DEF Gathered
  <2>4. CASE n # E!Result.nr
    BY <2>2, <2>3, <2>4 DEF ThisCell
  <2>5. CASE n = E!Result.nr
    <3>1. r \in E!RowsOf(E!Result)
      BY <1>1, <2>5
    <3>2. (c < cell'.column \/ (c = cell'.column /\ r < cell'.row)) <=>
            (c < cell.column \/ (c = cell.column /\ r < cell.row)) \/ (c = cell.column /\ r = cell.row)
      BY <1>2, <1>3, <1>4, <3>1
    <3>. QED
      BY <2>2, <2>3, <2>5, <3>2 DEF ThisCell
  <2>. QED
    BY <2>4, <2>5
<1>. QED
  BY <1>5, <1>6, <1>7

LEMMA ColumnMoves ==
    ASSUME NEW U, Types(U), ListIsSent, CellIs, E!AtColumn, cell' = E!NextColumn, UNCHANGED << sent, list >>
    PROVE  /\ cell' \in [column : Nat \ {0}, row : Nat \ {0}]
           /\ CellIs'
           /\ \A n \in DOMAIN sent : \A c \in Nat, r \in E!RowsOf(sent[n]) :
                /\ Gathered(n, c, r) => Gathered(n, c, r)'
                /\ Gathered(n, c, r)' => Gathered(n, c, r) \/ (n = E!Result.nr /\ c = cell.column)
<1>1. /\ list # << >> /\ E!Result \in ResultSet(U) /\ E!Result.rows # E!Failed
      /\ E!Result.nr \in DOMAIN sent /\ E!Result = sent[E!Result.nr] /\ Listed(E!Result.nr)
      /\ cell.row \in E!RowsOf(E!Result) /\ Head(list) = E!Result
  BY AtValueIs
<1>2. cell \in [column : Nat \ {0}, row : Nat \ {0}]
  BY DEF Types
<1>3. 1 \in E!RowsOf(E!Result) /\ E!RowsOf(E!Result) \subseteq Nat \ {0}
  BY <1>1, RowsOfIs
<1>4. cell'.column = cell.column + 1 /\ cell'.row = 1
  BY DEF E!NextColumn
<1>5. cell' \in [column : Nat \ {0}, row : Nat \ {0}]
  BY <1>2 DEF E!NextColumn
<1>6. CellIs'
  BY <1>1, <1>3, <1>4 DEF CellIs, E!RowsOf
<1>7. ASSUME NEW n \in DOMAIN sent, NEW c \in Nat, NEW r \in E!RowsOf(sent[n])
      PROVE  /\ Gathered(n, c, r) => Gathered(n, c, r)'
             /\ Gathered(n, c, r)' => Gathered(n, c, r) \/ (n = E!Result.nr /\ c = cell.column)
  <2>1. Listed(n)' <=> Listed(n)
    BY DEF Listed
  <2>2. Gathered(n, c, r)' <=>
          ~ Listed(n) \/ (n = E!Result.nr /\ (c < cell'.column \/ (c = cell'.column /\ r < cell'.row)))
    BY <1>1, <2>1 DEF Gathered
  <2>3. Gathered(n, c, r) <=>
          ~ Listed(n) \/ (n = E!Result.nr /\ (c < cell.column \/ (c = cell.column /\ r < cell.row)))
    BY <1>1 DEF Gathered
  <2>4. CASE n # E!Result.nr
    BY <2>2, <2>3, <2>4
  <2>5. CASE n = E!Result.nr
    <3>1. r \in E!RowsOf(E!Result)
      BY <1>1, <2>5
    <3>2. (c < cell'.column \/ (c = cell'.column /\ r < cell'.row)) <=> c < cell.column \/ c = cell.column
      BY <1>2, <1>3, <1>4, <3>1
    <3>. QED
      BY <2>2, <2>3, <2>5, <3>2
  <2>. QED
    BY <2>4, <2>5
<1>. QED
  BY <1>5, <1>6, <1>7

\* After the last column all cells of a result were gathered.
LEMMA ResultMoves ==
    ASSUME NEW U, Types(U), ListIsSent, E!NextResult
    PROVE  /\ list' \in Seq(ResultSet(U)) /\ ListIsSent' /\ CellIs'
           /\ \A n \in DOMAIN sent : \A c \in E!ValueColumns(sent[n]), r \in E!RowsOf(sent[n]) :
                Cell(n, c, r) => (Gathered(n, c, r)' <=> Gathered(n, c, r))
<1>1. /\ list # << >> /\ ~ E!AtColumn /\ list' = Tail(list) /\ cell' = [column |-> 1, row |-> 1] /\ stage = "gather"
      /\ UNCHANGED << sent, scrape >>
  BY DEF E!NextResult, E!Gathering
<1>2. /\ 1 \in DOMAIN list /\ E!Result = list[1] /\ Head(list) = list[1]
      /\ E!Result \in ResultSet(U) /\ E!Result.nr \in DOMAIN sent /\ E!Result = sent[E!Result.nr]
  BY <1>1, ResultIs
<1>3. /\ list' \in Seq(ResultSet(U)) /\ Len(list) \in Nat /\ Len(list) >= 1
      /\ DOMAIN list = 1..Len(list) /\ DOMAIN list' = 1..(Len(list) - 1)
      /\ \A i \in 1..(Len(list) - 1) : list'[i] = list[i + 1]
  <2>1. list \in Seq(ResultSet(U))
    BY DEF Types
  <2>. QED
    BY <1>1, <2>1
<1>4. \A i \in DOMAIN list' : i + 1 \in DOMAIN list /\ list'[i] = list[i + 1]
  BY <1>3
<1>5. ListIsSent'
  <2>1. \A i \in DOMAIN list' : list'[i].nr \in DOMAIN sent /\ list'[i] = sent[list'[i].nr]
    BY <1>4 DEF ListIsSent
  <2>2. ASSUME NEW i \in DOMAIN list', NEW j \in DOMAIN list', i < j PROVE list'[i].nr < list'[j].nr
    <3>1. i + 1 < j + 1
      BY <1>3, <2>2
    <3>. QED
      BY <1>4, <3>1 DEF ListIsSent
  <2>. QED
    BY <1>1, <2>1, <2>2 DEF ListIsSent
<1>6. \A n \in DOMAIN sent : Listed(n)' <=> Listed(n) /\ n # E!Result.nr
  <2>. TAKE n \in DOMAIN sent
  <2>1. ASSUME NEW i \in DOMAIN list', list'[i].nr = n PROVE Listed(n) /\ n # E!Result.nr
    <3>1. i + 1 \in DOMAIN list /\ list[i + 1].nr = n /\ 1 < i + 1
      BY <1>3, <1>4, <2>1
    <3>2. list[1].nr < list[i + 1].nr /\ list[1].nr \in Nat /\ list[i + 1].nr \in Nat
      <4>1. list[1].nr \in Nat
        BY <1>2 DEF ResultSet
      <4>2. list[i + 1].nr \in Nat
        BY <3>1 DEF Types
      <4>. QED
        BY <1>2, <3>1, <4>1, <4>2 DEF ListIsSent
    <3>3. list[1].nr # list[i + 1].nr
      BY <3>2
    <3>. QED
      BY <1>2, <3>1, <3>3 DEF Listed
  <2>2. ASSUME NEW j \in DOMAIN list, list[j].nr = n, n # E!Result.nr PROVE Listed(n)'
    <3>1. j # 1
      BY <1>2, <2>2
    <3>2. j - 1 \in DOMAIN list' /\ (j - 1) + 1 = j
      BY <1>3, <3>1
    <3>3. list'[j - 1].nr = n
      BY <1>4, <2>2, <3>2
    <3>. QED
      BY <3>2, <3>3 DEF Listed
  <2>. QED
    BY <2>1, <2>2 DEF Listed
<1>7. CellIs'
  <2>. SUFFICES ASSUME list' # << >>, Head(list').rows # E!Failed PROVE cell'.row \in E!RowsOf(Head(list'))
    BY DEF CellIs, E!Failed, E!RowsOf
  <2>1. Head(list') \in ResultSet(U)
    BY <1>3
  <2>2. cell'.row = 1
    BY <1>1
  <2>. QED
    BY <2>1, <2>2, RowsOfIs
<1>8. ASSUME NEW n \in DOMAIN sent, NEW c \in E!ValueColumns(sent[n]), NEW r \in E!RowsOf(sent[n]), Cell(n, c, r)
      PROVE  Gathered(n, c, r)' <=> Gathered(n, c, r)
  <2>1. sent[n].rows # E!Failed /\ sent[n] \in ResultSet(U)
    BY <1>8 DEF Cell, Types
  <2>2. r \in Nat \ {0}
    BY <2>1, RowsOfIs
  <2>3. c \in DOMAIN sent[n].columns /\ c \in Nat \ {0} /\ DOMAIN sent[n].columns = 1..Len(sent[n].columns) /\ Len(sent[n].columns) \in Nat
    <3>1. sent[n].columns \in Seq(Column(U))
      BY <2>1 DEF ResultSet
    <3>2. c \in DOMAIN sent[n].columns
      BY DEF E!ValueColumns
    <3>. QED
      BY <3>1, <3>2
  <2>4. Gathered(n, c, r)' <=> ~ Listed(n)'
    <3>1. cell'.column = 1 /\ cell'.row = 1
      BY <1>1
    <3>2. ~ (c < cell'.column \/ (c = cell'.column /\ r < cell'.row))
      BY <2>2, <2>3, <3>1
    <3>. QED
      BY <3>2 DEF Gathered
  <2>5. CASE n # E!Result.nr
    BY <1>2, <1>6, <2>4, <2>5 DEF Gathered
  <2>6. CASE n = E!Result.nr
    <3>1. cell.column \notin DOMAIN sent[n].columns
      BY <1>1, <1>2, <2>1, <2>6 DEF E!AtColumn, E!Gathering
    <3>2. cell.column \in Nat \ {0}
      BY DEF Types
    <3>3. c < cell.column
      BY <2>3, <3>1, <3>2
    <3>4. Gathered(n, c, r)
      BY <1>1, <1>2, <2>6, <3>3 DEF Gathered
    <3>5. ~ Listed(n)'
      BY <1>6, <2>6
    <3>. QED
      BY <2>4, <3>4, <3>5
  <2>. QED
    BY <2>5, <2>6
<1>. QED
  BY <1>3, <1>5, <1>7, <1>8

----------------------------------------------------------------------------
(* While results are gathered.                                             *)

\* A step that leaves the store alone and passes over cells that have no value or no room.
LEMMA EntriesKept ==
    ASSUME Entries, stage # "query", UNCHANGED << store, sent >>,
           \A n \in DOMAIN sent : \A c \in E!ValueColumns(sent[n]), r \in E!RowsOf(sent[n]) :
             Cell(n, c, r) =>
               /\ Gathered(n, c, r) => Gathered(n, c, r)'
               /\ Gathered(n, c, r)' => Gathered(n, c, r) \/ LeftOut(n, c)
    PROVE  Entries'
<1>1. /\ EntriesWhole' /\ EntriesApart' /\ LinesApart'
  BY DEF Entries, EntriesWhole, EntriesApart, LinesApart
<1>2. EntriesAreColumns'
  BY DEF Entries, EntriesAreColumns, E!ValueColumns, E!Matches, E!Entry
<1>3. \A n, c, r : Cell(n, c, r)' <=> Cell(n, c, r)
  BY DEF Cell, E!ValueColumns, E!RowsOf, E!Empty, E!Failed
<1>4. LinesAreCells'
  <2>. SUFFICES ASSUME NEW k \in DOMAIN store, NEW i \in DOMAIN store[k].lines, i # 1
                PROVE  \E n \in DOMAIN sent : \E c \in E!ValueColumns(sent[n]), r \in E!RowsOf(sent[n]) :
                         Cell(n, c, r)' /\ Gathered(n, c, r)' /\ store[k].lines[i] = E!Line(sent[n], c, r)
    BY DEF LinesAreCells, E!ValueColumns, E!RowsOf, E!Line
  <2>1. PICK n \in DOMAIN sent : \E c \in E!ValueColumns(sent[n]), r \in E!RowsOf(sent[n]) :
             Cell(n, c, r) /\ Gathered(n, c, r) /\ store[k].lines[i] = E!Line(sent[n], c, r)
    BY DEF Entries, LinesAreCells
  <2>. QED
    BY <1>3, <2>1
<1>5. CellsAreStored'
  <2>. SUFFICES ASSUME NEW n \in DOMAIN sent, NEW c \in E!ValueColumns(sent[n]), NEW r \in E!RowsOf(sent[n]),
                       Cell(n, c, r), Gathered(n, c, r)'
                PROVE  LeftOut(n, c) \/ Stored(n, c, r)
    BY <1>3 DEF CellsAreStored, LeftOut, Stored, E!ValueColumns, E!RowsOf, E!Line, E!Unknown, E!Matches, E!Entry
  <2>. QED
    BY DEF Entries, CellsAreStored
<1>6. EntriesGrouped'
  <2>. SUFFICES ASSUME NEW k \in DOMAIN store PROVE GroupedIn(store[k].lines)'
    BY DEF EntriesGrouped
  <2>1. KeyedAt(store[k].lines)' = KeyedAt(store[k].lines) /\ KeysOf(store[k].lines)' = KeysOf(store[k].lines)
    BY DEF KeyedAt, KeysOf, Keyed
  <2>. QED
    BY <2>1 DEF Entries, EntriesGrouped, GroupedIn, OrderedBy
<1>. QED
  BY <1>1, <1>2, <1>4, <1>5, <1>6 DEF Entries

LEMMA TextsKept ==
    ASSUME TextSound, UNCHANGED << store, sent, entry, text >>
    PROVE  TextSound'
BY DEF TextSound, TextIsStore, TextApart, E!FamiliesWhole, E!HeaderFirst, E!RowsGrouped, E!Family, E!Sorted

\* The rest of the invariant while results are gathered.
LEMMA GatheringKeeps ==
    ASSUME NEW U, IInv(U), stage = "gather", list # << >>, UNCHANGED << scrape, sent, entry, text, ask >>,
           stage' \in {"gather", "exit"},
           list' \in Seq(ResultSet(U)), cell' \in [column : Nat \ {0}, row : Nat \ {0}],
           store' \in Seq(EntrySet(U)), ListIsSent', CellIs'
    PROVE  Types(U)' /\ Results'
<1>1. Types(U) /\ Results
  BY DEF IInv
<1>2. entry = 0 /\ text = << >>
  BY <1>1 DEF Results, InOrder
<1>3. Types(U)'
  <2>1. entry' \in Nat /\ entry' <= Len(store')
    BY <1>2
  <2>. QED
    BY <1>1, <2>1 DEF Types
<1>4. SentAreResults' /\ NoneLost'
  BY <1>1 DEF Results, SentAreResults, NoneLost, Of, E!Failed
<1>5. InOrder'
  BY <1>2 DEF InOrder
<1>. QED
  BY <1>3, <1>4, <1>5 DEF Results

LEMMA SkipStep ==
    ASSUME NEW U, Universe(U), IInv(U), E!SkipColumn \/ E!SkipRow \/ E!HistogramMissing \/ E!NextResult
    PROVE  IInv(U)'
<1>1. Types(U) /\ Results /\ Entries /\ TextSound
  BY DEF IInv
<1>2. /\ stage = "gather" /\ list # << >> /\ stage' \in {"gather", "exit"}
      /\ UNCHANGED << scrape, sent, entry, text, ask, store >>
  BY DEF E!SkipColumn, E!SkipRow, E!HistogramMissing, E!NextResult, E!AtColumn, E!AtValue, E!Gathering
<1>3. store' \in Seq(EntrySet(U)) /\ list \in Seq(ResultSet(U)) /\ cell \in [column : Nat \ {0}, row : Nat \ {0}]
  BY <1>1, <1>2 DEF Types
<1>4. \A n \in DOMAIN sent : \A c \in E!ValueColumns(sent[n]) : c \in Nat
  <2>. TAKE n \in DOMAIN sent
  <2>0. sent[n] \in ResultSet(U)
    BY <1>1 DEF Types
  <2>1. sent[n].columns \in Seq(Column(U))
    BY <2>0 DEF ResultSet
  <2>2. \A c \in DOMAIN sent[n].columns : c \in Nat
    BY <2>1
  <2>. QED
    BY <2>2 DEF E!ValueColumns
<1>. DEFINE Moves == \A n \in DOMAIN sent : \A c \in E!ValueColumns(sent[n]), r \in E!RowsOf(sent[n]) :
                       Cell(n, c, r) =>
                         /\ Gathered(n, c, r) => Gathered(n, c, r)'
                         /\ Gathered(n, c, r)' => Gathered(n, c, r) \/ LeftOut(n, c)
<1>5. /\ list' \in Seq(ResultSet(U)) /\ cell' \in [column : Nat \ {0}, row : Nat \ {0}] /\ ListIsSent' /\ CellIs'
      /\ Moves
  <2>1. CASE E!SkipColumn
    <3>1. E!AtColumn /\ cell' = E!NextColumn /\ list' = list
      BY <2>1 DEF E!SkipColumn
    <3>2. E!Result.nr \in DOMAIN sent /\ E!Result = sent[E!Result.nr]
      BY <1>1, <3>1, AtValueIs DEF Results
    <3>3. cell.column \in E!ValueColumns(E!Result) => LeftOut(E!Result.nr, cell.column)
      BY <2>1, <3>2 DEF E!SkipColumn, LeftOut, E!Unknown, E!Known
    <3>4. /\ cell' \in [column : Nat \ {0}, row : Nat \ {0}]
          /\ CellIs'
          /\ \A n \in DOMAIN sent : \A c \in Nat, r \in E!RowsOf(sent[n]) :
               /\ Gathered(n, c, r) => Gathered(n, c, r)'
               /\ Gathered(n, c, r)' => Gathered(n, c, r) \/ (n = E!Result.nr /\ c = cell.column)
      BY <1>1, <1>2, <3>1, ColumnMoves DEF Results
    <3>5. ListIsSent'
      BY <1>1, <1>2, <3>1 DEF Results, ListIsSent
    <3>6. Moves
      BY <1>4, <3>2, <3>3, <3>4
    <3>. QED
      BY <1>3, <3>1, <3>4, <3>5, <3>6
  <2>2. CASE E!SkipRow
    <3>1. E!AtColumn /\ cell' = E!NextCell /\ list' = list
      BY <2>2 DEF E!SkipRow, E!AtValue
    <3>2. E!Result.nr \in DOMAIN sent /\ E!Result = sent[E!Result.nr]
      BY <1>1, <3>1, AtValueIs DEF Results
    <3>3. ~ Cell(E!Result.nr, cell.column, cell.row)
      BY <2>2, <3>2 DEF E!SkipRow, Cell
    <3>4. /\ cell' \in [column : Nat \ {0}, row : Nat \ {0}]
          /\ CellIs'
          /\ \A n \in DOMAIN sent : \A c \in Nat, r \in E!RowsOf(sent[n]) :
               Gathered(n, c, r)' <=> Gathered(n, c, r) \/ ThisCell(n, c, r)
      BY <1>1, <1>2, <3>1, CellMoves DEF Results
    <3>5. ListIsSent'
      BY <1>1, <1>2, <3>1 DEF Results, ListIsSent
    <3>6. Moves
      BY <1>4, <3>3, <3>4 DEF ThisCell
    <3>. QED
      BY <1>3, <3>1, <3>4, <3>5, <3>6
  <2>3. CASE E!HistogramMissing
    <3>1. UNCHANGED << list, cell >>
      BY <2>3 DEF E!HistogramMissing
    <3>2. ListIsSent' /\ CellIs'
      BY <1>1, <1>2, <3>1 DEF Results, ListIsSent, CellIs, E!RowsOf, E!Failed
    <3>3. \A n, c, r : Gathered(n, c, r)' <=> Gathered(n, c, r)
      BY <3>1 DEF Gathered, Listed
    <3>. QED
      BY <1>3, <3>1, <3>2, <3>3
  <2>4. CASE E!NextResult
    <3>1. /\ list' \in Seq(ResultSet(U)) /\ ListIsSent' /\ CellIs'
          /\ \A n \in DOMAIN sent : \A c \in E!ValueColumns(sent[n]), r \in E!RowsOf(sent[n]) :
               Cell(n, c, r) => (Gathered(n, c, r)' <=> Gathered(n, c, r))
      BY <1>1, <2>4, ResultMoves DEF Results
    <3>2. cell' \in [column : Nat \ {0}, row : Nat \ {0}]
      BY <2>4 DEF E!NextResult
    <3>. QED
      BY <3>1, <3>2
  <2>. QED
    BY <2>1, <2>2, <2>3, <2>4
<1>6. Types(U)' /\ Results'
  BY <1>2, <1>3, <1>5, GatheringKeeps
<1>7. Entries' /\ TextSound'
  BY <1>1, <1>2, <1>5, EntriesKept, TextsKept
<1>. QED
  BY <1>6, <1>7 DEF IInv

\* An entry that has the name of a column fits the column.
LEMMA NamedFits ==
    ASSUME NEW U, Universe(U), Types(U), SentAreResults, EntriesAreColumns,
           NEW k \in DOMAIN store, NEW n \in DOMAIN sent, NEW c \in E!ValueColumns(sent[n]),
           store[k].tag = sent[n].tag, store[k].name = sent[n].columns[c].name
    PROVE  E!Matches(store[k], E!Entry(sent[n], c))
<1>1. PICK m \in DOMAIN sent : \E d \in E!ValueColumns(sent[m]) : E!Matches(store[k], E!Entry(sent[m], d))
  BY DEF EntriesAreColumns
<1>2. PICK d \in E!ValueColumns(sent[m]) : E!Matches(store[k], E!Entry(sent[m], d))
  BY <1>1
<1>3. store[k].tag = sent[m].tag /\ store[k].name = sent[m].columns[d].name
  BY <1>2 DEF E!Matches, E!Entry
<1>4. sent[m].sort = sent[n].sort /\ sent[n].columns[c].type = sent[m].columns[d].type
  <2>1. sent[m].tag = sent[n].tag /\ sent[n].columns[c].name = sent[m].columns[d].name
    BY <1>3
  <2>2. \A a \in E!ValueColumns(sent[n]), b \in E!ValueColumns(sent[m]) :
           sent[n].columns[a].name = sent[m].columns[b].name =>
             sent[n].columns[a].type = sent[m].columns[b].type /\ sent[n].sort = sent[m].sort
    <3>1. \A x \in DOMAIN sent : \A y \in DOMAIN sent : sent[y].tag = sent[x].tag =>
             \A a \in E!ValueColumns(sent[x]), b \in E!ValueColumns(sent[y]) :
                sent[x].columns[a].name = sent[y].columns[b].name =>
                  sent[x].columns[a].type = sent[y].columns[b].type /\ sent[x].sort = sent[y].sort
      BY ResultsAre
    <3>. QED
      BY <2>1, <3>1
  <2>. QED
    BY <2>1, <2>2
<1>. QED
  BY <1>2, <1>3, <1>4 DEF E!Matches, E!Entry

LEMMA NewColumnStep ==
    ASSUME NEW U, Universe(U), IInv(U), E!NewColumn
    PROVE  IInv(U)'
<1>1. Types(U) /\ Results /\ Entries /\ TextSound
  BY DEF IInv
<1>. DEFINE new == E!Entry(E!Result, cell.column)
            last == Len(store) + 1
<1>2. /\ E!AtColumn /\ cell.column \in E!ValueColumns(E!Result) /\ E!Known = {} /\ Len(store) < MaxColumns
      /\ store' = Append(store, new) /\ UNCHANGED << scrape, stage, ask, sent, list, cell, entry, text >>
  BY DEF E!NewColumn
<1>3. /\ stage = "gather" /\ list # << >> /\ E!Result \in ResultSet(U)
      /\ E!Result.nr \in DOMAIN sent /\ E!Result = sent[E!Result.nr]
  BY <1>1, <1>2, AtValueIs DEF Results
<1>4. /\ new \in EntrySet(U)
      /\ new.tag = E!Result.tag /\ new.name = E!Result.columns[cell.column].name
      /\ Len(new.lines) = 1 /\ new.lines[1].nr = 0 /\ new.lines[1].tag = new.tag /\ new.lines[1].name = new.name
  BY <1>2, <1>3, EntryIs
<1>5. DOMAIN new.lines = {1} /\ new.lines # << >>
  <2>1. new.lines \in Seq(LineSet(U))
    BY <1>4 DEF EntrySet
  <2>. QED
    BY <1>4, <2>1
<1>6. E!Matches(new, new)
  BY DEF E!Matches
<1>7. /\ E!Unknown(E!Result, cell.column)
  BY <1>2 DEF E!Unknown, E!Known
<1>. HIDE DEF new
<1>8. /\ store' \in Seq(EntrySet(U)) /\ DOMAIN store = 1..Len(store) /\ Len(store) \in Nat /\ Len(store') = last
      /\ DOMAIN store' = 1..last /\ store'[last] = new /\ \A k \in DOMAIN store : k \in DOMAIN store' /\ store'[k] = store[k]
  <2>1. store \in Seq(EntrySet(U))
    BY <1>1 DEF Types
  <2>. QED
    BY <1>2, <1>4, <2>1
<1>9. \A k \in DOMAIN store' : (k \in DOMAIN store /\ store'[k] = store[k]) \/ (k = last /\ store'[k] = new)
  BY <1>8
<1>. HIDE DEF last
<1>10. EntriesWhole'
  <2>. SUFFICES ASSUME NEW k \in DOMAIN store'
                PROVE  /\ store'[k].lines # << >>
                       /\ \A i \in DOMAIN store'[k].lines :
                            /\ store'[k].lines[i].tag = store'[k].tag /\ store'[k].lines[i].name = store'[k].name
                            /\ store'[k].lines[i].nr = 0 <=> i = 1
    BY DEF EntriesWhole
  <2>1. CASE k \in DOMAIN store /\ store'[k] = store[k]
    BY <1>1, <2>1 DEF Entries, EntriesWhole
  <2>2. CASE store'[k] = new
    BY <1>4, <1>5, <2>2
  <2>. QED
    BY <1>9, <2>1, <2>2
<1>11. EntriesApart'
  <2>1. \A k \in DOMAIN store : ~ (store[k].tag = new.tag /\ store[k].name = new.name)
    <3>. SUFFICES ASSUME NEW k \in DOMAIN store, store[k].tag = new.tag, store[k].name = new.name PROVE FALSE
      OBVIOUS
    <3>1. E!Matches(store[k], E!Entry(sent[E!Result.nr], cell.column))
      BY <1>1, <1>2, <1>3, <1>4, NamedFits DEF Results, Entries
    <3>. QED
      BY <1>3, <1>7, <3>1 DEF E!Unknown
  <2>. SUFFICES ASSUME NEW k \in DOMAIN store', NEW l \in DOMAIN store',
                       store'[k].tag = store'[l].tag, store'[k].name = store'[l].name
                PROVE  k = l
    BY DEF EntriesApart
  <2>. QED
    BY <1>1, <1>9, <2>1 DEF Entries, EntriesApart
<1>12. EntriesAreColumns'
  <2>. SUFFICES ASSUME NEW k \in DOMAIN store'
                PROVE  \E n \in DOMAIN sent : \E c \in E!ValueColumns(sent[n]) : E!Matches(store'[k], E!Entry(sent[n], c))
    BY <1>2 DEF EntriesAreColumns, E!ValueColumns, E!Matches, E!Entry
  <2>1. CASE k \in DOMAIN store /\ store'[k] = store[k]
    BY <1>1, <2>1 DEF Entries, EntriesAreColumns
  <2>2. CASE store'[k] = new
    <3>1. E!Matches(store'[k], E!Entry(sent[E!Result.nr], cell.column)) /\ cell.column \in E!ValueColumns(sent[E!Result.nr])
      BY <1>2, <1>3, <1>6, <2>2 DEF new
    <3>. QED
      BY <1>3, <3>1
  <2>. QED
    BY <1>9, <2>1, <2>2
<1>13. \A n, c, r : (Cell(n, c, r)' <=> Cell(n, c, r)) /\ (Gathered(n, c, r)' <=> Gathered(n, c, r))
  BY <1>2 DEF Cell, Gathered, Listed, E!ValueColumns, E!RowsOf, E!Empty, E!Failed
<1>14. LinesAreCells'
  <2>. SUFFICES ASSUME NEW k \in DOMAIN store', NEW i \in DOMAIN store'[k].lines, i # 1
                PROVE  \E n \in DOMAIN sent : \E c \in E!ValueColumns(sent[n]), r \in E!RowsOf(sent[n]) :
                         Cell(n, c, r) /\ Gathered(n, c, r) /\ store'[k].lines[i] = E!Line(sent[n], c, r)
    BY <1>2, <1>13 DEF LinesAreCells, E!ValueColumns, E!RowsOf, E!Line
  <2>1. k \in DOMAIN store /\ store'[k] = store[k]
    BY <1>5, <1>9
  <2>. QED
    BY <1>1, <2>1 DEF Entries, LinesAreCells
<1>15. LinesApart'
  <2>. SUFFICES ASSUME NEW k \in DOMAIN store', NEW i \in DOMAIN store'[k].lines, NEW j \in DOMAIN store'[k].lines,
                       i # 1, j # 1, store'[k].lines[i].nr = store'[k].lines[j].nr,
                       store'[k].lines[i].at = store'[k].lines[j].at
                PROVE  i = j
    BY DEF LinesApart
  <2>1. k \in DOMAIN store /\ store'[k] = store[k]
    BY <1>5, <1>9
  <2>. QED
    BY <1>1, <2>1 DEF Entries, LinesApart
<1>16. CellsAreStored'
  <2>. SUFFICES ASSUME NEW n \in DOMAIN sent, NEW c \in E!ValueColumns(sent[n]), NEW r \in E!RowsOf(sent[n]),
                       Cell(n, c, r), Gathered(n, c, r)
                PROVE  \E k \in DOMAIN store' : \E i \in DOMAIN store'[k].lines : store'[k].lines[i] = E!Line(sent[n], c, r)
    BY <1>2, <1>13 DEF CellsAreStored, Stored, E!ValueColumns, E!RowsOf, E!Line
  <2>1. LeftOut(n, c) \/ Stored(n, c, r)
    BY <1>1, <1>3 DEF Entries, CellsAreStored
  <2>2. ~ LeftOut(n, c)
    <3>1. ~ (Len(store) >= MaxColumns)
      <4>1. MaxColumns \in Nat
        BY DEF Universe
      <4>. QED
        BY <1>2, <1>8, <4>1
    <3>. QED
      BY <3>1 DEF LeftOut
  <2>. QED
    BY <1>8, <2>1, <2>2 DEF Stored
<1>17. EntriesGrouped'
  <2>. SUFFICES ASSUME NEW k \in DOMAIN store' PROVE GroupedIn(store[k].lines)'
    BY DEF EntriesGrouped
  <2>1. CASE k \in DOMAIN store /\ store'[k] = store[k]
    <3>1. KeyedAt(store[k].lines)' = KeyedAt(store[k].lines) /\ KeysOf(store[k].lines)' = KeysOf(store[k].lines)
      BY <1>2, <2>1 DEF KeyedAt, KeysOf, Keyed
    <3>. QED
      BY <1>1, <2>1, <3>1 DEF Entries, EntriesGrouped, GroupedIn, OrderedBy
  <2>2. CASE store'[k] = new
    <3>1. KeyedAt(store[k].lines)' \subseteq {1}
      BY <1>5, <2>2 DEF KeyedAt
    <3>. QED
      BY <3>1 DEF GroupedIn, OrderedBy
  <2>. QED
    BY <1>9, <2>1, <2>2
<1>18. entry' = 0 /\ text' = << >>
  BY <1>1, <1>2, <1>3 DEF Results, InOrder
<1>19. TextSound'
  BY <1>18 DEF TextSound, TextIsStore, TextApart, E!FamiliesWhole, E!HeaderFirst, E!RowsGrouped
<1>20. ListIsSent' /\ CellIs' /\ list' \in Seq(ResultSet(U)) /\ cell' \in [column : Nat \ {0}, row : Nat \ {0}]
  BY <1>1, <1>2 DEF Results, ListIsSent, CellIs, Types, E!RowsOf, E!Failed
<1>21. Types(U)' /\ Results'
  BY <1>2, <1>3, <1>8, <1>20, GatheringKeeps
<1>. QED
  BY <1>10, <1>11, <1>12, <1>14, <1>15, <1>16, <1>17, <1>19, <1>21 DEF IInv, Entries

\* One was inserted, at p: before the first of those that have the new key or none.
Insertion(len, p, q, key, q2, key2) ==
    /\ len \in Nat /\ p \in 2..(len + 1) /\ q \in SUBSET (1..len) /\ q2 \in SUBSET (1..(len + 1))
    /\ OrderedBy(q, key)
    /\ \A j \in q2 : j # p => Old(p, j) \in q /\ key2[j] = key[Old(p, j)]
    /\ p \in q2 => /\ \A j \in q : j < p => key[j] # Missing /\ key[j] # key2[p]
                   /\ p <= len => p \in q /\ (key[p] = Missing \/ key[p] = key2[p])

\* An insertion keeps the order.
LEMMA InsertedInOrder ==
    ASSUME NEW len, NEW p, NEW q, NEW key, NEW q2, NEW key2, Insertion(len, p, q, key, q2, key2)
    PROVE  OrderedBy(q2, key2)
<1>. SUFFICES ASSUME len \in Nat, p \in 2..(len + 1), q \in SUBSET (1..len), OrderedBy(q, key),
                     q2 \in SUBSET (1..(len + 1)),
                     \A j \in q2 : j # p => Old(p, j) \in q /\ key2[j] = key[Old(p, j)],
                     p \in q2 => /\ \A j \in q : j < p => key[j] # Missing /\ key[j] # key2[p]
                                 /\ p <= len => p \in q /\ (key[p] = Missing \/ key[p] = key2[p])
              PROVE  OrderedBy(q2, key2)
  BY DEF Insertion
<1>0. \A i, j \in q2 : i # p /\ j # p => (i < j <=> Old(p, i) < Old(p, j)) /\ (i = j <=> Old(p, i) = Old(p, j))
  <2>1. \A i, j \in 1..(len + 1) : i # p /\ j # p => (i < j <=> Old(p, i) < Old(p, j)) /\ (i = j <=> Old(p, i) = Old(p, j))
    BY OldIs
  <2>. QED
    BY <2>1
<1>a. \A j \in q2 : j # p => Old(p, j) \in Nat /\ (j < p => Old(p, j) < p) /\ (j > p => Old(p, j) >= p /\ p <= len)
  BY DEF Old
<1>. SUFFICES ASSUME NEW i \in q2, NEW j \in q2, i < j
              PROVE  /\ key2[i] = Missing => key2[j] = Missing
                     /\ \A k \in q2 : j < k /\ key2[k] = key2[i] => key2[j] = key2[i]
  BY DEF OrderedBy
<1>b. i \in Nat /\ j \in Nat /\ p \in Nat
  OBVIOUS
\* Those at p or later have no key when the one at p has none.
<1>c. ASSUME p \in q2, p <= len PROVE p \in q /\ \A x \in q : x > p /\ key[p] = Missing => key[x] = Missing
  BY <1>c DEF OrderedBy
<1>1. key2[i] = Missing => key2[j] = Missing
  <2>. SUFFICES ASSUME key2[i] = Missing PROVE key2[j] = Missing
    OBVIOUS
  <2>1. CASE i # p /\ j # p
    <3>1. Old(p, i) \in q /\ Old(p, j) \in q /\ Old(p, i) < Old(p, j) /\ key[Old(p, i)] = Missing
      BY <1>0, <2>1
    <3>2. key[Old(p, j)] = Missing
      BY <3>1 DEF OrderedBy
    <3>. QED
      BY <2>1, <3>2
  <2>2. CASE i = p
    <3>1. j # p /\ j > p
      BY <1>b, <2>2
    <3>2. p <= len /\ Old(p, j) >= p /\ Old(p, j) \in q /\ key2[j] = key[Old(p, j)]
      BY <1>a, <3>1
    <3>3. key[p] = Missing /\ p \in q
      BY <2>2, <3>2
    <3>4. Old(p, j) = p \/ Old(p, j) > p
      BY <1>a, <1>b, <3>1, <3>2
    <3>. QED
      BY <1>c, <2>2, <3>2, <3>3, <3>4
  <2>3. CASE j = p
    <3>1. i # p /\ Old(p, i) \in q /\ Old(p, i) < p /\ key[Old(p, i)] = Missing
      BY <1>a, <1>b, <2>3
    <3>. QED
      BY <2>3, <3>1
  <2>. QED
    BY <2>1, <2>2, <2>3
<1>2. ASSUME NEW k \in q2, j < k, key2[k] = key2[i] PROVE key2[j] = key2[i]
  <2>0. k \in Nat /\ i < k
    BY <1>b, <1>2
  <2>1. CASE i # p /\ j # p /\ k # p
    <3>1. /\ Old(p, i) \in q /\ Old(p, j) \in q /\ Old(p, k) \in q /\ Old(p, i) < Old(p, j) /\ Old(p, j) < Old(p, k)
          /\ key[Old(p, k)] = key[Old(p, i)]
      BY <1>0, <1>2, <2>1
    <3>2. key[Old(p, j)] = key[Old(p, i)]
      BY <3>1 DEF OrderedBy
    <3>. QED
      BY <2>1, <3>2
  <2>2. CASE i = p
    <3>1. j # p /\ j > p /\ k # p /\ k > p
      BY <1>b, <1>2, <2>0, <2>2
    <3>2. /\ p <= len /\ Old(p, j) >= p /\ Old(p, j) \in q /\ key2[j] = key[Old(p, j)]
          /\ Old(p, k) >= p /\ Old(p, k) \in q /\ key2[k] = key[Old(p, k)] /\ Old(p, j) < Old(p, k)
      BY <1>0, <1>a, <1>2, <3>1
    <3>3. p \in q /\ (key[p] = Missing \/ key[p] = key2[p])
      BY <2>2, <3>2
    <3>4. Old(p, j) \in Nat /\ Old(p, k) \in Nat
      BY <1>a, <3>1
    <3>5. CASE key[p] = Missing
      <4>1. \A x \in q : x >= p => key[x] = Missing
        <5>1. \A x \in q : x >= p => x = p \/ x > p
          BY <1>b
        <5>. QED
          BY <1>c, <2>2, <3>2, <3>5, <5>1
      <4>. QED
        BY <1>2, <3>2, <4>1
    <3>6. CASE key[p] = key2[p]
      <4>1. Old(p, j) = p \/ p < Old(p, j)
        BY <1>b, <3>2, <3>4
      <4>2. key[Old(p, k)] = key[p]
        BY <1>2, <2>2, <3>2, <3>6
      <4>3. p < Old(p, j) => key[Old(p, j)] = key[p]
        BY <3>2, <3>3, <4>2 DEF OrderedBy
      <4>. QED
        BY <2>2, <3>2, <3>6, <4>1, <4>3
    <3>. QED
      BY <3>3, <3>5, <3>6
  <2>3. CASE j = p
    <3>1. i # p /\ k # p /\ k > p /\ i < p
      BY <1>b, <1>2, <2>0, <2>3
    <3>2. /\ Old(p, i) \in q /\ Old(p, i) < p /\ key2[i] = key[Old(p, i)] /\ Old(p, i) \in Nat
          /\ Old(p, k) \in q /\ Old(p, k) >= p /\ key2[k] = key[Old(p, k)] /\ p <= len /\ Old(p, k) \in Nat
      BY <1>a, <3>1
    <3>3. p \in q /\ (key[p] = Missing \/ key[p] = key2[p])
      BY <2>3, <3>2
    <3>4. key[Old(p, i)] # Missing /\ key[Old(p, i)] # key2[p] /\ key[Old(p, k)] = key[Old(p, i)]
      BY <1>2, <2>3, <3>2
    <3>5. Old(p, k) = p \/ p < Old(p, k)
      BY <1>b, <3>2
    <3>6. Old(p, k) # p
      BY <3>3, <3>4
    <3>7. key[p] = key[Old(p, i)]
      BY <3>2, <3>3, <3>4, <3>5, <3>6 DEF OrderedBy
    <3>. QED
      BY <3>3, <3>4, <3>7
  <2>4. CASE k = p
    <3>1. i # p /\ i < p
      BY <1>b, <2>0, <2>4
    <3>2. Old(p, i) \in q /\ Old(p, i) < p /\ key2[i] = key[Old(p, i)]
      BY <1>a, <3>1
    <3>. QED
      BY <1>2, <2>4, <3>2
  <2>. QED
    BY <2>1, <2>2, <2>3, <2>4
<1>. QED
  BY <1>1, <1>2

\* What the entry k holds after NewLine was put at p.
LEMMA AddRowStep ==
    ASSUME NEW U, Universe(U), IInv(U), E!AddRow
    PROVE  IInv(U)'
<1>1. Types(U) /\ Results /\ Entries /\ TextSound
  BY DEF IInv
<1>2. /\ E!AtColumn /\ cell.column \in E!ValueColumns(E!Result) /\ ~ E!Empty(E!Result, cell.column, cell.row)
      /\ cell' = E!NextCell /\ UNCHANGED << scrape, stage, ask, sent, list, entry, text >>
  BY DEF E!AddRow, E!AtValue
<1>3. /\ stage = "gather" /\ list # << >> /\ E!Result \in ResultSet(U) /\ E!Result.rows # E!Failed
      /\ E!Result.nr \in DOMAIN sent /\ E!Result = sent[E!Result.nr] /\ Listed(E!Result.nr)
      /\ cell.row \in E!RowsOf(E!Result) /\ Head(list) = E!Result
  BY <1>1, <1>2, AtValueIs DEF Results
<1>. DEFINE nr == E!Result.nr
<1>4. /\ store' \in Seq(EntrySet(U)) /\ NewLine \in LineSet(U)
      /\ \E k \in DOMAIN store : \E p \in 2..(Len(store[k].lines) + 1) : PutInto(k, p)
  BY <1>1, RowAdded DEF Results, Entries
<1>5. PICK k \in DOMAIN store : \E p \in 2..(Len(store[k].lines) + 1) : PutInto(k, p)
  BY <1>4
<1>6. PICK p \in 2..(Len(store[k].lines) + 1) : PutInto(k, p)
  BY <1>5
<1>. DEFINE ls == store[k].lines
            len == Len(ls)
            ls2 == store'[k].lines
<1>7. k \in E!Known
  BY <1>6 DEF PutInto
<1>8. store[k] \in EntrySet(U) /\ ls \in Seq(LineSet(U)) /\ E!Matches(store[k], E!Entry(E!Result, cell.column))
  BY <1>1, <1>7, KnownIs
<1>9. len \in Nat /\ DOMAIN ls = 1..len
  BY <1>8
<1>10. /\ DOMAIN store' = DOMAIN store /\ Len(store') = Len(store)
       /\ \A j \in DOMAIN store : j # k => store'[j] = store[j]
       /\ \A j \in DOMAIN store : store'[j].tag = store[j].tag /\ store'[j].name = store[j].name
                                  /\ store'[j].type = store[j].type /\ store'[j].sort = store[j].sort
  BY <1>6 DEF PutInto
<1>11. DOMAIN ls2 = 1..(len + 1) /\ ls2[p] = NewLine /\ \A j \in 1..(len + 1) : j # p => ls2[j] = ls[Old(p, j)]
  BY <1>6 DEF PutInto
<1>12. E!Result.sort = "data" =>
         /\ \A j \in 2..(p - 1) : ~ E!Before(ls[j], NewLine.row)
         /\ p <= len => E!Before(ls[p], NewLine.row)
  BY <1>6 DEF PutInto
<1>13. /\ \A j \in 1..(len + 1) : j # p => Old(p, j) \in 1..len /\ (Old(p, j) = 1 <=> j = 1)
       /\ \A i, j \in 1..(len + 1) : i # p /\ j # p => (i = j <=> Old(p, i) = Old(p, j))
       /\ \A i \in 1..len : \E j \in 1..(len + 1) : j # p /\ Old(p, j) = i
  <2>. HIDE DEF len
  <2>1. len \in Nat /\ p \in 2..(len + 1)
    BY <1>9 DEF len
  <2>2. /\ \A j \in 1..(len + 1) : j # p => Old(p, j) \in 1..len /\ (Old(p, j) = 1 <=> j = 1)
        /\ \A i, j \in 1..(len + 1) : i # p /\ j # p => (i < j <=> Old(p, i) < Old(p, j)) /\ (i = j <=> Old(p, i) = Old(p, j))
        /\ \A i \in 1..len : \E j \in 1..(len + 1) : j # p /\ Old(p, j) = i
        /\ \A j \in 1..(len + 1) : j # p => (j < p <=> Old(p, j) < p)
    BY <2>1, OldIs
  <2>. QED
    BY <2>2
<1>14. p # 1 /\ p \in DOMAIN ls2 /\ 1 \in DOMAIN ls2
  <2>1. \A m \in Nat : \A z \in 2..(m + 1) : z # 1 /\ z \in 1..(m + 1) /\ 1 \in 1..(m + 1)
    OBVIOUS
  <2>. QED
    BY <1>9, <1>11, <2>1
<1>15. store[k].tag = E!Result.tag /\ store[k].name = E!Result.columns[cell.column].name
  BY <1>8 DEF E!Matches, E!Entry
<1>16. /\ NewLine.tag = store[k].tag /\ NewLine.name = store[k].name /\ NewLine.nr = nr /\ NewLine.at = cell.row
       /\ NewLine = E!Line(sent[nr], cell.column, cell.row)
  BY <1>3, <1>15 DEF NewLine, E!Line
<1>17. nr # 0 /\ nr \in Nat
  <2>1. sent \in Seq(ResultSet(U))
    BY <1>1 DEF Types
  <2>. QED
    BY <1>3, <2>1
\* Each line of an entry is NewLine or was there before, at another place.
<1>18. ASSUME NEW e \in DOMAIN store, NEW i \in DOMAIN store'[e].lines
       PROVE  \/ e = k /\ i = p /\ store'[e].lines[i] = NewLine
              \/ e = k /\ i # p /\ Old(p, i) \in DOMAIN store[e].lines /\ store'[e].lines[i] = store[e].lines[Old(p, i)]
                 /\ (Old(p, i) = 1 <=> i = 1)
              \/ e # k /\ store'[e] = store[e] /\ i \in DOMAIN store[e].lines
  BY <1>9, <1>10, <1>11, <1>13
<1>. HIDE DEF nr, ls, len, ls2
<1>20. EntriesWhole'
  <2>. SUFFICES ASSUME NEW e \in DOMAIN store
                PROVE  /\ store'[e].lines # << >>
                       /\ \A i \in DOMAIN store'[e].lines :
                            /\ store'[e].lines[i].tag = store[e].tag /\ store'[e].lines[i].name = store[e].name
                            /\ store'[e].lines[i].nr = 0 <=> i = 1
    BY <1>10 DEF EntriesWhole
  <2>1. /\ store[e].lines # << >>
        /\ \A i \in DOMAIN store[e].lines :
             /\ store[e].lines[i].tag = store[e].tag /\ store[e].lines[i].name = store[e].name
             /\ store[e].lines[i].nr = 0 <=> i = 1
    BY <1>1 DEF Entries, EntriesWhole
  <2>2. store'[e].lines # << >>
    <3>1. e = k => 1 \in DOMAIN store'[e].lines
      BY <1>14 DEF ls2
    <3>2. DOMAIN << >> = {}
      OBVIOUS
    <3>. QED
      BY <1>10, <2>1, <3>1, <3>2
  <2>3. ASSUME NEW i \in DOMAIN store'[e].lines
        PROVE  /\ store'[e].lines[i].tag = store[e].tag /\ store'[e].lines[i].name = store[e].name
               /\ store'[e].lines[i].nr = 0 <=> i = 1
    BY <1>14, <1>16, <1>17, <1>18, <2>1
  <2>. QED
    BY <2>2, <2>3
<1>21. EntriesApart'
  BY <1>1, <1>10 DEF Entries, EntriesApart
<1>22. EntriesAreColumns'
  <2>. SUFFICES ASSUME NEW e \in DOMAIN store
                PROVE  \E n \in DOMAIN sent : \E c \in E!ValueColumns(sent[n]) : E!Matches(store'[e], E!Entry(sent[n], c))
    BY <1>2, <1>10 DEF EntriesAreColumns, E!ValueColumns, E!Matches, E!Entry
  <2>1. \E n \in DOMAIN sent : \E c \in E!ValueColumns(sent[n]) : E!Matches(store[e], E!Entry(sent[n], c))
    BY <1>1 DEF Entries, EntriesAreColumns
  <2>2. \A f : E!Matches(store[e], f) => E!Matches(store'[e], f)
    BY <1>10 DEF E!Matches
  <2>. QED
    BY <2>1, <2>2
<1>23. /\ cell' \in [column : Nat \ {0}, row : Nat \ {0}] /\ CellIs'
       /\ \A n \in DOMAIN sent : \A c \in Nat, r \in E!RowsOf(sent[n]) :
            Gathered(n, c, r)' <=> Gathered(n, c, r) \/ ThisCell(n, c, r)
  BY <1>1, <1>2, CellMoves DEF Results
<1>24. \A n \in DOMAIN sent : \A c \in E!ValueColumns(sent[n]) : c \in Nat
  <2>. TAKE n \in DOMAIN sent
  <2>0. sent[n] \in ResultSet(U)
    BY <1>1 DEF Types
  <2>1. sent[n].columns \in Seq(Column(U))
    BY <2>0 DEF ResultSet
  <2>2. \A c \in DOMAIN sent[n].columns : c \in Nat
    BY <2>1
  <2>. QED
    BY <2>2 DEF E!ValueColumns
<1>25. \A n, c, r : Cell(n, c, r)' <=> Cell(n, c, r)
  BY <1>2 DEF Cell, E!ValueColumns, E!RowsOf, E!Empty, E!Failed
<1>26. /\ nr \in DOMAIN sent /\ cell.column \in E!ValueColumns(sent[nr]) /\ cell.row \in E!RowsOf(sent[nr])
       /\ Cell(nr, cell.column, cell.row) /\ ThisCell(nr, cell.column, cell.row)
  BY <1>2, <1>3 DEF Cell, ThisCell, nr
<1>27. LinesAreCells'
  <2>. SUFFICES ASSUME NEW e \in DOMAIN store, NEW i \in DOMAIN store'[e].lines, i # 1
                PROVE  \E n \in DOMAIN sent : \E c \in E!ValueColumns(sent[n]), r \in E!RowsOf(sent[n]) :
                         Cell(n, c, r) /\ Gathered(n, c, r)' /\ store'[e].lines[i] = E!Line(sent[n], c, r)
    BY <1>2, <1>10, <1>25 DEF LinesAreCells, E!ValueColumns, E!RowsOf, E!Line
  <2>1. CASE store'[e].lines[i] = NewLine
    <3>0. PICK n \in DOMAIN sent : n = nr
      BY <1>26
    <3>1. PICK c \in E!ValueColumns(sent[n]), r \in E!RowsOf(sent[n]) : n = nr /\ c = cell.column /\ r = cell.row
      BY <1>26, <3>0
    <3>2. Cell(n, c, r) /\ ThisCell(n, c, r) /\ NewLine = E!Line(sent[n], c, r)
      BY <1>16, <1>26, <3>1
    <3>3. Gathered(n, c, r)'
      BY <1>23, <1>24, <3>2
    <3>. QED
      BY <2>1, <3>2, <3>3
  <2>2. CASE \E x \in DOMAIN store[e].lines : x # 1 /\ store'[e].lines[i] = store[e].lines[x]
    <3>1. PICK x \in DOMAIN store[e].lines : x # 1 /\ store'[e].lines[i] = store[e].lines[x]
      BY <2>2
    <3>2. \E n \in DOMAIN sent : \E c \in E!ValueColumns(sent[n]), r \in E!RowsOf(sent[n]) :
            Cell(n, c, r) /\ Gathered(n, c, r) /\ store[e].lines[x] = E!Line(sent[n], c, r)
      BY <1>1, <3>1 DEF Entries, LinesAreCells
    <3>3. \A n \in DOMAIN sent : \A c \in E!ValueColumns(sent[n]), r \in E!RowsOf(sent[n]) :
            Gathered(n, c, r) => Gathered(n, c, r)'
      BY <1>23, <1>24
    <3>. QED
      BY <3>1, <3>2, <3>3
  <2>. QED
    BY <1>18, <2>1, <2>2
\* NewLine was not there before: its cell was not gathered.
<1>28. ASSUME NEW x \in DOMAIN ls, x # 1, ls[x].nr = nr, ls[x].at = cell.row PROVE FALSE
  <2>1. PICK n \in DOMAIN sent : \E c \in E!ValueColumns(sent[n]), r \in E!RowsOf(sent[n]) :
          Cell(n, c, r) /\ Gathered(n, c, r) /\ ls[x] = E!Line(sent[n], c, r)
    BY <1>1, <1>28 DEF Entries, LinesAreCells, ls
  <2>2. PICK c \in E!ValueColumns(sent[n]), r \in E!RowsOf(sent[n]) :
          Cell(n, c, r) /\ Gathered(n, c, r) /\ ls[x] = E!Line(sent[n], c, r)
    BY <2>1
  <2>3. ls[x].nr = sent[n].nr /\ ls[x].at = r /\ ls[x].name = sent[n].columns[c].name
    BY <2>2 DEF E!Line
  <2>4. n = nr /\ r = cell.row
    BY <1>1, <1>28, <2>3 DEF Results, SentAreResults
  <2>5. ls[x].name = store[k].name
    BY <1>1 DEF Entries, EntriesWhole, ls
  <2>6. sent[n].columns[c].name = sent[n].columns[cell.column].name
    BY <1>3, <1>15, <2>3, <2>4, <2>5 DEF nr
  <2>7. \A a, b \in E!ValueColumns(sent[n]) : sent[n].columns[a].name = sent[n].columns[b].name => a = b
    BY <1>1, ResultsAre DEF Results
  <2>8. c = cell.column
    BY <1>26, <2>4, <2>6, <2>7
  <2>9. Gathered(nr, cell.column, cell.row)
    BY <2>2, <2>4, <2>8
  <2>10. cell.column \in Nat /\ cell.row \in Nat
    BY <1>1 DEF Types
  <2>. QED
    BY <1>3, <2>9, <2>10 DEF Gathered, nr
<1>29. LinesApart'
  <2>. SUFFICES ASSUME NEW e \in DOMAIN store, NEW i \in DOMAIN store'[e].lines, NEW j \in DOMAIN store'[e].lines,
                       i # 1, j # 1, store'[e].lines[i].nr = store'[e].lines[j].nr,
                       store'[e].lines[i].at = store'[e].lines[j].at
                PROVE  i = j
    BY <1>10 DEF LinesApart
  <2>1. CASE e # k
    BY <1>1, <1>10, <2>1 DEF Entries, LinesApart
  <2>2. CASE e = k
    <3>1. \A x, y \in DOMAIN ls : x # 1 /\ y # 1 /\ ls[x].nr = ls[y].nr /\ ls[x].at = ls[y].at => x = y
      BY <1>1 DEF Entries, LinesApart, ls
    <3>2. i \in 1..(len + 1) /\ j \in 1..(len + 1) /\ ls2[i].nr = ls2[j].nr /\ ls2[i].at = ls2[j].at
      BY <1>11, <2>2 DEF ls2
    <3>3. \A y \in 1..(len + 1) : y # p /\ y # 1 => Old(p, y) \in DOMAIN ls /\ Old(p, y) # 1 /\ ls2[y] = ls[Old(p, y)]
      BY <1>9, <1>11, <1>13
    <3>4. CASE i = p
      <4>. SUFFICES ASSUME j # p PROVE FALSE
        BY <3>4
      <4>. QED
        BY <1>11, <1>16, <1>28, <3>2, <3>3, <3>4
    <3>5. CASE j = p
      <4>. SUFFICES ASSUME i # p PROVE FALSE
        BY <3>5
      <4>. QED
        BY <1>11, <1>16, <1>28, <3>2, <3>3, <3>5
    <3>6. CASE i # p /\ j # p
      BY <1>13, <3>1, <3>2, <3>3, <3>6
    <3>. QED
      BY <3>4, <3>5, <3>6
  <2>. QED
    BY <2>1, <2>2
<1>30. CellsAreStored'
  <2>. SUFFICES ASSUME NEW n \in DOMAIN sent, NEW c \in E!ValueColumns(sent[n]), NEW r \in E!RowsOf(sent[n]),
                       Cell(n, c, r), Gathered(n, c, r)'
                PROVE  \/ LeftOut(n, c)'
                       \/ \E e \in DOMAIN store : \E i \in DOMAIN store'[e].lines : store'[e].lines[i] = E!Line(sent[n], c, r)
    BY <1>2, <1>10, <1>25 DEF CellsAreStored, Stored, E!ValueColumns, E!RowsOf, E!Line
  <2>1. CASE ThisCell(n, c, r)
    <3>1. E!Line(sent[n], c, r) = NewLine
      BY <1>16, <2>1 DEF ThisCell, nr
    <3>2. p \in DOMAIN store'[k].lines /\ store'[k].lines[p] = NewLine
      BY <1>11, <1>14 DEF ls2
    <3>. QED
      BY <3>1, <3>2
  <2>2. CASE Gathered(n, c, r)
    <3>1. LeftOut(n, c) \/ Stored(n, c, r)
      BY <1>1, <1>3, <2>2 DEF Entries, CellsAreStored
    <3>2. ASSUME LeftOut(n, c) PROVE LeftOut(n, c)'
      <4>1. \A e \in DOMAIN store : \A f : E!Matches(store'[e], f) => E!Matches(store[e], f)
        BY <1>10 DEF E!Matches
      <4>2. E!Unknown(sent[n], c)'
        <5>1. \A e \in DOMAIN store : ~ E!Matches(store'[e], E!Entry(sent[n], c))
          BY <3>2, <4>1 DEF LeftOut, E!Unknown
        <5>. QED
          BY <1>2, <1>10, <5>1 DEF E!Unknown, E!Matches, E!Entry
      <4>. QED
        BY <1>10, <3>2, <4>2 DEF LeftOut
    <3>3. ASSUME Stored(n, c, r)
          PROVE  \E e \in DOMAIN store : \E i \in DOMAIN store'[e].lines : store'[e].lines[i] = E!Line(sent[n], c, r)
      <4>1. PICK e \in DOMAIN store : \E i \in DOMAIN store[e].lines : store[e].lines[i] = E!Line(sent[n], c, r)
        BY <3>3 DEF Stored
      <4>2. CASE e = k
        <5>1. PICK x \in 1..len : ls[x] = E!Line(sent[n], c, r)
          BY <1>9, <4>1, <4>2 DEF ls
        <5>2. PICK j \in 1..(len + 1) : j # p /\ Old(p, j) = x
          BY <1>13
        <5>3. j \in DOMAIN store'[k].lines /\ store'[k].lines[j] = E!Line(sent[n], c, r)
          BY <1>11, <5>1, <5>2 DEF ls2
        <5>. QED
          BY <5>3
      <4>3. CASE e # k
        BY <1>10, <4>1, <4>3
      <4>. QED
        BY <4>2, <4>3
    <3>. QED
      BY <3>1, <3>2, <3>3
  <2>. QED
    BY <1>23, <1>24, <2>1, <2>2
<1>31. EntriesGrouped'
  <2>. SUFFICES ASSUME NEW e \in DOMAIN store PROVE GroupedIn(store[e].lines)'
    BY <1>10 DEF EntriesGrouped
  <2>0. GroupedIn(store[e].lines)
    BY <1>1 DEF Entries, EntriesGrouped
  <2>1. CASE e # k
    <3>1. KeyedAt(store[e].lines)' = KeyedAt(store[e].lines) /\ KeysOf(store[e].lines)' = KeysOf(store[e].lines)
      BY <1>2, <1>10, <2>1 DEF KeyedAt, KeysOf, Keyed
    <3>. QED
      BY <2>0, <3>1 DEF GroupedIn, OrderedBy
  <2>2. CASE e = k
    <3>. DEFINE q == KeyedAt(ls)
                key == KeysOf(ls)
                q2 == {i \in DOMAIN ls2 : Keyed(ls2[i])}
                key2 == KeysOf(ls2)
    <3>1. OrderedBy(q, key) /\ q \subseteq DOMAIN ls /\ \A i \in DOMAIN ls : key[i] = ls[i].row[1]
      BY <2>0, <2>2 DEF GroupedIn, ls, KeyedAt, KeysOf
    <3>2. (KeyedAt(store[e].lines))' = q2 /\ KeysOf(store[e].lines)' = key2
      BY <1>2, <2>2 DEF KeyedAt, KeysOf, Keyed, ls2
    <3>3. q2 \subseteq 1..(len + 1) /\ \A i \in 1..(len + 1) : key2[i] = ls2[i].row[1] /\ (i \in q2 <=> Keyed(ls2[i]))
      BY <1>11 DEF KeysOf
    <3>4. \A i \in DOMAIN ls : i \in q <=> Keyed(ls[i])
      BY DEF KeyedAt
    <3>. HIDE DEF q, key, q2, key2
    <3>5. \A j \in q2 : j # p => Old(p, j) \in q /\ key2[j] = key[Old(p, j)]
      BY <1>9, <1>11, <1>13, <3>1, <3>3, <3>4
    \* A keyed line of the entry has the same order as the new one.
    <3>6. \A x \in DOMAIN ls : x # 1 => ls[x].nr # 0 /\ ls[x].nr \in DOMAIN sent /\ sent[ls[x].nr].sort = E!Result.sort
      <4>. SUFFICES ASSUME NEW x \in DOMAIN ls, x # 1
                    PROVE  ls[x].nr # 0 /\ ls[x].nr \in DOMAIN sent /\ sent[ls[x].nr].sort = E!Result.sort
        OBVIOUS
      <4>1. ls[x].nr # 0 /\ ls[x].tag = store[k].tag /\ ls[x].name = store[k].name
        BY <1>1 DEF Entries, EntriesWhole, ls
      <4>2. PICK n \in DOMAIN sent : \E c \in E!ValueColumns(sent[n]), r \in E!RowsOf(sent[n]) :
              Cell(n, c, r) /\ Gathered(n, c, r) /\ ls[x] = E!Line(sent[n], c, r)
        BY <1>1 DEF Entries, LinesAreCells, ls
      <4>3. PICK c \in E!ValueColumns(sent[n]) :
              ls[x].nr = sent[n].nr /\ ls[x].tag = sent[n].tag /\ ls[x].name = sent[n].columns[c].name
        BY <4>2 DEF E!Line
      <4>4. sent[n].nr = n
        BY <1>1 DEF Results, SentAreResults
      <4>5. sent[n].tag = sent[nr].tag /\ sent[n].columns[c].name = sent[nr].columns[cell.column].name
        BY <1>3, <1>15, <4>1, <4>3 DEF nr
      <4>6. \A a \in DOMAIN sent : \A b \in DOMAIN sent : sent[b].tag = sent[a].tag =>
              \A y \in E!ValueColumns(sent[a]), z \in E!ValueColumns(sent[b]) :
                 sent[a].columns[y].name = sent[b].columns[z].name => sent[a].sort = sent[b].sort
        BY <1>1, ResultsAre DEF Results
      <4>7. sent[n].sort = sent[nr].sort
        BY <1>26, <4>5, <4>6
      <4>. QED
        BY <1>3, <4>1, <4>3, <4>4, <4>7 DEF nr
    <3>7. ASSUME p \in q2
          PROVE  /\ \A j \in q : j < p => key[j] # Missing /\ key[j] # key2[p]
                 /\ p <= len => p \in q /\ (key[p] = Missing \/ key[p] = key2[p])
      <4>1. NewLine.row # << >> /\ E!Result.sort = "data" /\ key2[p] = NewLine.row[1]
        BY <1>3, <1>11, <1>14, <1>16, <3>3, <3>7 DEF Keyed, nr
      <4>2. ASSUME NEW j \in q, j < p PROVE key[j] # Missing /\ key[j] # key2[p]
        <5>1. Keyed(ls[j]) /\ key[j] = ls[j].row[1] /\ j \in DOMAIN ls
          BY <3>1, <3>4
        <5>2. j # 1
          BY <1>1, <5>1 DEF Keyed, Entries, EntriesWhole, ls
        <5>3. j \in 2..(p - 1)
          BY <1>9, <4>2, <5>1, <5>2
        <5>4. ~ E!Before(ls[j], NewLine.row)
          BY <1>12, <4>1, <5>3
        <5>. QED
          BY <4>1, <5>1, <5>4 DEF E!Before, Keyed
      <4>3. ASSUME p <= len PROVE p \in q /\ (key[p] = Missing \/ key[p] = key2[p])
        <5>1. E!Before(ls[p], NewLine.row)
          BY <1>12, <4>1, <4>3
        <5>2. p \in DOMAIN ls
          BY <1>9, <4>3
        <5>3. ls[p].row # << >> /\ (ls[p].row[1] = Missing \/ ls[p].row[1] = NewLine.row[1])
          BY <5>1 DEF E!Before
        <5>4. Keyed(ls[p])
          BY <1>14, <3>6, <4>1, <5>2, <5>3 DEF Keyed
        <5>. QED
          BY <3>1, <3>4, <4>1, <5>2, <5>3, <5>4
      <4>. QED
        BY <4>2, <4>3
    <3>8. OrderedBy(q2, key2)
      <4>1. p \in 2..(len + 1)
        BY DEF len, ls
      <4>2. q \in SUBSET (1..len) /\ q2 \in SUBSET (1..(len + 1))
        BY <1>9, <3>1, <3>3
      <4>3. p \in q2 => /\ \A j \in q : j < p => key[j] # Missing /\ key[j] # key2[p]
                        /\ p <= len => p \in q /\ (key[p] = Missing \/ key[p] = key2[p])
        BY <3>7
      <4>4. len \in Nat /\ OrderedBy(q, key)
        BY <1>9, <3>1
      <4>5. Insertion(len, p, q, key, q2, key2)
        BY <3>5, <4>1, <4>2, <4>3, <4>4 DEF Insertion
      <4>. QED
        BY <4>5, InsertedInOrder
    <3>. QED
      BY <3>2, <3>8 DEF GroupedIn, OrderedBy
  <2>. QED
    BY <2>1, <2>2
<1>32. entry' = 0 /\ text' = << >>
  BY <1>1, <1>2, <1>3 DEF Results, InOrder
<1>33. TextSound'
  BY <1>32 DEF TextSound, TextIsStore, TextApart, E!FamiliesWhole, E!HeaderFirst, E!RowsGrouped
<1>34. ListIsSent' /\ list' \in Seq(ResultSet(U))
  BY <1>1, <1>2 DEF Results, ListIsSent, Types
<1>35. Types(U)' /\ Results'
  BY <1>2, <1>3, <1>4, <1>23, <1>34, GatheringKeeps
<1>. QED
  BY <1>20, <1>21, <1>22, <1>27, <1>29, <1>30, <1>31, <1>33, <1>35 DEF IInv, Entries

----------------------------------------------------------------------------
(* While the store is rendered.                                            *)

\* The lines of the text are those of the entries that were rendered: none of the next entry.
LEMMA NotYetShown ==
    ASSUME NEW U, Types(U), Entries, TextIsStore, entry < Len(store), NEW i \in DOMAIN text
    PROVE  /\ entry + 1 \in DOMAIN store
           /\ ~ (text[i].tag = store[entry + 1].tag /\ text[i].name = store[entry + 1].name)
<1>1. store \in Seq(EntrySet(U)) /\ entry \in Nat
  BY DEF Types
<1>2. entry + 1 \in DOMAIN store /\ \A e \in 1..entry : e \in DOMAIN store /\ e # entry + 1
  <2>1. Len(store) \in Nat /\ DOMAIN store = 1..Len(store)
    BY <1>1
  <2>. QED
    BY <1>1, <2>1
<1>3. PICK e \in 1..entry : \E x \in DOMAIN store[e].lines : text[i] = store[e].lines[x]
  BY DEF TextIsStore
<1>4. text[i].tag = store[e].tag /\ text[i].name = store[e].name
  BY <1>2, <1>3 DEF Entries, EntriesWhole
<1>. QED
  BY <1>2, <1>4 DEF Entries, EntriesApart

\* A line of the store that is no header has the tag of its result.
LEMMA TagOfLine ==
    ASSUME Results, Entries, NEW k \in DOMAIN store, NEW x \in DOMAIN store[k].lines, store[k].lines[x].nr # 0
    PROVE  x # 1 /\ store[k].lines[x].nr \in DOMAIN sent /\ store[k].lines[x].tag = sent[store[k].lines[x].nr].tag
<1>1. x # 1
  BY DEF Entries, EntriesWhole
<1>2. PICK n \in DOMAIN sent : \E c \in E!ValueColumns(sent[n]), r \in E!RowsOf(sent[n]) :
        Cell(n, c, r) /\ Gathered(n, c, r) /\ store[k].lines[x] = E!Line(sent[n], c, r)
  BY <1>1 DEF Entries, LinesAreCells
<1>3. store[k].lines[x].nr = sent[n].nr /\ store[k].lines[x].tag = sent[n].tag
  BY <1>2 DEF E!Line
<1>4. sent[n].nr = n
  BY DEF Results, SentAreResults
<1>. QED
  BY <1>1, <1>3, <1>4

LEMMA RenderStep ==
    ASSUME NEW U, IInv(U), E!Render
    PROVE  IInv(U)'
<1>1. Types(U) /\ Results /\ Entries /\ TextSound
  BY DEF IInv
<1>. DEFINE k == entry + 1
            ls == store[k].lines
            n == Len(text)
            len == Len(ls)
<1>2. /\ stage = "gather" /\ list = << >> /\ entry < Len(store) /\ text' = text \o ls /\ entry' = k
      /\ UNCHANGED << scrape, stage, fds, ask, sent, list, cell, store >>
  BY DEF E!Render
<1>3. /\ store \in Seq(EntrySet(U)) /\ entry \in Nat /\ text \in Seq(LineSet(U))
  BY <1>1 DEF Types
<1>4. k \in DOMAIN store /\ k \in Nat /\ k <= Len(store) /\ 1..k \subseteq DOMAIN store /\ k # 0 /\ k \in 1..k
  <2>1. Len(store) \in Nat /\ DOMAIN store = 1..Len(store)
    BY <1>3
  <2>. QED
    BY <1>2, <1>3, <2>1
<1>5. store[k] \in EntrySet(U)
  BY <1>3, <1>4
<1>6. ls \in Seq(LineSet(U)) /\ ls # << >>
  BY <1>1, <1>4, <1>5 DEF EntrySet, Entries, EntriesWhole
<1>7. \A e \in 1..k : e = k \/ e \in 1..entry
  BY <1>3
<1>8. 1..entry \subseteq 1..k
  BY <1>3
<1>. HIDE DEF k, ls
<1>9. /\ n \in Nat /\ len \in Nat /\ len >= 1 /\ DOMAIN text = 1..n /\ DOMAIN ls = 1..len
      /\ text' \in Seq(LineSet(U)) /\ DOMAIN text' = 1..(n + len)
      /\ \A i \in 1..n : text'[i] = text[i]
      /\ \A x \in 1..len : text'[n + x] = ls[x]
  BY <1>2, <1>3, <1>6
<1>. HIDE DEF n, len
\* Each line is an old one or a new one.
<1>10. \A i \in DOMAIN text' :
         \/ i \in DOMAIN text /\ i \in 1..n /\ text'[i] = text[i]
         \/ i - n \in DOMAIN ls /\ i > n /\ text'[i] = ls[i - n]
  <2>. TAKE i \in DOMAIN text'
  <2>1. i \in 1..n \/ (i - n \in 1..len /\ i > n)
    BY <1>9
  <2>2. i - n \in 1..len => text'[n + (i - n)] = ls[i - n]
    BY <1>9
  <2>3. n + (i - n) = i
    BY <1>9
  <2>. QED
    BY <1>9, <2>1, <2>2, <2>3
<1>11. \A i \in DOMAIN text' : i \in Nat /\ (i \in DOMAIN text <=> i <= n) /\ (i > n <=> ~ (i <= n))
  BY <1>9
<1>12. \A i \in DOMAIN text : ~ (text[i].tag = store[k].tag /\ text[i].name = store[k].name)
  BY <1>1, <1>2, NotYetShown DEF TextSound, k
<1>13. \A x \in DOMAIN ls : ls[x].tag = store[k].tag /\ ls[x].name = store[k].name /\ (ls[x].nr = 0 <=> x = 1)
  BY <1>1, <1>4 DEF Entries, EntriesWhole, ls
\* Lines of one family are all old or all new.
<1>14. \A i, j \in DOMAIN text' : text'[i].tag = text'[j].tag /\ text'[i].name = text'[j].name => (i <= n <=> j <= n)
  <2>1. \A i, j \in DOMAIN text' : i <= n /\ j > n => ~ (text'[i].tag = text'[j].tag /\ text'[i].name = text'[j].name)
    BY <1>10, <1>11, <1>12, <1>13
  <2>. QED
    BY <1>11, <2>1
<1>15. \A i \in DOMAIN text' : i > n => i - n \in DOMAIN ls /\ text'[i] = ls[i - n]
  BY <1>10, <1>11
<1>16. \A i \in DOMAIN text' : i <= n => i \in DOMAIN text /\ text'[i] = text[i]
  BY <1>10, <1>11
<1>17. TextIsStore'
  <2>1. ASSUME NEW i \in DOMAIN text' PROVE \E e \in 1..k : \E x \in DOMAIN store[e].lines : text'[i] = store[e].lines[x]
    <3>1. CASE i <= n
      <4>1. \E e \in 1..entry : \E x \in DOMAIN store[e].lines : text[i] = store[e].lines[x]
        BY <1>1, <1>16, <3>1 DEF TextSound, TextIsStore
      <4>. QED
        BY <1>8, <1>16, <3>1, <4>1
    <3>2. CASE i > n
      BY <1>4, <1>15, <3>2 DEF ls
    <3>. QED
      BY <1>11, <3>1, <3>2
  <2>2. ASSUME NEW e \in 1..k, NEW x \in DOMAIN store[e].lines PROVE \E i \in DOMAIN text' : text'[i] = store[e].lines[x]
    <3>1. CASE e \in 1..entry
      <4>1. PICK i \in DOMAIN text : text[i] = store[e].lines[x]
        BY <1>1, <3>1 DEF TextSound, TextIsStore
      <4>2. i \in DOMAIN text' /\ text'[i] = text[i]
        BY <1>9
      <4>. QED
        BY <4>1, <4>2
    <3>2. CASE e = k
      <4>1. x \in 1..len
        BY <1>9, <3>2 DEF ls
      <4>2. n + x \in DOMAIN text' /\ text'[n + x] = ls[x]
        BY <1>9, <4>1
      <4>. QED
        BY <3>2, <4>2 DEF ls
    <3>. QED
      BY <1>7, <3>1, <3>2
  <2>. QED
    BY <1>2, <2>1, <2>2 DEF TextIsStore
<1>18. TextApart'
  <2>. SUFFICES ASSUME NEW i \in DOMAIN text', NEW j \in DOMAIN text', text'[i].nr # 0,
                       text'[i].nr = text'[j].nr, text'[i].name = text'[j].name, text'[i].at = text'[j].at
                PROVE  i = j
    BY DEF TextApart
  <2>1. \A y \in DOMAIN text' : text'[y].nr # 0 => text'[y].tag = sent[text'[y].nr].tag
    <3>. SUFFICES ASSUME NEW y \in DOMAIN text', text'[y].nr # 0 PROVE text'[y].tag = sent[text'[y].nr].tag
      OBVIOUS
    <3>1. PICK e \in 1..k : \E x \in DOMAIN store[e].lines : text'[y] = store[e].lines[x]
      BY <1>2, <1>17 DEF TextIsStore
    <3>2. PICK x \in DOMAIN store[e].lines : text'[y] = store[e].lines[x]
      BY <3>1
    <3>3. e \in DOMAIN store
      BY <1>4
    <3>. QED
      BY <1>1, <3>2, <3>3, TagOfLine
  <2>2. text'[i].tag = text'[j].tag
    BY <2>1
  <2>3. i <= n <=> j <= n
    BY <1>14, <2>2
  <2>4. CASE i <= n /\ j <= n
    BY <1>1, <1>16, <2>4 DEF TextSound, TextApart
  <2>5. CASE i > n /\ j > n
    <3>1. i - n \in DOMAIN ls /\ j - n \in DOMAIN ls /\ text'[i] = ls[i - n] /\ text'[j] = ls[j - n]
      BY <1>15, <2>5
    <3>2. i - n # 1 /\ j - n # 1
      BY <1>13, <3>1
    <3>3. \A x, y \in DOMAIN ls : x # 1 /\ y # 1 /\ ls[x].nr = ls[y].nr /\ ls[x].at = ls[y].at => x = y
      BY <1>1, <1>4 DEF Entries, LinesApart, ls
    <3>4. i - n = j - n
      BY <3>1, <3>2, <3>3
    <3>. QED
      BY <1>9, <1>11, <3>4
  <2>. QED
    BY <1>11, <2>3, <2>4, <2>5
<1>. DEFINE Same(i, j) == text'[i].tag = text'[j].tag /\ text'[i].name = text'[j].name
<1>19. \A i, j : E!Family(i)' = E!Family(j)' <=> Same(i, j)
  BY DEF E!Family
<1>20. E!FamiliesWhole'
  <2>. SUFFICES ASSUME NEW i \in DOMAIN text', NEW j \in DOMAIN text', i < j, Same(i, j)
                PROVE  text'[j].nr # 0 /\ \A m \in i..j : Same(m, i)
    BY <1>19 DEF E!FamiliesWhole
  <2>1. i <= n <=> j <= n
    BY <1>14
  <2>2. i \in Nat /\ j \in Nat /\ i..j \subseteq DOMAIN text'
    BY <1>9
  <2>3. CASE i <= n /\ j <= n
    <3>1. i \in DOMAIN text /\ j \in DOMAIN text /\ text'[i] = text[i] /\ text'[j] = text[j]
      BY <1>16, <2>3
    <3>2. E!Family(i) = E!Family(j)
      BY <3>1 DEF E!Family
    <3>3. text[j].nr # 0 /\ \A m \in i..j : E!Family(m) = E!Family(i)
      BY <1>1, <3>1, <3>2 DEF TextSound, E!FamiliesWhole
    <3>4. \A m \in i..j : m <= n
      BY <1>9, <2>2, <2>3
    <3>5. \A m \in i..j : text'[m] = text[m]
      BY <1>16, <2>2, <3>4
    <3>. QED
      BY <3>1, <3>3, <3>5 DEF E!Family
  <2>4. CASE i > n /\ j > n
    <3>1. \A m \in i..j : m > n
      BY <1>9, <2>2, <2>4
    <3>2. \A m \in i..j : m - n \in DOMAIN ls /\ text'[m] = ls[m - n]
      BY <1>15, <2>2, <3>1
    <3>3. i \in i..j /\ j \in i..j /\ j - n # 1
      BY <1>9, <2>2, <2>4
    <3>. QED
      BY <1>13, <3>2, <3>3
  <2>. QED
    BY <1>11, <2>1, <2>3, <2>4
<1>21. E!HeaderFirst'
  <2>. SUFFICES ASSUME NEW i \in DOMAIN text', text'[i].nr # 0
                PROVE  \E j \in 1..i : text'[j].nr = 0 /\ Same(j, i)
    BY <1>19 DEF E!HeaderFirst
  <2>1. CASE i <= n
    <3>1. i \in DOMAIN text /\ text'[i] = text[i]
      BY <1>16, <2>1
    <3>2. PICK j \in 1..i : text[j].nr = 0 /\ E!Family(j) = E!Family(i)
      BY <1>1, <3>1 DEF TextSound, E!HeaderFirst
    <3>3. j \in 1..n
      BY <1>9, <1>11, <2>1
    <3>4. text'[j] = text[j]
      BY <1>9, <3>3
    <3>. QED
      BY <3>1, <3>2, <3>4 DEF E!Family
  <2>2. CASE i > n
    <3>1. n + 1 \in 1..i /\ n + 1 \in DOMAIN text' /\ n + 1 > n /\ (n + 1) - n = 1
      BY <1>9, <1>11, <2>2
    <3>2. 1 \in DOMAIN ls /\ text'[n + 1] = ls[1]
      BY <1>15, <3>1
    <3>3. i - n \in DOMAIN ls /\ text'[i] = ls[i - n]
      BY <1>15, <2>2
    <3>. QED
      BY <1>13, <3>1, <3>2, <3>3
  <2>. QED
    BY <1>11, <2>1, <2>2
<1>. DEFINE SortedAt(i) == text'[i].nr # 0 /\ text'[i].row # << >> /\ sent[text'[i].nr].sort = "data"
<1>22. \A i : E!Sorted(i)' <=> SortedAt(i)
  BY <1>2 DEF E!Sorted
<1>23. E!RowsGrouped'
  <2>. SUFFICES ASSUME NEW i \in DOMAIN text', NEW j \in DOMAIN text', i < j, SortedAt(i), SortedAt(j), Same(i, j)
                PROVE  /\ text'[i].row[1] = Missing => text'[j].row[1] = Missing
                       /\ \A m \in DOMAIN text' :
                            j < m /\ SortedAt(m) /\ Same(m, i) /\ text'[m].row[1] = text'[i].row[1]
                              => text'[j].row[1] = text'[i].row[1]
    BY <1>19, <1>22 DEF E!RowsGrouped
  <2>1. i <= n <=> j <= n
    BY <1>14
  <2>2. CASE i <= n /\ j <= n
    <3>1. i \in DOMAIN text /\ j \in DOMAIN text /\ text'[i] = text[i] /\ text'[j] = text[j]
      BY <1>16, <2>2
    <3>2. E!Family(i) = E!Family(j) /\ E!Sorted(i) /\ E!Sorted(j)
      BY <3>1 DEF E!Family, E!Sorted
    <3>3. /\ text[i].row[1] = Missing => text[j].row[1] = Missing
          /\ \A m \in DOMAIN text :
               j < m /\ E!Sorted(m) /\ E!Family(m) = E!Family(i) /\ text[m].row[1] = text[i].row[1]
                 => text[j].row[1] = text[i].row[1]
      BY <1>1, <3>1, <3>2 DEF TextSound, E!RowsGrouped
    <3>4. ASSUME NEW m \in DOMAIN text', j < m, SortedAt(m), Same(m, i), text'[m].row[1] = text'[i].row[1]
          PROVE  text'[j].row[1] = text'[i].row[1]
      <4>1. m \in DOMAIN text /\ text'[m] = text[m]
        BY <1>14, <1>16, <2>2, <3>4
      <4>2. E!Sorted(m) /\ E!Family(m) = E!Family(i)
        BY <3>1, <3>4, <4>1 DEF E!Sorted, E!Family
      <4>. QED
        BY <3>1, <3>3, <3>4, <4>1, <4>2
    <3>. QED
      BY <3>1, <3>3, <3>4
  <2>3. CASE i > n /\ j > n
    <3>0. OrderedBy(KeyedAt(ls), KeysOf(ls))
      BY <1>1, <1>4 DEF Entries, EntriesGrouped, GroupedIn, ls
    <3>. DEFINE q == KeyedAt(ls)
                key == KeysOf(ls)
    <3>1. \A m \in DOMAIN text' : m > n /\ SortedAt(m) => m - n \in q /\ key[m - n] = text'[m].row[1]
      <4>. SUFFICES ASSUME NEW m \in DOMAIN text', m > n, SortedAt(m) PROVE m - n \in q /\ key[m - n] = text'[m].row[1]
        OBVIOUS
      <4>1. m - n \in DOMAIN ls /\ text'[m] = ls[m - n]
        BY <1>15
      <4>2. Keyed(ls[m - n])
        BY <4>1 DEF Keyed
      <4>. QED
        BY <4>1, <4>2 DEF KeyedAt, KeysOf
    <3>. HIDE DEF q, key
    <3>2. i - n \in q /\ j - n \in q /\ key[i - n] = text'[i].row[1] /\ key[j - n] = text'[j].row[1] /\ i - n < j - n
      <4>1. i - n < j - n
        BY <1>9, <1>11
      <4>. QED
        BY <2>3, <3>1, <4>1
    <3>3. /\ key[i - n] = Missing => key[j - n] = Missing
          /\ \A m \in q : j - n < m /\ key[m] = key[i - n] => key[j - n] = key[i - n]
      BY <3>0, <3>2 DEF OrderedBy, q, key
    <3>4. ASSUME NEW m \in DOMAIN text', j < m, SortedAt(m), Same(m, i), text'[m].row[1] = text'[i].row[1]
          PROVE  text'[j].row[1] = text'[i].row[1]
      <4>1. m > n /\ j - n < m - n
        BY <1>9, <1>11, <2>3, <3>4
      <4>2. m - n \in q /\ key[m - n] = text'[m].row[1]
        BY <3>1, <3>4, <4>1
      <4>. QED
        BY <3>2, <3>3, <3>4, <4>1, <4>2
    <3>. QED
      BY <3>2, <3>3, <3>4
  <2>. QED
    BY <1>11, <2>1, <2>2, <2>3
<1>24. Types(U)'
  BY <1>1, <1>2, <1>4, <1>9 DEF Types
<1>25. Results'
  <2>1. SentAreResults' /\ ListIsSent' /\ NoneLost' /\ CellIs'
    BY <1>1, <1>2 DEF Results, SentAreResults, ListIsSent, NoneLost, CellIs, Of, E!Failed
  <2>2. InOrder'
    BY <1>2, <1>4 DEF InOrder
  <2>. QED
    BY <2>1, <2>2 DEF Results
<1>26. Entries'
  <2>1. \A m, c, r : Gathered(m, c, r)' <=> Gathered(m, c, r)
    BY <1>2 DEF Gathered, Listed
  <2>. QED
    BY <1>1, <1>2, <2>1, EntriesKept
<1>. QED
  BY <1>17, <1>18, <1>20, <1>21, <1>23, <1>24, <1>25, <1>26 DEF IInv, TextSound

LEMMA OtherSteps ==
    ASSUME NEW U, Universe(U), IInv(U), E!Rendered \/ UNCHANGED E!vars
    PROVE  IInv(U)'
<1>1. Types(U) /\ Results /\ Entries /\ TextSound
  BY DEF IInv
<1>2. UNCHANGED << scrape, ask, sent, list, cell, store, entry, text >>
  BY DEF E!Rendered, E!vars
<1>3. stage' = stage \/ (stage = "gather" /\ stage' = "done" /\ list = << >> /\ entry = Len(store))
  BY DEF E!Rendered, E!vars
<1>4. Types(U)'
  BY <1>1, <1>2, <1>3 DEF Types
<1>5. Results'
  <2>1. SentAreResults' /\ ListIsSent' /\ CellIs'
    BY <1>1, <1>2 DEF Results, SentAreResults, ListIsSent, CellIs, Of, E!Failed, E!RowsOf
  <2>2. NoneLost'
    BY <1>1, <1>2, <1>3 DEF Results, NoneLost, Listed, E!Failed
  <2>3. InOrder'
    BY <1>1, <1>2, <1>3 DEF Results, InOrder
  <2>. QED
    BY <2>1, <2>2, <2>3 DEF Results
<1>6. CASE stage = "query"
  BY <1>2, <1>3, <1>4, <1>5, <1>6, AskingKeeps
<1>7. CASE stage # "query"
  <2>1. \A n, c, r : Gathered(n, c, r)' <=> Gathered(n, c, r)
    BY <1>2 DEF Gathered, Listed
  <2>2. Entries'
    BY <1>1, <1>2, <1>7, <2>1, EntriesKept
  <2>3. TextSound'
    BY <1>1, <1>2, TextsKept
  <2>. QED
    BY <1>4, <1>5, <2>2, <2>3 DEF IInv
<1>. QED
  BY <1>6, <1>7

LEMMA InitIs ==
    ASSUME NEW U, E!Init
    PROVE  IInv(U)
<1>1. /\ scrape \in Scrapes /\ stage = "query" /\ ask = [metric |-> 1, server |-> 1, database |-> 1]
      /\ cell = [column |-> 1, row |-> 1] /\ entry = 0 /\ sent = << >> /\ list = << >> /\ store = << >> /\ text = << >>
  BY DEF E!Init, E!At
<1>2. DOMAIN sent = {} /\ DOMAIN list = {} /\ DOMAIN store = {} /\ DOMAIN text = {} /\ 1..entry = {}
  BY <1>1
<1>3. Types(U)
  <2>1. << >> \in Seq(ResultSet(U)) /\ << >> \in Seq(EntrySet(U)) /\ << >> \in Seq(LineSet(U)) /\ Len(<< >>) = 0
    OBVIOUS
  <2>. QED
    BY <1>1, <2>1 DEF Types
<1>4. Results
  BY <1>1, <1>2 DEF Results, SentAreResults, ListIsSent, NoneLost, InOrder, CellIs
<1>5. Entries
  BY <1>1, <1>2 DEF Entries, EntriesWhole, EntriesApart, EntriesAreColumns, LinesAreCells, LinesApart, CellsAreStored,
                    EntriesGrouped
<1>6. TextSound
  BY <1>2 DEF TextSound, TextIsStore, TextApart, E!FamiliesWhole, E!HeaderFirst, E!RowsGrouped
<1>. QED
  BY <1>3, <1>4, <1>5, <1>6 DEF IInv

\* The text shows what was stored, and what was stored is a cell.
LEMMA ShownIs ==
    ASSUME NEW U, IInv(U)
    PROVE  E!RowsShown
<1>1. Types(U) /\ Results /\ Entries /\ TextSound
  BY DEF IInv
<1>2. ASSUME stage = "done", NEW n \in DOMAIN sent, sent[n].rows # E!Failed,
             NEW c \in E!ValueColumns(sent[n]), NEW r \in E!RowsOf(sent[n]),
             ~ E!Empty(sent[n], c, r), ~ (Len(store) >= MaxColumns /\ E!Unknown(sent[n], c))
      PROVE  \E i \in DOMAIN text : E!Shows(text[i], n, c, r)
  <2>1. Cell(n, c, r)
    BY <1>2 DEF Cell
  <2>2. list = << >> /\ entry = Len(store)
    BY <1>1, <1>2 DEF Results, InOrder
  <2>3. Gathered(n, c, r)
    BY <2>2 DEF Gathered, Listed
  <2>4. Stored(n, c, r)
    BY <1>1, <1>2, <2>1, <2>3 DEF Entries, CellsAreStored, LeftOut
  <2>5. PICK k \in DOMAIN store : \E x \in DOMAIN store[k].lines : store[k].lines[x] = E!Line(sent[n], c, r)
    BY <2>4 DEF Stored
  <2>6. k \in 1..entry
    BY <1>1, <2>2 DEF Types
  <2>7. PICK i \in DOMAIN text : text[i] = E!Line(sent[n], c, r)
    BY <1>1, <2>5, <2>6 DEF TextSound, TextIsStore
  <2>8. sent[n].nr = n
    BY <1>1 DEF Results, SentAreResults
  <2>9. E!Shows(text[i], n, c, r)
    BY <2>7, <2>8 DEF E!Shows, E!Line
  <2>. QED
    BY <2>9
<1>3. ASSUME NEW i \in DOMAIN text, text[i].nr # 0
      PROVE  \E n \in DOMAIN sent : \E c \in E!ValueColumns(sent[n]), r \in E!RowsOf(sent[n]) :
               /\ text[i] = E!Line(sent[n], c, r) /\ sent[n].rows # E!Failed /\ ~ E!Empty(sent[n], c, r)
               /\ \A j \in DOMAIN text : E!Shows(text[j], n, c, r) => i = j
  <2>1. PICK k \in 1..entry : \E x \in DOMAIN store[k].lines : text[i] = store[k].lines[x]
    BY <1>1 DEF TextSound, TextIsStore
  <2>2. PICK x \in DOMAIN store[k].lines : text[i] = store[k].lines[x]
    BY <2>1
  <2>3. k \in DOMAIN store
    <3>1. store \in Seq(EntrySet(U)) /\ entry \in Nat /\ entry <= Len(store)
      BY <1>1 DEF Types
    <3>. QED
      BY <3>1
  <2>4. x # 1
    BY <1>1, <1>3, <2>2, <2>3 DEF Entries, EntriesWhole
  <2>5. PICK n \in DOMAIN sent : \E c \in E!ValueColumns(sent[n]), r \in E!RowsOf(sent[n]) :
          Cell(n, c, r) /\ Gathered(n, c, r) /\ store[k].lines[x] = E!Line(sent[n], c, r)
    BY <1>1, <2>3, <2>4 DEF Entries, LinesAreCells
  <2>6. PICK c \in E!ValueColumns(sent[n]), r \in E!RowsOf(sent[n]) :
          Cell(n, c, r) /\ store[k].lines[x] = E!Line(sent[n], c, r)
    BY <2>5
  <2>7. text[i] = E!Line(sent[n], c, r) /\ sent[n].rows # E!Failed /\ ~ E!Empty(sent[n], c, r)
    BY <2>2, <2>6 DEF Cell
  <2>8. text[i].nr = sent[n].nr /\ sent[n].nr = n /\ text[i].name = sent[n].columns[c].name /\ text[i].at = r
    BY <1>1, <2>7 DEF E!Line, Results, SentAreResults
  <2>9. \A j \in DOMAIN text : E!Shows(text[j], n, c, r) => i = j
    BY <1>1, <1>3, <2>8 DEF E!Shows, TextSound, TextApart
  <2>. QED
    BY <2>7, <2>9
<1>. QED
  BY <1>2, <1>3 DEF E!RowsShown

----------------------------------------------------------------------------
(* That everything is asked for.                                           *)

\* What was asked for stays so.
LEMMA StaysAsked ==
    ASSUME NEW U, Types(U), sent' = sent \/ \E node \in ResultSet(U) : sent' = Append(sent, node), scrape' = scrape,
           NEW m, NEW s, NEW d, E!Asked(m, s, d)
    PROVE  E!Asked(m, s, d)'
<1>1. sent \in Seq(ResultSet(U))
  BY DEF Types
<1>2. \A n \in DOMAIN sent : n \in DOMAIN sent' /\ sent'[n] = sent[n]
  BY <1>1
<1>3. E!DatabasesOf(m, s)' = E!DatabasesOf(m, s)
  BY DEF E!DatabasesOf
<1>. QED
  BY <1>2, <1>3 DEF E!Asked

LEMMA AskedStep ==
    ASSUME NEW U, Universe(U), Types(U), LoopsNested, BehindAsked, E!Next
    PROVE  LoopsNested' /\ BehindAsked'
<1>0. /\ scrape.metrics \in Seq(U) /\ scrape.servers \in Seq(U)
      /\ ask.metric \in Nat \ {0} /\ ask.server \in Nat \ {0} /\ ask.database \in Nat \ {0}
      /\ \A i \in DOMAIN scrape.servers : scrape.servers[i].databases \in Seq(U) \ {<< >>}
  <2>1. Sound(U, scrape)
    BY DEF Universe, Types
  <2>. QED
    BY <2>1 DEF Types, Sound
<1>1. /\ DOMAIN scrape.metrics = 1..Len(scrape.metrics) /\ Len(scrape.metrics) \in Nat
      /\ DOMAIN scrape.servers = 1..Len(scrape.servers) /\ Len(scrape.servers) \in Nat
  BY <1>0
<1>. DEFINE Due(i, s) == E!Passes(scrape.metrics[i].collector) /\ E!Applies(scrape.metrics[i], s)
            Bases(i, s) == E!DatabasesOf(scrape.metrics[i], s)
<1>2. ASSUME scrape' = scrape
      PROVE  \A i, s : Due(i, s)' <=> Due(i, s)
  BY <1>2 DEF E!Passes, E!Applies
<1>3. ASSUME scrape' = scrape
      PROVE  \A i, s : Bases(i, s)' = Bases(i, s)
  BY <1>3 DEF E!DatabasesOf
<1>4. \A i \in DOMAIN scrape.metrics, s \in DOMAIN scrape.servers : \A d \in DOMAIN Bases(i, s) : d \in Nat \ {0} /\ d <= Len(Bases(i, s))
  <2>. TAKE i \in DOMAIN scrape.metrics, s \in DOMAIN scrape.servers
  <2>1. scrape.servers[s].databases \in Seq(U)
    BY <1>0
  <2>. DEFINE b == Bases(i, s)
  <2>2. b = << "" >> \/ b = scrape.servers[s].databases \/ b = << scrape.servers[s].databases[Len(scrape.servers[s].databases)] >>
    BY DEF E!DatabasesOf
  <2>3. \A a : Len(<< a >>) = 1 /\ DOMAIN << a >> = 1..1
    OBVIOUS
  <2>. HIDE DEF b
  <2>4. DOMAIN b = 1..Len(b) /\ Len(b) \in Nat
    <3>1. CASE b = scrape.servers[s].databases
      BY <2>1, <3>1
    <3>2. CASE \E a : b = << a >>
      BY <2>3, <3>2
    <3>. QED
      BY <2>2, <3>1, <3>2
  <2>5. \A d \in DOMAIN b : d \in Nat \ {0} /\ d <= Len(b)
    BY <2>4
  <2>. QED
    BY <2>5 DEF b
\* What stays to be shown while queries are sent.
<1>5. ASSUME stage = "query", stage' = "query", scrape' = scrape, fds' \subseteq fds,
             sent' = sent \/ \E node \in ResultSet(U) : sent' = Append(sent, node),
             \A i \in DOMAIN scrape.metrics, s \in fds' : \A d \in DOMAIN Bases(i, s) :
               Due(i, s) /\ Behind(i, s, d)' => Behind(i, s, d) \/ E!Asked(scrape.metrics[i], s, d)'
      PROVE  BehindAsked'
  <2>. SUFFICES ASSUME NEW i \in DOMAIN scrape.metrics, NEW s \in fds', Due(i, s),
                       NEW d \in DOMAIN Bases(i, s), Behind(i, s, d)'
                PROVE  E!Asked(scrape.metrics[i], s, d)'
    BY <1>2, <1>3, <1>5 DEF BehindAsked, E!EverythingAsked
  <2>1. Behind(i, s, d) => E!Asked(scrape.metrics[i], s, d)
    BY <1>5 DEF BehindAsked
  <2>2. E!Asked(scrape.metrics[i], s, d) => E!Asked(scrape.metrics[i], s, d)'
    <3>. SUFFICES ASSUME E!Asked(scrape.metrics[i], s, d) PROVE E!Asked(scrape.metrics[i], s, d)'
      OBVIOUS
    <3>1. PICK m : m = scrape.metrics[i]
      OBVIOUS
    <3>2. E!Asked(m, s, d)'
      BY <1>5, <3>1, StaysAsked
    <3>. QED
      BY <1>5, <3>1, <3>2
  <2>. QED
    BY <1>5, <2>1, <2>2
<1>6. CASE E!Execute
  <2>1. /\ E!Asking /\ E!Wanted /\ stage = "query" /\ UNCHANGED << scrape, stage, fds >>
        /\ ask' = [ask EXCEPT !.database = @ + 1]
    BY <1>6 DEF E!Execute, E!Asking
  <2>2. PICK rows \in Returned(E!Metric) \cup {E!Failed} : sent' = Append(sent, E!Node(rows))
    BY <1>6 DEF E!Execute
  <2>3. E!Node(rows) \in ResultSet(U)
    BY <2>1, NodeIs
  <2>4. ask'.metric = ask.metric /\ ask'.server = ask.server /\ ask'.database = ask.database + 1
    <3>1. ask \in [metric : Nat \ {0}, server : Nat \ {0}, database : Nat \ {0}]
      BY DEF Types
    <3>. QED
      BY <2>1, <3>1
  <2>5. LoopsNested'
    BY <2>1, <2>4 DEF LoopsNested
  <2>6. ASSUME NEW i \in DOMAIN scrape.metrics, NEW s \in fds', NEW d \in DOMAIN Bases(i, s), Due(i, s), Behind(i, s, d)'
        PROVE  Behind(i, s, d) \/ E!Asked(scrape.metrics[i], s, d)'
    <3>1. i \in Nat /\ s \in Nat /\ d \in Nat
      BY <1>1, <1>4, <2>1 DEF LoopsNested
    <3>2. Behind(i, s, d) \/ (i = ask.metric /\ s = ask.server /\ d = ask.database)
      BY <1>0, <2>1, <2>4, <2>6, <3>1 DEF Behind
    <3>3. ASSUME i = ask.metric, s = ask.server, d = ask.database PROVE E!Asked(scrape.metrics[i], s, d)'
      <4>1. Len(sent) + 1 \in DOMAIN sent' /\ sent'[Len(sent) + 1] = E!Node(rows)
        BY <2>2, <2>3 DEF Types
      <4>2. /\ E!Node(rows).tag = scrape.metrics[i].tag /\ E!Node(rows).server = s
            /\ E!Node(rows).database = Bases(i, s)[d]
        BY <3>3 DEF E!Node, E!Metric, E!Databases
      <4>. QED
        BY <1>3, <2>1, <4>1, <4>2 DEF E!Asked
    <3>. QED
      BY <3>2, <3>3
  <2>7. fds' \subseteq fds /\ stage' = "query" /\ scrape' = scrape /\ \E node \in ResultSet(U) : sent' = Append(sent, node)
    BY <2>1, <2>2, <2>3
  <2>8. BehindAsked'
    BY <1>5, <2>1, <2>6, <2>7
  <2>. QED
    BY <2>5, <2>8
<1>7. CASE E!SwitchFails
  <2>1. /\ E!Asking /\ E!Wanted /\ stage = "query" /\ UNCHANGED << scrape, stage, ask >> /\ fds' \subseteq fds
        /\ sent' = Append(sent, E!Node(E!Failed))
    BY <1>7 DEF E!SwitchFails, E!Asking
  <2>2. E!Node(E!Failed) \in ResultSet(U)
    BY <2>1, NodeIs
  <2>3. LoopsNested'
    BY <2>1 DEF LoopsNested
  <2>4. \A i, s, d : Behind(i, s, d)' <=> Behind(i, s, d)
    BY <2>1 DEF Behind
  <2>5. fds' \subseteq fds /\ stage' = "query" /\ scrape' = scrape /\ \E node \in ResultSet(U) : sent' = Append(sent, node)
    BY <2>1, <2>2
  <2>6. BehindAsked'
    BY <1>5, <2>1, <2>4, <2>5
  <2>. QED
    BY <2>3, <2>6
<1>8. CASE E!Pass
  <2>1. E!Asking /\ ~ E!Wanted /\ stage = "query" /\ UNCHANGED << scrape, stage, fds, sent >> /\ ask' = E!Onward
    BY <1>8 DEF E!Pass, E!Asking
  <2>2. ask.metric <= Len(scrape.metrics) /\ ask.server <= Len(scrape.servers)
    BY <2>1 DEF E!Asking
  <2>. DEFINE over(m, s) == ask'.metric = m /\ ask'.server = s /\ ask'.database = 1
  <2>3. /\ scrape.kind = "custom" =>
             \/ ask.server < Len(scrape.servers) /\ over(ask.metric, ask.server + 1)
             \/ ~ (ask.server < Len(scrape.servers)) /\ over(ask.metric + 1, 1)
        /\ scrape.kind # "custom" =>
             \/ ask.metric < Len(scrape.metrics) /\ over(ask.metric + 1, ask.server)
             \/ ~ (ask.metric < Len(scrape.metrics)) /\ over(1, ask.server + 1)
    BY <2>1 DEF E!Onward, E!At
  <2>4. LoopsNested'
    <3>1. fds' \subseteq DOMAIN scrape.servers
      BY <2>1 DEF LoopsNested
    <3>2. /\ scrape.kind = "custom" => ask'.server = 1 \/ ask'.server <= Len(scrape.servers)
          /\ scrape.kind # "custom" => ask'.metric = 1 \/ ask'.metric <= Len(scrape.metrics)
      BY <1>0, <1>1, <2>3
    <3>. QED
      BY <2>1, <3>1, <3>2 DEF LoopsNested
  <2>5. ASSUME NEW i \in DOMAIN scrape.metrics, NEW s \in fds', NEW d \in DOMAIN Bases(i, s), Due(i, s), Behind(i, s, d)'
        PROVE  Behind(i, s, d)
    <3>1. /\ i \in Nat \ {0} /\ s \in Nat \ {0} /\ d \in Nat \ {0} /\ i <= Len(scrape.metrics) /\ s <= Len(scrape.servers)
          /\ s \in fds /\ d <= Len(Bases(i, s))
      <4>1. s \in fds /\ s \in DOMAIN scrape.servers
        BY <2>1 DEF LoopsNested
      <4>. QED
        BY <1>1, <1>4, <4>1
    <3>2. ASSUME i = ask.metric, s = ask.server PROVE d < ask.database
      <4>1. ~ (ask.database <= Len(Bases(i, s)))
        BY <2>1, <2>5, <3>1, <3>2 DEF E!Wanted, E!Metric, E!Databases
      <4>2. Len(Bases(i, s)) \in Nat
        <5>1. s \in DOMAIN scrape.servers
          BY <3>1 DEF LoopsNested
        <5>2. scrape.servers[s].databases \in Seq(U)
          BY <1>0, <5>1
        <5>3. \A a : Len(<< a >>) = 1
          OBVIOUS
        <5>. QED
          BY <5>2, <5>3 DEF E!DatabasesOf
      <4>. QED
        BY <1>0, <3>1, <4>1, <4>2
    <3>3. CASE scrape.kind = "custom"
      <4>1. i < ask'.metric \/ (i = ask'.metric /\ (s < ask'.server \/ (s = ask'.server /\ d < ask'.database)))
        BY <2>1, <2>5, <3>3 DEF Behind
      <4>2. i < ask.metric \/ (i = ask.metric /\ (s < ask.server \/ s = ask.server))
        BY <1>0, <1>1, <2>2, <2>3, <3>1, <3>3, <4>1
      <4>. QED
        BY <3>2, <3>3, <4>2 DEF Behind
    <3>4. CASE scrape.kind # "custom"
      <4>1. s < ask'.server \/ (s = ask'.server /\ (i < ask'.metric \/ (i = ask'.metric /\ d < ask'.database)))
        BY <2>1, <2>5, <3>4 DEF Behind
      <4>2. s < ask.server \/ (s = ask.server /\ (i < ask.metric \/ i = ask.metric))
        BY <1>0, <1>1, <2>2, <2>3, <3>1, <3>4, <4>1
      <4>. QED
        BY <3>2, <3>4, <4>2 DEF Behind
    <3>. QED
      BY <3>3, <3>4
  <2>6. fds' \subseteq fds /\ stage' = "query" /\ scrape' = scrape /\ sent' = sent
    BY <2>1
  <2>7. BehindAsked'
    BY <1>5, <2>1, <2>5, <2>6
  <2>. QED
    BY <2>4, <2>7
<1>9. CASE E!CollectorExits
  <2>1. UNCHANGED << scrape, fds, ask >> /\ stage' = "exit"
    BY <1>9 DEF E!CollectorExits
  <2>. QED
    BY <2>1 DEF LoopsNested, BehindAsked, E!EverythingAsked
<1>10. CASE E!Queried
  <2>1. stage = "query" /\ ~ E!Asking /\ stage' = "gather" /\ UNCHANGED << scrape, fds, ask, sent >>
    BY <1>10 DEF E!Queried
  <2>2. LoopsNested'
    BY <2>1 DEF LoopsNested
  <2>3. ASSUME NEW i \in DOMAIN scrape.metrics, NEW s \in fds, NEW d PROVE Behind(i, s, d)
    <3>1. i \in 1..Len(scrape.metrics) /\ s \in 1..Len(scrape.servers)
      BY <1>1 DEF LoopsNested
    <3>2. ~ (ask.metric <= Len(scrape.metrics)) \/ ~ (ask.server <= Len(scrape.servers))
      BY <2>1 DEF E!Asking
    <3>3. CASE scrape.kind = "custom"
      <4>1. ask.server = 1 \/ ask.server <= Len(scrape.servers)
        BY <3>3 DEF LoopsNested
      <4>2. i < ask.metric
        BY <1>0, <1>1, <3>1, <3>2, <4>1
      <4>. QED
        BY <3>3, <4>2 DEF Behind
    <3>4. CASE scrape.kind # "custom"
      <4>1. ask.metric = 1 \/ ask.metric <= Len(scrape.metrics)
        BY <3>4 DEF LoopsNested
      <4>2. s < ask.server
        BY <1>0, <1>1, <3>1, <3>2, <4>1
      <4>. QED
        BY <3>4, <4>2 DEF Behind
    <3>. QED
      BY <3>3, <3>4
  <2>4. ASSUME NEW i \in DOMAIN scrape.metrics, NEW s \in fds, Due(i, s), NEW d \in DOMAIN Bases(i, s)
        PROVE  E!Asked(scrape.metrics[i], s, d)
    BY <2>1, <2>3, <2>4 DEF BehindAsked
  <2>5. \A m, s, d : E!Asked(m, s, d)' <=> E!Asked(m, s, d)
    BY <2>1 DEF E!Asked, E!DatabasesOf
  <2>6. E!EverythingAsked'
    <3>. SUFFICES ASSUME NEW i \in DOMAIN scrape.metrics, NEW s \in fds, Due(i, s), NEW d \in DOMAIN Bases(i, s)
                  PROVE  E!Asked(scrape.metrics[i], s, d)'
      BY <1>2, <1>3, <2>1 DEF E!EverythingAsked
    <3>1. E!Asked(scrape.metrics[i], s, d)
      BY <2>4
    <3>. QED
      BY <2>1, <3>1 DEF E!Asked, E!DatabasesOf
  <2>. QED
    BY <2>1, <2>2, <2>6 DEF BehindAsked
<1>11. CASE \/ E!SkipColumn \/ E!NewColumn \/ E!HistogramMissing \/ E!SkipRow \/ E!AddRow \/ E!NextResult
            \/ E!Render \/ E!Rendered
  <2>1. stage = "gather" /\ stage' \in {"gather", "done", "exit"} /\ UNCHANGED << scrape, fds, ask, sent >>
    BY <1>11 DEF E!SkipColumn, E!NewColumn, E!HistogramMissing, E!SkipRow, E!AddRow, E!NextResult, E!Render, E!Rendered,
                 E!AtValue, E!AtColumn, E!Gathering
  <2>2. LoopsNested'
    BY <2>1 DEF LoopsNested
  <2>3. E!EverythingAsked
    BY DEF BehindAsked
  <2>4. E!EverythingAsked'
    <3>. SUFFICES ASSUME NEW i \in DOMAIN scrape.metrics, NEW s \in fds, Due(i, s), NEW d \in DOMAIN Bases(i, s)
                  PROVE  E!Asked(scrape.metrics[i], s, d)'
      BY <1>2, <1>3, <2>1 DEF E!EverythingAsked
    <3>1. E!Asked(scrape.metrics[i], s, d)
      BY <2>1, <2>3 DEF E!EverythingAsked
    <3>. QED
      BY <2>1, <3>1 DEF E!Asked, E!DatabasesOf
  <2>. QED
    BY <2>1, <2>2, <2>4 DEF BehindAsked
<1>. QED
  BY <1>6, <1>7, <1>8, <1>9, <1>10, <1>11 DEF E!Next

----------------------------------------------------------------------------

\* The steps keep the invariant.
LEMMA NextKeeps ==
    ASSUME NEW U, Universe(U), IInv(U), LoopsNested, BehindAsked, [E!Next]_(E!vars)
    PROVE  IInv(U)' /\ LoopsNested' /\ BehindAsked'
<1>1. CASE E!Next
  <2>1. IInv(U)'
    BY <1>1, ResultStep, AskStep, SkipStep, NewColumnStep, AddRowStep, RenderStep, OtherSteps DEF E!Next
  <2>2. Types(U)
    BY DEF IInv
  <2>3. LoopsNested' /\ BehindAsked'
    BY <1>1, <2>2, AskedStep
  <2>. QED
    BY <2>1, <2>3
<1>2. CASE UNCHANGED E!vars
  <2>1. UNCHANGED << scrape, stage, fds, ask, sent >>
    BY <1>2 DEF E!vars
  <2>2. LoopsNested'
    BY <2>1 DEF LoopsNested
  <2>. DEFINE Due(i, s) == E!Passes(scrape.metrics[i].collector) /\ E!Applies(scrape.metrics[i], s)
              Bases(i, s) == E!DatabasesOf(scrape.metrics[i], s)
              Done(i, s, d) == E!Asked(scrape.metrics[i], s, d)
  <2>3. /\ \A i, s : (Due(i, s)' <=> Due(i, s)) /\ Bases(i, s)' = Bases(i, s)
        /\ \A i, s, d : (Behind(i, s, d)' <=> Behind(i, s, d)) /\ (Done(i, s, d)' <=> Done(i, s, d))
    BY <2>1 DEF E!Asked, E!Passes, E!Applies, E!DatabasesOf, Behind
  <2>4. BehindAsked <=>
          /\ stage = "query" => \A i \in DOMAIN scrape.metrics, s \in fds : Due(i, s) =>
               \A d \in DOMAIN Bases(i, s) : Behind(i, s, d) => Done(i, s, d)
          /\ stage \in {"gather", "done"} => \A i \in DOMAIN scrape.metrics, s \in fds : Due(i, s) =>
               \A d \in DOMAIN Bases(i, s) : Done(i, s, d)
    BY DEF BehindAsked, E!EverythingAsked
  <2>5. BehindAsked' <=>
          /\ stage' = "query" => \A i \in DOMAIN scrape'.metrics, s \in fds' : Due(i, s)' =>
               \A d \in DOMAIN Bases(i, s)' : Behind(i, s, d)' => Done(i, s, d)'
          /\ stage' \in {"gather", "done"} => \A i \in DOMAIN scrape'.metrics, s \in fds' : Due(i, s)' =>
               \A d \in DOMAIN Bases(i, s)' : Done(i, s, d)'
    BY DEF BehindAsked, E!EverythingAsked
  <2>. HIDE DEF Due, Bases, Done
  <2>6. BehindAsked'
    BY <2>1, <2>3, <2>4, <2>5
  <2>. QED
    BY <1>2, <2>2, <2>6, OtherSteps
<1>. QED
  BY <1>1, <1>2

\* What a response shows is what the servers answered, and it is read as that: each server
\* that kept its connection was asked for every metric that it has, the lines of a metric
\* follow each other and its one header, each row that was returned is shown once and
\* nothing else is, and rows that are sorted are grouped. Of custom_metrics and
\* extension_metrics, for any metrics, servers, databases, results and size of the store.
THEOREM ResponseIsSound == DefinitionsAgree => (E!Spec => []ExpositionSound)
<1>. SUFFICES ASSUME DefinitionsAgree PROVE E!Spec => []ExpositionSound
  OBVIOUS
<1>1. PICK U : Universe(U)
  BY DEF DefinitionsAgree
<1>. DEFINE Inv == IInv(U) /\ LoopsNested /\ BehindAsked
<1>2. E!Init => Inv
  <2>. SUFFICES ASSUME E!Init PROVE Inv
    OBVIOUS
  <2>1. IInv(U)
    BY InitIs
  <2>2. /\ scrape \in Scrapes /\ stage = "query" /\ fds \subseteq DOMAIN scrape.servers
        /\ ask = [metric |-> 1, server |-> 1, database |-> 1]
    BY DEF E!Init, E!At
  <2>3. LoopsNested
    BY <2>2 DEF LoopsNested
  <2>4. BehindAsked
    <3>1. Sound(U, scrape)
      BY <1>1, <2>2 DEF Universe
    <3>2. ASSUME NEW i \in DOMAIN scrape.metrics, NEW s \in fds, NEW d \in DOMAIN E!DatabasesOf(scrape.metrics[i], s)
          PROVE  ~ Behind(i, s, d)
      <4>1. i \in Nat \ {0}
        <5>1. scrape.metrics \in Seq(U)
          BY <3>1 DEF Sound
        <5>. QED
          BY <5>1
      <4>2. s \in Nat \ {0} /\ s \in DOMAIN scrape.servers
        <5>1. scrape.servers \in Seq(U) /\ s \in DOMAIN scrape.servers
          BY <2>2, <3>1 DEF Sound
        <5>. QED
          BY <5>1
      <4>3. d \in Nat \ {0}
        <5>1. scrape.servers[s].databases \in Seq(U)
          BY <3>1, <4>2 DEF Sound
        <5>2. \A a : DOMAIN << a >> = 1..1
          OBVIOUS
        <5>3. \A x \in DOMAIN scrape.servers[s].databases : x \in Nat \ {0}
          BY <5>1
        <5>4. \A a : \A x \in DOMAIN << a >> : x \in Nat \ {0}
          BY <5>2
        <5>. QED
          BY <5>3, <5>4 DEF E!DatabasesOf
      <4>4. ask.metric = 1 /\ ask.server = 1 /\ ask.database = 1
        BY <2>2
      <4>. QED
        BY <4>1, <4>2, <4>3, <4>4 DEF Behind
    <3>. QED
      BY <2>2, <3>2 DEF BehindAsked, E!EverythingAsked
  <2>. QED
    BY <2>1, <2>3, <2>4
<1>3. Inv /\ [E!Next]_(E!vars) => Inv'
  BY <1>1, NextKeeps
<1>4. Inv => ExpositionSound
  BY ShownIs DEF IInv, TextSound, BehindAsked, ExpositionSound
<1>. QED
  BY <1>2, <1>3, <1>4, PTL DEF E!Spec

----------------------------------------------------------------------------
(* PrometheusClient. The responses: names are sequences of parts N, labels *)
(* are in L, texts and values in V.                                        *)

Line(N, L, V) ==
    [kind : {"help", "type"}, name : Seq(N), text : V]
      \cup [kind : {"sample"}, name : Seq(N), labels : Seq(L), value : V, malformed : BOOLEAN]
      \cup [kind : {"comment", "cr"}]

Answer(N, L, V) == [up : BOOLEAN, lines : Seq(Line(N, L, V))]

\* "none" stands for the metric that is not there, and is no part of a name.
Answers(N, L, V) == "none" \notin N /\ Bodies \subseteq Seq(Answer(N, L, V))

SetupsAreAnswers == MaxValues \in Nat \ {0} /\ \E N, L, V : Answers(N, L, V)

Origin(e) == << "endpoint", Address[e] >>

\* The endpoints of a bridge are different ones, and none of them sends a label that the
\* bridge itself gives to one (as a bridge of bridges would).
OriginsApart ==
    \A b \in Bodies : \A e, f \in DOMAIN b :
        /\ Origin(e) = Origin(f) => e = f
        /\ \A i \in DOMAIN b[e].lines :
             b[e].lines[i].kind = "sample" => Origin(f) \notin C!ToSet(b[e].lines[i].labels)

----------------------------------------------------------------------------
(* The inductive invariant.                                                *)

Texts(V) == V \cup {"", "rest_of_name"}

Labels(L) == L \cup {Origin(e) : e \in Nat}

Definition(L, V) == [attributes : Seq(Labels(L)), values : Seq(Texts(V))]

Metric(L, V) == [help : Texts(V), type : Texts(V), definitions : Seq(Definition(L, V))]

TypeOK(N, L, V) ==
    /\ bodies \in Bodies
    /\ doing \in {"connect", "lines", "done", "error", "crash"}
    /\ endpoint \in Nat \ {0}
    /\ body \in Seq(Line(N, L, V))
    /\ metric \in Seq(N) \cup {C!None}
    /\ buffer \in [help : Texts(V), type : Texts(V)]
    /\ DOMAIN gathered \subseteq Seq(N)
    /\ gathered \in [DOMAIN gathered -> Metric(L, V)]
    /\ lost \in BOOLEAN

Lines == bodies[endpoint].lines

\* The number of lines of the response that were taken.
Read == Len(Lines) - Len(body)

LinesLeft ==
    doing = "lines" =>
        /\ endpoint \in DOMAIN bodies /\ bodies[endpoint].up
        /\ Len(body) <= Len(Lines)
        /\ \A i \in 1..Len(body) : body[i] = Lines[Read + i]

MetricThere == doing = "lines" /\ metric # C!None => metric \in DOMAIN gathered

\* Each definition has a value, comes from an endpoint that is up and is the only one
\* with its labels.
DefinitionsApart ==
    \A n \in DOMAIN gathered : \A i \in DOMAIN gathered[n].definitions :
        LET d == gathered[n].definitions[i]
        IN  /\ d.values # << >>
            /\ d.attributes # << >>
            /\ \E e \in DOMAIN bodies : bodies[e].up /\ d.attributes[1] = Origin(e)
            /\ \A j \in DOMAIN gathered[n].definitions :
                 C!ToSet(gathered[n].definitions[j].attributes) = C!ToSet(d.attributes) => i = j

ResponseIs ==
    doing = "done" =>
        /\ endpoint > Len(bodies)
        /\ response = [n \in DOMAIN gathered |->
             [help |-> gathered[n].help, type |-> gathered[n].type,
              samples |-> [i \in DOMAIN gathered[n].definitions |-> C!Shown(gathered[n].definitions[i])]]]

Basic(N, L, V) == TypeOK(N, L, V) /\ LinesLeft /\ MetricThere /\ DefinitionsApart /\ ResponseIs

\* From here on the endpoints that answer write what pgexporter writes.
AllOwn == \A e \in DOMAIN bodies : bodies[e].up => C!OwnFormat(bodies[e].lines)

NothingLost == ~ lost /\ doing \notin {"error", "crash"}

\* The current metric is the one that the last HELP announced.
MetricIsHead ==
    doing = "lines" =>
        \/ metric = C!None /\ \A j \in 1..Read : Lines[j].kind # "help"
        \/ /\ metric # C!None
           /\ \E j \in 1..Read : /\ Lines[j].kind = "help" /\ Lines[j].name = metric
                                 /\ \A k \in 1..Read : Lines[k].kind = "help" => k <= j

Taken(s) ==
    \/ s.endpoint < endpoint
    \/ s.endpoint = endpoint /\ doing = "lines" /\ s.at <= Read

\* The labels that the bridge gives to a sample.
Carried(s) == C!ToSet(s.line.labels) \cup {Origin(s.endpoint)}

Supersedes(t, s) ==
    /\ t.endpoint = s.endpoint /\ t.at > s.at /\ t.line.name = s.line.name
    /\ C!ToSet(t.line.labels) = C!ToSet(s.line.labels)

FromTaken ==
    \A n \in DOMAIN gathered : \A i \in DOMAIN gathered[n].definitions :
        \E s \in C!Samples : /\ Taken(s) /\ s.line.name = n
                           /\ C!ToSet(gathered[n].definitions[i].attributes) = Carried(s)

Held(s) ==
    /\ s.line.name \in DOMAIN gathered
    /\ \E i \in DOMAIN gathered[s.line.name].definitions :
         LET d == gathered[s.line.name].definitions[i]
         IN  C!ToSet(d.attributes) = Carried(s) /\ C!Last(d.values) = s.line.value

TakenHeld ==
    \A s \in C!Samples :
        Taken(s) /\ ~ C!Nested(s) /\ (\A t \in C!Samples : Taken(t) => ~ Supersedes(t, s)) => Held(s)

Own == AllOwn => NothingLost /\ MetricIsHead /\ FromTaken /\ TakenHeld

----------------------------------------------------------------------------
(* Lines and definitions.                                                  *)

LEMMA LineFacts ==
    ASSUME NEW N, NEW L, NEW V, NEW l \in Line(N, L, V)
    PROVE  /\ l.kind \in {"help", "type"} => l.name \in Seq(N) /\ l.text \in V
           /\ l.kind = "sample" => /\ l \in [kind : {"sample"}, name : Seq(N), labels : Seq(L), value : V, malformed : BOOLEAN]
                                   /\ l.name \in Seq(N) /\ l.labels \in Seq(L) /\ l.value \in V
BY DEF Line

\* add_value keeps the new value last.
LEMMA PushedLast ==
    ASSUME MaxValues \in Nat \ {0}, NEW T, NEW q \in Seq(T), q # << >>, NEW v \in T
    PROVE  /\ C!Pushed(q, v) \in Seq(T) /\ C!Pushed(q, v) # << >> /\ C!Last(C!Pushed(q, v)) = v
<1>. DEFINE kept == IF Len(q) >= MaxValues THEN Tail(q) ELSE q
<1>1. kept \in Seq(T)
  OBVIOUS
<1>. HIDE DEF kept
<1>2. C!Pushed(q, v) = Append(kept, v)
  BY DEF C!Pushed, kept
<1>3. /\ Append(kept, v) \in Seq(T) /\ Len(Append(kept, v)) = Len(kept) + 1
      /\ Append(kept, v)[Len(kept) + 1] = v
      /\ Len(kept) \in Nat
  BY <1>1
<1>. QED
  BY <1>2, <1>3 DEF C!Last

\* attributes_find_create and add_value: either there is a new definition at the end, and
\* no earlier one has all its labels, or one that has them all gets the value.
AddedTo(defs, att, v, new) ==
    \/ /\ \A i \in DOMAIN defs : ~ C!Matches(defs[i], att)
       /\ DOMAIN new = DOMAIN defs \cup {Len(defs) + 1}
       /\ \A i \in DOMAIN defs : new[i] = defs[i]
       /\ new[Len(defs) + 1] = [attributes |-> att, values |-> << v >>]
    \/ \E f \in DOMAIN defs :
         /\ C!Matches(defs[f], att)
         /\ DOMAIN new = DOMAIN defs
         /\ \A i \in DOMAIN defs : i # f => new[i] = defs[i]
         /\ new[f].attributes = defs[f].attributes
         /\ new[f].values # << >>
         /\ C!Last(new[f].values) = v

LEMMA AddedIs ==
    ASSUME MaxValues \in Nat \ {0}, NEW L, NEW V, NEW defs \in Seq(Definition(L, V)),
           \A i \in DOMAIN defs : defs[i].values # << >>,
           NEW att \in Seq(Labels(L)), NEW v \in Texts(V)
    PROVE  C!Added(defs, att, v) \in Seq(Definition(L, V)) /\ AddedTo(defs, att, v, C!Added(defs, att, v))
<1>. DEFINE found == {i \in DOMAIN defs : C!Matches(defs[i], att)}
            first == CHOOSE i \in found : \A j \in found : i <= j
            new == C!Added(defs, att, v)
<1>0. DOMAIN defs = 1..Len(defs) /\ Len(defs) \in Nat /\ found \subseteq Nat
  OBVIOUS
<1>1. CASE found = {}
  <2>. DEFINE d == [attributes |-> att, values |-> << v >>]
  <2>1. d \in Definition(L, V)
    BY DEF Definition
  <2>2. new = Append(defs, d)
    BY <1>1 DEF C!Added
  <2>. HIDE DEF d, new
  <2>3. /\ Append(defs, d) \in Seq(Definition(L, V))
        /\ Len(Append(defs, d)) = Len(defs) + 1
        /\ \A i \in 1..Len(defs) : Append(defs, d)[i] = defs[i]
        /\ Append(defs, d)[Len(defs) + 1] = d
    BY <2>1
  <2>4. DOMAIN new = 1..(Len(defs) + 1)
    BY <2>2, <2>3
  <2>5. \A i \in DOMAIN defs : ~ C!Matches(defs[i], att)
    BY <1>1
  <2>6. DOMAIN new = DOMAIN defs \cup {Len(defs) + 1}
    BY <1>0, <2>4
  <2>7. new \in Seq(Definition(L, V)) /\ new[Len(defs) + 1] = d /\ \A i \in DOMAIN defs : new[i] = defs[i]
    BY <1>0, <2>2, <2>3
  <2>. QED
    BY <2>5, <2>6, <2>7 DEF d, new, AddedTo
<1>2. CASE found # {}
  <2>1. first \in found
    BY <1>0, <1>2, Smallest
  <2>. HIDE DEF first
  <2>2. new = [defs EXCEPT ![first].values = C!Pushed(@, v)]
    BY <1>2 DEF C!Added, first
  <2>3. first \in DOMAIN defs /\ C!Matches(defs[first], att)
    BY <2>1
  <2>4. defs[first] \in Definition(L, V) /\ defs[first].values \in Seq(Texts(V)) /\ defs[first].values # << >>
    <3>1. defs[first] \in Definition(L, V)
      BY <1>0, <2>3
    <3>2. defs[first].values # << >>
      BY <2>3
    <3>. QED
      BY <3>1, <3>2 DEF Definition
  <2>5. LET p == C!Pushed(defs[first].values, v) IN p \in Seq(Texts(V)) /\ p # << >> /\ C!Last(p) = v
    BY <2>4, PushedLast
  <2>. HIDE DEF new
  <2>6. /\ DOMAIN new = DOMAIN defs
        /\ \A i \in DOMAIN defs : i # first => new[i] = defs[i]
        /\ new[first] = [defs[first] EXCEPT !.values = C!Pushed(defs[first].values, v)]
    BY <2>2, <2>3
  <2>7. /\ new[first] \in Definition(L, V)
        /\ new[first].attributes = defs[first].attributes
        /\ new[first].values = C!Pushed(defs[first].values, v)
    BY <2>4, <2>5, <2>6 DEF Definition
  <2>8. \A i \in DOMAIN defs : defs[i] \in Definition(L, V)
    BY <1>0
  <2>9. new \in [1..Len(defs) -> Definition(L, V)]
    <3>1. \A i \in DOMAIN defs : new[i] \in Definition(L, V)
      BY <2>6, <2>7, <2>8
    <3>2. new = [i \in DOMAIN defs |-> new[i]]
      BY <2>2
    <3>. QED
      BY <1>0, <2>6, <3>1, <3>2
  <2>10. new \in Seq(Definition(L, V))
    BY <1>0, <2>9
  <2>. QED
    BY <2>3, <2>5, <2>6, <2>7, <2>10 DEF new, AddedTo
<1>. QED
  BY <1>1, <1>2

----------------------------------------------------------------------------
(* What each line does to the tree.                                        *)

SetupFacts(N, L, V) == MaxValues \in Nat \ {0} /\ Answers(N, L, V)

LEMMA AnswerFacts ==
    ASSUME NEW N, NEW L, NEW V, SetupFacts(N, L, V), bodies \in Bodies
    PROVE  /\ bodies \in Seq(Answer(N, L, V)) /\ DOMAIN bodies = 1..Len(bodies) /\ Len(bodies) \in Nat
           /\ \A e \in DOMAIN bodies : /\ bodies[e].up \in BOOLEAN
                                       /\ bodies[e].lines \in Seq(Line(N, L, V))
                                       /\ DOMAIN bodies[e].lines = 1..Len(bodies[e].lines)
                                       /\ Len(bodies[e].lines) \in Nat
<1>1. bodies \in Seq(Answer(N, L, V))
  BY DEF SetupFacts, Answers
<1>2. DOMAIN bodies = 1..Len(bodies) /\ Len(bodies) \in Nat
  BY <1>1
<1>3. \A e \in DOMAIN bodies : bodies[e] \in Answer(N, L, V)
  BY <1>1, <1>2
<1>4. \A e \in DOMAIN bodies : bodies[e].up \in BOOLEAN /\ bodies[e].lines \in Seq(Line(N, L, V))
  BY <1>3 DEF Answer
<1>5. \A q \in Seq(Line(N, L, V)) : DOMAIN q = 1..Len(q) /\ Len(q) \in Nat
  OBVIOUS
<1>. QED
  BY <1>1, <1>2, <1>4, <1>5

\* The line that is taken is the next one of the response.
LEMMA TakingFacts ==
    ASSUME NEW N, NEW L, NEW V, SetupFacts(N, L, V), TypeOK(N, L, V), LinesLeft, NEW k, C!Taking(k)
    PROVE  /\ doing = "lines" /\ endpoint \in DOMAIN bodies /\ bodies[endpoint].up
           /\ Lines \in Seq(Line(N, L, V)) /\ Len(Lines) \in Nat /\ DOMAIN Lines = 1..Len(Lines)
           /\ Read \in Nat /\ Read + 1 \in DOMAIN Lines
           /\ Head(body) = Lines[Read + 1] /\ Head(body) \in Line(N, L, V) /\ Head(body).kind = k
           /\ Tail(body) \in Seq(Line(N, L, V)) /\ Len(Tail(body)) = Len(body) - 1
           /\ Len(Lines) - Len(Tail(body)) = Read + 1
           /\ \A i \in 1..Len(Tail(body)) : Tail(body)[i] = Lines[Read + 1 + i]
<1>1. doing = "lines" /\ body # << >> /\ Head(body).kind = k /\ endpoint \in DOMAIN bodies /\ bodies[endpoint].up
  BY DEF C!Taking, LinesLeft
<1>2. Lines \in Seq(Line(N, L, V)) /\ Len(Lines) \in Nat /\ DOMAIN Lines = 1..Len(Lines)
  BY <1>1, AnswerFacts DEF Lines, TypeOK
<1>3. body \in Seq(Line(N, L, V)) /\ Len(body) \in Nat /\ Len(body) > 0 /\ Len(body) <= Len(Lines)
      /\ Head(body) = body[1] /\ Head(body) \in Line(N, L, V)
      /\ Tail(body) \in Seq(Line(N, L, V)) /\ Len(Tail(body)) = Len(body) - 1
      /\ \A i \in 1..Len(Tail(body)) : Tail(body)[i] = body[i + 1]
  BY <1>1 DEF TypeOK, LinesLeft
<1>4. Read = Len(Lines) - Len(body)
  BY DEF Read
<1>5. \A i \in 1..Len(body) : body[i] = Lines[Read + i]
  BY <1>1 DEF LinesLeft
<1>. HIDE DEF Lines, Read
<1>6. Read \in Nat /\ Read + 1 \in DOMAIN Lines /\ Len(Lines) - Len(Tail(body)) = Read + 1
  BY <1>2, <1>3, <1>4
<1>7. Head(body) = Lines[Read + 1]
  BY <1>3, <1>5
<1>8. \A i \in 1..Len(Tail(body)) : Tail(body)[i] = Lines[Read + 1 + i]
  <2>. TAKE i \in 1..Len(Tail(body))
  <2>1. i \in Nat /\ i + 1 \in 1..Len(body)
    BY <1>3
  <2>2. Tail(body)[i] = body[i + 1] /\ Read + (i + 1) = Read + 1 + i
    BY <1>3, <1>6, <2>1
  <2>. QED
    BY <1>5, <2>1, <2>2
<1>. QED
  BY <1>1, <1>2, <1>3, <1>6, <1>7, <1>8

\* A step that takes a line and stays in the body.
LEMMA TakesLine ==
    ASSUME NEW N, NEW L, NEW V, SetupFacts(N, L, V), TypeOK(N, L, V), LinesLeft, NEW k, C!Taking(k),
           body' = Tail(body), UNCHANGED << bodies, doing, endpoint >>
    PROVE  LinesLeft' /\ Lines' = Lines /\ Read' = Read + 1 /\ body' \in Seq(Line(N, L, V))
<1>1. Lines' = Lines /\ Read' = Len(Lines) - Len(Tail(body))
  BY DEF Lines, Read
<1>2. /\ doing = "lines" /\ endpoint \in DOMAIN bodies /\ bodies[endpoint].up /\ Read \in Nat
      /\ Read + 1 \in DOMAIN Lines /\ DOMAIN Lines = 1..Len(Lines) /\ Len(Lines) \in Nat
      /\ Tail(body) \in Seq(Line(N, L, V)) /\ Len(Tail(body)) = Len(body) - 1
      /\ Len(Lines) - Len(Tail(body)) = Read + 1
      /\ \A i \in 1..Len(Tail(body)) : Tail(body)[i] = Lines[Read + 1 + i]
  BY TakingFacts
<1>3. Read' = Read + 1 /\ body' \in Seq(Line(N, L, V)) /\ Len(body') \in Nat
  BY <1>1, <1>2
<1>. HIDE DEF Lines, Read
<1>4. Len(body') <= Len(Lines)
  BY <1>2, <1>3
<1>. QED
  BY <1>1, <1>2, <1>3, <1>4 DEF LinesLeft

\* Metrics may be added and their help and type may change, the definitions stay.
SameDefinitions ==
    /\ DOMAIN gathered \subseteq DOMAIN gathered'
    /\ \A n \in DOMAIN gathered' :
         gathered'[n].definitions = IF n \in DOMAIN gathered THEN gathered[n].definitions ELSE << >>

LEMMA HelpStep ==
    ASSUME NEW N, NEW L, NEW V, SetupFacts(N, L, V), TypeOK(N, L, V), LinesLeft, C!HelpLine
    PROVE  /\ SameDefinitions /\ metric' = Lines[Read + 1].name /\ metric' \in Seq(N) /\ metric' \in DOMAIN gathered'
           /\ TypeOK(N, L, V)'
<1>. DEFINE line == Head(body)
            help == C!Scanned(buffer.help, line.text)
<1>1. /\ line.name \in Seq(N) /\ line.text \in V /\ line = Lines[Read + 1]
      /\ Tail(body) \in Seq(Line(N, L, V)) /\ C!Taking("help")
  BY TakingFacts, LineFacts DEF C!HelpLine
<1>2. buffer.help \in Texts(V) /\ help \in Texts(V) /\ "" \in Texts(V)
  BY <1>1 DEF TypeOK, Texts, C!Scanned
<1>. HIDE DEF line, help
<1>3. /\ buffer' = [buffer EXCEPT !.help = help] /\ metric' = line.name /\ body' = Tail(body)
      /\ gathered' = [n \in DOMAIN gathered \cup {line.name} |->
                         IF n # line.name THEN gathered[n]
                         ELSE IF n \in DOMAIN gathered THEN [gathered[n] EXCEPT !.help = help]
                         ELSE [help |-> help, type |-> "", definitions |-> << >>]]
      /\ UNCHANGED << bodies, doing, endpoint, lost, response >>
  BY DEF C!HelpLine, line, help
<1>4. \A n \in DOMAIN gathered : gathered[n] \in Metric(L, V)
  BY DEF TypeOK
<1>5. \A n \in DOMAIN gathered : /\ [gathered[n] EXCEPT !.help = help] \in Metric(L, V)
                                 /\ [gathered[n] EXCEPT !.help = help].definitions = gathered[n].definitions
  BY <1>2, <1>4 DEF Metric
<1>6. [help |-> help, type |-> "", definitions |-> << >>] \in Metric(L, V)
  <2>1. << >> \in Seq(Definition(L, V))
    OBVIOUS
  <2>. QED
    BY <1>2, <2>1 DEF Metric
<1>7. DOMAIN gathered' = DOMAIN gathered \cup {line.name}
  BY <1>3
<1>8. \A n \in DOMAIN gathered' : gathered'[n] \in Metric(L, V)
  BY <1>3, <1>4, <1>5, <1>6
<1>9. SameDefinitions
  <2>1. \A n \in DOMAIN gathered' :
           gathered'[n].definitions = IF n \in DOMAIN gathered THEN gathered[n].definitions ELSE << >>
    BY <1>3, <1>5
  <2>. QED
    BY <1>7, <2>1 DEF SameDefinitions
<1>10. gathered' \in [DOMAIN gathered' -> Metric(L, V)]
  BY <1>3, <1>7, <1>8
<1>11. buffer' \in [help : Texts(V), type : Texts(V)]
  BY <1>2, <1>3 DEF TypeOK
<1>12. TypeOK(N, L, V)'
  BY <1>1, <1>3, <1>7, <1>10, <1>11 DEF TypeOK
<1>. QED
  BY <1>1, <1>3, <1>7, <1>9, <1>12

LEMMA TypeStep ==
    ASSUME NEW N, NEW L, NEW V, SetupFacts(N, L, V), TypeOK(N, L, V), LinesLeft, C!TypeLine
    PROVE  SameDefinitions /\ TypeOK(N, L, V)' /\ DOMAIN gathered' = DOMAIN gathered
<1>. DEFINE type == C!Scanned(buffer.type, Head(body).text)
<1>1. Head(body).text \in V /\ Tail(body) \in Seq(Line(N, L, V))
  BY TakingFacts, LineFacts DEF C!TypeLine
<1>2. type \in Texts(V)
  BY <1>1 DEF TypeOK, Texts, C!Scanned
<1>. HIDE DEF type
<1>3. /\ buffer' = [buffer EXCEPT !.type = type] /\ body' = Tail(body)
      /\ gathered' = [gathered EXCEPT ![metric].type = type]
      /\ UNCHANGED << bodies, doing, endpoint, metric, lost, response >>
  BY DEF C!TypeLine, type
<1>4. \A n \in DOMAIN gathered : gathered[n] \in Metric(L, V)
  BY DEF TypeOK
<1>5. \A n \in DOMAIN gathered : /\ [gathered[n] EXCEPT !.type = type] \in Metric(L, V)
                                 /\ [gathered[n] EXCEPT !.type = type].definitions = gathered[n].definitions
  BY <1>2, <1>4 DEF Metric
<1>6. DOMAIN gathered' = DOMAIN gathered
      /\ \A n \in DOMAIN gathered : gathered'[n] \in {gathered[n], [gathered[n] EXCEPT !.type = type]}
  BY <1>3
<1>7. SameDefinitions
  BY <1>5, <1>6 DEF SameDefinitions
<1>8. gathered' \in [DOMAIN gathered' -> Metric(L, V)]
  <2>1. gathered' = [n \in DOMAIN gathered |-> gathered'[n]]
    BY <1>3
  <2>2. \A n \in DOMAIN gathered : gathered'[n] \in Metric(L, V)
    BY <1>4, <1>5, <1>6
  <2>. QED
    BY <1>6, <2>1, <2>2
<1>9. buffer' \in [help : Texts(V), type : Texts(V)]
  BY <1>2, <1>3 DEF TypeOK
<1>10. TypeOK(N, L, V)'
  BY <1>1, <1>3, <1>6, <1>8, <1>9 DEF TypeOK
<1>. QED
  BY <1>6, <1>7, <1>10

\* A sample that is not refused changes the definitions of the current metric and nothing else.
LEMMA SampleStep ==
    ASSUME NEW N, NEW L, NEW V, SetupFacts(N, L, V), Basic(N, L, V), C!SampleLine
    PROVE  /\ TypeOK(N, L, V)' /\ metric \in DOMAIN gathered /\ DOMAIN gathered' = DOMAIN gathered
           /\ \A n \in DOMAIN gathered : n # metric => gathered'[n] = gathered[n]
           /\ \/ C!Refused(Head(body)) /\ gathered' = gathered
              \/ LET line == C!Understood(Head(body))
                     att  == C!LineAttributes(line)
                     old  == gathered[metric].definitions
                 IN  /\ ~ C!Refused(Head(body))
                     /\ line.value \in Texts(V) /\ line.labels \in Seq(L)
                     /\ att \in Seq(Labels(L)) /\ att # << >> /\ att[1] = Origin(endpoint)
                     /\ C!ToSet(att) = C!ToSet(line.labels) \cup {Origin(endpoint)}
                     /\ old \in Seq(Definition(L, V)) /\ \A i \in DOMAIN old : old[i].values # << >>
                     /\ gathered'[metric].definitions = C!Added(old, att, line.value)
<1>. DEFINE line == C!Understood(Head(body))
            att == C!LineAttributes(line)
            old == gathered[metric].definitions
            new == C!Added(old, att, line.value)
<1>0. TypeOK(N, L, V) /\ LinesLeft /\ MetricThere /\ DefinitionsApart
  BY DEF Basic
<1>1. /\ C!Taking("sample") /\ metric # C!None /\ body' = Tail(body)
      /\ gathered' = IF C!Refused(Head(body)) THEN gathered ELSE [gathered EXCEPT ![metric].definitions = new]
      /\ UNCHANGED << bodies, doing, endpoint, metric, buffer, lost, response >>
  BY DEF C!SampleLine
<1>2. /\ Head(body) \in Line(N, L, V) /\ Head(body).kind = "sample" /\ Tail(body) \in Seq(Line(N, L, V))
      /\ endpoint \in DOMAIN bodies /\ bodies[endpoint].up /\ doing = "lines" /\ endpoint \in Nat
  BY <1>0, <1>1, TakingFacts DEF TypeOK
<1>3. line.labels \in Seq(L) /\ line.value \in Texts(V)
  <2>1. Head(body) \in [kind : {"sample"}, name : Seq(N), labels : Seq(L), value : V, malformed : BOOLEAN]
    BY <1>2, LineFacts
  <2>2. CASE Head(body).name = metric
    BY <2>1, <2>2 DEF C!Understood, Texts
  <2>3. CASE Head(body).name # metric
    <3>1. line = [Head(body) EXCEPT !.labels = << >>, !.value = "rest_of_name"]
      BY <2>3 DEF C!Understood
    <3>2. line.labels = << >> /\ line.value = "rest_of_name"
      BY <2>1, <3>1
    <3>3. << >> \in Seq(L) /\ "rest_of_name" \in Texts(V)
      BY DEF Texts
    <3>. QED
      BY <3>2, <3>3
  <2>. QED
    BY <2>2, <2>3
<1>4. metric \in DOMAIN gathered
  BY <1>0, <1>1, <1>2 DEF MetricThere
<1>5. att \in Seq(Labels(L)) /\ att # << >> /\ att[1] = Origin(endpoint)
      /\ C!ToSet(att) = C!ToSet(line.labels) \cup {Origin(endpoint)}
  <2>. DEFINE o == Origin(endpoint)
  <2>1. att = << o >> \o line.labels
    BY DEF C!LineAttributes, Origin
  <2>2. o \in Labels(L) /\ line.labels \in Seq(Labels(L)) /\ << o >> \in Seq(Labels(L))
    BY <1>2, <1>3 DEF Labels
  <2>. HIDE DEF o, att, line
  <2>3. \A x, y \in Seq(Labels(L)) :
           /\ x \o y \in Seq(Labels(L)) /\ Len(x \o y) = Len(x) + Len(y) /\ DOMAIN (x \o y) = 1..(Len(x) + Len(y))
           /\ \A i \in 1..Len(x) : (x \o y)[i] = x[i]
           /\ \A i \in 1..Len(y) : (x \o y)[Len(x) + i] = y[i]
    OBVIOUS
  <2>4. Len(<< o >>) = 1 /\ << o >>[1] = o /\ Len(line.labels) \in Nat /\ DOMAIN line.labels = 1..Len(line.labels)
    BY <2>2
  <2>5. /\ att \in Seq(Labels(L)) /\ DOMAIN att = 1..(1 + Len(line.labels)) /\ att[1] = o
        /\ \A i \in 1..Len(line.labels) : att[1 + i] = line.labels[i]
    BY <2>1, <2>2, <2>3, <2>4
  <2>6. C!ToSet(att) = C!ToSet(line.labels) \cup {o}
    <3>1. 1 \in DOMAIN att /\ \A i \in DOMAIN line.labels : 1 + i \in DOMAIN att
      BY <2>4, <2>5
    <3>2. \A i \in DOMAIN att : i = 1 \/ (i - 1 \in DOMAIN line.labels /\ att[i] = line.labels[i - 1])
      <4>. TAKE i \in DOMAIN att
      <4>. SUFFICES ASSUME i # 1 PROVE i - 1 \in DOMAIN line.labels /\ att[i] = line.labels[i - 1]
        OBVIOUS
      <4>1. i - 1 \in 1..Len(line.labels) /\ 1 + (i - 1) = i
        BY <2>4, <2>5
      <4>. QED
        BY <2>4, <2>5, <4>1
    <3>3. C!ToSet(att) \subseteq C!ToSet(line.labels) \cup {o}
      BY <2>5, <3>2 DEF C!ToSet
    <3>4. o \in C!ToSet(att)
      BY <2>5, <3>1 DEF C!ToSet
    <3>5. \A i \in DOMAIN line.labels : line.labels[i] \in C!ToSet(att)
      BY <2>4, <2>5, <3>1 DEF C!ToSet
    <3>. QED
      BY <3>3, <3>4, <3>5 DEF C!ToSet
  <2>7. att # << >>
    BY <2>4, <2>5
  <2>. QED
    BY <2>5, <2>6, <2>7 DEF o
<1>6. gathered[metric] \in Metric(L, V) /\ old \in Seq(Definition(L, V))
  BY <1>0, <1>4 DEF TypeOK, Metric
<1>7. \A i \in DOMAIN old : old[i].values # << >>
  BY <1>0, <1>4 DEF DefinitionsApart
<1>. HIDE DEF line, att, old
<1>8. new \in Seq(Definition(L, V))
  BY <1>3, <1>5, <1>6, <1>7, AddedIs DEF SetupFacts
<1>. HIDE DEF new
<1>9. CASE C!Refused(Head(body))
  <2>1. gathered' = gathered
    BY <1>1, <1>9
  <2>2. TypeOK(N, L, V)'
    BY <1>0, <1>1, <1>2, <2>1 DEF TypeOK
  <2>. QED
    BY <1>4, <1>9, <2>1, <2>2
<1>10. CASE ~ C!Refused(Head(body))
  <2>1. gathered' = [gathered EXCEPT ![metric].definitions = new]
    BY <1>1, <1>10
  <2>2. /\ DOMAIN gathered' = DOMAIN gathered
        /\ \A n \in DOMAIN gathered : n # metric => gathered'[n] = gathered[n]
        /\ gathered'[metric] = [gathered[metric] EXCEPT !.definitions = new]
    BY <1>4, <2>1
  <2>3. gathered'[metric] \in Metric(L, V) /\ gathered'[metric].definitions = new
    BY <1>6, <1>8, <2>2 DEF Metric
  <2>4. gathered' \in [DOMAIN gathered' -> Metric(L, V)]
    <3>1. \A n \in DOMAIN gathered : gathered'[n] \in Metric(L, V)
      BY <1>0, <2>2, <2>3 DEF TypeOK
    <3>2. gathered' = [n \in DOMAIN gathered |-> gathered'[n]]
      BY <2>1
    <3>. QED
      BY <2>2, <3>1, <3>2
  <2>5. TypeOK(N, L, V)'
    BY <1>0, <1>1, <1>2, <2>2, <2>4 DEF TypeOK
  <2>. QED
    BY <1>3, <1>4, <1>5, <1>6, <1>7, <1>10, <2>2, <2>3, <2>5 DEF line, att, old, new
<1>. QED
  BY <1>9, <1>10

----------------------------------------------------------------------------
(* The first half of the invariant, for any responses.                     *)

LEMMA BasicInit ==
    ASSUME NEW N, NEW L, NEW V, SetupFacts(N, L, V), C!Init
    PROVE  Basic(N, L, V)
<1>00. endpoint = 1
  BY DEF C!Init
<1>0. /\ bodies \in Bodies /\ doing = "connect" /\ metric = C!None
      /\ buffer = [help |-> "", type |-> ""] /\ lost = FALSE
  BY DEF C!Init
<1>1. DOMAIN gathered = {} /\ gathered \in [{} -> Metric(L, V)]
  <2>1. gathered = << >>
    BY DEF C!Init
  <2>. QED
    BY <2>1
<1>2. body \in Seq(Line(N, L, V))
  <2>1. body = << >>
    BY DEF C!Init
  <2>. QED
    BY <2>1
<1>3. buffer \in [help : Texts(V), type : Texts(V)]
  BY <1>0 DEF Texts
<1>4. TypeOK(N, L, V)
  <2>1. metric \in Seq(N) \cup {C!None} /\ lost \in BOOLEAN
    BY <1>0
  <2>2. endpoint \in Nat \ {0}
    BY <1>00
  <2>4. doing \in {"connect", "lines", "done", "error", "crash"}
    BY <1>0
  <2>3. DOMAIN gathered \subseteq Seq(N) /\ gathered \in [DOMAIN gathered -> Metric(L, V)]
    BY <1>1
  <2>. QED
    BY <1>0, <1>2, <1>3, <2>1, <2>2, <2>3, <2>4 DEF TypeOK
<1>. QED
  BY <1>0, <1>1, <1>4 DEF Basic, LinesLeft, MetricThere, DefinitionsApart, ResponseIs

\* The definitions stay apart when none is touched.
LEMMA SameApart ==
    ASSUME DefinitionsApart, SameDefinitions, bodies' = bodies
    PROVE  DefinitionsApart'
<1>. SUFFICES ASSUME NEW n \in DOMAIN gathered', NEW i \in DOMAIN gathered'[n].definitions
              PROVE  LET d == gathered'[n].definitions[i]
                     IN  /\ d.values # << >>
                         /\ d.attributes # << >>
                         /\ \E e \in DOMAIN bodies : bodies[e].up /\ d.attributes[1] = Origin(e)
                         /\ \A j \in DOMAIN gathered'[n].definitions :
                              C!ToSet(gathered'[n].definitions[j].attributes) = C!ToSet(d.attributes) => i = j
  BY DEF DefinitionsApart, Origin
<1>1. DOMAIN << >> = {}
  OBVIOUS
<1>2. n \in DOMAIN gathered /\ gathered'[n].definitions = gathered[n].definitions
  BY <1>1 DEF SameDefinitions
<1>. QED
  BY <1>2 DEF DefinitionsApart

LEMMA SampleApart ==
    ASSUME NEW N, NEW L, NEW V, SetupFacts(N, L, V), Basic(N, L, V), C!SampleLine
    PROVE  DefinitionsApart'
<1>. DEFINE line == C!Understood(Head(body))
            att == C!LineAttributes(line)
            old == gathered[metric].definitions
            new == C!Added(old, att, line.value)
<1>0. DefinitionsApart /\ bodies' = bodies /\ endpoint \in DOMAIN bodies /\ bodies[endpoint].up
  BY TakingFacts DEF Basic, C!SampleLine
<1>1. CASE gathered' = gathered
  BY <1>0, <1>1 DEF DefinitionsApart, Origin
<1>2. CASE gathered' # gathered
  <2>1. /\ metric \in DOMAIN gathered /\ DOMAIN gathered' = DOMAIN gathered
        /\ \A n \in DOMAIN gathered : n # metric => gathered'[n] = gathered[n]
        /\ line.value \in Texts(V) /\ line.labels \in Seq(L)
        /\ att \in Seq(Labels(L)) /\ att # << >> /\ att[1] = Origin(endpoint)
        /\ old \in Seq(Definition(L, V)) /\ \A i \in DOMAIN old : old[i].values # << >>
        /\ gathered'[metric].definitions = new
    BY <1>2, SampleStep
  <2>. HIDE DEF line, att, old
  <2>2. MaxValues \in Nat \ {0}
    BY DEF SetupFacts
  <2>22. AddedTo(old, att, line.value, new)
    BY <2>1, <2>2, AddedIs
  <2>. HIDE DEF new
  <2>3. \A i \in DOMAIN old :
          /\ old[i].values # << >> /\ old[i].attributes # << >>
          /\ \E e \in DOMAIN bodies : bodies[e].up /\ old[i].attributes[1] = Origin(e)
          /\ \A j \in DOMAIN old : C!ToSet(old[j].attributes) = C!ToSet(old[i].attributes) => i = j
    BY <1>0, <2>1 DEF DefinitionsApart, old
  <2>4. \A i \in DOMAIN new :
          /\ new[i].values # << >> /\ new[i].attributes # << >>
          /\ \E e \in DOMAIN bodies : bodies[e].up /\ new[i].attributes[1] = Origin(e)
          /\ \A j \in DOMAIN new : C!ToSet(new[j].attributes) = C!ToSet(new[i].attributes) => i = j
    <3>1. CASE /\ \A i \in DOMAIN old : ~ C!Matches(old[i], att)
               /\ DOMAIN new = DOMAIN old \cup {Len(old) + 1}
               /\ \A i \in DOMAIN old : new[i] = old[i]
               /\ new[Len(old) + 1] = [attributes |-> att, values |-> << line.value >>]
      <4>. DEFINE k == Len(old) + 1
      <4>1. new[k].attributes = att /\ new[k].values = << line.value >> /\ << line.value >> # << >>
        BY <3>1
      <4>2. \A i \in DOMAIN old : C!ToSet(old[i].attributes) # C!ToSet(att)
        BY <3>1 DEF C!Matches
      <4>. HIDE DEF k
      <4>3. \A i \in DOMAIN new : i = k \/ (i \in DOMAIN old /\ new[i] = old[i])
        BY <3>1 DEF k
      <4>4. \A i \in DOMAIN new : /\ new[i].values # << >> /\ new[i].attributes # << >>
                                  /\ \E e \in DOMAIN bodies : bodies[e].up /\ new[i].attributes[1] = Origin(e)
        <5>. TAKE i \in DOMAIN new
        <5>1. CASE i = k
          BY <1>0, <2>1, <4>1, <5>1
        <5>2. CASE i \in DOMAIN old /\ new[i] = old[i]
          BY <2>3, <5>2
        <5>. QED
          BY <4>3, <5>1, <5>2
      <4>5. \A i, j \in DOMAIN new : C!ToSet(new[j].attributes) = C!ToSet(new[i].attributes) => i = j
        BY <2>3, <4>1, <4>2, <4>3
      <4>. QED
        BY <4>4, <4>5
    <3>2. ASSUME NEW f \in DOMAIN old, DOMAIN new = DOMAIN old,
                 \A i \in DOMAIN old : i # f => new[i] = old[i],
                 new[f].attributes = old[f].attributes, new[f].values # << >>
          PROVE  \A i \in DOMAIN new :
                   /\ new[i].values # << >> /\ new[i].attributes # << >>
                   /\ \E e \in DOMAIN bodies : bodies[e].up /\ new[i].attributes[1] = Origin(e)
                   /\ \A j \in DOMAIN new : C!ToSet(new[j].attributes) = C!ToSet(new[i].attributes) => i = j
      <4>1. \A i \in DOMAIN old : new[i].attributes = old[i].attributes /\ new[i].values # << >>
        BY <2>3, <3>2
      <4>. QED
        BY <2>3, <3>2, <4>1
    <3>. QED
      BY <2>22, <3>1, <3>2 DEF AddedTo
  <2>5. \A n \in DOMAIN gathered' : n # metric => gathered'[n].definitions = gathered[n].definitions
    BY <2>1
  <2>6. ASSUME NEW n \in DOMAIN gathered', n # metric, NEW i \in DOMAIN gathered'[n].definitions
        PROVE  LET d == gathered'[n].definitions[i]
               IN  /\ d.values # << >> /\ d.attributes # << >>
                   /\ \E e \in DOMAIN bodies : bodies[e].up /\ d.attributes[1] = Origin(e)
                   /\ \A j \in DOMAIN gathered'[n].definitions :
                        C!ToSet(gathered'[n].definitions[j].attributes) = C!ToSet(d.attributes) => i = j
    BY <1>0, <2>1, <2>5, <2>6 DEF DefinitionsApart
  <2>. QED
    BY <1>0, <2>1, <2>4, <2>6 DEF DefinitionsApart, Origin
<1>. QED
  BY <1>1, <1>2

LEMMA BasicStep ==
    ASSUME NEW N, NEW L, NEW V, SetupFacts(N, L, V), Basic(N, L, V), [C!Next]_(C!vars)
    PROVE  Basic(N, L, V)'
<1>0. TypeOK(N, L, V) /\ LinesLeft /\ MetricThere /\ DefinitionsApart /\ ResponseIs
  BY DEF Basic
<1>1. CASE UNCHANGED C!vars
  BY <1>0, <1>1 DEF C!vars, Basic, TypeOK, LinesLeft, MetricThere, DefinitionsApart, ResponseIs, Lines, Read, C!Shown, C!Last, Origin
<1>2. CASE C!Skip
  <2>1. gathered' = gathered /\ bodies' = bodies /\ doing' = "connect"
    BY <1>2 DEF C!Skip
  <2>2. TypeOK(N, L, V)'
    BY <1>0, <1>2 DEF C!Skip, TypeOK
  <2>3. DefinitionsApart'
    BY <1>0, <2>1 DEF DefinitionsApart, Origin
  <2>. QED
    BY <2>1, <2>2, <2>3 DEF Basic, LinesLeft, MetricThere, ResponseIs
<1>3. CASE C!Connect
  <2>1. /\ gathered' = gathered /\ bodies' = bodies /\ doing' = "lines" /\ endpoint' = endpoint
        /\ body' = bodies[endpoint].lines /\ metric' = C!None /\ endpoint \in DOMAIN bodies /\ bodies[endpoint].up
    <3>1. endpoint \in Nat \ {0} /\ bodies \in Bodies
      BY <1>0 DEF TypeOK
    <3>2. DOMAIN bodies = 1..Len(bodies) /\ Len(bodies) \in Nat
      BY <3>1, AnswerFacts
    <3>3. endpoint <= Len(bodies)
      BY <1>3 DEF C!Connect
    <3>4. endpoint \in DOMAIN bodies
      BY <3>1, <3>2, <3>3
    <3>. QED
      BY <1>3, <3>4 DEF C!Connect
  <2>2. body' \in Seq(Line(N, L, V)) /\ Len(body') \in Nat
    BY <1>0, <2>1, AnswerFacts DEF TypeOK
  <2>3. TypeOK(N, L, V)'
    BY <1>0, <1>3, <2>1, <2>2 DEF C!Connect, TypeOK, Texts
  <2>4. DefinitionsApart'
    BY <1>0, <2>1 DEF DefinitionsApart, Origin
  <2>5. Lines' = body' /\ Read' = 0
    BY <2>1, <2>2 DEF Lines, Read
  <2>6. LinesLeft'
    BY <2>1, <2>2, <2>5 DEF LinesLeft
  <2>. QED
    BY <2>1, <2>3, <2>4, <2>6 DEF Basic, MetricThere, ResponseIs
<1>4. CASE C!HelpLine
  <2>1. TypeOK(N, L, V)' /\ SameDefinitions /\ metric' \in DOMAIN gathered'
    BY <1>0, <1>4, HelpStep
  <2>2. C!Taking("help") /\ body' = Tail(body) /\ UNCHANGED << bodies, doing, endpoint >> /\ doing = "lines"
    BY <1>4 DEF C!HelpLine, C!Taking
  <2>3. LinesLeft' /\ DefinitionsApart'
    BY <1>0, <2>1, <2>2, TakesLine, SameApart
  <2>. QED
    BY <2>1, <2>2, <2>3 DEF Basic, MetricThere, ResponseIs
<1>5. CASE C!TypeLine
  <2>1. TypeOK(N, L, V)' /\ SameDefinitions /\ DOMAIN gathered' = DOMAIN gathered
    BY <1>0, <1>5, TypeStep
  <2>2. C!Taking("type") /\ body' = Tail(body) /\ UNCHANGED << bodies, doing, endpoint, metric >> /\ doing = "lines"
    BY <1>5 DEF C!TypeLine, C!Taking
  <2>3. LinesLeft' /\ DefinitionsApart'
    BY <1>0, <2>1, <2>2, TakesLine, SameApart
  <2>. QED
    BY <1>0, <2>1, <2>2, <2>3 DEF Basic, MetricThere, ResponseIs
<1>6. CASE C!OtherComment
  <2>1. gathered' = << >> /\ bodies' = bodies /\ doing' = "connect"
    BY <1>6 DEF C!OtherComment
  <2>2. DOMAIN gathered' = {} /\ gathered' \in [{} -> Metric(L, V)]
    BY <2>1
  <2>3. body' \in Seq(Line(N, L, V))
    BY <1>6 DEF C!OtherComment
  <2>4. TypeOK(N, L, V)'
    BY <1>0, <1>6, <2>2, <2>3 DEF C!OtherComment, TypeOK
  <2>. QED
    BY <2>1, <2>2, <2>4 DEF Basic, LinesLeft, MetricThere, DefinitionsApart, ResponseIs
<1>7. CASE C!SampleLine
  <2>1. TypeOK(N, L, V)' /\ DOMAIN gathered' = DOMAIN gathered /\ DefinitionsApart'
    BY <1>7, SampleStep, SampleApart
  <2>2. C!Taking("sample") /\ body' = Tail(body) /\ UNCHANGED << bodies, doing, endpoint, metric >> /\ doing = "lines"
    BY <1>7 DEF C!SampleLine, C!Taking
  <2>3. LinesLeft'
    BY <1>0, <2>2, TakesLine
  <2>. QED
    BY <1>0, <2>1, <2>2, <2>3 DEF Basic, MetricThere, ResponseIs
<1>8. CASE C!CarriageReturn
  <2>1. C!Taking("cr") /\ body' = Tail(body) /\ UNCHANGED << bodies, doing, endpoint, metric, buffer, gathered, lost >> /\ doing = "lines"
    BY <1>8 DEF C!CarriageReturn, C!Taking
  <2>2. LinesLeft' /\ body' \in Seq(Line(N, L, V))
    BY <1>0, <2>1, TakesLine
  <2>3. TypeOK(N, L, V)' /\ DefinitionsApart'
    BY <1>0, <2>1, <2>2 DEF TypeOK, DefinitionsApart, Origin
  <2>. QED
    BY <1>0, <2>1, <2>2, <2>3 DEF Basic, MetricThere, ResponseIs
<1>9. CASE C!UsesNothing
  <2>1. doing' = "crash" /\ UNCHANGED << bodies, endpoint, body, metric, buffer, gathered, lost >>
    BY <1>9 DEF C!UsesNothing, C!Crash
  <2>2. TypeOK(N, L, V)' /\ DefinitionsApart'
    BY <1>0, <2>1 DEF TypeOK, DefinitionsApart, Origin
  <2>. QED
    BY <2>1, <2>2 DEF Basic, LinesLeft, MetricThere, ResponseIs
<1>10. CASE C!EndOfBody
  <2>1. doing' = "connect" /\ endpoint' = endpoint + 1 /\ UNCHANGED << bodies, body, metric, buffer, gathered, lost >>
    BY <1>10 DEF C!EndOfBody
  <2>2. TypeOK(N, L, V)' /\ DefinitionsApart'
    BY <1>0, <2>1 DEF TypeOK, DefinitionsApart, Origin
  <2>. QED
    BY <2>1, <2>2 DEF Basic, LinesLeft, MetricThere, ResponseIs
<1>11. CASE C!Respond
  <2>1. /\ doing' \in {"error", "done"} /\ endpoint > Len(bodies)
        /\ UNCHANGED << bodies, endpoint, body, metric, buffer, gathered, lost >>
    BY <1>11 DEF C!Respond
  <2>2. TypeOK(N, L, V)' /\ DefinitionsApart'
    BY <1>0, <2>1 DEF TypeOK, DefinitionsApart, Origin
  <2>3. ResponseIs'
    BY <1>11, <2>1 DEF C!Respond, ResponseIs, C!Shown, C!Last
  <2>. QED
    BY <2>1, <2>2, <2>3 DEF Basic, LinesLeft, MetricThere
<1>. QED
  BY <1>1, <1>2, <1>3, <1>4, <1>5, <1>6, <1>7, <1>8, <1>9, <1>10, <1>11 DEF C!Next

\* The response shows the definitions, and they are apart.
LEMMA BasicImpliesApart ==
    ASSUME NEW N, NEW L, NEW V, Basic(N, L, V)
    PROVE  C!EndpointsApart
<1>0. DefinitionsApart /\ ResponseIs
  BY DEF Basic
<1>. SUFFICES ASSUME doing = "done", NEW n \in DOMAIN response, NEW i \in DOMAIN response[n].samples
              PROVE  LET r == response[n].samples[i]
                     IN  /\ r.labels # << >> /\ r.labels[1][1] = "endpoint"
                         /\ \E e \in DOMAIN bodies : bodies[e].up /\ Address[e] = r.labels[1][2]
                         /\ \A j \in DOMAIN response[n].samples :
                              C!ToSet(response[n].samples[j].labels) = C!ToSet(r.labels) => i = j
  BY DEF C!EndpointsApart
<1>. DEFINE defs == gathered[n].definitions
<1>1. n \in DOMAIN gathered /\ response[n].samples = [k \in DOMAIN defs |-> C!Shown(defs[k])]
  BY <1>0 DEF ResponseIs
<1>2. DOMAIN response[n].samples = DOMAIN defs /\ \A k \in DOMAIN defs : response[n].samples[k].labels = defs[k].attributes
  BY <1>1 DEF C!Shown
<1>3. /\ defs[i].attributes # << >>
      /\ \E e \in DOMAIN bodies : bodies[e].up /\ defs[i].attributes[1] = Origin(e)
      /\ \A j \in DOMAIN defs : C!ToSet(defs[j].attributes) = C!ToSet(defs[i].attributes) => i = j
  BY <1>0, <1>1, <1>2 DEF DefinitionsApart
<1>. HIDE DEF defs
<1>4. \E e \in DOMAIN bodies : /\ bodies[e].up /\ Address[e] = defs[i].attributes[1][2]
                               /\ defs[i].attributes[1][1] = "endpoint"
  BY <1>3 DEF Origin
<1>. QED
  BY <1>2, <1>3, <1>4

----------------------------------------------------------------------------
(* The second half, for responses as pgexporter writes them.               *)

LEMMA SampleFacts ==
    ASSUME NEW N, NEW L, NEW V, SetupFacts(N, L, V), bodies \in Bodies, NEW s
    PROVE  /\ s \in C!Samples => /\ s.endpoint \in DOMAIN bodies /\ bodies[s.endpoint].up
                               /\ s.endpoint \in Nat /\ s.at \in Nat
                               /\ s.at \in DOMAIN bodies[s.endpoint].lines
                               /\ s.line = bodies[s.endpoint].lines[s.at] /\ s.line.kind = "sample"
                               /\ s = [endpoint |-> s.endpoint, at |-> s.at, line |-> s.line]
           /\ \A e \in DOMAIN bodies : \A i \in DOMAIN bodies[e].lines :
                bodies[e].up /\ bodies[e].lines[i].kind = "sample"
                   => [endpoint |-> e, at |-> i, line |-> bodies[e].lines[i]] \in C!Samples
<1>1. \A r : r \in C!Samples <=> \E e \in DOMAIN bodies : r \in C!SamplesOf(e)
  BY DEF C!Samples
<1>2. \A e \in DOMAIN bodies : \A r : r \in C!SamplesOf(e) <=>
        \E i \in DOMAIN bodies[e].lines : /\ bodies[e].up /\ bodies[e].lines[i].kind = "sample"
                                          /\ r = [endpoint |-> e, at |-> i, line |-> bodies[e].lines[i]]
  BY DEF C!SamplesOf
<1>3. DOMAIN bodies = 1..Len(bodies) /\ \A e \in DOMAIN bodies : DOMAIN bodies[e].lines = 1..Len(bodies[e].lines)
  BY AnswerFacts
<1>4. ASSUME s \in C!Samples
      PROVE  /\ s.endpoint \in DOMAIN bodies /\ bodies[s.endpoint].up
             /\ s.at \in DOMAIN bodies[s.endpoint].lines
             /\ s.line = bodies[s.endpoint].lines[s.at] /\ s.line.kind = "sample"
             /\ s = [endpoint |-> s.endpoint, at |-> s.at, line |-> s.line]
  <2>1. PICK e \in DOMAIN bodies : s \in C!SamplesOf(e)
    BY <1>1, <1>4
  <2>2. PICK i \in DOMAIN bodies[e].lines :
           /\ bodies[e].up /\ bodies[e].lines[i].kind = "sample"
           /\ s = [endpoint |-> e, at |-> i, line |-> bodies[e].lines[i]]
    BY <1>2, <2>1
  <2>. QED
    BY <2>2
<1>5. s \in C!Samples => s.endpoint \in Nat /\ s.at \in Nat
  BY <1>3, <1>4
<1>6. ASSUME NEW e \in DOMAIN bodies, NEW i \in DOMAIN bodies[e].lines, bodies[e].up, bodies[e].lines[i].kind = "sample"
      PROVE  [endpoint |-> e, at |-> i, line |-> bodies[e].lines[i]] \in C!Samples
  BY <1>1, <1>2, <1>6
<1>. QED
  BY <1>4, <1>5, <1>6

\* When the bridge finds the labels of one sample among those of another, both are of
\* one endpoint.
LEMMA CarriedNested ==
    ASSUME NEW N, NEW L, NEW V, SetupFacts(N, L, V), OriginsApart, bodies \in Bodies,
           NEW s \in C!Samples, NEW t \in C!Samples, Carried(t) \subseteq Carried(s)
    PROVE  t.endpoint = s.endpoint /\ C!ToSet(t.line.labels) \subseteq C!ToSet(s.line.labels)
<1>1. /\ s.endpoint \in DOMAIN bodies /\ s.at \in DOMAIN bodies[s.endpoint].lines
      /\ s.line = bodies[s.endpoint].lines[s.at] /\ s.line.kind = "sample"
      /\ t.endpoint \in DOMAIN bodies /\ t.at \in DOMAIN bodies[t.endpoint].lines
      /\ t.line = bodies[t.endpoint].lines[t.at] /\ t.line.kind = "sample"
  BY SampleFacts
<1>2. /\ Origin(t.endpoint) = Origin(s.endpoint) => t.endpoint = s.endpoint
      /\ Origin(t.endpoint) \notin C!ToSet(s.line.labels) /\ Origin(s.endpoint) \notin C!ToSet(t.line.labels)
  BY <1>1 DEF OriginsApart
<1>3. Origin(t.endpoint) \in Carried(s)
  BY DEF Carried
<1>4. t.endpoint = s.endpoint
  BY <1>2, <1>3 DEF Carried
<1>. QED
  BY <1>2, <1>4 DEF Carried

\* A line that is no HELP follows a HELP of its own metric.
LEMMA HeadOfLine ==
    ASSUME NEW N, NEW L, NEW V, SetupFacts(N, L, V), TypeOK(N, L, V), LinesLeft, AllOwn, MetricIsHead,
           NEW k, k # "help", C!Taking(k)
    PROVE  /\ k \in {"type", "sample"} /\ metric # C!None /\ Head(body).name = metric
           /\ k = "sample" => ~ Head(body).malformed /\ Head(body).value # ""
<1>. DEFINE b == Lines
            i == Read + 1
            heads == {j \in 1..(i - 1) : b[j].kind = "help"}
<1>1. /\ endpoint \in DOMAIN bodies /\ bodies[endpoint].up /\ doing = "lines"
      /\ Read \in Nat /\ i \in DOMAIN b /\ Head(body) = b[i] /\ Head(body).kind = k
  BY TakingFacts
<1>2. C!OwnFormat(b)
  BY <1>1 DEF AllOwn, Lines
<1>3. /\ b[i].kind \in {"help", "type", "sample"}
      /\ b[i].kind = "sample" => ~ b[i].malformed /\ b[i].value # ""
      /\ b[i].kind # "help" => heads # {} /\ b[CHOOSE j \in heads : \A m \in heads : m <= j].name = b[i].name
  <2>. HIDE DEF b, i
  <2>. QED
    BY <1>1, <1>2 DEF C!OwnFormat
<1>4. 1..(i - 1) = 1..Read /\ heads \subseteq Nat
  BY <1>1
<1>5. heads # {}
  BY <1>1, <1>3
<1>6. PICK j \in 1..Read : /\ metric # C!None /\ b[j].kind = "help" /\ b[j].name = metric
                           /\ \A m \in 1..Read : b[m].kind = "help" => m <= j
  BY <1>1, <1>4, <1>5 DEF MetricIsHead
<1>. HIDE DEF b, i
<1>7. j \in heads /\ \A m \in heads : m <= j
  BY <1>4, <1>6
<1>8. (CHOOSE x \in heads : \A m \in heads : m <= x) = j
  <2>1. \A x \in heads : (\A m \in heads : m <= x) => x = j
    BY <1>4, <1>7
  <2>. HIDE DEF heads
  <2>. QED
    BY <1>7, <2>1
<1>. QED
  BY <1>1, <1>3, <1>6, <1>8

\* Steps that take no sample and touch no definition.
LEMMA QuietStep ==
    ASSUME FromTaken, TakenHeld, SameDefinitions, bodies' = bodies,
           \A s \in C!Samples : Taken(s)' <=> Taken(s)
    PROVE  FromTaken' /\ TakenHeld'
<1>0. /\ C!Samples' = C!Samples /\ \A s : (Carried(s)' = Carried(s) /\ (C!Nested(s)' <=> C!Nested(s)))
      /\ \A s, t : Supersedes(t, s)' <=> Supersedes(t, s)
  BY DEF C!Samples, C!SamplesOf, C!Nested, Carried, Supersedes, Origin
<1>1. DOMAIN << >> = {}
  OBVIOUS
<1>2. /\ \A n \in DOMAIN gathered : n \in DOMAIN gathered' /\ gathered'[n].definitions = gathered[n].definitions
      /\ \A n \in DOMAIN gathered' : n \notin DOMAIN gathered => DOMAIN gathered'[n].definitions = {}
  BY <1>1 DEF SameDefinitions
<1>3. FromTaken'
  <2>. SUFFICES ASSUME NEW n \in DOMAIN gathered', NEW i \in DOMAIN gathered'[n].definitions
                PROVE  \E s \in C!Samples : /\ Taken(s)' /\ s.line.name = n
                                          /\ C!ToSet(gathered'[n].definitions[i].attributes) = Carried(s)
    BY <1>0 DEF FromTaken
  <2>1. n \in DOMAIN gathered /\ gathered'[n].definitions = gathered[n].definitions
    BY <1>2
  <2>. QED
    BY <2>1 DEF FromTaken
<1>4. \A s : Held(s) => Held(s)'
  BY <1>0, <1>2 DEF Held
<1>5. TakenHeld'
  <2>. SUFFICES ASSUME NEW s \in C!Samples, Taken(s)', ~ C!Nested(s), \A t \in C!Samples : Taken(t)' => ~ Supersedes(t, s)
                PROVE  Held(s)'
    BY <1>0 DEF TakenHeld
  <2>. QED
    BY <1>4 DEF TakenHeld
<1>. QED
  BY <1>3, <1>5

\* The sample that is taken.
Now == [endpoint |-> endpoint, at |-> Read + 1, line |-> Lines[Read + 1]]

LEMMA NowFacts ==
    ASSUME NEW N, NEW L, NEW V, SetupFacts(N, L, V), TypeOK(N, L, V), LinesLeft, NEW k, C!Taking(k),
           body' = Tail(body), UNCHANGED << bodies, doing, endpoint >>
    PROVE  /\ k = "sample" => Now \in C!Samples
           /\ ~ Taken(Now) /\ \A s \in C!Samples : Taken(s)' <=> (Taken(s) \/ s = Now)
           /\ k # "sample" => \A s \in C!Samples : Taken(s)' <=> Taken(s)
<1>1. /\ doing = "lines" /\ endpoint \in DOMAIN bodies /\ bodies[endpoint].up /\ endpoint \in Nat
      /\ Read \in Nat /\ Read + 1 \in DOMAIN Lines /\ Lines[Read + 1].kind = k /\ Lines' = Lines /\ Read' = Read + 1
      /\ bodies \in Bodies
  BY TakingFacts, TakesLine DEF TypeOK
<1>2. k = "sample" => Now \in C!Samples
  BY <1>1, SampleFacts DEF Now, Lines
<1>3. Now.endpoint = endpoint /\ Now.at = Read + 1 /\ Now.line = Lines[Read + 1]
  BY DEF Now
<1>4. ~ Taken(Now)
  BY <1>1, <1>3 DEF Taken
<1>5. ASSUME NEW s \in C!Samples PROVE Taken(s)' <=> (Taken(s) \/ s = Now)
  <2>1. /\ s.endpoint \in Nat /\ s.at \in Nat /\ s.line = bodies[s.endpoint].lines[s.at]
        /\ s = [endpoint |-> s.endpoint, at |-> s.at, line |-> s.line]
    BY <1>1, SampleFacts
  <2>2. s = Now <=> s.endpoint = endpoint /\ s.at = Read + 1
    BY <1>3, <2>1 DEF Now, Lines
  <2>3. Taken(s)' <=> s.endpoint < endpoint \/ (s.endpoint = endpoint /\ s.at <= Read + 1)
    BY <1>1 DEF Taken
  <2>4. Taken(s) <=> s.endpoint < endpoint \/ (s.endpoint = endpoint /\ s.at <= Read)
    BY <1>1 DEF Taken
  <2>. QED
    BY <1>1, <2>1, <2>2, <2>3, <2>4
<1>6. k # "sample" => Now \notin C!Samples
  BY <1>1, <1>3, SampleFacts
<1>. QED
  BY <1>2, <1>4, <1>5, <1>6

\* The definitions of the current metric after a sample of a response in the format of
\* pgexporter.
LEMMA SampleTaken ==
    ASSUME NEW N, NEW L, NEW V, SetupFacts(N, L, V), Basic(N, L, V), AllOwn, MetricIsHead, C!SampleLine
    PROVE  /\ Now.line.name = metric /\ metric \in DOMAIN gathered /\ DOMAIN gathered' = DOMAIN gathered
           /\ \A n \in DOMAIN gathered : n # metric => gathered'[n] = gathered[n]
           /\ \E att : /\ C!ToSet(att) = Carried(Now)
                       /\ AddedTo(gathered[metric].definitions, att, Now.line.value, gathered'[metric].definitions)
<1>. DEFINE line == Head(body)
            att == C!LineAttributes(line)
            old == gathered[metric].definitions
<1>0. TypeOK(N, L, V) /\ LinesLeft /\ C!Taking("sample")
  BY DEF Basic, C!SampleLine
<1>1. metric # C!None /\ line.name = metric /\ ~ line.malformed /\ line.value # ""
  BY <1>0, HeadOfLine
<1>2. metric \in Seq(N)
  BY <1>0, <1>1 DEF TypeOK
<1>3. C!IsPrefix(metric, line.name)
  <2>1. Len(metric) <= Len(metric)
    BY <1>2
  <2>2. C!IsPrefix(metric, metric)
    BY <2>1 DEF C!IsPrefix
  <2>. QED
    BY <1>1, <2>2
<1>4. ~ C!Refused(line) /\ C!Understood(line) = line
  BY <1>1, <1>3 DEF C!Refused, C!Understood
<1>5. Now.endpoint = endpoint /\ Now.line = line
  BY <1>0, TakingFacts DEF Now
<1>6. /\ metric \in DOMAIN gathered /\ DOMAIN gathered' = DOMAIN gathered
      /\ \A n \in DOMAIN gathered : n # metric => gathered'[n] = gathered[n]
      /\ line.value \in Texts(V) /\ att \in Seq(Labels(L))
      /\ C!ToSet(att) = C!ToSet(line.labels) \cup {Origin(endpoint)}
      /\ old \in Seq(Definition(L, V)) /\ \A i \in DOMAIN old : old[i].values # << >>
      /\ gathered'[metric].definitions = C!Added(old, att, line.value)
  BY <1>4, SampleStep
<1>7. C!ToSet(att) = Carried(Now)
  BY <1>5, <1>6 DEF Carried
<1>. HIDE DEF att, old, line
<1>8. AddedTo(old, att, line.value, gathered'[metric].definitions)
  <2>1. MaxValues \in Nat \ {0}
    BY DEF SetupFacts
  <2>. QED
    BY <1>6, <2>1, AddedIs
<1>. QED
  BY <1>1, <1>5, <1>6, <1>7, <1>8 DEF old

LEMMA SampleFromTaken ==
    ASSUME NEW N, NEW L, NEW V, SetupFacts(N, L, V), Basic(N, L, V), AllOwn, MetricIsHead, FromTaken, C!SampleLine
    PROVE  FromTaken'
<1>. DEFINE old == gathered[metric].definitions
            new == gathered'[metric].definitions
<1>0. /\ C!Taking("sample") /\ body' = Tail(body) /\ UNCHANGED << bodies, doing, endpoint >>
      /\ TypeOK(N, L, V) /\ LinesLeft
  BY DEF C!SampleLine, Basic
<1>1. Now \in C!Samples /\ \A s \in C!Samples : Taken(s)' <=> (Taken(s) \/ s = Now)
  BY <1>0, NowFacts
<1>2. /\ C!Samples' = C!Samples /\ \A s : Carried(s)' = Carried(s)
  BY <1>0 DEF C!Samples, C!SamplesOf, Carried, Origin
<1>. SUFFICES ASSUME NEW n \in DOMAIN gathered', NEW i \in DOMAIN gathered'[n].definitions
              PROVE  \E s \in C!Samples : /\ Taken(s) \/ s = Now
                                        /\ s.line.name = n
                                        /\ C!ToSet(gathered'[n].definitions[i].attributes) = Carried(s)
  BY <1>1, <1>2 DEF FromTaken
<1>3. /\ Now.line.name = metric /\ metric \in DOMAIN gathered /\ DOMAIN gathered' = DOMAIN gathered
      /\ \A m \in DOMAIN gathered : m # metric => gathered'[m] = gathered[m]
  BY SampleTaken
<1>4. PICK att : C!ToSet(att) = Carried(Now) /\ AddedTo(old, att, Now.line.value, new)
  BY SampleTaken
<1>5. CASE n # metric
  BY <1>3, <1>5 DEF FromTaken
<1>6. CASE n = metric
  <2>1. \A j \in DOMAIN old : \E s \in C!Samples : Taken(s) /\ s.line.name = metric /\ C!ToSet(old[j].attributes) = Carried(s)
    BY <1>3 DEF FromTaken
  <2>. HIDE DEF old, new
  <2>2. \/ new[i].attributes = att
        \/ i \in DOMAIN old /\ new[i].attributes = old[i].attributes
    BY <1>4, <1>6 DEF AddedTo, new
  <2>. QED
    BY <1>1, <1>3, <1>4, <1>6, <2>1, <2>2 DEF new
<1>. QED
  BY <1>5, <1>6

LEMMA SampleHeld ==
    ASSUME NEW N, NEW L, NEW V, SetupFacts(N, L, V), OriginsApart, Basic(N, L, V), AllOwn, MetricIsHead,
           FromTaken, TakenHeld, C!SampleLine
    PROVE  TakenHeld'
<1>. DEFINE old == gathered[metric].definitions
            new == gathered'[metric].definitions
<1>0. /\ C!Taking("sample") /\ body' = Tail(body) /\ UNCHANGED << bodies, doing, endpoint >>
      /\ TypeOK(N, L, V) /\ LinesLeft /\ bodies \in Bodies
  BY DEF C!SampleLine, Basic, TypeOK
<1>1. Now \in C!Samples /\ \A s \in C!Samples : Taken(s)' <=> (Taken(s) \/ s = Now)
  BY <1>0, NowFacts
<1>2. /\ C!Samples' = C!Samples /\ \A s : (Carried(s)' = Carried(s) /\ (C!Nested(s)' <=> C!Nested(s)))
      /\ \A s, t : Supersedes(t, s)' <=> Supersedes(t, s)
  BY <1>0 DEF C!Samples, C!SamplesOf, C!Nested, Carried, Supersedes, Origin
<1>. SUFFICES ASSUME NEW s \in C!Samples, Taken(s) \/ s = Now, ~ C!Nested(s),
                     \A t \in C!Samples : Taken(t) \/ t = Now => ~ Supersedes(t, s)
              PROVE  Held(s)'
  BY <1>1, <1>2 DEF TakenHeld
<1>3. /\ Now.line.name = metric /\ metric \in DOMAIN gathered /\ DOMAIN gathered' = DOMAIN gathered
      /\ \A m \in DOMAIN gathered : m # metric => gathered'[m] = gathered[m]
  BY SampleTaken
<1>4. PICK att : C!ToSet(att) = Carried(Now) /\ AddedTo(old, att, Now.line.value, new)
  BY SampleTaken
<1>5. \A j \in DOMAIN old : \E u \in C!Samples : Taken(u) /\ u.line.name = metric /\ C!ToSet(old[j].attributes) = Carried(u)
  BY <1>3 DEF FromTaken
<1>6. CASE s = Now
  <2>1. SUFFICES \E i \in DOMAIN new : C!ToSet(new[i].attributes) = Carried(Now) /\ C!Last(new[i].values) = Now.line.value
    BY <1>2, <1>3, <1>6 DEF Held
  <2>. HIDE DEF old, new
  <2>2. CASE /\ DOMAIN new = DOMAIN old \cup {Len(old) + 1}
             /\ new[Len(old) + 1] = [attributes |-> att, values |-> << Now.line.value >>]
    <3>1. /\ new[Len(old) + 1].attributes = att /\ new[Len(old) + 1].values = << Now.line.value >>
          /\ Len(old) + 1 \in DOMAIN new
      BY <2>2
    <3>2. C!Last(<< Now.line.value >>) = Now.line.value
      BY DEF C!Last
    <3>. QED
      BY <1>4, <3>1, <3>2
  <2>3. ASSUME NEW f \in DOMAIN old, C!Matches(old[f], att), DOMAIN new = DOMAIN old,
               new[f].attributes = old[f].attributes, C!Last(new[f].values) = Now.line.value
        PROVE  \E i \in DOMAIN new : C!ToSet(new[i].attributes) = Carried(Now) /\ C!Last(new[i].values) = Now.line.value
    <3>1. PICK u \in C!Samples : u.line.name = metric /\ C!ToSet(old[f].attributes) = Carried(u)
      BY <1>5
    <3>2. Carried(Now) \subseteq Carried(u)
      BY <1>4, <2>3, <3>1 DEF C!Matches
    <3>3. Now.endpoint = u.endpoint /\ C!ToSet(Now.line.labels) \subseteq C!ToSet(u.line.labels)
      BY <1>0, <1>1, <3>2, CarriedNested
    <3>4. C!ToSet(Now.line.labels) = C!ToSet(u.line.labels)
      BY <1>3, <1>6, <3>1, <3>3 DEF C!Nested
    <3>5. Carried(u) = Carried(Now)
      BY <3>3, <3>4 DEF Carried
    <3>. QED
      BY <2>3, <3>1, <3>5
  <2>. QED
    BY <1>4, <2>2, <2>3 DEF AddedTo
<1>7. CASE s # Now
  <2>1. Taken(s) /\ Held(s)
    BY <1>7 DEF TakenHeld
  <2>2. PICK i \in DOMAIN gathered[s.line.name].definitions :
          LET d == gathered[s.line.name].definitions[i]
          IN  C!ToSet(d.attributes) = Carried(s) /\ C!Last(d.values) = s.line.value
    BY <2>1 DEF Held
  <2>3. s.line.name \in DOMAIN gathered'
    BY <1>3, <2>1 DEF Held
  <2>4. CASE s.line.name # metric
    BY <1>2, <1>3, <2>2, <2>3, <2>4 DEF Held
  <2>5. CASE s.line.name = metric
    <3>1. i \in DOMAIN old /\ C!ToSet(old[i].attributes) = Carried(s) /\ C!Last(old[i].values) = s.line.value
      BY <2>2, <2>5
    <3>2. ~ (Carried(Now) \subseteq Carried(s))
      <4>. SUFFICES ASSUME Carried(Now) \subseteq Carried(s) PROVE FALSE
        OBVIOUS
      <4>1. Now.endpoint = s.endpoint /\ C!ToSet(Now.line.labels) \subseteq C!ToSet(s.line.labels)
        BY <1>0, <1>1, CarriedNested
      <4>2. C!ToSet(Now.line.labels) = C!ToSet(s.line.labels)
        BY <1>1, <1>3, <2>5, <4>1 DEF C!Nested
      <4>3. s.endpoint = endpoint /\ Now.at = Read + 1 /\ s.at \in Nat /\ Read \in Nat /\ endpoint \in Nat
        BY <1>0, <4>1, SampleFacts, TakingFacts DEF Now, TypeOK
      <4>4. s.at <= Read
        BY <2>1, <4>3 DEF Taken
      <4>5. Supersedes(Now, s)
        BY <1>3, <2>5, <4>1, <4>2, <4>3, <4>4 DEF Supersedes
      <4>. QED
        BY <1>1, <4>5
    <3>. HIDE DEF old, new
    <3>3. ~ C!Matches(old[i], att)
      BY <1>4, <3>1, <3>2 DEF C!Matches
    <3>4. i \in DOMAIN new /\ new[i] = old[i]
      BY <1>4, <3>1, <3>3 DEF AddedTo
    <3>. QED
      BY <1>2, <2>3, <2>5, <3>1, <3>4 DEF Held, new
  <2>. QED
    BY <2>4, <2>5
<1>. QED
  BY <1>6, <1>7

LEMMA OwnInit ==
    ASSUME NEW N, NEW L, NEW V, SetupFacts(N, L, V), C!Init
    PROVE  Own
<1>1. /\ bodies \in Bodies /\ doing = "connect" /\ lost = FALSE
  BY DEF C!Init
<1>2. DOMAIN gathered = {}
  <2>1. gathered = << >>
    BY DEF C!Init
  <2>. QED
    BY <2>1
<1>3. endpoint = 1
  BY DEF C!Init
<1>4. \A s \in C!Samples : ~ Taken(s)
  <2>. TAKE s \in C!Samples
  <2>1. s.endpoint \in 1..Len(bodies) /\ Len(bodies) \in Nat
    BY <1>1, SampleFacts, AnswerFacts
  <2>2. ~ (s.endpoint < endpoint)
    BY <1>3, <2>1
  <2>. QED
    BY <1>1, <2>2 DEF Taken
<1>. QED
  BY <1>1, <1>2, <1>4 DEF Own, NothingLost, MetricIsHead, FromTaken, TakenHeld

LEMMA OwnStep ==
    ASSUME NEW N, NEW L, NEW V, SetupFacts(N, L, V), OriginsApart, Basic(N, L, V), Own, [C!Next]_(C!vars)
    PROVE  Own'
<1>0. TypeOK(N, L, V) /\ LinesLeft /\ bodies \in Bodies /\ endpoint \in Nat
  BY DEF Basic, TypeOK
<1>1. bodies' = bodies
  BY DEF C!Next, C!vars, C!Skip, C!Connect, C!HelpLine, C!TypeLine, C!OtherComment, C!SampleLine, C!CarriageReturn, C!UsesNothing, C!Crash,
         C!EndOfBody, C!Respond
<1>. SUFFICES ASSUME AllOwn PROVE NothingLost' /\ MetricIsHead' /\ FromTaken' /\ TakenHeld'
  <2>1. AllOwn' => AllOwn
    <3>. SUFFICES ASSUME AllOwn', NEW e \in DOMAIN bodies, bodies[e].up PROVE C!OwnFormat(bodies[e].lines)
      BY DEF AllOwn
    <3>1. \A x : C!OwnFormat(x)' <=> C!OwnFormat(x)
      BY Zenon DEF C!OwnFormat
    <3>. QED
      BY <1>1, <3>1 DEF AllOwn
  <2>. QED
    BY <2>1 DEF Own
<1>2. NothingLost /\ MetricIsHead /\ FromTaken /\ TakenHeld
  BY DEF Own
<1>3. gathered' = gathered => SameDefinitions
  BY DEF SameDefinitions
<1>4. ASSUME NEW s \in C!Samples
      PROVE  /\ s.endpoint \in Nat /\ s.endpoint <= Len(bodies) /\ Len(bodies) \in Nat /\ bodies[s.endpoint].up
             /\ s.at \in Nat /\ s.at <= Len(bodies[s.endpoint].lines) /\ Len(bodies[s.endpoint].lines) \in Nat
             /\ s.at >= 1
  <2>1. s.endpoint \in DOMAIN bodies /\ bodies[s.endpoint].up /\ s.at \in DOMAIN bodies[s.endpoint].lines
    BY <1>0, SampleFacts
  <2>2. /\ DOMAIN bodies = 1..Len(bodies) /\ Len(bodies) \in Nat
        /\ DOMAIN bodies[s.endpoint].lines = 1..Len(bodies[s.endpoint].lines) /\ Len(bodies[s.endpoint].lines) \in Nat
    BY <1>0, <2>1, AnswerFacts
  <2>. QED
    BY <2>1, <2>2
<1>5. CASE UNCHANGED C!vars
  <2>1. gathered' = gathered /\ UNCHANGED << bodies, doing, endpoint, body, metric, lost >>
    BY <1>5 DEF C!vars
  <2>2. NothingLost' /\ MetricIsHead' /\ \A s \in C!Samples : Taken(s)' <=> Taken(s)
    BY <1>2, <2>1 DEF NothingLost, MetricIsHead, Taken, Read, Lines
  <2>. QED
    BY <1>1, <1>2, <1>3, <2>1, <2>2, QuietStep
<1>6. CASE C!Skip
  <2>1. /\ gathered' = gathered /\ lost' = lost /\ doing = "connect" /\ doing' = "connect" /\ endpoint' = endpoint + 1
        /\ ~ bodies[endpoint].up
    BY <1>6 DEF C!Skip
  <2>2. \A s \in C!Samples : Taken(s)' <=> Taken(s)
    <3>. TAKE s \in C!Samples
    <3>1. s.endpoint # endpoint /\ s.endpoint \in Nat
      BY <1>4, <2>1
    <3>2. (Taken(s) <=> s.endpoint < endpoint) /\ (Taken(s)' <=> s.endpoint < endpoint + 1)
      BY <2>1 DEF Taken
    <3>. QED
      BY <1>0, <3>1, <3>2
  <2>. QED
    BY <1>1, <1>2, <1>3, <2>1, <2>2, QuietStep DEF NothingLost, MetricIsHead
<1>7. CASE C!Connect
  <2>1. /\ gathered' = gathered /\ lost' = lost /\ doing = "connect" /\ doing' = "lines" /\ endpoint' = endpoint
        /\ body' = bodies[endpoint].lines /\ metric' = C!None /\ endpoint <= Len(bodies)
    BY <1>7 DEF C!Connect
  <2>2. endpoint \in DOMAIN bodies /\ Len(bodies[endpoint].lines) \in Nat
    BY <1>0, <2>1, AnswerFacts DEF TypeOK
  <2>3. Read' = 0
    BY <1>1, <2>1, <2>2 DEF Read, Lines
  <2>4. \A s \in C!Samples : Taken(s)' <=> Taken(s)
    <3>. TAKE s \in C!Samples
    <3>1. s.at >= 1 /\ s.at \in Nat
      BY <1>4
    <3>2. ~ (s.at <= 0)
      BY <3>1
    <3>. QED
      BY <2>1, <2>3, <3>2 DEF Taken
  <2>5. MetricIsHead'
    BY <2>1, <2>3 DEF MetricIsHead
  <2>. QED
    BY <1>1, <1>2, <1>3, <2>1, <2>4, <2>5, QuietStep DEF NothingLost
<1>8. CASE C!HelpLine
  <2>1. /\ C!Taking("help") /\ body' = Tail(body) /\ UNCHANGED << bodies, doing, endpoint, lost >>
    BY <1>8 DEF C!HelpLine
  <2>2. SameDefinitions /\ metric' = Lines[Read + 1].name /\ metric' \in Seq(N)
    BY <1>0, <1>8, HelpStep
  <2>3. /\ Lines' = Lines /\ Read' = Read + 1 /\ Read \in Nat /\ doing = "lines" /\ Lines[Read + 1].kind = "help"
    BY <1>0, <2>1, TakesLine, TakingFacts
  <2>4. metric' # C!None
    <3>1. "none" \notin N
      BY DEF SetupFacts, Answers
    <3>2. C!None \notin Seq(N)
      <4>1. \A q \in Seq(N) : Len(q) = 1 => q[1] \in N
        OBVIOUS
      <4>2. Len(<< "none" >>) = 1 /\ << "none" >>[1] = "none"
        OBVIOUS
      <4>. QED
        BY <3>1, <4>1, <4>2 DEF C!None
    <3>. QED
      BY <2>2, <3>2
  <2>5. MetricIsHead'
    <3>1. Read + 1 \in 1..Read' /\ \A k \in 1..Read' : k <= Read + 1
      BY <2>3
    <3>. QED
      BY <2>2, <2>3, <2>4, <3>1 DEF MetricIsHead
  <2>6. \A s \in C!Samples : Taken(s)' <=> Taken(s)
    BY <1>0, <2>1, NowFacts
  <2>. QED
    BY <1>1, <1>2, <2>1, <2>2, <2>5, <2>6, QuietStep DEF NothingLost
<1>9. CASE C!TypeLine
  <2>1. /\ C!Taking("type") /\ body' = Tail(body) /\ UNCHANGED << bodies, doing, endpoint, lost, metric >>
    BY <1>9 DEF C!TypeLine
  <2>2. SameDefinitions
    BY <1>0, <1>9, TypeStep
  <2>3. /\ Lines' = Lines /\ Read' = Read + 1 /\ Read \in Nat /\ doing = "lines" /\ Lines[Read + 1].kind = "type"
    BY <1>0, <2>1, TakesLine, TakingFacts
  <2>4. MetricIsHead'
    <3>1. \A k \in 1..Read' : k \in 1..Read \/ k = Read + 1
      BY <2>3
    <3>2. \A k \in 1..Read : k \in 1..Read'
      BY <2>3
    <3>. QED
      BY <1>2, <2>1, <2>3, <3>1, <3>2 DEF MetricIsHead
  <2>5. \A s \in C!Samples : Taken(s)' <=> Taken(s)
    BY <1>0, <2>1, NowFacts
  <2>. QED
    BY <1>1, <1>2, <2>1, <2>2, <2>4, <2>5, QuietStep DEF NothingLost
<1>10. CASE C!SampleLine
  <2>1. /\ C!Taking("sample") /\ body' = Tail(body) /\ UNCHANGED << bodies, doing, endpoint, lost, metric >>
    BY <1>10 DEF C!SampleLine
  <2>2. FromTaken' /\ TakenHeld'
    BY <1>2, <1>10, SampleFromTaken, SampleHeld
  <2>3. /\ Lines' = Lines /\ Read' = Read + 1 /\ Read \in Nat /\ doing = "lines" /\ Lines[Read + 1].kind = "sample"
    BY <1>0, <2>1, TakesLine, TakingFacts
  <2>4. MetricIsHead'
    <3>1. \A k \in 1..Read' : k \in 1..Read \/ k = Read + 1
      BY <2>3
    <3>2. \A k \in 1..Read : k \in 1..Read'
      BY <2>3
    <3>. QED
      BY <1>2, <2>1, <2>3, <3>1, <3>2 DEF MetricIsHead
  <2>. QED
    BY <1>2, <2>1, <2>2, <2>4 DEF NothingLost
<1>11. CASE C!OtherComment
  <2>1. C!Taking("comment") /\ "comment" # "help" /\ "comment" \notin {"type", "sample"}
    BY <1>11 DEF C!OtherComment
  <2>. QED
    BY <1>0, <1>2, <2>1, HeadOfLine, Zenon
<1>12. CASE C!CarriageReturn
  <2>1. C!Taking("cr") /\ "cr" # "help" /\ "cr" \notin {"type", "sample"}
    BY <1>12 DEF C!CarriageReturn
  <2>. QED
    BY <1>0, <1>2, <2>1, HeadOfLine, Zenon
<1>13. CASE C!UsesNothing
  <2>1. ~ lost
    BY <1>2 DEF NothingLost
  <2>2. ~ (C!Taking("type") /\ metric = C!None) /\ ~ (C!Taking("sample") /\ metric = C!None) /\ ~ C!Taking("cr")
    <3>1. /\ "cr" # "help" /\ "type" # "help" /\ "sample" # "help"
          /\ "cr" \notin {"type", "sample"}
      OBVIOUS
    <3>. QED
      BY <1>0, <1>2, <3>1, HeadOfLine, Zenon
  <2>. QED
    BY <1>13, <2>1, <2>2 DEF C!UsesNothing
<1>14. CASE C!EndOfBody
  <2>1. /\ gathered' = gathered /\ lost' = lost /\ doing = "lines" /\ doing' = "connect" /\ endpoint' = endpoint + 1
        /\ body = << >>
    BY <1>14 DEF C!EndOfBody
  <2>2. endpoint \in DOMAIN bodies /\ Len(Lines) \in Nat /\ Lines = bodies[endpoint].lines
    BY <1>0, <2>1, AnswerFacts DEF LinesLeft, Lines
  <2>3. Read = Len(Lines)
    BY <2>1, <2>2 DEF Read
  <2>4. \A s \in C!Samples : Taken(s)' <=> Taken(s)
    <3>. TAKE s \in C!Samples
    <3>1. s.endpoint \in Nat /\ (s.endpoint = endpoint => s.at <= Read)
      BY <1>4, <2>2, <2>3
    <3>2. (Taken(s)' <=> s.endpoint < endpoint + 1) /\ (Taken(s) <=> s.endpoint < endpoint \/ s.endpoint = endpoint)
      BY <2>1, <3>1 DEF Taken
    <3>. QED
      BY <1>0, <3>1, <3>2
  <2>. QED
    BY <1>1, <1>2, <1>3, <2>1, <2>4, QuietStep DEF NothingLost, MetricIsHead
<1>15. CASE C!Respond
  <2>1. /\ gathered' = gathered /\ lost' = lost /\ doing = "connect" /\ endpoint' = endpoint /\ doing' # "lines"
        /\ doing' = "done"
    BY <1>2, <1>15 DEF C!Respond, NothingLost
  <2>2. \A s \in C!Samples : Taken(s)' <=> Taken(s)
    BY <2>1 DEF Taken
  <2>. QED
    BY <1>1, <1>2, <1>3, <2>1, <2>2, QuietStep DEF NothingLost, MetricIsHead
<1>. QED
  BY <1>5, <1>6, <1>7, <1>8, <1>9, <1>10, <1>11, <1>12, <1>13, <1>14, <1>15 DEF C!Next

LEMMA OwnImpliesKept ==
    ASSUME NEW N, NEW L, NEW V, SetupFacts(N, L, V), Basic(N, L, V), Own
    PROVE  C!BridgeKeepsSamples
<1>. SUFFICES ASSUME doing \in {"done", "error", "crash"}, AllOwn
              PROVE  /\ doing = "done"
                     /\ \A s \in C!Samples : ~ C!Nested(s) /\ ~ C!Superseded(s) =>
                          \E i \in DOMAIN response[s.line.name].samples :
                             LET r == response[s.line.name].samples[i]
                             IN  /\ C!ToSet(r.labels) = C!ToSet(s.line.labels) \cup {<< "endpoint", Address[s.endpoint] >>}
                                 /\ r.value = s.line.value
                     /\ \A n \in DOMAIN response : \A i \in DOMAIN response[n].samples :
                          \E s \in C!Samples :
                             /\ s.line.name = n
                             /\ C!ToSet(response[n].samples[i].labels) =
                                  C!ToSet(s.line.labels) \cup {<< "endpoint", Address[s.endpoint] >>}
  BY DEF C!BridgeKeepsSamples, AllOwn
<1>1. NothingLost /\ FromTaken /\ TakenHeld /\ ResponseIs /\ bodies \in Bodies /\ endpoint \in Nat
  BY DEF Own, Basic, TypeOK
<1>2. doing = "done" /\ endpoint > Len(bodies)
  BY <1>1 DEF NothingLost, ResponseIs
<1>3. DOMAIN response = DOMAIN gathered
      /\ \A n \in DOMAIN gathered :
           response[n].samples = [i \in DOMAIN gathered[n].definitions |-> C!Shown(gathered[n].definitions[i])]
  BY <1>1, <1>2 DEF ResponseIs
<1>4. \A n \in DOMAIN gathered :
        /\ DOMAIN response[n].samples = DOMAIN gathered[n].definitions
        /\ \A i \in DOMAIN gathered[n].definitions :
             /\ response[n].samples[i].labels = gathered[n].definitions[i].attributes
             /\ response[n].samples[i].value = C!Last(gathered[n].definitions[i].values)
  <2>. TAKE n \in DOMAIN gathered
  <2>. DEFINE defs == gathered[n].definitions
  <2>1. response[n].samples = [i \in DOMAIN defs |-> C!Shown(defs[i])]
    BY <1>3
  <2>2. \A i \in DOMAIN defs : response[n].samples[i] = C!Shown(defs[i])
    BY <2>1
  <2>5. \A d : C!Shown(d).labels = d.attributes /\ C!Shown(d).value = C!Last(d.values)
    BY DEF C!Shown
  <2>. HIDE DEF defs
  <2>3. DOMAIN response[n].samples = DOMAIN defs
    BY <2>1
  <2>4. \A i \in DOMAIN defs : /\ response[n].samples[i].labels = defs[i].attributes
                               /\ response[n].samples[i].value = C!Last(defs[i].values)
    BY <2>2, <2>5, Zenon
  <2>. QED
    BY <2>3, <2>4, Zenon DEF defs
<1>5. ASSUME NEW s \in C!Samples, ~ C!Nested(s), ~ C!Superseded(s)
      PROVE  Held(s)
  <2>1. s.endpoint \in 1..Len(bodies) /\ Len(bodies) \in Nat
    BY <1>1, SampleFacts, AnswerFacts
  <2>2. Taken(s)
    BY <1>1, <1>2, <2>1 DEF Taken
  <2>3. \A t \in C!Samples : ~ Supersedes(t, s)
    BY <1>5 DEF C!Superseded, Supersedes
  <2>. QED
    BY <1>1, <1>5, <2>2, <2>3 DEF TakenHeld
<1>6. ASSUME NEW s \in C!Samples, ~ C!Nested(s), ~ C!Superseded(s)
      PROVE  \E i \in DOMAIN response[s.line.name].samples :
                LET r == response[s.line.name].samples[i]
                IN  /\ C!ToSet(r.labels) = C!ToSet(s.line.labels) \cup {<< "endpoint", Address[s.endpoint] >>}
                    /\ r.value = s.line.value
  BY <1>4, <1>5, <1>6 DEF Held, Carried, Origin
<1>7. ASSUME NEW n \in DOMAIN response, NEW i \in DOMAIN response[n].samples
      PROVE  \E s \in C!Samples :
                /\ s.line.name = n
                /\ C!ToSet(response[n].samples[i].labels) = C!ToSet(s.line.labels) \cup {<< "endpoint", Address[s.endpoint] >>}
  <2>1. /\ n \in DOMAIN gathered /\ i \in DOMAIN gathered[n].definitions
        /\ response[n].samples[i].labels = gathered[n].definitions[i].attributes
    BY <1>3, <1>4
  <2>2. \E s \in C!Samples : s.line.name = n /\ C!ToSet(gathered[n].definitions[i].attributes) = Carried(s)
    BY <1>1, <2>1 DEF FromTaken
  <2>. QED
    BY <2>1, <2>2 DEF Carried, Origin
<1>. QED
  BY <1>2, <1>6, <1>7

----------------------------------------------------------------------------

\* Whatever the endpoints of a bridge write, and however many there are: every sample of
\* a response that pgexporter_prometheus_client_get gathered names an endpoint that
\* answered, first among its labels, and no two samples of a metric have the same labels.
THEOREM EndpointsStayApart == SetupsAreAnswers => (C!Spec => []C!EndpointsApart)
<1>. SUFFICES ASSUME SetupsAreAnswers PROVE C!Spec => []C!EndpointsApart
  OBVIOUS
<1>1. PICK N, L, V : SetupFacts(N, L, V)
  BY DEF SetupsAreAnswers, SetupFacts
<1>2. C!Init => Basic(N, L, V)
  BY <1>1, BasicInit
<1>3. Basic(N, L, V) /\ [C!Next]_(C!vars) => Basic(N, L, V)'
  BY <1>1, BasicStep
<1>4. Basic(N, L, V) => C!EndpointsApart
  BY BasicImpliesApart
<1>. QED
  BY <1>2, <1>3, <1>4, PTL DEF C!Spec

\* When the endpoints that answer write what pgexporter writes, the scrape of the bridge
\* is answered, shows the last value of every sample (but for labels nested in one
\* another) under its endpoint, and shows nothing that no endpoint sent, whichever
\* endpoints are down, for any number of endpoints, samples and values kept.
THEOREM SamplesAreKept == SetupsAreAnswers /\ OriginsApart => (C!Spec => []BridgeKeepsSamples)
<1>. SUFFICES ASSUME SetupsAreAnswers, OriginsApart PROVE C!Spec => []BridgeKeepsSamples
  OBVIOUS
<1>1. PICK N, L, V : SetupFacts(N, L, V)
  BY DEF SetupsAreAnswers, SetupFacts
<1>. DEFINE Inv == Basic(N, L, V) /\ Own
<1>2. C!Init => Inv
  BY <1>1, BasicInit, OwnInit
<1>3. Inv /\ [C!Next]_(C!vars) => Inv'
  BY <1>1, BasicStep, OwnStep
<1>4. Inv => BridgeKeepsSamples
  BY <1>1, OwnImpliesKept, BasicImpliesApart DEF BridgeKeepsSamples
<1>. HIDE DEF Inv
<1>. QED
  BY <1>2, <1>3, <1>4, PTL DEF C!Spec

=============================================================================
