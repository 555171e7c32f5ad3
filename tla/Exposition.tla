----------------------------- MODULE Exposition -----------------------------
(***************************************************************************)
(* From the results of the queries to the text of a response: the metrics  *)
(* that are defined in files (custom_metrics) and those of the extensions  *)
(* (extension_metrics) are queried on every server they apply to, and the  *)
(* rows are gathered by metric, because all samples of a metric have to    *)
(* follow its HELP and TYPE. A column value is a model value or Null.      *)
(***************************************************************************)
EXTENDS Naturals, SequencesExt, FiniteSets

CONSTANTS
    Setups,           \* "custom" or "extension" metrics, the servers, the collectors
    Rows(_),          \* Rows(m): the results a query of metric m may have
    Null,
    MaxColumns        \* MAX_METRIC_COLUMNS

VARIABLES
    scrape,           \* the setup
    stage,            \* query, gather, done or exit
    fds,              \* the servers that have a connection
    ask,              \* the loops over metrics, servers and databases
    sent,             \* the results so far (what the response has to show)
    list,             \* query_list_t: the results that are to be gathered
    cell,             \* the loops over the columns and rows of a result
    store,            \* column_store_t[]
    entry,            \* the entries of the store that were rendered
    text              \* the lines of the response

vars == << scrape, stage, fds, ask, sent, list, cell, store, entry, text >>

----------------------------------------------------------------------------
(* Which queries are sent.                                                 *)

\* allowed_collector and excluded_collector.
Passes(c) == IF scrape.allowed = {} THEN c \notin scrape.excluded ELSE c \in scrape.allowed

Contradicted(c) == c \in scrape.allowed /\ c \in scrape.excluded

\* There is a query for servers of this role and version.
Applies(m, s) ==
    LET sv == scrape.servers[s]
    IN  m.on \in {"both", sv.role} /\ sv.version \in DOMAIN m.columns

\* All databases, or the last one, which is "postgres"; extensions have no database.
DatabasesOf(m, s) ==
    LET ds == scrape.servers[s].databases
    IN  IF scrape.kind = "extension" THEN << "" >>
        ELSE IF m.all THEN ds ELSE << ds[Len(ds)] >>

At(m, s) == [metric |-> m, server |-> s, database |-> 1]

\* Metric by metric for the custom ones, server by server for those of extensions.
Onward ==
    IF scrape.kind = "custom"
      THEN IF ask.server < Len(scrape.servers) THEN At(ask.metric, ask.server + 1) ELSE At(ask.metric + 1, 1)
      ELSE IF ask.metric < Len(scrape.metrics) THEN At(ask.metric + 1, ask.server) ELSE At(1, ask.server + 1)

Asking == stage = "query" /\ ask.metric <= Len(scrape.metrics) /\ ask.server <= Len(scrape.servers)

Metric == scrape.metrics[ask.metric]

Databases == DatabasesOf(Metric, ask.server)

\* A collector that is both allowed and excluded is not skipped: it ends the child. The
\* custom metrics come to it without looking at the server.
Exiting == Contradicted(Metric.collector) /\ (scrape.kind = "custom" \/ ask.server \in fds)

Wanted ==
    /\ Passes(Metric.collector) /\ ask.server \in fds /\ Applies(Metric, ask.server)
    /\ ask.database <= Len(Databases)

----------------------------------------------------------------------------
(* The list of results. A node whose query failed is used again.           *)

\* What stands for no result: a row without columns is never returned.
Failed == << << >> >>

\* Fault: a node is used again although its query has a result.
PlacedOver(node) ==
    IF list = << >> \/ list[Len(list)].rows = << >> THEN Append(list, node)
    ELSE [list EXCEPT ![Len(list)] = node]

Placed(node) ==
    IF list = << >> \/ list[Len(list)].rows # Failed THEN Append(list, node)
    ELSE [list EXCEPT ![Len(list)] = node]

Node(rows) ==
    [tag |-> Metric.tag, sort |-> Metric.sort, histogram |-> Metric.histogram, server |-> ask.server,
     database |-> Databases[ask.database], columns |-> Metric.columns[scrape.servers[ask.server].version],
     rows |-> rows, nr |-> Len(sent) + 1]

\* pgexporter_custom_query returns an error or rows, possibly none.
Execute ==
    /\ Asking /\ ~ Exiting /\ Wanted
    /\ \E rows \in Rows(Metric) \cup {Failed} :
         /\ list' = Placed(Node(rows))
         /\ sent' = Append(sent, Node(rows))
    /\ ask' = [ask EXCEPT !.database = @ + 1]
    /\ UNCHANGED << scrape, stage, fds, cell, store, entry, text >>

\* pgexporter_switch_db fails: the server has no connection any more, and neither its
\* other databases nor the metrics that come later are asked for.
SwitchFails ==
    /\ Asking /\ ~ Exiting /\ Wanted
    /\ scrape.kind = "custom"
    /\ list' = Placed(Node(Failed))
    /\ sent' = Append(sent, Node(Failed))
    /\ fds' = fds \ {ask.server}
    /\ UNCHANGED << scrape, stage, ask, cell, store, entry, text >>

\* The next server or metric.
Pass ==
    /\ Asking /\ ~ Exiting /\ ~ Wanted
    /\ ask' = Onward
    /\ UNCHANGED << scrape, stage, fds, sent, list, cell, store, entry, text >>

\* collector_pass ends the child when a collector is both allowed and excluded.
CollectorExits ==
    /\ Asking /\ Exiting
    /\ stage' = "exit"
    /\ UNCHANGED << scrape, fds, ask, sent, list, cell, store, entry, text >>

Queried ==
    /\ stage = "query" /\ ~ Asking
    /\ stage' = "gather"
    /\ UNCHANGED << scrape, fds, ask, sent, list, cell, store, entry, text >>

----------------------------------------------------------------------------
(* add_column_to_store.                                                    *)

\* Fault: rows without a value in the first column are not kept for the end.
BeforeEqual(next, row) == next.row # << >> /\ row # << >> /\ next.row[1] = row[1]

\* Where a row goes when rows are sorted by their first column: before the first row
\* with the same one, or with none.
Before(next, row) == next.row # << >> /\ row # << >> /\ (next.row[1] = Null \/ next.row[1] = row[1])

FirstOf(ks) == CHOOSE k \in ks : \A l \in ks : k <= l

AddColumn(lines, sort, line) ==
    LET stops == {i \in 2..Len(lines) : Before(lines[i], line.row)}
        pos   == IF sort # "data" \/ stops = {} THEN Len(lines) + 1
                 ELSE FirstOf(stops)
    IN  InsertAt(lines, pos, line)

----------------------------------------------------------------------------
(* handle_gauge_counter, handle_histogram and their defaults.              *)

\* A line is a header (nr 0) or shows row "at" of the nr-th result; the row of a header
\* and of a default is empty. A default names the first server, whichever was asked.
Line(node, c, r) ==
    LET row == IF node.rows = << >> THEN << >> ELSE node.rows[r]
    IN  [tag |-> node.tag, name |-> node.columns[c].name, nr |-> node.nr, at |-> r, row |-> row,
         database |-> node.database, server |-> IF row = << >> THEN 1 ELSE node.server]

\* The entry of a column: tag, name and type, for histograms the order of the rows, and
\* HELP and TYPE in the first line.
Entry(node, c) ==
    LET col == node.columns[c]
    IN  [tag |-> node.tag, name |-> col.name, type |-> col.type,
         sort |-> IF col.type = "histogram" THEN node.sort ELSE "name",
         lines |-> << [tag |-> node.tag, name |-> col.name, nr |-> 0, at |-> 0, row |-> << >>,
                       database |-> "", server |-> 0] >>]

Matches(e, f) == e.tag = f.tag /\ e.name = f.name /\ e.type = f.type /\ e.sort = f.sort

\* The columns that are no labels; a histogram has one.
ValueColumns(node) == {c \in DOMAIN node.columns : node.columns[c].type # "label"}

\* The rows of a result, or the one that stands for none.
RowsOf(node) == 1..(IF node.rows = << >> THEN 1 ELSE Len(node.rows))

\* A column without a value; a histogram without one is not left out, see HistogramMissing.
Empty(node, c, r) == node.rows # << >> /\ node.rows[r][c] = Null

Gathering == stage = "gather" /\ list # << >>

Result == Head(list)

AtColumn == Gathering /\ Result.rows # Failed /\ cell.column \in DOMAIN Result.columns

\* The entries that fit the column (the first one is used).
Known == {k \in DOMAIN store : Matches(store[k], Entry(Result, cell.column))}

\* A column that is no label and has an entry.
AtValue == AtColumn /\ cell.column \in ValueColumns(Result) /\ Known # {}

NextColumn == [column |-> cell.column + 1, row |-> 1]

NextCell == IF cell.row + 1 \in RowsOf(Result) THEN [cell EXCEPT !.row = @ + 1] ELSE NextColumn

\* Labels are part of the other columns; when the store is full a column is left out.
SkipColumn ==
    /\ AtColumn
    /\ cell.column \notin ValueColumns(Result) \/ (Known = {} /\ Len(store) >= MaxColumns)
    /\ cell' = NextColumn
    /\ UNCHANGED << scrape, stage, fds, ask, sent, list, store, entry, text >>

NewColumn ==
    /\ AtColumn /\ cell.column \in ValueColumns(Result)
    /\ Known = {} /\ Len(store) < MaxColumns
    /\ store' = Append(store, Entry(Result, cell.column))
    /\ UNCHANGED << scrape, stage, fds, ask, sent, list, cell, entry, text >>

\* parse_list takes the length of a text that is not there, which ends the child.
HistogramMissing ==
    /\ AtValue /\ Result.histogram /\ Empty(Result, cell.column, cell.row)
    /\ stage' = "exit"
    /\ UNCHANGED << scrape, fds, ask, sent, list, cell, store, entry, text >>

\* A row that has no value is left out.
SkipRow ==
    /\ AtValue /\ ~ Result.histogram /\ Empty(Result, cell.column, cell.row)
    /\ cell' = NextCell
    /\ UNCHANGED << scrape, stage, fds, ask, sent, list, store, entry, text >>

AddRow ==
    /\ AtValue /\ ~ Empty(Result, cell.column, cell.row)
    /\ store' = [store EXCEPT ![FirstOf(Known)].lines =
                    AddColumn(@, Result.sort, Line(Result, cell.column, cell.row))]
    /\ cell' = NextCell
    /\ UNCHANGED << scrape, stage, fds, ask, sent, list, entry, text >>

\* The next result; one that failed is passed over.
NextResult ==
    /\ Gathering /\ ~ AtColumn
    /\ list' = Tail(list)
    /\ cell' = [column |-> 1, row |-> 1]
    /\ UNCHANGED << scrape, stage, fds, ask, sent, store, entry, text >>

Render ==
    /\ stage = "gather" /\ list = << >> /\ entry < Len(store)
    /\ text' = text \o store[entry + 1].lines
    /\ entry' = entry + 1
    /\ UNCHANGED << scrape, stage, fds, ask, sent, list, cell, store >>

Rendered ==
    /\ stage = "gather" /\ list = << >> /\ entry = Len(store)
    /\ stage' = "done"
    /\ UNCHANGED << scrape, fds, ask, sent, list, cell, store, entry, text >>

Init ==
    /\ scrape \in Setups
    /\ stage = "query" /\ fds = {s \in DOMAIN scrape.servers : scrape.servers[s].up}
    /\ ask = At(1, 1) /\ cell = [column |-> 1, row |-> 1] /\ entry = 0
    /\ sent = << >> /\ list = << >> /\ store = << >> /\ text = << >>

Next ==
    \/ Execute \/ SwitchFails \/ Pass \/ CollectorExits \/ Queried
    \/ SkipColumn \/ NewColumn \/ HistogramMissing \/ SkipRow \/ AddRow \/ NextResult
    \/ Render \/ Rendered

Spec == Init /\ [][Next]_vars

----------------------------------------------------------------------------

Asked(m, s, d) ==
    \E n \in DOMAIN sent : sent[n].tag = m.tag /\ sent[n].server = s /\ sent[n].database = DatabasesOf(m, s)[d]

\* Each server that kept its connection was asked for each metric that it has, in every
\* database it is asked in.
EverythingAsked ==
    stage \in {"gather", "done"} =>
        \A i \in DOMAIN scrape.metrics, s \in fds :
            LET m == scrape.metrics[i]
            IN  Passes(m.collector) /\ Applies(m, s) => \A d \in DOMAIN DatabasesOf(m, s) : Asked(m, s, d)

\* The column a line belongs to. (HELP and TYPE of a histogram name its tag only, so two
\* alternatives of a metric that name that column differently announce the tag twice.)
Family(i) == << text[i].tag, text[i].name >>

\* The lines of a metric follow each other and its one header: a metric that is split, or
\* announced twice, is not what Prometheus reads.
FamiliesWhole ==
    \A i, j \in DOMAIN text :
        i < j /\ Family(i) = Family(j) => /\ text[j].nr # 0
                                          /\ \A k \in i..j : Family(k) = Family(i)

HeaderFirst == \A i \in DOMAIN text : text[i].nr # 0 => \E j \in 1..i : text[j].nr = 0 /\ Family(j) = Family(i)

Unknown(node, c) == \A k \in DOMAIN store : ~ Matches(store[k], Entry(node, c))

Shows(l, n, c, r) == l.nr = n /\ l.name = sent[n].columns[c].name /\ l.at = r

\* Every row a server returned is shown for each of its columns that has a value, once,
\* with the server and the database it comes from, and a result without rows by one line;
\* nothing else is shown. (What is left out is left out whole, when the store is full.)
RowsShown ==
    /\ stage = "done" =>
         \A n \in DOMAIN sent : sent[n].rows # Failed =>
            \A c \in ValueColumns(sent[n]), r \in RowsOf(sent[n]) :
                ~ Empty(sent[n], c, r) /\ ~ (Len(store) >= MaxColumns /\ Unknown(sent[n], c)) =>
                    \E i \in DOMAIN text : Shows(text[i], n, c, r)
    /\ \A i \in DOMAIN text : text[i].nr # 0 =>
         \E n \in DOMAIN sent : \E c \in ValueColumns(sent[n]), r \in RowsOf(sent[n]) :
            /\ text[i] = Line(sent[n], c, r) /\ sent[n].rows # Failed /\ ~ Empty(sent[n], c, r)
            /\ \A j \in DOMAIN text : Shows(text[j], n, c, r) => i = j

Sorted(i) == text[i].nr # 0 /\ text[i].row # << >> /\ sent[text[i].nr].sort = "data"

\* Rows that are sorted by their first column are grouped by it, those without one last.
RowsGrouped ==
    \A i, j \in DOMAIN text : i < j /\ Sorted(i) /\ Sorted(j) /\ Family(i) = Family(j) =>
        /\ text[i].row[1] = Null => text[j].row[1] = Null
        /\ \A k \in DOMAIN text :
             j < k /\ Sorted(k) /\ Family(k) = Family(i) /\ text[k].row[1] = text[i].row[1]
               => text[j].row[1] = text[i].row[1]
=============================================================================
