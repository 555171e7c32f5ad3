---------------------------- MODULE MCResponses ----------------------------
(***************************************************************************)
(* How a response is put together, on small instances: from the results of *)
(* the queries (Exposition), with the alerts (Alerts), and by the bridge   *)
(* from the responses of others (PrometheusClient). "part" says which one  *)
(* a behaviour is about. MCStructures makes a run of it.                   *)
(***************************************************************************)
EXTENDS Responses, YamlEvents, Integers, FiniteSets, TLC

VARIABLES
    part,
    deployed, progress, events, flags, alerts, at, valid, samples

\* The pairs of a map.
P(k, v) == << k, v >>
S(k, v) == << k, Scalar(v) >>

----------------------------------------------------------------------------
(* Metrics with two value columns, sorted by their label, on one or all    *)
(* databases, on primaries only, with another query or none for older      *)
(* servers; a histogram. Values that are missing, results without rows.    *)

Labelled(cs) == << [name |-> "l", type |-> "label"] >> \o [i \in DOMAIN cs |-> [name |-> cs[i][1], type |-> cs[i][2]]]

Sizes == [tag |-> "size", sort |-> "data", histogram |-> FALSE, all |-> TRUE, on |-> "both", collector |-> "c",
          columns |-> [v \in {"new", "old"} |-> Labelled(<< << "x", "gauge" >> >>)]]
Waits == [tag |-> "wait", sort |-> "data", histogram |-> FALSE, all |-> FALSE, on |-> "primary", collector |-> "c",
          columns |-> ("new" :> Labelled(<< << "x", "gauge" >>, << "y", "counter" >> >>))
                        @@ ("old" :> Tail(Labelled(<< << "x", "gauge" >> >>)))]
Times == [tag |-> "time", sort |-> "name", histogram |-> TRUE, all |-> FALSE, on |-> "both", collector |-> "d",
          columns |-> "new" :> Labelled(<< << "h", "histogram" >> >>)]

Small == [Sizes EXCEPT !.all = FALSE, !.on = "primary"]

Nothing == "null"

SomeRows(m) ==
    CASE m.tag = "size" -> {<< >>, << << "p", "1" >>, << "q", "1" >> >>, << << Nothing, "1" >>, << "p", "1" >> >>,
                            << << "q", Nothing >>, << Nothing, "2" >> >>}
      [] m.tag = "wait" -> {<< >>, << << "1", Nothing, "1" >>, << "2", "2", "2" >> >>, << << Nothing, "1", Nothing >> >>}
      [] m.tag = "time" -> {<< >>, << << "p", "1" >>, << "q", "1" >> >>, << << "p", "1" >>, << "q", Nothing >> >>}

Queried(up, role, v, ds) == [up |-> up, role |-> role, version |-> v, databases |-> ds]

Both  == << Queried(TRUE, "primary", "new", << "d", "postgres" >>), Queried(TRUE, "replica", "new", << "postgres" >>) >>
Three == << Queried(FALSE, "primary", "new", << "postgres" >>), Queried(TRUE, "primary", "old", << "d", "postgres" >>),
            Queried(TRUE, "primary", "new", << "postgres" >>) >>

SomeScrapes ==
    [kind : {"custom", "extension"}, metrics : {<< Sizes >>, << Waits, Times >>},
     servers : {Both, Three}, allowed : {{}}, excluded : {{}}]
      \cup [kind : {"custom", "extension"}, metrics : {<< Waits, Sizes >>}, servers : {Both}, allowed : {{}}, excluded : {{}}]
      \cup [kind : {"custom", "extension"}, metrics : {<< Times, Sizes >>}, servers : {Both},
            allowed : {{"c"}}, excluded : {{}, {"c"}}]
      \cup [kind : {"custom"}, metrics : {<< Waits, Times, Small >>}, servers : {Both}, allowed : {{}}, excluded : {{}}]

----------------------------------------------------------------------------
(* Two built-in alerts; files that change them, add some, say one thing    *)
(* twice, are no list of alerts or end in the middle.                      *)

Names(ns)        == List([i \in DOMAIN ns |-> Scalar(ns[i])])
AlertList(items) == Map(<< P("alerts", List(items)) >>)

CoreAlerts == AlertList(<<
    Map(<< S("name", "down"), S("description", "x"), S("type", "connection"), S("operator", "=="),
           S("threshold", "1"), S("servers", "all") >>),
    Map(<< S("name", "busy"), S("description", "y"), S("type", "query"), S("query", "x"), S("operator", ">"),
           S("threshold", "1"), S("servers", "all") >>) >>)

Overrides ==
    { Map(<< S("name", "busy"), S("threshold", "2") >>),
      Map(<< P("servers", Names(<< "b", "a" >>)), S("name", "busy"), S("operator", "<=") >>),
      Map(<< S("name", "new"), S("type", "connection"), P("servers", Names(<< "a", "all", "b" >>)) >>),
      Map(<< S("threshold", "2") >>),
      Map(<< S("name", "down"), S("servers", "b"), S("description", "z") >>),
      Map(<< S("name", "new"), S("query", "y"), P("servers", Names(<< >>)), S("unknown", "x") >>),
      Map(<< S("name", "other"), S("query", "y"), S("operator", "!=") >>) }

Strange ==
    { Map(<< S("name", "busy"), S("operator", "x") >>), Map(<< S("name", "busy"), S("type", "x") >>),
      Map(<< S("name", "busy"), P("query", Map(<< S("threshold", "x") >>)), S("threshold", "2") >>),
      Map(<< S("name", "busy"), P("threshold", Names(<< "2", "name", "x" >>)) >>),
      Map(<< S("name", "busy"), P("servers", List(<< Names(<< "a" >>) >>)) >>), Scalar("x") }

Deployed(docs, c) == [alerts |-> TRUE, path |-> "file", documents |-> docs, cut |-> c]

Deployments ==
    {[alerts |-> f, path |-> p, documents |-> << >>, cut |-> 100] : f \in BOOLEAN, p \in {"none", "missing"}}
      \cup {Deployed(<< AlertList(<< i, j >>) >>, 100) : i, j \in Overrides}
      \cup {Deployed(<< AlertList(<< i, Map(<< S("name", "down"), S("threshold", "2") >>) >>) >>, 100) : i \in Strange}
      \cup {Deployed(<< Map(<< S("version", "x"), P("alerts", i), P("x", i) >>), i >>, 100) : i \in Overrides}
      \cup {Deployed(<< AlertList(<< Map(<< S("name", "busy"), S("threshold", "2") >>) >>) >>, n) : n \in {0, 5, 10}}

----------------------------------------------------------------------------
(* Endpoints that are down, that write what pgexporter writes, with        *)
(* samples that come again and labels that include others, and that write  *)
(* something else.                                                         *)

HelpOf(n, t)      == [kind |-> "help", name |-> n, text |-> t]
TypeOf(n)         == [kind |-> "type", name |-> n, text |-> "gauge"]
SampleOf(n, ls, v) == [kind |-> "sample", name |-> n, labels |-> ls, value |-> v, malformed |-> FALSE]
Other(k)          == [kind |-> k]

na == << "a" >>
ab == << "a", "b" >>
lx == << << "l", "x" >> >>
ly == << << "l", "y" >> >>
lm == << << "m", "x" >>, << "l", "x" >> >>

Begun ==
    { << >>, << SampleOf(na, lx, "1"), SampleOf(na, ly, "2") >>,
      << SampleOf(na, lx, "1"), SampleOf(na, ly, "2"), SampleOf(na, lx, "3"), SampleOf(na, lx, "4") >>,
      << SampleOf(na, lm, "1"), SampleOf(na, lx, "2"), SampleOf(na, ly, "1") >> }

Ended ==
    { << >>, << HelpOf(ab, "h"), TypeOf(ab), SampleOf(ab, << >>, "3") >>, << HelpOf(na, "h"), SampleOf(na, lx, "4") >>,
      << SampleOf(ab, lx, "1") >>, << Other("comment") >>, << Other("cr"), SampleOf(na, ly, "1") >>,
      << [SampleOf(na, lx, "1") EXCEPT !.malformed = TRUE] >>, << SampleOf(na, ly, "") >> }

Answers ==
    {[up |-> FALSE, lines |-> << >>]}
      \cup {[up |-> TRUE, lines |-> << HelpOf(na, ""), TypeOf(na) >> \o b \o e] : b \in Begun, e \in Ended}
      \cup {[up |-> TRUE, lines |-> << l >>] : l \in {TypeOf(na), SampleOf(na, lx, "1"), Other("comment"), Other("cr")}}

SomeBodies == {<< x, y >> : x, y \in Answers}

Addresses == << "h:1", "h:2" >>

----------------------------------------------------------------------------

A == INSTANCE Alerts WITH Setups <- Deployments, BuiltIn <- CoreAlerts, Servers <- << "a", "b" >>,
       Results <- {"error", "null", "2"}, Strtoll <- ("1" :> 1) @@ ("2" :> 2) @@ ("x" :> 0),
       MaxAlerts <- 3, MaxServers <- 2

alerting   == << deployed, progress, events, flags, alerts, at, valid, samples >>

\* The parts a behaviour is not about stay in one of their initial states.
OnlyIn(p, setups) == IF part = p THEN setups ELSE {CHOOSE c \in setups : TRUE}

ResponseInit ==
    /\ scrape   \in OnlyIn("exposition", SomeScrapes)
    /\ deployed \in OnlyIn("alerts", Deployments)
    /\ bodies   \in OnlyIn("client", SomeBodies)
    /\ E!Init /\ A!Init /\ C!Init

ResponseNext ==
    \/ part = "exposition" /\ E!Next /\ UNCHANGED << alerting, bridging >>
    \/ part = "alerts" /\ A!Next /\ UNCHANGED << exposition, bridging >>
    \/ part = "client" /\ C!Next /\ UNCHANGED << exposition, alerting >>

----------------------------------------------------------------------------

\* A process has its built-in alerts as the file at alerts_path changes them, a file that is
\* a list of alerts is no reason not to start, and the alerts of a scrape agree on which
\* servers are there (Alerts).
AlertsSound == A!AlertsMerged /\ A!FlatAccepted /\ A!AlertsAgree
=============================================================================
