------------------------------- MODULE Alerts -------------------------------
(***************************************************************************)
(* Alerts: the built-in definitions and the overrides of alerts_path, read *)
(* when the process starts, and their evaluation during a scrape. Both     *)
(* files go through one parser, a few flags driven by the events of        *)
(* libyaml; an override changes just what it mentions.                     *)
(***************************************************************************)
EXTENDS YamlEvents, Integers

CONSTANTS
    Setups,           \* alerts, alerts_path and the documents of the file it names
    BuiltIn,          \* INTERNAL_ALERTS_YAML
    Servers,          \* the names of the servers, in their order
    Results,          \* what a query may return: "error", "null" or a number
    Strtoll,          \* Strtoll[text]: the number a text begins with
    MaxAlerts,        \* NUMBER_OF_ALERTS
    MaxServers        \* NUMBER_OF_SERVERS

VARIABLES
    deployed,         \* the setup
    progress,         \* start, built-in, overrides, scrape, done or exit
    events,           \* the events that were not taken yet
    flags,            \* the locals of parse_alerts_yaml
    alerts,           \* config->alerts
    at,               \* the alert and the server that are looked at
    valid,            \* server_conn_valid
    samples           \* the samples of the response

vars == << deployed, progress, events, flags, alerts, at, valid, samples >>

----------------------------------------------------------------------------
(* Definitions.                                                            *)

Operators == {">", "<", ">=", "<=", "==", "!="}
Types     == {"query", "connection"}

Zeroed ==
    [name |-> "", description |-> "", query |-> "", type |-> "query", operator |-> ">",
     threshold |-> 0, all |-> FALSE, servers |-> << >>]

\* ALERT_OVERRIDE_*: the field, or fields, a key stands for.
Fields(k) == CASE k = "servers" -> {"all", "servers"}
               [] k \in {"description", "query", "type", "operator", "threshold"} -> {k}
               [] OTHER -> {}

\* What the value of a key does to an alert.
Assigned(alert, k, v) ==
    CASE k \in {"name", "description", "query", "type", "operator"} -> [alert EXCEPT ![k] = v]
      [] k = "threshold" -> [alert EXCEPT !.threshold = Strtoll[v]]
      [] k = "servers"   -> [alert EXCEPT !.all = (v = "all"),
                                          !.servers = IF v = "all" THEN << >> ELSE << v >>]
      [] OTHER -> alert

\* A name in a list of servers; "all" anywhere means all of them.
Targeted(alert, v) ==
    IF v = "all" THEN [alert EXCEPT !.all = TRUE, !.servers = << >>]
    ELSE IF ~ alert.all /\ Len(alert.servers) < MaxServers
      THEN [alert EXCEPT !.servers = Append(@, v)]
    ELSE alert

Added(list, alert) == IF Len(list) < MaxAlerts THEN Append(list, alert) ELSE list

\* The first definition of the name gets the fields that were given; a new name is added.
Overridden(list, alert, given) ==
    LET same == {i \in DOMAIN list : list[i].name = alert.name}
    IN  IF same = {} THEN Added(list, alert)
        ELSE [list EXCEPT ![CHOOSE i \in same : \A j \in same : i <= j] =
                [f \in DOMAIN @ |-> IF f \in given THEN alert[f] ELSE @[f]]]

----------------------------------------------------------------------------
(* parse_alerts_yaml.                                                      *)

Fresh == [list |-> FALSE, item |-> FALSE, seq |-> FALSE, key |-> "none",
          current |-> Zeroed, given |-> {}]

\* A scalar: a name in a list of servers, the key "alerts", a key of an item or its value.
OnScalar(v) ==
    CASE flags.seq -> [flags EXCEPT !.current = Targeted(@, v)]
      [] ~ flags.seq /\ ~ flags.list /\ v = "alerts" -> [flags EXCEPT !.list = TRUE]
      [] ~ flags.seq /\ (flags.list \/ v # "alerts") /\ flags.item ->
           IF flags.key = "none" THEN [flags EXCEPT !.key = v]
           ELSE [flags EXCEPT !.current = Assigned(@, flags.key, v),
                               !.given = @ \cup Fields(flags.key), !.key = "none"]
      [] OTHER -> flags

\* Fault: the fields that were given for one item count for the next one.
OnEventKeepsGiven(e) ==
    CASE e.type = "scalar"    -> OnScalar(e.value)
      [] e.type = "seq-start" ->
           IF flags.item /\ flags.key = "servers"
             THEN [flags EXCEPT !.seq = TRUE, !.current.servers = << >>] ELSE flags
      [] e.type = "seq-end"   ->
           IF flags.seq THEN [flags EXCEPT !.seq = FALSE, !.key = "none",
                                             !.given = @ \cup Fields("servers")] ELSE flags
      [] e.type = "map-start" ->
           IF flags.list THEN [flags EXCEPT !.item = TRUE, !.current = Zeroed] ELSE flags
      [] e.type = "map-end"   -> [flags EXCEPT !.item = FALSE]
      [] OTHER -> flags

\* The flags and the current alert after an event. A map that begins inside "alerts"
\* begins an item, whatever it is inside of.
OnEvent(e) ==
    CASE e.type = "scalar"    -> OnScalar(e.value)
      [] e.type = "seq-start" ->
           IF flags.item /\ flags.key = "servers"
             THEN [flags EXCEPT !.seq = TRUE, !.current.servers = << >>] ELSE flags
      [] e.type = "seq-end"   ->
           IF flags.seq THEN [flags EXCEPT !.seq = FALSE, !.key = "none",
                                             !.given = @ \cup Fields("servers")] ELSE flags
      [] e.type = "map-start" ->
           IF flags.list
             THEN [flags EXCEPT !.item = TRUE, !.current = Zeroed, !.given = {}] ELSE flags
      [] e.type = "map-end"   -> [flags EXCEPT !.item = FALSE]
      [] OTHER -> flags

\* parse_alert_operator and parse_alert_type_string end the process.
Unknown(e) ==
    /\ e.type = "scalar" /\ ~ flags.seq /\ flags.item
    /\ \/ flags.key = "operator" /\ e.value \notin Operators
       \/ flags.key = "type" /\ e.value \notin Types

\* At the end of an item that has a name it is added, or merged.
Recorded(e) ==
    IF e.type = "map-end" /\ flags.item /\ flags.current.name # ""
      THEN IF progress = "overrides" THEN Overridden(alerts, flags.current, flags.given)
           ELSE Added(alerts, flags.current)
      ELSE alerts

----------------------------------------------------------------------------
(* main: the built-in definitions, then those of alerts_path.              *)

Exit == progress' = "exit" /\ UNCHANGED << deployed, events, flags, alerts, at, valid, samples >>

ReadInternal ==
    /\ progress = "start"
    /\ progress' = IF deployed.alerts THEN "built-in" ELSE "scrape"
    /\ events' = IF deployed.alerts THEN Stream(<< BuiltIn >>) ELSE << >>
    /\ flags' = Fresh
    /\ UNCHANGED << deployed, alerts, at, valid, samples >>

\* yaml_parser_parse fails where the file stops being YAML.
ParseError == progress \in {"built-in", "overrides"} /\ events = << >> /\ Exit

UnknownValue == progress \in {"built-in", "overrides"} /\ events # << >> /\ Unknown(Head(events)) /\ Exit

TakeEvent ==
    /\ progress \in {"built-in", "overrides"}
    /\ events # << >> /\ ~ Unknown(Head(events)) /\ Head(events).type # "stream-end"
    /\ flags' = OnEvent(Head(events))
    /\ alerts' = Recorded(Head(events))
    /\ events' = Tail(events)
    /\ UNCHANGED << deployed, progress, at, valid, samples >>

\* pgexporter_read_alerts_configuration after the built-in file.
StreamEnd ==
    /\ progress \in {"built-in", "overrides"}
    /\ events # << >> /\ Head(events).type = "stream-end"
    /\ \/ /\ progress = "built-in" /\ deployed.path = "file"
          /\ progress' = "overrides"
          /\ events' = LET all == Stream(deployed.documents)
                       IN  SubSeq(all, 1, IF deployed.cut < Len(all) THEN deployed.cut ELSE Len(all))
          /\ flags' = Fresh
          /\ UNCHANGED << deployed, alerts, at, valid, samples >>
       \/ progress = "built-in" /\ deployed.path = "missing" /\ Exit
       \/ /\ progress = "overrides" \/ deployed.path = "none"
          /\ progress' = "scrape" /\ events' = << >> /\ flags' = Fresh
          /\ UNCHANGED << deployed, alerts, at, valid, samples >>

----------------------------------------------------------------------------
(* alert_information: each alert on each server.                           *)

evaluate_alert(value, op, threshold) ==
    CASE op = ">"  -> value > threshold
      [] op = "<"  -> value < threshold
      [] op = ">=" -> value >= threshold
      [] op = "<=" -> value <= threshold
      [] op = "==" -> value = threshold
      [] op = "!=" -> value # threshold

Looked == alerts[at.alert]

Meant(alert, s) == alert.all \/ alert.servers = << >> \/ \E i \in DOMAIN alert.servers : alert.servers[i] = Servers[s]

\* Fault: the connection is tested for each alert.
TestedAgain(s) == {"up", "down"}

\* The connection of a server is tested when the first alert needs it.
Tested(s) == IF valid[s] = "untested" THEN {"up", "down"} ELSE {valid[s]}

\* 1 or 0, or no sample (-1). A result without a value does not fire.
Firing(alert, up, r) ==
    CASE alert.type = "connection" -> IF up = "up" THEN 0 ELSE 1
      [] alert.type = "query" /\ (up = "down" \/ r = "error") -> -1
      [] alert.type = "query" /\ up = "up" /\ r = "null" -> 0
      [] OTHER -> IF evaluate_alert(Strtoll[r], alert.operator, alert.threshold) THEN 1 ELSE 0

Onward ==
    at' = IF at.server < Len(Servers) THEN [at EXCEPT !.server = @ + 1]
          ELSE [alert |-> at.alert + 1, server |-> 1]

Evaluate ==
    /\ progress = "scrape" /\ at.alert <= Len(alerts)
    /\ IF ~ Meant(Looked, at.server) THEN UNCHANGED << valid, samples >>
       ELSE \E up \in Tested(at.server),
               r \in IF Looked.type = "query" THEN Results ELSE {"null"} :
              /\ valid' = [valid EXCEPT ![at.server] = up]
              /\ LET f == Firing(Looked, up, r)
                 IN  samples' = IF f < 0 THEN samples
                                ELSE Append(samples, [alert |-> at.alert, server |-> at.server, firing |-> f])
    /\ Onward
    /\ UNCHANGED << deployed, progress, events, flags, alerts >>

Evaluated ==
    /\ progress = "scrape" /\ at.alert > Len(alerts)
    /\ progress' = "done"
    /\ UNCHANGED << deployed, events, flags, alerts, at, valid, samples >>

Init ==
    /\ deployed \in Setups
    /\ progress = "start" /\ events = << >> /\ flags = Fresh /\ alerts = << >>
    /\ at = [alert |-> 1, server |-> 1]
    /\ valid = [s \in DOMAIN Servers |-> "untested"]
    /\ samples = << >>

Next == ReadInternal \/ ParseError \/ UnknownValue \/ TakeEvent \/ StreamEnd \/ Evaluate \/ Evaluated

Spec == Init /\ [][Next]_vars

----------------------------------------------------------------------------

\* The items of a document that is nothing but a list of flat alerts.
ItemsOf(doc) == doc.pairs[1][2].items

IsFlat(item) ==
    /\ item.kind = "map"
    /\ \A i \in DOMAIN item.pairs :
         LET k == item.pairs[i][1]
             n == item.pairs[i][2]
         IN  \/ n.kind = "scalar" /\ (k = "type" => n.value \in Types) /\ (k = "operator" => n.value \in Operators)
             \/ n.kind = "list" /\ k = "servers" /\ \A j \in DOMAIN n.items : n.items[j].kind = "scalar"

IsList(doc) ==
    /\ doc.kind = "map" /\ Len(doc.pairs) = 1 /\ doc.pairs[1][1] = "alerts"
    /\ doc.pairs[1][2].kind = "list"
    /\ \A i \in DOMAIN ItemsOf(doc) : IsFlat(ItemsOf(doc)[i])

\* An item read as a tree: its pairs in their order.
Meaning(item) ==
    FoldLeft(LAMBDA a, p : IF p[2].kind = "scalar" THEN Assigned(a, p[1], p[2].value)
                           ELSE FoldLeft(LAMBDA b, n : Targeted(b, n.value), [a EXCEPT !.servers = << >>], p[2].items),
             Zeroed, item.pairs)

Mentions(item) == UNION {Fields(item.pairs[i][1]) : i \in DOMAIN item.pairs}

Named(items) == SelectSeq(items, LAMBDA i : Meaning(i).name # "")

\* Field f of the alert n after the items: what the last one says that mentions it.
Final(items, n, f, default) ==
    LET saying == {i \in DOMAIN items : Meaning(items[i]).name = n /\ f \in Mentions(items[i])}
    IN  IF saying = {} THEN default
        ELSE Meaning(items[CHOOSE i \in saying : \A j \in saying : j <= i])[f]

\* The names that are new, in the order in which they come.
NewNames(items, old) ==
    LET IsNew(i) == /\ \A k \in DOMAIN old : old[k].name # Meaning(items[i]).name
                    /\ \A j \in 1..(i - 1) : Meaning(items[j]).name # Meaning(items[i]).name
    IN  FoldLeft(LAMBDA ns, i : IF IsNew(i) THEN Append(ns, Meaning(items[i]).name) ELSE ns,
                 << >>, [i \in DOMAIN items |-> i])

Merged(items, old) ==
    LET new  == NewNames(items, old)
        with == [i \in DOMAIN old |-> [f \in DOMAIN Zeroed |-> Final(items, old[i].name, f, old[i][f])]]
                  \o [i \in DOMAIN new |-> [f \in DOMAIN Zeroed |->
                        IF f = "name" THEN new[i] ELSE Final(items, new[i], f, Zeroed[f])]]
    IN  SubSeq(with, 1, IF Len(with) < MaxAlerts THEN Len(with) ELSE MaxAlerts)

\* Once the process is up it has the built-in alerts in their order, each with just the
\* fields changed that the file at alerts_path mentions for it, and then the new ones
\* (alert_configuration.c: "find existing alert by name", "New alert, append"). A file of
\* another shape leaves them their names.
AlertsMerged ==
    progress \in {"scrape", "done"} /\ deployed.alerts =>
        LET base == [i \in DOMAIN ItemsOf(BuiltIn) |-> Meaning(ItemsOf(BuiltIn)[i])]
        IN  CASE deployed.path = "none" -> alerts = base
              [] deployed.path = "file" /\ Len(deployed.documents) = 1 /\ IsList(deployed.documents[1]) ->
                   alerts = Merged(Named(ItemsOf(deployed.documents[1])), base)
              [] OTHER -> /\ \A i \in DOMAIN base : alerts[i].name = base[i].name
                          /\ \A i \in DOMAIN alerts : alerts[i].name # ""

\* A file that is a list of flat alerts is never a reason not to start.
FlatAccepted ==
    progress = "exit" => \/ deployed.path = "missing"
                      \/ deployed.cut < 100
                      \/ \E i \in DOMAIN deployed.documents : ~ IsList(deployed.documents[i])

\* Within a scrape the alerts agree on which servers are there: a server whose
\* connection alert fires has no sample of a query, and one of whose queries there is a
\* sample has no connection alert that fires; each alert has at most one sample for a
\* server (prometheus.c: "Server is down, skip query-based alerts").
AlertsAgree ==
    \A i, j \in DOMAIN samples :
        samples[i].server = samples[j].server =>
            /\ alerts[samples[i].alert].type = "connection" /\ samples[i].firing = 1
                 => alerts[samples[j].alert].type = "connection" /\ samples[j].firing = 1
            /\ samples[i].alert = samples[j].alert => i = j
=============================================================================
