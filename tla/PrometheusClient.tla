-------------------------- MODULE PrometheusClient --------------------------
(***************************************************************************)
(* How a scrape of the bridge puts the responses of its endpoints into     *)
(* one: each endpoint that answers is read line by line into a tree of     *)
(* metrics, in which every sample gets the endpoint as its first label,    *)
(* and the tree is written out. The locks of the cache around this are in  *)
(* module Bridge.                                                          *)
(*                                                                         *)
(* A line is a record: a "help" or "type" line with a name and a text, a   *)
(* "sample" with a name, labels (a sequence of pairs) and a value, another *)
(* "comment", or a "cr" line that is empty but for its carriage return. A  *)
(* name is a sequence of parts, because the parser looks for the name of a *)
(* metric at the beginning of that of a sample. Labels may be malformed.   *)
(***************************************************************************)
EXTENDS Naturals, SequencesExt, FiniteSets

CONSTANTS
    Setups,           \* for each endpoint: is it up, and the lines of its response
    Address,          \* Address[e]: host and port of an endpoint
    MaxValues         \* the values that are kept for a sample (100)

VARIABLES
    bodies,           \* the setup
    doing,            \* connect, lines, done, error or crash
    endpoint,
    body,             \* the lines that were not taken yet
    metric,           \* the current metric: a name or None
    buffer,           \* help and type as sscanf left them
    gathered,         \* bridge->metrics: for each name help, type and definitions
    lost,             \* there is no such tree any more
    response

vars == << bodies, doing, endpoint, body, metric, buffer, gathered, lost, response >>

None == << "none" >>

----------------------------------------------------------------------------
(* pgexporter_prometheus_client_get.                                       *)

\* No connection, no valid answer or an empty one: the endpoint is left out.
Skip ==
    /\ doing = "connect" /\ endpoint <= Len(bodies)
    /\ ~ bodies[endpoint].up
    /\ endpoint' = endpoint + 1
    /\ UNCHANGED << bodies, doing, body, metric, buffer, gathered, lost, response >>

Connect ==
    /\ doing = "connect" /\ endpoint <= Len(bodies)
    /\ bodies[endpoint].up
    /\ body' = bodies[endpoint].lines
    /\ metric' = None /\ buffer' = [help |-> "", type |-> ""]
    /\ doing' = "lines"
    /\ UNCHANGED << bodies, endpoint, gathered, lost, response >>

----------------------------------------------------------------------------
(* parse_body_to_bridge and what it calls.                                 *)

Taking(kind) == doing = "lines" /\ body # << >> /\ Head(body).kind = kind

Crash ==
    /\ doing' = "crash"
    /\ UNCHANGED << bodies, endpoint, body, metric, buffer, gathered, lost, response >>

\* A text that is missing leaves the buffer with that of an earlier line.
Scanned(old, text) == IF text = "" THEN old ELSE text

\* metric_find_create and metric_set_help.
HelpLine ==
    /\ Taking("help") /\ ~ lost
    /\ LET line == Head(body)
           help == Scanned(buffer.help, line.text)
       IN  /\ buffer' = [buffer EXCEPT !.help = help]
           /\ metric' = line.name
           /\ gathered' = [n \in DOMAIN gathered \cup {line.name} |->
                         IF n # line.name THEN gathered[n]
                         ELSE IF n \in DOMAIN gathered THEN [gathered[n] EXCEPT !.help = help]
                         ELSE [help |-> help, type |-> "", definitions |-> << >>]]
    /\ body' = Tail(body)
    /\ UNCHANGED << bodies, doing, endpoint, lost, response >>

\* The type goes to the current metric, whatever the line names.
TypeLine ==
    /\ Taking("type") /\ metric # None
    /\ LET type == Scanned(buffer.type, Head(body).text)
       IN  /\ buffer' = [buffer EXCEPT !.type = type]
           /\ gathered' = [gathered EXCEPT ![metric].type = type]
    /\ body' = Tail(body)
    /\ UNCHANGED << bodies, doing, endpoint, metric, lost, response >>

\* Any other comment gives up the whole tree, with what earlier endpoints had.
OtherComment ==
    /\ Taking("comment")
    /\ gathered' = << >> /\ lost' = TRUE
    /\ doing' = "connect" /\ endpoint' = endpoint + 1
    /\ body' = << >>
    /\ UNCHANGED << bodies, metric, buffer, response >>

\* Fault: a sample does not say where it comes from.
LineAttributesPlain(line) == line.labels

LineAttributes(line) == << << "endpoint", Address[endpoint] >> >> \o line.labels

\* A definition matches when it has all the labels of the line, and perhaps more.
Matches(d, attributes) == ToSet(attributes) \subseteq ToSet(d.attributes)

\* add_value forgets the oldest value when there are too many.
Pushed(values, v) == Append(IF Len(values) >= MaxValues THEN Tail(values) ELSE values, v)

\* attributes_find_create and add_value.
Added(definitions, attributes, v) ==
    LET found == {i \in DOMAIN definitions : Matches(definitions[i], attributes)}
        first == CHOOSE i \in found : \A j \in found : i <= j
    IN  IF found = {} THEN Append(definitions, [attributes |-> attributes, values |-> << v >>])
        ELSE [definitions EXCEPT ![first].values = Pushed(@, v)]

\* add_line leaves out a line that does not begin with the name, or has malformed labels
\* or no value.
Refused(line) ==
    \/ ~ IsPrefix(metric, line.name)
    \/ line.name = metric /\ (line.malformed \/ line.value = "")

\* Where the name goes on after that of the metric (the buckets of a histogram) what
\* follows is taken for the value, and there are no labels.
Understood(line) ==
    IF line.name = metric THEN line ELSE [line EXCEPT !.labels = << >>, !.value = "rest_of_name"]

SampleLine ==
    /\ Taking("sample") /\ metric # None
    /\ LET line == Understood(Head(body))
       IN  gathered' = IF Refused(Head(body)) THEN gathered
                       ELSE [gathered EXCEPT ![metric].definitions = Added(@, LineAttributes(line), line.value)]
    /\ body' = Tail(body)
    /\ UNCHANGED << bodies, doing, endpoint, metric, buffer, lost, response >>

Pending == metric # None /\ gathered[metric].definitions = << >>

\* Only before the first sample is an empty line harmless: it ends a metric that is then
\* no longer there for the same line.
CarriageReturn ==
    /\ Taking("cr") /\ Pending
    /\ body' = Tail(body)
    /\ UNCHANGED << bodies, doing, endpoint, metric, buffer, gathered, lost, response >>

\* Lines that use a metric, or a tree, that is not there.
UsesNothing ==
    /\ \/ Taking("help") /\ lost
       \/ Taking("type") /\ metric = None
       \/ Taking("sample") /\ metric = None
       \/ Taking("cr") /\ ~ Pending
    /\ Crash

EndOfBody ==
    /\ doing = "lines" /\ body = << >>
    /\ doing' = "connect" /\ endpoint' = endpoint + 1
    /\ UNCHANGED << bodies, body, metric, buffer, gathered, lost, response >>

----------------------------------------------------------------------------
(* The second half of bridge_metrics.                                      *)

\* pgexporter_deque_peek_last.
Shown(d) == [labels |-> d.attributes, value |-> Last(d.values)]

Respond ==
    /\ doing = "connect" /\ endpoint > Len(bodies)
    /\ IF lost THEN doing' = "error" /\ UNCHANGED response
       ELSE /\ doing' = "done"
            /\ response' = [n \in DOMAIN gathered |->
                 [help |-> gathered[n].help, type |-> gathered[n].type,
                  samples |-> [i \in DOMAIN gathered[n].definitions |-> Shown(gathered[n].definitions[i])]]]
    /\ UNCHANGED << bodies, endpoint, body, metric, buffer, gathered, lost >>

Init ==
    /\ bodies \in Setups
    /\ doing = "connect" /\ endpoint = 1
    /\ body = << >> /\ metric = None /\ buffer = [help |-> "", type |-> ""]
    /\ gathered = << >> /\ lost = FALSE /\ response = << >>

Next ==
    \/ Skip \/ Connect
    \/ HelpLine \/ TypeLine \/ OtherComment \/ SampleLine \/ CarriageReturn \/ UsesNothing
    \/ EndOfBody \/ Respond

Spec == Init /\ [][Next]_vars

----------------------------------------------------------------------------

\* The samples an endpoint sent: each with the metric it was announced under.
SamplesOf(e) ==
    LET b == bodies[e].lines
    IN  {[endpoint |-> e, at |-> i, line |-> b[i]] : i \in {j \in DOMAIN b : bodies[e].up /\ b[j].kind = "sample"}}

Samples == UNION {SamplesOf(e) : e \in DOMAIN bodies}

\* Two samples of a metric and an endpoint of which one has all labels of the other and
\* more: the code looks labels up by inclusion, so that one may count for the other.
Nested(s) ==
    \E t \in Samples : /\ t.endpoint = s.endpoint /\ t.line.name = s.line.name
                       /\ \/ ToSet(s.line.labels) \subseteq ToSet(t.line.labels)
                          \/ ToSet(t.line.labels) \subseteq ToSet(s.line.labels)
                       /\ ToSet(s.line.labels) # ToSet(t.line.labels)

\* Bodies in which each sample follows a HELP of its own metric, as pgexporter writes
\* them, but for histograms.
OwnFormat(b) ==
    \A i \in DOMAIN b :
        /\ b[i].kind \in {"help", "type", "sample"}
        /\ b[i].kind = "sample" => ~ b[i].malformed /\ b[i].value # ""
        /\ b[i].kind # "help" =>
             LET heads == {j \in 1..(i - 1) : b[j].kind = "help"}
             IN  /\ heads # {}
                 /\ b[CHOOSE j \in heads : \A k \in heads : k <= j].name = b[i].name

Superseded(s) ==
    \E t \in Samples : /\ t.endpoint = s.endpoint /\ t.at > s.at /\ t.line.name = s.line.name
                       /\ ToSet(t.line.labels) = ToSet(s.line.labels)

\* When the endpoints that answer write what pgexporter writes, the bridge shows the
\* last value of each of their samples, with its labels and its endpoint, and no sample
\* that nobody sent; an endpoint that is down takes nothing away from the others. (A
\* sample whose labels are nested in those of another one is not looked at.)
BridgeKeepsSamples ==
    doing \in {"done", "error", "crash"} /\ (\A e \in DOMAIN bodies : bodies[e].up => OwnFormat(bodies[e].lines)) =>
        /\ doing = "done"
        /\ \A s \in Samples : ~ Nested(s) /\ ~ Superseded(s) =>
             \E i \in DOMAIN response[s.line.name].samples :
                LET r == response[s.line.name].samples[i]
                IN  /\ ToSet(r.labels) = ToSet(s.line.labels) \cup {<< "endpoint", Address[s.endpoint] >>}
                    /\ r.value = s.line.value
        /\ \A n \in DOMAIN response : \A i \in DOMAIN response[n].samples :
             \E s \in Samples :
                /\ s.line.name = n
                /\ ToSet(response[n].samples[i].labels) = ToSet(s.line.labels) \cup {<< "endpoint", Address[s.endpoint] >>}

\* Whatever the endpoints write, an endpoint that is down or empty neither ends the scrape
\* nor hides the others, and a scrape that is answered tells the endpoints apart.
EndpointsApart ==
    doing = "done" =>
        \A n \in DOMAIN response : \A i \in DOMAIN response[n].samples :
            LET r == response[n].samples[i]
            IN  /\ r.labels # << >> /\ r.labels[1][1] = "endpoint"
                /\ \E e \in DOMAIN bodies : bodies[e].up /\ Address[e] = r.labels[1][2]
                /\ \A j \in DOMAIN response[n].samples :
                     ToSet(response[n].samples[j].labels) = ToSet(r.labels) => i = j
=============================================================================
