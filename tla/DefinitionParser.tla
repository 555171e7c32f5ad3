-------------------------- MODULE DefinitionParser --------------------------
(***************************************************************************)
(* Reading a file of metric definitions. A YAML file arrives as the events *)
(* of libyaml; four functions, one inside the other, take them: the file,  *)
(* its metrics, their queries and their columns. They share one state,     *)
(* which says what may come next. A JSON file is a tree by the time it is  *)
(* looked at. Both make the same configuration, an item with items in it.  *)
(***************************************************************************)
EXTENDS YamlEvents, Integers

CONSTANTS
    Inputs,           \* [documents, cut]: the documents of a file, and after how many
                      \* events it turns out not to be YAML
    Atoi              \* Atoi[text]: the number a text begins with

VARIABLES
    input, rest,      \* the file, and the events that were not taken yet
    level,            \* 1 to 4: parse_yaml, parse_metrics, parse_queries, parse_columns
    key,              \* the key whose scalar parse_value waits for, or "none"
    state,            \* parser_state_t
    open,             \* the items that are being filled, from the outside
    outcome           \* parsing, parsed or refused

vars == << input, rest, level, key, state, open, outcome >>

----------------------------------------------------------------------------
(* The events that arrive.                                                 *)

Uncut(file) ==
    LET all == Stream(file.documents) IN SubSeq(all, 1, IF file.cut < Len(all) THEN file.cut ELSE Len(all))

\* The next event; yaml_parser_parse fails where the file is not YAML.
NextEvent == IF rest = << >> THEN Event("none", "") ELSE Head(rest)

Onward == rest' = IF rest = << >> THEN rest ELSE Tail(rest)

----------------------------------------------------------------------------
(* Items.                                                                  *)

Keys == << {"extension", "version", "metrics"},
           {"tag", "metric", "sort", "server", "collector", "queries", "database", "optional"},
           {"query", "version", "columns"},
           {"name", "type", "description"} >>

\* The key whose value is a list for the next function.
Inner == << "metrics", "queries", "columns", "no list" >>

\* yaml_config_t, yaml_metric_t, yaml_query_t and yaml_column_t, zeroed.
Texts == << {"extension"}, {"tag", "sort", "server", "collector", "database", "optional"},
            {"query", "version_str"}, {"name", "type", "description"} >>

Zeroed(l) ==
    [texts |-> [t \in Texts[l] |-> IF t \in {"database", "optional"} THEN "false" ELSE "none"],
     version |-> 0, items |-> << >>]

\* A number in a char.
AsChar(n) == ((n + 128) % 256) - 128

\* parse_string, parse_itoc, parse_int, parse_exec_all_dbs, parse_optional: what a scalar
\* does to its item. The version of a query is a text in the file of an extension.
Flag(v, yes) == IF v = yes THEN "true" ELSE "false"

Assign(item, l, k, v, extension) ==
    CASE k = "metric"   -> [item EXCEPT !.texts["tag"] = v]
      [] k = "database" -> [item EXCEPT !.texts[k] = Flag(v, "all")]
      [] k = "optional" -> [item EXCEPT !.texts[k] = Flag(v, "true")]
      [] k = "version"  -> IF l = 3 /\ extension THEN [item EXCEPT !.texts["version_str"] = v]
                           ELSE [item EXCEPT !.version = AsChar(Atoi[v])]
      [] OTHER          -> [item EXCEPT !.texts[k] = v]

----------------------------------------------------------------------------
(* The parser.                                                             *)

\* Fault: a map may end as soon as it has begun.
ExpectedOrEmpty(l, type) ==
    CASE type = "stream-start" -> IF l = 1 THEN {"INIT"} ELSE {}
      [] type = "doc-start"    -> IF l = 1 THEN {"STREAM_START"} ELSE {}
      [] type = "doc-end"      -> IF l = 1 THEN {"MAP_END"} ELSE {}
      [] type = "stream-end"   -> IF l = 1 THEN {"DOC_END"} ELSE {}
      [] type = "seq-start"    -> IF l > 1 THEN {"KEY"} ELSE {}
      [] type = "seq-end"      -> IF l > 1 THEN {"MAP_END"} ELSE {}
      [] type = "map-start"    -> IF l = 1 THEN {"DOC_START", "SEQ_START"} ELSE {"SEQ_START", "MAP_END"}
      [] type = "map-end"      -> {"VALUE", "SEQ_END", "MAP_START"}
      [] type = "scalar"       -> {"VALUE", "MAP_START", "SEQ_END"}
      [] OTHER                 -> {}

\* The states in which a function accepts an event.
Expected(l, type) ==
    CASE type = "stream-start" -> IF l = 1 THEN {"INIT"} ELSE {}
      [] type = "doc-start"    -> IF l = 1 THEN {"STREAM_START"} ELSE {}
      [] type = "doc-end"      -> IF l = 1 THEN {"MAP_END"} ELSE {}
      [] type = "stream-end"   -> IF l = 1 THEN {"DOC_END"} ELSE {}
      [] type = "seq-start"    -> IF l > 1 THEN {"KEY"} ELSE {}
      [] type = "seq-end"      -> IF l > 1 THEN {"MAP_END"} ELSE {}
      [] type = "map-start"    -> IF l = 1 THEN {"DOC_START", "SEQ_START"} ELSE {"SEQ_START", "MAP_END"}
      [] type = "map-end"      -> {"VALUE", "SEQ_END"}
      [] type = "scalar"       -> {"VALUE", "MAP_START", "SEQ_END"}
      [] OTHER                 -> {}

After(type) ==
    CASE type = "stream-start" -> "STREAM_START"
      [] type = "doc-start"    -> "DOC_START"
      [] type = "doc-end"      -> "DOC_END"
      [] type = "stream-end"   -> "STREAM_END"
      [] type = "seq-start"    -> "SEQ_START"
      [] type = "seq-end"      -> "SEQ_END"
      [] type = "map-start"    -> "MAP_START"
      [] type = "map-end"      -> "MAP_END"
      [] type = "scalar"       -> "KEY"

\* A map opens an item of its list, and the item counts when the map ends.
Opened(type) ==
    IF level > 1 /\ type = "map-start" THEN Append(open, Zeroed(level))
    ELSE IF level > 1 /\ type = "map-end"
      THEN LET up == SubSeq(open, 1, Len(open) - 1)
           IN  [up EXCEPT ![Len(up)].items = Append(@, open[Len(open)])]
    ELSE open

Refuse ==
    /\ outcome' = "refused"
    /\ UNCHANGED << input, level, key, state, open >>

\* What a function does with an event. A key that names a list hands over to the next
\* function, any other known key to parse_value; the end of a list returns.
Take(l) ==
    LET e == NextEvent
    IN  /\ outcome = "parsing" /\ key = "none" /\ level = l
        /\ Onward
        /\ IF state \notin Expected(l, e.type) \/ (e.type = "scalar" /\ e.value \notin Keys[l])
             THEN Refuse
             ELSE /\ state' = After(e.type)
                  /\ open' = Opened(e.type)
                  /\ level' = CASE e.type = "scalar" /\ e.value = Inner[l] -> l + 1
                                [] e.type = "seq-end" -> l - 1
                                [] OTHER -> l
                  /\ key' = IF e.type = "scalar" /\ e.value # Inner[l] THEN e.value ELSE "none"
                  /\ outcome' = IF e.type = "stream-end" THEN "parsed" ELSE outcome
                  /\ UNCHANGED input

parse_yaml    == Take(1)
parse_metrics == Take(2)
parse_queries == Take(3)
parse_columns == Take(4)

parse_value ==
    /\ outcome = "parsing" /\ key # "none"
    /\ Onward
    /\ IF NextEvent.type # "scalar" \/ state # "KEY" THEN Refuse
       ELSE /\ open' = [open EXCEPT ![Len(open)] =
                          Assign(@, level, key, NextEvent.value, open[1].texts["extension"] # "none")]
            /\ state' = "VALUE"
            /\ key' = "none"
            /\ UNCHANGED << input, level, outcome >>

Init ==
    /\ input \in Inputs
    /\ rest = Uncut(input)
    /\ level = 1 /\ key = "none" /\ state = "INIT"
    /\ open = << Zeroed(1) >>
    /\ outcome = "parsing"

Next == parse_yaml \/ parse_metrics \/ parse_queries \/ parse_columns \/ parse_value

Spec == Init /\ [][Next]_vars

----------------------------------------------------------------------------
(* JSON. A node that is missing what it must have makes the file fail.     *)

Failed == [failed |-> TRUE]

Has(n, k) == \E i \in DOMAIN n.pairs : n.pairs[i][1] = k
Get(n, k) == n.pairs[CHOOSE i \in DOMAIN n.pairs : n.pairs[i][1] = k /\ \A j \in DOMAIN n.pairs : n.pairs[j][1] = k => j <= i][2]
Text(n, k, default) == IF Has(n, k) THEN Get(n, k).value ELSE default

JsonVersion(n) == IF Has(n, "version") THEN AsChar(Atoi[Get(n, "version").value]) ELSE 0

\* The items of the list below a key, Failed among them if one cannot be taken.
JsonColumns(query) ==
    IF ~ Has(query, "columns") THEN << >>
    ELSE LET ns == Get(query, "columns").items
         IN  [i \in DOMAIN ns |->
                IF ~ Has(ns[i], "type") THEN Failed
                ELSE [texts |-> [name |-> Text(ns[i], "name", ""), type |-> Text(ns[i], "type", ""),
                                 description |-> Text(ns[i], "description", "")],
                      version |-> 0, items |-> << >>]]

JsonQueries(metric) ==
    IF ~ Has(metric, "queries") THEN << >>
    ELSE LET ns == Get(metric, "queries").items
         IN  [i \in DOMAIN ns |->
                IF ~ Has(ns[i], "query") \/ Failed \in ToSet(JsonColumns(ns[i])) THEN Failed
                ELSE [texts |-> [query |-> Text(ns[i], "query", ""), version_str |-> "none"],
                      version |-> JsonVersion(ns[i]), items |-> JsonColumns(ns[i])]]

JsonMetrics(n) ==
    LET ns == Get(n, "metrics").items
    IN  [i \in DOMAIN ns |->
           IF ~ Has(ns[i], "tag") \/ ~ Has(ns[i], "collector") \/ Failed \in ToSet(JsonQueries(ns[i])) THEN Failed
           ELSE [texts |-> [tag |-> Text(ns[i], "tag", ""), collector |-> Text(ns[i], "collector", ""),
                            sort |-> Text(ns[i], "sort", "name"), server |-> Text(ns[i], "server", "both"),
                            database |-> Flag(Text(ns[i], "database", ""), "all"),
                            optional |-> Flag(Text(ns[i], "optional", ""), "true")],
                 version |-> 0, items |-> JsonQueries(ns[i])]]

\* pgexporter_read_json.
JsonConfig(n) ==
    IF ~ Has(n, "metrics") \/ Failed \in ToSet(JsonMetrics(n)) THEN Failed
    ELSE [texts |-> [extension |-> "none"], version |-> JsonVersion(n), items |-> JsonMetrics(n)]

----------------------------------------------------------------------------
(* What a file means.                                                      *)

\* The shape a file must have: lists and maps with something in them, known keys only.
RECURSIVE Fits(_, _)
Fits(n, l) ==
    /\ n.kind = "map" /\ n.pairs # << >>
    /\ \A i \in DOMAIN n.pairs :
         LET v == n.pairs[i][2]
         IN  /\ n.pairs[i][1] \in Keys[l]
             /\ IF n.pairs[i][1] # Inner[l] THEN v.kind = "scalar"
                ELSE v.kind = "list" /\ v.items # << >> /\ \A j \in DOMAIN v.items : Fits(v.items[j], l + 1)

Valid == Len(input.documents) = 1 /\ input.cut >= Len(Stream(input.documents)) /\ Fits(input.documents[1], 1)

\* The item a map stands for: the last value of each key, the lists of a key together.
RECURSIVE Meaning(_, _, _)
Meaning(n, l, extension) ==
    LET Ext(i) == extension \/ (l = 1 /\ \E j \in 1..i : n.pairs[j][1] = "extension")
        lists  == FlattenSeq([i \in DOMAIN n.pairs |->
                    IF n.pairs[i][1] # Inner[l] THEN << >>
                    ELSE [j \in DOMAIN n.pairs[i][2].items |-> Meaning(n.pairs[i][2].items[j], l + 1, Ext(i))]])
        item   == FoldLeft(LAMBDA a, p : IF p[1] = Inner[l] THEN a ELSE Assign(a, l, p[1], p[2].value, extension),
                           Zeroed(l), n.pairs)
    IN  [item EXCEPT !.items = lists]

\* A file is refused just when it does not have the shape of one, at whatever event that
\* shows; and else every metric, query and column of it arrives, in its place.
ParsedIsDocument ==
    /\ outcome = "parsed" => Valid /\ open = << Meaning(input.documents[1], 1, FALSE) >>
    /\ outcome = "refused" => ~ Valid

\* Defaults, as the semantics of a YAML file has them.
RECURSIVE Defaulted(_, _)
Defaulted(item, l) ==
    LET Default(t) == CASE t = "sort" -> "name" [] t = "server" -> "both"
                        [] t \in {"name", "description"} -> "" [] OTHER -> "none"
    IN  [item EXCEPT !.texts = [t \in DOMAIN @ |-> IF @[t] = "none" THEN Default(t) ELSE @[t]],
                     !.items = [i \in DOMAIN @ |-> Defaulted(@[i], l + 1)]]

RECURSIVE NoKeyTwice(_)
NoKeyTwice(n) ==
    CASE n.kind = "map"  -> \A i, j \in DOMAIN n.pairs :
                               /\ NoKeyTwice(n.pairs[i][2])
                               /\ n.pairs[i][1] = n.pairs[j][1] => i = j
                               /\ n.pairs[i][1] \notin {"metric", "extension"}
      [] n.kind = "list" -> \A i \in DOMAIN n.items : NoKeyTwice(n.items[i])
      [] OTHER -> TRUE

\* The same definitions give the same configuration in either format, where both take
\* them: no key twice, no alternative name for the tag, not the file of an extension.
FormatsAgree ==
    outcome = "parsed" /\ NoKeyTwice(input.documents[1]) /\ JsonConfig(input.documents[1]) # Failed
        => JsonConfig(input.documents[1]) = Defaulted(open[1], 1)
=============================================================================
