---------------------------- MODULE MCStructures ----------------------------
(***************************************************************************)
(* The data of the metrics, on small instances: metric definitions         *)
(* (Definitions), with made-up files and small limits and, with the limits *)
(* of the code, the built-in ones (InternalMetrics); the parser of their   *)
(* files (DefinitionParser); the radix tree (RadixTree); and, from         *)
(* MCResponses, what responses are made of. They share no state; "part"    *)
(* says which one a behaviour is about.                                    *)
(***************************************************************************)
EXTENDS MCResponses, InternalMetrics

VARIABLES
    phase, chosen, metrics, extensions, names, todo,
    input, rest, level, key, state, open, outcome,
    root, size, map

----------------------------------------------------------------------------
(* Files.                                                                  *)

Simple(tag, v, cols) == Metric(tag, "c", TRUE, << Query(Pg(v), cols, TRUE) >>)

\* Queries in every order, one without a version.
Orders == { o \in [1..6 -> {0, 10, 12, 13, 16, 18}] : \A i, j \in 1..6 : o[i] = o[j] => i = j }

Ordered ==
    { File("yaml", "", 13, << Metric("o", "c", TRUE, [i \in 1..6 |-> Query(Pg(o[i]), << "x", "" >>, TRUE)]) >>) :
        o \in Orders }

\* Names that collide although tags and columns differ; a file that fails in the middle
\* and one that does not fit; an extension's file among the others; a tag that is no
\* name, and one that comes twice; a column without a type, behind a metric that is refused
\* or not, and a query without its text.
Ga(format) == File(format, "", 10, << Metric("a", "c", TRUE, << Query(Pg(10), << "x", "y" >>, TRUE),
                                                              Query(Pg(0), << "x" >>, TRUE) >>) >>)
Gb(format) == File(format, "", 10, << Simple("b", 10, << "" >>),
                                      Metric("a_x", "c", TRUE, << Query(Pg(10), << "" >>, TRUE),
                                                                  Query(Pg(11), << "", "z" >>, TRUE) >>) >>)
Fc == File("yaml", "", 10, << Simple("d", 11, << "x" >>), Metric("f", "c", FALSE, << >>),
                              Simple("g", 12, << "x" >>) >>)
Fd == File("yaml", "e", 0, << Simple("k", 1, << "x" >>) >>)
Fe == File("yaml", "", 10, << Simple("h", 10, << "x" >>), Simple("i", 10, << "x" >>), Simple("j", 10, << "x" >>) >>)
Ff == File("yaml", "", 10, << Simple("not valid", 10, << "x" >>) >>)
Fg == File("yaml", "", 10, << Simple("m", 10, << "x" >>), Simple("m", 12, << "x" >>) >>)

Fh == File("yaml", "", 10, << Simple("a", 10, << "x" >>),
                              Metric("q", "c", TRUE, << Lacking(Pg(10), << "x" >>, "type") >>) >>)
Gi(format) == File(format, "", 10, << Simple("r", 10, << "x" >>),
                                      Metric("s", "c", TRUE, << Lacking(Pg(10), << "x" >>, "query") >>) >>)

Some == {Ga(t) : t \in {"yaml", "json"}} \cup {Gb(t) : t \in {"yaml", "json"}}
          \cup {Gi(t) : t \in {"yaml", "json"}} \cup {Fc, Fd, Fe, Ff, Fg, Fh}

Later == {<< >>, << Ga("yaml") >>, << Fc >>, << Fd, Fe >>, << Fe, Fd >>, << Fg >>, << Gi("yaml") >>}

Chosen ==
    [files : {<< >>} \cup {<< f >> : f \in Some} \cup {<< p[1], p[2] >> : p \in {q \in Some \X Some : q[1].format = q[2].format}},
     servers : {<< << "e", "g" >>, << "h", "e" >> >>, << << "h" >> >>, << << "i", "e" >> >>}, later : {Later}]

InOrder == [files : {<< f >> : f \in Ordered}, servers : {<< >>}, later : {{<< >>}}]

\* Versions of several parts; a file for another extension; an unknown type; no extension.
Extension(e) ==
    CASE e = "e" -> File("yaml", "e", 0, << Metric("k", "", TRUE,
                       << Query(<< 1, 10, -1 >>, << "x" >>, TRUE), Query(<< 1, 2, -1 >>, << "x" >>, TRUE),
                          Query(<< 1, 2, 0 >>, << "x", "y" >>, TRUE) >>) >>)
      [] e = "g" -> File("yaml", "h", 0, << Simple("l", 1, << "x" >>) >>)
      [] e = "h" -> File("yaml", "h", 0, << Simple("l", 1, << "x" >>),
                                            Metric("n", "", TRUE, << Query(Pg(1), << "y" >>, FALSE) >>) >>)
      [] e = "i" -> File("yaml", "", 0, << Simple("l", 1, << "x" >>) >>)

LookedUp == {Pg(v) : v \in 9..19} \cup ({1} \X {-1, 2, 3, 10} \X {-1, 0, 1})

----------------------------------------------------------------------------
(* Documents: at each depth what belongs there, more than one of it, keys  *)
(* in another order or twice, and everything that does not belong there.   *)

\* What cannot stand for a list of maps with the key k.
Odd(k) == {Scalar("x"), Alias, Map(<< S(k, "x") >>), List(<< >>), List(<< Scalar("x") >>), List(<< Map(<< >>) >>),
           List(<< Map(<< S("x", "x") >>) >>), List(<< Map(<< P(k, List(<< >>)) >>) >>),
           List(<< Map(<< S(k, "x") >>), Alias >>), List(<< List(<< Map(<< S(k, "x") >>) >>) >>)}

Column  == Map(<< S("name", "x"), S("type", "gauge") >>)
Columns == Odd("type") \cup {List(<< Column >>), List(<< Map(<< S("name", "x") >>) >>),
             List(<< Map(<< S("type", "label") >>), Map(<< S("description", "x"), S("type", "gauge"), S("name", "y") >>) >>)}

QueryOf(c) == Map(<< S("query", "x"), S("version", "14"), P("columns", c) >>)
Queries == Odd("query") \cup {List(<< QueryOf(c) >>) : c \in Columns} \cup
           {List(<< Map(<< P("columns", List(<< Column >>)), S("version", "270"), S("query", "y"), P("columns", List(<< Column >>)) >>),
                    QueryOf(List(<< Column, Column >>)), Map(<< S("query", "z") >>) >>),
            List(<< Map(<< S("query", "x"), S("version", "270"), P("columns", List(<< Column >>)) >>) >>)}

MetricOf(q) == Map(<< S("tag", "a"), S("collector", "c"), P("queries", q) >>)
Good    == List(<< QueryOf(List(<< Column >>)) >>)
Metrics == Odd("tag") \cup {List(<< MetricOf(q) >>) : q \in Queries} \cup
           {List(<< Map(<< P("queries", Good), S("metric", "b"), S("sort", "data"), P("queries", Good), S("tag", "c") >>),
                    MetricOf(Good) >>)}
             \cup {List(<< MetricOf(Good), Map(<< S("tag", "b"), S("collector", "c"), S("server", "primary"),
                                                   S("database", d), S("optional", o) >>) >>) :
                      d \in {"all", "x"}, o \in {"true", "x"}}

Document(m) == Map(<< S("version", "10"), P("metrics", m) >>)
Whole    == Document(List(<< MetricOf(Good) >>))
Documents ==
    {Document(m) : m \in Metrics} \cup Odd("version")
      \cup {Map(<< P("metrics", List(<< MetricOf(Good) >>)), S("extension", "e"), P("metrics", List(<< MetricOf(Good) >>)) >>),
            Map(<< S("version", "270"), S("extension", "e"), P("metrics", List(<< MetricOf(Good) >>)), S("version", "1.2") >>)}

Inputs ==
    {[documents |-> << d >>, cut |-> 100] : d \in Documents}
      \cup {[documents |-> ds, cut |-> 100] : ds \in {<< >>, << Whole, Whole >>}}
      \cup {[documents |-> << Whole >>, cut |-> n] : n \in 0..38}

Numbers == ("10" :> 10) @@ ("14" :> 14) @@ ("270" :> 270) @@ ("1.2" :> 1) @@ ("x" :> 0)

----------------------------------------------------------------------------
(* Keys: a common path longer than what a node stores; a key that branches *)
(* off within the rest; enough bytes in one place for every size of node.  *)

Keys ==
    {<< 0 >>} \cup {<< b, 0 >> : b \in 1..5}
      \cup {<< 1,1,1,1,1,0 >>, << 1,1,1,1,2,0 >>, << 1,1,2,1,0 >>, << 1,1,1,1,1,1,0 >>}

Values == [k \in Keys |-> IF Len(k) = 5 THEN {"a", "b"} ELSE {"a"}]

----------------------------------------------------------------------------

D == INSTANCE Definitions WITH Setups <- Chosen \cup InOrder, Internal <- Ga("yaml"),
       ExtensionFile <- [e \in {"e", "g", "h", "i"} |-> Extension(e)], Tested <- LookedUp,
       MaxMetrics <- 4, MaxNames <- 12, MaxExtensions <- 2

B == INSTANCE Definitions WITH Setups <- {[files |-> << >>, servers |-> << >>, later |-> {<< >>}]},
       Internal <- InternalYaml, ExtensionFile <- << >>, Tested <- {Pg(v) : v \in 9..19},
       MaxMetrics <- 256, MaxNames <- 1024, MaxExtensions <- 64

F == INSTANCE DefinitionParser WITH Inputs <- Inputs, Atoi <- Numbers

T == INSTANCE RadixTree WITH Key <- Keys, Value <- Values, MaxPrefix <- 2,
       Capacity <- << 3, 4, 5 >>, Shrink <- << 2, 3, 4 >>

definitions == << phase, chosen, metrics, extensions, names, todo >>
parser == << input, rest, level, key, state, open, outcome >>
tree == << root, size, map >>
responses == << exposition, alerting, bridging >>
vars == << part, definitions, parser, tree, responses >>

\* The parts a behaviour is not about stay as they begin.
Init ==
    /\ part \in {"files", "built-in", "parser", "tree", "exposition", "alerts", "client"}
    /\ IF part = "files" THEN D!Init ELSE B!Init
    /\ input \in IF part = "parser" THEN Inputs ELSE {[documents |-> << >>, cut |-> 0]}
    /\ rest = F!Uncut(input)
    /\ level = 1 /\ key = "none" /\ state = "INIT"
    /\ open = << F!Zeroed(1) >> /\ outcome = "parsing"
    /\ T!Init /\ ResponseInit

Next ==
    /\ UNCHANGED part
    /\ \/ part = "files" /\ D!Next /\ UNCHANGED << parser, tree, responses >>
       \/ part = "built-in" /\ B!Next /\ UNCHANGED << parser, tree, responses >>
       \/ part = "parser" /\ F!Next /\ UNCHANGED << definitions, tree, responses >>
       \/ part = "tree" /\ T!Next /\ UNCHANGED << definitions, parser, responses >>
       \/ ResponseNext /\ UNCHANGED << definitions, parser, tree >>

Spec == Init /\ [][Next]_vars

----------------------------------------------------------------------------

\* No two metrics publish the same name, from whatever files; a process that came up has
\* every metric it was given, and with the built-in definitions it comes up; names,
\* extensions and their metrics stay within their limits, and no definition lies beyond the
\* end of the list of metrics, whose count may (Definitions, InternalMetrics).
MetricsSound ==
    /\ IF part = "files" THEN D!TypeOK /\ D!WithinLimit /\ D!NamesUnique ELSE B!TypeOK /\ B!NamesUnique
    /\ D!NothingDropped /\ D!BuiltInLoads

\* A server gets the query that belongs to its version, for which the trees of alternatives
\* stay sorted and nearly balanced (Definitions, QueryAlts).
QueryByVersion ==
    /\ IF part = "files" THEN D!QueryByVersion ELSE B!QueryByVersion
    /\ D!TreesInOrder

\* A YAML file is refused just when it is not one, else wholly read, and JSON means the
\* same (DefinitionParser).
ParsedIsDocument == F!ParsedIsDocument /\ F!FormatsAgree

\* The radix tree holds what was inserted and not removed, each way to go through it visits
\* each entry once, a search by prefix finds the keys that begin with it, and its nodes have
\* their sizes, orders and prefixes (RadixTree).
TreeIsMap == T!SearchIsMap /\ T!IterationComplete /\ T!PrefixSearchIsFilter /\ T!TreeWellFormed
=============================================================================
