---------------------------- MODULE Definitions ----------------------------
(***************************************************************************)
(* How metric definitions get into the configuration: the built-in ones or *)
(* the files of a directory, in YAML or JSON, when the process starts; the *)
(* files of the extensions the servers have; and again when the            *)
(* configuration is reloaded. A file is what the parser makes of it: a     *)
(* sequence of metrics, each with queries for several versions. Lengths of *)
(* texts, and memory that runs out, are left out.                          *)
(***************************************************************************)
EXTENDS MetricFiles, FiniteSets, SequencesExt

CONSTANTS
    Setups,           \* files a process is started with, in one format, those metrics_path
                      \* may name when it is reloaded, and for each server it is connected
                      \* to the sequence of its extensions
    Internal,         \* the built-in definitions
    ExtensionFile,    \* ExtensionFile[e]: the definitions of an extension
    Tested,           \* versions to look queries up for
    MaxMetrics,       \* NUMBER_OF_METRICS
    MaxNames,         \* NUMBER_OF_METRIC_NAMES
    MaxExtensions     \* NUMBER_OF_EXTENSIONS

VARIABLES
    phase,            \* starting, extensions, running, reloaded, exited or crashed
    chosen,           \* what the process was started with; and the servers it has
    metrics,          \* the entries of config->prometheus that are in use
    extensions,       \* config->extensions: << name, metrics >>
    names,            \* config->metric_names
    todo              \* the extensions of the servers that are not loaded yet

vars == << phase, chosen, metrics, extensions, names, todo >>

----------------------------------------------------------------------------
(* Entries.                                                                *)

\* An entry of the configuration: the definition it was made from, and its queries.
Entry(tag, file, m, root) == [tag |-> tag, default |-> file.default, of |-> m, root |-> root]

NoEntry == [tag |-> "", root |-> Nil]

----------------------------------------------------------------------------
(* Names.                                                                  *)

Joined(a, b) == IF b = "" THEN a ELSE a \o "_" \o b

Base(file, m) == IF file.extension = "" THEN m.tag ELSE Joined(file.extension, m.tag)

\* The names a metric publishes, one for each column that is not a label.
Published(file, m) ==
    LET cols == FlattenSeq([i \in DOMAIN m.queries |-> m.queries[i].columns])
    IN  [i \in DOMAIN cols |-> Joined(Base(file, m), cols[i])]

\* pgexporter_is_valid_metric_name, for a metric that has a tag.
Named(file, m) == m.tag # "" /\ (m.tag = "not valid" => Published(file, m) = << >>)

\* Fault: the queries of a metric for several versions may not share a name.
ValidateQueries(known, file) ==
    \A i \in DOMAIN file.metrics :
        LET m == file.metrics[i] IN Named(file, m) /\ IsInjective(Published(file, m))

\* Fault: names are compared with those of the same file only.
ValidateFile(known, file) ==
    \A i \in DOMAIN file.metrics :
        LET m == file.metrics[i]
        IN  /\ Named(file, m)
            /\ \A j \in 1..(i - 1) :
                 ToSet(Published(file, m)) \cap ToSet(Published(file, file.metrics[j])) = {}

\* pgexporter_validate_yaml_metrics: each metric has a tag and no name that an earlier
\* file or an earlier metric of this file has.
Validate(known, file) ==
    \A i \in DOMAIN file.metrics :
        LET m == file.metrics[i]
        IN  /\ Named(file, m)
            /\ ToSet(Published(file, m)) \cap ToSet(known) = {}
            /\ \A j \in 1..(i - 1) :
                 ToSet(Published(file, m)) \cap ToSet(Published(file, file.metrics[j])) = {}

\* It compares the type of every column of a metric, one that is not given included: the
\* process ends, unless an earlier metric has been refused by then.
TypeMissing(known, file) ==
    \E i \in DOMAIN file.metrics :
        LET m == file.metrics[i]
        IN  /\ m.tag # ""
            /\ \E j \in DOMAIN m.queries : m.queries[j].lacks = "type"
            /\ Validate(known, [file EXCEPT !.metrics = SubSeq(@, 1, i - 1)])

\* pgexporter_validate_json_metrics: the same. What lacks a type or a query was refused when
\* the file was parsed.
ValidateJson(known, file) ==
    /\ \A i \in DOMAIN file.metrics : \A j \in DOMAIN file.metrics[i].queries :
         file.metrics[i].queries[j].lacks = "nothing"
    /\ Validate(known, file)

\* What a metric adds to config->metric_names: JSON adds each name once.
YamlNames(file, m)      == Published(file, m)
JsonNames(file, m)      == SetToSeq(ToSet(Published(file, m)))
ExtensionNames(file, m) == Published(file, m)

\* Fault: the list is not checked for room.
RecordedUnbounded(known, new) == known \o new

\* Beyond the limit a name is dropped with a warning.
Recorded(known, new) ==
    SubSeq(known \o new, 1, IF Len(known \o new) < MaxNames THEN Len(known \o new) ELSE MaxNames)

----------------------------------------------------------------------------
(* From a file to entries: semantics_yaml, semantics_json and              *)
(* semantics_extension_yaml.                                               *)

\* Whether a metric can be taken: a collector, which an extension need not give, a known
\* sort and server, queries with known types.
YamlTaken(m)      == m.collector # "" /\ m.proper /\ \A i \in DOMAIN m.queries : m.queries[i].known
JsonTaken(m)      == m.collector # "" /\ m.proper /\ \A i \in DOMAIN m.queries : m.queries[i].known
ExtensionTaken(m) == m.proper /\ \A i \in DOMAIN m.queries : m.queries[i].known

\* Of the queries that can be taken, and the one after them, one has no text: its length is
\* taken all the same, and the process ends.
QueryMissing(m) ==
    \E i \in DOMAIN m.queries : m.queries[i].lacks = "query" /\ \A j \in 1..(i - 1) : m.queries[j].known

\* The queries in the order of the file; one without a version gets that of the file.
YamlRoot(file, m) ==
    FoldLeft(LAMBDA root, q : InsertAlt(root, Alt(IF q.version = Pg(0) THEN Pg(file.default) ELSE q.version, q)),
             Nil, m.queries)
JsonRoot(file, m) ==
    FoldLeft(LAMBDA root, q : InsertAlt(root, Alt(IF q.version = Pg(0) THEN Pg(file.default) ELSE q.version, q)),
             Nil, m.queries)
ExtensionRoot(m) ==
    FoldLeft(LAMBDA root, q : InsertExtensionAlt(root, Alt(q.version, q)), Nil, m.queries)

Kind(file) == IF file.extension # "" THEN "extension" ELSE file.format

Taken(file, m) ==
    CASE Kind(file) = "yaml" -> YamlTaken(m)
      [] Kind(file) = "json" -> JsonTaken(m)
      [] Kind(file) = "extension" -> ExtensionTaken(m)

Root(file, m) ==
    CASE Kind(file) = "yaml" -> YamlRoot(file, m)
      [] Kind(file) = "json" -> JsonRoot(file, m)
      [] Kind(file) = "extension" -> ExtensionRoot(m)

NewNames(file, m) ==
    CASE Kind(file) = "yaml" -> YamlNames(file, m)
      [] Kind(file) = "json" -> JsonNames(file, m)
      [] Kind(file) = "extension" -> ExtensionNames(file, m)

\* How many metrics of a file are taken before one that cannot be, or the limit.
Fitting(file, used) ==
    CHOOSE n \in 0..Len(file.metrics) :
        /\ n = 0 \/ n + used <= MaxMetrics
        /\ \A i \in 1..n : Taken(file, file.metrics[i])
        /\ n < Len(file.metrics) => n + used >= MaxMetrics \/ ~ Taken(file, file.metrics[n + 1])

Entries(file, n) ==
    [i \in 1..n |-> Entry(Base(file, file.metrics[i]), file, file.metrics[i], Root(file, file.metrics[i]))]

NamesAfter(known, file, n) ==
    FoldLeft(LAMBDA k, m : Recorded(k, NewNames(file, m)), known, SubSeq(file.metrics, 1, n))

\* search_or_add_extension: 0 if there is no room for another one.
Place(exts, e) ==
    LET at == {i \in DOMAIN exts : exts[i].name = e}
    IN  IF at # {} THEN CHOOSE i \in at : TRUE ELSE IF Len(exts) < MaxExtensions THEN Len(exts) + 1 ELSE 0

WithExtension(exts, file, n) ==
    LET i    == Place(exts, file.extension)
        more == IF i > Len(exts) THEN Append(exts, [name |-> file.extension, metrics |-> << >>]) ELSE exts
    IN  [more EXCEPT ![i].metrics = @ \o Entries(file, n)]

\* The configuration that is filled, "own" for one of a reload: its names are those of
\* extensions only, as the others go to the configuration in use.
Known(c) == IF c.reload THEN c.own ELSE c.names

\* The metrics that a file's count after: an extension's are counted in its own list.
Used(c, file) ==
    IF Kind(file) # "extension" THEN Len(c.metrics)
    ELSE IF Place(c.extensions, file.extension) \in DOMAIN c.extensions
      THEN Len(c.extensions[Place(c.extensions, file.extension)].metrics) ELSE 0

\* What is filled in, up to a metric that cannot be taken. The metrics of an extension
\* are counted among the others too, as entries without content.
Filled(c, file, ok) ==
    LET ext == Kind(file) = "extension"
        n   == Fitting(file, Used(c, file))
    IN  [c EXCEPT !.ok = ok,
                  !.own = IF ext /\ c.reload THEN NamesAfter(@, file, n) ELSE @,
                  !.names = IF ext /\ c.reload THEN @ ELSE NamesAfter(@, file, n),
                  !.extensions = IF ext THEN WithExtension(@, file, n) ELSE @,
                  !.metrics = @ \o IF ext THEN [i \in DOMAIN file.metrics |-> NoEntry] ELSE Entries(file, n)]

Refused(c, file) ==
    \/ ~ IF file.format = "json" THEN ValidateJson(Known(c), file) ELSE Validate(Known(c), file)
    \/ Kind(file) = "extension" /\ Place(c.extensions, file.extension) = 0

\* The process ends while it reads a file: where it looks at a type that is not there, or,
\* of the metrics it goes through, at a query that is not there. With no place to put
\* metrics, those of an extension apart, it ends at the first metric that has a collector.
Crashes(c, file) ==
    /\ file.format = "yaml"
    /\ \/ TypeMissing(Known(c), file)
       \/ /\ ~ Refused(c, file)
          /\ LET n == Fitting(file, Used(c, file))
             IN  \E i \in 1..Min({n + 1, Len(file.metrics), MaxMetrics - Used(c, file)}) :
                    LET m == file.metrics[i]
                    IN  /\ Kind(file) = "extension" \/ m.collector # ""
                        /\ (m.proper /\ QueryMissing(m)) \/ (c.nowhere /\ Kind(file) # "extension")

\* Fault: the rest of a file is passed over after a metric that cannot be taken.
ReadOnward(c, file) ==
    IF ~ c.ok THEN c ELSE IF Refused(c, file) THEN [c EXCEPT !.ok = FALSE] ELSE Filled(c, file, TRUE)

\* pgexporter_read_yaml_from_file_pointer, pgexporter_read_json.
Read(c, file) ==
    IF ~ c.ok THEN c
    ELSE IF Crashes(c, file) THEN [c EXCEPT !.ok = FALSE, !.crashed = TRUE]
    ELSE IF Refused(c, file) THEN [c EXCEPT !.ok = FALSE]
    ELSE Filled(c, file, Fitting(file, Used(c, file)) = Len(file.metrics))

\* pgexporter_read_metrics_configuration, pgexporter_read_json_metrics_configuration: the
\* files of a directory, up to the first that fails.
ReadAll(c, files)     == FoldLeft(Read, c, files)
ReadAllJson(c, files) == FoldLeft(Read, c, files)

\* pgexporter_read_internal_yaml_metrics.
ReadInternal(c) == Read(c, Internal)

\* pgexporter_load_extension_yamls: what is to be loaded.
Extensions(servers) == FlattenSeq(servers)

Empty == [ok |-> TRUE, crashed |-> FALSE, reload |-> FALSE, nowhere |-> FALSE,
          own |-> << >>, names |-> << >>, metrics |-> << >>, extensions |-> << >>]

\* What a read that ended leaves of the process.
After(c, at, failed) == IF c.crashed THEN "crashed" ELSE IF c.ok THEN at ELSE failed

----------------------------------------------------------------------------

Init ==
    /\ phase = "starting"
    /\ chosen \in Setups
    /\ metrics = << >> /\ extensions = << >> /\ names = << >>
    /\ todo = << >>

\* main: the built-in definitions are for a process that is given no others.
Start ==
    /\ phase = "starting"
    /\ LET c == CASE chosen.files = << >> -> ReadInternal(Empty)
                  [] chosen.files # << >> /\ chosen.files[1].format = "yaml" -> ReadAll(Empty, chosen.files)
                  [] chosen.files # << >> /\ chosen.files[1].format = "json" -> ReadAllJson(Empty, chosen.files)
       IN  /\ phase' = After(c, "extensions", "exited")
           /\ metrics' = c.metrics /\ names' = c.names /\ extensions' = c.extensions
    /\ todo' = Extensions(chosen.servers)
    /\ UNCHANGED chosen

\* pgexporter_load_single_extension_yaml, for every extension that is enabled of every
\* server that is connected, whether another server has it too; one that fails is passed over. An
\* extension that the file names must be the one it is looked up for; a file that names
\* none is read as one of metrics, for which there is no place here.
LoadExtension ==
    /\ phase = "extensions"
    /\ todo # << >>
    /\ LET e    == Head(todo)
           file == ExtensionFile[e]
           c    == Read([Empty EXCEPT !.nowhere = TRUE, !.names = names, !.extensions = extensions], file)
       IN  IF file.extension \in {e, ""}
             THEN names' = c.names /\ extensions' = c.extensions /\ phase' = After(c, phase, phase)
             ELSE UNCHANGED << phase, names, extensions >>
    /\ todo' = Tail(todo)
    /\ UNCHANGED << chosen, metrics >>

Running ==
    /\ phase = "extensions" /\ todo = << >>
    /\ phase' = "running"
    /\ UNCHANGED << chosen, metrics, extensions, names, todo >>

\* pgexporter_reload_configuration: the built-in definitions and those metrics_path names,
\* into a new configuration. Its list of names, nearly empty, replaces the one in use; its
\* extensions are not transferred. One that fails changes the names only. JSON files
\* are not looked for.
Reload(files) ==
    /\ phase \in {"running", "reloaded"}
    /\ \A i \in DOMAIN files : files[i].format = "yaml"
    /\ LET c == ReadAll(ReadInternal([Empty EXCEPT !.reload = TRUE, !.names = names]), files)
       IN  /\ metrics' = IF c.ok THEN [i \in DOMAIN c.metrics |-> [c.metrics[i] EXCEPT !.root = CopyAlts(@)]]
                           ELSE metrics
           /\ names' = IF c.ok THEN c.own ELSE c.names
           /\ phase' = After(c, "reloaded", "reloaded")
    /\ UNCHANGED << chosen, extensions, todo >>

Next ==
    \/ Start \/ LoadExtension \/ Running
    \/ \E files \in chosen.later : Reload(files)

Spec == Init /\ [][Next]_vars

----------------------------------------------------------------------------

TypeOK ==
    /\ phase \in {"starting", "extensions", "running", "reloaded", "exited", "crashed"}
    /\ Len(names) <= MaxNames
    /\ Len(extensions) <= MaxExtensions
    /\ \A i \in DOMAIN extensions : Len(extensions[i].metrics) <= MaxMetrics

\* No definition lies beyond the end of config->prometheus. Their number may: the metrics of
\* an extension's file that metrics_path names are counted, and nothing bounds the count.
WithinLimit == \A i \in DOMAIN metrics : metrics[i] # NoEntry => i <= MaxMetrics

InUse ==
    SelectSeq(metrics, LAMBDA e : e # NoEntry)
      \o FlattenSeq([i \in DOMAIN extensions |-> extensions[i].metrics])

Names(e) == {Joined(e.tag, c) : c \in UNION {ToSet(e.of.queries[i].columns) : i \in DOMAIN e.of.queries}}

\* No two metrics publish the same name, whatever files they come from and however many
\* servers have the same extension. (As long as the list of names is not full, and until
\* a reload: then the names of other files are not known.)
NamesUnique ==
    phase \notin {"reloaded", "crashed"} /\ Len(names) < MaxNames =>
        \A i, j \in DOMAIN InUse : i # j => Names(InUse[i]) \cap Names(InUse[j]) = {}

\* The query for a version, from the definition: the latest that is not newer, the first
\* of several with the same version.
Expected(e, v) ==
    LET qs      == e.of.queries
        At(i)   == IF qs[i].version = Pg(0) /\ e.default # 0 THEN Pg(e.default) ELSE qs[i].version
        fitting == {i \in DOMAIN qs : ~ Older(v, At(i))}
        best    == {i \in fitting : \A j \in fitting : Older(At(j), At(i)) \/ (SameVersion(At(i), At(j)) /\ i <= j)}
    IN  {qs[i] : i \in best}

\* Whatever the order of the queries in its file, a metric runs the one that belongs to
\* the server's version, or none if all are newer.
QueryByVersion ==
    \A i \in DOMAIN InUse : \A v \in Tested :
        LET a == GetAlt(InUse[i].root, v)
        IN  (IF a = Nil THEN {} ELSE {a.query}) = Expected(InUse[i], v)

\* The trees stay in order and nearly balanced, although a leaf that was never moved has
\* the height of no tree.
TreesInOrder ==
    \A i \in DOMAIN InUse :
        LET vs == Versions(InUse[i].root)
        IN  NearlyBalanced(InUse[i].root) /\ \A j \in 1..(Len(vs) - 1) : Older(vs[j], vs[j + 1])

\* A process that came up has every metric of every file it was given.
NothingDropped ==
    phase \in {"extensions", "running"} /\ chosen.files # << >> =>
        Len(metrics) = Len(FlattenSeq([i \in DOMAIN chosen.files |-> chosen.files[i].metrics]))

\* The built-in definitions can be loaded.
BuiltInLoads ==
    phase = "exited" \/ (phase = "crashed" /\ metrics = << >>) => chosen.files # << >>
=============================================================================
