---------------------------- MODULE MetricFiles ----------------------------
(***************************************************************************)
(* A file of metric definitions: what the parsers make of it.              *)
(***************************************************************************)
EXTENDS QueryAlts

\* A query: its version (Pg(0) if none is given), the names of the columns that are not
\* labels ("" for the metric itself) and whether every column has a known type, and the
\* version of an extension can be read. It lacks nothing: no column is without a type, and
\* there is a text to run.
Query(v, cols, known) == [version |-> v, columns |-> cols, known |-> known, lacks |-> "nothing"]

Lacking(v, cols, what) == [Query(v, cols, TRUE) EXCEPT !.lacks = what]

\* A metric: "" stands for a tag or a collector that is missing.
Metric(tag, collector, proper, queries) ==
    [tag |-> tag, collector |-> collector, proper |-> proper, queries |-> queries]

\* A file: extension is "" if it names none.
File(format, extension, default, ms) ==
    [format |-> format, extension |-> extension, default |-> default, metrics |-> ms]
=============================================================================
