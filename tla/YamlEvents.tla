---------------------------- MODULE YamlEvents -----------------------------
(***************************************************************************)
(* What libyaml makes of a file: the documents, trees of scalars, maps and *)
(* lists, arrive as a sequence of events.                                  *)
(***************************************************************************)
EXTENDS Naturals, SequencesExt

Scalar(v)  == [kind |-> "scalar", value |-> v]
Map(pairs) == [kind |-> "map", pairs |-> pairs]        \* << key, node >>
List(ns)   == [kind |-> "list", items |-> ns]
Alias      == [kind |-> "alias"]

Event(t, v) == [type |-> t, value |-> v]

RECURSIVE Events(_)
Events(n) ==
    CASE n.kind = "scalar" -> << Event("scalar", n.value) >>
      [] n.kind = "alias"  -> << Event("alias", "") >>
      [] n.kind = "list"   -> << Event("seq-start", "") >>
                                \o FlattenSeq([i \in DOMAIN n.items |-> Events(n.items[i])])
                                \o << Event("seq-end", "") >>
      [] n.kind = "map"    -> << Event("map-start", "") >>
                                \o FlattenSeq([i \in DOMAIN n.pairs |->
                                     << Event("scalar", n.pairs[i][1]) >> \o Events(n.pairs[i][2])])
                                \o << Event("map-end", "") >>

Stream(docs) ==
    << Event("stream-start", "") >>
      \o FlattenSeq([i \in DOMAIN docs |->
           << Event("doc-start", "") >> \o Events(docs[i]) \o << Event("doc-end", "") >>])
      \o << Event("stream-end", "") >>
=============================================================================
