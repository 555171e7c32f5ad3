----------------------------- MODULE RadixTree -----------------------------
(***************************************************************************)
(* The adaptive radix tree that metrics, JSON objects and the Prometheus   *)
(* client keep their entries in. Inner nodes come in four sizes, store a   *)
(* bounded part of the bytes their keys share, are split when a key leaves *)
(* that path and merged when one child is left. A key is a sequence of     *)
(* bytes that ends with 0.                                                 *)
(***************************************************************************)
EXTENDS Naturals, Integers, Sequences, FiniteSets, SequencesExt

CONSTANTS
    Key,              \* the keys that are inserted and removed
    Value,            \* Value[k]: the values a key may get
    MaxPrefix,        \* MAX_PREFIX_LEN
    Capacity,         \* children of a node of size 1, 2 and 3; the fourth holds all
    Shrink            \* the number of children at which size 2, 3 and 4 become smaller

VARIABLES
    root, size,       \* the tree
    map               \* what it should hold

vars == << root, size, map >>

----------------------------------------------------------------------------
(* Nodes.                                                                  *)

Null == [kind |-> "null"]

Leaf(k, v) == [kind |-> "leaf", key |-> k, value |-> v]

\* children[i] belongs to the byte keys[i]; the keys ascend.
Node(t, len, prefix, ks, cs) ==
    [kind |-> "node", type |-> t, prefix_len |-> len, prefix |-> prefix, keys |-> ks, children |-> cs]

IsLeaf(n) == n.kind = "leaf"

Stored(bytes) == SubSeq(bytes, 1, IF Len(bytes) < MaxPrefix THEN Len(bytes) ELSE MaxPrefix)

Least(a, b) == IF a < b THEN a ELSE b

\* find_index: the last position, from 0, whose byte is not above ch; -1 if there is none.
FindIndex(ch, ks) ==
    LET RECURSIVE Search(_, _)
        Search(left, right) ==
            IF left + 1 >= right
              THEN IF ks[right + 1] <= ch THEN right ELSE IF ks[left + 1] <= ch THEN left ELSE -1
              ELSE LET mid == (left + right) \div 2
                   IN  IF ks[mid + 1] = ch THEN mid
                       ELSE IF ks[mid + 1] < ch THEN Search(mid, right) ELSE Search(left, mid)
    IN  IF ks = << >> THEN -1 ELSE Search(0, Len(ks) - 1)

\* node_get_child: the position of a child, 0 if there is none.
ChildAt(n, ch) ==
    LET i == FindIndex(ch, n.keys)
    IN  IF i = -1 \/ n.keys[i + 1] # ch THEN 0 ELSE i + 1

\* node4_add_child .. node256_add_child: a full node is copied into a larger one.
AddChild(n, ch, child) ==
    LET at == FindIndex(ch, n.keys) + 2
        t  == IF n.type < 4 /\ Len(n.keys) = Capacity[n.type] THEN n.type + 1 ELSE n.type
    IN  [n EXCEPT !.type = t, !.keys = InsertAt(@, at, ch), !.children = InsertAt(@, at, child)]

\* Fault: the byte between the two prefixes is dropped.
MergeWithoutByte(n) ==
    LET child == n.children[1]
    IN  IF IsLeaf(child) THEN child
        ELSE [child EXCEPT !.prefix_len = n.prefix_len + @,
                           !.prefix = Stored(n.prefix \o child.prefix)]

\* The end of node4_remove_child: a node with one child becomes that child, with the
\* bytes of both prefixes and the one in between.
Merge(n) ==
    LET child == n.children[1]
    IN  IF IsLeaf(child) THEN child
        ELSE [child EXCEPT !.prefix_len = n.prefix_len + 1 + @,
                           !.prefix = Stored((IF n.prefix_len < MaxPrefix
                                                THEN Append(n.prefix, n.keys[1]) \o child.prefix
                                                ELSE n.prefix))]

\* node4_remove_child .. node256_remove_child.
RemoveChild(n, ch) ==
    LET i == ChildAt(n, ch)
        m == [n EXCEPT !.keys = RemoveAt(@, i), !.children = RemoveAt(@, i)]
    IN  CASE n.type = 1 -> IF Len(m.keys) = 1 THEN Merge(m) ELSE m
          [] n.type > 1 -> IF Len(m.keys) <= Shrink[n.type - 1] THEN [m EXCEPT !.type = @ - 1] ELSE m

----------------------------------------------------------------------------
(* Prefixes.                                                               *)

\* How far two sequences of bytes agree, up to a limit.
Common(a, b, limit) ==
    LET most == Least(limit, Least(Len(a), Len(b)))
    IN  CHOOSE n \in 0..most : /\ SubSeq(a, 1, n) = SubSeq(b, 1, n)
                               /\ n < most => a[n + 1] # b[n + 1]

Rest(k, depth) == SubSeq(k, depth + 1, Len(k))

RECURSIVE Minimum(_)
Minimum(n) == IF IsLeaf(n) THEN n ELSE Minimum(n.children[1])

CheckPrefixPartial(n, k, depth) == Common(n.prefix, Rest(k, depth), n.prefix_len)

\* check_prefix: past the stored bytes the smallest key below stands for all of them.
CheckPrefix(n, k, depth) ==
    LET len == CheckPrefixPartial(n, k, depth)
    IN  IF len < MaxPrefix THEN len
        ELSE Common(Rest(Minimum(n).key, depth), Rest(k, depth), Len(k))

----------------------------------------------------------------------------
(* The operations.                                                         *)

\* A node with two leaves in place of one, and a node split where a key leaves its path.
\* The prefix of the lower part comes from the node or, if it was not all stored, from
\* its smallest key.
Expand(leaf, k, v, depth) ==
    LET same == Common(Rest(leaf.key, depth), Rest(k, depth), Len(k))
        top  == Node(1, same, Stored(SubSeq(Rest(k, depth), 1, same)), << >>, << >>)
    IN  AddChild(AddChild(top, k[depth + same + 1], Leaf(k, v)), leaf.key[depth + same + 1], leaf)

\* Fault: the prefix of the lower part is always cut from the stored bytes.
SplitFromStored(n, k, v, depth, diff) ==
    LET top    == Node(1, diff, Stored(SubSeq(n.prefix, 1, Least(diff, Len(n.prefix)))), << >>, << >>)
        min    == Minimum(n).key
        bottom == [n EXCEPT !.prefix_len = @ - (diff + 1), !.prefix = SubSeq(@, diff + 2, Len(@))]
    IN  AddChild(AddChild(top, k[depth + diff + 1], Leaf(k, v)), min[depth + diff + 1], bottom)

Split(n, k, v, depth, diff) ==
    LET top    == Node(1, diff, Stored(SubSeq(n.prefix, 1, Least(diff, Len(n.prefix)))), << >>, << >>)
        rest   == n.prefix_len - (diff + 1)
        min    == Minimum(n).key
        byte   == IF n.prefix_len <= MaxPrefix THEN n.prefix[diff + 1] ELSE min[depth + diff + 1]
        prefix == IF n.prefix_len <= MaxPrefix THEN SubSeq(n.prefix, diff + 2, Len(n.prefix))
                    ELSE Stored(SubSeq(min, depth + diff + 2, depth + diff + 1 + rest))
        bottom == [n EXCEPT !.prefix_len = rest, !.prefix = prefix]
    IN  AddChild(AddChild(top, k[depth + diff + 1], Leaf(k, v)), byte, bottom)

\* art_node_insert.
RECURSIVE NodeInsert(_, _, _, _)
NodeInsert(n, k, v, depth) ==
    IF n = Null THEN Leaf(k, v)
    ELSE IF IsLeaf(n) THEN IF n.key = k THEN Leaf(k, v) ELSE Expand(n, k, v, depth)
    ELSE LET diff == CheckPrefix(n, k, depth)
             d    == depth + n.prefix_len
             i    == ChildAt(n, k[d + 1])
         IN  IF diff < n.prefix_len THEN Split(n, k, v, depth, diff)
             ELSE IF i > 0 THEN [n EXCEPT !.children[i] = NodeInsert(@, k, v, d + 1)]
             ELSE AddChild(n, k[d + 1], Leaf(k, v))

\* art_search.
RECURSIVE Find(_, _, _)
Find(n, k, depth) ==
    IF n = Null THEN Null
    ELSE IF IsLeaf(n) THEN IF n.key = k THEN n ELSE Null
    ELSE LET d == depth + n.prefix_len
         IN  IF CheckPrefixPartial(n, k, depth) # Len(n.prefix) \/ d >= Len(k) \/ ChildAt(n, k[d + 1]) = 0
               THEN Null ELSE Find(n.children[ChildAt(n, k[d + 1])], k, d + 1)

\* art_node_delete.
RECURSIVE NodeDelete(_, _, _)
NodeDelete(n, k, depth) ==
    IF IsLeaf(n) THEN IF n.key = k THEN Null ELSE n
    ELSE LET d == depth + n.prefix_len
             i == ChildAt(n, k[d + 1])
         IN  IF CheckPrefixPartial(n, k, depth) # Len(n.prefix) \/ d >= Len(k) \/ i = 0 THEN n
             ELSE IF ~ IsLeaf(n.children[i]) THEN [n EXCEPT !.children[i] = NodeDelete(@, k, d + 1)]
             ELSE IF n.children[i].key = k THEN RemoveChild(n, k[d + 1]) ELSE n

\* art_node_iterate: the leaves in the order of the tree.
RECURSIVE Iterate(_)
Iterate(n) == IF n = Null THEN << >> ELSE IF IsLeaf(n) THEN << n >>
              ELSE FlattenSeq([i \in DOMAIN n.children |-> Iterate(n.children[i])])

\* Fault: only the first children of a node are queued, as many as the smallest size has.
RECURSIVE DrainFirst(_)
DrainFirst(queue) ==
    IF queue = << >> THEN << >>
    ELSE IF IsLeaf(Head(queue)) THEN << Head(queue) >> \o DrainFirst(Tail(queue))
    ELSE DrainFirst(Tail(queue)
                      \o SubSeq(Head(queue).children, 1, Least(Capacity[1], Len(Head(queue).children))))

\* pgexporter_art_iterator_next: level by level, with a queue of nodes; the root is put
\* in when nothing was handed out yet.
RECURSIVE Drain(_)
Drain(queue) == IF queue = << >> THEN << >>
                ELSE IF IsLeaf(Head(queue)) THEN << Head(queue) >> \o Drain(Tail(queue))
                ELSE Drain(Tail(queue) \o Head(queue).children)

Iterator ==
    LET all == Drain(<< root >>) IN IF size = 0 THEN << >> ELSE SubSeq(all, 1, Least(size, Len(all)))

\* Fault: what is not stored of the path to a node is not compared.
RECURSIVE BelowUnchecked(_, _, _)
BelowUnchecked(n, p, depth) ==
    IF n = Null THEN << >>
    ELSE IF IsLeaf(n) THEN IF IsPrefix(p, n.key) THEN << n >> ELSE << >>
    ELSE LET same == CheckPrefixPartial(n, p, depth)
             d    == depth + n.prefix_len
         IN  IF same < Len(n.prefix) /\ depth + same < Len(p) THEN << >>
             ELSE IF d >= Len(p) THEN Iterate(n)
             ELSE LET i == ChildAt(n, p[d + 1])
                  IN  IF i = 0 THEN << >> ELSE BelowUnchecked(n.children[i], p, d + 1)

\* pgexporter_art_prefix_search, for at most max matches; the prefix has no 0.
RECURSIVE Below(_, _, _)
Below(n, p, depth) ==
    IF n = Null THEN << >>
    ELSE IF IsLeaf(n) THEN IF IsPrefix(p, n.key) THEN << n >> ELSE << >>
    ELSE LET same == CheckPrefixPartial(n, p, depth)
             d    == depth + n.prefix_len
         IN  IF same < Len(n.prefix) /\ depth + same < Len(p) THEN << >>
             ELSE IF d >= Len(p) THEN IF IsPrefix(p, Minimum(n).key) THEN Iterate(n) ELSE << >>
             ELSE LET i == ChildAt(n, p[d + 1])
                  IN  IF i = 0 THEN << >> ELSE Below(n.children[i], p, d + 1)

PrefixSearch(p, max) ==
    LET all == IF p = << >> THEN Iterate(root) ELSE Below(root, p, 0)
    IN  SubSeq(all, 1, Least(max, Len(all)))

----------------------------------------------------------------------------

Absent == "absent"

Init == root = Null /\ size = 0 /\ map = [k \in Key |-> Absent]

Insert(k, v) ==
    /\ root' = NodeInsert(root, k, v, 0)
    /\ size' = IF Find(root, k, 0) = Null THEN size + 1 ELSE size
    /\ map' = [map EXCEPT ![k] = v]

\* The size goes down when a leaf was taken out.
Delete(k) ==
    /\ root # Null
    /\ root' = NodeDelete(root, k, 0)
    /\ size' = IF root' = root THEN size ELSE size - 1
    /\ map' = [map EXCEPT ![k] = Absent]

Clear ==
    /\ root # Null
    /\ root' = Null /\ size' = 0
    /\ map' = [k \in Key |-> Absent]

Next ==
    \/ \E k \in Key : Delete(k) \/ \E v \in Value[k] : Insert(k, v)
    \/ Clear

Spec == Init /\ [][Next]_vars

----------------------------------------------------------------------------

Present == {k \in Key : map[k] # Absent}

\* The order of strcmp.
Before(a, b) == LET n == Common(a, b, Len(a)) IN n < Len(b) /\ (n = Len(a) \/ a[n + 1] < b[n + 1])

Inner(n) == n # Null /\ ~ IsLeaf(n)

\* Every node has the size its children call for, at least two of them in the order of
\* their bytes, and stores the beginning of what all the keys below it share.
RECURSIVE WellFormed(_, _)
WellFormed(n, path) ==
    Inner(n) =>
        LET leaves == Iterate(n)
            shared == SubSeq(leaves[1].key, Len(path) + 1, Len(path) + n.prefix_len)
        IN  /\ Len(n.keys) >= 2 /\ Len(n.keys) = Len(n.children)
            /\ n.type < 4 => Len(n.keys) <= Capacity[n.type]
            /\ n.type > 1 => Len(n.keys) > Shrink[n.type - 1]
            /\ n.prefix = Stored(shared)
            /\ \A i \in DOMAIN leaves : IsPrefix(path \o shared, leaves[i].key)
            /\ \A i \in DOMAIN n.keys :
                 /\ i > 1 => n.keys[i - 1] < n.keys[i]
                 /\ WellFormed(n.children[i], path \o shared \o << n.keys[i] >>)

TreeWellFormed == WellFormed(root, << >>)

\* The tree is the map it stands for: each key that was inserted and not removed is found
\* with its last value, no other one is, and the size counts them.
SearchIsMap ==
    /\ \A k \in Key : LET n == Find(root, k, 0)
                      IN  (IF n = Null THEN Absent ELSE n.value) = map[k]
    /\ size = Cardinality(Present)

\* Both ways to go through the tree visit each entry once, the recursive one in the
\* order of the keys.
IterationComplete ==
    LET a == Iterate(root) b == Iterator
    IN  /\ {a[i].key : i \in DOMAIN a} = Present /\ Len(a) = size
        /\ {b[i].key : i \in DOMAIN b} = Present /\ Len(b) = size
        /\ \A i \in 1..(Len(a) - 1) : Before(a[i].key, a[i + 1].key)

\* A search by prefix finds the keys that begin with it, in order, as many as asked for.
PrefixSearchIsFilter ==
    \A k \in Key : \A n \in 0..(Len(k) - 1) : \A max \in {1, Cardinality(Key)} :
        LET p     == SubSeq(k, 1, n)
            found == PrefixSearch(p, max)
            all   == SelectSeq(Iterate(root), LAMBDA l : IsPrefix(p, l.key))
        IN  found = SubSeq(all, 1, Least(max, Len(all)))

=============================================================================
