----------------------------- MODULE QueryAlts -----------------------------
(***************************************************************************)
(* The alternatives of a query: one for each PostgreSQL version, or        *)
(* extension version, from which it can be used. They are kept in an AVL   *)
(* tree; a server gets the latest alternative that is not newer than it. A *)
(* version has three parts, -1 where one is not given; a PostgreSQL        *)
(* version has the first only.                                             *)
(***************************************************************************)
EXTENDS Integers, Sequences

Nil == [version |-> << >>]

Pg(v) == << v, -1, -1 >>

\* pgexporter_compare_extension_versions: what is not given counts as 0.
Given(n) == IF n = -1 THEN 0 ELSE n

Older(v, w) ==
    \/ v[1] < w[1]
    \/ v[1] = w[1] /\ Given(v[2]) < Given(w[2])
    \/ v[1] = w[1] /\ Given(v[2]) = Given(w[2]) /\ Given(v[3]) < Given(w[3])

SameVersion(v, w) == ~ Older(v, w) /\ ~ Older(w, v)

\* A new node has no height yet: the shared memory it is in is zeroed.
Alt(version, query) == [version |-> version, query |-> query, height |-> 0, left |-> Nil, right |-> Nil]

Height(a)  == IF a = Nil THEN 0 ELSE a.height
Balance(a) == IF a = Nil THEN 0 ELSE Height(a.left) - Height(a.right)

Measured(a) ==
    [a EXCEPT !.height = 1 + (IF Height(a.left) > Height(a.right) THEN Height(a.left) ELSE Height(a.right))]

\* node_right_rotate, node_left_rotate: nothing to do without the child that moves up.
RotateRight(a) ==
    IF a = Nil \/ a.left = Nil THEN a
    ELSE LET down == Measured([a EXCEPT !.left = a.left.right])
         IN  Measured([a.left EXCEPT !.right = down])

RotateLeft(a) ==
    IF a = Nil \/ a.right = Nil THEN a
    ELSE LET down == Measured([a EXCEPT !.right = a.right.left])
         IN  Measured([a.right EXCEPT !.left = down])

\* Fault: one rotation always, also where the inner side is the higher one.
RebalanceOnce(a) ==
    IF Balance(a) > 1 THEN RotateRight(a) ELSE IF Balance(a) < -1 THEN RotateLeft(a) ELSE a

\* The rotations at the end of an insertion.
Rebalance(a) ==
    IF Balance(a) > 1
      THEN RotateRight(IF Balance(a.left) = -1 THEN [a EXCEPT !.left = RotateLeft(@)] ELSE a)
    ELSE IF Balance(a) < -1
      THEN LET b == IF Balance(a.right) = 1 THEN [a EXCEPT !.right = RotateRight(@)] ELSE a
           IN  IF Balance(b) # 0 THEN RotateLeft(b) ELSE b
    ELSE a

\* pgexporter_insert_pg_node_avl: a version that is there already is not replaced.
RECURSIVE InsertAlt(_, _)
InsertAlt(root, new) ==
    IF root = Nil THEN new
    ELSE IF SameVersion(root.version, new.version) THEN root
    ELSE IF Older(new.version, root.version)
      THEN Rebalance(Measured([root EXCEPT !.left = InsertAlt(@, new)]))
    ELSE Rebalance(Measured([root EXCEPT !.right = InsertAlt(@, new)]))

\* pgexporter_insert_extension_node_avl: the same, over versions of three parts.
InsertExtensionAlt(root, new) == InsertAlt(root, new)

\* Fault: only an alternative of just this version ends the search on the way down.
RECURSIVE DescendExact(_, _, _)
DescendExact(a, v, last) ==
    IF a = Nil THEN last
    ELSE DescendExact(IF Older(v, a.version) THEN a.left ELSE a.right, v,
                      IF SameVersion(v, a.version) THEN a ELSE last)

\* pgexporter_get_pg_query_alt: from the root down, remembering the best so far.
RECURSIVE Descend(_, _, _)
Descend(a, v, last) ==
    IF a = Nil THEN last
    ELSE LET best == IF ~ Older(v, a.version) /\ (last = Nil \/ Older(last.version, a.version))
                       THEN a ELSE last
         IN  Descend(IF Older(v, a.version) THEN a.left ELSE a.right, v, best)

GetAlt(root, v) == Descend(root, v, Nil)

\* pgexporter_get_extension_query_alt.
GetExtensionAlt(root, v) == GetAlt(root, v)

\* pgexporter_copy_pg_query_alts, pgexporter_copy_extension_query_alts: node by node.
RECURSIVE CopyAlts(_)
CopyAlts(a) == IF a = Nil THEN Nil ELSE [a EXCEPT !.left = CopyAlts(@), !.right = CopyAlts(@)]

----------------------------------------------------------------------------
(* What the trees are for.                                                 *)

RECURSIVE Versions(_)
Versions(a) == IF a = Nil THEN << >> ELSE Versions(a.left) \o << a.version >> \o Versions(a.right)

\* The levels of a tree, counted; a leaf never rotated has height 0, as no tree has.
RECURSIVE Levels(_)
Levels(a) == IF a = Nil THEN 0
             ELSE 1 + (IF Levels(a.left) > Levels(a.right) THEN Levels(a.left) ELSE Levels(a.right))

RECURSIVE NearlyBalanced(_)
NearlyBalanced(a) ==
    a # Nil => /\ NearlyBalanced(a.left) /\ NearlyBalanced(a.right)
               /\ Levels(a.left) - Levels(a.right) \in -2..2
=============================================================================
