------------------------------ MODULE MapTree ------------------------------
(***************************************************************************)
(* The nodes of a map (ml_map.c): a search tree that is rebalanced below    *)
(* its root, and a list of the same nodes in the order of iteration.  The     *)
(* functions of the code are operators on a map w; those that get a slot      *)
(* return the node that is in it afterwards.                                *)
(***************************************************************************)
EXTENDS Integers, Sequences

CONSTANT Null   \* NULL

ASSUME MapTreeAssumption == Null \notin Int \X Nat

\* A node is named by its key and a number, as a removed one may still be in use.
KeyOf(x) == x[1]

Blank == [left |-> Null, right |-> Null, depth |-> 0]
Unlinked == [prev |-> Null, next |-> Null]
------------------------------------------------------------------------------
(* The tree; n maps the nodes to their fields. *)

Depth(n, x) == IF x = Null THEN 0 ELSE n[x].depth

Balance(n, x) == Depth(n, n[x].left) - Depth(n, n[x].right)

UpdateDepth(n, x) ==
  LET l == Depth(n, n[x].left)
      r == Depth(n, n[x].right)
  IN  [n EXCEPT ![x].depth = 1 + (IF l < r THEN r ELSE l)]

\* mutant: the inner child stays where it is
RotateLeftLoses(n, x) ==
  LET ch == n[x].right
      m == [n EXCEPT ![x].right = Null, ![ch].left = x]
  IN  [n |-> UpdateDepth(UpdateDepth(m, x), ch), top |-> ch]

RotateLeft(n, x) ==
  LET ch == n[x].right
      m == [n EXCEPT ![x].right = n[ch].left, ![ch].left = x]
  IN  [n |-> UpdateDepth(UpdateDepth(m, x), ch), top |-> ch]

RotateRight(n, x) ==
  LET ch == n[x].left
      m == [n EXCEPT ![x].left = n[ch].right, ![ch].right = x]
  IN  [n |-> UpdateDepth(UpdateDepth(m, x), ch), top |-> ch]

\* mutant: single rotations only
InnerNever(n, child, side) == FALSE

\* The child of x is deeper on its inner side.
Inner(n, child, side) == IF side = "left" THEN Balance(n, child) < 0 ELSE Balance(n, child) > 0

Rebalance(n, x) ==
  LET l == n[x].left
      r == n[x].right
  IN  CASE Balance(n, x) = 2 ->
             IF Inner(n, l, "left")
             THEN LET t == RotateLeft(n, l) IN RotateRight([t.n EXCEPT ![x].left = t.top], x)
             ELSE RotateRight(n, x)
        [] Balance(n, x) = -2 ->
             IF Inner(n, r, "right")
             THEN LET t == RotateRight(n, r) IN RotateLeft([t.n EXCEPT ![x].right = t.top], x)
             ELSE RotateLeft(n, x)
        [] OTHER -> [n |-> n, top |-> x]

\* The child of x on the side of k, and another one in its place.
Side(n, x, k) == IF k < KeyOf(x) THEN n[x].left ELSE n[x].right

SetSide(n, x, k, child) ==
  IF k < KeyOf(x) THEN [n EXCEPT ![x].left = child] ELSE [n EXCEPT ![x].right = child]

\* ml_map_find_node
Find(w, k) ==
  LET found[x \in DOMAIN w.n] ==
        IF KeyOf(x) = k THEN x
        ELSE IF Side(w.n, x, k) = Null THEN Null ELSE found[Side(w.n, x, k)]
  IN  IF w.root = Null THEN Null ELSE found[w.root]
------------------------------------------------------------------------------
(* The list. *)

\* The list gets node next to parent, before or after it.
LinkBefore(w, parent, node) ==
  LET p == w.links[parent].prev
      m == [w.links EXCEPT ![node] = [prev |-> p, next |-> parent], ![parent].prev = node]
  IN  IF p = Null THEN [w EXCEPT !.links = m, !.head = node]
                  ELSE [w EXCEPT !.links = [m EXCEPT ![p].next = node]]

LinkAfter(w, parent, node) ==
  LET p == w.links[parent].next
      m == [w.links EXCEPT ![node] = [prev |-> parent, next |-> p], ![parent].next = node]
  IN  IF p = Null THEN [w EXCEPT !.links = m, !.tail = node]
                  ELSE [w EXCEPT !.links = [m EXCEPT ![p].prev = node]]

\* ml_map_node_order: parent is the node above the new one, on the right of which
\* it is or is not.
NodeOrder(w, parent, node, greater) ==
  CASE w.order \in {"insert", "lru"} -> LinkAfter(w, w.tail, node)
    [] w.order = "mru" -> LinkBefore(w, w.head, node)
    [] w.order = "ascending" ->
         IF greater THEN LinkAfter(w, parent, node) ELSE LinkBefore(w, parent, node)
    [] w.order = "descending" ->
         IF greater THEN LinkBefore(w, parent, node) ELSE LinkAfter(w, parent, node)

Unlink(w, x) ==
  LET p == w.links[x].prev
      f == w.links[x].next
      v == IF p = Null THEN [w EXCEPT !.head = f] ELSE [w EXCEPT !.links[p].next = f]
  IN  IF f = Null THEN [v EXCEPT !.tail = p] ELSE [v EXCEPT !.links[f].prev = p]

\* ml_map_move_node_head and _tail: nothing happens to a node that is there.
MoveHead(w, x) ==
  IF w.links[x].prev = Null THEN w
  ELSE LET v == Unlink(w, x) IN LinkBefore(v, v.head, x)

MoveTail(w, x) ==
  IF w.links[x].next = Null THEN w
  ELSE LET v == Unlink(w, x) IN LinkAfter(v, v.tail, x)
------------------------------------------------------------------------------
\* A new node below x: its place in the list.
Placed(w, x, k, new) ==
  NodeOrder([w EXCEPT !.n[new] = [Blank EXCEPT !.depth = 1], !.size = @ + 1],
            x, new, k > KeyOf(x))

\* The slot of x in which child is is rebalanced.  (ml_map_rebalance goes before
\* ml_map_update_depth.)
Rebalanced(w, x, k, child) ==
  LET r == Rebalance(w.n, child)
  IN  [w EXCEPT !.n = SetSide(UpdateDepth(r.n, r.top), x, k, r.top)]

\* ml_map_node_child
InsertBelow(w, parent, k, new) ==
  LET below[x \in DOMAIN w.n] ==
        IF KeyOf(x) = k THEN w
        ELSE IF Side(w.n, x, k) = Null THEN Rebalanced(Placed(w, x, k, new), x, k, new)
        ELSE Rebalanced(below[Side(w.n, x, k)], x, k, Side(w.n, x, k))
  IN  below[parent]

\* ml_map_node: new is the node that is used if the key has none.
Slot(w, k, new) ==
  IF w.root # Null THEN InsertBelow(w, w.root, k, new)
  ELSE [w EXCEPT !.root = new, !.head = new, !.tail = new, !.size = @ + 1,
                 !.n[new] = [Blank EXCEPT !.depth = 1]]

\* ml_map_remove_depth_helper
RemoveDepth(n, top) ==
  LET spine[x \in DOMAIN n] ==
        IF n[x].right = Null THEN UpdateDepth(n, x) ELSE UpdateDepth(spine[n[x].right], x)
  IN  IF top = Null THEN n ELSE spine[top]

\* The tree below top without its last node, and that node.
WithoutLast(n, top) ==
  LET cut[x \in DOMAIN n] ==
        IF n[x].right = Null THEN [n |-> n, top |-> n[x].left, last |-> x]
        ELSE LET r == cut[n[x].right]
             IN  [n |-> [r.n EXCEPT ![x].right = r.top], top |-> x, last |-> r.last]
  IN  cut[top]

\* Node2, the last one on the left, takes the place of x.
Replaced(n, x) ==
  LET c == WithoutLast(n, n[x].left)
      m == RemoveDepth(c.n, c.top)
  IN  [n |-> [m EXCEPT ![c.last].left = c.top, ![c.last].right = n[x].right], top |-> c.last]

\* The tree below x, without x.
WithoutTop(n, x) ==
  IF n[x].left # Null /\ n[x].right # Null THEN Replaced(n, x)
  ELSE [n |-> n, top |-> IF n[x].left # Null THEN n[x].left ELSE n[x].right]

\* What every level of a removal ends with.
Settle(n, top) ==
  IF top = Null THEN [n |-> n, top |-> Null] ELSE Rebalance(UpdateDepth(n, top), top)

\* ml_map_remove_internal, on the tree.  The way to the key is rebalanced even if it is
\* not there.  A removed node is left blank: what it still points to, only
\* iterators read.
RemoveBelow(n, parent, k) ==
  LET below[x \in DOMAIN n] ==
        LET side == Side(n, x, k)
            s == WithoutTop(n, x)
            r == IF side = Null THEN [n |-> n, top |-> Null] ELSE below[side]
        IN  IF KeyOf(x) = k THEN Settle([s.n EXCEPT ![x] = Blank], s.top)
            ELSE Settle(SetSide(r.n, x, k, r.top), x)
  IN  below[parent]

\* The same on the list.
RemoveLink(w, x) ==
  IF x = Null THEN w ELSE [Unlink(w, x) EXCEPT !.size = @ - 1, !.links[x] = Unlinked]

Remove(w, k) ==
  IF w.root = Null THEN w
  ELSE LET r == RemoveBelow(w.n, w.root, k)
       IN  [RemoveLink(w, Find(w, k)) EXCEPT !.n = r.n, !.root = r.top]
------------------------------------------------------------------------------
\* The nodes of the list, as they are iterated.
NodeList(w) ==
  LET from[x \in DOMAIN w.links] ==
        <<x>> \o (IF w.links[x].next = Null THEN <<>> ELSE from[w.links[x].next])
  IN  IF w.head = Null THEN <<>> ELSE from[w.head]
==============================================================================
