-------------------------------- MODULE Maps --------------------------------
(***************************************************************************)
(* Maps (ml_map.c): the tree and the list of a map under the methods that   *)
(* change it, and the methods that call a function for a missing key.  Such   *)
(* a call leaves the key in the map, with a state for its value, until the    *)
(* function returns; others may look the key up, set it or delete it          *)
(* meanwhile.                                                               *)
(***************************************************************************)
EXTENDS MapTree, FiniteSets

CONSTANTS
  Bounds,       \* bounds of one history: its keys, callers, operations and orders
  Callers,      \* callers of the methods that take a function, one call each
  Generations   \* bound on the nodes of one key that are in use at a time

ASSUME MapsAssumption ==
  /\ Null \notin Callers /\ Generations \in Nat \ {0}
  /\ Callers \intersect {"null", "value", "nil"} = {}
  /\ \A b \in Bounds :
       /\ b.keys \subseteq Int /\ b.callers \subseteq Callers
       /\ b.orders \subseteq {"insert", "lru", "mru", "ascending", "descending"}

VARIABLES
  map,     \* the ml_map_t, the nodes, and those that filter has yet to look at
  calls,   \* of every caller: where it is, its node, for whose call it waits, and the
           \* waiters of its state
  bound    \* the one of Bounds that is taken

mapVars == <<map, calls, bound>>

Nodes == bound.keys \X (1 .. Generations)

MapInit ==
  /\ bound \in Bounds
  /\ \E o \in bound.orders :
       map = [root |-> Null, head |-> Null, tail |-> Null, size |-> 0, order |-> o,
              n |-> [x \in Nodes |-> Blank], links |-> [x \in Nodes |-> Unlinked],
              value |-> [x \in Nodes |-> "null"], pending |-> <<>>]
  /\ calls = [c \in Callers |-> [at |-> "idle", node |-> Null, kind |-> "", for |-> Null,
                                    waiters |-> {}]]
------------------------------------------------------------------------------
Does(name) == name \in bound.operations /\ UNCHANGED bound

InMap(v, x) == v.n[x].depth > 0

Pending(v) == {v.pending[i] : i \in DOMAIN v.pending}

\* The nodes that functions have been called for.
Held == {calls[c].node : c \in {d \in Callers : calls[d].at = "calls"}}

\* A node that is new for its key.
Free(k) ==
  {x \in {k} \X (1 .. Generations) : ~ InMap(map, x) /\ x \notin Held \union Pending(map)}

New(k) == CHOOSE x \in Free(k) : \A y \in Free(k) : x[2] <= y[2]

\* ml_map_node, if there are nodes left.
HasNode(k) == Find(map, k) # Null \/ Free(k) # {}

Node(k) == Slot(map, k, IF Find(map, k) # Null THEN Find(map, k) ELSE New(k))

SetValue(v, k, value) == [v EXCEPT !.value[Find(v, k)] = value]

\* Nodes that nobody can read any more have no value.
Forget(v, held) ==
  [v EXCEPT !.value = [x \in DOMAIN @ |-> IF InMap(v, x) \/ x \in held \union Pending(v)
                                          THEN @[x] ELSE "null"]]

Removed(k) == Forget(Remove(map, k), Held)
------------------------------------------------------------------------------
(* The methods that only change the map. *)

\* insert, and the assignment to what [] returned.
MapInsert(k) ==
  /\ Does("insert") /\ HasNode(k) /\ map' = SetValue(Node(k), k, "value") /\ UNCHANGED calls

\* mutant: the two orders are exchanged
MapIndexExchanged(k) ==
  /\ Does("index") /\ Find(map, k) # Null
  /\ map' = CASE map.order = "lru" -> MoveHead(map, Find(map, k))
              [] map.order = "mru" -> MoveTail(map, Find(map, k))
              [] OTHER -> map
  /\ UNCHANGED calls

\* [] of a key that is there.
MapIndex(k) ==
  /\ Does("index") /\ Find(map, k) # Null
  /\ map' = CASE map.order = "lru" -> MoveTail(map, Find(map, k))
              [] map.order = "mru" -> MoveHead(map, Find(map, k))
              [] OTHER -> map
  /\ UNCHANGED calls

MapPush(k) ==
  /\ Does("push") /\ HasNode(k)
  /\ LET v == SetValue(Node(k), k, "value") IN map' = MoveHead(v, Find(v, k))
  /\ UNCHANGED calls

MapPut(k) ==
  /\ Does("put") /\ HasNode(k)
  /\ LET v == SetValue(Node(k), k, "value") IN map' = MoveTail(v, Find(v, k))
  /\ UNCHANGED calls

MapDelete(k) ==
  /\ Does("delete") /\ map' = Removed(k) /\ UNCHANGED calls

\* pop deletes the first key, pull the last one.
MapPop ==
  /\ Does("pop") /\ map.head # Null /\ map' = Removed(KeyOf(map.head)) /\ UNCHANGED calls

MapPull ==
  /\ Does("pull") /\ map.tail # Null /\ map' = Removed(KeyOf(map.tail)) /\ UNCHANGED calls

Emptied ==
  [map EXCEPT !.root = Null, !.head = Null, !.tail = Null, !.size = 0,
              !.n = [x \in DOMAIN @ |-> Blank], !.links = [x \in DOMAIN @ |-> Unlinked]]

MapEmpty == Does("empty") /\ map' = Forget(Emptied, Held) /\ UNCHANGED calls

MapOrder(o) ==
  /\ Does("order") /\ o \in bound.orders /\ map' = [map EXCEPT !.order = o] /\ UNCHANGED calls
------------------------------------------------------------------------------
(* filter and remove: the map is emptied, and the nodes are put back, or into   *)
(* another map, one by one as the function returns.                            *)

MapFilter ==
  /\ Does("filter") /\ map.head # Null /\ map.pending = <<>>
  /\ map' = Forget([Emptied EXCEPT !.pending = NodeList(map)], Held)
  /\ UNCHANGED calls

\* A key that has got a new node meanwhile keeps that one, with the old value.
PutBack(v, x) == LET k == KeyOf(x) IN SetValue(Slot(v, k, x), k, v.value[x])

\* After an error the nodes that are left are forgotten.
FilterReturns ==
  /\ map.pending # <<>>
  /\ LET v == [map EXCEPT !.pending = Tail(@)]
         next == {PutBack(v, map.pending[1]), v, [map EXCEPT !.pending = <<>>]}
     IN  \E u \in next : map' = Forget(u, Held)
  /\ UNCHANGED <<calls, bound>>
------------------------------------------------------------------------------
(* The methods that call a function for a missing key. *)

\* mutant: a function is called although one runs for the same node
CallsAgain(value) == value = "null" \/ value \in Callers

CallsFunction(value) == value = "null"

\* mutant: the waiter takes the place of those before it
JoinedAlone(c, d) == [calls EXCEPT ![c].at = "waits", ![c].for = d, ![d].waiters = {c}]

\* c waits for the state of d.
Joined(c, d) ==
  [calls EXCEPT ![c].at = "waits", ![c].for = d, ![d].waiters = @ \union {c}]

Answered(c) == [calls EXCEPT ![c].at = "done"]

\* The function is called for node x, with the call of c as its caller.
Called(c, x, kind) == [calls EXCEPT ![c].at = "calls", ![c].node = x, ![c].kind = kind]

\* [] with a function: the state of the call is the node's value.
IndexCall(c, k) ==
  /\ Does("call") /\ c \in bound.callers /\ calls[c].at = "idle" /\ HasNode(k)
  /\ LET v == Node(k)
         value == v.value[Find(v, k)]
     IN  \/ /\ CallsFunction(value) /\ map' = SetValue(v, k, c)
            /\ calls' = Called(c, Find(v, k), "index")
         \/ /\ ~ CallsFunction(value) /\ value \in Callers /\ map' = v
            /\ calls' = Joined(c, value)
         \/ /\ ~ CallsFunction(value) /\ value \notin Callers /\ map' = v
            /\ calls' = Answered(c)

\* missing and exists: the value is nil meanwhile.
MissingCall(c, k) ==
  /\ Does("missing") /\ c \in bound.callers /\ calls[c].at = "idle" /\ HasNode(k)
  /\ LET v == Node(k)
     IN  IF v.value[Find(v, k)] = "null"
         THEN map' = SetValue(v, k, "nil") /\ calls' = Called(c, Find(v, k), "missing")
         ELSE map' = v /\ calls' = Answered(c)

\* What the value of the node becomes when the function returns.  The state stays
\* there if the function fails.
Result(c, fails) ==
  LET old == map.value[calls[c].node]
  IN  IF fails \/ (calls[c].kind = "index" /\ old # c) THEN old ELSE "value"

\* The callers that are continued.
Continued(c) == calls[c].waiters \union {c}

\* The function that was called for c returns: ml_node_state_run, or the same of
\* missing and exists.
CallReturns(c) ==
  /\ calls[c].at = "calls" /\ UNCHANGED bound
  /\ \E fails \in BOOLEAN :
       map' = Forget([map EXCEPT !.value[calls[c].node] = Result(c, fails)],
                   {calls[d].node : d \in {e \in Callers \ {c} : calls[e].at = "calls"}})
  /\ calls' = [d \in Callers |-> IF d \in Continued(c) THEN [calls[d] EXCEPT !.at = "done"]
                                 ELSE calls[d]]

MapNext ==
  \/ MapPop \/ MapPull \/ MapEmpty \/ MapFilter \/ FilterReturns
  \/ \E k \in bound.keys :
       \/ MapInsert(k) \/ MapIndex(k) \/ MapPush(k) \/ MapPut(k) \/ MapDelete(k)
       \/ \E c \in Callers : IndexCall(c, k) \/ MissingCall(c, k)
  \/ \E o \in bound.orders : MapOrder(o)
  \/ \E c \in Callers : CallReturns(c)

MapSpec == MapInit /\ [][MapNext]_mapVars

\* The functions return in the end.
FairMapSpec == MapSpec /\ \A c \in Callers : WF_mapVars(CallReturns(c))
------------------------------------------------------------------------------
(* Properties *)

Listed == NodeList(map)

MapTypeOK ==
  /\ {map.root, map.head, map.tail} \subseteq Nodes \union {Null}
  /\ \A x \in Nodes :
       /\ {map.n[x].left, map.n[x].right, map.links[x].prev, map.links[x].next}
            \subseteq Nodes \union {Null}
       /\ map.value[x] \in {"null", "value", "nil"} \union Callers
  /\ \A c \in Callers : calls[c].at \in {"idle", "calls", "waits", "done"}

\* The tree and the list have the same nodes: every key of the list is found in the
\* tree, no other key is, Size counts them, and the list is linked both ways.
TreeFitsList ==
  /\ map.size = Len(Listed)
  /\ \A k \in bound.keys :
       IF \E i \in DOMAIN Listed : KeyOf(Listed[i]) = k
       THEN \E i \in DOMAIN Listed : Listed[i] = Find(map, k) /\ KeyOf(Listed[i]) = k
       ELSE Find(map, k) = Null
  /\ map.tail = IF Listed = <<>> THEN Null ELSE Listed[Len(Listed)]
  /\ \A i \in DOMAIN Listed :
       map.links[Listed[i]].prev = IF i = 1 THEN Null ELSE Listed[i - 1]

\* Below the root every node knows its depth, whatever is inserted and deleted: from
\* the depths ml_map_rebalance decides which children it turns.  (Insertions leave the
\* root as it is, with a depth that may be wrong.)
DepthsFit == \A x \in Nodes : InMap(map, x) /\ x # map.root => UpdateDepth(map.n, x) = map.n

\* Below the root no two sides differ by more than one.
Balanced == \A x \in Nodes : InMap(map, x) /\ x # map.root => Balance(map.n, x) \in -1 .. 1

HasTwoChildren(x) == map.n[x].left # Null /\ map.n[x].right # Null

\* Depths stay right, and a balanced tree stays balanced, through every method, unless
\* a node with two children is deleted: the nodes above the one that takes its place
\* get their depths, but are not rebalanced (ml_map_remove_depth_helper).
BalanceKept ==
  [][/\ DepthsFit'
     /\ Balanced /\ ~ Balanced' =>
          \E x \in Nodes : InMap(map, x) /\ ~ InMap(map', x) /\ HasTwoChildren(x)]_mapVars

Orders == UNION {b.orders : b \in Bounds}
Keys == UNION {b.keys : b \in Bounds}

ListedKeys == [i \in DOMAIN Listed |-> KeyOf(Listed[i])]

Abstract == INSTANCE OrderedMap WITH entries <- ListedKeys, order <- map.order

\* A step of a method is a step of that method of the ordered map.  filter empties the
\* map, and every return of its function inserts a key or changes nothing; the
\* methods with a function insert the key, and the return of the function changes
\* nothing.
MethodsImplement ==
  /\ \A k \in bound.keys :
       /\ MapInsert(k) => Abstract!Insert(k)
       /\ MapIndex(k) => Abstract!Access(k)
       /\ MapPush(k) => Abstract!Push(k)
       /\ MapPut(k) => Abstract!Put(k)
       /\ MapDelete(k) => Abstract!Delete(k)
       /\ \A c \in Callers : IndexCall(c, k) \/ MissingCall(c, k) => Abstract!Insert(k)
  /\ MapPop => Abstract!Pop
  /\ MapPull => Abstract!Pull
  /\ MapEmpty \/ MapFilter => Abstract!Empty
  /\ \A o \in bound.orders : MapOrder(o) => Abstract!SetOrder(o)
  /\ FilterReturns => Abstract!Insert(KeyOf(Head(map.pending))) \/ UNCHANGED Abstract!vars
  /\ \A c \in Callers : CallReturns(c) => UNCHANGED Abstract!vars

\* The keys that the map lists are those of an ordered map, and every method does to
\* their order what that method of the ordered map does, in each of the five orders.
ImplementsMap == Abstract!Spec /\ [][MethodsImplement]_mapVars

\* Two functions are never called for the same node: those that look a key up while
\* its function runs wait for that one.
SharedCall ==
  \A c, d \in Callers :
    calls[c].at = "calls" /\ calls[d].at = "calls" /\ c # d
      => calls[c].node # calls[d].node

\* A caller that waits for the function of another one is continued, whatever
\* happens to the key meanwhile.  (One that comes after the function has failed
\* finds the state of that call, and waits for ever.)
JoinersAnswered ==
  \A c, d \in Callers :
    calls[c].for = d /\ calls[d].at = "calls" ~> calls[c].at = "done"
==============================================================================
