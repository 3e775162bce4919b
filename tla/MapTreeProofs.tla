--------------------------- MODULE MapTreeProofs ----------------------------
(***************************************************************************)
(* Lemmas about the tree and the list of a map (module MapTree), for every  *)
(* set of nodes: what the rotations, the insertions, the deletions and the  *)
(* moves do to a search tree below a node, to a list that is linked both    *)
(* ways, and to a map that has both; then what they do to the depths and    *)
(* the balance of the nodes below the root.                                *)
(***************************************************************************)
EXTENDS MapTree, FiniteSetTheorems, SequenceTheorems, WellFoundedInduction, TLAPS

(* Trees.                                                                    *)

Names(N) == N \subseteq Int \X Nat

Fields(N) == [left : N \union {Null}, right : N \union {Null}, depth : Nat]
Trees(N) == [N -> Fields(N)]

\* What sub says is below a node, and itself.
Under(sub, x) == IF x = Null THEN {} ELSE sub[x]

Shape(n, S, top, sub) ==
  /\ sub \in [S -> SUBSET S]
  /\ IF top = Null THEN S = {} ELSE top \in S /\ sub[top] = S
  /\ \A x \in S :
       /\ n[x].left \in S \union {Null} /\ n[x].right \in S \union {Null} /\ n[x].depth > 0
       /\ sub[x] = {x} \union Under(sub, n[x].left) \union Under(sub, n[x].right)
       /\ \A y \in Under(sub, n[x].left) : KeyOf(y) < KeyOf(x)
       /\ \A y \in Under(sub, n[x].right) : KeyOf(x) < KeyOf(y)
       /\ \A y \in sub[x] : sub[y] \subseteq sub[x]

\* The nodes of S are a search tree below top.
IsTree(n, S, top) == IsFiniteSet(S) /\ \E sub : Shape(n, S, top, sub)

\* top with the trees on its sides.
Parts(n, S, top, L, R) ==
  /\ top # Null /\ S = {top} \union L \union R /\ n[top].depth > 0
  /\ IsTree(n, L, n[top].left) /\ IsTree(n, R, n[top].right)
  /\ \A y \in L : KeyOf(y) < KeyOf(top)
  /\ \A y \in R : KeyOf(top) < KeyOf(y)
  /\ top \notin L /\ top \notin R /\ L \intersect R = {}

LEMMA NodesAre ==
  ASSUME NEW N, Names(N)
  PROVE  /\ Null \notin N
         /\ \A x \in N : KeyOf(x) \in Int
  BY MapTreeAssumption DEF Names, KeyOf

LEMMA TreeFields ==
  ASSUME NEW N, NEW n \in Trees(N), NEW x \in N
  PROVE  /\ n[x] \in Fields(N) /\ n[x].left \in N \union {Null}
         /\ n[x].right \in N \union {Null} /\ n[x].depth \in Nat /\ DOMAIN n = N
  BY DEF Trees, Fields

LEMMA EmptyTree ==
  ASSUME NEW n
  PROVE  IsTree(n, {}, Null) /\ \A S : IsTree(n, S, Null) => S = {}
  <1>1. Shape(n, {}, Null, [x \in {} |-> {}])
    BY DEF Shape
  <1> QED
    BY <1>1, FS_EmptySet DEF IsTree, Shape

LEMMA TreeTop ==
  ASSUME NEW n, NEW S, NEW top, IsTree(n, S, top), top # Null
  PROVE  top \in S
  BY DEF IsTree, Shape

\* The nodes below one are a tree.
LEMMA Subtree ==
  ASSUME NEW n, NEW S, NEW top, NEW sub, IsFiniteSet(S), Shape(n, S, top, sub), Null \notin S,
         NEW x \in S \union {Null}
  PROVE  IsTree(n, Under(sub, x), x)
  <1>1. CASE x = Null
    BY <1>1, EmptyTree DEF Under
  <1>2. CASE x # Null
    <2> DEFINE X == sub[x]
               f == [y \in X |-> sub[y]]
    <2>1. X \subseteq S /\ x \in X /\ \A y \in X : sub[y] \subseteq X
      BY <1>2 DEF Shape
    <2>2. f \in [X -> SUBSET X] /\ f[x] = X /\ \A y \in X : f[y] = sub[y]
      BY <2>1
    <2>3. ASSUME NEW y \in X
          PROVE  /\ n[y].left \in X \union {Null} /\ n[y].right \in X \union {Null}
                 /\ Under(f, n[y].left) = Under(sub, n[y].left)
                 /\ Under(f, n[y].right) = Under(sub, n[y].right)
      <3>1. y \in S /\ sub[y] \subseteq X /\ n[y].left \in S \union {Null}
              /\ n[y].right \in S \union {Null}
        BY <2>1 DEF Shape
      <3>2. \A z \in {n[y].left, n[y].right} : z # Null => z \in sub[z] /\ sub[z] \subseteq sub[y]
        BY <3>1 DEF Shape, Under
      <3> QED
        BY <3>1, <3>2 DEF Under
    <2>4. Shape(n, X, x, f)
      <3> HIDE DEF X, f
      <3> QED
        BY <1>2, <2>1, <2>2, <2>3 DEF Shape
    <2>5. IsFiniteSet(X)
      BY <2>1, FS_Subset
    <2> HIDE DEF f
    <2> QED
      BY <1>2, <2>4, <2>5 DEF IsTree, Under
  <1> QED
    BY <1>1, <1>2

LEMMA PartsApart ==
  ASSUME NEW N, Names(N), NEW top \in N, NEW L \in SUBSET N, NEW R \in SUBSET N,
         \A y \in L : KeyOf(y) < KeyOf(top), \A y \in R : KeyOf(top) < KeyOf(y)
  PROVE  top \notin L /\ top \notin R /\ L \intersect R = {}
  BY NodesAre

LEMMA Split ==
  ASSUME NEW N, Names(N), NEW n, NEW S \in SUBSET N, NEW top, IsTree(n, S, top), top # Null
  PROVE  \E L \in SUBSET S, R \in SUBSET S : Parts(n, S, top, L, R)
  <1>1. IsFiniteSet(S)
    BY DEF IsTree
  <1>2. PICK sub : Shape(n, S, top, sub)
    BY DEF IsTree
  <1> DEFINE L == Under(sub, n[top].left)
             R == Under(sub, n[top].right)
  <1>3. top \in S /\ n[top].left \in S \union {Null} /\ n[top].right \in S \union {Null}
    BY <1>2 DEF Shape
  <1>4. IsTree(n, L, n[top].left) /\ IsTree(n, R, n[top].right)
    <2>1. Null \notin S
      BY NodesAre
    <2> QED
      BY <1>1, <1>2, <1>3, <2>1, Subtree
  <1>5. S = {top} \union L \union R /\ n[top].depth > 0
    BY <1>2, <1>3 DEF Shape
  <1>6. (\A y \in L : KeyOf(y) < KeyOf(top)) /\ (\A y \in R : KeyOf(top) < KeyOf(y))
    BY <1>2, <1>3 DEF Shape
  <1>7. L \in SUBSET S /\ R \in SUBSET S /\ Null \notin S
    BY <1>5, NodesAre
  <1> HIDE DEF L, R
  <1>8. top \notin L /\ top \notin R /\ L \intersect R = {}
    BY <1>3, <1>6, <1>7, PartsApart
  <1> QED
    BY <1>4, <1>5, <1>6, <1>7, <1>8 DEF Parts

LEMMA Join ==
  ASSUME NEW N, Names(N), NEW n, NEW S \in SUBSET N, NEW top, NEW L, NEW R,
         Parts(n, S, top, L, R)
  PROVE  IsTree(n, S, top)
  <1>1. /\ top \in S /\ L \in SUBSET S /\ R \in SUBSET S /\ Null \notin S
        /\ top \notin L /\ top \notin R /\ L \intersect R = {}
    BY NodesAre DEF Parts
  <1>2. PICK f : Shape(n, L, n[top].left, f)
    BY DEF Parts, IsTree
  <1>3. PICK g : Shape(n, R, n[top].right, g)
    BY DEF Parts, IsTree
  <1> DEFINE sub == [x \in S |-> IF x = top THEN S ELSE IF x \in L THEN f[x] ELSE g[x]]
  <1>4. /\ f \in [L -> SUBSET L] /\ g \in [R -> SUBSET R]
        /\ S = {top} \union L \union R
    BY <1>2, <1>3 DEF Shape, Parts
  <1>5. /\ sub \in [S -> SUBSET S] /\ sub[top] = S
        /\ \A x \in L : sub[x] = f[x]
        /\ \A x \in R : sub[x] = g[x]
    BY <1>1, <1>4
  <1> HIDE DEF sub
  <1>6. /\ \A x \in L \union {Null} : Under(sub, x) = Under(f, x)
        /\ \A x \in R \union {Null} : Under(sub, x) = Under(g, x)
    BY <1>1, <1>5 DEF Under
  <1>7. ASSUME NEW x \in S
        PROVE  /\ n[x].left \in S \union {Null} /\ n[x].right \in S \union {Null}
               /\ n[x].depth > 0
               /\ sub[x] = {x} \union Under(sub, n[x].left) \union Under(sub, n[x].right)
               /\ \A y \in Under(sub, n[x].left) : KeyOf(y) < KeyOf(x)
               /\ \A y \in Under(sub, n[x].right) : KeyOf(x) < KeyOf(y)
               /\ \A y \in sub[x] : sub[y] \subseteq sub[x]
    <2>1. CASE x = top
      <3>1. /\ n[top].left \in L \union {Null} /\ n[top].right \in R \union {Null}
            /\ Under(f, n[top].left) = L /\ Under(g, n[top].right) = R
        BY <1>2, <1>3 DEF Shape, Under
      <3>2. Under(sub, n[top].left) = L /\ Under(sub, n[top].right) = R
        BY <3>1, <1>6
      <3> QED
        BY <2>1, <1>1, <1>4, <1>5, <3>1, <3>2 DEF Parts
    <2>2. CASE x \in L
      <3>1. /\ n[x].left \in L \union {Null} /\ n[x].right \in L \union {Null}
            /\ n[x].depth > 0
            /\ f[x] = {x} \union Under(f, n[x].left) \union Under(f, n[x].right)
            /\ \A y \in Under(f, n[x].left) : KeyOf(y) < KeyOf(x)
            /\ \A y \in Under(f, n[x].right) : KeyOf(x) < KeyOf(y)
            /\ \A y \in f[x] : f[y] \subseteq f[x]
        BY <2>2, <1>2 DEF Shape
      <3>2. Under(sub, n[x].left) = Under(f, n[x].left) /\ Under(sub, n[x].right) = Under(f, n[x].right)
        BY <3>1, <1>6
      <3>3. f[x] \subseteq L
        BY <2>2, <1>4
      <3> QED
        BY <2>2, <1>1, <1>5, <3>1, <3>2, <3>3
    <2>3. CASE x \in R
      <3>1. /\ n[x].left \in R \union {Null} /\ n[x].right \in R \union {Null}
            /\ n[x].depth > 0
            /\ g[x] = {x} \union Under(g, n[x].left) \union Under(g, n[x].right)
            /\ \A y \in Under(g, n[x].left) : KeyOf(y) < KeyOf(x)
            /\ \A y \in Under(g, n[x].right) : KeyOf(x) < KeyOf(y)
            /\ \A y \in g[x] : g[y] \subseteq g[x]
        BY <2>3, <1>3 DEF Shape
      <3>2. Under(sub, n[x].left) = Under(g, n[x].left) /\ Under(sub, n[x].right) = Under(g, n[x].right)
        BY <3>1, <1>6
      <3>3. g[x] \subseteq R
        BY <2>3, <1>4
      <3> QED
        BY <2>3, <1>1, <1>5, <3>1, <3>2, <3>3
    <2> QED
      BY <1>4, <2>1, <2>2, <2>3
  <1>8. Shape(n, S, top, sub)
    BY <1>1, <1>5, <1>7 DEF Shape
  <1>9. IsFiniteSet(S)
    <2>1. IsFiniteSet(L) /\ IsFiniteSet(R)
      BY DEF Parts, IsTree
    <2>2. IsFiniteSet({top}) /\ IsFiniteSet({top} \union L) /\ IsFiniteSet({top} \union L \union R)
      BY <2>1, FS_Singleton, FS_Union
    <2> QED
      BY <2>2, <1>4
  <1> QED
    BY <1>8, <1>9 DEF IsTree

\* Nodes elsewhere do not matter.
LEMMA KeepTree ==
  ASSUME NEW n, NEW m, NEW S, NEW top, IsTree(n, S, top), \A x \in S : m[x] = n[x]
  PROVE  IsTree(m, S, top)
  <1>1. PICK sub : Shape(n, S, top, sub)
    BY DEF IsTree
  <1>2. Shape(m, S, top, sub)
    BY <1>1 DEF Shape
  <1> QED
    BY <1>2 DEF IsTree

------------------------------------------------------------------------------
(* Recursive functions, and induction over finite sets.                     *)

\* A non-empty set of finite sets has a member without a smaller one in it.
LEMMA SmallestSet ==
  ASSUME NEW N, NEW D, D \subseteq FiniteSubsetsOf(N), D # {}
  PROVE  \E S \in D : \A U \in D : U \subseteq S => U = S
  <1> DEFINE Ord == StrictSubsetOrdering(N)
             F == FiniteSubsetsOf(N)
  <1>1. IsWellFoundedOn(Ord, F)
    BY FS_StrictSubsetOrderingWellFounded
  <1>2. PICK S \in D : \A U \in D : ~ (<<U, S>> \in Ord)
    <2> HIDE DEF Ord, F
    <2> QED
      BY <1>1, WFMin DEF F
  <1>3. ASSUME NEW U \in D, U \subseteq S
        PROVE  U = S
    <2>1. U \subseteq N /\ S \subseteq N
      BY DEF FiniteSubsetsOf
    <2>2. U # S => <<U, S>> \in Ord
      BY <1>3, <2>1 DEF StrictSubsetOrdering
    <2> QED
      BY <1>2, <2>2
  <1> QED
    BY <1>3

\* A non-empty set of numbers has a least one.
LEMMA LeastNumber ==
  ASSUME NEW D \in SUBSET Nat, D # {}
  PROVE  \E m \in D : \A k \in D : m <= k
  <1> DEFINE B == {0 .. k : k \in D}
  <1>1. B \subseteq FiniteSubsetsOf(Nat)
    <2>1. \A k \in D : IsFiniteSet(0 .. k) /\ (0 .. k) \subseteq Nat
      BY FS_Interval
    <2> QED
      BY <2>1 DEF FiniteSubsetsOf
  <1>2. PICK S \in B : \A U \in B : U \subseteq S => U = S
    <2>1. B # {}
      OBVIOUS
    <2> HIDE DEF B
    <2> QED
      BY <1>1, <2>1, SmallestSet
  <1>3. PICK m \in D : S = 0 .. m
    BY <1>2
  <1>4. ASSUME NEW k \in D, k < m
        PROVE  FALSE
    <2>1. 0 .. k \in B /\ (0 .. k) \subseteq (0 .. m) /\ m \notin 0 .. k /\ m \in 0 .. m
      BY <1>4
    <2> QED
      BY <1>2, <1>3, <2>1
  <1> QED
    BY <1>4

\* Induction over the rank of a node, and over the finite sets of nodes.
LEMMA RankInduction ==
  ASSUME NEW N, NEW rank \in [N -> Nat], NEW G,
         \A x \in N : (\A y \in N : rank[y] < rank[x] => y \in G) => x \in G
  PROVE  N \subseteq G
  <1> DEFINE D == {rank[x] : x \in N \ G}
  <1>1. SUFFICES ASSUME D # {}
                 PROVE  FALSE
    OBVIOUS
  <1>2. D \subseteq Nat
    OBVIOUS
  <1>3. PICK m \in D : \A k \in D : m <= k
    <2> HIDE DEF D
    <2> QED
      BY <1>1, <1>2, LeastNumber
  <1>4. PICK x \in N \ G : rank[x] = m
    BY <1>3
  <1>5. ASSUME NEW y \in N, rank[y] < rank[x]
        PROVE  y \in G
    <2>1. rank[y] \in Nat /\ m \in Nat
      BY <1>2, <1>3
    <2>2. rank[y] \notin D
      <3>1. ~ (m <= rank[y])
        BY <1>4, <1>5, <2>1
      <3> HIDE DEF D
      <3> QED
        BY <1>3, <3>1
    <2> QED
      BY <2>2
  <1>6. x \in G
    <2>1. x \in N /\ \A y \in N : rank[y] < rank[x] => y \in G
      BY <1>4, <1>5
    <2> QED
      BY <2>1
  <1> QED
    BY <1>4, <1>6

LEMMA SetInduction ==
  ASSUME NEW N, NEW G,
         \A S \in FiniteSubsetsOf(N) :
           (\A U \in FiniteSubsetsOf(N) : U \subseteq S /\ U # S => U \in G) => S \in G
  PROVE  FiniteSubsetsOf(N) \subseteq G
  <1> DEFINE D == FiniteSubsetsOf(N) \ G
  <1>1. SUFFICES ASSUME D # {}
                 PROVE  FALSE
    OBVIOUS
  <1>2. PICK S \in D : \A U \in D : U \subseteq S => U = S
    <2>1. D \subseteq FiniteSubsetsOf(N)
      OBVIOUS
    <2> HIDE DEF D
    <2> QED
      BY <1>1, <2>1, SmallestSet
  <1> QED
    BY <1>2

\* A function that calls itself once: for next of its argument, until that is in stop.
Descends(N, rank, stop, next) ==
  /\ rank \in [N -> Nat]
  /\ \A x \in N \ stop : next[x] \in N /\ rank[next[x]] < rank[x]

Steps(N, V, base, step) ==
  /\ \A x \in N : base[x] \in V
  /\ \A x \in N, v \in V : step[<<x, v>>] \in V

Solves(f, N, stop, next, base, step) ==
  \A x \in N : f[x] = IF x \in stop THEN base[x] ELSE step[<<x, f[next[x]]>>]

\* If the rank of its argument decreases, there is such a function.
LEMMA Recursion ==
  ASSUME NEW N, NEW V, NEW rank, NEW stop, NEW next, NEW base, NEW step,
         Descends(N, rank, stop, next), Steps(N, V, base, step)
  PROVE  \E f \in [N -> V] : Solves(f, N, stop, next, base, step)
  <1> /\ rank \in [N -> Nat]
      /\ \A x \in N \ stop : next[x] \in N /\ rank[next[x]] < rank[x]
      /\ \A x \in N : base[x] \in V
      /\ \A x \in N, v \in V : step[<<x, v>>] \in V
    BY DEF Descends, Steps
  <1> DEFINE Low(h) == {x \in N : rank[x] < h}
             Fits(h, f) == /\ f \in [Low(h) -> V]
                           /\ \A x \in Low(h) :
                                f[x] = IF x \in stop THEN base[x] ELSE step[<<x, f[next[x]]>>]
             Bad == {h \in Nat : ~ \E f : Fits(h, f)}
  <1>0. \A x \in N : rank[x] \in Nat
    OBVIOUS
  <1>1. \A x \in N, h \in Nat : x \in Low(h) /\ x \notin stop => next[x] \in Low(h)
    <2> SUFFICES ASSUME NEW x \in N, NEW h \in Nat, rank[x] < h, x \notin stop
                 PROVE  next[x] \in N /\ rank[next[x]] < h
      OBVIOUS
    <2>1. next[x] \in N /\ rank[next[x]] < rank[x]
      OBVIOUS
    <2>2. rank[next[x]] \in Nat /\ rank[x] \in Nat
      BY <1>0, <2>1
    <2> QED
      BY <2>1, <2>2
  <1>2. Bad = {}
    <2> SUFFICES ASSUME Bad # {}
                 PROVE  FALSE
      OBVIOUS
    <2>1. PICK h \in Bad : \A k \in Bad : h <= k
      <3> HIDE DEF Fits
      <3> QED
        BY LeastNumber
    <2>2. h \in Nat /\ ~ \E f : Fits(h, f)
      BY <2>1
    <2>3. h # 0
      <3>1. Low(0) = {}
        BY <1>0
      <3>2. Fits(0, [x \in {} |-> x])
        BY <3>1
      <3> QED
        BY <2>2, <3>2
    <2>4. h - 1 \in Nat /\ h - 1 \notin Bad
      <3>1. h - 1 \in Nat /\ ~ (h <= h - 1)
        BY <2>2, <2>3
      <3> HIDE DEF Bad
      <3> QED
        BY <2>1, <3>1
    <2>5. PICK f : Fits(h - 1, f)
      BY <2>4
    <2> DEFINE g == [x \in Low(h) |-> IF x \in stop THEN base[x] ELSE step[<<x, f[next[x]]>>]]
    <2>6. ASSUME NEW x \in Low(h), x \notin stop
          PROVE  next[x] \in Low(h - 1) /\ next[x] \in Low(h)
      <3>1. next[x] \in N /\ rank[next[x]] < rank[x] /\ rank[x] < h
        BY <2>6
      <3>2. rank[next[x]] \in Nat /\ rank[x] \in Nat
        BY <1>0, <3>1
      <3>3. rank[next[x]] < h - 1 /\ rank[next[x]] < h
        BY <3>1, <3>2, <2>2
      <3> QED
        BY <3>1, <3>3
    <2>7. g \in [Low(h) -> V]
      <3>1. ASSUME NEW x \in Low(h), x \notin stop
            PROVE  step[<<x, f[next[x]]>>] \in V
        <4>1. f[next[x]] \in V
          BY <2>5, <2>6, <3>1
        <4> QED
          BY <4>1
      <3> QED
        BY <3>1
    <2>8. ASSUME NEW y \in Low(h - 1)
          PROVE  y \in Low(h) /\ g[y] = f[y]
      <3>1. y \in Low(h)
        <4>1. y \in N /\ rank[y] < h - 1 /\ rank[y] \in Nat
          BY <1>0
        <4> QED
          BY <4>1, <2>2
      <3> QED
        BY <2>5, <3>1
    <2>9. Fits(h, g)
      <3>1. ASSUME NEW x \in Low(h)
            PROVE  g[x] = IF x \in stop THEN base[x] ELSE step[<<x, g[next[x]]>>]
        <4>1. x \notin stop => g[next[x]] = f[next[x]]
          BY <2>6, <2>8
        <4>2. g[x] = IF x \in stop THEN base[x] ELSE step[<<x, f[next[x]]>>]
          OBVIOUS
        <4> HIDE DEF g
        <4> QED
          BY <4>1, <4>2
      <3> QED
        BY <2>7, <3>1
    <2> QED
      BY <2>2, <2>9
  <1>3. ASSUME NEW x \in N
        PROVE  rank[x] + 1 \in Nat /\ rank[x] < rank[x] + 1 /\ x \in Low(rank[x] + 1)
    <2>1. rank[x] \in Nat
      BY <1>0
    <2> QED
      BY <2>1
  <1>4. \A h \in Nat : \E f : Fits(h, f)
    BY <1>2
  <1> DEFINE F == [h \in Nat |-> CHOOSE f : Fits(h, f)]
  <1>5. \A h \in Nat : Fits(h, F[h])
    BY <1>4
  \* Any two of them agree.
  <1>6. ASSUME NEW h \in Nat, NEW k \in Nat, NEW x \in N, rank[x] < h, rank[x] < k
        PROVE  F[h][x] = F[k][x]
    <2> DEFINE C == {rank[y] : y \in {z \in N : rank[z] < h /\ rank[z] < k /\ F[h][z] # F[k][z]}}
    <2> SUFFICES ASSUME C # {}
                 PROVE  FALSE
      BY <1>6
    <2>1. PICK r \in C : \A q \in C : r <= q
      <3>1. C \subseteq Nat
        OBVIOUS
      <3> HIDE DEF C
      <3> QED
        BY <3>1, LeastNumber
    <2>2. PICK y \in N : rank[y] = r /\ rank[y] < h /\ rank[y] < k /\ F[h][y] # F[k][y]
      BY <2>1
    <2>3. /\ F[h][y] = IF y \in stop THEN base[y] ELSE step[<<y, F[h][next[y]]>>]
          /\ F[k][y] = IF y \in stop THEN base[y] ELSE step[<<y, F[k][next[y]]>>]
      BY <1>5, <2>2
    <2>4. y \notin stop
      BY <2>2, <2>3
    <2>5. next[y] \in N /\ rank[next[y]] < rank[y] /\ rank[next[y]] \in Nat /\ rank[y] \in Nat
      BY <1>0, <2>4
    <2>6. rank[next[y]] \notin C
      <3>1. ~ (r <= rank[next[y]])
        BY <2>2, <2>5
      <3> HIDE DEF C
      <3> QED
        BY <2>1, <3>1
    <2>7. rank[next[y]] < h /\ rank[next[y]] < k
      BY <2>2, <2>5
    <2>8. F[h][next[y]] = F[k][next[y]]
      BY <2>5, <2>6, <2>7
    <2> QED
      BY <2>2, <2>3, <2>8
  <1> DEFINE f == [x \in N |-> F[rank[x] + 1][x]]
  <1>7. ASSUME NEW x \in N
        PROVE  f[x] \in V /\ f[x] = IF x \in stop THEN base[x] ELSE step[<<x, f[next[x]]>>]
    <2> DEFINE h == rank[x] + 1
    <2>1. h \in Nat /\ rank[x] < h /\ x \in Low(h)
      BY <1>3
    <2>2. Fits(h, F[h]) /\ f[x] = F[h][x]
      BY <1>5, <2>1
    <2>3. F[h][x] \in V /\ F[h][x] = IF x \in stop THEN base[x] ELSE step[<<x, F[h][next[x]]>>]
      <3> HIDE DEF h, F
      <3> QED
        BY <2>1, <2>2
    <2>4. ASSUME x \notin stop
          PROVE  f[next[x]] = F[h][next[x]]
      <3> DEFINE y == next[x]
                 k == rank[y] + 1
      <3>1. y \in N /\ rank[y] < rank[x] /\ rank[y] \in Nat /\ rank[x] \in Nat
        BY <1>0, <2>4
      <3>2. k \in Nat /\ rank[y] < h /\ rank[y] < k
        BY <3>1
      <3>3. f[y] = F[k][y]
        BY <3>1
      <3>4. F[h][y] = F[k][y]
        <4> HIDE DEF F, k, h, y
        <4> QED
          BY <1>6, <2>1, <3>1, <3>2
      <3> QED
        BY <3>3, <3>4
    <2> HIDE DEF f, F
    <2> QED
      BY <2>2, <2>3, <2>4
  <1>8. f \in [N -> V]
    BY <1>7
  <1> HIDE DEF f
  <1> QED
    BY <1>7, <1>8 DEF Solves

\* A number for every node that is lower below it.
Ranked(N, n, rank) ==
  /\ rank \in [N -> Nat]
  /\ \A x \in N : /\ n[x].left # Null => rank[n[x].left] < rank[x]
                  /\ n[x].right # Null => rank[n[x].right] < rank[x]

------------------------------------------------------------------------------
(* The functions of the tree.                                               *)

\* What lies between a node and the nodes below it.
LEMMA TreeRank ==
  ASSUME NEW N, Names(N), NEW n \in Trees(N), NEW T \in SUBSET N, NEW root,
         IsTree(n, T, root), \A x \in N \ T : n[x] = Blank
  PROVE  \E rank : Ranked(N, n, rank)
  <1>1. IsFiniteSet(T)
    BY DEF IsTree
  <1>2. PICK sub : Shape(n, T, root, sub)
    BY DEF IsTree
  <1> DEFINE rank == [x \in N |-> IF x \in T THEN Cardinality(sub[x]) ELSE 0]
  <1>3. \A x \in T : sub[x] \subseteq T /\ IsFiniteSet(sub[x]) /\ Cardinality(sub[x]) \in Nat
    BY <1>1, <1>2, FS_Subset, FS_CardinalityType DEF Shape
  <1>4. rank \in [N -> Nat]
    BY <1>3
  <1>5. ASSUME NEW x \in T, NEW y \in T, y \in sub[x], x \notin sub[y]
        PROVE  rank[y] < rank[x]
    <2>1. sub[y] \subseteq sub[x] /\ x \in sub[x]
      BY <1>2, <1>5 DEF Shape
    <2>2. Cardinality(sub[y]) < Cardinality(sub[x])
      BY <1>3, <1>5, <2>1, FS_Subset
    <2> QED
      BY <2>2
  <1> HIDE DEF rank
  <1>6. ASSUME NEW x \in N
        PROVE  /\ n[x].left # Null => rank[n[x].left] < rank[x]
               /\ n[x].right # Null => rank[n[x].right] < rank[x]
    <2>1. CASE x \in T
      <3>1. ASSUME NEW y \in {n[x].left, n[x].right}, y # Null
            PROVE  rank[y] < rank[x]
        <4>1. y \in T /\ sub[y] \subseteq sub[x] /\ y \in sub[y] /\ x \notin sub[y]
          <5>1. y \in T /\ sub[y] \subseteq sub[x]
            BY <1>2, <2>1, <3>1 DEF Shape, Under
          <5>2. y \in sub[y]
            BY <1>2, <5>1 DEF Shape
          <5>3. KeyOf(x) \in Int
            BY NodesAre
          <5>4. \A z \in sub[y] : KeyOf(z) < KeyOf(x) \/ KeyOf(x) < KeyOf(z)
            BY <1>2, <2>1, <3>1 DEF Shape, Under
          <5> QED
            BY <5>1, <5>2, <5>3, <5>4
        <4> QED
          BY <1>5, <2>1, <4>1
      <3> QED
        BY <3>1
    <2>2. CASE x \notin T
      BY <2>2 DEF Blank
    <2> QED
      BY <2>1, <2>2
  <1> QED
    BY <1>4, <1>6 DEF Ranked

\* ml_map_find_node
Looked(w_, k) ==
  CHOOSE found : found = [x \in DOMAIN w_.n |->
                            IF KeyOf(x) = k THEN x
                            ELSE IF Side(w_.n, x, k) = Null THEN Null
                            ELSE found[Side(w_.n, x, k)]]

LEMMA FindIs ==
  ASSUME NEW v, NEW k
  PROVE  Find(v, k) = IF v.root = Null THEN Null ELSE Looked(v, k)[v.root]
  BY DEF Find, Looked

LEMMA SideFields ==
  ASSUME NEW N, Names(N), NEW n \in Trees(N), NEW rank, Ranked(N, n, rank), NEW x \in N,
         NEW k
  PROVE  /\ Side(n, x, k) \in N \union {Null}
         /\ Side(n, x, k) # Null => rank[Side(n, x, k)] < rank[x]
  BY TreeFields DEF Side, Ranked

LEMMA LookedUnfolds ==
  ASSUME NEW N, Names(N), NEW v, v.n \in Trees(N), NEW rank, Ranked(N, v.n, rank),
         NEW k, NEW x \in N
  PROVE  Looked(v, k)[x] = IF KeyOf(x) = k THEN x
                           ELSE IF Side(v.n, x, k) = Null THEN Null
                           ELSE Looked(v, k)[Side(v.n, x, k)]
  <1> DEFINE D == DOMAIN v.n
             V == N \union {Null}
             stop == {y \in N : KeyOf(y) = k \/ Side(v.n, y, k) = Null}
             next == [y \in N |-> Side(v.n, y, k)]
             base == [y \in N |-> IF KeyOf(y) = k THEN y ELSE Null]
             step == [p \in N \X V |-> p[2]]
  <1>1. D = N
    BY DEF Trees
  <1>2. Descends(N, rank, stop, next)
    BY SideFields DEF Descends, Ranked
  <1>3. Steps(N, V, base, step)
    BY DEF Steps
  <1>4. /\ \A y \in N, u \in V : step[<<y, u>>] = u
        /\ \A y \in N : base[y] = (IF KeyOf(y) = k THEN y ELSE Null) /\ next[y] = Side(v.n, y, k)
        /\ \A y \in N : y \in stop <=> KeyOf(y) = k \/ Side(v.n, y, k) = Null
        /\ \A y \in N : Side(v.n, y, k) \in V
    BY SideFields
  <1> HIDE DEF D, stop, next, base, step
  <1>5. PICK f \in [N -> V] : Solves(f, N, stop, next, base, step)
    BY <1>2, <1>3, Recursion
  <1>6. ASSUME NEW y \in N
        PROVE  f[y] = IF KeyOf(y) = k THEN y ELSE IF Side(v.n, y, k) = Null THEN Null
                      ELSE f[Side(v.n, y, k)]
    <2>1. f[y] = IF y \in stop THEN base[y] ELSE step[<<y, f[Side(v.n, y, k)]>>]
      BY <1>4, <1>5 DEF Solves
    <2>2. y \notin stop => f[Side(v.n, y, k)] \in V
      BY <1>4
    <2> QED
      BY <1>4, <2>1, <2>2
  <1>7. f = [y \in D |-> IF KeyOf(y) = k THEN y ELSE IF Side(v.n, y, k) = Null THEN Null
                         ELSE f[Side(v.n, y, k)]]
    BY <1>1, <1>6
  <1>8. Looked(v, k) = [y \in D |-> IF KeyOf(y) = k THEN y ELSE IF Side(v.n, y, k) = Null THEN Null
                                    ELSE Looked(v, k)[Side(v.n, y, k)]]
    BY <1>7 DEF Looked, D
  <1> QED
    BY <1>1, <1>8

------------------------------------------------------------------------------
(* One node and its children.                                               *)

LEMMA UpdateDepthKeeps ==
  ASSUME NEW N, Names(N), NEW n \in Trees(N), NEW x \in N
  PROVE  /\ UpdateDepth(n, x) \in Trees(N)
         /\ UpdateDepth(n, x)[x].left = n[x].left /\ UpdateDepth(n, x)[x].right = n[x].right
         /\ UpdateDepth(n, x)[x].depth > 0
         /\ \A y \in N \ {x} : UpdateDepth(n, x)[y] = n[y]
         /\ \A S \in SUBSET N : \A top : IsTree(n, S, top) => IsTree(UpdateDepth(n, x), S, top)
  <1> DEFINE m == UpdateDepth(n, x)
  <1>1. \E e \in Nat : e > 0 /\ m = [n EXCEPT ![x].depth = e]
    <2>1. Depth(n, n[x].left) \in Nat /\ Depth(n, n[x].right) \in Nat
      BY TreeFields DEF Depth
    <2> DEFINE l == Depth(n, n[x].left)
               r == Depth(n, n[x].right)
               d == 1 + (IF l < r THEN r ELSE l)
    <2>2. m = [n EXCEPT ![x].depth = d]
      BY DEF UpdateDepth
    <2>3. d \in Nat /\ d > 0
      BY <2>1
    <2> HIDE DEF d, m
    <2> QED
      BY <2>2, <2>3
  <1> HIDE DEF m
  <1>2. PICK e \in Nat : e > 0 /\ m = [n EXCEPT ![x].depth = e]
    BY <1>1
  <1>3. n[x] \in Fields(N)
    BY TreeFields
  <1>4. /\ m \in Trees(N) /\ m[x].left = n[x].left /\ m[x].right = n[x].right /\ m[x].depth = e
        /\ \A y \in N \ {x} : m[y] = n[y]
    BY <1>2, <1>3 DEF Trees, Fields
  <1>5. ASSUME NEW S \in SUBSET N, NEW top, IsTree(n, S, top)
        PROVE  IsTree(m, S, top)
    <2>1. PICK sub : Shape(n, S, top, sub)
      BY <1>5 DEF IsTree
    <2>2. \A y \in S : m[y].left = n[y].left /\ m[y].right = n[y].right
                        /\ (n[y].depth > 0 => m[y].depth > 0)
      BY <1>2, <1>4
    <2>3. Shape(m, S, top, sub)
      BY <2>1, <2>2 DEF Shape
    <2> QED
      BY <1>5, <2>3 DEF IsTree
  <1> QED
    BY <1>2, <1>4, <1>5 DEF m

LEMMA UpdateDepthType ==
  ASSUME NEW N, Names(N), NEW n \in Trees(N), NEW x \in N
  PROVE  UpdateDepth(n, x) \in Trees(N)
  BY UpdateDepthKeeps

\* What an operation on the tree of S returns is a tree of S, and the other nodes are as
\* they were.
Rearranged(N, n, S, t) ==
  /\ t.n \in Trees(N) /\ IsTree(t.n, S, t.top)
  /\ \A y \in N \ S : t.n[y] = n[y]

\* The key of a node is less than those on its right.
LEMMA Transitive ==
  ASSUME NEW N, Names(N), NEW x \in N, NEW y \in N, NEW z \in N,
         KeyOf(x) < KeyOf(y), KeyOf(y) < KeyOf(z)
  PROVE  KeyOf(x) < KeyOf(z)
  <1>1. KeyOf(x) \in Int /\ KeyOf(y) \in Int /\ KeyOf(z) \in Int
    BY NodesAre
  <1> QED
    BY <1>1

WithLeft(n, x, child) == [n EXCEPT ![x].left = child]
WithRight(n, x, child) == [n EXCEPT ![x].right = child]

LEMMA SetLeft ==
  ASSUME NEW N, Names(N), NEW n \in Trees(N), NEW x \in N, NEW child \in N \union {Null}
  PROVE  /\ WithLeft(n, x, child) \in Trees(N)
         /\ WithLeft(n, x, child)[x].left = child
         /\ WithLeft(n, x, child)[x].right = n[x].right
         /\ WithLeft(n, x, child)[x].depth = n[x].depth
         /\ \A y \in N \ {x} : WithLeft(n, x, child)[y] = n[y]
  BY TreeFields DEF Trees, Fields, WithLeft

LEMMA SetRight ==
  ASSUME NEW N, Names(N), NEW n \in Trees(N), NEW x \in N, NEW child \in N \union {Null}
  PROVE  /\ WithRight(n, x, child) \in Trees(N)
         /\ WithRight(n, x, child)[x].left = n[x].left
         /\ WithRight(n, x, child)[x].right = child
         /\ WithRight(n, x, child)[x].depth = n[x].depth
         /\ \A y \in N \ {x} : WithRight(n, x, child)[y] = n[y]
  BY TreeFields DEF Trees, Fields, WithRight

\* Another tree on one side of the top, in m, where the other nodes are as they were.
LEMMA GraftLeft ==
  ASSUME NEW N, Names(N), NEW n, NEW S \in SUBSET N, NEW x, NEW L, NEW R, Parts(n, S, x, L, R),
         NEW m \in Trees(N), m[x] = n[x], \A y \in R : m[y] = n[y],
         NEW M \in SUBSET N, NEW child \in N \union {Null}, IsTree(m, M, child),
         \A y \in M : KeyOf(y) < KeyOf(x)
  PROVE  Parts(WithLeft(m, x, child), {x} \union M \union R, x, M, R)
  <1>1. x \in N /\ R \in SUBSET N /\ x # Null /\ n[x].depth > 0 /\ x \notin R
          /\ IsTree(n, R, n[x].right) /\ \A y \in R : KeyOf(x) < KeyOf(y)
    BY DEF Parts
  <1> DEFINE h == WithLeft(m, x, child)
  <1>2. h[x].left = child /\ h[x].right = m[x].right /\ h[x].depth = m[x].depth
          /\ \A y \in N \ {x} : h[y] = m[y]
    BY <1>1, SetLeft DEF h
  <1> HIDE DEF h
  <1>3. x \notin M
    <2>1. \A y \in M : KeyOf(y) \in Int
      BY NodesAre
    <2> QED
      BY <2>1
  <1>4. IsTree(h, M, child) /\ IsTree(h, R, h[x].right)
    <2>1. (\A y \in M : h[y] = m[y]) /\ \A y \in R : h[y] = n[y]
      BY <1>1, <1>2, <1>3
    <2>2. h[x].right = n[x].right
      BY <1>2
    <2> QED
      BY <1>1, <2>1, <2>2, KeepTree
  <1>5. x \notin M /\ x \notin R /\ M \intersect R = {}
    BY <1>1, PartsApart
  <1>6. Parts(h, {x} \union M \union R, x, M, R)
    BY <1>1, <1>2, <1>4, <1>5 DEF Parts
  <1> QED
    BY <1>6 DEF h

LEMMA GraftRight ==
  ASSUME NEW N, Names(N), NEW n, NEW S \in SUBSET N, NEW x, NEW L, NEW R, Parts(n, S, x, L, R),
         NEW m \in Trees(N), m[x] = n[x], \A y \in L : m[y] = n[y],
         NEW M \in SUBSET N, NEW child \in N \union {Null}, IsTree(m, M, child),
         \A y \in M : KeyOf(x) < KeyOf(y)
  PROVE  Parts(WithRight(m, x, child), {x} \union L \union M, x, L, M)
  <1>1. x \in N /\ L \in SUBSET N /\ x # Null /\ n[x].depth > 0 /\ x \notin L
          /\ IsTree(n, L, n[x].left) /\ \A y \in L : KeyOf(y) < KeyOf(x)
    BY DEF Parts
  <1> DEFINE h == WithRight(m, x, child)
  <1>2. h[x].right = child /\ h[x].left = m[x].left /\ h[x].depth = m[x].depth
          /\ \A y \in N \ {x} : h[y] = m[y]
    BY <1>1, SetRight DEF h
  <1> HIDE DEF h
  <1>3. x \notin M
    <2>1. \A y \in M : KeyOf(y) \in Int
      BY NodesAre
    <2> QED
      BY <2>1
  <1>4. IsTree(h, M, child) /\ IsTree(h, L, h[x].left)
    <2>1. (\A y \in M : h[y] = m[y]) /\ \A y \in L : h[y] = n[y]
      BY <1>1, <1>2, <1>3
    <2>2. h[x].left = n[x].left
      BY <1>2
    <2> QED
      BY <1>1, <2>1, <2>2, KeepTree
  <1>5. x \notin L /\ x \notin M /\ L \intersect M = {}
    BY <1>1, PartsApart
  <1>6. Parts(h, {x} \union L \union M, x, L, M)
    BY <1>1, <1>2, <1>4, <1>5 DEF Parts
  <1> QED
    BY <1>6 DEF h

LEMMA RotateLeftTree ==
  ASSUME NEW N, Names(N), NEW n \in Trees(N), NEW S \in SUBSET N, NEW x,
         IsTree(n, S, x), x # Null, n[x].right # Null
  PROVE  Rearranged(N, n, S, RotateLeft(n, x)) /\ RotateLeft(n, x).top # Null
  <1> DEFINE ch == n[x].right
             h == WithRight(n, x, n[ch].left)
             m == WithLeft(h, ch, x)
             u == UpdateDepth(m, x)
  <1>1. PICK L \in SUBSET S, R \in SUBSET S : Parts(n, S, x, L, R)
    BY NodesAre, Split
  <1>2. x \in S /\ x \in N /\ x \notin R /\ Null \notin N /\ Null \notin R /\ R \in SUBSET N
    <2>1. x \in S /\ x \notin R
      BY <1>1 DEF Parts
    <2> QED
      BY <2>1, NodesAre
  <1>3. IsTree(n, R, ch) /\ ch # Null
    BY <1>1 DEF Parts
  <1>4. PICK A \in SUBSET R, B \in SUBSET R : Parts(n, R, ch, A, B)
    BY <1>2, <1>3, Split
  <1>5. ch \in R /\ ch \in N /\ ch # x /\ R = {ch} \union A \union B /\ S = {x} \union L \union R
        /\ ch \notin A /\ ch \notin B
        /\ n[ch].left \in N \union {Null} /\ KeyOf(x) < KeyOf(ch)
    <2>1. ch \in R /\ R = {ch} \union A \union B /\ ch \notin A /\ ch \notin B
      BY <1>4 DEF Parts
    <2>2. S = {x} \union L \union R /\ \A y \in R : KeyOf(y) \in Int /\ KeyOf(x) < KeyOf(y)
      BY <1>1, <1>2, NodesAre DEF Parts
    <2> QED
      BY <1>2, <2>1, <2>2, TreeFields
  <1>51. h \in Trees(N) /\ \A y \in N \ {x} : h[y] = n[y]
    <2> DEFINE c == n[ch].left
    <2>1. c \in N \union {Null} /\ h = WithRight(n, x, c)
      BY <1>5
    <2> HIDE DEF c, h, ch
    <2>2. /\ WithRight(n, x, c) \in Trees(N)
          /\ \A y \in N \ {x} : WithRight(n, x, c)[y] = n[y]
      <3>1. x \in N /\ c \in N \union {Null}
        BY <1>2, <2>1
      <3> QED
        BY <3>1, SetRight
    <2> QED
      BY <2>1, <2>2
  <1>6. Parts(h, {x} \union L \union A, x, L, A) /\ h \in Trees(N)
    <2>1. IsTree(n, A, n[ch].left) /\ \A y \in A : KeyOf(x) < KeyOf(y)
      BY <1>1, <1>4 DEF Parts
    <2> QED
      BY <1>1, <1>2, <1>5, <1>51, <2>1, GraftRight
  <1>7. Parts(h, R, ch, A, B)
    <2>1. \A y \in R : h[y] = n[y]
      BY <1>2, <1>51
    <2> HIDE DEF h
    <2> QED
      BY <1>4, <1>5, <2>1, KeepTree DEF Parts
  <1>8. IsTree(h, {x} \union L \union A, x)
    <2> HIDE DEF h, ch
    <2> QED
      BY <1>2, <1>5, <1>6, Join
  <1>9. Parts(m, S, ch, {x} \union L \union A, B) /\ m \in Trees(N)
    <2>1. \A y \in {x} \union L \union A : KeyOf(y) < KeyOf(ch)
      <3>1. \A y \in A : KeyOf(y) < KeyOf(ch)
        BY <1>4 DEF Parts
      <3>2. \A y \in L : KeyOf(y) < KeyOf(x)
        BY <1>1 DEF Parts
      <3>3. \A y \in L : KeyOf(y) < KeyOf(ch)
        BY <1>2, <1>5, <3>2, Transitive
      <3> QED
        BY <1>5, <3>1, <3>3
    <2>2. S = {ch} \union ({x} \union L \union A) \union B
      BY <1>5
    <2>3. ch \in N /\ x \in N \union {Null} /\ {x} \union L \union A \in SUBSET N
      BY <1>2, <1>5
    <2> HIDE DEF h, ch
    <2> QED
      BY <1>2, <1>6, <1>7, <1>8, <2>1, <2>2, <2>3, GraftLeft, SetLeft
  <1>10. \A y \in N \ S : m[y] = n[y]
    <2>2. \A y \in N \ {ch} : m[y] = h[y]
      <3> HIDE DEF h, ch
      <3> QED
        BY <1>2, <1>5, <1>6, SetLeft
    <2> HIDE DEF m, h, ch
    <2> QED
      BY <1>2, <1>5, <1>51, <2>2
  <1>11. IsTree(m, S, ch)
    <2> HIDE DEF m, ch
    <2> QED
      BY <1>9, Join
  <1>12. /\ u \in Trees(N) /\ UpdateDepth(u, ch) \in Trees(N)
         /\ IsTree(UpdateDepth(u, ch), S, ch)
         /\ \A y \in N \ S : UpdateDepth(u, ch)[y] = n[y]
    <2> HIDE DEF m, ch
    <2>1. u \in Trees(N) /\ IsTree(u, S, ch) /\ \A y \in N \ S : u[y] = n[y]
      BY <1>2, <1>9, <1>10, <1>11, UpdateDepthKeeps
    <2> HIDE DEF u
    <2> QED
      BY <1>2, <1>5, <2>1, UpdateDepthKeeps
  <1>13. RotateLeft(n, x) = [n |-> UpdateDepth(u, ch), top |-> ch]
    <2>1. m = [n EXCEPT ![x].right = n[ch].left, ![ch].left = x]
      BY DEF WithLeft, WithRight
    <2> QED
      BY <2>1 DEF RotateLeft
  <1> HIDE DEF u, m, h, ch
  <1> QED
    BY <1>3, <1>12, <1>13 DEF Rearranged

LEMMA RotateRightTree ==
  ASSUME NEW N, Names(N), NEW n \in Trees(N), NEW S \in SUBSET N, NEW x,
         IsTree(n, S, x), x # Null, n[x].left # Null
  PROVE  Rearranged(N, n, S, RotateRight(n, x)) /\ RotateRight(n, x).top # Null
  <1> DEFINE ch == n[x].left
             h == WithLeft(n, x, n[ch].right)
             m == WithRight(h, ch, x)
             u == UpdateDepth(m, x)
  <1>1. PICK R \in SUBSET S, L \in SUBSET S : Parts(n, S, x, R, L)
    BY NodesAre, Split
  <1>2. x \in S /\ x \in N /\ x \notin R /\ Null \notin N /\ Null \notin R /\ R \in SUBSET N
    <2>1. x \in S /\ x \notin R
      BY <1>1 DEF Parts
    <2> QED
      BY <2>1, NodesAre
  <1>3. IsTree(n, R, ch) /\ ch # Null
    BY <1>1 DEF Parts
  <1>4. PICK B \in SUBSET R, A \in SUBSET R : Parts(n, R, ch, B, A)
    BY <1>2, <1>3, Split
  <1>5. ch \in R /\ ch \in N /\ ch # x /\ R = {ch} \union A \union B /\ S = {x} \union L \union R
        /\ ch \notin A /\ ch \notin B
        /\ n[ch].right \in N \union {Null} /\ KeyOf(ch) < KeyOf(x)
    <2>1. ch \in R /\ R = {ch} \union A \union B /\ ch \notin A /\ ch \notin B
      BY <1>4 DEF Parts
    <2>2. S = {x} \union L \union R /\ \A y \in R : KeyOf(y) \in Int /\ KeyOf(y) < KeyOf(x)
      BY <1>1, <1>2, NodesAre DEF Parts
    <2> QED
      BY <1>2, <2>1, <2>2, TreeFields
  <1>51. h \in Trees(N) /\ \A y \in N \ {x} : h[y] = n[y]
    <2> DEFINE c == n[ch].right
    <2>1. c \in N \union {Null} /\ h = WithLeft(n, x, c)
      BY <1>5
    <2> HIDE DEF c, h, ch
    <2>2. /\ WithLeft(n, x, c) \in Trees(N)
          /\ \A y \in N \ {x} : WithLeft(n, x, c)[y] = n[y]
      <3>1. x \in N /\ c \in N \union {Null}
        BY <1>2, <2>1
      <3> QED
        BY <3>1, SetLeft
    <2> QED
      BY <2>1, <2>2
  <1>6. Parts(h, {x} \union A \union L, x, A, L) /\ h \in Trees(N)
    <2>1. IsTree(n, A, n[ch].right) /\ \A y \in A : KeyOf(y) < KeyOf(x)
      BY <1>1, <1>4 DEF Parts
    <2> QED
      BY <1>1, <1>2, <1>5, <1>51, <2>1, GraftLeft
  <1>7. Parts(h, R, ch, B, A)
    <2>1. \A y \in R : h[y] = n[y]
      BY <1>2, <1>51
    <2> HIDE DEF h
    <2> QED
      BY <1>4, <1>5, <2>1, KeepTree DEF Parts
  <1>8. IsTree(h, {x} \union A \union L, x)
    <2> HIDE DEF h, ch
    <2> QED
      BY <1>2, <1>5, <1>6, Join
  <1>9. Parts(m, S, ch, B, {x} \union A \union L) /\ m \in Trees(N)
    <2>1. \A y \in {x} \union A \union L : KeyOf(ch) < KeyOf(y)
      <3>1. \A y \in A : KeyOf(ch) < KeyOf(y)
        BY <1>4 DEF Parts
      <3>2. \A y \in L : KeyOf(x) < KeyOf(y)
        BY <1>1 DEF Parts
      <3>3. \A y \in L : KeyOf(ch) < KeyOf(y)
        BY <1>2, <1>5, <3>2, Transitive
      <3> QED
        BY <1>5, <3>1, <3>3
    <2>2. S = {ch} \union B \union ({x} \union A \union L)
      BY <1>5
    <2>3. ch \in N /\ x \in N \union {Null} /\ {x} \union A \union L \in SUBSET N
      BY <1>2, <1>5
    <2> HIDE DEF h, ch
    <2> QED
      BY <1>2, <1>6, <1>7, <1>8, <2>1, <2>2, <2>3, GraftRight, SetRight
  <1>10. \A y \in N \ S : m[y] = n[y]
    <2>2. \A y \in N \ {ch} : m[y] = h[y]
      <3> HIDE DEF h, ch
      <3> QED
        BY <1>2, <1>5, <1>6, SetRight
    <2> HIDE DEF m, h, ch
    <2> QED
      BY <1>2, <1>5, <1>51, <2>2
  <1>11. IsTree(m, S, ch)
    <2> HIDE DEF m, ch
    <2> QED
      BY <1>9, Join
  <1>12. /\ u \in Trees(N) /\ UpdateDepth(u, ch) \in Trees(N)
         /\ IsTree(UpdateDepth(u, ch), S, ch)
         /\ \A y \in N \ S : UpdateDepth(u, ch)[y] = n[y]
    <2> HIDE DEF m, ch
    <2>1. u \in Trees(N) /\ IsTree(u, S, ch) /\ \A y \in N \ S : u[y] = n[y]
      BY <1>2, <1>9, <1>10, <1>11, UpdateDepthKeeps
    <2> HIDE DEF u
    <2> QED
      BY <1>2, <1>5, <2>1, UpdateDepthKeeps
  <1>13. RotateRight(n, x) = [n |-> UpdateDepth(u, ch), top |-> ch]
    <2>1. m = [n EXCEPT ![x].left = n[ch].right, ![ch].right = x]
      BY DEF WithLeft, WithRight
    <2> QED
      BY <2>1 DEF RotateRight
  <1> HIDE DEF u, m, h, ch
  <1> QED
    BY <1>3, <1>12, <1>13 DEF Rearranged

LEMMA Depths ==
  ASSUME NEW N, Names(N), NEW n \in Trees(N), NEW x \in N
  PROVE  /\ Balance(n, x) > 0 => n[x].left # Null
         /\ Balance(n, x) < 0 => n[x].right # Null
         /\ Balance(n, x) \in Int
  <1>1. Depth(n, n[x].left) \in Nat /\ Depth(n, n[x].right) \in Nat
    BY TreeFields DEF Depth
  <1>2. /\ n[x].left = Null => Depth(n, n[x].left) = 0
        /\ n[x].right = Null => Depth(n, n[x].right) = 0
    BY DEF Depth
  <1> QED
    BY <1>1, <1>2 DEF Balance

\* One rotation after another, on a side and then of the top.
LEMMA RotateTwice ==
  ASSUME NEW N, Names(N), NEW n \in Trees(N), NEW S \in SUBSET N, NEW x,
         IsTree(n, S, x), x # Null
  PROVE  /\ n[x].left # Null /\ n[n[x].left].right # Null =>
              LET t == RotateLeft(n, n[x].left)
              IN  Rearranged(N, n, S, RotateRight([t.n EXCEPT ![x].left = t.top], x))
         /\ n[x].right # Null /\ n[n[x].right].left # Null =>
              LET t == RotateRight(n, n[x].right)
              IN  Rearranged(N, n, S, RotateLeft([t.n EXCEPT ![x].right = t.top], x))
  <1>1. PICK L \in SUBSET S, R \in SUBSET S : Parts(n, S, x, L, R)
    BY Split
  <1>2. /\ x \in N /\ x \notin L /\ x \notin R /\ L \in SUBSET N /\ R \in SUBSET N
        /\ L \intersect R = {} /\ S = {x} \union L \union R
        /\ IsTree(n, L, n[x].left) /\ IsTree(n, R, n[x].right)
    BY <1>1 DEF Parts
  <1>3. Null \notin N
    BY NodesAre
  <1>4. ASSUME n[x].left # Null, n[n[x].left].right # Null
        PROVE  LET t == RotateLeft(n, n[x].left)
               IN  Rearranged(N, n, S, RotateRight([t.n EXCEPT ![x].left = t.top], x))
    <2> DEFINE t == RotateLeft(n, n[x].left)
               h == WithLeft(t.n, x, t.top)
    <2>1. Rearranged(N, n, L, t) /\ t.top # Null
      BY <1>2, <1>4, RotateLeftTree
    <2>2. h = [t.n EXCEPT ![x].left = t.top]
      BY DEF WithLeft
    <2> HIDE DEF t, h
    <2>3. t.n \in Trees(N) /\ IsTree(t.n, L, t.top) /\ (\A y \in N \ L : t.n[y] = n[y])
            /\ t.top \in L
      BY <2>1, TreeTop DEF Rearranged
    <2>4. t.n[x] = n[x] /\ (\A y \in R : t.n[y] = n[y]) /\ t.top \in N \union {Null}
      BY <1>2, <2>3
    <2>5. \A y \in L : KeyOf(y) < KeyOf(x)
      BY <1>1 DEF Parts
    <2>6. Parts(h, {x} \union L \union R, x, L, R)
      BY <1>1, <1>2, <2>3, <2>4, <2>5, GraftLeft DEF h
    <2>7. IsTree(h, S, x)
      BY <1>2, <2>6, Join
    <2>8. h \in Trees(N) /\ h[x].left = t.top /\ \A y \in N \ {x} : h[y] = t.n[y]
      <3>1. x \in N /\ t.n \in Trees(N) /\ t.top \in N \union {Null}
        BY <1>2, <2>3, <2>4
      <3> DEFINE u == t.n
                 c == t.top
      <3>2. x \in N /\ u \in Trees(N) /\ c \in N \union {Null}
        BY <3>1
      <3> HIDE DEF u, c
      <3>3. /\ WithLeft(u, x, c) \in Trees(N) /\ WithLeft(u, x, c)[x].left = c
            /\ \A y \in N \ {x} : WithLeft(u, x, c)[y] = u[y]
        BY <3>2, SetLeft
      <3> QED
        BY <3>3 DEF u, c, h
    <2>9. Rearranged(N, h, S, RotateRight(h, x))
      BY <2>1, <2>7, <2>8, RotateRightTree
    <2>10. \A y \in N \ S : h[y] = n[y]
      BY <1>2, <2>3, <2>8
    <2>11. Rearranged(N, n, S, RotateRight(h, x))
      BY <2>9, <2>10 DEF Rearranged
    <2> QED
      BY <2>2, <2>11 DEF t
  <1>5. ASSUME n[x].right # Null, n[n[x].right].left # Null
        PROVE  LET t == RotateRight(n, n[x].right)
               IN  Rearranged(N, n, S, RotateLeft([t.n EXCEPT ![x].right = t.top], x))
    <2> DEFINE t == RotateRight(n, n[x].right)
               h == WithRight(t.n, x, t.top)
    <2>1. Rearranged(N, n, R, t) /\ t.top # Null
      BY <1>2, <1>5, RotateRightTree
    <2>2. h = [t.n EXCEPT ![x].right = t.top]
      BY DEF WithRight
    <2> HIDE DEF t, h
    <2>3. t.n \in Trees(N) /\ IsTree(t.n, R, t.top) /\ (\A y \in N \ R : t.n[y] = n[y])
            /\ t.top \in R
      BY <2>1, TreeTop DEF Rearranged
    <2>4. t.n[x] = n[x] /\ (\A y \in L : t.n[y] = n[y]) /\ t.top \in N \union {Null}
      BY <1>2, <2>3
    <2>5. \A y \in R : KeyOf(x) < KeyOf(y)
      BY <1>1 DEF Parts
    <2>6. Parts(h, {x} \union L \union R, x, L, R)
      BY <1>1, <1>2, <2>3, <2>4, <2>5, GraftRight DEF h
    <2>7. IsTree(h, S, x)
      BY <1>2, <2>6, Join
    <2>8. h \in Trees(N) /\ h[x].right = t.top /\ \A y \in N \ {x} : h[y] = t.n[y]
      <3>1. x \in N /\ t.n \in Trees(N) /\ t.top \in N \union {Null}
        BY <1>2, <2>3, <2>4
      <3> DEFINE u == t.n
                 c == t.top
      <3>2. x \in N /\ u \in Trees(N) /\ c \in N \union {Null}
        BY <3>1
      <3> HIDE DEF u, c
      <3>3. /\ WithRight(u, x, c) \in Trees(N) /\ WithRight(u, x, c)[x].right = c
            /\ \A y \in N \ {x} : WithRight(u, x, c)[y] = u[y]
        BY <3>2, SetRight
      <3> QED
        BY <3>3 DEF u, c, h
    <2>9. Rearranged(N, h, S, RotateLeft(h, x))
      BY <2>1, <2>7, <2>8, RotateLeftTree
    <2>10. \A y \in N \ S : h[y] = n[y]
      BY <1>2, <2>3, <2>8
    <2>11. Rearranged(N, n, S, RotateLeft(h, x))
      BY <2>9, <2>10 DEF Rearranged
    <2> QED
      BY <2>2, <2>11 DEF t
  <1> QED
    BY <1>4, <1>5

\* Whatever it turns, ml_map_rebalance loses no node and keeps their order.
LEMMA RebalanceTree ==
  ASSUME NEW N, Names(N), NEW n \in Trees(N), NEW S \in SUBSET N, NEW x,
         IsTree(n, S, x), x # Null
  PROVE  Rearranged(N, n, S, Rebalance(n, x)) /\ Rebalance(n, x).top # Null
  <1>1. x \in S /\ x \in N
    BY TreeTop
  <1>2. Rearranged(N, n, S, Rebalance(n, x))
    <2>1. CASE Balance(n, x) = 2
      <3>1. n[x].left # Null /\ n[x].left \in N
        BY <1>1, <2>1, Depths, TreeFields
      <3>2. CASE Inner(n, n[x].left, "left")
        <4>1. n[n[x].left].right # Null
          BY <3>1, <3>2, Depths DEF Inner
        <4> DEFINE t == RotateLeft(n, n[x].left)
                   u == RotateRight([t.n EXCEPT ![x].left = t.top], x)
        <4>2. Rearranged(N, n, S, u)
          BY <1>1, <3>1, <4>1, RotateTwice
        <4>3. Rebalance(n, x) = u
          BY <2>1, <3>2 DEF Rebalance
        <4> HIDE DEF u
        <4> QED
          BY <4>2, <4>3
      <3>3. CASE ~ Inner(n, n[x].left, "left")
        BY <2>1, <3>1, <3>3, RotateRightTree DEF Rebalance
      <3> QED
        BY <3>2, <3>3
    <2>2. CASE Balance(n, x) = -2
      <3>1. n[x].right # Null /\ n[x].right \in N
        BY <1>1, <2>2, Depths, TreeFields
      <3>2. CASE Inner(n, n[x].right, "right")
        <4>1. n[n[x].right].left # Null
          BY <3>1, <3>2, Depths DEF Inner
        <4> DEFINE t == RotateRight(n, n[x].right)
                   u == RotateLeft([t.n EXCEPT ![x].right = t.top], x)
        <4>2. Rearranged(N, n, S, u)
          BY <1>1, <3>1, <4>1, RotateTwice
        <4>3. Rebalance(n, x) = u
          BY <2>2, <3>2 DEF Rebalance
        <4> HIDE DEF u
        <4> QED
          BY <4>2, <4>3
      <3>3. CASE ~ Inner(n, n[x].right, "right")
        BY <2>2, <3>1, <3>3, RotateLeftTree DEF Rebalance
      <3> QED
        BY <3>2, <3>3
    <2>3. CASE Balance(n, x) # 2 /\ Balance(n, x) # -2
      BY <2>3 DEF Rebalance, Rearranged
    <2> QED
      BY <2>1, <2>2, <2>3
  <1>3. Rebalance(n, x).top # Null
    BY <1>1, <1>2 DEF Rearranged, IsTree, Shape
  <1> QED
    BY <1>2, <1>3

\* ml_map_rebalance and ml_map_update_depth, as they follow each other.
LEMMA SettleTree ==
  ASSUME NEW N, Names(N), NEW n \in Trees(N), NEW S \in SUBSET N, NEW x, IsTree(n, S, x)
  PROVE  Rearranged(N, n, S, Settle(n, x))
  <1>1. CASE x = Null
    BY <1>1 DEF Settle, Rearranged
  <1>2. CASE x # Null
    <2> DEFINE m == UpdateDepth(n, x)
    <2>1. x \in S /\ x \in N
      BY <1>2, TreeTop
    <2>2. m \in Trees(N) /\ IsTree(m, S, x) /\ \A y \in N \ {x} : m[y] = n[y]
      BY <2>1, UpdateDepthKeeps
    <2> HIDE DEF m
    <2>3. Rearranged(N, m, S, Rebalance(m, x))
      BY <1>2, <2>2, RebalanceTree
    <2>4. Rearranged(N, n, S, Rebalance(m, x))
      BY <2>1, <2>2, <2>3 DEF Rearranged
    <2> QED
      BY <1>2, <2>4 DEF Settle, m
  <1> QED
    BY <1>1, <1>2

LEMMA RebalancedTree ==
  ASSUME NEW N, Names(N), NEW n \in Trees(N), NEW S \in SUBSET N, NEW x,
         IsTree(n, S, x), x # Null
  PROVE  LET r == Rebalance(n, x)
         IN  Rearranged(N, n, S, [n |-> UpdateDepth(r.n, r.top), top |-> r.top]) /\ r.top \in S
  <1> DEFINE r == Rebalance(n, x)
  <1>1. Rearranged(N, n, S, r) /\ r.top # Null
    BY RebalanceTree
  <1> HIDE DEF r
  <1>2. r.top \in S /\ r.top \in N /\ r.n \in Trees(N) /\ IsTree(r.n, S, r.top)
          /\ \A y \in N \ S : r.n[y] = n[y]
    BY <1>1, TreeTop DEF Rearranged
  <1>3. /\ UpdateDepth(r.n, r.top) \in Trees(N) /\ IsTree(UpdateDepth(r.n, r.top), S, r.top)
        /\ \A y \in N \ {r.top} : UpdateDepth(r.n, r.top)[y] = r.n[y]
    BY <1>2, UpdateDepthKeeps
  <1>4. Rearranged(N, n, S, [n |-> UpdateDepth(r.n, r.top), top |-> r.top])
    BY <1>2, <1>3 DEF Rearranged
  <1> QED
    BY <1>2, <1>4 DEF r

\* The nodes on the side of k, and those on the other side.
SideOf(x, k, L, R) == IF k < KeyOf(x) THEN L ELSE R
OtherOf(x, k, L, R) == IF k < KeyOf(x) THEN R ELSE L
SameSide(x, k, y) == IF k < KeyOf(x) THEN KeyOf(y) < KeyOf(x) ELSE KeyOf(x) < KeyOf(y)

LEMMA SideTree ==
  ASSUME NEW n, NEW S, NEW x, NEW L, NEW R, Parts(n, S, x, L, R), NEW k
  PROVE  /\ IsTree(n, SideOf(x, k, L, R), Side(n, x, k))
         /\ S = {x} \union SideOf(x, k, L, R) \union OtherOf(x, k, L, R)
         /\ x \notin SideOf(x, k, L, R) /\ x \notin OtherOf(x, k, L, R)
         /\ SideOf(x, k, L, R) \intersect OtherOf(x, k, L, R) = {}
         /\ \A y \in SideOf(x, k, L, R) : SameSide(x, k, y)
  BY DEF Parts, SideOf, OtherOf, Side, SameSide

\* In m there is a tree M for the side of k, and the other side O is as it was.
Fits(N, n, x, O, k, m, M, child) ==
  /\ m \in Trees(N) /\ m[x] = n[x] /\ \A y \in O : m[y] = n[y]
  /\ M \in SUBSET N /\ child \in N \union {Null} /\ IsTree(m, M, child)
  /\ \A y \in M : SameSide(x, k, y)

\* h is m with these below x.
Fitted(N, x, O, m, M, h) ==
  /\ h \in Trees(N) /\ IsTree(h, {x} \union M \union O, x) /\ x \notin M
  /\ \A y \in N \ {x} : h[y] = m[y]

LEMMA GraftSide ==
  ASSUME NEW N, Names(N), NEW n, NEW S \in SUBSET N, NEW x, NEW L, NEW R, Parts(n, S, x, L, R),
         NEW k, NEW m, NEW M, NEW child, Fits(N, n, x, OtherOf(x, k, L, R), k, m, M, child)
  PROVE  Fitted(N, x, OtherOf(x, k, L, R), m, M, SetSide(m, x, k, child))
  <1> /\ m \in Trees(N) /\ m[x] = n[x] /\ (\A y \in OtherOf(x, k, L, R) : m[y] = n[y])
      /\ M \in SUBSET N /\ child \in N \union {Null} /\ IsTree(m, M, child)
      /\ \A y \in M : SameSide(x, k, y)
    BY DEF Fits
  <1>1. x \in N /\ L \in SUBSET N /\ R \in SUBSET N
    BY DEF Parts
  <1>2. x \notin M
    <2>1. \A y \in M : KeyOf(y) \in Int
      BY NodesAre
    <2> QED
      BY <2>1 DEF SameSide
  <1>3. CASE k < KeyOf(x)
    <2>1. \A y \in M : KeyOf(y) < KeyOf(x)
      BY <1>3 DEF SameSide
    <2>2. \A y \in R : m[y] = n[y]
      BY <1>3 DEF OtherOf
    <2>3. Parts(WithLeft(m, x, child), {x} \union M \union R, x, M, R)
      BY <2>1, <2>2, GraftLeft
    <2>4. {x} \union M \union R \in SUBSET N
      BY <1>1
    <2>5. IsTree(WithLeft(m, x, child), {x} \union M \union R, x)
      BY <2>3, <2>4, Join
    <2>6. /\ WithLeft(m, x, child) \in Trees(N)
          /\ \A y \in N \ {x} : WithLeft(m, x, child)[y] = m[y]
      BY <1>1, SetLeft
    <2> QED
      BY <1>2, <1>3, <2>5, <2>6 DEF SetSide, Fitted, OtherOf, WithLeft
  <1>4. CASE ~ (k < KeyOf(x))
    <2>1. \A y \in M : KeyOf(x) < KeyOf(y)
      BY <1>4 DEF SameSide
    <2>2. \A y \in L : m[y] = n[y]
      BY <1>4 DEF OtherOf
    <2>3. Parts(WithRight(m, x, child), {x} \union L \union M, x, L, M)
      BY <2>1, <2>2, GraftRight
    <2>4. {x} \union L \union M \in SUBSET N /\ {x} \union L \union M = {x} \union M \union L
      BY <1>1
    <2>5. IsTree(WithRight(m, x, child), {x} \union M \union L, x)
      BY <2>3, <2>4, Join
    <2>6. /\ WithRight(m, x, child) \in Trees(N)
          /\ \A y \in N \ {x} : WithRight(m, x, child)[y] = m[y]
      BY <1>1, SetRight
    <2> QED
      BY <1>2, <1>4, <2>5, <2>6 DEF SetSide, Fitted, OtherOf, WithRight
  <1> QED
    BY <1>3, <1>4

------------------------------------------------------------------------------
(* What the operations of one node return, whatever the nodes are.          *)

Tops(N) == [n : Trees(N), top : N \union {Null}]

LEMMA RotateType ==
  ASSUME NEW N, Names(N), NEW n \in Trees(N), NEW x \in N
  PROVE  /\ n[x].right # Null => RotateLeft(n, x) \in Tops(N)
         /\ n[x].left # Null => RotateRight(n, x) \in Tops(N)
  <1>1. ASSUME n[x].right # Null
        PROVE  RotateLeft(n, x) \in Tops(N)
    <2> DEFINE ch == n[x].right
               a == n[ch].left
               h == WithRight(n, x, a)
               m == WithLeft(h, ch, x)
               u == UpdateDepth(m, x)
    <2>1. ch \in N /\ a \in N \union {Null}
      BY <1>1, TreeFields
    <2>2. RotateLeft(n, x) = [n |-> UpdateDepth(u, ch), top |-> ch]
      BY DEF RotateLeft, WithLeft, WithRight
    <2> HIDE DEF u, m, h, a, ch
    <2>3. h \in Trees(N)
      BY <2>1, SetRight DEF h
    <2>4. m \in Trees(N)
      BY <2>1, <2>3, SetLeft DEF m
    <2>5. u \in Trees(N)
      BY <2>4, UpdateDepthKeeps DEF u
    <2>6. UpdateDepth(u, ch) \in Trees(N)
      BY <2>1, <2>5, UpdateDepthKeeps
    <2> QED
      BY <2>1, <2>2, <2>6 DEF Tops
  <1>2. ASSUME n[x].left # Null
        PROVE  RotateRight(n, x) \in Tops(N)
    <2> DEFINE ch == n[x].left
               a == n[ch].right
               h == WithLeft(n, x, a)
               m == WithRight(h, ch, x)
               u == UpdateDepth(m, x)
    <2>1. ch \in N /\ a \in N \union {Null}
      BY <1>2, TreeFields
    <2>2. RotateRight(n, x) = [n |-> UpdateDepth(u, ch), top |-> ch]
      BY DEF RotateRight, WithLeft, WithRight
    <2> HIDE DEF u, m, h, a, ch
    <2>3. h \in Trees(N)
      BY <2>1, SetLeft DEF h
    <2>4. m \in Trees(N)
      BY <2>1, <2>3, SetRight DEF m
    <2>5. u \in Trees(N)
      BY <2>4, UpdateDepthKeeps DEF u
    <2>6. UpdateDepth(u, ch) \in Trees(N)
      BY <2>1, <2>5, UpdateDepthKeeps
    <2> QED
      BY <2>1, <2>2, <2>6 DEF Tops
  <1> QED
    BY <1>1, <1>2

LEMMA RebalanceType ==
  ASSUME NEW N, Names(N), NEW n \in Trees(N), NEW x \in N
  PROVE  Rebalance(n, x) \in Tops(N)
  <1>1. CASE Balance(n, x) = 2
    <2>1. n[x].left # Null /\ n[x].left \in N
      BY <1>1, Depths, TreeFields
    <2>2. CASE Inner(n, n[x].left, "left")
      <3> DEFINE t == RotateLeft(n, n[x].left)
                 h == [t.n EXCEPT ![x].left = t.top]
      <3>1. n[n[x].left].right # Null
        BY <2>1, <2>2, Depths DEF Inner
      <3>2. t \in Tops(N)
        BY <2>1, <3>1, RotateType
      <3>3. Rebalance(n, x) = RotateRight(h, x)
        BY <1>1, <2>2 DEF Rebalance
      <3>4. t.top # Null
        <4>1. t.top = n[n[x].left].right
          BY DEF RotateLeft
        <4> QED
          BY <2>2, <3>1, <4>1
      <3> HIDE DEF t
      <3>5. t.n \in Trees(N) /\ t.top \in N \union {Null} /\ h = WithLeft(t.n, x, t.top)
        BY <3>2 DEF Tops, WithLeft
      <3> HIDE DEF h
      <3>6. h \in Trees(N) /\ h[x].left = t.top
        <4> DEFINE m == t.n
                   c == t.top
        <4>1. m \in Trees(N) /\ c \in N \union {Null}
          BY <3>5
        <4> HIDE DEF m, c
        <4>2. WithLeft(m, x, c) \in Trees(N) /\ WithLeft(m, x, c)[x].left = c
          BY <4>1, SetLeft
        <4> QED
          BY <3>5, <4>2 DEF m, c
      <3> QED
        BY <3>3, <3>4, <3>6, RotateType
    <2>3. CASE ~ Inner(n, n[x].left, "left")
      BY <1>1, <2>1, <2>3, RotateType DEF Rebalance
    <2> QED
      BY <2>2, <2>3
  <1>2. CASE Balance(n, x) = -2
    <2>1. n[x].right # Null /\ n[x].right \in N
      BY <1>2, Depths, TreeFields
    <2>2. CASE Inner(n, n[x].right, "right")
      <3> DEFINE t == RotateRight(n, n[x].right)
                 h == [t.n EXCEPT ![x].right = t.top]
      <3>1. n[n[x].right].left # Null
        BY <2>1, <2>2, Depths DEF Inner
      <3>2. t \in Tops(N)
        BY <2>1, <3>1, RotateType
      <3>3. Rebalance(n, x) = RotateLeft(h, x)
        BY <1>2, <2>2 DEF Rebalance
      <3>4. t.top # Null
        <4>1. t.top = n[n[x].right].left
          BY DEF RotateRight
        <4> QED
          BY <3>1, <4>1
      <3> HIDE DEF t
      <3>5. t.n \in Trees(N) /\ t.top \in N \union {Null} /\ h = WithRight(t.n, x, t.top)
        BY <3>2 DEF Tops, WithRight
      <3> HIDE DEF h
      <3>6. h \in Trees(N) /\ h[x].right = t.top
        <4> DEFINE m == t.n
                   c == t.top
        <4>1. m \in Trees(N) /\ c \in N \union {Null}
          BY <3>5
        <4> HIDE DEF m, c
        <4>2. WithRight(m, x, c) \in Trees(N) /\ WithRight(m, x, c)[x].right = c
          BY <4>1, SetRight
        <4> QED
          BY <3>5, <4>2 DEF m, c
      <3> QED
        BY <3>3, <3>4, <3>6, RotateType
    <2>3. CASE ~ Inner(n, n[x].right, "right")
      BY <1>2, <2>1, <2>3, RotateType DEF Rebalance
    <2> QED
      BY <2>2, <2>3
  <1>3. CASE Balance(n, x) # 2 /\ Balance(n, x) # -2
    BY <1>3 DEF Rebalance, Tops
  <1> QED
    BY <1>1, <1>2, <1>3

LEMMA SettleType ==
  ASSUME NEW N, Names(N), NEW n \in Trees(N), NEW x \in N \union {Null}
  PROVE  Settle(n, x) \in Tops(N)
  <1>1. CASE x = Null
    BY <1>1 DEF Settle, Tops
  <1>2. CASE x # Null
    <2> DEFINE m == UpdateDepth(n, x)
    <2>1. x \in N /\ m \in Trees(N)
      BY <1>2, UpdateDepthKeeps
    <2> HIDE DEF m
    <2>2. Rebalance(m, x) \in Tops(N)
      BY <2>1, RebalanceType
    <2> QED
      BY <1>2, <2>2 DEF Settle, m
  <1> QED
    BY <1>1, <1>2

LEMMA SetSideType ==
  ASSUME NEW N, Names(N), NEW n \in Trees(N), NEW x \in N, NEW k, NEW child \in N \union {Null}
  PROVE  SetSide(n, x, k, child) \in Trees(N)
  <1>1. WithLeft(n, x, child) \in Trees(N)
    BY SetLeft
  <1>2. WithRight(n, x, child) \in Trees(N)
    BY SetRight
  <1> QED
    BY <1>1, <1>2 DEF SetSide, WithLeft, WithRight

------------------------------------------------------------------------------
(* The last node below another one.                                         *)

\* ml_map_remove_depth_helper
Spine(n) ==
  CHOOSE spine : spine = [x \in DOMAIN n |->
    IF n[x].right = Null THEN UpdateDepth(n, x) ELSE UpdateDepth(spine[n[x].right], x)]

LEMMA RemoveDepthIs ==
  ASSUME NEW n, NEW top
  PROVE  RemoveDepth(n, top) = IF top = Null THEN n ELSE Spine(n)[top]
  BY DEF RemoveDepth, Spine

LEMMA SpineUnfolds ==
  ASSUME NEW N, Names(N), NEW n \in Trees(N), NEW rank, Ranked(N, n, rank), NEW x \in N
  PROVE  /\ Spine(n)[x] \in Trees(N)
         /\ Spine(n)[x] = IF n[x].right = Null THEN UpdateDepth(n, x)
                          ELSE UpdateDepth(Spine(n)[n[x].right], x)
  <1> DEFINE D == DOMAIN n
             V == Trees(N)
             stop == {y \in N : n[y].right = Null}
             next == [y \in N |-> n[y].right]
             base == [y \in N |-> UpdateDepth(n, y)]
             step == [p \in N \X V |-> UpdateDepth(p[2], p[1])]
  <1>1. D = N
    BY DEF Trees
  <1>2. Descends(N, rank, stop, next)
    BY TreeFields DEF Descends, Ranked
  <1>3. Steps(N, V, base, step)
    BY UpdateDepthKeeps DEF Steps
  <1>4. /\ \A y \in N, u \in V : step[<<y, u>>] = UpdateDepth(u, y)
        /\ \A y \in N : base[y] = UpdateDepth(n, y) /\ next[y] = n[y].right
        /\ \A y \in N : y \in stop <=> n[y].right = Null
        /\ \A y \in N : n[y].right \in N \union {Null}
    BY TreeFields
  <1> HIDE DEF D, V, stop, next, base, step
  <1>5. PICK f \in [N -> V] : Solves(f, N, stop, next, base, step)
    BY <1>2, <1>3, Recursion
  <1>6. ASSUME NEW y \in N
        PROVE  f[y] = IF n[y].right = Null THEN UpdateDepth(n, y)
                      ELSE UpdateDepth(f[n[y].right], y)
    <2>1. f[y] = IF y \in stop THEN base[y] ELSE step[<<y, f[n[y].right]>>]
      BY <1>4, <1>5 DEF Solves
    <2>2. y \notin stop => f[n[y].right] \in V
      BY <1>4
    <2> QED
      BY <1>4, <2>1, <2>2
  <1>7. f = [y \in D |-> IF n[y].right = Null THEN UpdateDepth(n, y)
                         ELSE UpdateDepth(f[n[y].right], y)]
    BY <1>1, <1>6
  <1>8. Spine(n) = [y \in D |-> IF n[y].right = Null THEN UpdateDepth(n, y)
                                ELSE UpdateDepth(Spine(n)[n[y].right], y)]
    BY <1>7 DEF Spine, D
  <1>9. \A y \in N : Spine(n)[y] = IF n[y].right = Null THEN UpdateDepth(n, y)
                                 ELSE UpdateDepth(Spine(n)[n[y].right], y)
    BY <1>1, <1>8
  <1> DEFINE G == {y \in N : Spine(n)[y] \in Trees(N)}
  <1>10. N \subseteq G
    <2>1. ASSUME NEW y \in N, \A z \in N : rank[z] < rank[y] => z \in G
          PROVE  y \in G
      <3>1. n[y].right # Null => n[y].right \in G
        BY <2>1, TreeFields DEF Ranked
      <3>2. CASE n[y].right = Null
        BY <1>9, <3>2, UpdateDepthType
      <3>3. CASE n[y].right # Null
        <4>1. Spine(n)[n[y].right] \in Trees(N)
          BY <3>1, <3>3
        <4> QED
          BY <1>9, <3>3, <4>1, UpdateDepthType
      <3> QED
        BY <3>2, <3>3
    <2>2. rank \in [N -> Nat]
      BY DEF Ranked
    <2> HIDE DEF G
    <2> QED
      BY <2>1, <2>2, RankInduction
  <1> QED
    BY <1>9, <1>10

\* The nodes keep their places.
LEMMA SpineTree ==
  ASSUME NEW N, Names(N), NEW n \in Trees(N), NEW rank, Ranked(N, n, rank),
         NEW S \in SUBSET N, NEW top, IsTree(n, S, top)
  PROVE  Rearranged(N, n, S, [n |-> RemoveDepth(n, top), top |-> top])
  <1> DEFINE G == {U \in FiniteSubsetsOf(N) :
                     \A x \in N : IsTree(n, U, x) => Rearranged(N, n, U, [n |-> Spine(n)[x], top |-> x])}
  <1>1. ASSUME NEW U \in FiniteSubsetsOf(N),
               \A W \in FiniteSubsetsOf(N) : W \subseteq U /\ W # U => W \in G,
               NEW x \in N, IsTree(n, U, x)
        PROVE  Rearranged(N, n, U, [n |-> Spine(n)[x], top |-> x])
    <2>0. U \in SUBSET N /\ IsFiniteSet(U) /\ x # Null
      BY NodesAre DEF FiniteSubsetsOf
    <2>1. PICK L \in SUBSET U, R \in SUBSET U : Parts(n, U, x, L, R)
      BY <1>1, <2>0, Split
    <2>2. CASE n[x].right = Null
      <3>1. Spine(n)[x] = UpdateDepth(n, x)
        BY <2>2, SpineUnfolds
      <3>2. x \in U
        BY <2>1 DEF Parts
      <3> QED
        BY <1>1, <2>0, <3>1, <3>2, UpdateDepthKeeps DEF Rearranged
    <2>3. CASE n[x].right # Null
      <3> DEFINE m == Spine(n)[n[x].right]
      <3>1. Spine(n)[x] = UpdateDepth(m, x)
        BY <2>3, SpineUnfolds
      <3>2. R \in FiniteSubsetsOf(N) /\ R # U /\ n[x].right \in N /\ IsTree(n, R, n[x].right)
              /\ x \in U /\ x \notin R /\ x \notin L /\ L \intersect R = {}
        <4>1. x \in U /\ x \notin R /\ x \notin L /\ L \intersect R = {}
                /\ IsTree(n, R, n[x].right)
          BY <2>1 DEF Parts
        <4>2. IsFiniteSet(R)
          BY <4>1 DEF IsTree
        <4>3. n[x].right \in N
          BY <2>3, TreeFields
        <4> QED
          BY <2>0, <4>1, <4>2, <4>3 DEF FiniteSubsetsOf
      <3>3. Rearranged(N, n, R, [n |-> m, top |-> n[x].right])
        <4>1. R \in G
          BY <1>1, <3>2
        <4> QED
          BY <3>2, <4>1
      <3> HIDE DEF m
      <3>4. m \in Trees(N) /\ IsTree(m, R, n[x].right) /\ \A y \in N \ R : m[y] = n[y]
        BY <3>3 DEF Rearranged
      <3>5. m[x] = n[x] /\ (\A y \in L : m[y] = n[y]) /\ IsTree(m, L, n[x].left)
        <4>1. m[x] = n[x] /\ \A y \in L : m[y] = n[y]
          BY <2>0, <2>1, <3>2, <3>4
        <4>2. IsTree(n, L, n[x].left)
          BY <2>1 DEF Parts
        <4> QED
          BY <4>1, <4>2, KeepTree
      <3>6. Parts(m, U, x, L, R)
        BY <2>1, <3>4, <3>5 DEF Parts
      <3>7. IsTree(m, U, x)
        BY <2>0, <3>6, Join
      <3>8. /\ UpdateDepth(m, x) \in Trees(N) /\ IsTree(UpdateDepth(m, x), U, x)
            /\ \A y \in N \ {x} : UpdateDepth(m, x)[y] = m[y]
        BY <2>0, <3>4, <3>7, UpdateDepthKeeps
      <3> QED
        BY <3>1, <3>2, <3>4, <3>8 DEF Rearranged
    <2> QED
      BY <2>2, <2>3
  <1>2. FiniteSubsetsOf(N) \subseteq G
    <2>1. \A U \in FiniteSubsetsOf(N) :
            (\A W \in FiniteSubsetsOf(N) : W \subseteq U /\ W # U => W \in G) => U \in G
      BY <1>1
    <2> HIDE DEF G
    <2> QED
      BY <2>1, SetInduction
  <1>3. S \in FiniteSubsetsOf(N)
    BY DEF IsTree, FiniteSubsetsOf
  <1>4. CASE top = Null
    BY <1>4, RemoveDepthIs DEF Rearranged
  <1>5. CASE top # Null
    <2>1. top \in N
      BY <1>5, TreeTop
    <2> QED
      BY <1>2, <1>3, <1>5, <2>1, RemoveDepthIs
  <1> QED
    BY <1>4, <1>5

Cut(n) ==
  CHOOSE cut : cut = [x \in DOMAIN n |->
    IF n[x].right = Null THEN [n |-> n, top |-> n[x].left, last |-> x]
    ELSE LET r == cut[n[x].right]
         IN  [n |-> [r.n EXCEPT ![x].right = r.top], top |-> x, last |-> r.last]]

LEMMA WithoutLastIs ==
  ASSUME NEW n, NEW top
  PROVE  WithoutLast(n, top) = Cut(n)[top]
  BY DEF WithoutLast, Cut

\* The ranks of the nodes are still good after a cut.
Cuts(N, rank) == {c \in [n : Trees(N), top : N \union {Null}, last : N] : Ranked(N, c.n, rank)}

LEMMA CutUnfolds ==
  ASSUME NEW N, Names(N), NEW n \in Trees(N), NEW rank, Ranked(N, n, rank), NEW x \in N
  PROVE  /\ Cut(n)[x] \in Cuts(N, rank)
         /\ Cut(n)[x] = IF n[x].right = Null THEN [n |-> n, top |-> n[x].left, last |-> x]
                        ELSE LET r == Cut(n)[n[x].right]
                             IN  [n |-> WithRight(r.n, x, r.top), top |-> x, last |-> r.last]
  <1> DEFINE D == DOMAIN n
             V == [n : Trees(N), top : N \union {Null}, last : N]
             stop == {y \in N : n[y].right = Null}
             next == [y \in N |-> n[y].right]
             base == [y \in N |-> [n |-> n, top |-> n[y].left, last |-> y]]
             After(y, r) == [n |-> WithRight(r.n, y, r.top), top |-> y, last |-> r.last]
             step == [p \in N \X V |-> After(p[1], p[2])]
  <1>1. D = N
    BY DEF Trees
  <1>2. Descends(N, rank, stop, next)
    BY TreeFields DEF Descends, Ranked
  <1>3. ASSUME NEW y \in N, NEW r \in V
        PROVE  After(y, r) \in V
    <2> DEFINE m == r.n
               c == r.top
    <2>1. m \in Trees(N) /\ c \in N \union {Null}
      OBVIOUS
    <2> HIDE DEF m, c
    <2>2. WithRight(m, y, c) \in Trees(N)
      BY <2>1, SetRight
    <2> QED
      BY <2>2 DEF m, c
  <1>4. Steps(N, V, base, step)
    <2>1. \A y \in N : base[y] \in V
      BY TreeFields
    <2>2. \A y \in N, r \in V : step[<<y, r>>] = After(y, r)
      OBVIOUS
    <2> HIDE DEF step, base, V, After
    <2> QED
      BY <1>3, <2>1, <2>2 DEF Steps
  <1>5. /\ \A y \in N, r \in V : step[<<y, r>>] = After(y, r)
        /\ \A y \in N : base[y] = [n |-> n, top |-> n[y].left, last |-> y] /\ next[y] = n[y].right
        /\ \A y \in N : y \in stop <=> n[y].right = Null
        /\ \A y \in N : n[y].right \in N \union {Null}
    BY TreeFields
  <1> HIDE DEF D, V, stop, next, base, step, After
  <1>6. PICK f \in [N -> V] : Solves(f, N, stop, next, base, step)
    BY <1>2, <1>4, Recursion
  <1>7. ASSUME NEW y \in N
        PROVE  f[y] = IF n[y].right = Null THEN [n |-> n, top |-> n[y].left, last |-> y]
                      ELSE After(y, f[n[y].right])
    <2>1. f[y] = IF y \in stop THEN base[y] ELSE step[<<y, f[n[y].right]>>]
      BY <1>5, <1>6 DEF Solves
    <2>2. y \notin stop => f[n[y].right] \in V
      BY <1>5
    <2> QED
      BY <1>5, <2>1, <2>2
  <1>8. f = [y \in D |-> IF n[y].right = Null THEN [n |-> n, top |-> n[y].left, last |-> y]
                         ELSE After(y, f[n[y].right])]
    BY <1>1, <1>7
  <1>9. Cut(n) = [y \in D |-> IF n[y].right = Null THEN [n |-> n, top |-> n[y].left, last |-> y]
                              ELSE After(y, Cut(n)[n[y].right])]
    BY <1>8 DEF Cut, D, After, WithRight
  <1>10. \A y \in N : Cut(n)[y] = IF n[y].right = Null
                                  THEN [n |-> n, top |-> n[y].left, last |-> y]
                                  ELSE After(y, Cut(n)[n[y].right])
    BY <1>1, <1>9
  <1> DEFINE c(y) == Cut(n)[y]
             G == {y \in N : /\ Cut(n)[y] \in Cuts(N, rank)
                             /\ Cut(n)[y].top # Null => rank[Cut(n)[y].top] <= rank[y]}
  <1>11. N \subseteq G
    <2>1. ASSUME NEW y \in N, \A z \in N : rank[z] < rank[y] => z \in G
          PROVE  y \in G
      <3>0. rank \in [N -> Nat] /\ rank[y] \in Nat
        BY DEF Ranked
      <3>1. CASE n[y].right = Null
        <4>1. Cut(n)[y] = [n |-> n, top |-> n[y].left, last |-> y]
          BY <1>10, <3>1
        <4>2. Cut(n)[y] \in Cuts(N, rank)
          BY <4>1, TreeFields DEF Cuts
        <4>3. n[y].left # Null => rank[n[y].left] < rank[y] /\ rank[n[y].left] \in Nat
          BY <3>0, TreeFields DEF Ranked
        <4> QED
          BY <3>0, <4>1, <4>2, <4>3
      <3>2. CASE n[y].right # Null
        <4> DEFINE r == Cut(n)[n[y].right]
                   m == r.n
                   t == r.top
                   h == WithRight(m, y, t)
        <4>1. n[y].right \in N /\ rank[n[y].right] < rank[y] /\ rank[n[y].right] \in Nat
          BY <3>0, <3>2, TreeFields DEF Ranked
        <4>2. Cut(n)[y] = [n |-> h, top |-> y, last |-> r.last]
          BY <1>10, <3>2 DEF After
        <4>3. r \in Cuts(N, rank) /\ (t # Null => rank[t] <= rank[n[y].right])
          BY <2>1, <4>1
        <4>4. m \in Trees(N) /\ t \in N \union {Null} /\ r.last \in N /\ Ranked(N, m, rank)
          BY <4>3 DEF Cuts
        <4> HIDE DEF h, t, m, r
        <4>5. t # Null => rank[t] < rank[y]
          <5>1. t # Null => rank[t] \in Nat
            BY <3>0, <4>4
          <5> QED
            BY <3>0, <4>1, <4>3, <5>1
        <4>6. h \in Trees(N) /\ h[y].left = m[y].left /\ h[y].right = t
                /\ \A z \in N \ {y} : h[z] = m[z]
          <5>1. m \in Trees(N) /\ t \in N \union {Null}
            BY <4>4
          <5> QED
            BY <5>1, SetRight DEF h
        <4>7. Ranked(N, h, rank)
          BY <3>0, <4>4, <4>5, <4>6 DEF Ranked
        <4> QED
          BY <3>0, <4>2, <4>4, <4>6, <4>7 DEF Cuts
      <3> QED
        BY <3>1, <3>2
    <2>2. rank \in [N -> Nat]
      BY DEF Ranked
    <2> HIDE DEF G
    <2> QED
      BY <2>1, <2>2, RankInduction
  <1> QED
    BY <1>10, <1>11 DEF After

\* c is the tree of S without its last node.
IsCut(N, n, S, c) ==
  /\ c.last \in S /\ IsTree(c.n, S \ {c.last}, c.top)
  /\ \A y \in S \ {c.last} : KeyOf(y) < KeyOf(c.last)
  /\ c.n[c.last] = n[c.last] /\ \A y \in N \ S : c.n[y] = n[y]

LEMMA CutTree ==
  ASSUME NEW N, Names(N), NEW n \in Trees(N), NEW rank, Ranked(N, n, rank),
         NEW S \in SUBSET N, NEW top, IsTree(n, S, top), top # Null
  PROVE  IsCut(N, n, S, Cut(n)[top])
  <1> DEFINE Holds(U, x) == IsCut(N, n, U, Cut(n)[x])
             G == {U \in FiniteSubsetsOf(N) : \A x \in N : IsTree(n, U, x) => Holds(U, x)}
  <1>1. ASSUME NEW U \in FiniteSubsetsOf(N),
               \A W \in FiniteSubsetsOf(N) : W \subseteq U /\ W # U => W \in G,
               NEW x \in N, IsTree(n, U, x)
        PROVE  Holds(U, x)
    <2>0. U \in SUBSET N /\ IsFiniteSet(U) /\ x # Null
      BY NodesAre DEF FiniteSubsetsOf
    <2>1. PICK L \in SUBSET U, R \in SUBSET U : Parts(n, U, x, L, R)
      BY <1>1, <2>0, Split
    <2>2. x \in U /\ x \notin R /\ x \notin L /\ L \intersect R = {} /\ U = {x} \union L \union R
            /\ IsTree(n, R, n[x].right) /\ IsTree(n, L, n[x].left)
            /\ (\A y \in L : KeyOf(y) < KeyOf(x)) /\ \A y \in R : KeyOf(x) < KeyOf(y)
      BY <2>1 DEF Parts
    <2>3. CASE n[x].right = Null
      <3>1. Cut(n)[x] = [n |-> n, top |-> n[x].left, last |-> x]
        BY <2>3, CutUnfolds
      <3>2. R = {} /\ U \ {x} = L
        BY <2>2, <2>3, EmptyTree
      <3> QED
        BY <2>2, <3>1, <3>2 DEF IsCut
    <2>4. CASE n[x].right # Null
      <3> DEFINE r == Cut(n)[n[x].right]
                 m == r.n
                 t == r.top
                 M == R \ {r.last}
                 h == WithRight(m, x, t)
      <3>1. Cut(n)[x] = [n |-> h, top |-> x, last |-> r.last]
        BY <2>4, CutUnfolds
      <3>2. R \in FiniteSubsetsOf(N) /\ R # U /\ n[x].right \in N
        <4>1. IsFiniteSet(R)
          BY <2>2 DEF IsTree
        <4>2. n[x].right \in N
          BY <2>4, TreeFields
        <4> QED
          BY <2>0, <2>2, <4>1, <4>2 DEF FiniteSubsetsOf
      <3>3. r \in Cuts(N, rank)
        BY <3>2, CutUnfolds
      <3>4. Holds(R, n[x].right)
        <4>1. R \in G
          BY <1>1, <3>2
        <4> HIDE DEF Holds
        <4> QED
          BY <2>2, <3>2, <4>1
      <3>5. /\ r.last \in R /\ IsTree(m, M, t) /\ (\A y \in M : KeyOf(y) < KeyOf(r.last))
            /\ m[r.last] = n[r.last] /\ \A y \in N \ R : m[y] = n[y]
        BY <3>4 DEF IsCut
      <3>6. m \in Trees(N) /\ t \in N \union {Null}
        BY <3>3 DEF Cuts
      <3> HIDE DEF h, t, m, r, Holds
      <3>7. M \in SUBSET N /\ (\A y \in M : KeyOf(x) < KeyOf(y)) /\ m[x] = n[x]
              /\ \A y \in L : m[y] = n[y]
        BY <2>0, <2>2, <3>5
      <3>8. Parts(h, {x} \union L \union M, x, L, M)
        <4> HIDE DEF M
        <4> QED
          BY <2>0, <2>1, <3>5, <3>6, <3>7, GraftRight DEF h
      <3>9. {x} \union L \union M = U \ {r.last} /\ r.last # x /\ r.last \in N /\ r.last \in U
        BY <2>0, <2>2, <3>5
      <3>10. IsTree(h, U \ {r.last}, x)
        <4>1. U \ {r.last} \in SUBSET N
          BY <2>0
        <4> HIDE DEF M
        <4> QED
          BY <3>8, <3>9, <4>1, Join
      <3>11. \A y \in N \ {x} : h[y] = m[y]
        <4>1. x \in N /\ m \in Trees(N) /\ t \in N \union {Null}
          BY <3>6
        <4> QED
          BY <4>1, SetRight DEF h
      <3>12. \A y \in U \ {r.last} : KeyOf(y) < KeyOf(r.last)
        <4>1. KeyOf(x) < KeyOf(r.last)
          BY <2>2, <3>5
        <4>2. \A y \in L : KeyOf(y) < KeyOf(r.last)
          <5>1. \A y \in L : y \in N /\ KeyOf(y) < KeyOf(x)
            BY <2>0, <2>2
          <5> QED
            BY <3>9, <4>1, <5>1, Transitive
        <4> QED
          BY <2>2, <3>5, <4>1, <4>2
      <3>13. h[r.last] = n[r.last] /\ \A y \in N \ U : h[y] = n[y]
        BY <2>2, <3>5, <3>9, <3>11
      <3> QED
        BY <3>1, <3>9, <3>10, <3>12, <3>13 DEF Holds, IsCut
    <2> QED
      BY <2>3, <2>4
  <1> HIDE DEF Holds
  <1>2. FiniteSubsetsOf(N) \subseteq G
    <2>1. \A U \in FiniteSubsetsOf(N) :
            (\A W \in FiniteSubsetsOf(N) : W \subseteq U /\ W # U => W \in G) => U \in G
      BY <1>1
    <2> HIDE DEF G
    <2> QED
      BY <2>1, SetInduction
  <1>3. S \in FiniteSubsetsOf(N) /\ top \in N
    BY TreeTop DEF IsTree, FiniteSubsetsOf
  <1>4. Holds(S, top)
    BY <1>2, <1>3
  <1> QED
    BY <1>4 DEF Holds

------------------------------------------------------------------------------
(* Removal.                                                                  *)

LEMMA ReplacedParts ==
  ASSUME NEW N, Names(N), NEW n \in Trees(N), NEW rank, Ranked(N, n, rank), NEW x \in N,
         n[x].left # Null
  PROVE  LET c == Cut(n)[n[x].left]
             m == RemoveDepth(c.n, c.top)
         IN  /\ Replaced(n, x) = [n |-> WithRight(WithLeft(m, c.last, c.top), c.last, n[x].right),
                                  top |-> c.last]
             /\ c \in Cuts(N, rank) /\ m \in Trees(N)
  <1>1. n[x].left \in N
    BY TreeFields
  <1> DEFINE c == Cut(n)[n[x].left]
             m == RemoveDepth(c.n, c.top)
  <1>2. c \in Cuts(N, rank)
    BY <1>1, CutUnfolds
  <1>3. WithoutLast(n, n[x].left) = c
    BY WithoutLastIs
  <1>4. Replaced(n, x) = [n |-> WithRight(WithLeft(m, c.last, c.top), c.last, n[x].right),
                          top |-> c.last]
    <2>1. Replaced(n, x) = [n |-> [m EXCEPT ![c.last].left = c.top, ![c.last].right = n[x].right],
                            top |-> c.last]
      BY <1>3 DEF Replaced
    <2> HIDE DEF c, m
    <2> QED
      BY <2>1 DEF WithLeft, WithRight
  <1>5. m \in Trees(N)
    <2> HIDE DEF c
    <2>1. c.n \in Trees(N) /\ Ranked(N, c.n, rank) /\ c.top \in N \union {Null}
      BY <1>2 DEF Cuts
    <2>2. c.top \in N => Spine(c.n)[c.top] \in Trees(N)
      BY <2>1, SpineUnfolds
    <2> QED
      BY <2>1, <2>2, RemoveDepthIs
  <1> HIDE DEF c, m
  <1> QED
    BY <1>2, <1>4, <1>5 DEF c, m

LEMMA WithoutTopType ==
  ASSUME NEW N, Names(N), NEW n \in Trees(N), NEW rank, Ranked(N, n, rank), NEW x \in N
  PROVE  WithoutTop(n, x) \in Tops(N)
  <1>1. CASE n[x].left # Null /\ n[x].right # Null
    <2> DEFINE c == Cut(n)[n[x].left]
               m == RemoveDepth(c.n, c.top)
               t == c.top
               y == c.last
               z == n[x].right
               h == WithLeft(m, y, t)
    <2>1. c \in Cuts(N, rank) /\ m \in Trees(N)
            /\ Replaced(n, x) = [n |-> WithRight(h, y, z), top |-> y]
      BY <1>1, ReplacedParts
    <2>2. z \in N \union {Null}
      BY TreeFields
    <2> HIDE DEF c, m, h, z
    <2>3. t \in N \union {Null} /\ y \in N
      BY <2>1 DEF Cuts
    <2> HIDE DEF t, y
    <2>4. h \in Trees(N)
      BY <2>1, <2>3, SetLeft DEF h
    <2>5. WithRight(h, y, z) \in Trees(N)
      BY <2>2, <2>3, <2>4, SetRight
    <2> QED
      BY <1>1, <2>1, <2>3, <2>5 DEF WithoutTop, Tops
  <1>2. CASE ~ (n[x].left # Null /\ n[x].right # Null)
    BY <1>2, TreeFields DEF WithoutTop, Tops
  <1> QED
    BY <1>1, <1>2

\* s is the tree of S without x.
IsLess(N, n, S, x, s) ==
  /\ s.n \in Trees(N) /\ IsTree(s.n, S \ {x}, s.top)
  /\ \A y \in N \ S : s.n[y] = n[y]

LEMMA WithoutTopTree ==
  ASSUME NEW N, Names(N), NEW n \in Trees(N), NEW rank, Ranked(N, n, rank),
         NEW S \in SUBSET N, NEW x, IsTree(n, S, x), x # Null
  PROVE  IsLess(N, n, S, x, WithoutTop(n, x))
  <1>1. PICK L \in SUBSET S, R \in SUBSET S : Parts(n, S, x, L, R)
    BY Split
  <1>2. /\ x \in S /\ x \in N /\ x \notin L /\ x \notin R /\ S = {x} \union L \union R
        /\ L \in SUBSET N /\ R \in SUBSET N /\ L \intersect R = {}
        /\ IsTree(n, L, n[x].left) /\ IsTree(n, R, n[x].right)
        /\ (\A y \in L : KeyOf(y) < KeyOf(x)) /\ \A y \in R : KeyOf(x) < KeyOf(y)
    BY <1>1 DEF Parts
  <1>3. CASE n[x].left # Null /\ n[x].right # Null
    <2> DEFINE c == Cut(n)[n[x].left]
               u == c.n
               t == c.top
               y == c.last
               m == RemoveDepth(u, t)
               z == n[x].right
               h == WithLeft(m, y, t)
               g == WithRight(h, y, z)
               M == L \ {y}
    <2>1. c \in Cuts(N, rank) /\ Replaced(n, x) = [n |-> g, top |-> y]
      BY <1>2, <1>3, ReplacedParts
    <2>2. y \in L /\ IsTree(u, M, t) /\ (\A a \in M : KeyOf(a) < KeyOf(y))
            /\ u[y] = n[y] /\ \A a \in N \ L : u[a] = n[a]
      <3>1. IsCut(N, n, L, c)
        BY <1>2, <1>3, CutTree
      <3> QED
        BY <3>1 DEF IsCut
    <2>3. z \in N \union {Null} /\ IsTree(n, R, z)
      BY <1>2, TreeFields
    <2> HIDE DEF c, m, h, g, z
    <2>4. u \in Trees(N) /\ Ranked(N, u, rank) /\ t \in N \union {Null}
      BY <2>1 DEF Cuts
    <2> HIDE DEF u, t, y
    <2>5. m \in Trees(N) /\ IsTree(m, M, t) /\ \A a \in N \ M : m[a] = u[a]
      <3>1. M \in SUBSET N
        BY <1>2
      <3> HIDE DEF M
      <3>2. Rearranged(N, u, M, [n |-> m, top |-> t])
        BY <2>2, <2>4, <3>1, SpineTree DEF m
      <3> QED
        BY <3>2 DEF Rearranged
    <2>6. y \in N /\ M \in SUBSET N /\ y \notin M /\ y \notin R
      BY <1>2, <2>2
    <2>7. /\ h \in Trees(N) /\ h[y].left = t /\ h[y].right = m[y].right /\ h[y].depth = m[y].depth
          /\ \A a \in N \ {y} : h[a] = m[a]
      BY <2>4, <2>5, <2>6, SetLeft DEF h
    <2>8. /\ g \in Trees(N) /\ g[y].left = h[y].left /\ g[y].right = z /\ g[y].depth = h[y].depth
          /\ \A a \in N \ {y} : g[a] = h[a]
      BY <2>3, <2>6, <2>7, SetRight DEF g
    <2>9. /\ g \in Trees(N) /\ g[y].left = t /\ g[y].right = z /\ g[y].depth = n[y].depth
          /\ (\A a \in M : g[a] = m[a]) /\ \A a \in N \ L : g[a] = n[a]
      <3>1. m[y] = n[y]
        BY <2>2, <2>5, <2>6
      <3>2. \A a \in N \ {y} : g[a] = m[a]
        BY <2>7, <2>8
      <3>3. \A a \in N \ L : a # y /\ m[a] = n[a]
        BY <2>2, <2>5
      <3> QED
        BY <2>6, <2>7, <2>8, <3>1, <3>2, <3>3
    <2>10. IsTree(g, M, t) /\ IsTree(g, R, z)
      <3>1. \A a \in R : g[a] = n[a]
        BY <1>2, <2>9
      <3>2. IsTree(g, M, t)
        BY <2>5, <2>9, KeepTree
      <3> QED
        BY <2>3, <3>1, <3>2, KeepTree
    <2>11. \A a \in R : KeyOf(y) < KeyOf(a)
      <3>1. KeyOf(y) < KeyOf(x) /\ \A a \in R : a \in N /\ KeyOf(x) < KeyOf(a)
        BY <1>2, <2>2
      <3> QED
        BY <1>2, <2>6, <3>1, Transitive
    <2>12. n[y].depth > 0 /\ y # Null
      <3>1. PICK sub : Shape(n, L, n[x].left, sub)
        BY <1>2 DEF IsTree
      <3>2. n[y].depth > 0
        BY <2>2, <3>1 DEF Shape
      <3> QED
        BY <2>6, <3>2, NodesAre
    <2>13. S \ {x} = {y} \union M \union R /\ M \intersect R = {} /\ S \ {x} \in SUBSET N
      BY <1>2, <2>2
    <2>14. Parts(g, S \ {x}, y, M, R)
      BY <2>2, <2>6, <2>9, <2>10, <2>11, <2>12, <2>13 DEF Parts
    <2>15. IsTree(g, S \ {x}, y)
      BY <2>13, <2>14, Join
    <2>16. \A a \in N \ S : g[a] = n[a]
      BY <1>2, <2>9
    <2> QED
      BY <1>3, <2>1, <2>9, <2>15, <2>16 DEF WithoutTop, IsLess
  <1>4. CASE n[x].left = Null
    <2>1. L = {} /\ S \ {x} = R
      BY <1>2, <1>4, EmptyTree
    <2> QED
      BY <1>2, <1>4, <2>1 DEF WithoutTop, IsLess
  <1>5. CASE n[x].left # Null /\ n[x].right = Null
    <2>1. R = {} /\ S \ {x} = L
      BY <1>2, <1>5, EmptyTree
    <2> QED
      BY <1>2, <1>5, <2>1 DEF WithoutTop, IsLess
  <1> QED
    BY <1>3, <1>4, <1>5

\* ml_map_remove_internal, at the key and above it.
AtKey(n, x) == LET s == WithoutTop(n, x) IN Settle([s.n EXCEPT ![x] = Blank], s.top)
AboveKey(x, k, r) == Settle(SetSide(r.n, x, k, r.top), x)
NoSide(n) == [n |-> n, top |-> Null]

Below(n, k) ==
  CHOOSE below : below = [x \in DOMAIN n |->
    LET side == Side(n, x, k)
        s == WithoutTop(n, x)
        r == IF side = Null THEN [n |-> n, top |-> Null] ELSE below[side]
    IN  IF KeyOf(x) = k THEN Settle([s.n EXCEPT ![x] = Blank], s.top)
        ELSE Settle(SetSide(r.n, x, k, r.top), x)]

LEMMA RemoveBelowIs ==
  ASSUME NEW n, NEW x, NEW k
  PROVE  RemoveBelow(n, x, k) = Below(n, k)[x]
  BY DEF RemoveBelow, Below

LEMMA AtKeyType ==
  ASSUME NEW N, Names(N), NEW n \in Trees(N), NEW rank, Ranked(N, n, rank), NEW x \in N
  PROVE  AtKey(n, x) \in Tops(N)
  <1> DEFINE s == WithoutTop(n, x)
             m == s.n
             t == s.top
             h == [m EXCEPT ![x] = Blank]
  <1>1. s \in Tops(N)
    BY WithoutTopType
  <1>2. AtKey(n, x) = Settle(h, t)
    BY DEF AtKey
  <1> HIDE DEF s, h
  <1>3. m \in Trees(N) /\ t \in N \union {Null}
    BY <1>1 DEF Tops
  <1> HIDE DEF m, t
  <1>4. h \in Trees(N)
    BY <1>3 DEF h, Trees, Fields, Blank
  <1> QED
    BY <1>2, <1>3, <1>4, SettleType

LEMMA AboveKeyType ==
  ASSUME NEW N, Names(N), NEW x \in N, NEW k, NEW r \in Tops(N)
  PROVE  AboveKey(x, k, r) \in Tops(N)
  <1> DEFINE m == r.n
             t == r.top
             h == SetSide(m, x, k, t)
  <1>1. m \in Trees(N) /\ t \in N \union {Null}
    BY DEF Tops
  <1>2. AboveKey(x, k, r) = Settle(h, x)
    BY DEF AboveKey
  <1> HIDE DEF m, t, h
  <1>3. h \in Trees(N)
    BY <1>1, SetSideType DEF h
  <1> QED
    BY <1>2, <1>3, SettleType

LEMMA BelowUnfolds ==
  ASSUME NEW N, Names(N), NEW n \in Trees(N), NEW rank, Ranked(N, n, rank), NEW k, NEW x \in N
  PROVE  Below(n, k)[x] =
           IF KeyOf(x) = k THEN AtKey(n, x)
           ELSE AboveKey(x, k, IF Side(n, x, k) = Null THEN NoSide(n)
                               ELSE Below(n, k)[Side(n, x, k)])
  <1> DEFINE D == DOMAIN n
             V == Tops(N)
             stop == {y \in N : KeyOf(y) = k \/ Side(n, y, k) = Null}
             next == [y \in N |-> Side(n, y, k)]
             base == [y \in N |-> IF KeyOf(y) = k THEN AtKey(n, y) ELSE AboveKey(y, k, NoSide(n))]
             step == [p \in N \X V |-> AboveKey(p[1], k, p[2])]
  <1>1. D = N
    BY DEF Trees
  <1>2. Descends(N, rank, stop, next)
    BY SideFields DEF Descends, Ranked
  <1>3. Steps(N, V, base, step)
    <2>1. NoSide(n) \in V
      BY DEF NoSide, Tops
    <2>2. \A y \in N : base[y] \in V
      <3> HIDE DEF V
      <3>1. \A y \in N : AtKey(n, y) \in V /\ AboveKey(y, k, NoSide(n)) \in V
        BY <2>1, AtKeyType, AboveKeyType DEF V
      <3> QED
        BY <3>1
    <2>3. \A y \in N, r \in V : step[<<y, r>>] \in V
      BY AboveKeyType
    <2> HIDE DEF V, base, step
    <2> QED
      BY <2>2, <2>3 DEF Steps
  <1>4. /\ \A y \in N, r \in V : step[<<y, r>>] = AboveKey(y, k, r)
        /\ \A y \in N : base[y] = (IF KeyOf(y) = k THEN AtKey(n, y) ELSE AboveKey(y, k, NoSide(n)))
                          /\ next[y] = Side(n, y, k)
        /\ \A y \in N : y \in stop <=> KeyOf(y) = k \/ Side(n, y, k) = Null
        /\ \A y \in N : Side(n, y, k) \in N \union {Null}
    BY SideFields
  <1> HIDE DEF D, V, stop, next, base, step
  <1>5. PICK f \in [N -> V] : Solves(f, N, stop, next, base, step)
    BY <1>2, <1>3, Recursion
  <1> DEFINE Body(g, y) == IF KeyOf(y) = k THEN AtKey(n, y)
                           ELSE AboveKey(y, k, IF Side(n, y, k) = Null THEN NoSide(n)
                                               ELSE g[Side(n, y, k)])
  <1>6. ASSUME NEW y \in N
        PROVE  f[y] = Body(f, y)
    <2>1. f[y] = IF y \in stop THEN base[y] ELSE step[<<y, f[Side(n, y, k)]>>]
      BY <1>4, <1>5 DEF Solves
    <2>2. y \notin stop => f[Side(n, y, k)] \in V
      BY <1>4
    <2> QED
      BY <1>4, <2>1, <2>2
  <1>7. f = [y \in D |-> Body(f, y)]
    <2> HIDE DEF Body
    <2> QED
      BY <1>1, <1>6
  <1>8. f = [y \in D |->
              LET side == Side(n, y, k)
                  s == WithoutTop(n, y)
                  r == IF side = Null THEN [n |-> n, top |-> Null] ELSE f[side]
              IN  IF KeyOf(y) = k THEN Settle([s.n EXCEPT ![y] = Blank], s.top)
                  ELSE Settle(SetSide(r.n, y, k, r.top), y)]
    BY <1>7 DEF AtKey, AboveKey, NoSide
  <1>9. Below(n, k) = [y \in D |->
              LET side == Side(n, y, k)
                  s == WithoutTop(n, y)
                  r == IF side = Null THEN [n |-> n, top |-> Null] ELSE Below(n, k)[side]
              IN  IF KeyOf(y) = k THEN Settle([s.n EXCEPT ![y] = Blank], s.top)
                  ELSE Settle(SetSide(r.n, y, k, r.top), y)]
    BY <1>8 DEF Below, D
  <1>10. Below(n, k) = [y \in D |-> Body(Below(n, k), y)]
    BY <1>9 DEF AtKey, AboveKey, NoSide
  <1> QED
    BY <1>1, <1>10

LEMMA OtherKeys ==
  ASSUME NEW N, Names(N), NEW n, NEW S \in SUBSET N, NEW x, NEW L, NEW R, Parts(n, S, x, L, R),
         NEW k \in Int
  PROVE  /\ KeyOf(x) # k => \A y \in OtherOf(x, k, L, R) : KeyOf(y) # k
         /\ KeyOf(x) = k => \A y \in S \ {x} : KeyOf(y) # k
  <1>1. x \in S /\ S = {x} \union L \union R /\ (\A y \in L : KeyOf(y) < KeyOf(x))
          /\ \A y \in R : KeyOf(x) < KeyOf(y)
    BY DEF Parts
  <1>2. \A y \in S : KeyOf(y) \in Int
    BY NodesAre
  <1> QED
    BY <1>1, <1>2 DEF OtherOf

WithKey(S, k) == {y \in S : KeyOf(y) = k}

\* r is the tree of S without the node of k.
Pruned(N, n, S, k, r) ==
  /\ r.n \in Trees(N) /\ r.top \in N \union {Null}
  /\ IsTree(r.n, S \ WithKey(S, k), r.top)
  /\ (\A y \in N \ S : r.n[y] = n[y]) /\ \A y \in WithKey(S, k) : r.n[y] = Blank

LEMMA BelowTree ==
  ASSUME NEW N, Names(N), NEW n \in Trees(N), NEW rank, Ranked(N, n, rank), NEW k \in Int,
         NEW S \in SUBSET N, NEW top, IsTree(n, S, top), top # Null
  PROVE  Pruned(N, n, S, k, RemoveBelow(n, top, k))
  <1> DEFINE Holds(U, r) ==
               /\ r.n \in Trees(N) /\ r.top \in N \union {Null}
               /\ IsTree(r.n, U \ WithKey(U, k), r.top)
               /\ (\A y \in N \ U : r.n[y] = n[y]) /\ \A y \in WithKey(U, k) : r.n[y] = Blank
             G == {U \in FiniteSubsetsOf(N) :
                     \A x \in N : IsTree(n, U, x) => Holds(U, Below(n, k)[x])}
  <1>1. ASSUME NEW U \in FiniteSubsetsOf(N),
               \A W \in FiniteSubsetsOf(N) : W \subseteq U /\ W # U => W \in G,
               NEW x \in N, IsTree(n, U, x)
        PROVE  Holds(U, Below(n, k)[x])
    <2>0. U \in SUBSET N /\ IsFiniteSet(U) /\ x # Null
      BY NodesAre DEF FiniteSubsetsOf
    <2>1. PICK L \in SUBSET U, R \in SUBSET U : Parts(n, U, x, L, R)
      BY <1>1, <2>0, Split
    <2>2. x \in U
      BY <2>1 DEF Parts
    <2>3. CASE KeyOf(x) = k
      <3> DEFINE s == WithoutTop(n, x)
                 m == s.n
                 t == s.top
                 h == [m EXCEPT ![x] = Blank]
                 r == Settle(h, t)
      <3>1. Below(n, k)[x] = r
        BY <2>3, BelowUnfolds DEF AtKey
      <3>2. m \in Trees(N) /\ IsTree(m, U \ {x}, t) /\ \A y \in N \ U : m[y] = n[y]
        <4>1. IsLess(N, n, U, x, s)
          BY <1>1, <2>0, WithoutTopTree
        <4> QED
          BY <4>1 DEF IsLess
      <3>3. WithKey(U, k) = {x}
        BY <2>0, <2>1, <2>2, <2>3, OtherKeys DEF WithKey
      <3> HIDE DEF m, t, r
      <3>4. h \in Trees(N) /\ h[x] = Blank /\ \A y \in N \ {x} : h[y] = m[y]
        BY <3>2 DEF Trees, Fields, Blank
      <3> HIDE DEF h
      <3>5. IsTree(h, U \ {x}, t) /\ U \ {x} \in SUBSET N
        <4>1. \A y \in U \ {x} : h[y] = m[y]
          BY <2>0, <3>4
        <4> QED
          BY <2>0, <3>2, <4>1, KeepTree
      <3>6. Rearranged(N, h, U \ {x}, r)
        BY <3>4, <3>5, SettleTree DEF r
      <3>7. r.n \in Trees(N) /\ IsTree(r.n, U \ {x}, r.top)
              /\ \A y \in N \ (U \ {x}) : r.n[y] = h[y]
        BY <3>6 DEF Rearranged
      <3>8. r.top \in N \union {Null}
        BY <3>5, <3>7, TreeTop
      <3>9. (\A y \in N \ U : r.n[y] = n[y]) /\ r.n[x] = Blank
        BY <2>2, <3>2, <3>4, <3>7
      <3> QED
        BY <3>1, <3>3, <3>7, <3>8, <3>9
    <2>4. CASE KeyOf(x) # k
      <3> DEFINE C == SideOf(x, k, L, R)
                 O == OtherOf(x, k, L, R)
                 side == Side(n, x, k)
                 r == IF side = Null THEN NoSide(n) ELSE Below(n, k)[side]
                 m == r.n
                 t == r.top
                 M == C \ WithKey(C, k)
                 h == SetSide(m, x, k, t)
                 u == Settle(h, x)
      <3>1. Below(n, k)[x] = u
        BY <2>4, BelowUnfolds DEF AboveKey
      <3>2. /\ IsTree(n, C, side) /\ U = {x} \union C \union O /\ x \notin C /\ x \notin O
            /\ C \intersect O = {} /\ \A y \in C : SameSide(x, k, y)
        BY <2>1, SideTree
      <3>3. \A y \in O : KeyOf(y) # k
        BY <2>0, <2>1, <2>4, OtherKeys
      <3> HIDE DEF C, O, side
      <3>4. Holds(C, r)
        <4>1. CASE side = Null
          <5>1. C = {}
            BY <3>2, <4>1, EmptyTree
          <5>2. IsTree(n, {}, Null) /\ WithKey({}, k) = {}
            BY EmptyTree DEF WithKey
          <5> QED
            BY <4>1, <5>1, <5>2 DEF NoSide
        <4>2. CASE side # Null
          <5>1. C \in FiniteSubsetsOf(N) /\ C # U
            <6>1. IsFiniteSet(C)
              BY <3>2 DEF IsTree
            <6> QED
              BY <2>0, <2>2, <3>2, <6>1 DEF FiniteSubsetsOf
          <5>2. side \in N
            BY <2>0, <3>2, <4>2, TreeTop
          <5>3. C \in G
            BY <1>1, <3>2, <5>1
          <5> HIDE DEF Holds
          <5> QED
            BY <3>2, <4>2, <5>2, <5>3
        <4> QED
          BY <4>1, <4>2
      <3> HIDE DEF r
      <3>5. /\ m \in Trees(N) /\ t \in N \union {Null} /\ IsTree(m, M, t)
            /\ (\A y \in N \ C : m[y] = n[y]) /\ \A y \in WithKey(C, k) : m[y] = Blank
        BY <3>4
      <3> HIDE DEF m, t, h, u, Holds
      <3>6. /\ M \in SUBSET N /\ (\A y \in M : SameSide(x, k, y)) /\ m[x] = n[x]
            /\ \A y \in O : m[y] = n[y]
        BY <2>0, <2>2, <3>2, <3>5
      <3>7. /\ IsTree(h, {x} \union M \union O, x) /\ h \in Trees(N)
            /\ \A y \in N \ {x} : h[y] = m[y]
        <4> HIDE DEF M
        <4>1. Fits(N, n, x, OtherOf(x, k, L, R), k, m, M, t)
          BY <3>5, <3>6 DEF Fits, O
        <4>2. Fitted(N, x, O, m, M, h)
          BY <2>0, <2>1, <4>1, GraftSide DEF O, h
        <4> QED
          BY <4>2 DEF Fitted
      <3>8. /\ {x} \union M \union O = U \ WithKey(U, k) /\ WithKey(U, k) = WithKey(C, k)
            /\ U \ WithKey(U, k) \in SUBSET N
        BY <2>0, <2>4, <3>2, <3>3 DEF WithKey
      <3> HIDE DEF M
      <3>9. Rearranged(N, h, U \ WithKey(U, k), u)
        BY <3>7, <3>8, SettleTree DEF u
      <3>10. /\ u.n \in Trees(N) /\ IsTree(u.n, U \ WithKey(U, k), u.top)
             /\ \A y \in N \ (U \ WithKey(U, k)) : u.n[y] = h[y]
        BY <3>9 DEF Rearranged
      <3>11. u.top \in N \union {Null}
        BY <3>8, <3>10, TreeTop
      <3>12. \A y \in N \ U : u.n[y] = n[y]
        BY <2>2, <3>2, <3>5, <3>7, <3>10
      <3>13. \A y \in WithKey(U, k) : u.n[y] = Blank
        <4>1. \A y \in WithKey(U, k) : y \in N /\ y # x /\ y \notin U \ WithKey(U, k)
          BY <2>0, <2>4 DEF WithKey
        <4> QED
          BY <3>5, <3>7, <3>8, <3>10, <4>1
      <3> QED
        BY <3>1, <3>10, <3>11, <3>12, <3>13 DEF Holds
    <2> QED
      BY <2>3, <2>4
  <1> HIDE DEF Holds
  <1>2. FiniteSubsetsOf(N) \subseteq G
    <2>1. \A U \in FiniteSubsetsOf(N) :
            (\A W \in FiniteSubsetsOf(N) : W \subseteq U /\ W # U => W \in G) => U \in G
      BY <1>1
    <2> HIDE DEF G
    <2> QED
      BY <2>1, SetInduction
  <1>3. S \in FiniteSubsetsOf(N) /\ top \in N
    BY TreeTop DEF IsTree, FiniteSubsetsOf
  <1>4. Holds(S, Below(n, k)[top])
    BY <1>2, <1>3
  <1> QED
    BY <1>4, RemoveBelowIs DEF Holds, Pruned

\* ml_map_find_node finds the node of the key, if the tree has one.
LEMMA FindTree ==
  ASSUME NEW N, Names(N), NEW v, v.n \in Trees(N), NEW rank, Ranked(N, v.n, rank),
         NEW k \in Int, NEW S \in SUBSET N, IsTree(v.n, S, v.root)
  PROVE  /\ Find(v, k) \in WithKey(S, k) \union {Null}
         /\ WithKey(S, k) = IF Find(v, k) = Null THEN {} ELSE {Find(v, k)}
  <1> DEFINE n == v.n
             Holds(U, f) == /\ f \in WithKey(U, k) \union {Null}
                            /\ WithKey(U, k) = IF f = Null THEN {} ELSE {f}
             G == {U \in FiniteSubsetsOf(N) :
                     \A x \in N : IsTree(n, U, x) => Holds(U, Looked(v, k)[x])}
  <1>1. ASSUME NEW U \in FiniteSubsetsOf(N),
               \A W \in FiniteSubsetsOf(N) : W \subseteq U /\ W # U => W \in G,
               NEW x \in N, IsTree(n, U, x)
        PROVE  Holds(U, Looked(v, k)[x])
    <2>0. U \in SUBSET N /\ IsFiniteSet(U) /\ x # Null
      BY NodesAre DEF FiniteSubsetsOf
    <2>1. PICK L \in SUBSET U, R \in SUBSET U : Parts(n, U, x, L, R)
      BY <1>1, <2>0, Split
    <2>2. x \in U
      BY <2>1 DEF Parts
    <2>3. CASE KeyOf(x) = k
      <3>1. Looked(v, k)[x] = x
        BY <2>3, LookedUnfolds
      <3>2. WithKey(U, k) = {x}
        BY <2>0, <2>1, <2>2, <2>3, OtherKeys DEF WithKey
      <3> QED
        BY <2>0, <3>1, <3>2
    <2>4. CASE KeyOf(x) # k
      <3> DEFINE C == SideOf(x, k, L, R)
                 O == OtherOf(x, k, L, R)
                 side == Side(n, x, k)
      <3>1. Looked(v, k)[x] = IF side = Null THEN Null ELSE Looked(v, k)[side]
        BY <2>4, LookedUnfolds
      <3>2. /\ IsTree(n, C, side) /\ U = {x} \union C \union O /\ x \notin C /\ x \notin O
        BY <2>1, SideTree
      <3>3. \A y \in O : KeyOf(y) # k
        BY <2>0, <2>1, <2>4, OtherKeys
      <3> HIDE DEF C, O, side
      <3>4. WithKey(U, k) = WithKey(C, k)
        BY <2>4, <3>2, <3>3 DEF WithKey
      <3>5. CASE side = Null
        <4>1. WithKey(C, k) = {}
          BY <3>2, <3>5, EmptyTree DEF WithKey
        <4> QED
          BY <3>1, <3>4, <3>5, <4>1
      <3>6. CASE side # Null
        <4>1. C \in FiniteSubsetsOf(N) /\ C # U
          <5>1. IsFiniteSet(C)
            BY <3>2 DEF IsTree
          <5> QED
            BY <2>0, <2>2, <3>2, <5>1 DEF FiniteSubsetsOf
        <4>2. side \in N
          BY <2>0, <3>2, <3>6, TreeTop
        <4>3. C \in G
          BY <1>1, <3>2, <4>1
        <4>4. Holds(C, Looked(v, k)[side])
          <5> HIDE DEF Holds
          <5> QED
            BY <3>2, <4>2, <4>3
        <4> QED
          BY <3>1, <3>4, <3>6, <4>4
      <3> QED
        BY <3>5, <3>6
    <2> QED
      BY <2>3, <2>4
  <1> HIDE DEF Holds
  <1>2. FiniteSubsetsOf(N) \subseteq G
    <2>1. \A U \in FiniteSubsetsOf(N) :
            (\A W \in FiniteSubsetsOf(N) : W \subseteq U /\ W # U => W \in G) => U \in G
      BY <1>1
    <2> HIDE DEF G
    <2> QED
      BY <2>1, SetInduction
  <1>3. S \in FiniteSubsetsOf(N)
    BY DEF IsTree, FiniteSubsetsOf
  <1>4. CASE v.root = Null
    BY <1>4, EmptyTree, FindIs DEF WithKey
  <1>5. CASE v.root # Null
    <2>1. v.root \in N
      BY <1>5, TreeTop
    <2>2. Holds(S, Looked(v, k)[v.root])
      BY <1>2, <1>3, <2>1
    <2> QED
      BY <1>5, <2>2, FindIs DEF Holds
  <1> QED
    BY <1>4, <1>5

------------------------------------------------------------------------------
(* The list.                                                                *)

Link(N) == [prev : N \union {Null}, next : N \union {Null}]
Links(N) == [N -> Link(N)]

\* The m nodes of s differ, and which they are.
Once(m, s) == \A j \in 1 .. m, l \in 1 .. m : s[j] = s[l] => j = l
Listing(m, s) == {s[j] : j \in 1 .. m}

\* t lists what s does, without x or with it.
Less(m, s, t, x) == Listing(m - 1, t) = Listing(m, s) \ {x}
More(m, s, t, x) == Listing(m + 1, t) = Listing(m, s) \union {x}

\* The list is s, which has m different nodes.
Chain(N, v, m, s) ==
  /\ m \in Nat /\ s \in [1 .. m -> N] /\ v.links \in Links(N)
  /\ Once(m, s)
  /\ v.head = IF m = 0 THEN Null ELSE s[1]
  /\ v.tail = IF m = 0 THEN Null ELSE s[m]
  /\ \A i \in 1 .. m : /\ v.links[s[i]].prev = IF i = 1 THEN Null ELSE s[i - 1]
                       /\ v.links[s[i]].next = IF i = m THEN Null ELSE s[i + 1]

Inserted(m, s, i, x) ==
  [j \in 1 .. m + 1 |-> IF j <= i THEN s[j] ELSE IF j = i + 1 THEN x ELSE s[j - 1]]

Deleted(m, s, i) == [j \in 1 .. m - 1 |-> IF j < i THEN s[j] ELSE s[j + 1]]

LEMMA InsertedIs ==
  ASSUME NEW N, NEW m \in Nat, NEW s \in [1 .. m -> N], NEW i \in 0 .. m, NEW x \in N,
         x \notin Listing(m, s), Once(m, s)
  PROVE  /\ Inserted(m, s, i, x) \in [1 .. m + 1 -> N]
         /\ Once(m + 1, Inserted(m, s, i, x))
         /\ More(m, s, Inserted(m, s, i, x), x)
  <1> DEFINE t == Inserted(m, s, i, x)
  <1>1. \A j \in 1 .. m + 1 : t[j] = IF j <= i THEN s[j] ELSE IF j = i + 1 THEN x ELSE s[j - 1]
    BY DEF Inserted
  <1>2. DOMAIN t = 1 .. m + 1 /\ t = [j \in 1 .. m + 1 |-> t[j]]
    BY DEF Inserted
  <1> HIDE DEF t
  <1>0. (\A j \in 1 .. m : s[j] # x) /\ \A j \in 1 .. m, l \in 1 .. m : s[j] = s[l] => j = l
    BY DEF Once, Listing
  <1>3. ASSUME NEW j \in 1 .. m + 1
        PROVE  /\ j <= i => j \in 1 .. m
               /\ j > i + 1 => j - 1 \in 1 .. m
               /\ j <= i \/ j = i + 1 \/ j > i + 1
    OBVIOUS
  <1>4. \A j \in 1 .. m + 1 : t[j] \in N
    BY <1>1, <1>3
  <1>5. t \in [1 .. m + 1 -> N]
    BY <1>2, <1>4
  <1>6. ASSUME NEW j \in 1 .. m + 1, NEW l \in 1 .. m + 1, t[j] = t[l]
        PROVE  j = l
    <2>1. CASE j <= i
      BY <1>0, <1>1, <1>3, <1>6, <2>1
    <2>2. CASE j = i + 1
      BY <1>0, <1>1, <1>3, <1>6, <2>2
    <2>3. CASE j > i + 1
      BY <1>0, <1>1, <1>3, <1>6, <2>3
    <2> QED
      BY <1>3, <2>1, <2>2, <2>3
  <1>7. ASSUME NEW y \in {t[j] : j \in 1 .. m + 1}
        PROVE  y \in {s[j] : j \in 1 .. m} \union {x}
    BY <1>1, <1>3
  <1>8. x \in {t[j] : j \in 1 .. m + 1}
    <2>1. i + 1 \in 1 .. m + 1 /\ t[i + 1] = x
      BY <1>1
    <2> QED
      BY <2>1
  <1>9. ASSUME NEW j \in 1 .. m
        PROVE  s[j] \in {t[l] : l \in 1 .. m + 1}
    <2>1. CASE j <= i
      <3>1. j \in 1 .. m + 1 /\ t[j] = s[j]
        BY <1>1, <2>1
      <3> QED
        BY <3>1
    <2>2. CASE j > i
      <3>1. j + 1 \in 1 .. m + 1 /\ t[j + 1] = s[j]
        <4>1. j + 1 \in 1 .. m + 1 /\ ~ (j + 1 <= i) /\ j + 1 # i + 1 /\ (j + 1) - 1 = j
          BY <2>2
        <4> QED
          BY <1>1, <4>1
      <3> QED
        BY <3>1
    <2> QED
      BY <2>1, <2>2
  <1>10. {t[j] : j \in 1 .. m + 1} = {s[j] : j \in 1 .. m} \union {x}
    <2> DEFINE A == {t[j] : j \in 1 .. m + 1}
               B == {s[j] : j \in 1 .. m}
    <2>1. A \subseteq B \union {x}
      BY <1>7
    <2>2. B \subseteq A
      BY <1>9
    <2>3. x \in A
      BY <1>8
    <2> HIDE DEF A, B
    <2>4. A = B \union {x}
      BY <2>1, <2>2, <2>3
    <2> QED
      BY <2>4 DEF A, B
  <1>11. Once(m + 1, t)
    BY <1>6 DEF Once
  <1> QED
    BY <1>5, <1>10, <1>11 DEF t, Listing, More

LEMMA DeletedIs ==
  ASSUME NEW N, NEW m \in Nat, NEW s \in [1 .. m -> N], NEW i \in 1 .. m, NEW x, x = s[i],
         Once(m, s)
  PROVE  /\ Deleted(m, s, i) \in [1 .. m - 1 -> N] /\ m - 1 \in Nat
         /\ Once(m - 1, Deleted(m, s, i))
         /\ Less(m, s, Deleted(m, s, i), x)
  <1> DEFINE t == Deleted(m, s, i)
  <1>1. \A j \in 1 .. m - 1 : t[j] = IF j < i THEN s[j] ELSE s[j + 1]
    BY DEF Deleted
  <1>2. DOMAIN t = 1 .. m - 1 /\ t = [j \in 1 .. m - 1 |-> t[j]]
    BY DEF Deleted
  <1> HIDE DEF t
  <1>0. \A j \in 1 .. m, l \in 1 .. m : s[j] = s[l] => j = l
    BY DEF Once
  <1>3. \A j \in 1 .. m - 1 : j \in 1 .. m /\ j + 1 \in 1 .. m
    OBVIOUS
  <1>4. t \in [1 .. m - 1 -> N]
    BY <1>1, <1>2, <1>3
  <1>5. ASSUME NEW j \in 1 .. m - 1, NEW l \in 1 .. m - 1, t[j] = t[l]
        PROVE  j = l
    <2>1. CASE j < i
      BY <1>0, <1>1, <1>3, <1>5, <2>1
    <2>2. CASE ~ (j < i)
      BY <1>0, <1>1, <1>3, <1>5, <2>2
    <2> QED
      BY <2>1, <2>2
  <1>6. ASSUME NEW j \in 1 .. m - 1
        PROVE  t[j] \in {s[l] : l \in 1 .. m} \ {s[i]}
    <2>1. CASE j < i
      BY <1>0, <1>1, <1>3, <2>1
    <2>2. CASE ~ (j < i)
      <3>1. j + 1 # i
        BY <2>2
      <3> QED
        BY <1>0, <1>1, <1>3, <2>2, <3>1
    <2> QED
      BY <2>1, <2>2
  <1>7. ASSUME NEW j \in 1 .. m, j # i
        PROVE  s[j] \in {t[l] : l \in 1 .. m - 1}
    <2>1. CASE j < i
      <3>1. j \in 1 .. m - 1 /\ t[j] = s[j]
        BY <1>1, <2>1
      <3> QED
        BY <3>1
    <2>2. CASE ~ (j < i)
      <3>1. j - 1 \in 1 .. m - 1 /\ t[j - 1] = s[j]
        <4>1. j - 1 \in 1 .. m - 1 /\ ~ (j - 1 < i) /\ (j - 1) + 1 = j
          BY <1>7, <2>2
        <4> QED
          BY <1>1, <4>1
      <3> QED
        BY <3>1
    <2> QED
      BY <2>1, <2>2
  <1>8. {t[j] : j \in 1 .. m - 1} = {s[j] : j \in 1 .. m} \ {s[i]}
    BY <1>6, <1>7
  <1>9. m - 1 \in Nat
    OBVIOUS
  <1>10. Once(m - 1, t)
    BY <1>5 DEF Once
  <1> QED
    BY <1>4, <1>8, <1>9, <1>10 DEF t, Listing, Less

\* x is linked in after the first i nodes: v becomes u.
LinksIn(N, v, u, m, s, i, x) ==
  /\ u.links \in Links(N)
  /\ u.links[x].prev = IF i = 0 THEN Null ELSE s[i]
  /\ u.links[x].next = IF i = m THEN Null ELSE s[i + 1]
  /\ i > 0 => u.links[s[i]].prev = v.links[s[i]].prev /\ u.links[s[i]].next = x
  /\ i < m => u.links[s[i + 1]].next = v.links[s[i + 1]].next /\ u.links[s[i + 1]].prev = x
  /\ \A y \in N : y # x /\ (i > 0 => y # s[i]) /\ (i < m => y # s[i + 1])
                    => u.links[y] = v.links[y]
  /\ u.head = IF i = 0 THEN x ELSE v.head
  /\ u.tail = IF i = m THEN x ELSE v.tail

LEMMA InsertChain ==
  ASSUME NEW N, Names(N), NEW v, NEW u, NEW m, NEW s, Chain(N, v, m, s), NEW i \in 0 .. m, NEW x \in N,
         x \notin Listing(m, s), LinksIn(N, v, u, m, s, i, x)
  PROVE  Chain(N, u, m + 1, Inserted(m, s, i, x))
  <1> DEFINE t == Inserted(m, s, i, x)
             K == u.links
             O == v.links
  <1>1. /\ m \in Nat /\ s \in [1 .. m -> N]
        /\ Once(m, s)
        /\ \A j \in 1 .. m : /\ O[s[j]].prev = IF j = 1 THEN Null ELSE s[j - 1]
                             /\ O[s[j]].next = IF j = m THEN Null ELSE s[j + 1]
    BY DEF Chain
  <1>2. t \in [1 .. m + 1 -> N] /\ Once(m + 1, t)
    BY <1>1, InsertedIs
  <1>3. \A j \in 1 .. m + 1 : t[j] = IF j <= i THEN s[j] ELSE IF j = i + 1 THEN x ELSE s[j - 1]
    BY DEF Inserted
  <1> HIDE DEF t, K, O
  <1>4. \A j \in 1 .. m : s[j] \in N
    BY <1>1
  <1>5. /\ K[x].prev = IF i = 0 THEN Null ELSE s[i]
        /\ K[x].next = IF i = m THEN Null ELSE s[i + 1]
        /\ i > 0 => K[s[i]].prev = O[s[i]].prev /\ K[s[i]].next = x
        /\ i < m => K[s[i + 1]].next = O[s[i + 1]].next /\ K[s[i + 1]].prev = x
    BY DEF LinksIn, K, O
  <1>6. \A j \in 1 .. m : j # i /\ j # i + 1 => K[s[j]] = O[s[j]]
    <2>1. \A y \in N : y # x /\ (i > 0 => y # s[i]) /\ (i < m => y # s[i + 1]) => K[y] = O[y]
      BY DEF LinksIn, K, O
    <2>2. ASSUME NEW j \in 1 .. m, j # i, j # i + 1
          PROVE  s[j] # x /\ (i > 0 => s[j] # s[i]) /\ (i < m => s[j] # s[i + 1])
      <3>1. (i > 0 => i \in 1 .. m) /\ (i < m => i + 1 \in 1 .. m)
        BY <1>1
      <3>2. (\A l \in 1 .. m : s[l] # x) /\ \A a \in 1 .. m, l \in 1 .. m : s[a] = s[l] => a = l
        BY <1>1 DEF Listing, Once
      <3> QED
        BY <2>2, <3>1, <3>2
    <2> QED
      BY <1>4, <2>1, <2>2
  <1>7. ASSUME NEW j \in 1 .. m + 1
        PROVE  /\ K[t[j]].prev = IF j = 1 THEN Null ELSE t[j - 1]
               /\ K[t[j]].next = IF j = m + 1 THEN Null ELSE t[j + 1]
    <2>1. CASE j < i
      <3>1. j \in 1 .. m /\ j # m /\ t[j] = s[j] /\ K[s[j]] = O[s[j]] /\ j # m + 1
        BY <1>1, <1>3, <1>6, <2>1
      <3>2. j + 1 \in 1 .. m + 1 /\ j + 1 <= i /\ t[j + 1] = s[j + 1]
        BY <1>1, <1>3, <2>1
      <3>3. j # 1 => j - 1 \in 1 .. m + 1 /\ t[j - 1] = s[j - 1]
        BY <1>1, <1>3, <2>1
      <3> QED
        BY <1>1, <3>1, <3>2, <3>3
    <2>2. CASE j = i
      <3>1. j \in 1 .. m /\ t[j] = s[j] /\ i > 0 /\ j # m + 1
        BY <1>1, <1>3, <2>2
      <3>2. j + 1 \in 1 .. m + 1 /\ t[j + 1] = x
        BY <1>1, <1>3, <2>2
      <3>3. j # 1 => j - 1 \in 1 .. m + 1 /\ t[j - 1] = s[j - 1]
        BY <1>1, <1>3, <2>2
      <3> QED
        BY <1>1, <1>5, <2>2, <3>1, <3>2, <3>3
    <2>3. CASE j = i + 1
      <3>1. t[j] = x /\ j - 1 = i
        BY <1>1, <1>3, <2>3
      <3>2. j # 1 => j - 1 \in 1 .. m + 1 /\ t[j - 1] = s[i] /\ i # 0
        BY <1>1, <1>3, <2>3
      <3>3. j # m + 1 => j + 1 \in 1 .. m + 1 /\ t[j + 1] = s[i + 1] /\ i # m
        <4>1. j # m + 1 => j + 1 \in 1 .. m + 1 /\ ~ (j + 1 <= i) /\ j + 1 # i + 1
                             /\ (j + 1) - 1 = i + 1
          BY <1>1, <2>3
        <4> QED
          BY <1>3, <2>3, <4>1
      <3>4. (j = 1 <=> i = 0) /\ (j = m + 1 <=> i = m)
        BY <1>1, <2>3
      <3> QED
        BY <1>5, <3>1, <3>2, <3>3, <3>4
    <2>4. CASE j > i + 1
      <3>1. j - 1 \in 1 .. m /\ t[j] = s[j - 1] /\ j # 1
        BY <1>1, <1>3, <2>4
      <3>2. j - 1 \in 1 .. m + 1 /\ t[j - 1] = IF j - 1 = i + 1 THEN x ELSE s[(j - 1) - 1]
        BY <1>1, <1>3, <2>4
      <3>3. j # m + 1 => j + 1 \in 1 .. m + 1 /\ t[j + 1] = s[j]
        <4>1. j # m + 1 => j + 1 \in 1 .. m + 1 /\ ~ (j + 1 <= i) /\ j + 1 # i + 1
                             /\ (j + 1) - 1 = j
          BY <1>1, <2>4
        <4> QED
          BY <1>3, <4>1
      <3>4. O[s[j - 1]].next = (IF j = m + 1 THEN Null ELSE s[j])
              /\ (j - 1 # 1 => O[s[j - 1]].prev = s[(j - 1) - 1])
        <4>1. (j - 1 = m <=> j = m + 1) /\ (j - 1) + 1 = j
          BY <1>1
        <4>2. \A l \in 1 .. m : /\ O[s[l]].prev = IF l = 1 THEN Null ELSE s[l - 1]
                               /\ O[s[l]].next = IF l = m THEN Null ELSE s[l + 1]
          BY <1>1
        <4>3. /\ O[s[j - 1]].prev = IF j - 1 = 1 THEN Null ELSE s[(j - 1) - 1]
              /\ O[s[j - 1]].next = IF j - 1 = m THEN Null ELSE s[(j - 1) + 1]
          BY <3>1, <4>2
        <4> QED
          BY <4>1, <4>3
      <3>5. CASE j - 1 = i + 1
        <4>1. i < m /\ s[j - 1] = s[i + 1]
          BY <1>1, <3>1, <3>5
        <4> QED
          BY <1>5, <3>1, <3>2, <3>3, <3>4, <3>5, <4>1
      <3>6. CASE j - 1 # i + 1
        <4>1. K[s[j - 1]] = O[s[j - 1]] /\ j - 1 # 1
          BY <1>1, <1>6, <2>4, <3>1, <3>6
        <4> QED
          BY <3>1, <3>2, <3>3, <3>4, <3>6, <4>1
      <3> QED
        BY <3>5, <3>6
    <2> QED
      BY <1>1, <2>1, <2>2, <2>3, <2>4
  <1>8. u.head = t[1] /\ u.tail = t[m + 1]
    <2>1. 1 \in 1 .. m + 1 /\ t[1] = IF 1 <= i THEN s[1] ELSE x
      BY <1>1, <1>3
    <2>2. m + 1 \in 1 .. m + 1 /\ t[m + 1] = IF i = m THEN x ELSE s[m]
      BY <1>1, <1>3
    <2>3. u.head = (IF i = 0 THEN x ELSE v.head) /\ u.tail = (IF i = m THEN x ELSE v.tail)
      BY DEF LinksIn
    <2>4. m # 0 => v.head = s[1] /\ v.tail = s[m]
      BY DEF Chain
    <2> QED
      BY <1>1, <2>1, <2>2, <2>3, <2>4
  <1>9. K \in Links(N)
    BY DEF LinksIn, K
  <1>10. m + 1 \in Nat /\ m + 1 # 0
    BY <1>1
  <1>11. Chain(N, u, m + 1, t)
    BY <1>2, <1>7, <1>8, <1>9, <1>10 DEF Chain, K
  <1> QED
    BY <1>11 DEF t

\* All of a map.
Orderings == {"insert", "lru", "mru", "ascending", "descending"}

MapsOf(N, W) ==
  [root : N \union {Null}, head : N \union {Null}, tail : N \union {Null}, size : Nat,
   order : Orderings, n : Trees(N), links : Links(N), value : [N -> W], pending : Seq(N)]

\* u is v but for the list.
OnlyList(u, v) ==
  /\ u.root = v.root /\ u.size = v.size /\ u.order = v.order /\ u.n = v.n
  /\ u.value = v.value /\ u.pending = v.pending

LEMMA LinkAfterIs ==
  ASSUME NEW N, Names(N), NEW W, NEW v \in MapsOf(N, W), NEW m, NEW s, Chain(N, v, m, s),
         NEW i \in 1 .. m, NEW x \in N, x \notin Listing(m, s)
  PROVE  /\ LinksIn(N, v, LinkAfter(v, s[i], x), m, s, i, x)
         /\ LinkAfter(v, s[i], x) \in MapsOf(N, W) /\ OnlyList(LinkAfter(v, s[i], x), v)
  <1> DEFINE y == s[i]
             p == v.links[y].next
             L == v.links
             K == [L EXCEPT ![x] = [prev |-> y, next |-> p], ![y].next = x]
             H == [K EXCEPT ![p].prev = x]
             u == LinkAfter(v, y, x)
  <1>1. /\ m \in Nat /\ s \in [1 .. m -> N] /\ y \in N /\ y # x /\ L \in Links(N)
        /\ p = IF i = m THEN Null ELSE s[i + 1]
    BY DEF Chain, Listing
  <1>2. i < m => p \in N /\ p # x /\ p # y /\ p = s[i + 1] /\ p # Null
    <2>1. i < m => i + 1 \in 1 .. m /\ i + 1 # i
      BY <1>1
    <2>2. /\ \A j \in 1 .. m, l \in 1 .. m : s[j] = s[l] => j = l
          /\ \A j \in 1 .. m : s[j] # x
      BY DEF Chain, Once, Listing
    <2> QED
      BY <1>1, <2>1, <2>2, NodesAre
  <1>3. u = IF p = Null THEN [v EXCEPT !.links = K, !.tail = x] ELSE [v EXCEPT !.links = H]
    BY DEF LinkAfter
  <1>4. p \in N \union {Null}
    BY <1>1, <1>2
  <1>5. L[y] \in Link(N) /\ (i < m => L[p] \in Link(N))
    BY <1>1, <1>2 DEF Links
  <1> HIDE DEF y, p, L, u
  <1>6. /\ K \in Links(N) /\ K[x] = [prev |-> y, next |-> p] /\ K[y].next = x /\ K[y].prev = L[y].prev
        /\ \A z \in N : z # x /\ z # y => K[z] = L[z]
    BY <1>1, <1>4, <1>5 DEF Links, Link
  <1>7. CASE i = m
    <2>1. p = Null
      BY <1>1, <1>7
    <2> HIDE DEF K, H
    <2>2. u = [v EXCEPT !.links = K, !.tail = x]
      BY <1>3, <2>1
    <2>3. /\ u \in MapsOf(N, W) /\ OnlyList(u, v) /\ u.links = K /\ u.head = v.head /\ u.tail = x
      BY <1>6, <2>2 DEF MapsOf, OnlyList
    <2>4. LinksIn(N, v, u, m, s, i, x)
      BY <1>1, <1>6, <1>7, <2>1, <2>3 DEF LinksIn, L, y
    <2> QED
      BY <2>3, <2>4 DEF u, y
  <1>8. CASE i < m
    <2>1. /\ H \in Links(N) /\ H[p].prev = x /\ H[p].next = L[p].next
          /\ \A z \in N : z # p => H[z] = K[z]
      <3>1. K[p] = L[p] /\ K[p] \in Link(N)
        BY <1>2, <1>5, <1>6, <1>8
      <3> HIDE DEF K
      <3> QED
        BY <1>2, <1>6, <1>8, <3>1 DEF Links, Link
    <2> HIDE DEF K, H
    <2>2. u = [v EXCEPT !.links = H]
      BY <1>2, <1>3, <1>8
    <2>3. /\ u \in MapsOf(N, W) /\ OnlyList(u, v) /\ u.links = H /\ u.head = v.head
          /\ u.tail = v.tail
      BY <2>1, <2>2 DEF MapsOf, OnlyList
    <2>4. LinksIn(N, v, u, m, s, i, x)
      <3>1. i # m /\ i # 0 /\ H[x] = K[x] /\ H[y] = K[y]
        BY <1>1, <1>2, <1>8, <2>1
      <3>2. \A z \in N : z # x /\ z # y /\ z # p => H[z] = L[z]
        BY <1>6, <2>1
      <3> QED
        BY <1>1, <1>2, <1>6, <1>8, <2>1, <2>3, <3>1, <3>2 DEF LinksIn, L, y
    <2> QED
      BY <2>3, <2>4 DEF u, y
  <1> QED
    BY <1>1, <1>7, <1>8

LEMMA LinkBeforeIs ==
  ASSUME NEW N, Names(N), NEW W, NEW v \in MapsOf(N, W), NEW m, NEW s, Chain(N, v, m, s),
         NEW i \in 1 .. m, NEW x \in N, x \notin Listing(m, s)
  PROVE  /\ LinksIn(N, v, LinkBefore(v, s[i], x), m, s, i - 1, x)
         /\ LinkBefore(v, s[i], x) \in MapsOf(N, W) /\ OnlyList(LinkBefore(v, s[i], x), v)
  <1> DEFINE y == s[i]
             p == v.links[y].prev
             L == v.links
             K == [L EXCEPT ![x] = [prev |-> p, next |-> y], ![y].prev = x]
             H == [K EXCEPT ![p].next = x]
             u == LinkBefore(v, y, x)
  <1>1. /\ m \in Nat /\ s \in [1 .. m -> N] /\ y \in N /\ y # x /\ L \in Links(N)
        /\ p = IF i = 1 THEN Null ELSE s[i - 1]
    BY DEF Chain, Listing
  <1>2. i > 1 => p \in N /\ p # x /\ p # y /\ p = s[i - 1] /\ p # Null
    <2>1. i > 1 => i - 1 \in 1 .. m /\ i - 1 # i
      BY <1>1
    <2>2. /\ \A j \in 1 .. m, l \in 1 .. m : s[j] = s[l] => j = l
          /\ \A j \in 1 .. m : s[j] # x
      BY DEF Chain, Once, Listing
    <2> QED
      BY <1>1, <2>1, <2>2, NodesAre
  <1>3. u = IF p = Null THEN [v EXCEPT !.links = K, !.head = x] ELSE [v EXCEPT !.links = H]
    BY DEF LinkBefore
  <1>4. p \in N \union {Null}
    BY <1>1, <1>2
  <1>5. L[y] \in Link(N) /\ (i > 1 => L[p] \in Link(N))
    BY <1>1, <1>2 DEF Links
  <1>9. i - 1 < m /\ (i - 1) + 1 = i /\ i - 1 # m
    BY <1>1
  <1> HIDE DEF y, p, L, u
  <1>6. /\ K \in Links(N) /\ K[x] = [prev |-> p, next |-> y] /\ K[y].prev = x /\ K[y].next = L[y].next
        /\ \A z \in N : z # x /\ z # y => K[z] = L[z]
    BY <1>1, <1>4, <1>5 DEF Links, Link
  <1>7. CASE i = 1
    <2>1. p = Null
      BY <1>1, <1>7
    <2> HIDE DEF K, H
    <2>2. u = [v EXCEPT !.links = K, !.head = x]
      BY <1>3, <2>1
    <2>3. /\ u \in MapsOf(N, W) /\ OnlyList(u, v) /\ u.links = K /\ u.head = x /\ u.tail = v.tail
      BY <1>6, <2>2 DEF MapsOf, OnlyList
    <2>4. LinksIn(N, v, u, m, s, i - 1, x)
      BY <1>1, <1>6, <1>7, <1>9, <2>1, <2>3 DEF LinksIn, L, y
    <2> QED
      BY <2>3, <2>4 DEF u, y
  <1>8. CASE i > 1
    <2>1. /\ H \in Links(N) /\ H[p].next = x /\ H[p].prev = L[p].prev
          /\ \A z \in N : z # p => H[z] = K[z]
      <3>1. K[p] = L[p] /\ K[p] \in Link(N)
        BY <1>2, <1>5, <1>6, <1>8
      <3> HIDE DEF K
      <3> QED
        BY <1>2, <1>6, <1>8, <3>1 DEF Links, Link
    <2> HIDE DEF K, H
    <2>2. u = [v EXCEPT !.links = H]
      BY <1>2, <1>3, <1>8
    <2>3. /\ u \in MapsOf(N, W) /\ OnlyList(u, v) /\ u.links = H /\ u.head = v.head
          /\ u.tail = v.tail
      BY <2>1, <2>2 DEF MapsOf, OnlyList
    <2>4. LinksIn(N, v, u, m, s, i - 1, x)
      <3>1. i - 1 # 0 /\ H[x] = K[x] /\ H[y] = K[y]
        BY <1>1, <1>2, <1>8, <2>1
      <3>2. \A z \in N : z # x /\ z # y /\ z # p => H[z] = L[z]
        BY <1>6, <2>1
      <3> QED
        BY <1>1, <1>2, <1>6, <1>8, <1>9, <2>1, <2>3, <3>1, <3>2 DEF LinksIn, L, y
    <2> QED
      BY <2>3, <2>4 DEF u, y
  <1> QED
    BY <1>1, <1>7, <1>8

\* x, the i-th node, is taken out: v becomes u.
LinksOut(N, v, u, m, s, i) ==
  LET p == IF i = 1 THEN Null ELSE s[i - 1]
      f == IF i = m THEN Null ELSE s[i + 1]
  IN  /\ u.links \in Links(N)
      /\ \A y \in N : /\ u.links[y].prev = IF y = f THEN p ELSE v.links[y].prev
                      /\ u.links[y].next = IF y = p THEN f ELSE v.links[y].next
      /\ u.head = IF i = 1 THEN f ELSE v.head
      /\ u.tail = IF i = m THEN p ELSE v.tail

LEMMA DeleteChain ==
  ASSUME NEW N, Names(N), NEW v, NEW u, NEW m, NEW s, Chain(N, v, m, s), NEW i \in 1 .. m,
         LinksOut(N, v, u, m, s, i)
  PROVE  Chain(N, u, m - 1, Deleted(m, s, i))
  <1> DEFINE t == Deleted(m, s, i)
             K == u.links
             O == v.links
             p == IF i = 1 THEN Null ELSE s[i - 1]
             f == IF i = m THEN Null ELSE s[i + 1]
  <1>1. /\ m \in Nat /\ s \in [1 .. m -> N] /\ Once(m, s)
        /\ \A j \in 1 .. m : /\ O[s[j]].prev = IF j = 1 THEN Null ELSE s[j - 1]
                             /\ O[s[j]].next = IF j = m THEN Null ELSE s[j + 1]
    BY DEF Chain
  <1>2. t \in [1 .. m - 1 -> N] /\ m - 1 \in Nat /\ Once(m - 1, t)
    BY <1>1, DeletedIs
  <1>3. \A j \in 1 .. m - 1 : t[j] = IF j < i THEN s[j] ELSE s[j + 1]
    BY DEF Deleted
  <1>4. /\ K \in Links(N)
        /\ \A y \in N : /\ K[y].prev = IF y = f THEN p ELSE O[y].prev
                        /\ K[y].next = IF y = p THEN f ELSE O[y].next
        /\ u.head = IF i = 1 THEN f ELSE v.head
        /\ u.tail = IF i = m THEN p ELSE v.tail
    BY DEF LinksOut
  <1> HIDE DEF t, K, O
  <1>5. \A j \in 1 .. m : s[j] \in N /\ s[j] # Null
    BY <1>1, NodesAre
  <1>6. \A j \in 1 .. m : (s[j] = p <=> j = i - 1) /\ (s[j] = f <=> j = i + 1)
    <2>1. \A j \in 1 .. m, l \in 1 .. m : s[j] = s[l] => j = l
      BY <1>1 DEF Once
    <2>2. (i # 1 => i - 1 \in 1 .. m) /\ (i # m => i + 1 \in 1 .. m)
      BY <1>1
    <2> TAKE j \in 1 .. m
    <2>3. s[j] = p <=> j = i - 1
      BY <1>5, <2>1, <2>2
    <2>4. s[j] = f <=> j = i + 1
      BY <1>1, <1>5, <2>1, <2>2
    <2> QED
      BY <2>3, <2>4
  <1>7. \A j \in 1 .. m : /\ K[s[j]].prev = IF j = i + 1 THEN p ELSE O[s[j]].prev
                          /\ K[s[j]].next = IF j = i - 1 THEN f ELSE O[s[j]].next
    BY <1>4, <1>5, <1>6
  <1>8. ASSUME NEW j \in 1 .. m - 1
        PROVE  K[t[j]].prev = IF j = 1 THEN Null ELSE t[j - 1]
    <2>1. CASE j < i
      <3>1. j \in 1 .. m /\ j # i + 1 /\ t[j] = s[j]
        BY <1>1, <1>3, <2>1
      <3>2. j # 1 => j - 1 \in 1 .. m - 1 /\ t[j - 1] = s[j - 1]
        BY <1>1, <1>3, <2>1
      <3>3. K[s[j]].prev = O[s[j]].prev /\ O[s[j]].prev = IF j = 1 THEN Null ELSE s[j - 1]
        BY <1>1, <1>7, <3>1
      <3> QED
        BY <3>1, <3>2, <3>3
    <2>2. CASE j = i
      <3>1. j + 1 \in 1 .. m /\ j + 1 = i + 1 /\ t[j] = s[j + 1]
        BY <1>1, <1>3, <2>2
      <3>2. j # 1 => j - 1 \in 1 .. m - 1 /\ t[j - 1] = s[j - 1]
        BY <1>1, <1>3, <2>2
      <3>3. K[s[j + 1]].prev = p
        BY <1>7, <3>1
      <3> QED
        BY <2>2, <3>1, <3>2, <3>3
    <2>3. CASE j > i
      <3>1. j + 1 \in 1 .. m /\ j + 1 # i + 1 /\ t[j] = s[j + 1] /\ j # 1 /\ j + 1 # 1 /\ (j + 1) - 1 = j
        BY <1>1, <1>3, <2>3
      <3>2. j - 1 \in 1 .. m - 1 /\ ~ (j - 1 < i) /\ (j - 1) + 1 = j
        BY <1>1, <2>3
      <3>3. t[j - 1] = s[j]
        BY <1>3, <3>2
      <3>4. K[s[j + 1]].prev = O[s[j + 1]].prev
        BY <1>7, <3>1
      <3>5. O[s[j + 1]].prev = IF j + 1 = 1 THEN Null ELSE s[(j + 1) - 1]
        BY <1>1, <3>1
      <3> QED
        BY <3>1, <3>3, <3>4, <3>5
    <2> QED
      BY <2>1, <2>2, <2>3
  <1>9. ASSUME NEW j \in 1 .. m - 1
        PROVE  K[t[j]].next = IF j = m - 1 THEN Null ELSE t[j + 1]
    <2>1. CASE j < i - 1
      <3>1. j \in 1 .. m /\ j # i - 1 /\ t[j] = s[j] /\ j # m /\ j # m - 1
        BY <1>1, <1>3, <2>1
      <3>2. j + 1 \in 1 .. m - 1 /\ t[j + 1] = s[j + 1]
        BY <1>1, <1>3, <2>1
      <3>3. K[s[j]].next = O[s[j]].next /\ O[s[j]].next = IF j = m THEN Null ELSE s[j + 1]
        BY <1>1, <1>7, <3>1
      <3> QED
        BY <3>1, <3>2, <3>3
    <2>2. CASE j = i - 1
      <3>1. j \in 1 .. m /\ t[j] = s[j] /\ (j = m - 1 <=> i = m) /\ j + 1 = i
        BY <1>1, <1>3, <2>2
      <3>2. j # m - 1 => i \in 1 .. m - 1 /\ t[i] = s[i + 1]
        BY <1>1, <1>3, <2>2
      <3>3. K[s[j]].next = f
        BY <1>7, <2>2, <3>1
      <3> QED
        BY <3>1, <3>2, <3>3
    <2>3. CASE j >= i
      <3>1. j + 1 \in 1 .. m /\ j + 1 # i - 1 /\ t[j] = s[j + 1] /\ (j = m - 1 <=> j + 1 = m)
        BY <1>1, <1>3, <2>3
      <3>2. j # m - 1 => j + 1 \in 1 .. m - 1 /\ ~ (j + 1 < i)
        <4>1. m \in Nat
          BY <1>1
        <4> QED
          BY <4>1, <2>3
      <3>3. j # m - 1 => t[j + 1] = s[(j + 1) + 1]
        BY <1>3, <3>2
      <3>4. K[s[j + 1]].next = O[s[j + 1]].next
        BY <1>7, <3>1
      <3>5. O[s[j + 1]].next = IF j + 1 = m THEN Null ELSE s[(j + 1) + 1]
        BY <1>1, <3>1
      <3> QED
        BY <3>1, <3>3, <3>4, <3>5
    <2> QED
      BY <1>1, <2>1, <2>2, <2>3
  <1>10. /\ u.head = IF m - 1 = 0 THEN Null ELSE t[1]
         /\ u.tail = IF m - 1 = 0 THEN Null ELSE t[m - 1]
    <2>1. v.head = s[1] /\ v.tail = s[m]
      BY <1>1 DEF Chain
    <2>2. m - 1 # 0 => 1 \in 1 .. m - 1 /\ m - 1 \in 1 .. m - 1 /\ (m - 1) + 1 = m
      BY <1>1, <1>2
    <2>3. m - 1 # 0 => t[1] = IF 1 < i THEN s[1] ELSE s[1 + 1]
      BY <1>3, <2>2
    <2>4. m - 1 # 0 => t[m - 1] = IF m - 1 < i THEN s[m - 1] ELSE s[m]
      BY <1>3, <2>2
    <2>5. u.head = IF m - 1 = 0 THEN Null ELSE t[1]
      BY <1>1, <1>4, <2>1, <2>3
    <2>6. u.tail = IF m - 1 = 0 THEN Null ELSE t[m - 1]
      BY <1>1, <1>4, <2>1, <2>4
    <2> QED
      BY <2>5, <2>6
  <1>11. Chain(N, u, m - 1, t)
    BY <1>2, <1>4, <1>8, <1>9, <1>10 DEF Chain, K
  <1> QED
    BY <1>11 DEF t

LEMMA UnlinkIs ==
  ASSUME NEW N, Names(N), NEW W, NEW v \in MapsOf(N, W), NEW m, NEW s, Chain(N, v, m, s),
         NEW i \in 1 .. m
  PROVE  /\ LinksOut(N, v, Unlink(v, s[i]), m, s, i)
         /\ Unlink(v, s[i]) \in MapsOf(N, W) /\ OnlyList(Unlink(v, s[i]), v)
  <1> DEFINE x == s[i]
             p == v.links[x].prev
             f == v.links[x].next
             L == v.links
             K == [L EXCEPT ![p].next = f]
             z == IF p = Null THEN [v EXCEPT !.head = f] ELSE [v EXCEPT !.links = K]
             H == [z.links EXCEPT ![f].prev = p]
             u == Unlink(v, x)
  <1>1. /\ m \in Nat /\ s \in [1 .. m -> N] /\ x \in N /\ L \in Links(N)
        /\ p = (IF i = 1 THEN Null ELSE s[i - 1]) /\ f = (IF i = m THEN Null ELSE s[i + 1])
    BY DEF Chain
  <1>2. p \in N \union {Null} /\ f \in N \union {Null} /\ Null \notin N
    BY <1>1, NodesAre
  <1>3. (p = Null <=> i = 1) /\ (f = Null <=> i = m)
    BY <1>1, <1>2
  <1>4. u = IF f = Null THEN [z EXCEPT !.tail = p] ELSE [z EXCEPT !.links = H]
    BY DEF Unlink
  <1> HIDE DEF x, p, f, u, L
  <1>5. /\ z \in MapsOf(N, W) /\ OnlyList(z, v) /\ z.links \in Links(N)
        /\ \A y \in N : /\ z.links[y].prev = L[y].prev
                        /\ z.links[y].next = IF y = p THEN f ELSE L[y].next
        /\ z.head = (IF p = Null THEN f ELSE v.head) /\ z.tail = v.tail
    <2>1. CASE p = Null
      <3>1. z = [v EXCEPT !.head = f]
        BY <2>1
      <3> HIDE DEF z
      <3> QED
        BY <1>1, <1>2, <2>1, <3>1 DEF MapsOf, OnlyList, L
    <2>2. CASE p # Null
      <3>1. z = [v EXCEPT !.links = K]
        BY <2>2
      <3>2. /\ K \in Links(N)
            /\ \A y \in N : K[y].prev = L[y].prev /\ K[y].next = IF y = p THEN f ELSE L[y].next
        <4>1. p \in N /\ L[p] \in Link(N)
          BY <1>1, <1>2, <2>2 DEF Links
        <4> QED
          BY <1>1, <1>2, <4>1 DEF Links, Link
      <3> HIDE DEF z, K
      <3> QED
        BY <1>1, <2>2, <3>1, <3>2 DEF MapsOf, OnlyList, L
    <2> QED
      BY <2>1, <2>2
  <1> HIDE DEF z
  <1>6. /\ u \in MapsOf(N, W) /\ OnlyList(u, z) /\ u.links \in Links(N)
        /\ \A y \in N : /\ u.links[y].prev = IF y = f THEN p ELSE z.links[y].prev
                        /\ u.links[y].next = z.links[y].next
        /\ u.head = z.head /\ u.tail = IF f = Null THEN p ELSE z.tail
    <2>1. CASE f = Null
      <3>1. u = [z EXCEPT !.tail = p]
        BY <1>4, <2>1
      <3> QED
        BY <1>2, <1>5, <2>1, <3>1 DEF MapsOf, OnlyList
    <2>2. CASE f # Null
      <3>1. u = [z EXCEPT !.links = H]
        BY <1>4, <2>2
      <3>2. /\ H \in Links(N)
            /\ \A y \in N : /\ H[y].prev = IF y = f THEN p ELSE z.links[y].prev
                            /\ H[y].next = z.links[y].next
        <4>1. f \in N /\ z.links[f] \in Link(N)
          BY <1>2, <1>5, <2>2 DEF Links
        <4> QED
          BY <1>2, <1>5, <4>1 DEF Links, Link
      <3> HIDE DEF H
      <3> QED
        BY <1>5, <2>2, <3>1, <3>2 DEF MapsOf, OnlyList
    <2> QED
      BY <2>1, <2>2
  <1>7. OnlyList(u, v)
    BY <1>5, <1>6 DEF OnlyList
  <1>8. LinksOut(N, v, u, m, s, i)
    BY <1>1, <1>3, <1>5, <1>6 DEF LinksOut, L
  <1> QED
    BY <1>6, <1>7, <1>8 DEF u, x

\* Only the nodes of the list matter to it.
LEMMA KeepChain ==
  ASSUME NEW N, NEW v, NEW u, NEW m, NEW s, Chain(N, v, m, s), u.links \in Links(N),
         u.head = v.head, u.tail = v.tail, \A y \in Listing(m, s) : u.links[y] = v.links[y]
  PROVE  Chain(N, u, m, s)
  <1>1. \A j \in 1 .. m : u.links[s[j]] = v.links[s[j]]
    BY DEF Listing
  <1> QED
    BY <1>1 DEF Chain
\* The links of the nodes that are not in the list stay.
Elsewhere(N, v, u, S) == \A y \in N \ S : u.links[y] = v.links[y]

LEMMA OutElsewhere ==
  ASSUME NEW N, Names(N), NEW v, NEW u, NEW m, NEW s, Chain(N, v, m, s), NEW i \in 1 .. m,
         LinksOut(N, v, u, m, s, i)
  PROVE  Elsewhere(N, v, u, Listing(m, s))
  <1>1. /\ m \in Nat /\ v.links \in Links(N) /\ \A j \in 1 .. m : s[j] \in Listing(m, s)
    BY DEF Chain, Listing
  <1>2. /\ i # 1 => s[i - 1] \in Listing(m, s)
        /\ i # m => s[i + 1] \in Listing(m, s)
    <2>1. (i # 1 => i - 1 \in 1 .. m) /\ (i # m => i + 1 \in 1 .. m)
      BY <1>1
    <2> QED
      BY <1>1, <2>1
  <1>3. ASSUME NEW y \in N \ Listing(m, s)
        PROVE  u.links[y] = v.links[y]
    <2>1. y # (IF i = 1 THEN Null ELSE s[i - 1]) /\ y # (IF i = m THEN Null ELSE s[i + 1])
      BY <1>2, NodesAre
    <2>2. u.links[y].prev = v.links[y].prev /\ u.links[y].next = v.links[y].next
      BY <2>1 DEF LinksOut
    <2>3. u.links[y] \in Link(N) /\ v.links[y] \in Link(N)
      BY <1>1 DEF LinksOut, Links
    <2> QED
      BY <2>2, <2>3 DEF Link
  <1> QED
    BY <1>3 DEF Elsewhere

LEMMA InElsewhere ==
  ASSUME NEW N, NEW v, NEW u, NEW m \in Nat, NEW s, NEW i \in 0 .. m, NEW x \in N,
         LinksIn(N, v, u, m, s, i, x)
  PROVE  Elsewhere(N, v, u, Listing(m, s) \union {x})
  <1>1. /\ i # 0 => s[i] \in Listing(m, s)
        /\ i # m => s[i + 1] \in Listing(m, s)
    <2>1. (i # 0 => i \in 1 .. m) /\ (i # m => i + 1 \in 1 .. m)
      OBVIOUS
    <2>2. \A j \in 1 .. m : s[j] \in Listing(m, s)
      BY DEF Listing
    <2> QED
      BY <2>1, <2>2
  <1>2. ASSUME NEW y \in N \ (Listing(m, s) \union {x})
        PROVE  y # x /\ (i > 0 => y # s[i]) /\ (i < m => y # s[i + 1])
    BY <1>1
  <1> QED
    BY <1>2 DEF LinksIn, Elsewhere

\* u is v but for the order of the list.
Moved(N, W, v, u, m, S) ==
  /\ u \in MapsOf(N, W) /\ OnlyList(u, v) /\ Elsewhere(N, v, u, S)
  /\ \E t : Chain(N, u, m, t) /\ Listing(m, t) = S

\* A node that is taken out and linked in again, after the first l of the others.
LEMMA Relinked ==
  ASSUME NEW N, Names(N), NEW W, NEW v \in MapsOf(N, W), NEW m, NEW s, Chain(N, v, m, s),
         NEW i \in 1 .. m, NEW z, LinksOut(N, v, z, m, s, i), OnlyList(z, v),
         NEW u, NEW l \in 0 .. m - 1, LinksIn(N, z, u, m - 1, Deleted(m, s, i), l, s[i]),
         u \in MapsOf(N, W), OnlyList(u, z)
  PROVE  Moved(N, W, v, u, m, Listing(m, s))
  <1> DEFINE t == Deleted(m, s, i)
             S == Listing(m, s)
             x == s[i]
             r == Inserted(m - 1, t, l, x)
  <1>1. /\ m \in Nat /\ s \in [1 .. m -> N] /\ Once(m, s) /\ x \in N /\ x \in S
        /\ (m - 1) + 1 = m
    BY DEF Chain, Listing
  <1>2. /\ m - 1 \in Nat /\ Less(m, s, t, x) /\ t \in [1 .. m - 1 -> N]
        /\ Once(m - 1, t)
    BY <1>1, DeletedIs
  <1>3. Chain(N, z, m - 1, t)
    BY DeleteChain
  <1> HIDE DEF t, S, x, r
  <1>4. x \notin Listing(m - 1, t)
    BY <1>2 DEF Less
  <1>5. Chain(N, u, (m - 1) + 1, r) /\ More(m - 1, t, r, x)
    <2>1. LinksIn(N, z, u, m - 1, t, l, x)
      BY DEF t, x
    <2>2. Chain(N, u, (m - 1) + 1, r)
      BY <1>1, <1>3, <1>4, <2>1, InsertChain DEF r
    <2>3. More(m - 1, t, r, x)
      BY <1>1, <1>2, <1>4, InsertedIs DEF r
    <2> QED
      BY <2>2, <2>3
  <1>6. Chain(N, u, m, r) /\ Listing(m, r) = S
    BY <1>1, <1>2, <1>5 DEF Less, More, S
  <1>7. Elsewhere(N, v, z, S)
    BY OutElsewhere DEF S
  <1>8. Elsewhere(N, z, u, Listing(m - 1, t) \union {x})
    BY <1>1, <1>2, InElsewhere DEF t, x
  <1>9. Elsewhere(N, v, u, S)
    <2>1. Listing(m - 1, t) \union {x} = S
      BY <1>1, <1>2 DEF Less, S
    <2> QED
      BY <1>7, <1>8, <2>1 DEF Elsewhere
  <1>10. OnlyList(u, v)
    BY DEF OnlyList
  <1> QED
    BY <1>6, <1>9, <1>10 DEF Moved, S

LEMMA Unmoved ==
  ASSUME NEW N, NEW W, NEW v \in MapsOf(N, W), NEW m, NEW s, Chain(N, v, m, s)
  PROVE  Moved(N, W, v, v, m, Listing(m, s))
  BY DEF Moved, OnlyList, Elsewhere

LEMMA MoveTailIs ==
  ASSUME NEW N, Names(N), NEW W, NEW v \in MapsOf(N, W), NEW m, NEW s, Chain(N, v, m, s),
         NEW i \in 1 .. m
  PROVE  Moved(N, W, v, MoveTail(v, s[i]), m, Listing(m, s))
  <1> DEFINE x == s[i]
             z == Unlink(v, x)
             t == Deleted(m, s, i)
  <1>1. /\ m \in Nat /\ s \in [1 .. m -> N] /\ Once(m, s) /\ x \in N
        /\ v.links[x].next = IF i = m THEN Null ELSE s[i + 1]
    BY DEF Chain
  <1>2. CASE v.links[x].next = Null
    BY <1>2, Unmoved DEF MoveTail
  <1>3. CASE v.links[x].next # Null
    <2>1. MoveTail(v, x) = LinkAfter(z, z.tail, x)
      BY <1>3 DEF MoveTail
    <2>2. LinksOut(N, v, z, m, s, i) /\ z \in MapsOf(N, W) /\ OnlyList(z, v)
      BY UnlinkIs
    <2>3. Chain(N, z, m - 1, t)
      BY <2>2, DeleteChain
    <2>4. m - 1 \in Nat /\ Less(m, s, t, x)
      BY <1>1, DeletedIs
    <2>5. m - 1 # 0 /\ m - 1 \in 1 .. m - 1 /\ m - 1 \in 0 .. m - 1
      BY <1>1, <1>3, <2>4
    <2>6. z.tail = t[m - 1]
      BY <2>3, <2>5 DEF Chain
    <2> HIDE DEF t, z, x
    <2>7. /\ LinksIn(N, z, LinkAfter(z, t[m - 1], x), m - 1, t, m - 1, x)
          /\ LinkAfter(z, t[m - 1], x) \in MapsOf(N, W)
          /\ OnlyList(LinkAfter(z, t[m - 1], x), z)
      <3>1. x \notin Listing(m - 1, t)
        BY <2>4 DEF Less
      <3> QED
        BY <1>1, <3>1, <2>2, <2>3, <2>4, <2>5, LinkAfterIs
    <2>8. Moved(N, W, v, LinkAfter(z, t[m - 1], x), m, Listing(m, s))
      BY <2>2, <2>5, <2>7, Relinked DEF t, x
    <2> QED
      BY <2>1, <2>6, <2>8 DEF x
  <1> QED
    BY <1>2, <1>3

LEMMA MoveHeadIs ==
  ASSUME NEW N, Names(N), NEW W, NEW v \in MapsOf(N, W), NEW m, NEW s, Chain(N, v, m, s),
         NEW i \in 1 .. m
  PROVE  Moved(N, W, v, MoveHead(v, s[i]), m, Listing(m, s))
  <1> DEFINE x == s[i]
             z == Unlink(v, x)
             t == Deleted(m, s, i)
  <1>1. /\ m \in Nat /\ s \in [1 .. m -> N] /\ Once(m, s) /\ x \in N
        /\ v.links[x].prev = IF i = 1 THEN Null ELSE s[i - 1]
    BY DEF Chain
  <1>2. CASE v.links[x].prev = Null
    BY <1>2, Unmoved DEF MoveHead
  <1>3. CASE v.links[x].prev # Null
    <2>1. MoveHead(v, x) = LinkBefore(z, z.head, x)
      BY <1>3 DEF MoveHead
    <2>2. LinksOut(N, v, z, m, s, i) /\ z \in MapsOf(N, W) /\ OnlyList(z, v)
      BY UnlinkIs
    <2>3. Chain(N, z, m - 1, t)
      BY <2>2, DeleteChain
    <2>4. m - 1 \in Nat /\ Less(m, s, t, x)
      BY <1>1, DeletedIs
    <2>5. m - 1 # 0 /\ 1 \in 1 .. m - 1 /\ 1 - 1 \in 0 .. m - 1
      BY <1>1, <1>3, <2>4
    <2>6. z.head = t[1]
      BY <2>3, <2>5 DEF Chain
    <2> HIDE DEF t, z, x
    <2>7. /\ LinksIn(N, z, LinkBefore(z, t[1], x), m - 1, t, 1 - 1, x)
          /\ LinkBefore(z, t[1], x) \in MapsOf(N, W)
          /\ OnlyList(LinkBefore(z, t[1], x), z)
      <3>1. x \notin Listing(m - 1, t)
        BY <2>4 DEF Less
      <3> QED
        BY <1>1, <3>1, <2>2, <2>3, <2>4, <2>5, LinkBeforeIs
    <2>8. Moved(N, W, v, LinkBefore(z, t[1], x), m, Listing(m, s))
      BY <2>2, <2>5, <2>7, Relinked DEF t, x
    <2> QED
      BY <2>1, <2>6, <2>8 DEF x
  <1> QED
    BY <1>2, <1>3

\* What ml_map_remove_internal does to the list.
LEMMA RemoveLinkIs ==
  ASSUME NEW N, Names(N), NEW W, NEW v \in MapsOf(N, W), NEW m, NEW s, Chain(N, v, m, s),
         NEW i \in 1 .. m, v.size = m
  PROVE  LET u == RemoveLink(v, s[i])
         IN  /\ u \in MapsOf(N, W) /\ u.size = m - 1
             /\ u.order = v.order /\ u.value = v.value /\ u.pending = v.pending
             /\ Chain(N, u, m - 1, Deleted(m, s, i))
             /\ u.links[s[i]] = Unlinked /\ Elsewhere(N, v, u, Listing(m, s))
  <1> DEFINE x == s[i]
             z == Unlink(v, x)
             t == Deleted(m, s, i)
             u == RemoveLink(v, x)
             K == [z.links EXCEPT ![x] = Unlinked]
  <1>1. m \in Nat /\ s \in [1 .. m -> N] /\ Once(m, s) /\ x \in N /\ x \in Listing(m, s)
    BY DEF Chain, Listing
  <1>2. LinksOut(N, v, z, m, s, i) /\ z \in MapsOf(N, W) /\ OnlyList(z, v)
    BY UnlinkIs
  <1>3. Chain(N, z, m - 1, t)
    BY <1>2, DeleteChain
  <1>4. m - 1 \in Nat /\ Less(m, s, t, x)
    BY <1>1, DeletedIs
  <1>5. Elsewhere(N, v, z, Listing(m, s))
    BY <1>2, OutElsewhere
  <1>6. x # Null
    BY <1>1, NodesAre
  <1>7. u = [z EXCEPT !.size = @ - 1, !.links[x] = Unlinked]
    BY <1>6 DEF RemoveLink
  <1>8. z.size = m /\ z.links \in Links(N)
    BY <1>2 DEF OnlyList, MapsOf
  <1> HIDE DEF x, z, t, u
  <1>9. /\ K \in Links(N) /\ K[x] = Unlinked /\ \A y \in N \ {x} : K[y] = z.links[y]
    <2>1. Unlinked \in Link(N)
      BY DEF Unlinked, Link
    <2> QED
      BY <1>1, <1>8, <2>1 DEF Links
  <1>10. u = [z EXCEPT !.size = m - 1, !.links = K]
    BY <1>2, <1>7, <1>8 DEF MapsOf
  <1> HIDE DEF K
  <1>11. /\ u \in MapsOf(N, W) /\ u.size = m - 1 /\ u.links = K /\ u.head = z.head
         /\ u.tail = z.tail
         /\ u.order = z.order /\ u.value = z.value /\ u.pending = z.pending
    BY <1>2, <1>4, <1>9, <1>10 DEF MapsOf
  <1>12. \A y \in Listing(m - 1, t) : u.links[y] = z.links[y]
    <2>1. Listing(m - 1, t) \subseteq N \ {x}
      <3>1. Listing(m, s) \subseteq N
        BY <1>1 DEF Listing
      <3> QED
        BY <1>4, <3>1 DEF Less
    <2> QED
      BY <1>9, <1>11, <2>1
  <1>13. Chain(N, u, m - 1, t)
    BY <1>3, <1>9, <1>11, <1>12, KeepChain
  <1>14. Elsewhere(N, v, u, Listing(m, s))
    BY <1>1, <1>5, <1>9, <1>11 DEF Elsewhere
  <1>15. u.order = v.order /\ u.value = v.value /\ u.pending = v.pending
    BY <1>2, <1>11 DEF OnlyList
  <1> QED
    BY <1>9, <1>11, <1>13, <1>14, <1>15 DEF x, t, u
------------------------------------------------------------------------------
(* Insertion.                                                                *)

\* u is v but for the tree below the root.
OnlyTree(u, v) ==
  /\ u.root = v.root /\ u.head = v.head /\ u.tail = v.tail /\ u.size = v.size
  /\ u.order = v.order /\ u.links = v.links /\ u.value = v.value /\ u.pending = v.pending

LEMMA LinkType ==
  ASSUME NEW N, Names(N), NEW W, NEW v \in MapsOf(N, W), NEW y \in N, NEW x \in N
  PROVE  /\ LinkAfter(v, y, x) \in MapsOf(N, W) /\ OnlyList(LinkAfter(v, y, x), v)
         /\ LinkBefore(v, y, x) \in MapsOf(N, W) /\ OnlyList(LinkBefore(v, y, x), v)
  <1> DEFINE L == v.links
  <1>1. L \in Links(N) /\ Null \notin N /\ L[y] \in Link(N)
    BY NodesAre DEF MapsOf, Links
  <1> HIDE DEF L
  <1>2. LinkAfter(v, y, x) \in MapsOf(N, W) /\ OnlyList(LinkAfter(v, y, x), v)
    <2> DEFINE p == L[y].next
               K == [L EXCEPT ![x] = [prev |-> y, next |-> p], ![y].next = x]
               H == [K EXCEPT ![p].prev = x]
               u == LinkAfter(v, y, x)
    <2>1. u = IF p = Null THEN [v EXCEPT !.links = K, !.tail = x] ELSE [v EXCEPT !.links = H]
      BY DEF LinkAfter, L
    <2>2. p \in N \union {Null} /\ K \in Links(N)
      BY <1>1 DEF Links, Link
    <2> HIDE DEF p, K, u
    <2>3. CASE p = Null
      <3>1. u = [v EXCEPT !.links = K, !.tail = x]
        BY <2>1, <2>3
      <3> QED
        BY <2>2, <3>1 DEF MapsOf, OnlyList, u
    <2>4. CASE p # Null
      <3>1. p \in N
        BY <2>2, <2>4
      <3>2. H \in Links(N)
        BY <2>2, <3>1 DEF Links, Link
      <3> HIDE DEF H
      <3>3. u = [v EXCEPT !.links = H]
        BY <2>1, <2>4
      <3> QED
        BY <3>2, <3>3 DEF MapsOf, OnlyList, u
    <2> QED
      BY <2>3, <2>4
  <1>3. LinkBefore(v, y, x) \in MapsOf(N, W) /\ OnlyList(LinkBefore(v, y, x), v)
    <2> DEFINE p == L[y].prev
               K == [L EXCEPT ![x] = [prev |-> p, next |-> y], ![y].prev = x]
               H == [K EXCEPT ![p].next = x]
               u == LinkBefore(v, y, x)
    <2>1. u = IF p = Null THEN [v EXCEPT !.links = K, !.head = x] ELSE [v EXCEPT !.links = H]
      BY DEF LinkBefore, L
    <2>2. p \in N \union {Null} /\ K \in Links(N)
      BY <1>1 DEF Links, Link
    <2> HIDE DEF p, K, u
    <2>3. CASE p = Null
      <3>1. u = [v EXCEPT !.links = K, !.head = x]
        BY <2>1, <2>3
      <3> QED
        BY <2>2, <3>1 DEF MapsOf, OnlyList, u
    <2>4. CASE p # Null
      <3>1. p \in N
        BY <2>2, <2>4
      <3>2. H \in Links(N)
        BY <2>2, <3>1 DEF Links, Link
      <3> HIDE DEF H
      <3>3. u = [v EXCEPT !.links = H]
        BY <2>1, <2>4
      <3> QED
        BY <3>2, <3>3 DEF MapsOf, OnlyList, u
    <2> QED
      BY <2>3, <2>4
  <1> QED
    BY <1>2, <1>3

LEMMA OrderType ==
  ASSUME NEW N, Names(N), NEW W, NEW v \in MapsOf(N, W), v.head # Null, v.tail # Null,
         NEW y \in N, NEW x \in N, NEW g \in BOOLEAN
  PROVE  NodeOrder(v, y, x, g) \in MapsOf(N, W) /\ OnlyList(NodeOrder(v, y, x, g), v)
  <1>1. v.head \in N /\ v.tail \in N /\ v.order \in Orderings
    BY DEF MapsOf
  <1>2. CASE v.order \in {"insert", "lru"}
    <2>1. NodeOrder(v, y, x, g) = LinkAfter(v, v.tail, x)
      BY <1>2 DEF NodeOrder
    <2> QED
      BY <1>1, <2>1, LinkType
  <1>3. CASE v.order = "mru"
    <2>1. NodeOrder(v, y, x, g) = LinkBefore(v, v.head, x)
      BY <1>3 DEF NodeOrder
    <2> QED
      BY <1>1, <2>1, LinkType
  <1>4. CASE v.order \in {"ascending", "descending"}
    <2>1. NodeOrder(v, y, x, g) \in {LinkAfter(v, y, x), LinkBefore(v, y, x)}
      BY <1>4 DEF NodeOrder
    <2> QED
      BY <2>1, LinkType
  <1> QED
    BY <1>1, <1>2, <1>3, <1>4 DEF Orderings

\* ml_map_node_order puts the node somewhere in the list.
LEMMA OrderChain ==
  ASSUME NEW N, Names(N), NEW W, NEW v \in MapsOf(N, W), NEW m, NEW s, Chain(N, v, m, s),
         NEW y \in Listing(m, s), NEW x \in N, x \notin Listing(m, s), NEW g \in BOOLEAN
  PROVE  \E i \in 0 .. m : LinksIn(N, v, NodeOrder(v, y, x, g), m, s, i, x)
  <1>1. PICK a \in 1 .. m : y = s[a]
    BY DEF Listing
  <1>2. /\ m \in Nat /\ m # 0 /\ 1 \in 1 .. m /\ m \in 1 .. m /\ v.head = s[1] /\ v.tail = s[m]
        /\ v.order \in Orderings
    BY DEF Chain, MapsOf
  <1>3. \A i \in 1 .. m : /\ LinksIn(N, v, LinkAfter(v, s[i], x), m, s, i, x)
                          /\ LinksIn(N, v, LinkBefore(v, s[i], x), m, s, i - 1, x)
    BY LinkAfterIs, LinkBeforeIs
  <1>4. \A i \in 1 .. m : i \in 0 .. m /\ i - 1 \in 0 .. m
    BY <1>2
  <1>5. CASE v.order \in {"insert", "lru"}
    <2>1. NodeOrder(v, y, x, g) = LinkAfter(v, s[m], x)
      BY <1>2, <1>5 DEF NodeOrder
    <2> QED
      BY <1>2, <1>3, <1>4, <2>1
  <1>6. CASE v.order = "mru"
    <2>1. NodeOrder(v, y, x, g) = LinkBefore(v, s[1], x)
      BY <1>2, <1>6 DEF NodeOrder
    <2> QED
      BY <1>2, <1>3, <1>4, <2>1
  <1>7. CASE v.order \in {"ascending", "descending"}
    <2>1. NodeOrder(v, y, x, g) \in {LinkAfter(v, s[a], x), LinkBefore(v, s[a], x)}
      BY <1>1, <1>7 DEF NodeOrder
    <2> QED
      BY <1>3, <1>4, <2>1
  <1> QED
    BY <1>2, <1>5, <1>6, <1>7 DEF Orderings

\* The new node, before it has a place in the list.
Entered(v, x) == [v EXCEPT !.n[x] = [Blank EXCEPT !.depth = 1], !.size = @ + 1]

\* new is a tree of its own.
Sown(N, v, u, new) == (\A a \in N \ {new} : u.n[a] = v.n[a]) /\ IsTree(u.n, {new}, new)

LEMMA EnteredIs ==
  ASSUME NEW N, Names(N), NEW W, NEW v \in MapsOf(N, W), NEW x \in N
  PROVE  /\ Entered(v, x) \in MapsOf(N, W) /\ Entered(v, x).size = v.size + 1
         /\ Entered(v, x).root = v.root /\ Entered(v, x).head = v.head
         /\ Entered(v, x).tail = v.tail /\ Entered(v, x).order = v.order
         /\ Entered(v, x).links = v.links /\ Entered(v, x).value = v.value
         /\ Entered(v, x).pending = v.pending
         /\ Sown(N, v, Entered(v, x), x)
  <1> DEFINE K == [v.n EXCEPT ![x] = [Blank EXCEPT !.depth = 1]]
  <1>1. v.n \in Trees(N) /\ v.size \in Nat
    BY DEF MapsOf
  <1> DEFINE u == Entered(v, x)
             a == v.size + 1
  <1>2. u = [v EXCEPT !.n = K, !.size = a] /\ a \in Nat
    BY <1>1 DEF Entered, MapsOf
  <1>3. [Blank EXCEPT !.depth = 1] = [left |-> Null, right |-> Null, depth |-> 1]
    BY DEF Blank
  <1>4. /\ K \in Trees(N) /\ \A y \in N \ {x} : K[y] = v.n[y]
        /\ K[x] = [left |-> Null, right |-> Null, depth |-> 1]
    BY <1>1, <1>3 DEF Trees, Fields
  <1> HIDE DEF K
  <1> HIDE DEF u, a
  <1>5. /\ u \in MapsOf(N, W) /\ u.size = a /\ u.n = K
        /\ u.root = v.root /\ u.head = v.head /\ u.tail = v.tail /\ u.order = v.order
        /\ u.links = v.links /\ u.value = v.value /\ u.pending = v.pending
    BY <1>2, <1>4 DEF MapsOf
  <1>6. Parts(K, {x}, x, {}, {})
    <2>1. x # Null /\ K[x].left = Null /\ K[x].right = Null /\ K[x].depth > 0
      BY <1>4, NodesAre
    <2>2. IsTree(K, {}, Null)
      BY EmptyTree
    <2> QED
      BY <2>1, <2>2 DEF Parts
  <1>7. IsTree(K, {x}, x)
    <2>1. {x} \in SUBSET N
      OBVIOUS
    <2> QED
      BY <1>6, <2>1, Join
  <1> QED
    BY <1>4, <1>5, <1>7 DEF u, a, Sown
LEMMA UpdateDepthAny ==
  ASSUME NEW N, Names(N), NEW n \in Trees(N), NEW x \in N \union {Null}
  PROVE  UpdateDepth(n, x) \in Trees(N)
  <1>1. CASE x \in N
    BY <1>1, UpdateDepthType
  <1>2. CASE x \notin N
    <2>1. n \in [N -> Fields(N)]
      BY DEF Trees
    <2>2. \A a : [n EXCEPT ![x].depth = a] = n
      BY <1>2, <2>1
    <2>3. UpdateDepth(n, x) = n
      BY <2>2 DEF UpdateDepth
    <2> QED
      BY <2>3
  <1> QED
    BY <1>1, <1>2

LEMMA RebalancedType ==
  ASSUME NEW N, Names(N), NEW W, NEW v \in MapsOf(N, W), NEW x \in N, NEW k, NEW child \in N
  PROVE  LET r == Rebalance(v.n, child)
             u == Rebalanced(v, x, k, child)
         IN  /\ u \in MapsOf(N, W) /\ OnlyTree(u, v)
             /\ u.n = SetSide(UpdateDepth(r.n, r.top), x, k, r.top)
             /\ UpdateDepth(r.n, r.top) \in Trees(N) /\ r.top \in N \union {Null}
  <1> DEFINE r == Rebalance(v.n, child)
             m == UpdateDepth(r.n, r.top)
             h == SetSide(m, x, k, r.top)
             u == Rebalanced(v, x, k, child)
  <1>1. v.n \in Trees(N)
    BY DEF MapsOf
  <1>2. r.n \in Trees(N) /\ r.top \in N \union {Null}
    BY <1>1, RebalanceType DEF Tops
  <1>3. u = [v EXCEPT !.n = h]
    BY DEF Rebalanced
  <1> HIDE DEF r
  <1>4. m \in Trees(N)
    BY <1>2, UpdateDepthAny
  <1> HIDE DEF m
  <1>5. h \in Trees(N)
    BY <1>2, <1>4, SetSideType
  <1> HIDE DEF h, u
  <1>6. u \in MapsOf(N, W) /\ OnlyTree(u, v) /\ u.n = h
    BY <1>3, <1>5 DEF MapsOf, OnlyTree
  <1> QED
    BY <1>2, <1>4, <1>6 DEF u, h, m, r

Apart(x, M, O) == x \notin M /\ \A y \in O : y \notin M

\* Above the tree of M, u has the one of M, O and x.
Grown(N, z, u, x, M, O) ==
  /\ IsTree(u.n, {x} \union M \union O, x) /\ \A y \in N \ ({x} \union M) : u.n[y] = z.n[y]

\* The nodes below x and on its side of k have become those of M.
LEMMA RebalancedSide ==
  ASSUME NEW N, Names(N), NEW W, NEW n, NEW S \in SUBSET N, NEW x, NEW L, NEW R,
         Parts(n, S, x, L, R), NEW k, NEW z \in MapsOf(N, W), NEW M, NEW child,
         Fits(N, n, x, OtherOf(x, k, L, R), k, z.n, M, child), child # Null,
         Apart(x, M, OtherOf(x, k, L, R))
  PROVE  /\ Rebalanced(z, x, k, child) \in MapsOf(N, W) /\ OnlyTree(Rebalanced(z, x, k, child), z)
         /\ Grown(N, z, Rebalanced(z, x, k, child), x, M, OtherOf(x, k, L, R))
  <1> DEFINE O == OtherOf(x, k, L, R)
             r == Rebalance(z.n, child)
             m == UpdateDepth(r.n, r.top)
             t == r.top
             u == Rebalanced(z, x, k, child)
  <1>1. /\ z.n \in Trees(N) /\ z.n[x] = n[x] /\ (\A y \in O : z.n[y] = n[y])
        /\ M \in SUBSET N /\ IsTree(z.n, M, child) /\ \A y \in M : SameSide(x, k, y)
    BY DEF Fits
  <1>2. child \in N /\ x \in N /\ O \subseteq N
    <2>1. child \in M
      BY <1>1, TreeTop
    <2> QED
      BY <1>1, <2>1 DEF Parts, OtherOf
  <1>3. /\ u \in MapsOf(N, W) /\ OnlyTree(u, z) /\ u.n = SetSide(m, x, k, t)
        /\ m \in Trees(N) /\ t \in N \union {Null}
    BY <1>2, RebalancedType
  <1> DEFINE q == [n |-> m, top |-> t]
  <1>4. Rearranged(N, z.n, M, q) /\ t \in M
    BY <1>1, RebalancedTree
  <1> HIDE DEF m, t, r, u
  <1>5. IsTree(m, M, t) /\ \A y \in N \ M : m[y] = z.n[y]
    BY <1>4 DEF Rearranged
  <1> HIDE DEF O
  <1>6. Fits(N, n, x, O, k, m, M, t)
    BY <1>1, <1>2, <1>3, <1>5 DEF Fits, O, Apart
  <1>7. Fitted(N, x, O, m, M, u.n)
    BY <1>3, <1>6, GraftSide DEF O
  <1>8. IsTree(u.n, {x} \union M \union O, x) /\ \A y \in N \ {x} : u.n[y] = m[y]
    BY <1>7 DEF Fitted
  <1>9. \A y \in N \ ({x} \union M) : u.n[y] = z.n[y]
    BY <1>5, <1>8
  <1> QED
    BY <1>3, <1>8, <1>9 DEF O, u, Grown

LEMMA PlacedIs ==
  ASSUME NEW N, Names(N), NEW W, NEW v \in MapsOf(N, W), v.head # Null, v.tail # Null,
         NEW y \in N, NEW k, NEW new \in N
  PROVE  LET u == Placed(v, y, k, new)
         IN  /\ u \in MapsOf(N, W) /\ OnlyList(u, Entered(v, new))
             /\ u = NodeOrder(Entered(v, new), y, new, k > KeyOf(y))
             /\ Sown(N, v, u, new)
  <1> DEFINE z == Entered(v, new)
             g == k > KeyOf(y)
             u == Placed(v, y, k, new)
  <1>1. u = NodeOrder(z, y, new, g)
    BY DEF Placed, Entered
  <1>2. /\ z \in MapsOf(N, W) /\ z.head = v.head /\ z.tail = v.tail
        /\ Sown(N, v, z, new)
    BY EnteredIs
  <1> HIDE DEF z, u
  <1>3. u \in MapsOf(N, W) /\ OnlyList(u, z)
    <2>1. g \in BOOLEAN
      OBVIOUS
    <2> HIDE DEF g
    <2> QED
      BY <1>1, <1>2, <2>1, OrderType
  <1>4. u.n = z.n
    BY <1>3 DEF OnlyList
  <1> QED
    BY <1>1, <1>2, <1>3, <1>4 DEF z, u, Sown

\* ml_map_node_child
Put(v, k, new) ==
  CHOOSE below : below = [x \in DOMAIN v.n |->
    IF KeyOf(x) = k THEN v
    ELSE IF Side(v.n, x, k) = Null THEN Rebalanced(Placed(v, x, k, new), x, k, new)
    ELSE Rebalanced(below[Side(v.n, x, k)], x, k, Side(v.n, x, k))]

LEMMA InsertBelowIs ==
  ASSUME NEW v, NEW x, NEW k, NEW new
  PROVE  InsertBelow(v, x, k, new) = Put(v, k, new)[x]
  BY DEF InsertBelow, Put

LEMMA PutUnfolds ==
  ASSUME NEW N, Names(N), NEW W, NEW v \in MapsOf(N, W), v.head # Null, v.tail # Null,
         NEW rank, Ranked(N, v.n, rank), NEW k, NEW new \in N, NEW x \in N
  PROVE  /\ Put(v, k, new)[x] \in MapsOf(N, W)
         /\ Put(v, k, new)[x] =
              IF KeyOf(x) = k THEN v
              ELSE IF Side(v.n, x, k) = Null THEN Rebalanced(Placed(v, x, k, new), x, k, new)
              ELSE Rebalanced(Put(v, k, new)[Side(v.n, x, k)], x, k, Side(v.n, x, k))
  <1> DEFINE n == v.n
             D == DOMAIN n
             V == MapsOf(N, W)
             stop == {y \in N : KeyOf(y) = k \/ Side(n, y, k) = Null}
             next == [y \in N |-> Side(n, y, k)]
             Base(y) == IF KeyOf(y) = k THEN v ELSE Rebalanced(Placed(v, y, k, new), y, k, new)
             base == [y \in N |-> Base(y)]
             Step(y, u) == IF Side(n, y, k) = Null THEN v ELSE Rebalanced(u, y, k, Side(n, y, k))
             step == [p \in N \X V |-> Step(p[1], p[2])]
  <1>0. n \in Trees(N)
    BY DEF MapsOf
  <1>1. D = N
    BY <1>0 DEF Trees
  <1>s. \A y \in N : Side(n, y, k) \in N \union {Null}
    BY <1>0, SideFields
  <1>2. Descends(N, rank, stop, next)
    BY <1>0, SideFields DEF Descends, Ranked
  <1> HIDE DEF n, V
  <1>3. Steps(N, V, base, step)
    <2>1. \A y \in N : base[y] \in V
      <3> SUFFICES ASSUME NEW y \in N
                   PROVE  Base(y) \in V
        OBVIOUS
      <3>1. Placed(v, y, k, new) \in V
        BY PlacedIs DEF V
      <3>2. Rebalanced(Placed(v, y, k, new), y, k, new) \in V
        BY <3>1, RebalancedType DEF V
      <3> QED
        BY <3>2 DEF V
    <2>2. \A y \in N, r \in V : step[<<y, r>>] \in V
      <3> SUFFICES ASSUME NEW y \in N, NEW r \in V
                   PROVE  Step(y, r) \in V
        OBVIOUS
      <3>1. Side(n, y, k) # Null => Rebalanced(r, y, k, Side(n, y, k)) \in V
        BY <1>s, RebalancedType DEF V
      <3> QED
        BY <3>1 DEF V
    <2> HIDE DEF V, base, step
    <2> QED
      BY <2>1, <2>2 DEF Steps
  <1>4. /\ \A y \in N, r \in V : step[<<y, r>>] = Step(y, r)
        /\ \A y \in N : base[y] = Base(y) /\ next[y] = Side(n, y, k)
        /\ \A y \in N : y \in stop <=> KeyOf(y) = k \/ Side(n, y, k) = Null
    OBVIOUS
  <1> HIDE DEF D, stop, next, base, step
  <1>5. PICK f \in [N -> V] : Solves(f, N, stop, next, base, step)
    BY <1>2, <1>3, Recursion
  <1> DEFINE Body(g, y) == IF KeyOf(y) = k THEN v
                           ELSE IF Side(n, y, k) = Null
                                THEN Rebalanced(Placed(v, y, k, new), y, k, new)
                                ELSE Rebalanced(g[Side(n, y, k)], y, k, Side(n, y, k))
  <1>6. ASSUME NEW y \in N
        PROVE  f[y] = Body(f, y)
    <2>1. f[y] = IF y \in stop THEN base[y] ELSE step[<<y, f[Side(n, y, k)]>>]
      BY <1>4, <1>5 DEF Solves
    <2>2. y \notin stop => f[Side(n, y, k)] \in V
      BY <1>4, <1>s
    <2> QED
      BY <1>4, <2>1, <2>2
  <1>7. f = [y \in D |-> Body(f, y)]
    <2> HIDE DEF Body
    <2> QED
      BY <1>1, <1>6
  <1>8. Put(v, k, new) = [y \in D |-> Body(Put(v, k, new), y)]
    BY <1>7 DEF Put, D, n
  <1>9. Put(v, k, new)[x] = Body(Put(v, k, new), x)
    BY <1>1, <1>8
  <1>10. Put(v, k, new)[x] \in V
    <2> DEFINE p == Put(v, k, new)
               G == {y \in N : p[y] \in V}
    <2>1. \A y \in N : p[y] = Body(p, y)
      BY <1>1, <1>8
    <2> HIDE DEF p
    <2>2. ASSUME NEW y \in N, \A a \in N : rank[a] < rank[y] => a \in G
          PROVE  p[y] \in V
      <3>1. CASE KeyOf(y) = k
        BY <2>1, <3>1 DEF V
      <3>2. CASE KeyOf(y) # k /\ Side(n, y, k) = Null
        <4>1. Placed(v, y, k, new) \in V
          BY PlacedIs DEF V
        <4>2. Rebalanced(Placed(v, y, k, new), y, k, new) \in V
          BY <4>1, RebalancedType DEF V
        <4> QED
          BY <2>1, <3>2, <4>2
      <3>3. CASE KeyOf(y) # k /\ Side(n, y, k) # Null
        <4> DEFINE a == Side(n, y, k)
        <4>1. a \in N /\ rank[a] < rank[y]
          BY <1>0, <1>s, <3>3, SideFields DEF n
        <4>2. p[y] = Rebalanced(p[a], y, k, a)
          BY <2>1, <3>3
        <4> HIDE DEF a
        <4>3. p[a] \in V
          BY <2>2, <4>1
        <4> QED
          BY <4>1, <4>2, <4>3, RebalancedType DEF V
      <3> QED
        BY <3>1, <3>2, <3>3
    <2>3. rank \in [N -> Nat]
      BY DEF Ranked
    <2>4. \A y \in N : (\A a \in N : rank[a] < rank[y] => a \in G) => y \in G
      BY <2>2
    <2>5. N \subseteq G
      <3> HIDE DEF G
      <3> QED
        BY <2>3, <2>4, RankInduction
    <2> QED
      BY <2>5 DEF p
  <1> QED
    BY <1>9, <1>10 DEF n, V
\* No node of S has a key between those of p and k.
NextTo(S, p, k) ==
  \A y \in S : /\ ~ (KeyOf(p) < KeyOf(y) /\ KeyOf(y) < k)
              /\ ~ (k < KeyOf(y) /\ KeyOf(y) < KeyOf(p))

\* What becomes of the tree of S below x.
PutIn(N, W, v, k, new, S, x, u) ==
  /\ u \in MapsOf(N, W)
  /\ WithKey(S, k) # {} =>
       /\ OnlyTree(u, v) /\ IsTree(u.n, S, x) /\ \A y \in N \ S : u.n[y] = v.n[y]
  /\ WithKey(S, k) = {} =>
       /\ IsTree(u.n, S \union {new}, x) /\ \A y \in N \ (S \union {new}) : u.n[y] = v.n[y]
       /\ \E p \in S : OnlyTree(u, Placed(v, p, k, new)) /\ NextTo(S, p, k)

\* The nodes on the other side of x are not between it and k.
LEMMA OtherSides ==
  ASSUME NEW N, Names(N), NEW n, NEW S \in SUBSET N, NEW x, NEW L, NEW R, Parts(n, S, x, L, R),
         NEW k \in Int
  PROVE  NextTo({x} \union OtherOf(x, k, L, R), x, k)
  <1> DEFINE O == OtherOf(x, k, L, R)
  <1>1. x \in N /\ L \subseteq N /\ R \subseteq N
    BY DEF Parts
  <1>2. KeyOf(x) \in Int /\ \A y \in L \union R : KeyOf(y) \in Int
    BY <1>1, NodesAre
  <1>3. CASE k < KeyOf(x)
    <2>1. O = R /\ \A y \in R : KeyOf(x) < KeyOf(y)
      BY <1>3 DEF OtherOf, Parts
    <2> QED
      BY <1>2, <1>3, <2>1 DEF NextTo
  <1>4. CASE ~ (k < KeyOf(x))
    <2>1. O = L /\ \A y \in L : KeyOf(y) < KeyOf(x)
      BY <1>4 DEF OtherOf, Parts
    <2> QED
      BY <1>2, <1>4, <2>1 DEF NextTo
  <1> QED
    BY <1>3, <1>4

\* Nor are x and they between k and a node on the side of k.
LEMMA NextAbove ==
  ASSUME NEW N, Names(N), NEW n, NEW S \in SUBSET N, NEW x, NEW L, NEW R, Parts(n, S, x, L, R),
         NEW k \in Int, KeyOf(x) # k, NEW a \in SideOf(x, k, L, R),
         NextTo(SideOf(x, k, L, R), a, k)
  PROVE  NextTo(S, a, k)
  <1>1. x \in N /\ L \subseteq N /\ R \subseteq N /\ S = {x} \union L \union R
    BY DEF Parts
  <1>2. KeyOf(x) \in Int /\ \A y \in L \union R : KeyOf(y) \in Int
    BY <1>1, NodesAre
  <1>3. (\A y \in L : KeyOf(y) < KeyOf(x)) /\ \A y \in R : KeyOf(x) < KeyOf(y)
    BY DEF Parts
  <1>4. CASE k < KeyOf(x)
    <2>1. SideOf(x, k, L, R) = L
      BY <1>4 DEF SideOf
    <2>2. a \in L /\ NextTo(L, a, k)
      BY <2>1
    <2> QED
      BY <1>1, <1>2, <1>3, <1>4, <2>2 DEF NextTo
  <1>5. CASE ~ (k < KeyOf(x))
    <2>1. SideOf(x, k, L, R) = R
      BY <1>5 DEF SideOf
    <2>2. a \in R /\ NextTo(R, a, k) /\ KeyOf(x) < k
      BY <1>2, <1>5, <2>1
    <2> QED
      BY <1>1, <1>2, <1>3, <2>2 DEF NextTo
  <1> QED
    BY <1>4, <1>5

\* ml_map_node_child adds the new node if the tree has none of its key, and the list gets
\* it next to a node of the tree.
LEMMA PutTree ==
  ASSUME NEW N, Names(N), NEW W, NEW v \in MapsOf(N, W), v.head # Null, v.tail # Null,
         NEW rank, Ranked(N, v.n, rank), NEW k \in Int, NEW new \in N, KeyOf(new) = k,
         NEW S \in SUBSET N, NEW top, IsTree(v.n, S, top), top # Null
  PROVE  PutIn(N, W, v, k, new, S, top, InsertBelow(v, top, k, new))
  <1> DEFINE p == Put(v, k, new)
             n == v.n
             G == {U \in FiniteSubsetsOf(N) :
                     \A x \in N : IsTree(n, U, x) => PutIn(N, W, v, k, new, U, x, p[x])}
  <1>0. n \in Trees(N)
    BY DEF MapsOf
  <1>u. \A x \in N :
          /\ p[x] \in MapsOf(N, W)
          /\ p[x] = IF KeyOf(x) = k THEN v
                    ELSE IF Side(n, x, k) = Null THEN Rebalanced(Placed(v, x, k, new), x, k, new)
                    ELSE Rebalanced(p[Side(n, x, k)], x, k, Side(n, x, k))
    BY PutUnfolds
  <1> HIDE DEF p, n
  <1>1. ASSUME NEW U \in FiniteSubsetsOf(N),
               \A Z \in FiniteSubsetsOf(N) : Z \subseteq U /\ Z # U => Z \in G,
               NEW x \in N, IsTree(n, U, x)
        PROVE  PutIn(N, W, v, k, new, U, x, p[x])
    <2>0. U \in SUBSET N /\ IsFiniteSet(U) /\ x # Null
      BY NodesAre DEF FiniteSubsetsOf
    <2>1. PICK L \in SUBSET U, R \in SUBSET U : Parts(n, U, x, L, R)
      BY <1>1, <2>0, Split
    <2>2. x \in U
      BY <2>1 DEF Parts
    <2>3. CASE KeyOf(x) = k
      <3>1. p[x] = v /\ WithKey(U, k) # {}
        BY <1>u, <2>2, <2>3 DEF WithKey
      <3>2. OnlyTree(v, v)
        BY DEF OnlyTree
      <3> QED
        BY <1>1, <3>1, <3>2 DEF PutIn, n
    <2>4. CASE KeyOf(x) # k
      <3> DEFINE C == SideOf(x, k, L, R)
                 O == OtherOf(x, k, L, R)
                 side == Side(n, x, k)
      <3>1. /\ IsTree(n, C, side) /\ U = {x} \union C \union O /\ x \notin C /\ x \notin O
            /\ C \intersect O = {} /\ \A y \in C : SameSide(x, k, y)
        BY <2>1, SideTree
      <3>2. \A y \in O : KeyOf(y) # k
        BY <2>0, <2>1, <2>4, OtherKeys
      <3>3. WithKey(U, k) = WithKey(C, k)
        BY <2>4, <3>1, <3>2 DEF WithKey
      <3>4. SameSide(x, k, new)
        BY <2>4, NodesAre DEF SameSide
      <3>5. new # x /\ new \notin O /\ (WithKey(U, k) = {} => new \notin U)
        BY <2>4, <3>2 DEF WithKey
      <3> HIDE DEF C, O, side
      <3>6. CASE side = Null
        <4> DEFINE z == Placed(v, x, k, new)
                   u == Rebalanced(z, x, k, new)
        <4>1. p[x] = u
          BY <1>u, <2>4, <3>6 DEF side
        <4>2. C = {} /\ WithKey(U, k) = {}
          <5>1. C = {}
            BY <3>1, <3>6, EmptyTree
          <5> QED
            BY <3>3, <5>1 DEF WithKey
        <4>3. /\ z \in MapsOf(N, W) /\ (\A a \in N \ {new} : z.n[a] = n[a])
              /\ IsTree(z.n, {new}, new)
          <5>1. z \in MapsOf(N, W) /\ Sown(N, v, z, new)
            BY PlacedIs
          <5> QED
            BY <5>1 DEF n, Sown
        <4> HIDE DEF z, u
        <4>4. Fits(N, n, x, O, k, z.n, {new}, new)
          <5>1. z.n \in Trees(N)
            BY <4>3 DEF MapsOf
          <5>2. z.n[x] = n[x] /\ \A y \in O : z.n[y] = n[y]
            BY <2>0, <3>1, <3>5, <4>3
          <5> QED
            BY <3>4, <4>3, <5>1, <5>2 DEF Fits
        <4>5. /\ u \in MapsOf(N, W) /\ OnlyTree(u, z)
              /\ IsTree(u.n, {x} \union {new} \union O, x)
              /\ \A y \in N \ ({x} \union {new}) : u.n[y] = z.n[y]
          <5>1. new # Null /\ x \notin {new} /\ \A y \in O : y \notin {new}
            BY <3>5, NodesAre
          <5> DEFINE M == {new}
          <5> HIDE DEF M
          <5>2. Fits(N, n, x, OtherOf(x, k, L, R), k, z.n, M, new)
            BY <4>4 DEF M, O
          <5>3. Apart(x, M, OtherOf(x, k, L, R))
            BY <5>1 DEF M, O, Apart
          <5>4. u \in MapsOf(N, W) /\ OnlyTree(u, z) /\ Grown(N, z, u, x, M, O)
            BY <2>0, <2>1, <4>3, <5>1, <5>2, <5>3, RebalancedSide DEF u, O
          <5> QED
            BY <5>4 DEF M, Grown
        <4>6. {x} \union {new} \union O = U \union {new}
          BY <3>1, <4>2
        <4>7. \A y \in N \ (U \union {new}) : u.n[y] = n[y]
          BY <2>2, <4>3, <4>5
        <4>8. NextTo(U, x, k)
          <5>1. U = {x} \union O
            BY <3>1, <4>2
          <5> QED
            BY <2>0, <2>1, <5>1, OtherSides DEF O
        <4> QED
          BY <2>2, <4>1, <4>2, <4>5, <4>6, <4>7, <4>8 DEF PutIn, n, z
      <3>7. CASE side # Null
        <4> DEFINE z == p[side]
                   u == Rebalanced(z, x, k, side)
                   M == IF WithKey(U, k) = {} THEN C \union {new} ELSE C
        <4>1. p[x] = u
          BY <1>u, <2>4, <3>7 DEF side
        <4>2. side \in N
          BY <2>0, <3>1, <3>7, TreeTop
        <4>3. PutIn(N, W, v, k, new, C, side, z)
          <5>1. C \in FiniteSubsetsOf(N) /\ C # U
            <6>1. IsFiniteSet(C)
              BY <3>1 DEF IsTree
            <6> QED
              BY <2>0, <2>2, <3>1, <6>1 DEF FiniteSubsetsOf
          <5>2. C \in G
            BY <1>1, <3>1, <5>1
          <5> QED
            BY <3>1, <4>2, <5>2
        <4>4. /\ z \in MapsOf(N, W) /\ IsTree(z.n, M, side)
              /\ \A y \in N \ M : z.n[y] = n[y]
          BY <3>3, <4>3 DEF PutIn, n
        <4>5. /\ M \in SUBSET N /\ (\A y \in M : SameSide(x, k, y)) /\ x \notin M
              /\ \A y \in O : y \notin M
          BY <2>0, <3>1, <3>4, <3>5
        <4>6. {x} \union M \union O = (IF WithKey(U, k) = {} THEN U \union {new} ELSE U)
          BY <3>1
        <4> HIDE DEF z, u, M
        <4>7. Fits(N, n, x, O, k, z.n, M, side)
          <5>1. z.n \in Trees(N)
            BY <4>4 DEF MapsOf
          <5>2. z.n[x] = n[x] /\ \A y \in O : z.n[y] = n[y]
            BY <2>0, <3>1, <4>4, <4>5
          <5> QED
            BY <4>2, <4>4, <4>5, <5>1, <5>2 DEF Fits
        <4>8. /\ u \in MapsOf(N, W) /\ OnlyTree(u, z)
              /\ IsTree(u.n, {x} \union M \union O, x)
              /\ \A y \in N \ ({x} \union M) : u.n[y] = z.n[y]
          <5>1. Fits(N, n, x, OtherOf(x, k, L, R), k, z.n, M, side)
            BY <4>7 DEF O
          <5>2. Apart(x, M, OtherOf(x, k, L, R))
            BY <4>5 DEF O, Apart
          <5>3. u \in MapsOf(N, W) /\ OnlyTree(u, z) /\ Grown(N, z, u, x, M, O)
            BY <2>0, <2>1, <3>7, <4>4, <5>1, <5>2, RebalancedSide DEF u, O
          <5> QED
            BY <5>3 DEF Grown
        <4>9. CASE WithKey(U, k) = {}
          <5>1. IsTree(u.n, U \union {new}, x)
            BY <4>6, <4>8, <4>9
          <5>2. M = C \union {new}
            BY <4>9 DEF M
          <5>3. \A y \in N \ (U \union {new}) : u.n[y] = n[y]
            BY <3>1, <4>4, <4>8, <5>2
          <5>4. PICK a \in C : OnlyTree(z, Placed(v, a, k, new)) /\ NextTo(C, a, k)
            BY <3>3, <4>3, <4>9 DEF PutIn
          <5>5. /\ a \in U /\ OnlyTree(u, Placed(v, a, k, new))
                /\ NextTo(U, a, k)
            <6>1. a \in U /\ OnlyTree(u, Placed(v, a, k, new))
              BY <3>1, <4>8, <5>4 DEF OnlyTree
            <6>2. NextTo(U, a, k)
              BY <2>0, <2>1, <2>4, <3>1, <5>4, NextAbove DEF C, O
            <6> QED
              BY <6>1, <6>2
          <5> QED
            BY <4>1, <4>8, <4>9, <5>1, <5>3, <5>5 DEF PutIn, n
        <4>10. CASE WithKey(U, k) # {}
          <5>1. IsTree(u.n, U, x)
            BY <4>6, <4>8, <4>10
          <5>2. M = C
            BY <4>10 DEF M
          <5>3. \A y \in N \ U : u.n[y] = n[y]
            BY <3>1, <4>4, <4>8, <5>2
          <5>4. OnlyTree(z, v)
            BY <3>3, <4>3, <4>10 DEF PutIn
          <5>5. OnlyTree(u, v)
            BY <4>8, <5>4 DEF OnlyTree
          <5> QED
            BY <4>1, <4>8, <4>10, <5>1, <5>3, <5>5 DEF PutIn, n
        <4> QED
          BY <4>9, <4>10
      <3> QED
        BY <3>6, <3>7
    <2> QED
      BY <2>3, <2>4
  <1>2. FiniteSubsetsOf(N) \subseteq G
    <2>1. \A U \in FiniteSubsetsOf(N) :
            (\A Z \in FiniteSubsetsOf(N) : Z \subseteq U /\ Z # U => Z \in G) => U \in G
      BY <1>1
    <2> HIDE DEF G
    <2> QED
      BY <2>1, SetInduction
  <1>3. S \in FiniteSubsetsOf(N) /\ top \in N
    BY TreeTop DEF IsTree, FiniteSubsetsOf
  <1>4. PutIn(N, W, v, k, new, S, top, p[top])
    BY <1>2, <1>3 DEF n
  <1> QED
    BY <1>4, InsertBelowIs DEF p

------------------------------------------------------------------------------
(* A whole map.                                                              *)

\* The nodes of the list are those of T.
ListHas(N, v, T) ==
  /\ \E s : Chain(N, v, v.size, s) /\ Listing(v.size, s) = T
  /\ \A x \in N \ T : v.links[x] = Unlinked

\* The tree and the list of v have the nodes of T, and the others are in neither.
Whole(N, W, v, T) ==
  /\ v \in MapsOf(N, W) /\ T \in SUBSET N /\ IsTree(v.n, T, v.root)
  /\ ListHas(N, v, T) /\ \A x \in N \ T : v.n[x] = Blank

LEMMA WholeType ==
  ASSUME NEW N, NEW W, NEW v, NEW T, Whole(N, W, v, T)
  PROVE  /\ v \in MapsOf(N, W) /\ T \in SUBSET N /\ v.n \in Trees(N) /\ v.links \in Links(N)
         /\ v.size \in Nat /\ v.value \in [N -> W] /\ v.pending \in Seq(N) /\ IsTree(v.n, T, v.root)
  BY DEF Whole, ListHas, MapsOf

LEMMA WholeRank ==
  ASSUME NEW N, Names(N), NEW W, NEW v, NEW T, Whole(N, W, v, T)
  PROVE  \E rank : Ranked(N, v.n, rank)
  <1>1. v.n \in Trees(N) /\ T \in SUBSET N /\ IsTree(v.n, T, v.root)
          /\ \A x \in N \ T : v.n[x] = Blank
    BY WholeType DEF Whole, ListHas
  <1> QED
    BY <1>1, TreeRank

\* The nodes of the tree are those that have a depth.
LEMMA WholeDepth ==
  ASSUME NEW N, NEW W, NEW v, NEW T, Whole(N, W, v, T), NEW x \in N
  PROVE  x \in T <=> v.n[x].depth > 0
  <1>1. x \in T => v.n[x].depth > 0
    BY DEF Whole, ListHas, IsTree, Shape
  <1>2. x \notin T => v.n[x].depth = 0
    BY DEF Whole, ListHas, Blank
  <1> QED
    BY <1>1, <1>2

LEMMA WholeEmpty ==
  ASSUME NEW N, Names(N), NEW W, NEW v, NEW T, Whole(N, W, v, T)
  PROVE  /\ T # {} => /\ v.root \in T /\ v.head \in T /\ v.tail \in T
                      /\ v.root # Null /\ v.head # Null /\ v.tail # Null
         /\ T = {} => v.root = Null /\ v.head = Null /\ v.tail = Null /\ v.size = 0
  <1>1. PICK s : Chain(N, v, v.size, s) /\ Listing(v.size, s) = T
    BY DEF Whole, ListHas
  <1> DEFINE m == v.size
  <1>2. m \in Nat /\ T \in SUBSET N /\ Null \notin N
    BY WholeType, NodesAre
  <1>3. /\ m # 0 => v.head = s[1] /\ v.tail = s[m]
        /\ m = 0 => v.head = Null /\ v.tail = Null
    BY <1>1 DEF Chain
  <1>4. m # 0 => 1 \in 1 .. m /\ m \in 1 .. m
    BY <1>2
  <1>5. (m # 0 => s[1] \in T /\ s[m] \in T) /\ (m = 0 => T = {})
    BY <1>1, <1>2, <1>4 DEF Listing
  <1>6. v.root # Null => v.root \in T
    BY TreeTop DEF Whole, ListHas
  <1>7. v.root = Null => T = {}
    BY EmptyTree DEF Whole, ListHas
  <1> QED
    BY <1>2, <1>3, <1>5, <1>6, <1>7

LEMMA WholeFind ==
  ASSUME NEW N, Names(N), NEW W, NEW v, NEW T, Whole(N, W, v, T), NEW k \in Int
  PROVE  /\ Find(v, k) \in WithKey(T, k) \union {Null}
         /\ WithKey(T, k) = IF Find(v, k) = Null THEN {} ELSE {Find(v, k)}
  <1>1. PICK rank : Ranked(N, v.n, rank)
    BY WholeRank
  <1>2. v.n \in Trees(N) /\ T \in SUBSET N /\ IsTree(v.n, T, v.root)
    BY WholeType
  <1> QED
    BY <1>1, <1>2, FindTree

\* What v has but its values, its order and what filter has left.
SameShape(u, v) ==
  /\ u.root = v.root /\ u.head = v.head /\ u.tail = v.tail /\ u.size = v.size
  /\ u.n = v.n /\ u.links = v.links

LEMMA ShapeWhole ==
  ASSUME NEW N, NEW W, NEW v, NEW T, Whole(N, W, v, T), NEW u \in MapsOf(N, W), SameShape(u, v)
  PROVE  Whole(N, W, u, T)
  <1>1. PICK s : Chain(N, v, v.size, s) /\ Listing(v.size, s) = T
    BY DEF Whole, ListHas
  <1>2. Chain(N, u, u.size, s) /\ Listing(u.size, s) = T
    BY <1>1 DEF Chain, SameShape
  <1> QED
    BY <1>2 DEF Whole, ListHas, SameShape

\* u is v with other nodes in its tree and its list.
Else(u, v) == u.order = v.order /\ u.value = v.value /\ u.pending = v.pending

LEMMA MovedWhole ==
  ASSUME NEW N, NEW W, NEW v, NEW T, Whole(N, W, v, T), NEW u, Moved(N, W, v, u, v.size, T)
  PROVE  Whole(N, W, u, T) /\ Else(u, v) /\ u.n = v.n /\ u.root = v.root
  <1>1. PICK t : Chain(N, u, v.size, t) /\ Listing(v.size, t) = T
    BY DEF Moved
  <1>2. u \in MapsOf(N, W) /\ OnlyList(u, v) /\ Elsewhere(N, v, u, T)
    BY DEF Moved
  <1>3. /\ u.size = v.size /\ u.n = v.n /\ u.root = v.root /\ u.order = v.order
        /\ u.value = v.value /\ u.pending = v.pending
    BY <1>2 DEF OnlyList
  <1>4. \A x \in N \ T : u.n[x] = Blank /\ u.links[x] = Unlinked
    BY <1>2, <1>3 DEF Whole, ListHas, Elsewhere
  <1> QED
    BY <1>1, <1>2, <1>3, <1>4 DEF Whole, ListHas, Else

LEMMA MoveWhole ==
  ASSUME NEW N, Names(N), NEW W, NEW v, NEW T, Whole(N, W, v, T), NEW x \in T
  PROVE  /\ Whole(N, W, MoveTail(v, x), T) /\ Else(MoveTail(v, x), v) /\ MoveTail(v, x).n = v.n
         /\ MoveTail(v, x).root = v.root
         /\ Whole(N, W, MoveHead(v, x), T) /\ Else(MoveHead(v, x), v) /\ MoveHead(v, x).n = v.n
         /\ MoveHead(v, x).root = v.root
  <1>1. PICK s : Chain(N, v, v.size, s) /\ Listing(v.size, s) = T
    BY DEF Whole, ListHas
  <1>2. PICK i \in 1 .. v.size : x = s[i]
    BY <1>1 DEF Listing
  <1>3. v \in MapsOf(N, W)
    BY WholeType
  <1>4. Moved(N, W, v, MoveTail(v, x), v.size, T)
    BY <1>1, <1>2, <1>3, MoveTailIs
  <1>5. Moved(N, W, v, MoveHead(v, x), v.size, T)
    BY <1>1, <1>2, <1>3, MoveHeadIs
  <1> QED
    BY <1>4, <1>5, MovedWhole

LEMMA RemoveWhole ==
  ASSUME NEW N, Names(N), NEW W, NEW v, NEW T, Whole(N, W, v, T), NEW k \in Int
  PROVE  Whole(N, W, Remove(v, k), T \ WithKey(T, k)) /\ Else(Remove(v, k), v)
  <1> DEFINE r == RemoveBelow(v.n, v.root, k)
             y == Find(v, k)
             z == RemoveLink(v, y)
             u == Remove(v, k)
  <1>1. v \in MapsOf(N, W) /\ T \in SUBSET N /\ v.n \in Trees(N) /\ IsTree(v.n, T, v.root)
          /\ v.size \in Nat
    BY WholeType
  <1>2. CASE v.root = Null
    <2>1. u = v /\ T = {}
      BY <1>1, <1>2, EmptyTree DEF Remove
    <2>2. T \ WithKey(T, k) = T
      BY <2>1
    <2> QED
      BY <2>1, <2>2 DEF Else
  <1>3. CASE v.root # Null
    <2>1. u = [z EXCEPT !.n = r.n, !.root = r.top]
      BY <1>3 DEF Remove
    <2>2. PICK rank : Ranked(N, v.n, rank)
      BY WholeRank
    <2>3. /\ r.n \in Trees(N) /\ r.top \in N \union {Null}
          /\ IsTree(r.n, T \ WithKey(T, k), r.top)
          /\ (\A x \in N \ T : r.n[x] = v.n[x]) /\ \A x \in WithKey(T, k) : r.n[x] = Blank
      <3>1. Pruned(N, v.n, T, k, r)
        BY <1>1, <1>3, <2>2, BelowTree
      <3> QED
        BY <3>1 DEF Pruned
    <2>4. y \in WithKey(T, k) \union {Null} /\ WithKey(T, k) = IF y = Null THEN {} ELSE {y}
      BY WholeFind
    <2> HIDE DEF r, y, u
    <2>5. \A x \in N \ (T \ WithKey(T, k)) : r.n[x] = Blank
      BY <2>3 DEF Whole, ListHas
    <2>6. PICK s : Chain(N, v, v.size, s) /\ Listing(v.size, s) = T
      BY DEF Whole, ListHas
    <2> DEFINE M == T \ WithKey(T, k)
    <2>7. ASSUME z \in MapsOf(N, W), Else(z, v), ListHas(N, z, M)
          PROVE  Whole(N, W, u, M) /\ Else(u, v)
      <3> HIDE DEF z
      <3>1. /\ u \in MapsOf(N, W) /\ u.n = r.n /\ u.root = r.top /\ u.links = z.links
            /\ u.size = z.size /\ u.head = z.head /\ u.tail = z.tail
            /\ u.order = z.order /\ u.value = z.value /\ u.pending = z.pending
        BY <2>1, <2>3, <2>7 DEF MapsOf
      <3>2. M \in SUBSET N
        BY <1>1
      <3>3. (\A x \in N \ M : u.n[x] = Blank) /\ IsTree(u.n, M, u.root)
        BY <2>3, <2>5, <3>1
      <3> HIDE DEF M
      <3>4. ListHas(N, u, M)
        BY <2>7, <3>1 DEF ListHas, Chain
      <3>5. Else(u, v)
        BY <2>7, <3>1 DEF Else
      <3> QED
        BY <3>1, <3>2, <3>3, <3>4, <3>5 DEF Whole
    <2> HIDE DEF M, z
    <2>8. CASE y = Null
      <3>1. z = v
        BY <2>8 DEF RemoveLink, z
      <3>2. M = T
        BY <2>4, <2>8 DEF M
      <3>3. Else(v, v) /\ ListHas(N, v, T)
        BY DEF Else, Whole
      <3> QED
        BY <1>1, <2>7, <3>1, <3>2, <3>3 DEF u, M
    <2>9. CASE y # Null
      <3>1. WithKey(T, k) = {y} /\ y \in T
        BY <2>4, <2>9 DEF WithKey
      <3>2. PICK i \in 1 .. v.size : y = s[i]
        BY <2>6, <3>1 DEF Listing
      <3> DEFINE t == Deleted(v.size, s, i)
                 m == v.size
      <3>3. /\ z \in MapsOf(N, W) /\ z.size = m - 1
            /\ z.order = v.order /\ z.value = v.value /\ z.pending = v.pending
            /\ Chain(N, z, m - 1, t) /\ z.links[y] = Unlinked /\ Elsewhere(N, v, z, T)
        BY <1>1, <2>6, <3>2, RemoveLinkIs DEF z
      <3>4. Less(m, s, t, y)
        <4>1. m \in Nat /\ s \in [1 .. m -> N] /\ Once(m, s)
          BY <2>6 DEF Chain
        <4> QED
          BY <3>2, <4>1, DeletedIs
      <3> HIDE DEF t, z
      <3>5. Listing(z.size, t) = T \ {y}
        BY <2>6, <3>3, <3>4 DEF Less
      <3>6. \A x \in N \ (T \ {y}) : z.links[x] = Unlinked
        <4>1. \A x \in N \ T : z.links[x] = Unlinked
          BY <3>3 DEF Elsewhere, Whole, ListHas
        <4> QED
          BY <3>3, <4>1
      <3>7. Chain(N, z, z.size, t) /\ Else(z, v)
        BY <3>3 DEF Else
      <3>8. M = T \ {y}
        BY <3>1 DEF M
      <3>9. ListHas(N, z, M)
        BY <3>5, <3>6, <3>7, <3>8 DEF ListHas
      <3> QED
        BY <2>7, <3>3, <3>7, <3>9 DEF u, M
    <2> QED
      BY <2>8, <2>9
  <1> QED
    BY <1>2, <1>3
\* The nodes of T and one for k, if none has that key.
Grows(T, k, new) == IF WithKey(T, k) = {} THEN T \union {new} ELSE T

LEMMA ListGrows ==
  ASSUME NEW N, Names(N), NEW W, NEW v, NEW T, Whole(N, W, v, T), NEW k, NEW new \in N,
         new \notin T, NEW p \in T
  PROVE  /\ ListHas(N, Placed(v, p, k, new), T \union {new})
         /\ Placed(v, p, k, new).order = v.order /\ Placed(v, p, k, new).value = v.value
         /\ Placed(v, p, k, new).pending = v.pending /\ Placed(v, p, k, new).root = v.root
  <1> DEFINE z == Entered(v, new)
             q == Placed(v, p, k, new)
             m == v.size
             g == k > KeyOf(p)
  <1>1. v \in MapsOf(N, W) /\ T \in SUBSET N /\ m \in Nat
    BY WholeType
  <1>2. PICK s : Chain(N, v, m, s) /\ Listing(m, s) = T
    BY DEF Whole, ListHas
  <1>3. v.head # Null /\ v.tail # Null
    BY WholeEmpty
  <1>4. /\ z \in MapsOf(N, W) /\ z.size = m + 1 /\ z.head = v.head /\ z.tail = v.tail
        /\ z.links = v.links /\ z.order = v.order /\ z.value = v.value
        /\ z.pending = v.pending /\ z.root = v.root
    BY <1>1, EnteredIs
  <1>5. q = NodeOrder(z, p, new, g) /\ OnlyList(q, z) /\ g \in BOOLEAN
    BY <1>1, <1>3, PlacedIs
  <1> HIDE DEF z, q, g
  <1>6. Chain(N, z, m, s)
    BY <1>2, <1>4 DEF Chain
  <1> HIDE DEF m
  <1>7. PICK i \in 0 .. m : LinksIn(N, z, q, m, s, i, new)
    BY <1>2, <1>4, <1>5, <1>6, OrderChain
  <1> DEFINE t == Inserted(m, s, i, new)
  <1>8. Chain(N, q, m + 1, t)
    BY <1>2, <1>6, <1>7, InsertChain
  <1>9. More(m, s, t, new)
    <2>1. s \in [1 .. m -> N] /\ Once(m, s)
      BY <1>2 DEF Chain
    <2> QED
      BY <1>1, <1>2, <2>1, InsertedIs
  <1>10. Elsewhere(N, z, q, T \union {new})
    BY <1>1, <1>2, <1>7, InElsewhere
  <1>11. /\ q.size = m + 1 /\ q.order = v.order /\ q.value = v.value /\ q.pending = v.pending
         /\ q.root = v.root
    BY <1>4, <1>5 DEF OnlyList
  <1>12. \A x \in N \ (T \union {new}) : q.links[x] = Unlinked
    BY <1>4, <1>10 DEF Elsewhere, Whole, ListHas
  <1> HIDE DEF t
  <1>13. Listing(q.size, t) = T \union {new} /\ Chain(N, q, q.size, t)
    BY <1>2, <1>8, <1>9, <1>11 DEF More
  <1>14. ListHas(N, q, T \union {new})
    BY <1>12, <1>13 DEF ListHas
  <1> QED
    BY <1>11, <1>14 DEF q

\* The first node of a map.
LEMMA SlotFirst ==
  ASSUME NEW N, Names(N), NEW W, NEW v, Whole(N, W, v, {}), NEW k, NEW new \in N
  PROVE  Whole(N, W, Slot(v, k, new), {new}) /\ Else(Slot(v, k, new), v)
  <1> DEFINE z == Entered(v, new)
             u == Slot(v, k, new)
             s == [j \in 1 .. 1 |-> new]
  <1>1. v \in MapsOf(N, W) /\ v.size = 0 /\ v.root = Null
    BY WholeType, WholeEmpty
  <1>2. u = [z EXCEPT !.root = new, !.head = new, !.tail = new]
    BY <1>1 DEF Slot, Entered, MapsOf
  <1>3. /\ z \in MapsOf(N, W) /\ z.size = v.size + 1 /\ z.links = v.links /\ z.order = v.order
        /\ z.value = v.value /\ z.pending = v.pending
    BY <1>1, EnteredIs
  <1>a. (\A y \in N \ {new} : z.n[y] = v.n[y]) /\ IsTree(z.n, {new}, new)
    <2>1. Sown(N, v, z, new)
      BY <1>1, EnteredIs
    <2> QED
      BY <2>1 DEF Sown
  <1> HIDE DEF z, u
  <1>4. /\ u \in MapsOf(N, W) /\ u.size = 1 /\ u.links = v.links /\ u.order = v.order
        /\ u.value = v.value /\ u.pending = v.pending /\ u.n = z.n
        /\ u.root = new /\ u.head = new /\ u.tail = new
    <2>1. z.size = 1
      BY <1>1, <1>3
    <2>2. /\ u.size = z.size /\ u.links = z.links /\ u.order = z.order /\ u.value = z.value
          /\ u.pending = z.pending /\ u.n = z.n /\ u.root = new /\ u.head = new /\ u.tail = new
          /\ u \in MapsOf(N, W)
      BY <1>2, <1>3 DEF MapsOf
    <2> QED
      BY <1>3, <2>1, <2>2
  <1>5. \A x \in N : v.n[x] = Blank /\ v.links[x] = Unlinked
    BY DEF Whole, ListHas
  <1>6. Chain(N, u, 1, s)
    <2>1. 1 \in Nat /\ s \in [1 .. 1 -> N] /\ \A j \in 1 .. 1 : j = 1 /\ s[j] = new
      OBVIOUS
    <2>2. Once(1, s)
      BY DEF Once
    <2>3. u.links[new].prev = Null /\ u.links[new].next = Null
      BY <1>4, <1>5 DEF Unlinked
    <2>4. u.links \in Links(N)
      BY <1>4 DEF MapsOf
    <2> HIDE DEF s
    <2> QED
      BY <1>4, <2>1, <2>2, <2>3, <2>4 DEF Chain
  <1>7. Listing(1, s) = {new}
    BY DEF Listing
  <1> HIDE DEF s
  <1>8. ListHas(N, u, {new})
    <2>1. \A x \in N \ {new} : u.links[x] = Unlinked
      BY <1>4, <1>5
    <2>2. Chain(N, u, u.size, s) /\ Listing(u.size, s) = {new}
      BY <1>4, <1>6, <1>7
    <2> QED
      BY <2>1, <2>2 DEF ListHas
  <1>9. \A x \in N \ {new} : u.n[x] = Blank
    BY <1>a, <1>4, <1>5
  <1>10. IsTree(u.n, {new}, u.root) /\ {new} \in SUBSET N
    BY <1>a, <1>4
  <1> QED
    BY <1>4, <1>8, <1>9, <1>10 DEF Whole, Else, u

\* ml_map_node
LEMMA SlotWhole ==
  ASSUME NEW N, Names(N), NEW W, NEW v, NEW T, Whole(N, W, v, T), NEW k \in Int,
         NEW new \in N, KeyOf(new) = k
  PROVE  Whole(N, W, Slot(v, k, new), Grows(T, k, new)) /\ Else(Slot(v, k, new), v)
  <1> DEFINE u == Slot(v, k, new)
  <1>1. v \in MapsOf(N, W) /\ T \in SUBSET N /\ v.n \in Trees(N) /\ IsTree(v.n, T, v.root)
    BY WholeType
  <1>2. CASE v.root = Null
    <2>1. T = {} /\ Grows(T, k, new) = {new}
      <3>1. T = {}
        BY <1>1, <1>2, EmptyTree
      <3> QED
        BY <3>1 DEF Grows, WithKey
    <2> QED
      BY <2>1, SlotFirst
  <1>3. CASE v.root # Null
    <2>1. u = InsertBelow(v, v.root, k, new)
      BY <1>3 DEF Slot
    <2>2. PICK rank : Ranked(N, v.n, rank)
      BY WholeRank
    <2>3. v.head # Null /\ v.tail # Null
      BY <1>1, <1>3, TreeTop, WholeEmpty
    <2>4. PutIn(N, W, v, k, new, T, v.root, u)
      BY <1>1, <1>3, <2>1, <2>2, <2>3, PutTree
    <2> HIDE DEF u
    <2>5. CASE WithKey(T, k) # {}
      <3>1. /\ u \in MapsOf(N, W) /\ OnlyTree(u, v) /\ IsTree(u.n, T, v.root)
            /\ \A y \in N \ T : u.n[y] = v.n[y]
        BY <2>4, <2>5 DEF PutIn
      <3>2. ListHas(N, u, T)
        <4>1. ListHas(N, v, T)
          BY DEF Whole
        <4> QED
          BY <3>1, <4>1 DEF ListHas, Chain, OnlyTree
      <3>3. \A y \in N \ T : u.n[y] = Blank
        BY <3>1 DEF Whole
      <3>4. Whole(N, W, u, T) /\ Else(u, v)
        BY <1>1, <3>1, <3>2, <3>3 DEF Whole, OnlyTree, Else
      <3> QED
        BY <2>5, <3>4 DEF Grows, u
    <2>6. CASE WithKey(T, k) = {}
      <3> DEFINE M == T \union {new}
      <3>1. PICK p \in T : OnlyTree(u, Placed(v, p, k, new))
        BY <2>4, <2>6 DEF PutIn
      <3>2. u \in MapsOf(N, W) /\ IsTree(u.n, M, v.root) /\ \A y \in N \ M : u.n[y] = v.n[y]
        BY <2>4, <2>6 DEF PutIn
      <3>3. new \notin T
        BY <2>6 DEF WithKey
      <3> DEFINE q == Placed(v, p, k, new)
      <3>4. /\ ListHas(N, q, M) /\ q.order = v.order /\ q.value = v.value
            /\ q.pending = v.pending /\ q.root = v.root
        BY <3>3, ListGrows
      <3>5. \A y \in N \ M : u.n[y] = Blank
        BY <3>2 DEF Whole
      <3>6. M \in SUBSET N
        BY <1>1
      <3> HIDE DEF M, q
      <3>7. ListHas(N, u, M) /\ u.root = v.root /\ Else(u, v)
        BY <3>1, <3>4 DEF ListHas, Chain, OnlyTree, Else, q
      <3>8. Whole(N, W, u, M)
        BY <3>2, <3>5, <3>6, <3>7 DEF Whole
      <3> QED
        BY <2>6, <3>7, <3>8 DEF Grows, M, u
    <2> QED
      BY <2>5, <2>6
  <1> QED
    BY <1>2, <1>3

\* The node of k is the one that was there, or the new one.
LEMMA SlotFind ==
  ASSUME NEW N, Names(N), NEW W, NEW v, NEW T, Whole(N, W, v, T), NEW k \in Int,
         NEW new \in N, KeyOf(new) = k
  PROVE  /\ Find(Slot(v, k, new), k) = IF Find(v, k) = Null THEN new ELSE Find(v, k)
         /\ Find(Slot(v, k, new), k) \in Grows(T, k, new)
  <1> DEFINE u == Slot(v, k, new)
             M == Grows(T, k, new)
  <1>1. WithKey(T, k) = IF Find(v, k) = Null THEN {} ELSE {Find(v, k)}
    BY WholeFind
  <1>2. WithKey(M, k) = IF Find(u, k) = Null THEN {} ELSE {Find(u, k)}
    <2>1. Whole(N, W, u, M)
      BY SlotWhole
    <2> HIDE DEF u, M
    <2> QED
      BY <2>1, WholeFind
  <1>3. WithKey(M, k) = IF Find(v, k) = Null THEN {new} ELSE {Find(v, k)}
    BY <1>1 DEF Grows, WithKey
  <1> HIDE DEF u, M
  <1>4. Find(u, k) = IF Find(v, k) = Null THEN new ELSE Find(v, k)
    BY <1>2, <1>3
  <1>5. Find(u, k) \in M
    BY <1>3, <1>4 DEF WithKey
  <1> QED
    BY <1>4, <1>5 DEF u, M
------------------------------------------------------------------------------
(* Iteration.                                                                *)

\* The list from a node on.
From(v) ==
  CHOOSE from : from = [x \in DOMAIN v.links |->
    <<x>> \o (IF v.links[x].next = Null THEN <<>> ELSE from[v.links[x].next])]

LEMMA NodeListIs ==
  ASSUME NEW v
  PROVE  NodeList(v) = IF v.head = Null THEN <<>> ELSE From(v)[v.head]
  BY DEF NodeList, From

\* How far the nodes of s are from its end.
ToEnd(N, m, s) ==
  [x \in N |-> IF x \in Listing(m, s) THEN m - (CHOOSE i \in 1 .. m : s[i] = x) ELSE 0]

LEMMA ToEndIs ==
  ASSUME NEW N, NEW m \in Nat, NEW s \in [1 .. m -> N], Once(m, s)
  PROVE  ToEnd(N, m, s) \in [N -> Nat] /\ \A i \in 1 .. m : ToEnd(N, m, s)[s[i]] = m - i
  <1> DEFINE Pos(x) == CHOOSE i \in 1 .. m : s[i] = x
  <1>1. \A x \in Listing(m, s) : Pos(x) \in 1 .. m /\ s[Pos(x)] = x
    BY DEF Listing
  <1>2. \A i \in 1 .. m : s[i] \in Listing(m, s) /\ s[i] \in N
    BY DEF Listing
  <1>3. ToEnd(N, m, s) = [x \in N |-> IF x \in Listing(m, s) THEN m - Pos(x) ELSE 0]
    BY DEF ToEnd
  <1> HIDE DEF Pos
  <1>4. \A i \in 1 .. m : Pos(s[i]) = i
    BY <1>1, <1>2 DEF Once
  <1>5. \A x \in Listing(m, s) : m - Pos(x) \in Nat
    BY <1>1
  <1> QED
    BY <1>2, <1>3, <1>4, <1>5

Onward(N, v, x) ==
  /\ From(v)[x] \in Seq(N)
  /\ From(v)[x] = <<x>> \o (IF v.links[x].next = Null THEN <<>> ELSE From(v)[v.links[x].next])

LEMMA FromUnfolds ==
  ASSUME NEW N, Names(N), NEW W, NEW v, NEW T, Whole(N, W, v, T)
  PROVE  \A x \in N : Onward(N, v, x)
  <1> DEFINE K == v.links
             m == v.size
  <1>0. PICK s : Chain(N, v, m, s) /\ Listing(m, s) = T
    BY DEF Whole, ListHas
  <1> DEFINE D == DOMAIN K
             V == Seq(N)
             rank == ToEnd(N, m, s)
             stop == {y \in N : K[y].next = Null}
             next == [y \in N |-> K[y].next]
             base == [y \in N |-> <<y>>]
             step == [p \in N \X V |-> <<p[1]>> \o p[2]]
  <1>1. K \in Links(N) /\ m \in Nat /\ s \in [1 .. m -> N] /\ Once(m, s) /\ Null \notin N
    BY <1>0, WholeType, NodesAre DEF Chain
  <1>2. D = N
    BY <1>1 DEF Links
  <1>3. rank \in [N -> Nat] /\ \A i \in 1 .. m : rank[s[i]] = m - i
    BY <1>1, ToEndIs
  <1>4. \A i \in 1 .. m : K[s[i]].next = IF i = m THEN Null ELSE s[i + 1]
    BY <1>0 DEF Chain
  <1>5. \A y \in N \ T : K[y].next = Null
    BY DEF Whole, ListHas, Unlinked
  <1> HIDE DEF K, m, rank
  <1>6. Descends(N, rank, stop, next)
    <2>1. ASSUME NEW y \in N \ stop
          PROVE  next[y] \in N /\ rank[next[y]] < rank[y]
      <3>1. y \in T /\ K[y].next # Null
        BY <1>5
      <3>2. PICK i \in 1 .. m : y = s[i]
        BY <1>0, <3>1 DEF Listing
      <3>3. i # m /\ K[y].next = s[i + 1] /\ i + 1 \in 1 .. m
        BY <1>1, <1>4, <3>1, <3>2
      <3>4. s[i + 1] \in N /\ rank[s[i + 1]] = m - (i + 1) /\ rank[y] = m - i
        BY <1>1, <1>3, <3>2, <3>3
      <3>5. m - (i + 1) < m - i
        BY <1>1
      <3> QED
        BY <3>3, <3>4, <3>5
    <2> HIDE DEF stop, next
    <2> QED
      BY <1>3, <2>1 DEF Descends
  <1>7. Steps(N, V, base, step)
    <2>1. \A y \in N : <<y>> \in Seq(N)
      OBVIOUS
    <2>2. \A y \in N, r \in Seq(N) : <<y>> \o r \in Seq(N)
      BY <2>1, ConcatProperties
    <2>3. (\A y \in N : base[y] = <<y>>) /\ \A y \in N, r \in V : step[<<y, r>>] = <<y>> \o r
      OBVIOUS
    <2> HIDE DEF base, step
    <2> QED
      BY <2>1, <2>2, <2>3 DEF Steps
  <1>8. /\ \A y \in N, r \in V : step[<<y, r>>] = <<y>> \o r
        /\ \A y \in N : base[y] = <<y>> /\ next[y] = K[y].next
        /\ \A y \in N : y \in stop <=> K[y].next = Null
        /\ \A y \in N : K[y].next \in N \union {Null}
    BY <1>1 DEF Links, Link
  <1> HIDE DEF D, V, stop, next, base, step
  <1>9. PICK f \in [N -> V] : Solves(f, N, stop, next, base, step)
    BY <1>6, <1>7, Recursion
  <1> DEFINE Body(g, y) == <<y>> \o (IF K[y].next = Null THEN <<>> ELSE g[K[y].next])
  <1>10. ASSUME NEW y \in N
         PROVE  f[y] = Body(f, y)
    <2>1. f[y] = IF y \in stop THEN base[y] ELSE step[<<y, f[K[y].next]>>]
      BY <1>8, <1>9 DEF Solves
    <2>2. y \notin stop => f[K[y].next] \in V
      BY <1>8
    <2>3. <<y>> \o <<>> = <<y>>
      <3>1. <<y>> \in Seq(N)
        OBVIOUS
      <3> QED
        BY <3>1, ConcatEmptySeq
    <2>4. CASE y \in stop
      BY <1>8, <2>1, <2>3, <2>4
    <2>5. CASE y \notin stop
      BY <1>8, <2>1, <2>2, <2>5
    <2> QED
      BY <2>4, <2>5
  <1>11. f = [y \in D |-> Body(f, y)]
    <2> HIDE DEF Body
    <2> QED
      BY <1>2, <1>10
  <1>12. From(v) = [y \in D |-> Body(From(v), y)]
    BY <1>11 DEF From, D, K
  <1>13. \A x \in N : From(v)[x] = Body(From(v), x)
    BY <1>2, <1>12
  <1>14. \A x \in N : From(v)[x] \in Seq(N)
    <2> DEFINE p == From(v)
               G == {y \in N : p[y] \in V}
    <2> HIDE DEF p
    <2>1. ASSUME NEW y \in N, \A a \in N : rank[a] < rank[y] => a \in G
          PROVE  p[y] \in V
      <3>1. p[y] = Body(p, y)
        BY <1>13 DEF p
      <3>2. <<y>> \in Seq(N) /\ <<>> \in Seq(N)
        OBVIOUS
      <3>3. CASE K[y].next = Null
        <4>1. p[y] = <<y>> \o <<>>
          BY <3>1, <3>3
        <4> QED
          BY <3>2, <4>1, ConcatProperties DEF V
      <3>4. CASE K[y].next # Null
        <4>1. p[y] = <<y>> \o p[K[y].next]
          BY <3>1, <3>4
        <4>2. next[y] \in N /\ rank[next[y]] < rank[y] /\ next[y] = K[y].next
          BY <1>6, <1>8, <3>4 DEF Descends
        <4>3. p[K[y].next] \in Seq(N)
          BY <2>1, <4>2 DEF V
        <4> QED
          BY <3>2, <4>1, <4>3, ConcatProperties DEF V
      <3> QED
        BY <3>3, <3>4
    <2>2. \A y \in N : (\A a \in N : rank[a] < rank[y] => a \in G) => y \in G
      BY <2>1
    <2>3. N \subseteq G
      <3> HIDE DEF G
      <3> QED
        BY <1>3, <2>2, RankInduction
    <2> QED
      BY <2>3 DEF p, V
  <1> QED
    BY <1>13, <1>14 DEF K, Onward

\* The nodes are iterated as they are linked.
LEMMA ListIs ==
  ASSUME NEW N, Names(N), NEW W, NEW v, NEW T, Whole(N, W, v, T), NEW s,
         Chain(N, v, v.size, s), Listing(v.size, s) = T
  PROVE  /\ NodeList(v) \in Seq(N) /\ Len(NodeList(v)) = v.size
         /\ \A j \in 1 .. v.size : NodeList(v)[j] = s[j]
  <1> DEFINE m == v.size
             K == v.links
             p == From(v)
  <1>1. m \in Nat /\ s \in [1 .. m -> N] /\ Once(m, s) /\ Null \notin N /\ K \in Links(N)
    BY WholeType, NodesAre DEF Chain
  <1>2. \A i \in 1 .. m : K[s[i]].next = IF i = m THEN Null ELSE s[i + 1]
    BY DEF Chain
  <1>3. \A x \in N : /\ p[x] \in Seq(N)
                     /\ p[x] = <<x>> \o (IF K[x].next = Null THEN <<>> ELSE p[K[x].next])
    <2>1. \A x \in N : Onward(N, v, x)
      BY FromUnfolds
    <2> QED
      BY <2>1 DEF Onward
  <1>4. v.head = IF m = 0 THEN Null ELSE s[1]
    BY DEF Chain
  <1>5. NodeList(v) = IF v.head = Null THEN <<>> ELSE p[v.head]
    BY NodeListIs
  <1> HIDE DEF m, K, p
  <1> DEFINE Ends(i) == /\ Len(p[s[i]]) = (m - i) + 1
                        /\ \A j \in 1 .. (m - i) + 1 : p[s[i]][j] = s[(i - 1) + j]
             rank == [i \in 1 .. m |-> m - i]
             G == {i \in 1 .. m : Ends(i)}
  <1>6. ASSUME NEW i \in 1 .. m, \A l \in 1 .. m : rank[l] < rank[i] => l \in G
        PROVE  Ends(i)
    <2>0. s[i] \in N /\ <<s[i]>> \in Seq(N) /\ Len(<<s[i]>>) = 1 /\ <<s[i]>>[1] = s[i]
      BY <1>1
    <2>1. CASE i = m
      <3>1. p[s[i]] = <<s[i]>> \o <<>>
        BY <1>2, <1>3, <2>0, <2>1
      <3>2. p[s[i]] = <<s[i]>>
        BY <2>0, <3>1, ConcatEmptySeq
      <3>3. (m - i) + 1 = 1 /\ \A j \in 1 .. 1 : j = 1 /\ (i - 1) + j = i
        BY <1>1, <2>1
      <3> QED
        BY <2>0, <3>2, <3>3
    <2>2. CASE i # m
      <3> DEFINE r == p[s[i + 1]]
      <3>1. i + 1 \in 1 .. m /\ s[i + 1] \in N /\ s[i + 1] # Null /\ m - (i + 1) < m - i
        BY <1>1, <2>2
      <3>2. p[s[i]] = <<s[i]>> \o r /\ r \in Seq(N)
        BY <1>2, <1>3, <2>0, <2>2, <3>1
      <3>3. Ends(i + 1)
        <4>1. rank[i + 1] < rank[i]
          BY <3>1
        <4> QED
          BY <1>6, <3>1, <4>1
      <3>4. Len(r) = (m - (i + 1)) + 1 /\ \A j \in 1 .. (m - (i + 1)) + 1 : r[j] = s[((i + 1) - 1) + j]
        BY <3>3
      <3> HIDE DEF r
      <3>5. /\ Len(p[s[i]]) = 1 + Len(r)
            /\ p[s[i]][1] = s[i]
            /\ \A j \in 1 .. 1 + Len(r) : j > 1 => p[s[i]][j] = r[j - 1]
        BY <2>0, <3>2, ConcatProperties
      <3>6. 1 + Len(r) = (m - i) + 1
        BY <1>1, <3>1, <3>4
      <3>7. ASSUME NEW j \in 1 .. (m - i) + 1
            PROVE  p[s[i]][j] = s[(i - 1) + j]
        <4>1. CASE j = 1
          <5>1. (i - 1) + j = i
            BY <4>1
          <5> QED
            BY <3>5, <4>1, <5>1
        <4>2. CASE j # 1
          <5>1. /\ j \in 1 .. 1 + Len(r) /\ j > 1 /\ j - 1 \in 1 .. (m - (i + 1)) + 1
                /\ ((i + 1) - 1) + (j - 1) = (i - 1) + j
            BY <1>1, <3>6, <4>2
          <5> QED
            BY <3>4, <3>5, <5>1
        <4> QED
          BY <4>1, <4>2
      <3> QED
        BY <3>5, <3>6, <3>7
    <2> QED
      BY <2>1, <2>2
  <1>7. 1 .. m \subseteq G
    <2> DEFINE I == 1 .. m
    <2>1. rank \in [I -> Nat]
      BY <1>1
    <2>2. \A i \in I : (\A l \in I : rank[l] < rank[i] => l \in G) => i \in G
      BY <1>6
    <2> HIDE DEF I, G, rank
    <2>3. I \subseteq G
      BY <2>1, <2>2, RankInduction
    <2> QED
      BY <2>3 DEF I
  <1>8. CASE m = 0
    <2>1. NodeList(v) = <<>>
      BY <1>4, <1>5, <1>8
    <2>2. <<>> \in Seq(N) /\ Len(<<>>) = 0 /\ \A j \in 1 .. m : FALSE
      BY <1>8
    <2> QED
      BY <1>8, <2>1, <2>2 DEF m
  <1>9. CASE m # 0
    <2>1. 1 \in 1 .. m /\ s[1] \in N /\ (m - 1) + 1 = m /\ \A j \in 1 .. m : (1 - 1) + j = j
      BY <1>1, <1>9
    <2>2. Ends(1)
      BY <1>7, <2>1
    <2>3. NodeList(v) = p[s[1]] /\ p[s[1]] \in Seq(N)
      BY <1>1, <1>3, <1>4, <1>5, <1>9, <2>1
    <2> QED
      BY <2>1, <2>2, <2>3 DEF m
  <1> QED
    BY <1>8, <1>9
------------------------------------------------------------------------------
(* Depths and balance.                                                       *)

\* The depth that ml_map_update_depth gives to a node.
Tall(n, x) ==
  1 + (IF Depth(n, n[x].left) < Depth(n, n[x].right) THEN Depth(n, n[x].right)
       ELSE Depth(n, n[x].left))

\* The nodes of S know their depths, and the differences of their sides are in E: any, or
\* one at most.
Level(n, S, E) == \A y \in S : n[y].depth = Tall(n, y) /\ Balance(n, y) \in E

Spread(E) == E = Int \/ E = -1 .. 1

Larger(a, b) == IF a < b THEN b ELSE a

LEMMA SpreadInt ==
  ASSUME NEW E, Spread(E)
  PROVE  E \subseteq Int
  BY DEF Spread

LEMMA DepthNat ==
  ASSUME NEW N, Names(N), NEW n \in Trees(N), NEW x \in N \union {Null}
  PROVE  Depth(n, x) \in Nat
  BY TreeFields DEF Depth

LEMMA SidesNat ==
  ASSUME NEW N, Names(N), NEW n \in Trees(N), NEW x \in N
  PROVE  /\ Depth(n, n[x].left) \in Nat /\ Depth(n, n[x].right) \in Nat
         /\ Balance(n, x) = Depth(n, n[x].left) - Depth(n, n[x].right) /\ Balance(n, x) \in Int
         /\ Tall(n, x) = 1 + Larger(Depth(n, n[x].left), Depth(n, n[x].right))
         /\ Tall(n, x) \in Nat /\ Tall(n, x) > 0
  <1>1. Depth(n, n[x].left) \in Nat /\ Depth(n, n[x].right) \in Nat
    BY TreeFields, DepthNat
  <1> QED
    BY <1>1 DEF Balance, Tall, Larger

\* Nodes elsewhere do not matter.
LEMMA KeepLevel ==
  ASSUME NEW n, NEW m, NEW S, NEW top, IsTree(n, S, top), \A y \in S : m[y] = n[y], NEW E
  PROVE  (Level(n, S, E) => Level(m, S, E)) /\ Depth(m, top) = Depth(n, top)
  <1>1. PICK sub : Shape(n, S, top, sub)
    BY DEF IsTree
  <1>2. ASSUME NEW y \in S
        PROVE  Tall(m, y) = Tall(n, y) /\ Balance(m, y) = Balance(n, y) /\ m[y] = n[y]
    <2>1. n[y].left \in S \union {Null} /\ n[y].right \in S \union {Null} /\ m[y] = n[y]
      BY <1>1 DEF Shape
    <2>2. Depth(m, n[y].left) = Depth(n, n[y].left) /\ Depth(m, n[y].right) = Depth(n, n[y].right)
      BY <2>1 DEF Depth
    <2> QED
      BY <2>1, <2>2 DEF Tall, Balance
  <1>3. Depth(m, top) = Depth(n, top)
    BY <1>1 DEF Shape, Depth
  <1> QED
    BY <1>2, <1>3 DEF Level

LEMMA LevelParts ==
  ASSUME NEW n, NEW S, NEW x, NEW L, NEW R, Parts(n, S, x, L, R), NEW E
  PROVE  Level(n, S, E) <=> /\ Level(n, L, E) /\ Level(n, R, E)
                            /\ n[x].depth = Tall(n, x) /\ Balance(n, x) \in E
  <1>1. S = {x} \union L \union R /\ x \notin L /\ x \notin R
    BY DEF Parts
  <1> QED
    BY <1>1 DEF Level

LEMMA LevelSides ==
  ASSUME NEW n, NEW S, NEW x, NEW L, NEW R, Parts(n, S, x, L, R), NEW E
  PROVE  Level(n, S \ {x}, E) <=> Level(n, L, E) /\ Level(n, R, E)
  <1>1. S = {x} \union L \union R /\ x \notin L /\ x \notin R
    BY DEF Parts
  <1> QED
    BY <1>1 DEF Level

LEMMA LevelLess ==
  ASSUME NEW n, NEW E, NEW S, NEW U \in SUBSET S, Level(n, S, E)
  PROVE  Level(n, U, E)
  BY DEF Level

\* What is in the children of a node.
LEMMA PartsNodes ==
  ASSUME NEW N, Names(N), NEW n \in Trees(N), NEW S \in SUBSET N, NEW x, NEW L, NEW R,
         Parts(n, S, x, L, R)
  PROVE  /\ x \in N /\ x \in S /\ L \in SUBSET N /\ R \in SUBSET N
         /\ x \notin L /\ x \notin R /\ L \intersect R = {} /\ S = {x} \union L \union R
         /\ n[x].left \in L \union {Null} /\ n[x].right \in R \union {Null}
         /\ n[x].left \in N \union {Null} /\ n[x].right \in N \union {Null}
         /\ n[x].left # x /\ n[x].right # x
         /\ IsTree(n, L, n[x].left) /\ IsTree(n, R, n[x].right)
  <1>1. /\ x \in N /\ x \in S /\ L \in SUBSET N /\ R \in SUBSET N
        /\ x \notin L /\ x \notin R /\ L \intersect R = {} /\ S = {x} \union L \union R
        /\ IsTree(n, L, n[x].left) /\ IsTree(n, R, n[x].right)
    BY DEF Parts
  <1>2. n[x].left \in L \union {Null} /\ n[x].right \in R \union {Null}
    BY <1>1, TreeTop
  <1>3. Null \notin N
    BY NodesAre
  <1> QED
    BY <1>1, <1>2, <1>3

\* ml_map_update_depth
LEMMA UpdateDepthSets ==
  ASSUME NEW N, Names(N), NEW n \in Trees(N), NEW x \in N, n[x].left # x, n[x].right # x
  PROVE  LET m == UpdateDepth(n, x)
         IN  /\ m \in Trees(N) /\ m[x].left = n[x].left /\ m[x].right = n[x].right
             /\ m[x].depth = Tall(n, x) /\ (\A y \in N \ {x} : m[y] = n[y])
             /\ (\A y \in N \union {Null} : y # x => Depth(m, y) = Depth(n, y))
             /\ Tall(m, x) = Tall(n, x) /\ Balance(m, x) = Balance(n, x)
             /\ (n[x].depth = Tall(n, x) <=> m = n)
  <1> DEFINE m == UpdateDepth(n, x)
  <1>1. m \in Trees(N) /\ m[x].left = n[x].left /\ m[x].right = n[x].right
          /\ \A y \in N \ {x} : m[y] = n[y]
    BY UpdateDepthKeeps
  <1>2. m = [n EXCEPT ![x].depth = Tall(n, x)]
    BY DEF UpdateDepth, Tall
  <1>3. n[x] \in Fields(N) /\ DOMAIN n = N /\ n \in [N -> Fields(N)]
    BY TreeFields DEF Trees
  <1>4. m[x].depth = Tall(n, x)
    BY <1>2, <1>3 DEF Fields
  <1>5. n[x].depth = Tall(n, x) => m = n
    BY <1>2, <1>3 DEF Fields
  <1> HIDE DEF m
  <1>6. \A y \in N \union {Null} : y # x => Depth(m, y) = Depth(n, y)
    BY <1>1 DEF Depth
  <1>7. n[x].left \in N \union {Null} /\ n[x].right \in N \union {Null}
    BY TreeFields
  <1>8. Tall(m, x) = Tall(n, x) /\ Balance(m, x) = Balance(n, x)
    BY <1>1, <1>6, <1>7 DEF Tall, Balance
  <1> QED
    BY <1>1, <1>4, <1>5, <1>6, <1>8 DEF m

------------------------------------------------------------------------------
(* Rotations.                                                                *)

\* u is n with c above x: l and r are the sides of x, s is the other side of c.
Turned(N, n, x, c, u) ==
  /\ u \in Trees(N) /\ (\A y \in N \ {x, c} : u[y] = n[y])
  /\ (\A y \in N \union {Null} : y # x /\ y # c => Depth(u, y) = Depth(n, y))
  /\ u[x].depth = Tall(u, x) /\ u[c].depth = Tall(u, c)

\* u is n with another child of x.
LeftSet(N, n, x, child, u) ==
  /\ u \in Trees(N) /\ u[x].left = child /\ u[x].right = n[x].right /\ u[x].depth = n[x].depth
  /\ \A y \in N \ {x} : u[y] = n[y]

RightSet(N, n, x, child, u) ==
  /\ u \in Trees(N) /\ u[x].left = n[x].left /\ u[x].right = child /\ u[x].depth = n[x].depth
  /\ \A y \in N \ {x} : u[y] = n[y]

LEMMA LeftIs ==
  ASSUME NEW N, Names(N), NEW n \in Trees(N), NEW x \in N, NEW child \in N \union {Null}
  PROVE  LeftSet(N, n, x, child, WithLeft(n, x, child))
  BY SetLeft DEF LeftSet

LEMMA RightIs ==
  ASSUME NEW N, Names(N), NEW n \in Trees(N), NEW x \in N, NEW child \in N \union {Null}
  PROVE  RightSet(N, n, x, child, WithRight(n, x, child))
  BY SetRight DEF RightSet

LEMMA RotateRightIs ==
  ASSUME NEW N, Names(N), NEW n \in Trees(N), NEW x \in N, NEW c \in N, c = n[x].left, c # x,
         n[x].right # x, n[x].right # c, n[c].left # x, n[c].left # c, n[c].right # x,
         n[c].right # c
  PROVE  LET u == RotateRight(n, x).n
         IN  /\ RotateRight(n, x).top = c /\ Turned(N, n, x, c, u)
             /\ u[x].left = n[c].right /\ u[x].right = n[x].right
             /\ u[c].left = n[c].left /\ u[c].right = x
  <1> DEFINE b == n[c].right
             h == WithLeft(n, x, b)
             m == WithRight(h, c, x)
             p == UpdateDepth(m, x)
             u == UpdateDepth(p, c)
  <1>1. b \in N \union {Null} /\ n[x].right \in N \union {Null} /\ n[c].left \in N \union {Null}
          /\ b # x /\ b # c
    BY TreeFields
  <1>2. RotateRight(n, x) = [n |-> u, top |-> c]
    <2>1. m = [n EXCEPT ![x].left = n[c].right, ![c].right = x]
      BY DEF WithLeft, WithRight
    <2> QED
      BY <2>1 DEF RotateRight
  <1> HIDE DEF b
  <1>3. /\ h \in Trees(N) /\ h[x].left = b /\ h[x].right = n[x].right
        /\ \A y \in N \ {x} : h[y] = n[y]
    <2>1. LeftSet(N, n, x, b, h)
      BY <1>1, LeftIs
    <2> QED
      BY <2>1 DEF LeftSet
  <1> HIDE DEF h
  <1>4. /\ m \in Trees(N) /\ m[c].left = h[c].left /\ m[c].right = x
        /\ \A y \in N \ {c} : m[y] = h[y]
    <2>1. RightSet(N, h, c, x, m)
      BY <1>3, RightIs
    <2> QED
      BY <2>1 DEF RightSet
  <1> HIDE DEF m
  <1>5. /\ m[x].left = b /\ m[x].right = n[x].right /\ m[c].left = n[c].left /\ m[c].right = x
        /\ \A y \in N \ {x, c} : m[y] = n[y]
    BY <1>3, <1>4
  <1>6. /\ p \in Trees(N) /\ p[x].left = m[x].left /\ p[x].right = m[x].right
        /\ p[x].depth = Tall(p, x) /\ \A y \in N \ {x} : p[y] = m[y]
    BY <1>1, <1>4, <1>5, UpdateDepthSets
  <1> HIDE DEF p
  <1>7. p[c].left = n[c].left /\ p[c].right = x
    BY <1>5, <1>6
  <1>8. /\ u \in Trees(N) /\ u[c].left = p[c].left /\ u[c].right = p[c].right
        /\ u[c].depth = Tall(u, c) /\ (\A y \in N \ {c} : u[y] = p[y])
        /\ \A y \in N \union {Null} : y # c => Depth(u, y) = Depth(p, y)
    BY <1>6, <1>7, UpdateDepthSets
  <1> HIDE DEF u
  <1>9. /\ u[x] = p[x] /\ u[x].left = b /\ u[x].right = n[x].right
        /\ u[c].left = n[c].left /\ u[c].right = x
        /\ \A y \in N \ {x, c} : u[y] = n[y]
    BY <1>5, <1>6, <1>7, <1>8
  <1>10. u[x].depth = Tall(u, x)
    <2>1. Depth(u, b) = Depth(p, b) /\ Depth(u, n[x].right) = Depth(p, n[x].right)
      BY <1>1, <1>8
    <2> QED
      BY <1>5, <1>6, <1>9, <2>1 DEF Tall
  <1>11. \A y \in N \union {Null} : y # x /\ y # c => Depth(u, y) = Depth(n, y)
    BY <1>9 DEF Depth
  <1>12. Turned(N, n, x, c, u)
    BY <1>8, <1>9, <1>10, <1>11 DEF Turned
  <1>13. u[x].left = n[c].right /\ u[x].right = n[x].right /\ u[c].left = n[c].left /\ u[c].right = x
    BY <1>9 DEF b
  <1>14. RotateRight(n, x).n = u /\ RotateRight(n, x).top = c
    BY <1>2
  <1> QED
    BY <1>12, <1>13, <1>14

LEMMA RotateLeftIs ==
  ASSUME NEW N, Names(N), NEW n \in Trees(N), NEW x \in N, NEW c \in N, c = n[x].right, c # x,
         n[x].left # x, n[x].left # c, n[c].left # x, n[c].left # c, n[c].right # x,
         n[c].right # c
  PROVE  LET u == RotateLeft(n, x).n
         IN  /\ RotateLeft(n, x).top = c /\ Turned(N, n, x, c, u)
             /\ u[x].right = n[c].left /\ u[x].left = n[x].left
             /\ u[c].right = n[c].right /\ u[c].left = x
  <1> DEFINE b == n[c].left
             h == WithRight(n, x, b)
             m == WithLeft(h, c, x)
             p == UpdateDepth(m, x)
             u == UpdateDepth(p, c)
  <1>1. b \in N \union {Null} /\ n[x].left \in N \union {Null} /\ n[c].right \in N \union {Null}
          /\ b # x /\ b # c
    BY TreeFields
  <1>2. RotateLeft(n, x) = [n |-> u, top |-> c]
    <2>1. m = [n EXCEPT ![x].right = n[c].left, ![c].left = x]
      BY DEF WithLeft, WithRight
    <2> QED
      BY <2>1 DEF RotateLeft
  <1> HIDE DEF b
  <1>3. /\ h \in Trees(N) /\ h[x].right = b /\ h[x].left = n[x].left
        /\ \A y \in N \ {x} : h[y] = n[y]
    <2>1. RightSet(N, n, x, b, h)
      BY <1>1, RightIs
    <2> QED
      BY <2>1 DEF RightSet
  <1> HIDE DEF h
  <1>4. /\ m \in Trees(N) /\ m[c].right = h[c].right /\ m[c].left = x
        /\ \A y \in N \ {c} : m[y] = h[y]
    <2>1. LeftSet(N, h, c, x, m)
      BY <1>3, LeftIs
    <2> QED
      BY <2>1 DEF LeftSet
  <1> HIDE DEF m
  <1>5. /\ m[x].right = b /\ m[x].left = n[x].left /\ m[c].right = n[c].right /\ m[c].left = x
        /\ \A y \in N \ {x, c} : m[y] = n[y]
    BY <1>3, <1>4
  <1>6. /\ p \in Trees(N) /\ p[x].left = m[x].left /\ p[x].right = m[x].right
        /\ p[x].depth = Tall(p, x) /\ \A y \in N \ {x} : p[y] = m[y]
    BY <1>1, <1>4, <1>5, UpdateDepthSets
  <1> HIDE DEF p
  <1>7. p[c].right = n[c].right /\ p[c].left = x
    BY <1>5, <1>6
  <1>8. /\ u \in Trees(N) /\ u[c].left = p[c].left /\ u[c].right = p[c].right
        /\ u[c].depth = Tall(u, c) /\ (\A y \in N \ {c} : u[y] = p[y])
        /\ \A y \in N \union {Null} : y # c => Depth(u, y) = Depth(p, y)
    BY <1>6, <1>7, UpdateDepthSets
  <1> HIDE DEF u
  <1>9. /\ u[x] = p[x] /\ u[x].right = b /\ u[x].left = n[x].left
        /\ u[c].right = n[c].right /\ u[c].left = x
        /\ \A y \in N \ {x, c} : u[y] = n[y]
    BY <1>5, <1>6, <1>7, <1>8
  <1>10. u[x].depth = Tall(u, x)
    <2>1. Depth(u, b) = Depth(p, b) /\ Depth(u, n[x].left) = Depth(p, n[x].left)
      BY <1>1, <1>8
    <2> QED
      BY <1>5, <1>6, <1>9, <2>1 DEF Tall
  <1>11. \A y \in N \union {Null} : y # x /\ y # c => Depth(u, y) = Depth(n, y)
    BY <1>9 DEF Depth
  <1>12. Turned(N, n, x, c, u)
    BY <1>8, <1>9, <1>10, <1>11 DEF Turned
  <1>13. u[x].right = n[c].left /\ u[x].left = n[x].left /\ u[c].right = n[c].right /\ u[c].left = x
    BY <1>9 DEF b
  <1>14. RotateLeft(n, x).n = u /\ RotateLeft(n, x).top = c
    BY <1>2
  <1> QED
    BY <1>12, <1>13, <1>14

\* x is as deep as it should be over sides of depths l and r.
Measures(u, x, l, r) ==
  /\ Depth(u, u[x].left) = l /\ Depth(u, u[x].right) = r
  /\ u[x].depth = Tall(u, x) /\ Depth(u, x) = 1 + Larger(l, r)
  /\ Tall(u, x) = 1 + Larger(l, r) /\ Balance(u, x) = l - r

LEMMA Measured ==
  ASSUME NEW N, Names(N), NEW u \in Trees(N), NEW x \in N, u[x].depth = Tall(u, x),
         NEW l, NEW r, Depth(u, u[x].left) = l, Depth(u, u[x].right) = r
  PROVE  Measures(u, x, l, r)
  <1>1. Tall(u, x) = 1 + Larger(l, r) /\ Balance(u, x) = l - r
    BY SidesNat
  <1>2. Depth(u, x) = u[x].depth
    BY NodesAre DEF Depth
  <1> QED
    BY <1>1, <1>2 DEF Measures

\* c was on the left of x, and x is on the right of it in u.
RightUp(N, n, S, x, c, A, B, R, E, u) ==
  /\ u \in Trees(N) /\ (\A y \in N \ S : u[y] = n[y])
  /\ Parts(u, S, c, A, {x} \union B \union R) /\ Parts(u, {x} \union B \union R, x, B, R)
  /\ Level(u, A, E) /\ Level(u, B, E) /\ Level(u, R, E)
  /\ Measures(u, x, Depth(n, n[c].right), Depth(n, n[x].right))
  /\ Measures(u, c, Depth(n, n[c].left), Depth(u, x))

LEMMA RotateRightLevel ==
  ASSUME NEW N, Names(N), NEW n \in Trees(N), NEW S \in SUBSET N, NEW x, NEW L, NEW R,
         Parts(n, S, x, L, R), NEW c, c = n[x].left, NEW A, NEW B, Parts(n, L, c, A, B),
         NEW E, Level(n, A, E), Level(n, B, E), Level(n, R, E)
  PROVE  RightUp(N, n, S, x, c, A, B, R, E, RotateRight(n, x).n) /\ RotateRight(n, x).top = c
  <1> DEFINE u == RotateRight(n, x).n
             M == {x} \union B \union R
             z == n[x].right
             a == n[c].left
             b == n[c].right
  <1>1. /\ x \in N /\ L \in SUBSET N /\ R \in SUBSET N /\ x \notin L /\ x \notin R
        /\ L \intersect R = {} /\ S = {x} \union L \union R /\ z \in R \union {Null}
        /\ IsTree(n, R, z) /\ z # x
    BY PartsNodes
  <1>2. /\ c \in N /\ c \in L /\ A \in SUBSET N /\ B \in SUBSET N /\ c \notin A /\ c \notin B
        /\ A \intersect B = {} /\ L = {c} \union A \union B
        /\ a \in A \union {Null} /\ b \in B \union {Null}
        /\ IsTree(n, A, a) /\ IsTree(n, B, b) /\ a # c /\ b # c
    BY <1>1, PartsNodes
  <1>3. Null \notin N
    BY NodesAre
  <1>4. c # x /\ z # c /\ a # x /\ b # x
    BY <1>1, <1>2, <1>3
  <1>5. /\ RotateRight(n, x).top = c /\ Turned(N, n, x, c, u)
        /\ u[x].left = b /\ u[x].right = z /\ u[c].left = a /\ u[c].right = x
    BY <1>1, <1>2, <1>4, RotateRightIs
  <1> HIDE DEF u, z, a, b
  <1>6. /\ u \in Trees(N) /\ (\A y \in N \ {x, c} : u[y] = n[y])
        /\ (\A y \in N \union {Null} : y # x /\ y # c => Depth(u, y) = Depth(n, y))
        /\ u[x].depth = Tall(u, x) /\ u[c].depth = Tall(u, c)
    BY <1>5 DEF Turned
  <1>7. (\A y \in A : u[y] = n[y]) /\ (\A y \in B : u[y] = n[y]) /\ \A y \in R : u[y] = n[y]
    BY <1>1, <1>2, <1>6
  <1>8. IsTree(u, A, a) /\ IsTree(u, B, b) /\ IsTree(u, R, z)
    BY <1>1, <1>2, <1>7, KeepTree
  <1>9. Level(u, A, E) /\ Level(u, B, E) /\ Level(u, R, E)
    BY <1>1, <1>2, <1>7, KeepLevel
  <1>10. Depth(u, a) = Depth(n, a) /\ Depth(u, b) = Depth(n, b) /\ Depth(u, z) = Depth(n, z)
    BY <1>1, <1>2, <1>4, <1>6
  <1>11. Measures(u, x, Depth(n, b), Depth(n, z)) /\ Measures(u, c, Depth(n, a), Depth(u, x))
    <2>1. Depth(u, u[x].left) = Depth(n, b) /\ Depth(u, u[x].right) = Depth(n, z)
      BY <1>5, <1>10
    <2>2. Depth(u, u[c].left) = Depth(n, a) /\ Depth(u, u[c].right) = Depth(u, x)
      BY <1>5, <1>10
    <2> QED
      BY <1>1, <1>2, <1>6, <2>1, <2>2, Measured
  <1>12. u[x].depth > 0 /\ u[c].depth > 0
    BY <1>1, <1>2, <1>6, SidesNat
  <1>13. /\ \A y \in L : KeyOf(y) < KeyOf(x)
         /\ \A y \in R : KeyOf(x) < KeyOf(y)
         /\ \A y \in A : KeyOf(y) < KeyOf(c)
         /\ \A y \in B : KeyOf(c) < KeyOf(y)
    BY DEF Parts
  <1>14. Parts(u, M, x, B, R)
    <2>1. \A y \in B : KeyOf(y) < KeyOf(x)
      BY <1>2, <1>13
    <2>2. B \intersect R = {} /\ x \notin B /\ x \notin R /\ x # Null
      BY <1>1, <1>2, <1>3
    <2> QED
      BY <1>5, <1>8, <1>12, <1>13, <2>1, <2>2 DEF Parts
  <1>15. M \in SUBSET N
    BY <1>1, <1>2
  <1>16. IsTree(u, M, x)
    BY <1>14, <1>15, Join
  <1>17. \A y \in M : KeyOf(c) < KeyOf(y)
    <2>1. KeyOf(c) < KeyOf(x)
      BY <1>2, <1>13
    <2>2. \A y \in R : KeyOf(c) < KeyOf(y)
      BY <1>1, <1>2, <1>13, <2>1, Transitive
    <2> QED
      BY <1>13, <2>1, <2>2
  <1>18. Parts(u, S, c, A, M)
    <2>1. S = {c} \union A \union M /\ A \intersect M = {} /\ c \notin A /\ c \notin M /\ c # Null
      BY <1>1, <1>2, <1>3, <1>4
    <2> HIDE DEF M
    <2> QED
      BY <1>5, <1>8, <1>12, <1>13, <1>16, <1>17, <2>1 DEF Parts
  <1>19. \A y \in N \ S : u[y] = n[y]
    BY <1>1, <1>2, <1>6
  <1> QED
    BY <1>5, <1>6, <1>9, <1>11, <1>14, <1>18, <1>19 DEF RightUp, u, a, b, z, M

\* c was on the right of x, and x is on the left of it in u.
LeftUp(N, n, S, x, c, L, B, A, E, u) ==
  /\ u \in Trees(N) /\ (\A y \in N \ S : u[y] = n[y])
  /\ Parts(u, S, c, {x} \union L \union B, A) /\ Parts(u, {x} \union L \union B, x, L, B)
  /\ Level(u, A, E) /\ Level(u, B, E) /\ Level(u, L, E)
  /\ Measures(u, x, Depth(n, n[x].left), Depth(n, n[c].left))
  /\ Measures(u, c, Depth(u, x), Depth(n, n[c].right))

LEMMA RotateLeftLevel ==
  ASSUME NEW N, Names(N), NEW n \in Trees(N), NEW S \in SUBSET N, NEW x, NEW L, NEW R,
         Parts(n, S, x, L, R), NEW c, c = n[x].right, NEW A, NEW B, Parts(n, R, c, B, A),
         NEW E, Level(n, A, E), Level(n, B, E), Level(n, L, E)
  PROVE  LeftUp(N, n, S, x, c, L, B, A, E, RotateLeft(n, x).n) /\ RotateLeft(n, x).top = c
  <1> DEFINE u == RotateLeft(n, x).n
             M == {x} \union L \union B
             z == n[x].left
             a == n[c].right
             b == n[c].left
  <1>1. /\ x \in N /\ L \in SUBSET N /\ R \in SUBSET N /\ x \notin L /\ x \notin R
        /\ L \intersect R = {} /\ S = {x} \union L \union R /\ z \in L \union {Null}
        /\ IsTree(n, L, z) /\ z # x
    BY PartsNodes
  <1>2. /\ c \in N /\ c \in R /\ A \in SUBSET N /\ B \in SUBSET N /\ c \notin A /\ c \notin B
        /\ A \intersect B = {} /\ R = {c} \union A \union B
        /\ a \in A \union {Null} /\ b \in B \union {Null}
        /\ IsTree(n, A, a) /\ IsTree(n, B, b) /\ a # c /\ b # c
    <2> HIDE DEF a, b
    <2>1. /\ c \in N /\ c \in R /\ A \in SUBSET N /\ B \in SUBSET N /\ c \notin A /\ c \notin B
          /\ B \intersect A = {} /\ R = {c} \union B \union A
      BY <1>1, PartsNodes
    <2>2. /\ a \in A \union {Null} /\ b \in B \union {Null}
          /\ IsTree(n, A, a) /\ IsTree(n, B, b) /\ a # c /\ b # c
      BY <1>1, PartsNodes DEF a, b
    <2> QED
      BY <2>1, <2>2
  <1>3. Null \notin N
    BY NodesAre
  <1>4. c # x /\ z # c /\ a # x /\ b # x
    BY <1>1, <1>2, <1>3
  <1>5. /\ RotateLeft(n, x).top = c /\ Turned(N, n, x, c, u)
        /\ u[x].right = b /\ u[x].left = z /\ u[c].right = a /\ u[c].left = x
    BY <1>1, <1>2, <1>4, RotateLeftIs
  <1> HIDE DEF u, z, a, b
  <1>6. /\ u \in Trees(N) /\ (\A y \in N \ {x, c} : u[y] = n[y])
        /\ (\A y \in N \union {Null} : y # x /\ y # c => Depth(u, y) = Depth(n, y))
        /\ u[x].depth = Tall(u, x) /\ u[c].depth = Tall(u, c)
    BY <1>5 DEF Turned
  <1>7. (\A y \in A : u[y] = n[y]) /\ (\A y \in B : u[y] = n[y]) /\ \A y \in L : u[y] = n[y]
    BY <1>1, <1>2, <1>6
  <1>8. IsTree(u, A, a) /\ IsTree(u, B, b) /\ IsTree(u, L, z)
    BY <1>1, <1>2, <1>7, KeepTree
  <1>9. Level(u, A, E) /\ Level(u, B, E) /\ Level(u, L, E)
    BY <1>1, <1>2, <1>7, KeepLevel
  <1>10. Depth(u, a) = Depth(n, a) /\ Depth(u, b) = Depth(n, b) /\ Depth(u, z) = Depth(n, z)
    BY <1>1, <1>2, <1>4, <1>6
  <1>11. Measures(u, x, Depth(n, z), Depth(n, b)) /\ Measures(u, c, Depth(u, x), Depth(n, a))
    <2>1. Depth(u, u[x].right) = Depth(n, b) /\ Depth(u, u[x].left) = Depth(n, z)
      BY <1>5, <1>10
    <2>2. Depth(u, u[c].right) = Depth(n, a) /\ Depth(u, u[c].left) = Depth(u, x)
      BY <1>5, <1>10
    <2> QED
      BY <1>1, <1>2, <1>6, <2>1, <2>2, Measured
  <1>12. u[x].depth > 0 /\ u[c].depth > 0
    BY <1>1, <1>2, <1>6, SidesNat
  <1>13. /\ \A y \in L : KeyOf(y) < KeyOf(x)
         /\ \A y \in R : KeyOf(x) < KeyOf(y)
         /\ \A y \in A : KeyOf(c) < KeyOf(y)
         /\ \A y \in B : KeyOf(y) < KeyOf(c)
    BY DEF Parts
  <1>14. Parts(u, M, x, L, B)
    <2>1. \A y \in B : KeyOf(x) < KeyOf(y)
      BY <1>2, <1>13
    <2>2. L \intersect B = {} /\ x \notin B /\ x \notin L /\ x # Null
      BY <1>1, <1>2, <1>3
    <2> QED
      BY <1>5, <1>8, <1>12, <1>13, <2>1, <2>2 DEF Parts
  <1>15. M \in SUBSET N
    BY <1>1, <1>2
  <1>16. IsTree(u, M, x)
    BY <1>14, <1>15, Join
  <1>17. \A y \in M : KeyOf(y) < KeyOf(c)
    <2>1. KeyOf(x) < KeyOf(c)
      BY <1>2, <1>13
    <2>2. \A y \in L : KeyOf(y) < KeyOf(c)
      BY <1>1, <1>2, <1>13, <2>1, Transitive
    <2> QED
      BY <1>13, <2>1, <2>2
  <1>18. Parts(u, S, c, M, A)
    <2>1. S = {c} \union M \union A /\ M \intersect A = {} /\ c \notin A /\ c \notin M /\ c # Null
      BY <1>1, <1>2, <1>3, <1>4
    <2> HIDE DEF M
    <2> QED
      BY <1>5, <1>8, <1>12, <1>13, <1>16, <1>17, <2>1 DEF Parts
  <1>19. \A y \in N \ S : u[y] = n[y]
    BY <1>1, <1>2, <1>6
  <1> QED
    BY <1>5, <1>6, <1>9, <1>11, <1>14, <1>18, <1>19 DEF LeftUp, u, a, b, z, M

\* Nodes elsewhere do not matter.
LEMMA KeepParts ==
  ASSUME NEW n, NEW m, NEW S, NEW x, NEW L, NEW R, Parts(n, S, x, L, R), \A y \in S : m[y] = n[y]
  PROVE  Parts(m, S, x, L, R)
  <1>1. S = {x} \union L \union R /\ IsTree(n, L, n[x].left) /\ IsTree(n, R, n[x].right)
    BY DEF Parts
  <1>2. IsTree(m, L, n[x].left) /\ IsTree(m, R, n[x].right)
    BY <1>1, KeepTree
  <1> QED
    BY <1>1, <1>2 DEF Parts

LEMMA KeepMeasures ==
  ASSUME NEW n, NEW m, NEW S, NEW top, IsTree(n, S, top), \A y \in S : m[y] = n[y],
         NEW x \in S, NEW l, NEW r, Measures(n, x, l, r)
  PROVE  Measures(m, x, l, r)
  <1>1. PICK sub : Shape(n, S, top, sub)
    BY DEF IsTree
  <1>2. n[x].left \in S \union {Null} /\ n[x].right \in S \union {Null} /\ m[x] = n[x]
    BY <1>1 DEF Shape
  <1>3. /\ Depth(m, n[x].left) = Depth(n, n[x].left) /\ Depth(m, n[x].right) = Depth(n, n[x].right)
        /\ Depth(m, x) = Depth(n, x)
    BY <1>2 DEF Depth
  <1> QED
    BY <1>2, <1>3 DEF Measures, Tall, Balance

\* What a rotation makes of a node whose sides differ by two.
Evened(n, S, x, E, r) ==
  /\ r.n \in [DOMAIN n -> Fields(DOMAIN n)] /\ Level(r.n, S, E)
  /\ E = -1 .. 1 => Depth(r.n, r.top) \in Tall(n, x) - 1 .. Tall(n, x)

\* A node that is measured.
LEMMA NodeLevel ==
  ASSUME NEW n, NEW S, NEW x, NEW L, NEW R, Parts(n, S, x, L, R), NEW E,
         Level(n, L, E), Level(n, R, E), NEW l, NEW r, Measures(n, x, l, r), l - r \in E
  PROVE  Level(n, S, E)
  BY LevelParts DEF Measures

LEMMA TopMeasures ==
  ASSUME NEW N, Names(N), NEW n \in Trees(N), NEW x \in N, n[x].depth = Tall(n, x)
  PROVE  /\ Measures(n, x, Depth(n, n[x].left), Depth(n, n[x].right))
         /\ Depth(n, n[x].left) \in Nat /\ Depth(n, n[x].right) \in Nat
  BY Measured, SidesNat

\* One rotation, of a left side that is too deep on its outer side.
LEMMA OuterRight ==
  ASSUME NEW N, Names(N), NEW n \in Trees(N), NEW S \in SUBSET N, NEW x, NEW L, NEW R,
         Parts(n, S, x, L, R), NEW E, Spread(E), Level(n, L, E), Level(n, R, E),
         Balance(n, x) = 2, ~ (Balance(n, n[x].left) < 0)
  PROVE  Evened(n, S, x, E, RotateRight(n, x))
  <1> DEFINE c == n[x].left
             u == RotateRight(n, x).n
             a == Depth(n, n[c].left)
             b == Depth(n, n[c].right)
             r == Depth(n, n[x].right)
  <1>1. x \in N /\ L \in SUBSET N /\ c # Null /\ IsTree(n, L, c)
    BY PartsNodes, Depths
  <1>2. PICK A \in SUBSET L, B \in SUBSET L : Parts(n, L, c, A, B)
    BY <1>1, Split
  <1>3. c \in N /\ c \in L /\ L = {c} \union A \union B
    BY <1>1, <1>2, PartsNodes
  <1>4. Level(n, A, E) /\ Level(n, B, E) /\ n[c].depth = Tall(n, c) /\ Balance(n, c) \in E
    BY <1>2, LevelParts
  <1> HIDE DEF u
  <1>5. RightUp(N, n, S, x, c, A, B, R, E, u) /\ RotateRight(n, x).top = c
    BY <1>2, <1>4, RotateRightLevel DEF u
  <1>6. /\ u \in Trees(N) /\ Level(u, A, E) /\ Level(u, B, E) /\ Level(u, R, E)
        /\ Measures(u, x, b, r) /\ Measures(u, c, a, Depth(u, x))
        /\ Parts(u, S, c, A, {x} \union B \union R) /\ Parts(u, {x} \union B \union R, x, B, R)
    BY <1>5 DEF RightUp
  <1>7. Measures(n, c, a, b) /\ a \in Nat /\ b \in Nat
    BY <1>3, <1>4, TopMeasures
  <1>8. Depth(n, c) - r = 2 /\ r \in Nat /\ Tall(n, x) = 1 + Larger(Depth(n, c), r)
    BY <1>1, SidesNat
  <1> HIDE DEF a, b, r, c
  <1>9. Depth(n, c) = 1 + Larger(a, b) /\ a - b \in E /\ ~ (a - b < 0)
    BY <1>4, <1>7 DEF Measures, c
  <1>10. Depth(u, x) = 1 + Larger(b, r) /\ Depth(u, c) = 1 + Larger(a, 1 + Larger(b, r))
    BY <1>6 DEF Measures
  <1>11. b - r \in E /\ a - Depth(u, x) \in E
    <2>1. CASE E = Int
      BY <1>7, <1>8, <1>10, <2>1 DEF Larger
    <2>2. CASE E = -1 .. 1
      BY <1>7, <1>8, <1>9, <1>10, <2>2 DEF Larger
    <2> QED
      BY <2>1, <2>2 DEF Spread
  <1>12. E = -1 .. 1 => Depth(u, c) \in Tall(n, x) - 1 .. Tall(n, x)
    BY <1>7, <1>8, <1>9, <1>10 DEF Larger
  <1>13. Level(u, {x} \union B \union R, E)
    BY <1>6, <1>11, NodeLevel
  <1>14. Level(u, S, E)
    BY <1>6, <1>11, <1>13, NodeLevel
  <1>15. DOMAIN n = N /\ u \in [N -> Fields(N)]
    BY <1>6 DEF Trees
  <1>16. RotateRight(n, x).n = u /\ RotateRight(n, x).top = c
    BY <1>5 DEF u
  <1> QED
    BY <1>12, <1>14, <1>15, <1>16 DEF Evened

LEMMA OuterLeft ==
  ASSUME NEW N, Names(N), NEW n \in Trees(N), NEW S \in SUBSET N, NEW x, NEW L, NEW R,
         Parts(n, S, x, L, R), NEW E, Spread(E), Level(n, L, E), Level(n, R, E),
         Balance(n, x) = -2, ~ (Balance(n, n[x].right) > 0)
  PROVE  Evened(n, S, x, E, RotateLeft(n, x))
  <1> DEFINE c == n[x].right
             u == RotateLeft(n, x).n
             a == Depth(n, n[c].right)
             b == Depth(n, n[c].left)
             r == Depth(n, n[x].left)
  <1>1. x \in N /\ R \in SUBSET N /\ c # Null /\ IsTree(n, R, c)
    BY PartsNodes, Depths
  <1>2. PICK B \in SUBSET R, A \in SUBSET R : Parts(n, R, c, B, A)
    BY <1>1, Split
  <1>3. c \in N /\ c \in R
    BY <1>1, <1>2, PartsNodes
  <1>4. Level(n, A, E) /\ Level(n, B, E) /\ n[c].depth = Tall(n, c) /\ Balance(n, c) \in E
    BY <1>2, LevelParts
  <1> HIDE DEF u
  <1>5. LeftUp(N, n, S, x, c, L, B, A, E, u) /\ RotateLeft(n, x).top = c
    BY <1>2, <1>4, RotateLeftLevel DEF u
  <1>6. /\ u \in Trees(N) /\ Level(u, A, E) /\ Level(u, B, E) /\ Level(u, L, E)
        /\ Measures(u, x, r, b) /\ Measures(u, c, Depth(u, x), a)
        /\ Parts(u, S, c, {x} \union L \union B, A) /\ Parts(u, {x} \union L \union B, x, L, B)
    BY <1>5 DEF LeftUp
  <1>7. Measures(n, c, b, a) /\ a \in Nat /\ b \in Nat
    BY <1>3, <1>4, TopMeasures
  <1>8. r - Depth(n, c) = -2 /\ r \in Nat /\ Tall(n, x) = 1 + Larger(r, Depth(n, c))
    BY <1>1, SidesNat
  <1> HIDE DEF a, b, r, c
  <1>9. Depth(n, c) = 1 + Larger(b, a) /\ b - a \in E /\ ~ (b - a > 0)
    BY <1>4, <1>7 DEF Measures, c
  <1>10. Depth(u, x) = 1 + Larger(r, b) /\ Depth(u, c) = 1 + Larger(1 + Larger(r, b), a)
    BY <1>6 DEF Measures
  <1>11. r - b \in E /\ Depth(u, x) - a \in E
    <2>1. CASE E = Int
      BY <1>7, <1>8, <1>10, <2>1 DEF Larger
    <2>2. CASE E = -1 .. 1
      BY <1>7, <1>8, <1>9, <1>10, <2>2 DEF Larger
    <2> QED
      BY <2>1, <2>2 DEF Spread
  <1>12. E = -1 .. 1 => Depth(u, c) \in Tall(n, x) - 1 .. Tall(n, x)
    BY <1>7, <1>8, <1>9, <1>10 DEF Larger
  <1>13. Level(u, {x} \union L \union B, E)
    BY <1>6, <1>11, NodeLevel
  <1>14. Level(u, S, E)
    BY <1>6, <1>11, <1>13, NodeLevel
  <1>15. DOMAIN n = N /\ u \in [N -> Fields(N)]
    BY <1>6 DEF Trees
  <1>16. RotateLeft(n, x).n = u /\ RotateLeft(n, x).top = c
    BY <1>5 DEF u
  <1> QED
    BY <1>12, <1>14, <1>15, <1>16 DEF Evened

\* Two rotations, of a left side that is too deep on its inner side.
LEMMA InnerRight ==
  ASSUME NEW N, Names(N), NEW n \in Trees(N), NEW S \in SUBSET N, NEW x, NEW L, NEW R,
         Parts(n, S, x, L, R), NEW E, Spread(E), Level(n, L, E), Level(n, R, E),
         Balance(n, x) = 2, Balance(n, n[x].left) < 0
  PROVE  LET t == RotateLeft(n, n[x].left)
         IN  Evened(n, S, x, E, RotateRight([t.n EXCEPT ![x].left = t.top], x))
  <1> DEFINE c == n[x].left
             d == n[c].right
             m == RotateLeft(n, c).n
             h == WithLeft(m, x, d)
             u == RotateRight(h, x).n
             a == Depth(n, n[c].left)
             e == Depth(n, d)
             p == Depth(n, n[d].left)
             q == Depth(n, n[d].right)
             r == Depth(n, n[x].right)
  <1>1. x \in N /\ L \in SUBSET N /\ R \in SUBSET N /\ x \notin L /\ x \notin R
          /\ L \intersect R = {} /\ S = {x} \union L \union R
          /\ c # Null /\ IsTree(n, L, c)
    BY PartsNodes, Depths
  <1>2. PICK A \in SUBSET L, K \in SUBSET L : Parts(n, L, c, A, K)
    BY <1>1, Split
  <1>3. c \in N /\ c \in L /\ K \in SUBSET N /\ IsTree(n, K, d)
    BY <1>1, <1>2, PartsNodes
  <1>4. d # Null
    BY <1>3, Depths
  <1>5. PICK B \in SUBSET K, D \in SUBSET K : Parts(n, K, d, B, D)
    BY <1>3, <1>4, Split
  <1>6. d \in N /\ d \in K /\ d \in L
    BY <1>2, <1>3, <1>5, PartsNodes
  <1>7. /\ Level(n, A, E) /\ Level(n, K, E) /\ n[c].depth = Tall(n, c) /\ Balance(n, c) \in E
    BY <1>2, LevelParts
  <1>8. /\ Level(n, B, E) /\ Level(n, D, E) /\ n[d].depth = Tall(n, d) /\ Balance(n, d) \in E
    BY <1>5, <1>7, LevelParts
  <1>9. Measures(n, c, a, e) /\ Measures(n, d, p, q) /\ a \in Nat /\ e \in Nat /\ p \in Nat /\ q \in Nat
    BY <1>3, <1>6, <1>7, <1>8, TopMeasures
  <1>10. Depth(n, c) - r = 2 /\ r \in Nat /\ Tall(n, x) = 1 + Larger(Depth(n, c), r)
    BY <1>1, SidesNat
  <1>11. Depth(n, c) = 1 + Larger(a, e) /\ a - e < 0 /\ e = 1 + Larger(p, q) /\ a - e \in E /\ p - q \in E
    BY <1>7, <1>8, <1>9 DEF Measures
  <1> HIDE DEF m, h, u
  <1>12. LeftUp(N, n, L, c, d, A, B, D, E, m) /\ RotateLeft(n, c).top = d
    BY <1>1, <1>2, <1>5, <1>7, <1>8, RotateLeftLevel DEF m
  <1> DEFINE C == {c} \union A \union B
  <1>13. /\ m \in Trees(N) /\ (\A y \in N \ L : m[y] = n[y])
         /\ Parts(m, L, d, C, D) /\ Parts(m, C, c, A, B)
         /\ Level(m, D, E) /\ Level(m, B, E) /\ Level(m, A, E)
         /\ Measures(m, c, a, p) /\ Measures(m, d, Depth(m, c), q)
    BY <1>12 DEF LeftUp
  <1> HIDE DEF a, e, p, q, r, C, c, d
  <1>14. Level(m, C, E)
    <2>1. a - p \in E
      <3>1. CASE E = Int
        BY <1>9, <3>1
      <3>2. CASE E = -1 .. 1
        BY <1>9, <1>11, <3>2 DEF Larger
      <3> QED
        BY <3>1, <3>2 DEF Spread
    <2> QED
      BY <1>13, <2>1, NodeLevel
  <1>15. IsTree(m, L, d)
    BY <1>1, <1>13, Join
  <1>16. Parts(h, S, x, L, R)
    <2>1. m[x] = n[x] /\ \A y \in R : m[y] = n[y]
      BY <1>1, <1>13
    <2>2. \A y \in L : KeyOf(y) < KeyOf(x)
      BY DEF Parts
    <2> QED
      BY <1>1, <1>6, <1>13, <1>15, <2>1, <2>2, GraftLeft DEF h
  <1>17. h \in Trees(N) /\ h[x].left = d /\ h[x].right = n[x].right /\ \A y \in N \ {x} : h[y] = m[y]
    <2>1. LeftSet(N, m, x, d, h)
      BY <1>1, <1>6, <1>13, LeftIs DEF h
    <2>2. m[x] = n[x]
      BY <1>1, <1>13
    <2> QED
      BY <2>1, <2>2 DEF LeftSet
  <1>18. (\A y \in L : h[y] = m[y]) /\ (\A y \in C : h[y] = m[y]) /\ (\A y \in D : h[y] = m[y])
           /\ \A y \in R : h[y] = n[y]
    <2>1. C \subseteq L /\ D \subseteq L
      BY <1>13 DEF Parts
    <2> QED
      BY <1>1, <1>13, <1>17, <2>1
  <1>19. Parts(h, L, d, C, D) /\ Parts(h, C, c, A, B)
    BY <1>13, <1>18, KeepParts
  <1>20. Level(h, C, E) /\ Level(h, D, E) /\ Level(h, R, E)
    <2>1. IsTree(m, C, m[d].left) /\ IsTree(m, D, m[d].right) /\ IsTree(n, R, n[x].right)
      BY <1>13 DEF Parts
    <2> QED
      BY <1>13, <1>14, <1>18, <2>1, KeepLevel
  <1>21. RightUp(N, h, S, x, d, C, D, R, E, u) /\ RotateRight(h, x).top = d
    BY <1>16, <1>17, <1>19, <1>20, RotateRightLevel DEF u
  <1>22. Measures(h, d, Depth(m, c), q)
    BY <1>6, <1>13, <1>15, <1>18, KeepMeasures
  <1>23. Depth(h, h[d].left) = Depth(m, c) /\ Depth(h, h[d].right) = q
    BY <1>22 DEF Measures
  <1>24. Depth(h, h[x].right) = r
    <2>1. IsTree(n, R, n[x].right)
      BY DEF Parts
    <2> QED
      BY <1>17, <1>18, <2>1, KeepLevel DEF r
  <1>25. /\ u \in Trees(N) /\ Level(u, C, E) /\ Level(u, D, E) /\ Level(u, R, E)
         /\ Measures(u, x, q, r) /\ Measures(u, d, Depth(m, c), Depth(u, x))
         /\ Parts(u, S, d, C, {x} \union D \union R) /\ Parts(u, {x} \union D \union R, x, D, R)
    BY <1>21, <1>23, <1>24 DEF RightUp
  <1>26. /\ Depth(m, c) = 1 + Larger(a, p) /\ Depth(u, x) = 1 + Larger(q, r)
         /\ Depth(u, d) = 1 + Larger(1 + Larger(a, p), 1 + Larger(q, r))
    BY <1>13, <1>25 DEF Measures
  <1>27. q - r \in E /\ Depth(m, c) - Depth(u, x) \in E
    <2>1. CASE E = Int
      BY <1>9, <1>10, <1>26, <2>1 DEF Larger
    <2>2. CASE E = -1 .. 1
      BY <1>9, <1>10, <1>11, <1>26, <2>2 DEF Larger
    <2> QED
      BY <2>1, <2>2 DEF Spread
  <1>28. E = -1 .. 1 => Depth(u, d) \in Tall(n, x) - 1 .. Tall(n, x)
    BY <1>9, <1>10, <1>11, <1>26 DEF Larger
  <1>29. Level(u, {x} \union D \union R, E)
    BY <1>25, <1>27, NodeLevel
  <1>30. Level(u, S, E)
    BY <1>25, <1>27, <1>29, NodeLevel
  <1>31. DOMAIN n = N /\ u \in [N -> Fields(N)]
    BY <1>25 DEF Trees
  <1>32. RotateRight(h, x).n = u /\ RotateRight(h, x).top = d
    BY <1>21 DEF u
  <1>33. Evened(n, S, x, E, RotateRight(h, x))
    BY <1>28, <1>30, <1>31, <1>32 DEF Evened
  <1>34. h = [RotateLeft(n, c).n EXCEPT ![x].left = RotateLeft(n, c).top]
    BY <1>12 DEF h, m, WithLeft
  <1> QED
    BY <1>33, <1>34 DEF c

LEMMA InnerLeft ==
  ASSUME NEW N, Names(N), NEW n \in Trees(N), NEW S \in SUBSET N, NEW x, NEW L, NEW R,
         Parts(n, S, x, L, R), NEW E, Spread(E), Level(n, L, E), Level(n, R, E),
         Balance(n, x) = -2, Balance(n, n[x].right) > 0
  PROVE  LET t == RotateRight(n, n[x].right)
         IN  Evened(n, S, x, E, RotateLeft([t.n EXCEPT ![x].right = t.top], x))
  <1> DEFINE c == n[x].right
             d == n[c].left
             m == RotateRight(n, c).n
             h == WithRight(m, x, d)
             u == RotateLeft(h, x).n
             a == Depth(n, n[c].right)
             e == Depth(n, d)
             p == Depth(n, n[d].left)
             q == Depth(n, n[d].right)
             r == Depth(n, n[x].left)
  <1>1. x \in N /\ L \in SUBSET N /\ R \in SUBSET N /\ x \notin L /\ x \notin R
          /\ L \intersect R = {} /\ S = {x} \union L \union R
          /\ c # Null /\ IsTree(n, R, c)
    BY PartsNodes, Depths
  <1>2. PICK K \in SUBSET R, A \in SUBSET R : Parts(n, R, c, K, A)
    BY <1>1, Split
  <1>3. c \in N /\ c \in R /\ K \in SUBSET N /\ IsTree(n, K, d)
    BY <1>1, <1>2, PartsNodes
  <1>4. d # Null
    BY <1>3, Depths
  <1>5. PICK D \in SUBSET K, B \in SUBSET K : Parts(n, K, d, D, B)
    BY <1>3, <1>4, Split
  <1>6. d \in N /\ d \in K /\ d \in R
    BY <1>2, <1>3, <1>5, PartsNodes
  <1>7. /\ Level(n, A, E) /\ Level(n, K, E) /\ n[c].depth = Tall(n, c) /\ Balance(n, c) \in E
    BY <1>2, LevelParts
  <1>8. /\ Level(n, B, E) /\ Level(n, D, E) /\ n[d].depth = Tall(n, d) /\ Balance(n, d) \in E
    BY <1>5, <1>7, LevelParts
  <1>9. Measures(n, c, e, a) /\ Measures(n, d, p, q) /\ a \in Nat /\ e \in Nat /\ p \in Nat /\ q \in Nat
    BY <1>3, <1>6, <1>7, <1>8, TopMeasures
  <1>10. r - Depth(n, c) = -2 /\ r \in Nat /\ Tall(n, x) = 1 + Larger(r, Depth(n, c))
    BY <1>1, SidesNat
  <1>11. Depth(n, c) = 1 + Larger(e, a) /\ e - a > 0 /\ e = 1 + Larger(p, q) /\ e - a \in E /\ p - q \in E
    BY <1>7, <1>8, <1>9 DEF Measures
  <1> HIDE DEF m, h, u
  <1>12. RightUp(N, n, R, c, d, D, B, A, E, m) /\ RotateRight(n, c).top = d
    BY <1>1, <1>2, <1>5, <1>7, <1>8, RotateRightLevel DEF m
  <1> DEFINE C == {c} \union B \union A
  <1>13. /\ m \in Trees(N) /\ (\A y \in N \ R : m[y] = n[y])
         /\ Parts(m, R, d, D, C) /\ Parts(m, C, c, B, A)
         /\ Level(m, D, E) /\ Level(m, B, E) /\ Level(m, A, E)
         /\ Measures(m, c, q, a) /\ Measures(m, d, p, Depth(m, c))
    BY <1>12 DEF RightUp
  <1> HIDE DEF a, e, p, q, r, C, c, d
  <1>14. Level(m, C, E)
    <2>1. q - a \in E
      <3>1. CASE E = Int
        BY <1>9, <3>1
      <3>2. CASE E = -1 .. 1
        BY <1>9, <1>11, <3>2 DEF Larger
      <3> QED
        BY <3>1, <3>2 DEF Spread
    <2> QED
      BY <1>13, <2>1, NodeLevel
  <1>15. IsTree(m, R, d)
    BY <1>1, <1>13, Join
  <1>16. Parts(h, S, x, L, R)
    <2>1. m[x] = n[x] /\ \A y \in L : m[y] = n[y]
      BY <1>1, <1>13
    <2>2. \A y \in R : KeyOf(x) < KeyOf(y)
      BY DEF Parts
    <2> QED
      BY <1>1, <1>6, <1>13, <1>15, <2>1, <2>2, GraftRight DEF h
  <1>17. h \in Trees(N) /\ h[x].right = d /\ h[x].left = n[x].left /\ \A y \in N \ {x} : h[y] = m[y]
    <2>1. RightSet(N, m, x, d, h)
      BY <1>1, <1>6, <1>13, RightIs DEF h
    <2>2. m[x] = n[x]
      BY <1>1, <1>13
    <2> QED
      BY <2>1, <2>2 DEF RightSet
  <1>18. (\A y \in R : h[y] = m[y]) /\ (\A y \in C : h[y] = m[y]) /\ (\A y \in D : h[y] = m[y])
           /\ \A y \in L : h[y] = n[y]
    <2>1. C \subseteq R /\ D \subseteq R
      BY <1>13 DEF Parts
    <2> QED
      BY <1>1, <1>13, <1>17, <2>1
  <1>19. Parts(h, R, d, D, C) /\ Parts(h, C, c, B, A)
    BY <1>13, <1>18, KeepParts
  <1>20. Level(h, C, E) /\ Level(h, D, E) /\ Level(h, L, E)
    <2>1. IsTree(m, C, m[d].right) /\ IsTree(m, D, m[d].left) /\ IsTree(n, L, n[x].left)
      BY <1>13 DEF Parts
    <2> QED
      BY <1>13, <1>14, <1>18, <2>1, KeepLevel
  <1>21. LeftUp(N, h, S, x, d, L, D, C, E, u) /\ RotateLeft(h, x).top = d
    BY <1>16, <1>17, <1>19, <1>20, RotateLeftLevel DEF u
  <1>22. Measures(h, d, p, Depth(m, c))
    BY <1>6, <1>13, <1>15, <1>18, KeepMeasures
  <1>23. Depth(h, h[d].right) = Depth(m, c) /\ Depth(h, h[d].left) = p
    BY <1>22 DEF Measures
  <1>24. Depth(h, h[x].left) = r
    <2>1. IsTree(n, L, n[x].left)
      BY DEF Parts
    <2> QED
      BY <1>17, <1>18, <2>1, KeepLevel DEF r
  <1>25. /\ u \in Trees(N) /\ Level(u, C, E) /\ Level(u, D, E) /\ Level(u, L, E)
         /\ Measures(u, x, r, p) /\ Measures(u, d, Depth(u, x), Depth(m, c))
         /\ Parts(u, S, d, {x} \union L \union D, C) /\ Parts(u, {x} \union L \union D, x, L, D)
    BY <1>21, <1>23, <1>24 DEF LeftUp
  <1>26. /\ Depth(m, c) = 1 + Larger(q, a) /\ Depth(u, x) = 1 + Larger(r, p)
         /\ Depth(u, d) = 1 + Larger(1 + Larger(r, p), 1 + Larger(q, a))
    BY <1>13, <1>25 DEF Measures
  <1>27. r - p \in E /\ Depth(u, x) - Depth(m, c) \in E
    <2>1. CASE E = Int
      BY <1>9, <1>10, <1>26, <2>1 DEF Larger
    <2>2. CASE E = -1 .. 1
      BY <1>9, <1>10, <1>11, <1>26, <2>2 DEF Larger
    <2> QED
      BY <2>1, <2>2 DEF Spread
  <1>28. E = -1 .. 1 => Depth(u, d) \in Tall(n, x) - 1 .. Tall(n, x)
    BY <1>9, <1>10, <1>11, <1>26 DEF Larger
  <1>29. Level(u, {x} \union L \union D, E)
    BY <1>25, <1>27, NodeLevel
  <1>30. Level(u, S, E)
    BY <1>25, <1>27, <1>29, NodeLevel
  <1>31. DOMAIN n = N /\ u \in [N -> Fields(N)]
    BY <1>25 DEF Trees
  <1>32. RotateLeft(h, x).n = u /\ RotateLeft(h, x).top = d
    BY <1>21 DEF u
  <1>33. Evened(n, S, x, E, RotateLeft(h, x))
    BY <1>28, <1>30, <1>31, <1>32 DEF Evened
  <1>34. h = [RotateRight(n, c).n EXCEPT ![x].right = RotateRight(n, c).top]
    BY <1>12 DEF h, m, WithRight
  <1> QED
    BY <1>33, <1>34 DEF c

\* ml_map_rebalance: the sides of x are level.
LEMMA RebalanceLevel ==
  ASSUME NEW N, Names(N), NEW n \in Trees(N), NEW S \in SUBSET N, NEW x, NEW L, NEW R,
         Parts(n, S, x, L, R), NEW E, Spread(E), Level(n, L, E), Level(n, R, E)
  PROVE  IF Balance(n, x) \in {2, -2} THEN Evened(n, S, x, E, Rebalance(n, x))
         ELSE Rebalance(n, x) = [n |-> n, top |-> x]
  <1>1. CASE Balance(n, x) = 2
    <2>1. CASE Balance(n, n[x].left) < 0
      <3> DEFINE t == RotateLeft(n, n[x].left)
                 u == RotateRight([t.n EXCEPT ![x].left = t.top], x)
      <3>1. Evened(n, S, x, E, u)
        BY <1>1, <2>1, InnerRight
      <3>2. Rebalance(n, x) = u
        BY <1>1, <2>1 DEF Rebalance, Inner
      <3> HIDE DEF u
      <3> QED
        BY <1>1, <3>1, <3>2
    <2>2. CASE ~ (Balance(n, n[x].left) < 0)
      <3>1. Evened(n, S, x, E, RotateRight(n, x))
        BY <1>1, <2>2, OuterRight
      <3>2. Rebalance(n, x) = RotateRight(n, x)
        BY <1>1, <2>2 DEF Rebalance, Inner
      <3> QED
        BY <1>1, <3>1, <3>2
    <2> QED
      BY <2>1, <2>2
  <1>2. CASE Balance(n, x) = -2
    <2>1. CASE Balance(n, n[x].right) > 0
      <3> DEFINE t == RotateRight(n, n[x].right)
                 u == RotateLeft([t.n EXCEPT ![x].right = t.top], x)
      <3>1. Evened(n, S, x, E, u)
        BY <1>2, <2>1, InnerLeft
      <3>2. Rebalance(n, x) = u
        BY <1>2, <2>1 DEF Rebalance, Inner
      <3> HIDE DEF u
      <3> QED
        BY <1>2, <3>1, <3>2
    <2>2. CASE ~ (Balance(n, n[x].right) > 0)
      <3>1. Evened(n, S, x, E, RotateLeft(n, x))
        BY <1>2, <2>2, OuterLeft
      <3>2. Rebalance(n, x) = RotateLeft(n, x)
        BY <1>2, <2>2 DEF Rebalance, Inner
      <3> QED
        BY <1>2, <3>1, <3>2
    <2> QED
      BY <2>1, <2>2
  <1>3. CASE Balance(n, x) \notin {2, -2}
    BY <1>3 DEF Rebalance
  <1> QED
    BY <1>1, <1>2, <1>3

------------------------------------------------------------------------------
(* Depths through ml_map_rebalance and ml_map_update_depth.                  *)

\* As deep as x is tall, or one less after a rotation.
Near(n, x, d) ==
  IF Balance(n, x) \in {2, -2} THEN d \in Tall(n, x) - 1 .. Tall(n, x) ELSE d = Tall(n, x)

\* The tree of S is level in m below top.
Evenly(n, S, x, E, m, top) ==
  Level(m, S, E) /\ (E = -1 .. 1 => Near(n, x, Depth(m, top)))

\* The depth of x is set, and its sides may stay.
LEMMA LevelTop ==
  ASSUME NEW N, Names(N), NEW n \in Trees(N), NEW S \in SUBSET N, NEW x, NEW L, NEW R,
         Parts(n, S, x, L, R), NEW E, Level(n, L, E), Level(n, R, E)
  PROVE  LET m == UpdateDepth(n, x)
         IN  /\ m \in Trees(N) /\ Parts(m, S, x, L, R) /\ Level(m, L, E) /\ Level(m, R, E)
             /\ Tall(m, x) = Tall(n, x) /\ Balance(m, x) = Balance(n, x)
             /\ Depth(m, x) = Tall(n, x) /\ m[x].depth = Tall(m, x)
             /\ (\A y \in N \ {x} : m[y] = n[y]) /\ (Balance(n, x) \in E => Level(m, S, E))
  <1> DEFINE m == UpdateDepth(n, x)
  <1>1. /\ x \in N /\ x \in S /\ L \in SUBSET N /\ R \in SUBSET N /\ x \notin L /\ x \notin R
        /\ n[x].left # x /\ n[x].right # x /\ x # Null
    <2>1. /\ x \in N /\ x \in S /\ L \in SUBSET N /\ R \in SUBSET N /\ x \notin L /\ x \notin R
          /\ n[x].left # x /\ n[x].right # x
      BY PartsNodes
    <2> QED
      BY <2>1, NodesAre
  <1>2. /\ m \in Trees(N) /\ m[x].left = n[x].left /\ m[x].right = n[x].right
        /\ m[x].depth = Tall(n, x) /\ (\A y \in N \ {x} : m[y] = n[y])
        /\ Tall(m, x) = Tall(n, x) /\ Balance(m, x) = Balance(n, x)
    BY <1>1, UpdateDepthSets
  <1> HIDE DEF m
  <1>3. (\A y \in L : m[y] = n[y]) /\ \A y \in R : m[y] = n[y]
    BY <1>1, <1>2
  <1>4. IsTree(n, L, n[x].left) /\ IsTree(n, R, n[x].right)
    BY DEF Parts
  <1>5. Level(m, L, E) /\ Level(m, R, E)
    BY <1>3, <1>4, KeepLevel
  <1>6. IsTree(m, L, m[x].left) /\ IsTree(m, R, m[x].right)
    BY <1>2, <1>3, <1>4, KeepTree
  <1>7. Tall(n, x) > 0
    BY <1>1, SidesNat
  <1>8. Parts(m, S, x, L, R)
    BY <1>2, <1>6, <1>7 DEF Parts
  <1>9. Balance(n, x) \in E => Level(m, S, E)
    BY <1>2, <1>5, <1>8, LevelParts
  <1>10. Depth(m, x) = Tall(n, x)
    BY <1>1, <1>2 DEF Depth
  <1> QED
    BY <1>2, <1>5, <1>8, <1>9, <1>10 DEF m

\* As an insertion does it: first the rotation, then the depth.
LEMMA TurnLevel ==
  ASSUME NEW N, Names(N), NEW n \in Trees(N), NEW S \in SUBSET N, NEW x, NEW L, NEW R,
         Parts(n, S, x, L, R), NEW E, Spread(E), Level(n, L, E), Level(n, R, E),
         E = -1 .. 1 => Balance(n, x) \in -2 .. 2
  PROVE  LET r == Rebalance(n, x)
         IN  Evenly(n, S, x, E, UpdateDepth(r.n, r.top), r.top)
  <1> DEFINE r == Rebalance(n, x)
             m == UpdateDepth(r.n, r.top)
  <1>1. x \in N /\ x \in S /\ IsTree(n, S, x) /\ x # Null
    <2>1. x \in N /\ x \in S
      BY PartsNodes
    <2> QED
      BY <2>1, Join, NodesAre
  <1>2. CASE Balance(n, x) \in {2, -2}
    <2>1. Evened(n, S, x, E, r)
      BY <1>2, RebalanceLevel
    <2>2. Rearranged(N, n, S, r) /\ r.top # Null
      BY <1>1, RebalanceTree
    <2> HIDE DEF r
    <2>3. /\ r.n \in Trees(N) /\ Level(r.n, S, E) /\ IsTree(r.n, S, r.top)
          /\ E = -1 .. 1 => Depth(r.n, r.top) \in Tall(n, x) - 1 .. Tall(n, x)
      BY <2>1, <2>2 DEF Evened, Rearranged
    <2>4. r.top \in S /\ r.top \in N
      BY <2>2, <2>3, TreeTop
    <2>5. r.n[r.top].depth = Tall(r.n, r.top)
      BY <2>3, <2>4 DEF Level
    <2>6. PICK A \in SUBSET S, B \in SUBSET S : Parts(r.n, S, r.top, A, B)
      BY <2>2, <2>3, Split
    <2>7. r.n[r.top].left # r.top /\ r.n[r.top].right # r.top
      BY <2>3, <2>6, PartsNodes
    <2>8. m = r.n
      BY <2>3, <2>4, <2>5, <2>7, UpdateDepthSets
    <2> HIDE DEF m
    <2>9. Level(m, S, E) /\ (E = -1 .. 1 => Near(n, x, Depth(m, r.top)))
      BY <1>2, <2>3, <2>8 DEF Near
    <2> QED
      BY <2>9 DEF Evenly, m, r
  <1>3. CASE Balance(n, x) \notin {2, -2}
    <2> DEFINE h == UpdateDepth(n, x)
    <2>1. r = [n |-> n, top |-> x]
      BY <1>3, RebalanceLevel
    <2>2. m = h /\ r.top = x
      BY <2>1
    <2> HIDE DEF r, m
    <2>3. Depth(h, x) = Tall(n, x) /\ (Balance(n, x) \in E => Level(h, S, E))
      BY LevelTop
    <2> HIDE DEF h
    <2>4. Balance(n, x) \in E
      <3>1. Balance(n, x) \in Int
        BY <1>1, Depths
      <3> QED
        BY <1>3, <3>1 DEF Spread
    <2>5. Level(m, S, E) /\ Near(n, x, Depth(m, r.top))
      BY <1>3, <2>2, <2>3, <2>4 DEF Near
    <2> QED
      BY <2>5 DEF Evenly, m, r
  <1> QED
    BY <1>2, <1>3

\* As a removal does it: first the depth, then the rotation.
LEMMA SettleLevel ==
  ASSUME NEW N, Names(N), NEW n \in Trees(N), NEW S \in SUBSET N, NEW x, NEW L, NEW R,
         Parts(n, S, x, L, R), NEW E, Spread(E), Level(n, L, E), Level(n, R, E)
  PROVE  LET s == Settle(n, x)
         IN  /\ Level(s.n, S \ {s.top}, E)
             /\ (E = -1 .. 1 => Balance(n, x) \in -2 .. 2) => Evenly(n, S, x, E, s.n, s.top)
  <1> DEFINE m == UpdateDepth(n, x)
             s == Settle(n, x)
  <1>1. x \in N /\ x \in S /\ x # Null
    BY PartsNodes DEF Parts
  <1>2. s = Rebalance(m, x)
    BY <1>1 DEF Settle
  <1>3. /\ m \in Trees(N) /\ Parts(m, S, x, L, R) /\ Level(m, L, E) /\ Level(m, R, E)
        /\ Tall(m, x) = Tall(n, x) /\ Balance(m, x) = Balance(n, x)
        /\ Depth(m, x) = Tall(n, x) /\ (Balance(n, x) \in E => Level(m, S, E))
    BY LevelTop
  <1> HIDE DEF m, s
  <1>4. IF Balance(m, x) \in {2, -2} THEN Evened(m, S, x, E, s) ELSE s = [n |-> m, top |-> x]
    BY <1>2, <1>3, RebalanceLevel
  <1>5. CASE Balance(n, x) \in {2, -2}
    <2>1. /\ Level(s.n, S, E)
          /\ E = -1 .. 1 => Depth(s.n, s.top) \in Tall(n, x) - 1 .. Tall(n, x)
      BY <1>3, <1>4, <1>5 DEF Evened
    <2>2. Level(s.n, S \ {s.top}, E)
      BY <2>1, LevelLess
    <2>3. E = -1 .. 1 => Near(n, x, Depth(s.n, s.top))
      BY <1>5, <2>1 DEF Near
    <2> QED
      BY <2>1, <2>2, <2>3 DEF Evenly, s
  <1>6. CASE Balance(n, x) \notin {2, -2}
    <2>1. s.n = m /\ s.top = x
      BY <1>3, <1>4, <1>6
    <2>2. Level(m, S \ {x}, E)
      BY <1>3, LevelSides
    <2>3. Near(n, x, Depth(s.n, s.top))
      BY <1>3, <1>6, <2>1 DEF Near
    <2>4. (E = -1 .. 1 => Balance(n, x) \in -2 .. 2) => Balance(n, x) \in E
      <3>1. Balance(n, x) \in Int
        BY <1>1, Depths
      <3> QED
        BY <1>6, <3>1 DEF Spread
    <2> QED
      BY <1>3, <2>1, <2>2, <2>3, <2>4 DEF Evenly, s
  <1> QED
    BY <1>5, <1>6

------------------------------------------------------------------------------
(* Depths through an insertion.                                              *)

OtherSide(n, x, k) == IF k < KeyOf(x) THEN n[x].right ELSE n[x].left

\* At most the side of k is deeper in u, by one.
Raised(n, x, k, u) ==
  /\ Depth(u, Side(u, x, k)) \in Depth(n, Side(n, x, k)) .. Depth(n, Side(n, x, k)) + 1
  /\ Depth(u, OtherSide(u, x, k)) = Depth(n, OtherSide(n, x, k))

\* How deep the sides of x are, by the side on which k is.
LEMMA SideDepths ==
  ASSUME NEW N, Names(N), NEW n \in Trees(N), NEW x \in N, NEW k
  PROVE  LET s == Depth(n, Side(n, x, k))
             o == Depth(n, OtherSide(n, x, k))
         IN  /\ s \in Nat /\ o \in Nat /\ Tall(n, x) = 1 + Larger(s, o)
             /\ \A d \in Nat : Balance(n, x) \in -d .. d <=> s - o \in -d .. d
             /\ Balance(n, x) \in {2, -2} <=> s - o \in {2, -2}
  <1>1. /\ Depth(n, n[x].left) \in Nat /\ Depth(n, n[x].right) \in Nat
        /\ Balance(n, x) = Depth(n, n[x].left) - Depth(n, n[x].right)
        /\ Tall(n, x) = 1 + Larger(Depth(n, n[x].left), Depth(n, n[x].right))
    BY SidesNat
  <1> DEFINE l == Depth(n, n[x].left)
             r == Depth(n, n[x].right)
             s == Depth(n, Side(n, x, k))
             o == Depth(n, OtherSide(n, x, k))
  <1>2. (s = l /\ o = r) \/ (s = r /\ o = l)
    BY DEF Side, OtherSide
  <1>3. l \in Nat /\ r \in Nat /\ Balance(n, x) = l - r /\ Tall(n, x) = 1 + Larger(l, r)
    BY <1>1
  <1> HIDE DEF l, r, s, o
  <1>4. s \in Nat /\ o \in Nat
    BY <1>2, <1>3
  <1>5. Tall(n, x) = 1 + Larger(s, o)
    BY <1>2, <1>3 DEF Larger
  <1>6. Balance(n, x) = s - o \/ Balance(n, x) = o - s
    BY <1>2, <1>3
  <1>7. \A d \in Nat : Balance(n, x) \in -d .. d <=> s - o \in -d .. d
    BY <1>4, <1>6
  <1>8. Balance(n, x) \in {2, -2} <=> s - o \in {2, -2}
    BY <1>4, <1>6
  <1> QED
    BY <1>4, <1>5, <1>7, <1>8 DEF s, o

\* A balanced node with such a side: it is no deeper than one more, also if it is turned.
LEMMA RaisedTop ==
  ASSUME NEW N, Names(N), NEW n \in Trees(N), NEW u \in Trees(N), NEW x \in N, NEW k,
         n[x].depth = Tall(n, x), Balance(n, x) \in -1 .. 1, Raised(n, x, k, u)
  PROVE  /\ Balance(u, x) \in -2 .. 2
         /\ \A d : Near(u, x, d) => d \in Depth(n, x) .. Depth(n, x) + 1
  <1> DEFINE s == Depth(n, Side(n, x, k))
             o == Depth(n, OtherSide(n, x, k))
             t == Depth(u, Side(u, x, k))
             p == Depth(u, OtherSide(u, x, k))
  <1>1. /\ s \in Nat /\ o \in Nat /\ Tall(n, x) = 1 + Larger(s, o)
        /\ Balance(n, x) \in -1 .. 1 <=> s - o \in -1 .. 1
    BY SideDepths
  <1>2. /\ t \in Nat /\ p \in Nat /\ Tall(u, x) = 1 + Larger(t, p)
        /\ Balance(u, x) \in -2 .. 2 <=> t - p \in -2 .. 2
        /\ Balance(u, x) \in {2, -2} <=> t - p \in {2, -2}
    BY SideDepths
  <1>3. t \in s .. s + 1 /\ p = o
    BY DEF Raised
  <1>4. Depth(n, x) = Tall(n, x)
    BY NodesAre DEF Depth
  <1> HIDE DEF s, o, t, p
  <1>5. s - o \in -1 .. 1
    BY <1>1
  <1>6. t - p \in -2 .. 2
    BY <1>1, <1>3, <1>5
  <1>7. ASSUME NEW d, Near(u, x, d)
        PROVE  d \in Depth(n, x) .. Depth(n, x) + 1
    <2>1. CASE t - p \in {2, -2}
      <3>1. d \in Tall(u, x) - 1 .. Tall(u, x)
        BY <1>2, <1>7, <2>1 DEF Near
      <3> QED
        BY <1>1, <1>2, <1>3, <1>4, <1>5, <2>1, <3>1 DEF Larger
    <2>2. CASE t - p \notin {2, -2}
      <3>1. d = Tall(u, x)
        BY <1>2, <1>7, <2>2 DEF Near
      <3> QED
        BY <1>1, <1>2, <1>3, <1>4, <1>5, <2>2, <3>1 DEF Larger
    <2> QED
      BY <2>1, <2>2
  <1> QED
    BY <1>2, <1>6, <1>7

\* The other child of x.
LEMMA OtherTree ==
  ASSUME NEW n, NEW S, NEW x, NEW L, NEW R, Parts(n, S, x, L, R), NEW k
  PROVE  IsTree(n, OtherOf(x, k, L, R), OtherSide(n, x, k))
  BY DEF Parts, OtherOf, OtherSide

LEMMA SetSideIs ==
  ASSUME NEW N, Names(N), NEW n \in Trees(N), NEW x \in N, NEW k, NEW child \in N \union {Null}
  PROVE  LET u == SetSide(n, x, k, child)
         IN  /\ u \in Trees(N) /\ Side(u, x, k) = child /\ OtherSide(u, x, k) = OtherSide(n, x, k)
             /\ u[x].depth = n[x].depth /\ \A y \in N \ {x} : u[y] = n[y]
  <1>1. CASE k < KeyOf(x)
    <2>1. LeftSet(N, n, x, child, WithLeft(n, x, child))
      BY LeftIs
    <2>2. SetSide(n, x, k, child) = WithLeft(n, x, child)
      BY <1>1 DEF SetSide, WithLeft
    <2> QED
      BY <1>1, <2>1, <2>2 DEF LeftSet, Side, OtherSide
  <1>2. CASE ~ (k < KeyOf(x))
    <2>1. RightSet(N, n, x, child, WithRight(n, x, child))
      BY RightIs
    <2>2. SetSide(n, x, k, child) = WithRight(n, x, child)
      BY <1>2 DEF SetSide, WithRight
    <2> QED
      BY <1>2, <2>1, <2>2 DEF RightSet, Side, OtherSide
  <1> QED
    BY <1>1, <1>2

\* h has the tree of M below child for the side of k, and the nodes of O as they were.
Grafted(N, n, x, k, O, E, m, M, child, h) ==
  /\ h \in Trees(N) /\ Level(h, O, E) /\ (Level(m, M, E) => Level(h, M, E))
  /\ Depth(h, OtherSide(h, x, k)) = Depth(n, OtherSide(n, x, k))
  /\ Depth(h, Side(h, x, k)) = Depth(m, child)

LEMMA SideLevel ==
  ASSUME NEW N, Names(N), NEW n \in Trees(N), NEW S \in SUBSET N, NEW x, NEW L, NEW R,
         Parts(n, S, x, L, R), NEW k, NEW E, Level(n, S \ {x}, E),
         NEW m, NEW M, NEW child, Fits(N, n, x, OtherOf(x, k, L, R), k, m, M, child),
         Apart(x, M, OtherOf(x, k, L, R))
  PROVE  Grafted(N, n, x, k, OtherOf(x, k, L, R), E, m, M, child, SetSide(m, x, k, child))
  <1> DEFINE O == OtherOf(x, k, L, R)
             u == SetSide(m, x, k, child)
             o == OtherSide(n, x, k)
  <1>1. /\ m \in Trees(N) /\ m[x] = n[x] /\ (\A y \in O : m[y] = n[y]) /\ M \in SUBSET N
        /\ child \in N \union {Null} /\ IsTree(m, M, child)
    BY DEF Fits
  <1>2. x \in N /\ x \notin O /\ O \subseteq S \ {x} /\ O \in SUBSET N
    <2>1. x \in N /\ L \in SUBSET N /\ R \in SUBSET N /\ x \notin L /\ x \notin R
            /\ S = {x} \union L \union R
      BY PartsNodes
    <2> QED
      BY <2>1 DEF OtherOf
  <1>3. IsTree(n, O, o)
    BY OtherTree
  <1>4. x \notin M
    BY DEF Apart
  <1>5. /\ u \in Trees(N) /\ Side(u, x, k) = child /\ OtherSide(u, x, k) = OtherSide(m, x, k)
        /\ u[x].depth = m[x].depth /\ \A y \in N \ {x} : u[y] = m[y]
    BY <1>1, <1>2, SetSideIs
  <1>6. OtherSide(m, x, k) = o
    BY <1>1 DEF OtherSide
  <1> HIDE DEF u, O, o
  <1>7. \A y \in O : u[y] = n[y]
    BY <1>1, <1>2, <1>5
  <1>11. \A y \in M : u[y] = m[y]
    BY <1>1, <1>4, <1>5
  <1>8. Level(n, O, E)
    BY <1>2, LevelLess
  <1>9. Level(u, O, E) /\ Depth(u, o) = Depth(n, o)
    BY <1>3, <1>7, <1>8, KeepLevel
  <1>10. (Level(m, M, E) => Level(u, M, E)) /\ Depth(u, child) = Depth(m, child)
    BY <1>1, <1>11, KeepLevel
  <1> QED
    BY <1>1, <1>5, <1>6, <1>9, <1>10 DEF u, O, o, Grafted

\* What an insertion makes of the tree below x: it is level but for x itself, and if it was
\* balanced the side of k is one deeper at most.
PutLevel(n, x, k, E, u, T) == Level(u, T \ {x}, E) /\ (E = -1 .. 1 => Raised(n, x, k, u))

\* The tree below child in z is the one of the side of k, and this one may be one deeper.
Rises(n, x, k, E, z, child) ==
  E = -1 .. 1 => /\ Balance(z, child) \in -2 .. 2
                 /\ \A d : Near(z, child, d) =>
                             d \in Depth(n, Side(n, x, k)) .. Depth(n, Side(n, x, k)) + 1

LEMMA RaisedSide ==
  ASSUME NEW N, Names(N), NEW W, NEW n \in Trees(N), NEW S \in SUBSET N, NEW x, NEW L, NEW R,
         Parts(n, S, x, L, R), NEW k, NEW E, Spread(E), Level(n, S \ {x}, E),
         NEW z \in MapsOf(N, W), NEW M, NEW child,
         Fits(N, n, x, OtherOf(x, k, L, R), k, z.n, M, child), child # Null,
         Apart(x, M, OtherOf(x, k, L, R)), Level(z.n, M \ {child}, E), Rises(n, x, k, E, z.n, child)
  PROVE  PutLevel(n, x, k, E, Rebalanced(z, x, k, child).n, {x} \union M \union OtherOf(x, k, L, R))
  <1> DEFINE O == OtherOf(x, k, L, R)
             r == Rebalance(z.n, child)
             m == UpdateDepth(r.n, r.top)
             t == r.top
             u == Rebalanced(z, x, k, child).n
  <1>1. /\ z.n \in Trees(N) /\ z.n[x] = n[x] /\ (\A y \in O : z.n[y] = n[y])
        /\ M \in SUBSET N /\ IsTree(z.n, M, child) /\ \A y \in M : SameSide(x, k, y)
    BY DEF Fits
  <1>2. child \in N /\ x \in N /\ O \subseteq N /\ child \in M
    <2>1. child \in M
      BY <1>1, TreeTop
    <2> QED
      BY <1>1, <2>1 DEF Parts, OtherOf
  <1>3. u = SetSide(m, x, k, t) /\ m \in Trees(N) /\ t \in N \union {Null}
    BY <1>2, RebalancedType
  <1>4. PICK A \in SUBSET M, B \in SUBSET M : Parts(z.n, M, child, A, B)
    BY <1>1, Split
  <1>5. Level(z.n, A, E) /\ Level(z.n, B, E)
    BY <1>4, LevelSides
  <1>6. E = -1 .. 1 => Balance(z.n, child) \in -2 .. 2
    BY DEF Rises
  <1>7. Evenly(z.n, M, child, E, m, t)
    BY <1>1, <1>4, <1>5, <1>6, TurnLevel
  <1> DEFINE q == [n |-> m, top |-> t]
  <1>8. Rearranged(N, z.n, M, q)
    BY <1>1, RebalancedTree
  <1> HIDE DEF m, t, r, u
  <1>9. IsTree(m, M, t) /\ \A y \in N \ M : m[y] = z.n[y]
    BY <1>8 DEF Rearranged
  <1> HIDE DEF O
  <1>10. x \notin M /\ \A y \in O : y \notin M
    BY DEF O, Apart
  <1>11. Fits(N, n, x, O, k, m, M, t)
    BY <1>1, <1>2, <1>3, <1>9, <1>10 DEF Fits
  <1>12. /\ Level(u, O, E) /\ (Level(m, M, E) => Level(u, M, E))
         /\ Depth(u, OtherSide(u, x, k)) = Depth(n, OtherSide(n, x, k))
         /\ Depth(u, Side(u, x, k)) = Depth(m, t)
    <2>1. Grafted(N, n, x, k, O, E, m, M, t, u)
      BY <1>3, <1>11, SideLevel DEF O
    <2> QED
      BY <2>1 DEF Grafted
  <1>13. Level(m, M, E) /\ (E = -1 .. 1 => Near(z.n, child, Depth(m, t)))
    BY <1>7 DEF Evenly
  <1>14. Level(u, ({x} \union M \union O) \ {x}, E)
    BY <1>12, <1>13 DEF Level
  <1>15. E = -1 .. 1 => Raised(n, x, k, u)
    BY <1>12, <1>13 DEF Raised, Rises
  <1> QED
    BY <1>14, <1>15 DEF PutLevel, O, u

\* A new node is even.
LEMMA NewLevel ==
  ASSUME NEW N, Names(N), NEW W, NEW v \in MapsOf(N, W), NEW z \in MapsOf(N, W),
         NEW new \in N, Sown(N, v, z, new), NEW x \in N, NEW k, Side(v.n, x, k) = Null, NEW E
  PROVE  Level(z.n, {new} \ {new}, E) /\ Rises(v.n, x, k, E, z.n, new)
  <1>1. IsTree(z.n, {new}, new) /\ z.n \in Trees(N) /\ new # Null
    BY NodesAre DEF Sown, MapsOf
  <1>2. z.n[new].left = Null /\ z.n[new].right = Null
    <2> DEFINE U == {new}
    <2>1. U \in SUBSET N
      OBVIOUS
    <2>2. IsTree(z.n, U, new)
      BY <1>1
    <2> HIDE DEF U
    <2>3. PICK A \in SUBSET U, B \in SUBSET U : Parts(z.n, U, new, A, B)
      BY <1>1, <2>1, <2>2, Split
    <2>4. new \notin A /\ new \notin B /\ z.n[new].left \in A \union {Null}
            /\ z.n[new].right \in B \union {Null}
      BY <1>1, <2>1, <2>3, PartsNodes
    <2> QED
      BY <2>4 DEF U
  <1>3. Balance(z.n, new) = 0 /\ Tall(z.n, new) = 1
    BY <1>2 DEF Balance, Tall, Depth
  <1>4. Depth(v.n, Side(v.n, x, k)) = 0
    BY DEF Depth
  <1>5. Rises(v.n, x, k, E, z.n, new)
    BY <1>3, <1>4 DEF Rises, Near
  <1> QED
    BY <1>5 DEF Level

LEMMA PutUneven ==
  ASSUME NEW n, NEW x, NEW k, NEW E, NEW S, Level(n, S \ {x}, E), NEW N, Names(N), n \in Trees(N),
         x \in N
  PROVE  PutLevel(n, x, k, E, n, S)
  <1>1. Depth(n, Side(n, x, k)) \in Nat
    BY SideDepths
  <1>2. Raised(n, x, k, n)
    BY <1>1 DEF Raised
  <1> QED
    BY <1>2 DEF PutLevel

\* The side of a balanced node rises with its top.
LEMMA SideRises ==
  ASSUME NEW N, Names(N), NEW n \in Trees(N), NEW x \in N, NEW k, NEW E, NEW side \in N,
         side = Side(n, x, k), NEW C, side \in C, Level(n, C, E), NEW z \in Trees(N), NEW M,
         PutLevel(n, side, k, E, z, M)
  PROVE  Level(z, M \ {side}, E) /\ Rises(n, x, k, E, z, side)
  <1>1. Level(z, M \ {side}, E) /\ (E = -1 .. 1 => Raised(n, side, k, z))
    BY DEF PutLevel
  <1>2. n[side].depth = Tall(n, side) /\ Balance(n, side) \in E
    BY DEF Level
  <1>3. ASSUME E = -1 .. 1
        PROVE  /\ Balance(z, side) \in -2 .. 2
               /\ \A d : Near(z, side, d) => d \in Depth(n, side) .. Depth(n, side) + 1
    <2>1. Raised(n, side, k, z) /\ Balance(n, side) \in -1 .. 1
      BY <1>1, <1>2, <1>3
    <2> QED
      BY <1>2, <2>1, RaisedTop
  <1> QED
    BY <1>1, <1>3 DEF Rises

LEMMA PutTreeLevel ==
  ASSUME NEW N, Names(N), NEW W, NEW v \in MapsOf(N, W), v.head # Null, v.tail # Null,
         NEW rank, Ranked(N, v.n, rank), NEW k \in Int, NEW new \in N, KeyOf(new) = k,
         NEW S \in SUBSET N, NEW top, IsTree(v.n, S, top), top # Null,
         NEW E, Spread(E), Level(v.n, S \ {top}, E)
  PROVE  LET T == IF WithKey(S, k) = {} THEN S \union {new} ELSE S
         IN  PutLevel(v.n, top, k, E, InsertBelow(v, top, k, new).n, T)
  <1> DEFINE p == Put(v, k, new)
             n == v.n
             T(U) == IF WithKey(U, k) = {} THEN U \union {new} ELSE U
             G == {U \in FiniteSubsetsOf(N) :
                     \A x \in N : IsTree(n, U, x) /\ Level(n, U \ {x}, E)
                                    => PutLevel(n, x, k, E, p[x].n, T(U))}
  <1>0. n \in Trees(N)
    BY DEF MapsOf
  <1>u. \A x \in N :
          /\ p[x] \in MapsOf(N, W)
          /\ p[x] = IF KeyOf(x) = k THEN v
                    ELSE IF Side(n, x, k) = Null THEN Rebalanced(Placed(v, x, k, new), x, k, new)
                    ELSE Rebalanced(p[Side(n, x, k)], x, k, Side(n, x, k))
    BY PutUnfolds
  <1>t. \A x \in N, U \in SUBSET N : IsTree(n, U, x) => PutIn(N, W, v, k, new, U, x, p[x])
    <2> SUFFICES ASSUME NEW x \in N, NEW U \in SUBSET N, IsTree(n, U, x)
                 PROVE  PutIn(N, W, v, k, new, U, x, p[x])
      OBVIOUS
    <2>1. x # Null
      BY NodesAre
    <2> HIDE DEF p
    <2>2. PutIn(N, W, v, k, new, U, x, InsertBelow(v, x, k, new))
      BY <2>1, PutTree DEF n
    <2> QED
      BY <2>2, InsertBelowIs DEF p
  <1> HIDE DEF p, n
  <1>1. ASSUME NEW U \in FiniteSubsetsOf(N),
               \A Z \in FiniteSubsetsOf(N) : Z \subseteq U /\ Z # U => Z \in G,
               NEW x \in N, IsTree(n, U, x), Level(n, U \ {x}, E)
        PROVE  PutLevel(n, x, k, E, p[x].n, T(U))
    <2>0. U \in SUBSET N /\ IsFiniteSet(U) /\ x # Null
      BY NodesAre DEF FiniteSubsetsOf
    <2>1. PICK L \in SUBSET U, R \in SUBSET U : Parts(n, U, x, L, R)
      BY <1>1, <2>0, Split
    <2>2. x \in U
      BY <2>1 DEF Parts
    <2>3. CASE KeyOf(x) = k
      <3>1. p[x] = v /\ WithKey(U, k) # {}
        BY <1>u, <2>2, <2>3 DEF WithKey
      <3>2. PutLevel(n, x, k, E, n, U)
        BY <1>0, <1>1, PutUneven
      <3> QED
        BY <3>1, <3>2 DEF n
    <2>4. CASE KeyOf(x) # k
      <3> DEFINE C == SideOf(x, k, L, R)
                 O == OtherOf(x, k, L, R)
                 side == Side(n, x, k)
      <3>1. /\ IsTree(n, C, side) /\ U = {x} \union C \union O /\ x \notin C /\ x \notin O
            /\ C \intersect O = {} /\ \A y \in C : SameSide(x, k, y)
        BY <2>1, SideTree
      <3>2. \A y \in O : KeyOf(y) # k
        BY <2>0, <2>1, <2>4, OtherKeys
      <3>3. WithKey(U, k) = WithKey(C, k)
        BY <2>4, <3>1, <3>2 DEF WithKey
      <3>4. SameSide(x, k, new)
        BY <2>4, NodesAre DEF SameSide
      <3>5. new # x /\ new \notin O
        BY <2>4, <3>2
      <3>9. Level(n, C, E)
        BY <1>1, <3>1, LevelLess
      <3> HIDE DEF C, O, side
      <3>6. CASE side = Null
        <4> DEFINE z == Placed(v, x, k, new)
                   M == {new}
        <4>1. p[x] = Rebalanced(z, x, k, new)
          BY <1>u, <2>4, <3>6 DEF side
        <4>2. C = {} /\ WithKey(U, k) = {}
          <5>1. C = {}
            BY <3>1, <3>6, EmptyTree
          <5> QED
            BY <3>3, <5>1 DEF WithKey
        <4>3. z \in MapsOf(N, W) /\ Sown(N, v, z, new)
          BY PlacedIs
        <4> HIDE DEF z
        <4>4. Level(z.n, M \ {new}, E) /\ Rises(n, x, k, E, z.n, new)
          BY <3>6, <4>3, NewLevel DEF n, side
        <4>5. (\A a \in N \ {new} : z.n[a] = n[a]) /\ IsTree(z.n, {new}, new) /\ z.n \in Trees(N)
          BY <4>3 DEF Sown, n, MapsOf
        <4>6. Fits(N, n, x, O, k, z.n, M, new)
          <5>2. z.n[x] = n[x] /\ \A y \in O : z.n[y] = n[y]
            BY <2>0, <3>1, <3>5, <4>5
          <5> QED
            BY <3>4, <4>5, <5>2 DEF Fits
        <4>7. new # Null /\ Apart(x, M, O)
          BY <3>5, NodesAre DEF Apart
        <4>8. {x} \union M \union O = T(U)
          BY <3>1, <4>2
        <4> HIDE DEF M, T
        <4>9. PutLevel(n, x, k, E, Rebalanced(z, x, k, new).n, {x} \union M \union O)
          BY <1>0, <1>1, <2>0, <2>1, <4>3, <4>4, <4>6, <4>7, RaisedSide DEF O
        <4> QED
          BY <4>1, <4>8, <4>9
      <3>7. CASE side # Null
        <4> DEFINE z == p[side]
                   M == T(C)
        <4>1. p[x] = Rebalanced(z, x, k, side)
          BY <1>u, <2>4, <3>7 DEF side
        <4>2. side \in N /\ side \in C /\ C \in SUBSET N
          BY <2>0, <3>1, <3>7, TreeTop
        <4>3. PutLevel(n, side, k, E, z.n, M)
          <5>1. C \in FiniteSubsetsOf(N) /\ C # U
            <6>1. IsFiniteSet(C)
              BY <3>1 DEF IsTree
            <6> QED
              BY <2>0, <2>2, <3>1, <6>1 DEF FiniteSubsetsOf
          <5>2. C \in G
            BY <1>1, <3>1, <5>1
          <5>3. Level(n, C \ {side}, E)
            BY <3>9, LevelLess
          <5> HIDE DEF T
          <5> QED
            BY <3>1, <4>2, <5>2, <5>3
        <4>4. PutIn(N, W, v, k, new, C, side, z)
          BY <1>t, <3>1, <4>2
        <4>5. z \in MapsOf(N, W) /\ IsTree(z.n, M, side) /\ \A y \in N \ M : z.n[y] = n[y]
          BY <4>4 DEF PutIn, n
        <4>6. /\ M \in SUBSET N /\ (\A y \in M : SameSide(x, k, y)) /\ x \notin M
              /\ \A y \in O : y \notin M
          BY <2>0, <3>1, <3>4, <3>5
        <4>7. {x} \union M \union O = T(U)
          BY <3>1, <3>3
        <4> HIDE DEF z, M, T
        <4>8. Fits(N, n, x, O, k, z.n, M, side)
          <5>1. z.n \in Trees(N)
            BY <4>5 DEF MapsOf
          <5>2. z.n[x] = n[x] /\ \A y \in O : z.n[y] = n[y]
            BY <2>0, <3>1, <4>5, <4>6
          <5> QED
            BY <4>2, <4>5, <4>6, <5>1, <5>2 DEF Fits
        <4>9. Apart(x, M, O)
          BY <4>6 DEF Apart
        <4>10. Level(z.n, M \ {side}, E) /\ Rises(n, x, k, E, z.n, side)
          <5>1. z.n \in Trees(N)
            BY <4>5 DEF MapsOf
          <5> QED
            BY <1>0, <3>9, <4>2, <4>3, <5>1, SideRises DEF side
        <4>11. PutLevel(n, x, k, E, Rebalanced(z, x, k, side).n, {x} \union M \union O)
          BY <1>0, <1>1, <2>0, <2>1, <3>7, <4>5, <4>8, <4>9, <4>10, RaisedSide DEF O
        <4> QED
          BY <4>1, <4>7, <4>11
      <3> QED
        BY <3>6, <3>7
    <2> QED
      BY <2>3, <2>4
  <1>2. FiniteSubsetsOf(N) \subseteq G
    <2>1. \A U \in FiniteSubsetsOf(N) :
            (\A Z \in FiniteSubsetsOf(N) : Z \subseteq U /\ Z # U => Z \in G) => U \in G
      BY <1>1
    <2> HIDE DEF G
    <2> QED
      BY <2>1, SetInduction
  <1>3. S \in FiniteSubsetsOf(N) /\ top \in N
    BY TreeTop DEF IsTree, FiniteSubsetsOf
  <1>4. PutLevel(n, top, k, E, p[top].n, T(S))
    BY <1>2, <1>3 DEF n
  <1> QED
    BY <1>4, InsertBelowIs DEF p, n

------------------------------------------------------------------------------
(* Depths through ml_map_remove_depth_helper.                                *)

LEMMA RemoveDepthUnfolds ==
  ASSUME NEW N, Names(N), NEW n \in Trees(N), NEW rank, Ranked(N, n, rank), NEW x \in N
  PROVE  RemoveDepth(n, x) = UpdateDepth(RemoveDepth(n, n[x].right), x)
  <1>1. x # Null
    BY NodesAre
  <1>2. RemoveDepth(n, x) = Spine(n)[x]
    BY <1>1, RemoveDepthIs
  <1>3. Spine(n)[x] = IF n[x].right = Null THEN UpdateDepth(n, x)
                      ELSE UpdateDepth(Spine(n)[n[x].right], x)
    BY SpineUnfolds
  <1>4. RemoveDepth(n, n[x].right) = IF n[x].right = Null THEN n ELSE Spine(n)[n[x].right]
    BY RemoveDepthIs
  <1> QED
    BY <1>2, <1>3, <1>4

\* The same nodes below x get the same depths.
LEMMA UpdateSame ==
  ASSUME NEW N, Names(N), NEW a \in Trees(N), NEW b \in Trees(N), NEW S \in SUBSET N, NEW x,
         IsTree(a, S, x), x # Null, \A y \in S : a[y] = b[y]
  PROVE  \A y \in S : UpdateDepth(a, x)[y] = UpdateDepth(b, x)[y]
  <1>1. x \in S /\ x \in N /\ a[x] = b[x]
    BY TreeTop
  <1>2. PICK sub : Shape(a, S, x, sub)
    BY DEF IsTree
  <1>3. a[x].left \in S \union {Null} /\ a[x].right \in S \union {Null}
    BY <1>1, <1>2 DEF Shape
  <1>4. Depth(a, a[x].left) = Depth(b, b[x].left) /\ Depth(a, a[x].right) = Depth(b, b[x].right)
    BY <1>1, <1>3 DEF Depth
  <1>5. Tall(a, x) = Tall(b, x)
    BY <1>4 DEF Tall
  <1>6. UpdateDepth(a, x) = [a EXCEPT ![x].depth = Tall(a, x)]
          /\ UpdateDepth(b, x) = [b EXCEPT ![x].depth = Tall(b, x)]
    BY DEF UpdateDepth, Tall
  <1>7. a \in [N -> Fields(N)] /\ b \in [N -> Fields(N)]
    BY DEF Trees
  <1> QED
    BY <1>1, <1>5, <1>6, <1>7

\* What happens to a tree does not depend on the nodes elsewhere.
LEMMA SpineSame ==
  ASSUME NEW N, Names(N), NEW a \in Trees(N), NEW b \in Trees(N), NEW rank, Ranked(N, a, rank),
         Ranked(N, b, rank), NEW S \in SUBSET N, NEW top, IsTree(a, S, top),
         \A y \in S : a[y] = b[y]
  PROVE  \A y \in S : RemoveDepth(a, top)[y] = RemoveDepth(b, top)[y]
  <1> DEFINE G == {U \in FiniteSubsetsOf(N) :
                     \A x \in N \union {Null} : IsTree(a, U, x) /\ (\A y \in U : a[y] = b[y])
                        => \A y \in U : RemoveDepth(a, x)[y] = RemoveDepth(b, x)[y]}
  <1>1. ASSUME NEW U \in FiniteSubsetsOf(N),
               \A W \in FiniteSubsetsOf(N) : W \subseteq U /\ W # U => W \in G,
               NEW x \in N \union {Null}, IsTree(a, U, x), \A y \in U : a[y] = b[y]
        PROVE  \A y \in U : RemoveDepth(a, x)[y] = RemoveDepth(b, x)[y]
    <2>0. U \in SUBSET N
      BY DEF FiniteSubsetsOf
    <2>1. CASE x = Null
      <3>1. U = {}
        BY <1>1, <2>1, EmptyTree
      <3> QED
        BY <3>1
    <2>2. CASE x # Null
      <3>1. PICK L \in SUBSET U, R \in SUBSET U : Parts(a, U, x, L, R)
        BY <1>1, <2>0, <2>2, Split
      <3>2. /\ x \in N /\ x \in U /\ R \in SUBSET N /\ x \notin R
            /\ a[x].right \in N \union {Null} /\ IsTree(a, R, a[x].right)
            /\ a[x] = b[x]
        <4>1. /\ x \in N /\ x \in U /\ R \in SUBSET N /\ x \notin R
              /\ a[x].right \in N \union {Null} /\ IsTree(a, R, a[x].right)
          BY <2>0, <3>1, PartsNodes
        <4> QED
          BY <1>1, <4>1
      <3>3. R \in FiniteSubsetsOf(N) /\ R # U
        <4>1. IsFiniteSet(R)
          BY <3>2 DEF IsTree
        <4> QED
          BY <3>2, <4>1 DEF FiniteSubsetsOf
      <3> DEFINE c == a[x].right
                 p == RemoveDepth(a, c)
                 q == RemoveDepth(b, c)
      <3>4. RemoveDepth(a, x) = UpdateDepth(p, x) /\ RemoveDepth(b, x) = UpdateDepth(q, x)
        <4>1. RemoveDepth(a, x) = UpdateDepth(RemoveDepth(a, a[x].right), x)
          BY <3>2, RemoveDepthUnfolds
        <4>2. RemoveDepth(b, x) = UpdateDepth(RemoveDepth(b, b[x].right), x)
          BY <3>2, RemoveDepthUnfolds
        <4> QED
          BY <3>2, <4>1, <4>2
      <3> HIDE DEF p, q, c
      <3>5. \A y \in R : p[y] = q[y]
        <4>1. R \in G
          BY <1>1, <3>3
        <4>2. \A y \in R : a[y] = b[y]
          BY <1>1
        <4> QED
          BY <3>2, <4>1, <4>2 DEF p, q, c
      <3>6. p \in Trees(N) /\ \A y \in N \ R : p[y] = a[y]
        <4>1. Rearranged(N, a, R, [n |-> p, top |-> c])
          BY <3>2, SpineTree DEF p, c
        <4> QED
          BY <4>1 DEF Rearranged
      <3>7. q \in Trees(N) /\ \A y \in N \ R : q[y] = b[y]
        <4>1. IsTree(b, R, c)
          <5>1. \A y \in R : b[y] = a[y]
            BY <1>1
          <5> QED
            BY <3>2, <5>1, KeepTree DEF c
        <4>2. Rearranged(N, b, R, [n |-> q, top |-> c])
          BY <3>2, <4>1, SpineTree DEF q
        <4> QED
          BY <4>2 DEF Rearranged
      <3>8. \A y \in U : p[y] = q[y]
        BY <1>1, <2>0, <3>5, <3>6, <3>7
      <3>9. IsTree(p, U, x)
        <4>1. Rearranged(N, a, R, [n |-> p, top |-> c])
          BY <3>2, SpineTree DEF p, c
        <4>2. IsTree(p, R, c)
          BY <4>1 DEF Rearranged
        <4>3. L \subseteq N /\ L \intersect R = {} /\ IsTree(a, L, a[x].left)
          BY <2>0, <3>1 DEF Parts
        <4>4. \A y \in L : p[y] = a[y]
          BY <3>6, <4>3
        <4>5. IsTree(p, L, a[x].left) /\ p[x] = a[x]
          BY <3>2, <3>6, <4>3, <4>4, KeepTree
        <4>6. Parts(p, U, x, L, R)
          BY <3>1, <4>2, <4>5 DEF Parts, c
        <4> QED
          BY <2>0, <3>2, <3>6, <4>6, Join
      <3>10. \A y \in U : UpdateDepth(p, x)[y] = UpdateDepth(q, x)[y]
        BY <2>0, <2>2, <3>6, <3>7, <3>8, <3>9, UpdateSame
      <3> QED
        BY <3>4, <3>10
    <2> QED
      BY <2>1, <2>2
  <1>2. FiniteSubsetsOf(N) \subseteq G
    <2>1. \A U \in FiniteSubsetsOf(N) :
            (\A W \in FiniteSubsetsOf(N) : W \subseteq U /\ W # U => W \in G) => U \in G
      BY <1>1
    <2> HIDE DEF G
    <2> QED
      BY <2>1, SetInduction
  <1>3. S \in FiniteSubsetsOf(N) /\ top \in N \union {Null}
    BY TreeTop DEF IsTree, FiniteSubsetsOf
  <1> QED
    BY <1>2, <1>3

\* Depths that are right stay.
LEMMA SpineKeeps ==
  ASSUME NEW N, Names(N), NEW n \in Trees(N), NEW rank, Ranked(N, n, rank),
         NEW S \in SUBSET N, NEW top, IsTree(n, S, top), Level(n, S, Int)
  PROVE  RemoveDepth(n, top) = n
  <1> DEFINE G == {U \in FiniteSubsetsOf(N) :
                     \A x \in N \union {Null} : IsTree(n, U, x) /\ Level(n, U, Int)
                                                  => RemoveDepth(n, x) = n}
  <1>1. ASSUME NEW U \in FiniteSubsetsOf(N),
               \A W \in FiniteSubsetsOf(N) : W \subseteq U /\ W # U => W \in G,
               NEW x \in N \union {Null}, IsTree(n, U, x), Level(n, U, Int)
        PROVE  RemoveDepth(n, x) = n
    <2>0. U \in SUBSET N
      BY DEF FiniteSubsetsOf
    <2>1. CASE x = Null
      BY <2>1, RemoveDepthIs
    <2>2. CASE x # Null
      <3>1. PICK L \in SUBSET U, R \in SUBSET U : Parts(n, U, x, L, R)
        BY <1>1, <2>0, <2>2, Split
      <3>2. /\ x \in N /\ x \in U /\ R \in SUBSET N /\ x \notin R
            /\ n[x].right \in N \union {Null} /\ IsTree(n, R, n[x].right)
            /\ n[x].left # x /\ n[x].right # x
        BY <2>0, <3>1, PartsNodes
      <3>3. R \in FiniteSubsetsOf(N) /\ R # U
        <4>1. IsFiniteSet(R)
          BY <3>2 DEF IsTree
        <4> QED
          BY <3>2, <4>1 DEF FiniteSubsetsOf
      <3>4. RemoveDepth(n, n[x].right) = n
        <4>1. R \in G
          BY <1>1, <3>3
        <4>2. Level(n, R, Int)
          BY <1>1, LevelLess
        <4> QED
          BY <3>2, <4>1, <4>2
      <3>5. RemoveDepth(n, x) = UpdateDepth(n, x)
        BY <3>2, <3>4, RemoveDepthUnfolds
      <3>6. n[x].depth = Tall(n, x)
        BY <1>1, <3>2 DEF Level
      <3> QED
        BY <3>2, <3>5, <3>6, UpdateDepthSets
    <2> QED
      BY <2>1, <2>2
  <1>2. FiniteSubsetsOf(N) \subseteq G
    <2>1. \A U \in FiniteSubsetsOf(N) :
            (\A W \in FiniteSubsetsOf(N) : W \subseteq U /\ W # U => W \in G) => U \in G
      BY <1>1
    <2> HIDE DEF G
    <2> QED
      BY <2>1, SetInduction
  <1>3. S \in FiniteSubsetsOf(N) /\ top \in N \union {Null}
    BY TreeTop DEF IsTree, FiniteSubsetsOf
  <1> QED
    BY <1>2, <1>3

\* When the last node of a tree goes, the depths of the others are set right.
Spined(S, c) == Level(RemoveDepth(c.n, c.top), S \ {c.last}, Int)

LEMMA CutSpined ==
  ASSUME NEW N, Names(N), NEW n \in Trees(N), NEW rank, Ranked(N, n, rank),
         NEW S \in SUBSET N, NEW top, IsTree(n, S, top), top # Null, Level(n, S, Int)
  PROVE  Spined(S, Cut(n)[top])
  <1> DEFINE G == {U \in FiniteSubsetsOf(N) :
                     \A x \in N : IsTree(n, U, x) /\ Level(n, U, Int) => Spined(U, Cut(n)[x])}
  <1>1. ASSUME NEW U \in FiniteSubsetsOf(N),
               \A W \in FiniteSubsetsOf(N) : W \subseteq U /\ W # U => W \in G,
               NEW x \in N, IsTree(n, U, x), Level(n, U, Int)
        PROVE  Spined(U, Cut(n)[x])
    <2>0. U \in SUBSET N /\ IsFiniteSet(U) /\ x # Null
      BY NodesAre DEF FiniteSubsetsOf
    <2>1. PICK L \in SUBSET U, R \in SUBSET U : Parts(n, U, x, L, R)
      BY <1>1, <2>0, Split
    <2>2. x \in U /\ x \notin R /\ x \notin L /\ L \intersect R = {} /\ U = {x} \union L \union R
            /\ IsTree(n, R, n[x].right) /\ IsTree(n, L, n[x].left)
            /\ (\A y \in L : KeyOf(y) < KeyOf(x)) /\ \A y \in R : KeyOf(x) < KeyOf(y)
      BY <2>1 DEF Parts
    <2>3. Level(n, L, Int) /\ Level(n, R, Int)
      BY <1>1, LevelLess
    <2>4. CASE n[x].right = Null
      <3>1. Cut(n)[x] = [n |-> n, top |-> n[x].left, last |-> x]
        BY <2>4, CutUnfolds
      <3>2. R = {} /\ U \ {x} = L
        BY <2>2, <2>4, EmptyTree
      <3>3. RemoveDepth(n, n[x].left) = n
        BY <2>0, <2>2, <2>3, SpineKeeps
      <3> QED
        BY <2>3, <3>1, <3>2, <3>3 DEF Spined
    <2>5. CASE n[x].right # Null
      <3> DEFINE r == Cut(n)[n[x].right]
                 m == r.n
                 t == r.top
                 M == R \ {r.last}
                 h == WithRight(m, x, t)
                 p == RemoveDepth(m, t)
                 q == RemoveDepth(h, t)
      <3>1. Cut(n)[x] = [n |-> h, top |-> x, last |-> r.last] /\ Cut(n)[x] \in Cuts(N, rank)
        BY <2>5, CutUnfolds
      <3>2. R \in FiniteSubsetsOf(N) /\ R # U /\ n[x].right \in N
        <4>1. IsFiniteSet(R)
          BY <2>2 DEF IsTree
        <4>2. n[x].right \in N
          BY <2>5, TreeFields
        <4> QED
          BY <2>0, <2>2, <4>1, <4>2 DEF FiniteSubsetsOf
      <3>3. r \in Cuts(N, rank)
        BY <3>2, CutUnfolds
      <3>4. Spined(R, r)
        <4>1. R \in G
          BY <1>1, <3>2
        <4> QED
          BY <2>2, <2>3, <3>2, <4>1
      <3>5. /\ r.last \in R /\ IsTree(m, M, t) /\ \A y \in N \ R : m[y] = n[y]
        <4>1. IsCut(N, n, R, r)
          BY <2>0, <2>2, <2>5, CutTree
        <4> QED
          BY <4>1 DEF IsCut
      <3>6. m \in Trees(N) /\ t \in N \union {Null} /\ Ranked(N, m, rank)
        BY <3>3 DEF Cuts
      <3>7. Level(p, M, Int)
        BY <3>4 DEF Spined
      <3>8. h \in Trees(N) /\ Ranked(N, h, rank)
        BY <3>1 DEF Cuts
      <3> HIDE DEF h, t, m, r, p, q
      <3>9. M \in SUBSET N /\ (\A y \in M : KeyOf(x) < KeyOf(y)) /\ m[x] = n[x]
              /\ \A y \in L : m[y] = n[y]
        BY <2>0, <2>2, <3>5
      <3>10. RightSet(N, m, x, t, h)
        BY <3>6, RightIs DEF h
      <3>11. h[x].right = t /\ h[x].left = n[x].left /\ h[x].depth = n[x].depth
               /\ \A y \in N \ {x} : h[y] = m[y]
        BY <3>9, <3>10 DEF RightSet
      <3>12. {x} \union L \union M = U \ {r.last} /\ r.last # x /\ x \notin M /\ L \intersect M = {}
        BY <2>0, <2>2, <3>5
      <3>13. (\A y \in M : m[y] = h[y]) /\ \A y \in L : h[y] = n[y]
        BY <2>0, <2>2, <3>9, <3>11, <3>12
      <3>14. Parts(h, {x} \union L \union M, x, L, M)
        <4> HIDE DEF M
        <4> QED
          BY <2>0, <2>1, <3>5, <3>6, <3>9, GraftRight DEF h
      <3> HIDE DEF M
      <3>15. IsTree(h, M, t)
        BY <3>11, <3>14 DEF Parts
      <3>16. \A y \in M : p[y] = q[y]
        BY <3>5, <3>6, <3>8, <3>9, <3>13, SpineSame DEF p, q
      <3>17. IsTree(p, M, t)
        <4>1. Rearranged(N, m, M, [n |-> p, top |-> t])
          BY <3>5, <3>6, <3>9, SpineTree DEF p
        <4> QED
          BY <4>1 DEF Rearranged
      <3>18. q \in Trees(N) /\ IsTree(q, M, t) /\ \A y \in N \ M : q[y] = h[y]
        <4>1. Rearranged(N, h, M, [n |-> q, top |-> t])
          BY <3>8, <3>9, <3>15, SpineTree DEF q
        <4> QED
          BY <4>1 DEF Rearranged
      <3>19. Level(q, M, Int)
        <4>1. \A y \in M : q[y] = p[y]
          BY <3>16
        <4> QED
          BY <3>7, <3>17, <4>1, KeepLevel
      <3>20. (\A y \in L : q[y] = n[y]) /\ q[x] = h[x]
        BY <2>0, <2>2, <3>12, <3>13, <3>18
      <3>21. Level(q, L, Int)
        <4>1. \A y \in L : q[y] = n[y]
          BY <3>20
        <4> QED
          BY <2>2, <2>3, <4>1, KeepLevel
      <3>22. IsTree(q, L, q[x].left)
        BY <2>2, <3>11, <3>20, KeepTree
      <3> DEFINE V == {x} \union L \union M
      <3> HIDE DEF V
      <3>23. V \in SUBSET N
        BY <2>0, <2>2, <3>9 DEF V
      <3>24. Parts(q, V, x, L, M)
        BY <3>11, <3>14, <3>18, <3>20, <3>22 DEF Parts, V
      <3>25. Balance(q, x) \in Int
        BY <3>18, Depths
      <3>26. Level(UpdateDepth(q, x), V, Int)
        BY <3>18, <3>19, <3>21, <3>23, <3>24, <3>25, LevelTop
      <3>27. RemoveDepth(h, x) = UpdateDepth(q, x)
        BY <3>8, <3>11, RemoveDepthUnfolds DEF q
      <3>28. V = U \ {r.last}
        BY <3>12 DEF V
      <3> QED
        BY <3>1, <3>26, <3>27, <3>28 DEF Spined
    <2> QED
      BY <2>4, <2>5
  <1>2. FiniteSubsetsOf(N) \subseteq G
    <2>1. \A U \in FiniteSubsetsOf(N) :
            (\A W \in FiniteSubsetsOf(N) : W \subseteq U /\ W # U => W \in G) => U \in G
      BY <1>1
    <2> HIDE DEF G
    <2> QED
      BY <2>1, SetInduction
  <1>3. S \in FiniteSubsetsOf(N) /\ top \in N
    BY TreeTop DEF IsTree, FiniteSubsetsOf
  <1> QED
    BY <1>2, <1>3

\* The node that takes the place of x stands over level sides.
LEMMA ReplacedLevel ==
  ASSUME NEW N, Names(N), NEW n \in Trees(N), NEW rank, Ranked(N, n, rank),
         NEW S \in SUBSET N, NEW x, IsTree(n, S, x), x # Null,
         n[x].left # Null, n[x].right # Null, Level(n, S \ {x}, Int)
  PROVE  LET s == WithoutTop(n, x)
         IN  Level(s.n, (S \ {x}) \ {s.top}, Int)
  <1>1. PICK L \in SUBSET S, R \in SUBSET S : Parts(n, S, x, L, R)
    BY Split
  <1>2. /\ x \in S /\ x \in N /\ x \notin L /\ x \notin R /\ S = {x} \union L \union R
        /\ L \in SUBSET N /\ R \in SUBSET N /\ L \intersect R = {}
        /\ IsTree(n, L, n[x].left) /\ IsTree(n, R, n[x].right)
    BY <1>1 DEF Parts
  <1>3. Level(n, L, Int) /\ Level(n, R, Int)
    BY <1>1, LevelSides
  <1> DEFINE c == Cut(n)[n[x].left]
             u == c.n
             t == c.top
             y == c.last
             m == RemoveDepth(u, t)
             z == n[x].right
             h == WithLeft(m, y, t)
             g == WithRight(h, y, z)
             M == L \ {y}
  <1>4. c \in Cuts(N, rank) /\ Replaced(n, x) = [n |-> g, top |-> y]
    BY <1>2, ReplacedParts
  <1>5. y \in L /\ IsTree(u, M, t) /\ \A a \in N \ L : u[a] = n[a]
    <2>1. IsCut(N, n, L, c)
      BY <1>2, CutTree
    <2> QED
      BY <2>1 DEF IsCut
  <1>6. Level(m, M, Int)
    <2>1. Spined(L, c)
      BY <1>2, <1>3, CutSpined
    <2> QED
      BY <2>1 DEF Spined
  <1>7. u \in Trees(N) /\ Ranked(N, u, rank) /\ t \in N \union {Null}
    BY <1>4 DEF Cuts
  <1>8. z \in N \union {Null} /\ IsTree(n, R, z)
    BY <1>2, TreeFields
  <1> HIDE DEF c, u, t, y, m, h, g, z
  <1>9. y \in N /\ M \in SUBSET N /\ y \notin M /\ y \notin R
    BY <1>2, <1>5
  <1> HIDE DEF M
  <1>10. m \in Trees(N) /\ IsTree(m, M, t) /\ \A a \in N \ M : m[a] = u[a]
    <2>1. Rearranged(N, u, M, [n |-> m, top |-> t])
      BY <1>5, <1>7, <1>9, SpineTree DEF m
    <2> QED
      BY <2>1 DEF Rearranged
  <1>11. h \in Trees(N) /\ \A a \in N \ {y} : h[a] = m[a]
    <2>1. LeftSet(N, m, y, t, h)
      BY <1>7, <1>9, <1>10, LeftIs DEF h
    <2> QED
      BY <2>1 DEF LeftSet
  <1>12. g \in Trees(N) /\ \A a \in N \ {y} : g[a] = h[a]
    <2>1. RightSet(N, h, y, z, g)
      BY <1>8, <1>9, <1>11, RightIs DEF g
    <2> QED
      BY <2>1 DEF RightSet
  <1>13. \A a \in M : g[a] = m[a]
    BY <1>9, <1>11, <1>12
  <1>14. \A a \in R : g[a] = n[a]
    BY <1>2, <1>5, <1>9, <1>10, <1>11, <1>12 DEF M
  <1>15. Level(g, M, Int)
    BY <1>6, <1>10, <1>13, KeepLevel
  <1>16. Level(g, R, Int)
    BY <1>3, <1>8, <1>14, KeepLevel
  <1>17. (S \ {x}) \ {y} = M \union R
    BY <1>2, <1>5, <1>9 DEF M
  <1>18. Level(g, M \union R, Int)
    BY <1>15, <1>16 DEF Level
  <1>19. WithoutTop(n, x) = [n |-> g, top |-> y]
    BY <1>4 DEF WithoutTop
  <1> QED
    BY <1>17, <1>18, <1>19

------------------------------------------------------------------------------
(* Depths through a removal.                                                 *)

LEMMA KeepSome ==
  ASSUME NEW n, NEW m, NEW S, NEW top, IsTree(n, S, top), \A y \in S : m[y] = n[y],
         NEW V \in SUBSET S, NEW E, Level(n, V, E)
  PROVE  Level(m, V, E)
  <1>1. PICK sub : Shape(n, S, top, sub)
    BY DEF IsTree
  <1>2. ASSUME NEW y \in V
        PROVE  Tall(m, y) = Tall(n, y) /\ Balance(m, y) = Balance(n, y) /\ m[y] = n[y]
    <2>1. n[y].left \in S \union {Null} /\ n[y].right \in S \union {Null} /\ m[y] = n[y]
      BY <1>1 DEF Shape
    <2>2. Depth(m, n[y].left) = Depth(n, n[y].left) /\ Depth(m, n[y].right) = Depth(n, n[y].right)
      BY <2>1 DEF Depth
    <2> QED
      BY <2>1, <2>2 DEF Tall, Balance
  <1> QED
    BY <1>2 DEF Level

\* What a removal makes of the tree below x: it is level but for its top, and if it was level
\* with x it is so with its top, and one less deep at most if it was balanced.
CutLevel(n, S, x, E, r, T) ==
  /\ Level(r.n, T \ {r.top}, E)
  /\ Level(n, S, E) => /\ Level(r.n, T, E)
                       /\ E = -1 .. 1 => Depth(r.n, r.top) \in Depth(n, x) - 1 .. Depth(n, x)

AtMostOneChild(n, x) == n[x].left = Null \/ n[x].right = Null

\* A child in the place of x.
LEMMA OneChild ==
  ASSUME NEW N, Names(N), NEW n \in Trees(N), NEW x \in N, AtMostOneChild(n, x)
  PROVE  LET s == WithoutTop(n, x)
         IN  /\ s.n = n /\ s.top \in {n[x].left, n[x].right}
             /\ Depth(n, s.top) = Tall(n, x) - 1 /\ (s.top = Null => Tall(n, x) = 1)
  <1> DEFINE t == IF n[x].left # Null THEN n[x].left ELSE n[x].right
  <1>1. WithoutTop(n, x) = [n |-> n, top |-> t]
    BY DEF WithoutTop, AtMostOneChild
  <1>2. /\ Depth(n, n[x].left) \in Nat /\ Depth(n, n[x].right) \in Nat
        /\ Tall(n, x) = 1 + Larger(Depth(n, n[x].left), Depth(n, n[x].right))
    BY SidesNat
  <1>3. Depth(n, Null) = 0
    BY DEF Depth
  <1>4. Depth(n, t) = Tall(n, x) - 1
    <2>1. CASE n[x].left = Null
      BY <1>2, <1>3, <2>1 DEF Larger
    <2>2. CASE n[x].left # Null
      <3>1. n[x].right = Null /\ t = n[x].left
        BY <2>2 DEF AtMostOneChild
      <3> QED
        BY <1>2, <1>3, <3>1 DEF Larger
    <2> QED
      BY <2>1, <2>2
  <1>5. t = Null => Tall(n, x) = 1
    BY <1>2, <1>3 DEF Larger
  <1> HIDE DEF t
  <1>6. t \in {n[x].left, n[x].right}
    BY DEF t
  <1> QED
    BY <1>1, <1>4, <1>5, <1>6

\* What is left without x, before its top is rebalanced.
Headless(n, x, E, h, U, t) ==
  /\ Level(h, U \ {t}, E)
  /\ E = -1 .. 1 => Level(h, U, E) /\ Depth(h, t) = Tall(n, x) - 1

LEMMA HeadlessIs ==
  ASSUME NEW N, Names(N), NEW n \in Trees(N), NEW rank, Ranked(N, n, rank),
         NEW S \in SUBSET N, NEW x, IsTree(n, S, x), x # Null, NEW E, Spread(E),
         Level(n, S \ {x}, E), E = -1 .. 1 => AtMostOneChild(n, x)
  PROVE  LET s == WithoutTop(n, x) IN Headless(n, x, E, s.n, S \ {x}, s.top)
  <1>1. x \in S /\ x \in N
    BY TreeTop
  <1>2. CASE AtMostOneChild(n, x)
    <2>1. WithoutTop(n, x).n = n /\ Depth(n, WithoutTop(n, x).top) = Tall(n, x) - 1
      BY <1>1, <1>2, OneChild
    <2>2. Level(n, (S \ {x}) \ {WithoutTop(n, x).top}, E)
      BY LevelLess
    <2> QED
      BY <2>1, <2>2 DEF Headless
  <1>3. CASE ~ AtMostOneChild(n, x)
    <2>1. E = Int /\ E # -1 .. 1
      BY <1>3 DEF Spread
    <2>2. n[x].left # Null /\ n[x].right # Null
      BY <1>3 DEF AtMostOneChild
    <2>3. Level(n, S \ {x}, Int)
      BY <2>1
    <2>4. Level(WithoutTop(n, x).n, (S \ {x}) \ {WithoutTop(n, x).top}, Int)
      BY <2>2, <2>3, ReplacedLevel
    <2> QED
      BY <2>1, <2>4 DEF Headless
  <1> QED
    BY <1>2, <1>3

LEMMA AtKeyLevel ==
  ASSUME NEW N, Names(N), NEW n \in Trees(N), NEW rank, Ranked(N, n, rank),
         NEW S \in SUBSET N, NEW x, IsTree(n, S, x), x # Null, NEW E, Spread(E),
         Level(n, S \ {x}, E), E = -1 .. 1 => AtMostOneChild(n, x)
  PROVE  CutLevel(n, S, x, E, AtKey(n, x), S \ {x})
  <1> DEFINE s == WithoutTop(n, x)
             m == s.n
             t == s.top
             h == [m EXCEPT ![x] = Blank]
             U == S \ {x}
             r == Settle(h, t)
  <1>1. x \in S /\ x \in N
    BY TreeTop
  <1>2. AtKey(n, x) = r
    BY DEF AtKey
  <1>3. m \in Trees(N) /\ IsTree(m, U, t)
    <2>1. IsLess(N, n, S, x, s)
      BY WithoutTopTree
    <2> QED
      BY <2>1 DEF IsLess
  <1>4. Headless(n, x, E, m, U, t)
    BY HeadlessIs
  <1> HIDE DEF m, t, r
  <1>5. h \in Trees(N) /\ \A y \in N \ {x} : h[y] = m[y]
    BY <1>3 DEF Trees, Fields, Blank
  <1> HIDE DEF h
  <1>6. \A y \in U : h[y] = m[y]
    BY <1>5
  <1>7. U \in SUBSET N
    OBVIOUS
  <1> HIDE DEF U
  <1>8. IsTree(h, U, t) /\ Depth(h, t) = Depth(m, t)
    BY <1>3, <1>6, KeepTree, KeepLevel
  <1>9. Level(h, U \ {t}, E)
    <2>1. Level(m, U \ {t}, E)
      BY <1>4 DEF Headless
    <2>2. U \ {t} \in SUBSET U
      OBVIOUS
    <2> QED
      BY <1>3, <1>6, <2>1, <2>2, KeepSome
  <1>10. E = -1 .. 1 => Level(h, U, E) /\ Depth(h, t) = Tall(n, x) - 1
    <2>1. ASSUME E = -1 .. 1
          PROVE  Level(h, U, E) /\ Depth(h, t) = Tall(n, x) - 1
      <3>1. Level(m, U, E) /\ Depth(m, t) = Tall(n, x) - 1
        BY <1>4, <2>1 DEF Headless
      <3> QED
        BY <1>3, <1>6, <1>8, <3>1, KeepLevel
    <2> QED
      BY <2>1
  <1>11. Level(n, S, E) => Depth(n, x) = Tall(n, x)
    BY <1>1 DEF Level, Depth
  <1>12. Tall(n, x) \in Nat
    BY <1>1, SidesNat
  <1>13. CASE t = Null
    <2>1. U = {} /\ r = [n |-> h, top |-> Null]
      BY <1>8, <1>13, EmptyTree DEF Settle, r
    <2>2. Level(h, {}, E) /\ {} \ {Null} = {}
      BY DEF Level
    <2>3. E = -1 .. 1 => Depth(h, Null) = Tall(n, x) - 1
      BY <1>10, <1>13
    <2>4. Level(n, S, E) /\ E = -1 .. 1 => Depth(h, Null) \in Depth(n, x) - 1 .. Depth(n, x)
      BY <1>11, <1>12, <2>3
    <2>5. CutLevel(n, S, x, E, [n |-> h, top |-> Null], {})
      BY <2>2, <2>4 DEF CutLevel
    <2> QED
      BY <1>2, <2>1, <2>5 DEF U
  <1>14. CASE t # Null
    <2>1. PICK A \in SUBSET U, B \in SUBSET U : Parts(h, U, t, A, B)
      BY <1>5, <1>7, <1>8, <1>14, Split
    <2>2. Level(h, A, E) /\ Level(h, B, E)
      BY <1>9, <2>1, LevelSides
    <2>3. t \in N /\ t \in U
      BY <1>7, <2>1, <1>5, PartsNodes
    <2>4. E = -1 .. 1 => /\ Balance(h, t) \in -1 .. 1 /\ h[t].depth = Tall(h, t)
                         /\ Tall(h, t) = Tall(n, x) - 1
      BY <1>10, <1>14, <2>3 DEF Level, Depth
    <2>5. /\ Level(r.n, U \ {r.top}, E)
          /\ (E = -1 .. 1 => Balance(h, t) \in -2 .. 2) => Evenly(h, U, t, E, r.n, r.top)
      BY <1>5, <1>7, <2>1, <2>2, SettleLevel DEF r
    <2>6. Evenly(h, U, t, E, r.n, r.top)
      BY <2>4, <2>5
    <2>7. Level(r.n, U, E)
      BY <2>6 DEF Evenly
    <2>8. E = -1 .. 1 => Depth(r.n, r.top) = Tall(n, x) - 1
      <3>1. E = -1 .. 1 => Near(h, t, Depth(r.n, r.top))
        BY <2>6 DEF Evenly
      <3> QED
        BY <2>4, <3>1 DEF Near
    <2>9. Level(n, S, E) /\ E = -1 .. 1 => Depth(r.n, r.top) \in Depth(n, x) - 1 .. Depth(n, x)
      BY <1>11, <1>12, <2>8
    <2>10. CutLevel(n, S, x, E, r, U)
      BY <2>5, <2>7, <2>9 DEF CutLevel
    <2> QED
      BY <1>2, <2>10 DEF U
  <1> QED
    BY <1>13, <1>14

\* At most the side of k is less deep in u, by one.
Lowered(n, x, k, u) ==
  /\ Depth(u, Side(u, x, k)) \in Depth(n, Side(n, x, k)) - 1 .. Depth(n, Side(n, x, k))
  /\ Depth(u, OtherSide(u, x, k)) = Depth(n, OtherSide(n, x, k))

LEMMA LoweredTop ==
  ASSUME NEW N, Names(N), NEW n \in Trees(N), NEW u \in Trees(N), NEW x \in N, NEW k,
         n[x].depth = Tall(n, x), Balance(n, x) \in -1 .. 1, Lowered(n, x, k, u)
  PROVE  /\ Balance(u, x) \in -2 .. 2
         /\ \A d : Near(u, x, d) => d \in Depth(n, x) - 1 .. Depth(n, x)
  <1> DEFINE s == Depth(n, Side(n, x, k))
             o == Depth(n, OtherSide(n, x, k))
             t == Depth(u, Side(u, x, k))
             p == Depth(u, OtherSide(u, x, k))
  <1>1. /\ s \in Nat /\ o \in Nat /\ Tall(n, x) = 1 + Larger(s, o)
        /\ Balance(n, x) \in -1 .. 1 <=> s - o \in -1 .. 1
    BY SideDepths
  <1>2. /\ t \in Nat /\ p \in Nat /\ Tall(u, x) = 1 + Larger(t, p)
        /\ Balance(u, x) \in -2 .. 2 <=> t - p \in -2 .. 2
        /\ Balance(u, x) \in {2, -2} <=> t - p \in {2, -2}
    BY SideDepths
  <1>3. t \in s - 1 .. s /\ p = o
    BY DEF Lowered
  <1>4. Depth(n, x) = Tall(n, x)
    BY NodesAre DEF Depth
  <1> HIDE DEF s, o, t, p
  <1>5. s - o \in -1 .. 1
    BY <1>1
  <1>6. t - p \in -2 .. 2
    BY <1>1, <1>3, <1>5
  <1>7. ASSUME NEW d, Near(u, x, d)
        PROVE  d \in Depth(n, x) - 1 .. Depth(n, x)
    <2>1. CASE t - p \in {2, -2}
      <3>1. d \in Tall(u, x) - 1 .. Tall(u, x)
        BY <1>2, <1>7, <2>1 DEF Near
      <3> QED
        BY <1>1, <1>2, <1>3, <1>4, <1>5, <2>1, <3>1 DEF Larger
    <2>2. CASE t - p \notin {2, -2}
      <3>1. d = Tall(u, x)
        BY <1>2, <1>7, <2>2 DEF Near
      <3> QED
        BY <1>1, <1>2, <1>3, <1>4, <1>5, <2>2, <3>1 DEF Larger
    <2> QED
      BY <2>1, <2>2
  <1> QED
    BY <1>2, <1>6, <1>7

\* One level of the removal: M below child has become of the nodes C on the side of k.
LEMMA AboveKeyLevel ==
  ASSUME NEW N, Names(N), NEW n \in Trees(N), NEW S \in SUBSET N, NEW x, NEW L, NEW R,
         Parts(n, S, x, L, R), NEW k, NEW E, Spread(E), Level(n, S \ {x}, E),
         NEW m, NEW M, NEW child, Fits(N, n, x, OtherOf(x, k, L, R), k, m, M, child),
         Apart(x, M, OtherOf(x, k, L, R)), Level(m, M, E),
         E = -1 .. 1 =>
           Depth(m, child) \in Depth(n, Side(n, x, k)) - 1 .. Depth(n, Side(n, x, k))
  PROVE  CutLevel(n, S, x, E, Settle(SetSide(m, x, k, child), x),
                  {x} \union M \union OtherOf(x, k, L, R))
  <1> DEFINE O == OtherOf(x, k, L, R)
             h == SetSide(m, x, k, child)
             r == Settle(h, x)
             T == {x} \union M \union O
  <1>1. x \in N /\ x \in S /\ x # Null
    <2>1. x \in N /\ x \in S
      BY PartsNodes
    <2> QED
      BY <2>1, NodesAre
  <1>2. /\ h \in Trees(N) /\ Level(h, O, E) /\ Level(h, M, E)
        /\ Depth(h, OtherSide(h, x, k)) = Depth(n, OtherSide(n, x, k))
        /\ Depth(h, Side(h, x, k)) = Depth(m, child)
    <2>1. Grafted(N, n, x, k, O, E, m, M, child, h)
      BY SideLevel
    <2> QED
      BY <2>1 DEF Grafted
  <1>3. IsTree(h, T, x) /\ x \notin M
    <2>1. Fitted(N, x, O, m, M, h)
      BY GraftSide
    <2> QED
      BY <2>1 DEF Fitted
  <1> HIDE DEF h, r
  <1>4. Level(h, T \ {x}, E)
    BY <1>2 DEF Level
  <1>5. T \in SUBSET N
    <2>1. M \in SUBSET N
      BY DEF Fits
    <2>2. L \in SUBSET N /\ R \in SUBSET N
      BY PartsNodes
    <2> QED
      BY <1>1, <2>1, <2>2 DEF OtherOf
  <1> HIDE DEF T, O
  <1>6. PICK A \in SUBSET T, B \in SUBSET T : Parts(h, T, x, A, B)
    BY <1>1, <1>3, <1>5, Split
  <1>7. Level(h, A, E) /\ Level(h, B, E)
    BY <1>4, <1>6, LevelSides
  <1>8. /\ Level(r.n, T \ {r.top}, E)
        /\ (E = -1 .. 1 => Balance(h, x) \in -2 .. 2) => Evenly(h, T, x, E, r.n, r.top)
    BY <1>2, <1>5, <1>6, <1>7, SettleLevel DEF r
  <1>9. ASSUME Level(n, S, E)
        PROVE  Level(r.n, T, E) /\ (E = -1 .. 1 => Depth(r.n, r.top) \in Depth(n, x) - 1 .. Depth(n, x))
    <2>1. n[x].depth = Tall(n, x) /\ Balance(n, x) \in E
      BY <1>1, <1>9 DEF Level
    <2>2. Lowered(n, x, k, h) \/ E # -1 .. 1
      BY <1>2 DEF Lowered
    <2>3. E = -1 .. 1 => /\ Balance(h, x) \in -2 .. 2
                         /\ \A d : Near(h, x, d) => d \in Depth(n, x) - 1 .. Depth(n, x)
      <3>1. ASSUME E = -1 .. 1
            PROVE  /\ Balance(h, x) \in -2 .. 2
                   /\ \A d : Near(h, x, d) => d \in Depth(n, x) - 1 .. Depth(n, x)
        <4>1. Lowered(n, x, k, h) /\ Balance(n, x) \in -1 .. 1
          BY <2>1, <2>2, <3>1
        <4> QED
          BY <1>1, <1>2, <2>1, <4>1, LoweredTop
      <3> QED
        BY <3>1
    <2>4. Evenly(h, T, x, E, r.n, r.top)
      BY <1>8, <2>3
    <2>5. Level(r.n, T, E) /\ (E = -1 .. 1 => Near(h, x, Depth(r.n, r.top)))
      BY <2>4 DEF Evenly
    <2> QED
      BY <2>3, <2>5
  <1>10. CutLevel(n, S, x, E, r, T)
    BY <1>8, <1>9 DEF CutLevel
  <1> QED
    BY <1>10 DEF r, h, T, O

\* The node of k, if there is one, has one child at most.
Few(n, S, k) == \A y \in WithKey(S, k) : AtMostOneChild(n, y)

LEMMA BelowLevel ==
  ASSUME NEW N, Names(N), NEW n \in Trees(N), NEW rank, Ranked(N, n, rank), NEW k \in Int,
         NEW S \in SUBSET N, NEW top, IsTree(n, S, top), top # Null,
         NEW E, Spread(E), Level(n, S \ {top}, E), E = -1 .. 1 => Few(n, S, k)
  PROVE  CutLevel(n, S, top, E, RemoveBelow(n, top, k), S \ WithKey(S, k))
  <1> DEFINE G == {U \in FiniteSubsetsOf(N) :
                     \A x \in N : /\ IsTree(n, U, x) /\ Level(n, U \ {x}, E)
                                  /\ E = -1 .. 1 => Few(n, U, k)
                                  => CutLevel(n, U, x, E, Below(n, k)[x], U \ WithKey(U, k))}
  <1>1. ASSUME NEW U \in FiniteSubsetsOf(N),
               \A W \in FiniteSubsetsOf(N) : W \subseteq U /\ W # U => W \in G,
               NEW x \in N, IsTree(n, U, x), Level(n, U \ {x}, E), E = -1 .. 1 => Few(n, U, k)
        PROVE  CutLevel(n, U, x, E, Below(n, k)[x], U \ WithKey(U, k))
    <2>0. U \in SUBSET N /\ IsFiniteSet(U) /\ x # Null
      BY NodesAre DEF FiniteSubsetsOf
    <2>1. PICK L \in SUBSET U, R \in SUBSET U : Parts(n, U, x, L, R)
      BY <1>1, <2>0, Split
    <2>2. x \in U
      BY <2>1 DEF Parts
    <2>3. CASE KeyOf(x) = k
      <3>1. Below(n, k)[x] = AtKey(n, x)
        BY <2>3, BelowUnfolds
      <3>2. WithKey(U, k) = {x}
        BY <2>0, <2>1, <2>2, <2>3, OtherKeys DEF WithKey
      <3>3. E = -1 .. 1 => AtMostOneChild(n, x)
        BY <1>1, <3>2 DEF Few
      <3>4. CutLevel(n, U, x, E, AtKey(n, x), U \ {x})
        BY <1>1, <2>0, <3>3, AtKeyLevel
      <3> QED
        BY <3>1, <3>2, <3>4
    <2>4. CASE KeyOf(x) # k
      <3> DEFINE C == SideOf(x, k, L, R)
                 O == OtherOf(x, k, L, R)
                 side == Side(n, x, k)
                 r == IF side = Null THEN NoSide(n) ELSE Below(n, k)[side]
                 m == r.n
                 t == r.top
                 M == C \ WithKey(C, k)
      <3>1. Below(n, k)[x] = Settle(SetSide(m, x, k, t), x)
        BY <2>4, BelowUnfolds DEF AboveKey
      <3>2. /\ IsTree(n, C, side) /\ U = {x} \union C \union O /\ x \notin C /\ x \notin O
            /\ C \intersect O = {} /\ \A y \in C : SameSide(x, k, y)
        BY <2>1, SideTree
      <3>3. \A y \in O : KeyOf(y) # k
        BY <2>0, <2>1, <2>4, OtherKeys
      <3>4. Level(n, C, E)
        BY <1>1, <3>2, LevelLess
      <3> HIDE DEF C, O, side
      <3>5. Pruned(N, n, C, k, r) /\ (E = -1 .. 1 =>
                 Depth(m, t) \in Depth(n, side) - 1 .. Depth(n, side)) /\ Level(m, M, E)
        <4>1. CASE side = Null
          <5>1. C = {} /\ r = [n |-> n, top |-> Null]
            BY <3>2, <4>1, EmptyTree DEF NoSide
          <5>2. IsTree(n, {}, Null) /\ WithKey({}, k) = {}
            BY EmptyTree DEF WithKey
          <5>3. Pruned(N, n, C, k, r)
            BY <5>1, <5>2 DEF Pruned
          <5>4. Level(m, M, E)
            BY <5>1 DEF Level
          <5>5. Depth(m, t) = 0 /\ Depth(n, side) = 0
            BY <4>1, <5>1 DEF Depth
          <5> HIDE DEF r
          <5> QED
            BY <5>3, <5>4, <5>5
        <4>2. CASE side # Null
          <5>1. C \in FiniteSubsetsOf(N) /\ C # U /\ C \in SUBSET N
            <6>1. IsFiniteSet(C)
              BY <3>2 DEF IsTree
            <6> QED
              BY <2>0, <2>2, <3>2, <6>1 DEF FiniteSubsetsOf
          <5>2. side \in N
            BY <2>0, <3>2, <4>2, TreeTop
          <5>3. C \in G
            BY <1>1, <3>2, <5>1
          <5>4. Level(n, C \ {side}, E)
            BY <3>4, LevelLess
          <5>5. E = -1 .. 1 => Few(n, C, k)
            BY <1>1, <3>2 DEF Few, WithKey
          <5>6. CutLevel(n, C, side, E, Below(n, k)[side], M)
            BY <3>2, <5>2, <5>3, <5>4, <5>5
          <5>7. Pruned(N, n, C, k, Below(n, k)[side])
            <6>1. Pruned(N, n, C, k, RemoveBelow(n, side, k))
              BY <3>2, <4>2, <5>1, BelowTree
            <6> QED
              BY <6>1, RemoveBelowIs
          <5>8. r = Below(n, k)[side]
            BY <4>2
          <5> HIDE DEF r, M
          <5>9. CutLevel(n, C, side, E, r, M)
            BY <5>6, <5>8
          <5>10. /\ Level(r.n, M, E)
                 /\ E = -1 .. 1 => Depth(r.n, r.top) \in Depth(n, side) - 1 .. Depth(n, side)
            BY <3>4, <5>9 DEF CutLevel
          <5> QED
            BY <5>7, <5>8, <5>10
        <4> QED
          BY <4>1, <4>2
      <3> HIDE DEF r
      <3>6. /\ m \in Trees(N) /\ t \in N \union {Null} /\ IsTree(m, M, t)
            /\ \A y \in N \ C : m[y] = n[y]
        BY <3>5 DEF Pruned
      <3> HIDE DEF m, t
      <3>7. /\ M \in SUBSET N /\ (\A y \in M : SameSide(x, k, y)) /\ m[x] = n[x]
            /\ (\A y \in O : m[y] = n[y]) /\ x \notin M /\ \A y \in O : y \notin M
        BY <2>0, <2>2, <3>2, <3>6
      <3>8. {x} \union M \union O = U \ WithKey(U, k)
        BY <2>0, <2>4, <3>2, <3>3 DEF WithKey
      <3> HIDE DEF M
      <3>9. Fits(N, n, x, O, k, m, M, t) /\ Apart(x, M, O)
        BY <3>6, <3>7 DEF Fits, Apart
      <3>10. CutLevel(n, U, x, E, Settle(SetSide(m, x, k, t), x), {x} \union M \union O)
        <4>1. Level(m, M, E) /\ (E = -1 .. 1 =>
                 Depth(m, t) \in Depth(n, side) - 1 .. Depth(n, side))
          BY <3>5 DEF m, t
        <4> QED
          BY <1>1, <2>0, <2>1, <3>9, <4>1, AboveKeyLevel DEF O, side
      <3> QED
        BY <3>1, <3>8, <3>10
    <2> QED
      BY <2>3, <2>4
  <1>2. FiniteSubsetsOf(N) \subseteq G
    <2>1. \A U \in FiniteSubsetsOf(N) :
            (\A W \in FiniteSubsetsOf(N) : W \subseteq U /\ W # U => W \in G) => U \in G
      BY <1>1
    <2> HIDE DEF G
    <2> QED
      BY <2>1, SetInduction
  <1>3. S \in FiniteSubsetsOf(N) /\ top \in N
    BY TreeTop DEF IsTree, FiniteSubsetsOf
  <1>4. CutLevel(n, S, top, E, Below(n, k)[top], S \ WithKey(S, k))
    BY <1>2, <1>3
  <1> QED
    BY <1>4, RemoveBelowIs
==============================================================================
