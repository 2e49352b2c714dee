-------------------------- MODULE OptimizerNesting --------------------------
(***************************************************************************)
(* Theorems about RegexGraphOptimizer: what calls, looks and groups keep   *)
(* apart in the graph that is optimized stays apart, and what its matchers *)
(* rely on being stored first stays stored first.                          *)
(***************************************************************************)
EXTENDS OptimizerProofs

-----------------------------------------------------------------------------
(***************************************************************************)
(* The bodies of subroutines are the least set that has each               *)
(* SubroutineLeave and what leads on to it.                                *)
(***************************************************************************)
Leaves(g) == { p \in DOMAIN g.node : g.node[p].kind = "SubroutineLeave" }

\* What is in T or goes on with a node of T.
LeadingTo(g, T) == { p \in DOMAIN g.node : ContinuationsOf(g.node[p]) \cap T # {} }

\* BodyNodes, step by step.
LEMMA BodySteps ==
  ASSUME NEW g, Shaped(g)
  PROVE  LET N == Cardinality(DOMAIN g.node) IN
         /\ N \in Nat
         /\ \E f \in [0..N -> SUBSET DOMAIN g.node] :
              /\ f[0] = Leaves(g)
              /\ \A n \in 1..N : f[n] = f[n - 1] \cup LeadingTo(g, f[n - 1])
              /\ BodyNodes(g) = f[N]
<1> DEFINE N == Cardinality(DOMAIN g.node)
           V == SUBSET DOMAIN g.node
           more(T) == T \cup { q \in DOMAIN g.node : ContinuationsOf(g.node[q]) \cap T # {} }
           start == { q \in DOMAIN g.node : g.node[q].kind = "SubroutineLeave" }
           step == [k \in 1..N |-> [T \in V |-> more(T)]]
           F[k \in 0..N] == IF k = 0 THEN start ELSE more(F[k - 1])
<1>1. N \in Nat
  BY FS_CardinalityType DEF Shaped
<1>2. start \in V /\ \A T \in V : more(T) \in V
  OBVIOUS
<1>3. IsSteps(step, N, V)
  <2> HIDE DEF more, V, N
  <2> QED
    BY <1>1, <1>2 DEF IsSteps
<1>4. \A k \in 1..N : \A T \in V : step[k][T] = more(T)
  <2> HIDE DEF more, V, N
  <2> QED
    OBVIOUS
<1>5. \A T : more(T) = T \cup LeadingTo(g, T)
  BY DEF LeadingTo
<1>6. start = Leaves(g)
  BY DEF Leaves
<1> HIDE DEF step, V, N, more, start
<1>7. PICK f \in [0..N -> V] : Recurs(f, N, start, step)
  BY <1>2, <1>3, RecursionExists
<1>8. \A k \in 1..N : k - 1 \in 0..N /\ f[k - 1] \in V /\ f[k] = more(f[k - 1])
  <2> TAKE k \in 1..N
  <2>1. k - 1 \in 0..N
    BY <1>1
  <2>2. f[k - 1] \in V
    BY <1>7, <2>1
  <2> QED
    BY <1>4, <1>7, <2>1, <2>2 DEF Recurs
<1>9. f = [k \in 0..N |-> IF k = 0 THEN start ELSE more(f[k - 1])]
  <2>1. \A k \in 0..N : k # 0 => f[k] = more(f[k - 1])
    <3> TAKE k \in 0..N
    <3>1. k # 0 => k \in 1..N
      BY <1>1
    <3> QED
      BY <1>8, <3>1
  <2> QED
    BY <1>7, <2>1 DEF Recurs
<1>10. BodyNodes(g) = F[N]
  BY DEF BodyNodes, N, more, start
<1>11. F = [k \in 0..N |-> IF k = 0 THEN start ELSE more(F[k - 1])]
  BY <1>9
<1> HIDE DEF F
<1>12. F[N] = f[N]
  <2> DEFINE G == { n \in 0..N : F[n] = f[n] }
  <2>1. 0 \in G
    BY <1>1, <1>9, <1>11
  <2>2. \A n \in 1..N : n - 1 \in G => n \in G
    BY <1>1, <1>9, <1>11
  <2> HIDE DEF G
  <2>3. 0..N \subseteq G
    BY <1>1, <2>1, <2>2, StepByStep
  <2> QED
    BY <1>1, <2>3 DEF G
<1>13. /\ f[0] = Leaves(g)
       /\ \A n \in 1..N : f[n] = f[n - 1] \cup LeadingTo(g, f[n - 1])
       /\ BodyNodes(g) = f[N]
  BY <1>5, <1>6, <1>7, <1>8, <1>10, <1>12 DEF Recurs
<1> QED
  BY <1>1, <1>7, <1>13 DEF N, V

\* Every set with the SubroutineLeaves and all that leads to it has the bodies.
LEMMA BodyLeast ==
  ASSUME NEW g, Shaped(g), NEW T, Leaves(g) \subseteq T,
         \A p \in DOMAIN g.node : ContinuationsOf(g.node[p]) \cap T # {} => p \in T
  PROVE  BodyNodes(g) \subseteq T
<1> DEFINE N == Cardinality(DOMAIN g.node)
<1>1. N \in Nat
  BY FS_CardinalityType DEF Shaped
<1>2. PICK f \in [0..N -> SUBSET DOMAIN g.node] :
        /\ f[0] = Leaves(g)
        /\ \A n \in 1..N : f[n] = f[n - 1] \cup LeadingTo(g, f[n - 1])
        /\ BodyNodes(g) = f[N]
  BY BodySteps
<1> HIDE DEF N
<1> DEFINE G == { n \in 0..N : f[n] \subseteq T }
<1>3. 0 \in G
  BY <1>1, <1>2
<1>4. \A n \in 1..N : n - 1 \in G => n \in G
  <2> SUFFICES ASSUME NEW n \in 1..N, n - 1 \in G
               PROVE  n \in G
    OBVIOUS
  <2>1. f[n] = f[n - 1] \cup LeadingTo(g, f[n - 1]) /\ f[n - 1] \subseteq T
    BY <1>2
  <2>2. LeadingTo(g, f[n - 1]) \subseteq T
    BY <2>1 DEF LeadingTo
  <2>3. n \in 0..N
    BY <1>1
  <2> QED
    BY <2>1, <2>2, <2>3
<1> HIDE DEF G
<1>5. 0..N \subseteq G
  BY <1>1, <1>3, <1>4, StepByStep
<1> QED
  BY <1>1, <1>2, <1>5 DEF G

\* The bodies are such a set: as many steps as there are nodes are enough.
LEMMA BodyClosed ==
  ASSUME NEW g, Shaped(g)
  PROVE  /\ BodyNodes(g) \subseteq DOMAIN g.node
         /\ Leaves(g) \subseteq BodyNodes(g)
         /\ LeadingTo(g, BodyNodes(g)) \subseteq BodyNodes(g)
<1> DEFINE N == Cardinality(DOMAIN g.node)
<1>1. N \in Nat /\ IsFiniteSet(DOMAIN g.node)
  BY FS_CardinalityType DEF Shaped
<1>2. PICK f \in [0..N -> SUBSET DOMAIN g.node] :
        /\ f[0] = Leaves(g)
        /\ \A n \in 1..N : f[n] = f[n - 1] \cup LeadingTo(g, f[n - 1])
        /\ BodyNodes(g) = f[N]
  BY BodySteps
<1> DEFINE Closed(n) == LeadingTo(g, f[n]) \subseteq f[n]
           G == { n \in 0..N : /\ Leaves(g) \subseteq f[n]
                               /\ Closed(n) \/ Cardinality(f[n]) >= n }
<1>3. \A n \in 0..N : /\ f[n] \subseteq DOMAIN g.node
                      /\ IsFiniteSet(f[n]) /\ Cardinality(f[n]) \in Nat
  <2> TAKE n \in 0..N
  <2>1. f[n] \subseteq DOMAIN g.node
    BY <1>2
  <2> QED
    BY <1>1, <2>1, FS_Subset, FS_CardinalityType
<1>4. N \in 0..N /\ 0 \in 0..N
  <2> HIDE DEF N
  <2> QED
    BY <1>1
<1>5. 0 \in G
  BY <1>2, <1>3, <1>4
<1>6. \A n \in 1..N : n - 1 \in G => n \in G
  <2> SUFFICES ASSUME NEW n \in 1..N, n - 1 \in G
               PROVE  n \in G
    OBVIOUS
  <2>1. f[n] = f[n - 1] \cup LeadingTo(g, f[n - 1]) /\ Leaves(g) \subseteq f[n - 1]
    BY <1>2
  <2>2. n \in 0..N /\ n \in Int /\ n - 1 \in 0..N
    BY <1>1
  <2>3. CASE Closed(n - 1)
    <3>1. f[n] = f[n - 1]
      BY <2>1, <2>3
    <3> QED
      BY <2>1, <2>2, <2>3, <3>1
  <2>4. CASE ~Closed(n - 1)
    <3>1. Cardinality(f[n - 1]) >= n - 1
      BY <2>4
    <3>2. f[n - 1] \subseteq f[n] /\ f[n - 1] # f[n]
      BY <2>1, <2>4
    <3>3. Cardinality(f[n - 1]) < Cardinality(f[n])
      BY <1>3, <2>2, <3>2, FS_Subset
    <3>4. Cardinality(f[n]) >= n
      BY <1>3, <2>2, <3>1, <3>3
    <3> QED
      BY <2>1, <2>2, <3>4
  <2> QED
    BY <2>3, <2>4
<1> HIDE DEF G
<1>7. 0..N \subseteq G
  <2> HIDE DEF N
  <2> QED
    BY <1>1, <1>5, <1>6, StepByStep
<1>8. Leaves(g) \subseteq f[N] /\ (Closed(N) \/ Cardinality(f[N]) >= N)
  BY <1>4, <1>7 DEF G
<1>9. Closed(N)
  <2> SUFFICES ASSUME Cardinality(f[N]) >= N
               PROVE  Closed(N)
    BY <1>8
  <2>1. f[N] = DOMAIN g.node
    <3> SUFFICES ASSUME f[N] # DOMAIN g.node
                 PROVE  FALSE
      OBVIOUS
    <3>1. f[N] \subseteq DOMAIN g.node /\ Cardinality(f[N]) \in Nat
      BY <1>3, <1>4
    <3>2. Cardinality(f[N]) < N
      BY <1>1, <3>1, FS_Subset
    <3> HIDE DEF N
    <3> QED
      BY <1>1, <3>1, <3>2
  <2> QED
    BY <2>1 DEF LeadingTo
<1> QED
  BY <1>2, <1>3, <1>4, <1>8, <1>9

\* A body goes on in the body until it leaves.
LEMMA BodyUnfolds ==
  ASSUME NEW g, Shaped(g), NEW p \in BodyNodes(g)
  PROVE  p \in Leaves(g) \cup LeadingTo(g, BodyNodes(g))
<1> DEFINE R == BodyNodes(g)
           T == Leaves(g) \cup LeadingTo(g, R)
<1>1. T \subseteq R
  BY BodyClosed
<1>2. \A q \in DOMAIN g.node : ContinuationsOf(g.node[q]) \cap T # {} => q \in T
  <2> HIDE DEF R
  <2> QED
    BY <1>1 DEF LeadingTo
<1>3. R \subseteq T
  <2> HIDE DEF T
  <2>1. Leaves(g) \subseteq T
    BY DEF T
  <2> QED
    BY <1>2, <2>1, BodyLeast
<1> QED
  BY <1>3
-----------------------------------------------------------------------------
(***************************************************************************)
(* What an optimization puts in the place of a node.                       *)
(***************************************************************************)
\* Where p goes on to, and where simple nodes there go on to.
Onward(g, p) ==
  LET near == ContinuationsOf(g.node[p])
  IN near \cup { g.node[b].next : b \in { c \in near : KindAt(g, c) \in SimpleKinds } }

\* Of the nodes written, those of own go on where p went; the others are copies
\* of simple nodes, graphs of their own.
Stands(g, p, nodes, own) ==
  /\ g.node[p].kind \in SimpleKinds \cup {"Alternatives"}
  /\ own \subseteq DOMAIN nodes /\ p \in own
  /\ \A q \in own :
       /\ nodes[q].kind \in {"String", "Alternatives", "AlternativesPossessive",
                             "SingleRollbackPointSequence", "FixedLengthElementSequence"}
       /\ ContinuationsOf(nodes[q]) \subseteq own \cup Onward(g, p)
       /\ SubgraphsOf(nodes[q]) \subseteq DOMAIN nodes \ own
  /\ \A q \in DOMAIN nodes \ own : nodes[q].kind \in SimpleKinds /\ nodes[q].next = nullptr

\* R has what leads to it of the nodes written, and what simple nodes go on to.
Follows(g, p, nodes, R) ==
  /\ \A q \in DOMAIN nodes : ContinuationsOf(nodes[q]) \cap R # {} => q \in R
  /\ \A b \in ContinuationsOf(g.node[p]) \cap R :
       b # p /\ KindAt(g, b) \in SimpleKinds => g.node[b].next \in R

\* The nodes of own lead where p has led, and nowhere else.
Replaces(g, p, nodes, own) ==
  /\ Stands(g, p, nodes, own)
  /\ \A R : Follows(g, p, nodes, R) =>
       /\ ContinuationsOf(g.node[p]) \cap R # {} => p \in R
       /\ Onward(g, p) \subseteq R => own \subseteq R

LEMMA SimpleContinues ==
  ASSUME NEW n, n.kind \in SimpleKinds
  PROVE  ContinuationsOf(n) = {n.next} /\ SubgraphsOf(n) = {} /\ SubroutinesOf(n) = {}
BY DEF SimpleKinds, ContinuationsOf, SubgraphsOf, SubroutinesOf, LookKinds, LoopKinds

LEMMA JoinsReplaces ==
  ASSUME NEW g, GraphOK(g), NEW p \in DOMAIN g.node, NEW nodes, Joins(g, p, nodes)
  PROVE  Replaces(g, p, nodes, {p})
<1> DEFINE b == g.node[p].next
<1>1. PICK s \in Seq(Byte) : nodes = NodeAt(p, StringNode(s, g.node[b].next))
  BY DEF Joins
<1> DEFINE n == StringNode(s, g.node[b].next)
<1>2. n.kind = "String" /\ n.next = g.node[b].next
  BY DEF StringNode
<1>3. KindAt(g, p) \in SimpleKinds /\ KindAt(g, b) \in SimpleKinds
  BY DEF Joins, IsText, SimpleKinds
<1>4. g.node[p].kind \in SimpleKinds
  BY <1>3 DEF KindAt, GraphOK
<1> HIDE DEF n
<1>5. DOMAIN nodes = {p} /\ nodes[p] = n
  BY <1>1 DEF NodeAt, n
<1>6. ContinuationsOf(n) = {g.node[b].next} /\ SubgraphsOf(n) = {}
  BY <1>2, SimpleContinues DEF SimpleKinds
<1>7. ContinuationsOf(g.node[p]) = {b}
  BY <1>4, SimpleContinues DEF b
<1> HIDE DEF b
<1>8. g.node[b].next \in Onward(g, p)
  BY <1>3, <1>7 DEF Onward
<1>9. Stands(g, p, nodes, {p})
  BY <1>2, <1>4, <1>5, <1>6, <1>8 DEF Stands
<1>10. ASSUME NEW R, Follows(g, p, nodes, R)
       PROVE  /\ ContinuationsOf(g.node[p]) \cap R # {} => p \in R
              /\ Onward(g, p) \subseteq R => {p} \subseteq R
  <2>1. g.node[b].next \in R => p \in R
    BY <1>5, <1>6, <1>10 DEF Follows
  <2>2. b \in R => g.node[b].next \in R \/ p \in R
    BY <1>3, <1>7, <1>10 DEF Follows
  <2> QED
    BY <1>7, <1>8, <2>1, <2>2
<1> QED
  BY <1>9, <1>10 DEF Replaces

\* What is written for a choice of two: a node that goes on to the second branch,
\* and perhaps to what follows the first, and a copy of the first.
Copies(g, p, n, nodes) ==
  LET first  == g.node[p].next[1]
      second == g.node[p].next[2]
      after  == g.node[first].next
  IN /\ g.node[p].kind = "Alternatives" /\ Len(g.node[p].next) = 2
     /\ KindAt(g, first) \in SimpleKinds
     /\ n.kind \in {"AlternativesPossessive", "SingleRollbackPointSequence",
                    "FixedLengthElementSequence"}
     /\ SubgraphsOf(n) = {New(p, 1)}
     /\ \/ ContinuationsOf(n) = {after, second}
        \/ ContinuationsOf(n) = {second} /\ after = p
     /\ nodes = Over(NodeAt(p, n), NodeAt(New(p, 1), CutOff(g.node[first])))

LEMMA CopyReplaces ==
  ASSUME NEW g, GraphOK(g), Shaped(g), NEW p \in DOMAIN g.node, NEW n, NEW nodes,
         Copies(g, p, n, nodes)
  PROVE  Replaces(g, p, nodes, {p})
<1> DEFINE first  == g.node[p].next[1]
           second == g.node[p].next[2]
           after  == g.node[first].next
           copy   == CutOff(g.node[first])
<1>0. /\ g.node[p].kind = "Alternatives" /\ Len(g.node[p].next) = 2
      /\ KindAt(g, first) \in SimpleKinds
      /\ n.kind \in {"AlternativesPossessive", "SingleRollbackPointSequence",
                     "FixedLengthElementSequence"}
      /\ SubgraphsOf(n) = {New(p, 1)}
      /\ \/ ContinuationsOf(n) = {after, second}
         \/ ContinuationsOf(n) = {second} /\ after = p
      /\ nodes = Over(NodeAt(p, n), NodeAt(New(p, 1), copy))
  BY DEF Copies
<1>1. first # nullptr /\ first \in DOMAIN g.node /\ g.node[first].kind \in SimpleKinds
  <2>1. first \in PtrOf(g)
    <3>1. 1 \in 1..Len(g.node[p].next)
      BY <1>0
    <3> QED
      BY <1>0, <3>1, ChoiceBranches
  <2>2. first # nullptr
    BY <1>0 DEF KindAt, SimpleKinds
  <2> QED
    BY <1>0, <2>1, <2>2 DEF PtrOf, KindAt
<1>2. copy.kind \in SimpleKinds /\ copy.next = nullptr
  <2> DEFINE Ptr == {nullptr}
             Ids == {}
  <2>1. nullptr \in Ptr
    OBVIOUS
  <2>2. g.node[first] \in SimpleNodes
    BY <1>1 DEF Shaped
  <2> HIDE DEF Ptr, Ids, first
  <2> QED
    BY <2>1, <2>2, CutOffOK
<1>3. ContinuationsOf(g.node[p]) = {first, second}
  <2>1. /\ Len(g.node[p].next) \in Nat
        /\ DOMAIN g.node[p].next = 1..Len(g.node[p].next)
    BY <1>0, ChoiceBranches
  <2>2. DOMAIN g.node[p].next = {1, 2}
    BY <1>0, <2>1
  <2> QED
    BY <1>0, <2>2 DEF ContinuationsOf, ToSet
<1>4. first # p
  BY <1>0, <1>1 DEF SimpleKinds
<1>5. New(p, 1) # p
  <2>1. 1 \in Int /\ p \in Seq(Int)
    BY DEF Shaped
  <2> QED
    BY <2>1, NewPointer
<1> HIDE DEF first, second, copy
<1>6. DOMAIN nodes = {p, New(p, 1)} /\ nodes[p] = n /\ nodes[New(p, 1)] = copy
  BY <1>0, <1>5 DEF Over, NodeAt
<1>7. KindAt(g, first) \in SimpleKinds
  BY <1>1 DEF KindAt
<1>8. after \in Onward(g, p) /\ second \in Onward(g, p)
  BY <1>3, <1>7 DEF Onward
<1>9. \/ ContinuationsOf(n) = {after, second}
      \/ ContinuationsOf(n) = {second} /\ after = p
  BY <1>0
<1> HIDE DEF after
<1>10. Stands(g, p, nodes, {p})
  BY <1>0, <1>2, <1>5, <1>6, <1>8, <1>9 DEF Stands
<1>11. ASSUME NEW R, Follows(g, p, nodes, R)
       PROVE  /\ ContinuationsOf(g.node[p]) \cap R # {} => p \in R
              /\ Onward(g, p) \subseteq R => {p} \subseteq R
  <2>1. ContinuationsOf(n) \cap R # {} => p \in R
    BY <1>6, <1>11 DEF Follows
  <2>2. first \in R => after \in R
    BY <1>3, <1>4, <1>7, <1>11 DEF Follows, after
  <2> QED
    BY <1>3, <1>8, <1>9, <2>1, <2>2
<1> QED
  BY <1>10, <1>11 DEF Replaces

\* A choice of texts: the new text goes on to the new choice, its branches to
\* their rests or to what followed them.
LEMMA SplitsReplaces ==
  ASSUME NEW g, GraphOK(g), Shaped(g), NEW p \in DOMAIN g.node, NEW nodes, Splits(g, p, nodes)
  PROVE  Replaces(g, p, nodes, DOMAIN nodes)
<1> DEFINE branches == g.node[p].next
           N        == Len(branches)
           choice   == New(p, 0)
           after(j) == g.node[branches[j]].next
<1>1. PICK R, parts : SplitNodes(g, p, nodes, R, parts)
  BY SplitsNodes
<1>2. /\ g.node[p].kind = "Alternatives" /\ N \in Nat /\ DOMAIN branches = 1..N /\ 1 \in 1..N
      /\ \A j \in 1..N : branches[j] \in PtrOf(g) /\ IsText(g, branches[j])
  <2>1. g.node[p].kind = "Alternatives" /\ branches # <<>>
    BY DEF Splits
  <2>2. branches \in Seq(PtrOf(g)) /\ N \in Nat /\ DOMAIN branches = 1..N
    BY <2>1, ChoiceBranches
  <2>3. N # 0
    BY <2>1, <2>2
  <2> QED
    BY <2>1, <2>2, <2>3 DEF Splits
<1>3. \A j \in 1..N : KindAt(g, branches[j]) \in SimpleKinds /\ branches[j] # p
  BY <1>2 DEF IsText, KindAt, SimpleKinds
<1>4. /\ DOMAIN nodes = {p, choice} \cup R
      /\ p \notin R /\ choice \notin R /\ p # choice
      /\ \A q \in R : \E j \in 1..N : q = New(p, j)
      /\ nodes[p].kind = "String" /\ nodes[p].next = choice
      /\ nodes[choice].kind = "Alternatives" /\ nodes[choice].next = parts
      /\ DOMAIN parts = 1..N
      /\ \A j \in 1..N : /\ New(p, j) \in R =>
                              /\ nodes[New(p, j)].kind = "String"
                              /\ nodes[New(p, j)].next = after(j)
                              /\ parts[j] = New(p, j)
                         /\ New(p, j) \notin R => parts[j] = after(j)
  <2>1. \A t, q : StringNode(t, q).kind = "String" /\ StringNode(t, q).next = q
    BY DEF StringNode
  <2>2. /\ DOMAIN nodes = {p, choice} \cup R
        /\ p \notin R /\ choice \notin R /\ p # choice
        /\ \A q \in R : \E j \in 1..N : q = New(p, j)
        /\ nodes[choice] = [kind |-> "Alternatives", next |-> parts]
    BY <1>1, <1>2 DEF SplitNodes
  <2>3. nodes[p].kind = "String" /\ nodes[p].next = choice
    BY <1>1, <2>1 DEF SplitNodes
  <2>4. DOMAIN parts = 1..N
    BY <1>1, <1>2 DEF SplitNodes
  <2>5. \A j \in 1..N : parts[j] = IF New(p, j) \in R THEN New(p, j) ELSE after(j)
    BY <1>1, <1>2 DEF SplitNodes
  <2>6. \A j \in 1..N : New(p, j) \in R =>
          nodes[New(p, j)].kind = "String" /\ nodes[New(p, j)].next = after(j)
    BY <1>1, <1>2, <2>1 DEF SplitNodes
  <2> HIDE DEF choice, branches, N, after
  <2> QED
    BY <2>2, <2>3, <2>4, <2>5, <2>6
<1> HIDE DEF choice
<1>5. ContinuationsOf(g.node[p]) = { branches[j] : j \in 1..N }
  BY <1>2 DEF ContinuationsOf, ToSet
<1>6. \A j \in 1..N : after(j) \in Onward(g, p)
  <2> TAKE j \in 1..N
  <2>1. branches[j] \in ContinuationsOf(g.node[p])
    BY <1>5
  <2> HIDE DEF branches
  <2> QED
    BY <1>3, <2>1 DEF Onward
<1> HIDE DEF branches, N, after
<1>7. ContinuationsOf(nodes[p]) = {choice} /\ SubgraphsOf(nodes[p]) = {}
  BY <1>4, SimpleContinues DEF SimpleKinds
<1>8. ContinuationsOf(nodes[choice]) = { parts[j] : j \in 1..N } /\ SubgraphsOf(nodes[choice]) = {}
  BY <1>4 DEF ContinuationsOf, SubgraphsOf, ToSet, LookKinds, LoopKinds
<1>9. \A j \in 1..N : New(p, j) \in R =>
        ContinuationsOf(nodes[New(p, j)]) = {after(j)} /\ SubgraphsOf(nodes[New(p, j)]) = {}
  BY <1>4, SimpleContinues DEF SimpleKinds
<1>10. \A j \in 1..N : parts[j] \in R \cup Onward(g, p)
  BY <1>4, <1>6
<1>11. Stands(g, p, nodes, DOMAIN nodes)
  <2>1. ASSUME NEW q \in DOMAIN nodes
        PROVE  /\ nodes[q].kind \in {"String", "Alternatives"}
               /\ ContinuationsOf(nodes[q]) \subseteq DOMAIN nodes \cup Onward(g, p)
               /\ SubgraphsOf(nodes[q]) = {}
    <3>1. CASE q = p
      BY <1>4, <1>7, <3>1
    <3>2. CASE q = choice
      BY <1>4, <1>8, <1>10, <3>2
    <3>3. CASE q \in R
      <4>1. PICK j \in 1..N : q = New(p, j)
        BY <1>4, <3>3
      <4> QED
        BY <1>4, <1>6, <1>9, <3>3, <4>1
    <3> QED
      BY <1>4, <2>1, <3>1, <3>2, <3>3
  <2> QED
    BY <1>2, <1>4, <2>1 DEF Stands
<1>12. ASSUME NEW S, Follows(g, p, nodes, S)
       PROVE  /\ ContinuationsOf(g.node[p]) \cap S # {} => p \in S
              /\ Onward(g, p) \subseteq S => DOMAIN nodes \subseteq S
  <2>1. choice \in S => p \in S
    BY <1>4, <1>7, <1>12 DEF Follows
  <2>2. \A j \in 1..N : parts[j] \in S => choice \in S
    BY <1>4, <1>8, <1>12 DEF Follows
  <2>3. \A j \in 1..N : New(p, j) \in R /\ after(j) \in S => New(p, j) \in S
    BY <1>4, <1>9, <1>12 DEF Follows
  <2>4. \A j \in 1..N : after(j) \in S => choice \in S
    BY <1>4, <2>2, <2>3
  <2>5. ASSUME ContinuationsOf(g.node[p]) \cap S # {}
        PROVE  p \in S
    <3>1. PICK j \in 1..N : branches[j] \in S
      BY <1>5, <2>5
    <3>2. branches[j] \in ContinuationsOf(g.node[p])
      BY <1>5
    <3>3. after(j) \in S
      BY <1>3, <1>12, <3>1, <3>2 DEF Follows, after
    <3> QED
      BY <2>1, <2>4, <3>3
  <2>6. ASSUME Onward(g, p) \subseteq S
        PROVE  DOMAIN nodes \subseteq S
    <3>1. \A j \in 1..N : after(j) \in S
      BY <1>6, <2>6
    <3>2. choice \in S /\ p \in S
      BY <1>2, <2>1, <2>4, <3>1
    <3>3. R \subseteq S
      BY <1>4, <2>3, <3>1
    <3> QED
      BY <1>4, <3>2, <3>3
  <2> QED
    BY <2>5, <2>6
<1> QED
  BY <1>11, <1>12 DEF Replaces

LEMMA FormsReplace ==
  ASSUME NEW g, GraphOK(g), Shaped(g), NEW p \in DOMAIN g.node, NEW nodes, Forms(g, p, nodes)
  PROVE  nodes = Unchanged \/ \E own : Replaces(g, p, nodes, own)
<1> DEFINE first  == g.node[p].next[1]
           second == g.node[p].next[2]
<1>1. CASE Joins(g, p, nodes)
  BY <1>1, JoinsReplaces
<1>2. CASE Splits(g, p, nodes)
  BY <1>2, SplitsReplaces
<1>3. CASE Keeps(g, p, nodes)
  <2> DEFINE n == [kind |-> "AlternativesPossessive", path0_element |-> New(p, 1),
                   path0_next |-> g.node[first].next, path1_next |-> second]
  <2>1. /\ n.kind = "AlternativesPossessive"
        /\ ContinuationsOf(n) = {g.node[first].next, second} /\ SubgraphsOf(n) = {New(p, 1)}
    <3>1. /\ n.kind = "AlternativesPossessive" /\ n.path0_element = New(p, 1)
          /\ n.path0_next = g.node[first].next /\ n.path1_next = second
      OBVIOUS
    <3> HIDE DEF n
    <3> QED
      BY <3>1 DEF ContinuationsOf, SubgraphsOf, LookKinds, LoopKinds
  <2>2. /\ g.node[p].kind = "Alternatives" /\ Len(g.node[p].next) = 2
        /\ KindAt(g, first) \in SimpleKinds
        /\ nodes = Over(NodeAt(p, n), NodeAt(New(p, 1), CutOff(g.node[first])))
    BY <1>3 DEF Keeps
  <2> HIDE DEF n
  <2>3. Copies(g, p, n, nodes)
    BY <2>1, <2>2 DEF Copies
  <2> QED
    BY <2>3, CopyReplaces
<1>4. ASSUME IsSimpleLoop(g, p), NEW n,
             n.kind \in {"SingleRollbackPointSequence", "FixedLengthElementSequence"},
             n.next = second, n.sequence_element = New(p, 1),
             nodes = Over(NodeAt(p, n), LoopElement(g, p))
      PROVE  Replaces(g, p, nodes, {p})
  <2>1. ContinuationsOf(n) = {second} /\ SubgraphsOf(n) = {New(p, 1)}
    BY <1>4 DEF ContinuationsOf, SubgraphsOf, LookKinds, LoopKinds
  <2>2. /\ g.node[p].kind = "Alternatives" /\ Len(g.node[p].next) = 2
        /\ KindAt(g, first) \in SimpleKinds /\ g.node[first].next = p
    BY <1>4 DEF IsSimpleLoop
  <2>3. nodes = Over(NodeAt(p, n), NodeAt(New(p, 1), CutOff(g.node[first])))
    BY <1>4 DEF LoopElement
  <2>4. n.kind \in {"AlternativesPossessive", "SingleRollbackPointSequence",
                   "FixedLengthElementSequence"}
    BY <1>4
  <2>5. Copies(g, p, n, nodes)
    BY <2>1, <2>2, <2>3, <2>4 DEF Copies
  <2> QED
    BY <2>5, CopyReplaces
<1>5. CASE Rolls(g, p, nodes)
  <2> DEFINE n == [kind |-> "SingleRollbackPointSequence", next |-> second,
                   sequence_element |-> New(p, 1)]
  <2>1. /\ n.kind = "SingleRollbackPointSequence"
        /\ n.next = second /\ n.sequence_element = New(p, 1)
    OBVIOUS
  <2>2. IsSimpleLoop(g, p) /\ nodes = Over(NodeAt(p, n), LoopElement(g, p))
    BY <1>5 DEF Rolls
  <2> HIDE DEF n
  <2> QED
    BY <1>4, <2>1, <2>2
<1>6. CASE Measures(g, p, nodes)
  <2>1. PICK length \in ElementLength(g, first) :
          nodes = Over(NodeAt(p, [kind |-> "FixedLengthElementSequence", next |-> second,
                                  sequence_element |-> New(p, 1), min_elements |-> 0,
                                  max_elements |-> SizeMax, element_length |-> length]),
                       LoopElement(g, p))
    BY <1>6 DEF Measures
  <2> DEFINE n == [kind |-> "FixedLengthElementSequence", next |-> second,
                   sequence_element |-> New(p, 1), min_elements |-> 0,
                   max_elements |-> SizeMax, element_length |-> length]
  <2>2. /\ n.kind = "FixedLengthElementSequence"
        /\ n.next = second /\ n.sequence_element = New(p, 1)
    OBVIOUS
  <2>3. IsSimpleLoop(g, p) /\ nodes = Over(NodeAt(p, n), LoopElement(g, p))
    BY <1>6, <2>1 DEF Measures
  <2> HIDE DEF n
  <2> QED
    BY <1>4, <2>2, <2>3
<1> QED
  BY <1>1, <1>2, <1>3, <1>5, <1>6 DEF Forms

-----------------------------------------------------------------------------
(***************************************************************************)
(* Nesting.                                                                *)
(***************************************************************************)
LEMMA LeadsIn ==
  ASSUME NEW g, GraphOK(g), NEW p \in DOMAIN g.node
  PROVE  LeadsTo(g.node[p]) \subseteq PtrOf(g)
<1> DEFINE n  == g.node[p]
           to == Successors(n)
<1>1. NodeOK(n, PtrOf(g), g.used_sequence_counters)
  BY DEF GraphOK, PtrOf
<1>2. to \in Seq(PtrOf(g)) /\ ToSet(to) = LeadsTo(n)
  BY <1>1, SuccessorsLead
<1> HIDE DEF to
<1>3. ToSet(to) \subseteq PtrOf(g)
  BY <1>2 DEF ToSet
<1> QED
  BY <1>2, <1>3

\* WellNested, for any set of bodies.
Nests(g, B) ==
  /\ g.root \notin B
  /\ \A p \in DOMAIN g.node :
       /\ SubgraphsOf(g.node[p]) \cap B = {}
       /\ SubroutinesOf(g.node[p]) \subseteq B
       /\ g.node[p].kind = "SubroutineLeave" => p \in B
       /\ p \in B => ContinuationsOf(g.node[p]) \subseteq B
       /\ p \notin B => ContinuationsOf(g.node[p]) \cap B = {}

LEMMA NestedBodies ==
  ASSUME NEW g, Shaped(g)
  PROVE  WellNested(g) <=> Nests(g, BodyNodes(g))
<1>1. BodyNodes(g) \subseteq DOMAIN g.node
  BY BodyClosed
<1> DEFINE B == BodyNodes(g)
<1> HIDE DEF B
<1>2. (/\ B \subseteq DOMAIN g.node
       /\ g.root \notin B
       /\ \A p \in DOMAIN g.node :
            LET n == g.node[p]
            IN /\ SubgraphsOf(n) \cap B = {}
               /\ SubroutinesOf(n) \subseteq B
               /\ n.kind = "SubroutineLeave" => p \in B
               /\ IF p \in B THEN ContinuationsOf(n) \subseteq B
                             ELSE ContinuationsOf(n) \cap B = {})
      <=> B \subseteq DOMAIN g.node /\ Nests(g, B)
  BY DEF Nests
<1> QED
  BY <1>1, <1>2 DEF WellNested, B

\* What the nodes that are written are not, and where they lead.
LEMMA StandsFacts ==
  ASSUME NEW g, GraphOK(g), Shaped(g), Fresh(g), NEW p \in DOMAIN g.node, NEW nodes,
         Writes(g, p, nodes), NEW own, Stands(g, p, nodes, own)
  PROVE  /\ p \in own /\ own \subseteq DOMAIN nodes
         /\ \A q \in DOMAIN nodes : q = p \/ q \notin PtrOf(g)
         /\ g.node[p].kind \notin {"SubroutineLeave", "SubroutineEnter", "StateSave", "StateRestore"}
         /\ ContinuationsOf(g.node[p]) \subseteq Onward(g, p) /\ Onward(g, p) \subseteq PtrOf(g)
         /\ \A q \in DOMAIN nodes :
              /\ nodes[q].kind \notin
                   {"SubroutineLeave", "SubroutineEnter", "StateSave", "StateRestore"}
              /\ SubroutinesOf(nodes[q]) = {}
         /\ \A q \in own :
              /\ ContinuationsOf(nodes[q]) \subseteq own \cup Onward(g, p)
              /\ SubgraphsOf(nodes[q]) \subseteq DOMAIN nodes \ own
         /\ \A q \in DOMAIN nodes \ own :
              ContinuationsOf(nodes[q]) = {nullptr} /\ SubgraphsOf(nodes[q]) = {}
<1>1. p \in own /\ own \subseteq DOMAIN nodes
  BY DEF Stands
<1>2. \A q \in DOMAIN nodes : q = p \/ q \notin PtrOf(g)
  <2> TAKE q \in DOMAIN nodes
  <2>1. q # p => q \notin DOMAIN g.node
    BY WritesNew
  <2>2. nullptr \notin DOMAIN nodes
    <3>1. DOMAIN Merged(g, nodes).node = DOMAIN nodes \cup DOMAIN g.node
      BY MergedFacts
    <3>2. GraphOK(Merged(g, nodes))
      BY WriteKeepsGraph
    <3> QED
      BY <3>1, <3>2 DEF GraphOK
  <2> QED
    BY <2>1, <2>2 DEF PtrOf
<1>3. g.node[p].kind \notin {"SubroutineLeave", "SubroutineEnter", "StateSave", "StateRestore"}
  BY DEF Stands, SimpleKinds
<1>4. ContinuationsOf(g.node[p]) \subseteq Onward(g, p)
  BY DEF Onward
<1>5. Onward(g, p) \subseteq PtrOf(g)
  <2>1. ContinuationsOf(g.node[p]) \subseteq PtrOf(g)
    BY LeadsIn DEF LeadsTo
  <2>2. ASSUME NEW b \in PtrOf(g), KindAt(g, b) \in SimpleKinds
        PROVE  g.node[b].next \in PtrOf(g)
    <3>1. b \in DOMAIN g.node /\ g.node[b].kind \in SimpleKinds
      BY <2>2 DEF KindAt, SimpleKinds, PtrOf
    <3>2. LeadsTo(g.node[b]) \subseteq PtrOf(g) /\ ContinuationsOf(g.node[b]) = {g.node[b].next}
      BY <3>1, LeadsIn, SimpleContinues
    <3> QED
      BY <3>2 DEF LeadsTo
  <2> QED
    BY <2>1, <2>2 DEF Onward
<1>6. \A q \in DOMAIN nodes :
        nodes[q].kind \notin {"SubroutineLeave", "SubroutineEnter", "StateSave", "StateRestore"}
  BY DEF Stands, SimpleKinds
<1>7. \A q \in DOMAIN nodes : SubroutinesOf(nodes[q]) = {}
  BY <1>6 DEF SubroutinesOf
<1>8. \A q \in DOMAIN nodes \ own :
        ContinuationsOf(nodes[q]) = {nullptr} /\ SubgraphsOf(nodes[q]) = {}
  BY SimpleContinues DEF Stands
<1>9. \A q \in own : /\ ContinuationsOf(nodes[q]) \subseteq own \cup Onward(g, p)
                     /\ SubgraphsOf(nodes[q]) \subseteq DOMAIN nodes \ own
  BY DEF Stands
<1> QED
  BY <1>1, <1>2, <1>3, <1>4, <1>5, <1>6, <1>7, <1>8, <1>9

\* Everything p goes on to is on the side of p.
LEMMA OnwardSide ==
  ASSUME NEW g, GraphOK(g), Shaped(g), WellNested(g), NEW p \in DOMAIN g.node
  PROVE  /\ p \in BodyNodes(g) => Onward(g, p) \subseteq BodyNodes(g)
         /\ p \notin BodyNodes(g) => Onward(g, p) \cap BodyNodes(g) = {}
<1> DEFINE B    == BodyNodes(g)
           near == ContinuationsOf(g.node[p])
<1>1. Nests(g, B)
  BY NestedBodies
<1> HIDE DEF B
<1>2. near \subseteq PtrOf(g)
  BY LeadsIn DEF LeadsTo
<1>3. ASSUME NEW b \in near, KindAt(g, b) \in SimpleKinds
      PROVE  g.node[b].next \in B <=> b \in B
  <2>1. b \in DOMAIN g.node /\ g.node[b].kind \in SimpleKinds
    BY <1>2, <1>3 DEF KindAt, SimpleKinds, PtrOf
  <2>2. ContinuationsOf(g.node[b]) = {g.node[b].next}
    BY <2>1, SimpleContinues
  <2> QED
    BY <1>1, <2>1, <2>2 DEF Nests
<1>4. (p \in B => near \subseteq B) /\ (p \notin B => near \cap B = {})
  BY <1>1 DEF Nests
<1> QED
  BY <1>3, <1>4 DEF Onward, B

\* The bodies of the graph that is written to: those before and, if p is in
\* one, what is written in its place.
LEMMA WrittenBodies ==
  ASSUME NEW g, GraphOK(g), Shaped(g), Fresh(g), WellNested(g), NEW p \in DOMAIN g.node,
         NEW nodes, Writes(g, p, nodes), NEW own, Replaces(g, p, nodes, own)
  PROVE  BodyNodes(Merged(g, nodes))
           = BodyNodes(g) \cup IF p \in BodyNodes(g) THEN own ELSE {}
<1> DEFINE h == Merged(g, nodes)
           A == BodyNodes(g)
           R == BodyNodes(h)
           B == A \cup IF p \in A THEN own ELSE {}
<1>1. /\ DOMAIN h.node = DOMAIN nodes \cup DOMAIN g.node
      /\ \A q \in DOMAIN nodes : h.node[q] = nodes[q]
      /\ \A q \in DOMAIN g.node : q \notin DOMAIN nodes => h.node[q] = g.node[q]
  BY MergedFacts
<1>2. Shaped(h)
  BY WriteKeepsGraph
<1>3. Stands(g, p, nodes, own)
  BY DEF Replaces
<1>4. /\ p \in own /\ own \subseteq DOMAIN nodes
      /\ \A q \in DOMAIN nodes : q = p \/ q \notin PtrOf(g)
      /\ ContinuationsOf(g.node[p]) \subseteq Onward(g, p) /\ Onward(g, p) \subseteq PtrOf(g)
      /\ \A q \in DOMAIN nodes : nodes[q].kind # "SubroutineLeave"
      /\ \A q \in own : ContinuationsOf(nodes[q]) \subseteq own \cup Onward(g, p)
      /\ \A q \in DOMAIN nodes \ own : ContinuationsOf(nodes[q]) = {nullptr}
      /\ g.node[p].kind # "SubroutineLeave"
  BY <1>3, StandsFacts
<1>5. A \subseteq DOMAIN g.node /\ Leaves(g) \subseteq A /\ Nests(g, A)
  BY BodyClosed, NestedBodies
<1>6. (p \in A => Onward(g, p) \subseteq A) /\ (p \notin A => Onward(g, p) \cap A = {})
  BY OnwardSide
<1>7. /\ R \subseteq DOMAIN h.node
      /\ Leaves(h) \subseteq R /\ LeadingTo(h, R) \subseteq R
      /\ R \subseteq Leaves(h) \cup LeadingTo(h, R)
  BY <1>2, BodyClosed, BodyUnfolds
<1>8. nullptr \notin B /\ nullptr \notin A /\ \A q \in PtrOf(g) : q \in B => q \in A
  BY <1>4, <1>5 DEF GraphOK, PtrOf
<1> HIDE DEF h, A, R
<1>9. \A q \in DOMAIN g.node : q # p => q \notin DOMAIN nodes /\ h.node[q] = g.node[q]
  BY <1>1, <1>4 DEF PtrOf
<1>10. R \subseteq B
  <2>1. Leaves(h) \subseteq B
    <3>1. Leaves(h) \subseteq Leaves(g)
      BY <1>1, <1>4 DEF Leaves
    <3> QED
      BY <1>5, <3>1
  <2>2. ASSUME NEW q \in DOMAIN h.node, ContinuationsOf(h.node[q]) \cap B # {}
        PROVE  q \in B
    <3>1. CASE q \notin DOMAIN nodes
      <4>1. q \in DOMAIN g.node /\ h.node[q] = g.node[q]
        BY <1>1, <3>1
      <4>2. ContinuationsOf(g.node[q]) \subseteq PtrOf(g)
        BY <4>1, LeadsIn DEF LeadsTo
      <4>3. ContinuationsOf(g.node[q]) \cap A # {}
        BY <1>8, <2>2, <4>1, <4>2
      <4> QED
        BY <1>5, <4>1, <4>3 DEF Nests
    <3>2. CASE q \in own
      <4>1. ContinuationsOf(h.node[q]) \subseteq own \cup Onward(g, p)
        BY <1>1, <1>4, <3>2
      <4>2. p \in A
        BY <1>4, <1>5, <1>6, <1>8, <2>2, <4>1 DEF PtrOf
      <4> QED
        BY <3>2, <4>2
    <3>3. CASE q \in DOMAIN nodes \ own
      BY <1>1, <1>4, <1>8, <2>2, <3>3
    <3> QED
      BY <3>1, <3>2, <3>3
  <2> HIDE DEF B
  <2>3. BodyNodes(h) \subseteq B
    BY <1>2, <2>1, <2>2, BodyLeast
  <2> QED
    BY <2>3 DEF R
<1>11. Follows(g, p, nodes, R)
  <2>1. \A q \in DOMAIN nodes : ContinuationsOf(nodes[q]) \cap R # {} => q \in R
    BY <1>1, <1>7 DEF LeadingTo
  <2>2. ASSUME NEW b \in ContinuationsOf(g.node[p]) \cap R, b # p,
               KindAt(g, b) \in SimpleKinds
        PROVE  g.node[b].next \in R
    <3>1. b \in DOMAIN g.node /\ g.node[b].kind \in SimpleKinds
      BY <1>4, <2>2 DEF KindAt, SimpleKinds, PtrOf
    <3>2. h.node[b] = g.node[b] /\ g.node[b].kind # "SubroutineLeave"
      BY <1>9, <2>2, <3>1 DEF SimpleKinds
    <3>3. ContinuationsOf(h.node[b]) = {g.node[b].next}
      BY <3>1, <3>2, SimpleContinues
    <3> QED
      BY <1>7, <2>2, <3>2, <3>3 DEF Leaves, LeadingTo
  <2> QED
    BY <2>1, <2>2 DEF Follows
<1>12. /\ ContinuationsOf(g.node[p]) \cap R # {} => p \in R
       /\ Onward(g, p) \subseteq R => own \subseteq R
  BY <1>11 DEF Replaces
<1>13. A \subseteq R
  <2>1. Leaves(g) \subseteq R
    <3>1. Leaves(g) \subseteq Leaves(h)
      BY <1>1, <1>4, <1>9 DEF Leaves
    <3> QED
      BY <1>7, <3>1
  <2>2. ASSUME NEW q \in DOMAIN g.node, ContinuationsOf(g.node[q]) \cap R # {}
        PROVE  q \in R
    <3>1. CASE q = p
      BY <1>12, <2>2, <3>1
    <3>2. CASE q # p
      BY <1>1, <1>7, <1>9, <2>2, <3>2 DEF LeadingTo
    <3> QED
      BY <3>1, <3>2
  <2>3. BodyNodes(g) \subseteq R
    BY <2>1, <2>2, BodyLeast
  <2> QED
    BY <2>3 DEF A
<1>14. B \subseteq R
  BY <1>6, <1>12, <1>13
<1>15. R = B
  BY <1>10, <1>14
<1> QED
  BY <1>15 DEF R, h, A

LEMMA WriteKeepsNesting ==
  ASSUME NEW g, GraphOK(g), Shaped(g), Fresh(g), WellNested(g), NEW p \in DOMAIN g.node,
         NEW nodes, Writes(g, p, nodes), NEW own, Replaces(g, p, nodes, own)
  PROVE  WellNested(Merged(g, nodes))
<1> DEFINE h == Merged(g, nodes)
           A == BodyNodes(g)
           B == A \cup IF p \in A THEN own ELSE {}
<1>1. /\ DOMAIN h.node = DOMAIN nodes \cup DOMAIN g.node
      /\ h.root = g.root
      /\ \A q \in DOMAIN nodes : h.node[q] = nodes[q]
      /\ \A q \in DOMAIN g.node : q \notin DOMAIN nodes => h.node[q] = g.node[q]
  BY MergedFacts
<1>2. Shaped(h) /\ BodyNodes(h) = B
  BY WriteKeepsGraph, WrittenBodies
<1>3. Stands(g, p, nodes, own)
  BY DEF Replaces
<1>4. /\ p \in own /\ own \subseteq DOMAIN nodes
      /\ \A q \in DOMAIN nodes : q = p \/ q \notin PtrOf(g)
      /\ \A q \in DOMAIN nodes :
           nodes[q].kind # "SubroutineLeave" /\ SubroutinesOf(nodes[q]) = {}
      /\ Onward(g, p) \subseteq PtrOf(g)
      /\ \A q \in own : /\ ContinuationsOf(nodes[q]) \subseteq own \cup Onward(g, p)
                        /\ SubgraphsOf(nodes[q]) \subseteq DOMAIN nodes \ own
      /\ \A q \in DOMAIN nodes \ own :
           ContinuationsOf(nodes[q]) = {nullptr} /\ SubgraphsOf(nodes[q]) = {}
  BY <1>3, StandsFacts
<1>5. A \subseteq DOMAIN g.node /\ Nests(g, A)
  BY BodyClosed, NestedBodies
<1>6. (p \in A => Onward(g, p) \subseteq A) /\ (p \notin A => Onward(g, p) \cap A = {})
  BY OnwardSide
<1>7. nullptr \notin B /\ \A q \in PtrOf(g) : q \in B <=> q \in A
  BY <1>4, <1>5 DEF GraphOK, PtrOf
<1>8. g.root \in PtrOf(g)
  BY DEF GraphOK, PtrOf
<1> HIDE DEF h, A
<1>9. ASSUME NEW q \in DOMAIN h.node
      PROVE  /\ SubgraphsOf(h.node[q]) \cap B = {}
             /\ SubroutinesOf(h.node[q]) \subseteq B
             /\ h.node[q].kind = "SubroutineLeave" => q \in B
             /\ q \in B => ContinuationsOf(h.node[q]) \subseteq B
             /\ q \notin B => ContinuationsOf(h.node[q]) \cap B = {}
  <2>1. CASE q \notin DOMAIN nodes
    <3>1. q \in DOMAIN g.node /\ h.node[q] = g.node[q]
      BY <1>1, <2>1
    <3>2. LeadsTo(g.node[q]) \subseteq PtrOf(g) /\ q \in PtrOf(g)
      BY <3>1, LeadsIn DEF PtrOf
    <3>3. q \in B <=> q \in A
      BY <1>7, <3>2
    <3> HIDE DEF B
    <3> QED
      BY <1>5, <1>7, <3>1, <3>2, <3>3 DEF Nests, LeadsTo
  <2>2. CASE q \in own
    <3>1. h.node[q] = nodes[q] /\ q \in DOMAIN nodes
      BY <1>1, <1>4, <2>2
    <3>2. q \in B <=> p \in A
      BY <1>4, <1>5, <2>2 DEF PtrOf
    <3>3. SubgraphsOf(h.node[q]) \cap B = {}
      BY <1>4, <1>5, <2>2, <3>1 DEF PtrOf
    <3>4. p \in A => ContinuationsOf(h.node[q]) \subseteq B
      BY <1>4, <1>6, <2>2, <3>1
    <3>5. p \notin A => ContinuationsOf(h.node[q]) \cap B = {}
      BY <1>4, <1>5, <1>6, <2>2, <3>1 DEF PtrOf
    <3> HIDE DEF B
    <3> QED
      BY <1>4, <3>1, <3>2, <3>3, <3>4, <3>5
  <2>3. CASE q \in DOMAIN nodes \ own
    <3>1. h.node[q] = nodes[q] /\ q # p
      BY <1>1, <1>4, <2>3
    <3>2. q \notin B
      BY <1>4, <1>5, <2>3, <3>1 DEF PtrOf
    <3> HIDE DEF B
    <3> QED
      BY <1>4, <1>7, <2>3, <3>1, <3>2
  <2> QED
    BY <2>1, <2>2, <2>3
<1>10. h.root \notin B
  BY <1>1, <1>5, <1>7, <1>8 DEF Nests
<1> HIDE DEF B
<1>11. Nests(h, B)
  BY <1>9, <1>10 DEF Nests
<1>12. WellNested(h)
  BY <1>2, <1>11, NestedBodies
<1> QED
  BY <1>12 DEF h

-----------------------------------------------------------------------------
(***************************************************************************)
(* Saves.                                                                  *)
(***************************************************************************)

LEMMA PairedFacts ==
  ASSUME NEW g
  PROVE  SavesPaired(g) <=>
           /\ g.root \notin Restores(g) \cup SavingCalls(g)
           /\ \A p \in DOMAIN g.node :
                LET n == g.node[p]
                IN /\ p \notin SavingCalls(g) => LeadsTo(n) \cap Restores(g) = {}
                   /\ n.kind # "StateSave" => LeadsTo(n) \cap SavingCalls(g) = {}
                   /\ n.kind = "StateSave" =>
                        /\ n.next \in SavingCalls(g)
                        /\ LET restore == g.node[g.node[n.next].next]
                           IN /\ restore.groups_to_restore = n.groups_to_save
                              /\ restore.sequence_counters_to_restore
                                   = n.sequence_counters_to_save
                   /\ p \in SavingCalls(g) =>
                        n.subroutine_node \notin Restores(g) \cup SavingCalls(g)
<1> DEFINE restores == { p \in DOMAIN g.node : g.node[p].kind = "StateRestore" }
           calls    == { p \in DOMAIN g.node :
                           g.node[p].kind = "SubroutineEnter" /\ g.node[p].next \in restores }
<1>1. restores = Restores(g) /\ calls = SavingCalls(g)
  BY DEF Restores, SavingCalls
<1> HIDE DEF restores, calls
<1> QED
  BY <1>1 DEF SavesPaired, LeadsTo, restores, calls

LEMMA WriteKeepsSaves ==
  ASSUME NEW g, GraphOK(g), Shaped(g), Fresh(g), SavesPaired(g), NEW p \in DOMAIN g.node,
         NEW nodes, Writes(g, p, nodes), NEW own, Stands(g, p, nodes, own)
  PROVE  SavesPaired(Merged(g, nodes))
<1> DEFINE h     == Merged(g, nodes)
           Res   == Restores(g)
           Calls == SavingCalls(g)
<1>1. /\ DOMAIN h.node = DOMAIN nodes \cup DOMAIN g.node
      /\ h.root = g.root
      /\ \A q \in DOMAIN nodes : h.node[q] = nodes[q]
      /\ \A q \in DOMAIN g.node : q \notin DOMAIN nodes => h.node[q] = g.node[q]
  BY MergedFacts
<1> HIDE DEF h
<1>2. /\ p \in own /\ own \subseteq DOMAIN nodes
      /\ \A q \in DOMAIN nodes : q = p \/ q \notin PtrOf(g)
      /\ g.node[p].kind \notin {"SubroutineEnter", "StateSave", "StateRestore"}
      /\ ContinuationsOf(g.node[p]) \subseteq Onward(g, p)
      /\ \A q \in DOMAIN nodes :
           /\ nodes[q].kind \notin {"SubroutineEnter", "StateSave", "StateRestore"}
           /\ SubroutinesOf(nodes[q]) = {}
      /\ \A q \in own : /\ ContinuationsOf(nodes[q]) \subseteq own \cup Onward(g, p)
                        /\ SubgraphsOf(nodes[q]) \subseteq DOMAIN nodes \ own
      /\ \A q \in DOMAIN nodes \ own :
           ContinuationsOf(nodes[q]) = {nullptr} /\ SubgraphsOf(nodes[q]) = {}
  BY StandsFacts
<1>3. /\ g.root \notin Res \cup Calls
      /\ \A q \in DOMAIN g.node :
           /\ q \notin Calls => LeadsTo(g.node[q]) \cap Res = {}
           /\ g.node[q].kind # "StateSave" => LeadsTo(g.node[q]) \cap Calls = {}
           /\ g.node[q].kind = "StateSave" =>
                /\ g.node[q].next \in Calls
                /\ LET restore == g.node[g.node[g.node[q].next].next]
                   IN /\ restore.groups_to_restore = g.node[q].groups_to_save
                      /\ restore.sequence_counters_to_restore
                           = g.node[q].sequence_counters_to_save
           /\ q \in Calls => g.node[q].subroutine_node \notin Res \cup Calls
  BY PairedFacts
<1>4. /\ \A q \in Res : q \in DOMAIN g.node /\ g.node[q].kind = "StateRestore"
      /\ \A q \in Calls : /\ q \in DOMAIN g.node /\ g.node[q].kind = "SubroutineEnter"
                          /\ g.node[q].next \in Res
  BY DEF Restores, SavingCalls
<1>5. /\ DOMAIN nodes \cap (Res \cup Calls) = {} /\ nullptr \notin Res \cup Calls
      /\ \A q \in Res \cup Calls : h.node[q] = g.node[q]
  BY <1>1, <1>2, <1>4 DEF PtrOf, GraphOK
<1>6. Restores(h) = Res
  <2>1. ASSUME NEW q \in DOMAIN h.node
        PROVE  h.node[q].kind = "StateRestore" <=> q \in Res
    BY <1>1, <1>2, <1>5 DEF Restores
  <2> QED
    BY <1>1, <1>4, <2>1 DEF Restores
<1>7. SavingCalls(h) = Calls
  <2>1. ASSUME NEW q \in DOMAIN h.node
        PROVE  h.node[q].kind = "SubroutineEnter" /\ h.node[q].next \in Res <=> q \in Calls
    BY <1>1, <1>2, <1>5 DEF SavingCalls
  <2> QED
    BY <1>1, <1>4, <1>6, <2>1 DEF SavingCalls
<1> HIDE DEF Res, Calls
<1>8. Onward(g, p) \cap (Res \cup Calls) = {}
  <2>1. \A q \in DOMAIN g.node : g.node[q].kind \notin {"SubroutineEnter", "StateSave"} =>
          ContinuationsOf(g.node[q]) \cap (Res \cup Calls) = {}
    BY <1>3, <1>4 DEF LeadsTo
  <2>2. ContinuationsOf(g.node[p]) \cap (Res \cup Calls) = {}
    BY <1>2, <2>1
  <2>3. ASSUME NEW b \in ContinuationsOf(g.node[p]), KindAt(g, b) \in SimpleKinds
        PROVE  g.node[b].next \notin Res \cup Calls
    <3>1. ContinuationsOf(g.node[p]) \subseteq PtrOf(g)
      BY LeadsIn DEF LeadsTo
    <3>2. b \in DOMAIN g.node /\ g.node[b].kind \in SimpleKinds
      BY <2>3, <3>1 DEF KindAt, SimpleKinds, PtrOf
    <3>3. g.node[b].kind \notin {"SubroutineEnter", "StateSave"}
      BY <3>2 DEF SimpleKinds
    <3>4. ContinuationsOf(g.node[b]) = {g.node[b].next}
      BY <3>2, SimpleContinues
    <3> QED
      BY <2>1, <3>2, <3>3, <3>4
  <2> QED
    BY <2>2, <2>3 DEF Onward
<1>9. ASSUME NEW q \in DOMAIN nodes
      PROVE  LeadsTo(h.node[q]) \cap (Res \cup Calls) = {}
  <2>1. h.node[q] = nodes[q] /\ SubroutinesOf(nodes[q]) = {}
    BY <1>1, <1>2
  <2>2. CASE q \in own
    <3>1. LeadsTo(nodes[q]) \subseteq DOMAIN nodes \cup Onward(g, p)
      BY <1>2, <2>1, <2>2 DEF LeadsTo
    <3> QED
      BY <1>5, <1>8, <2>1, <3>1
  <2>3. CASE q \notin own
    <3>1. LeadsTo(nodes[q]) = {nullptr}
      BY <1>2, <2>1, <2>3 DEF LeadsTo
    <3> QED
      BY <1>5, <2>1, <3>1
  <2> QED
    BY <2>2, <2>3
<1>10. ASSUME NEW q \in DOMAIN h.node
       PROVE  /\ q \notin Calls => LeadsTo(h.node[q]) \cap Res = {}
              /\ h.node[q].kind # "StateSave" => LeadsTo(h.node[q]) \cap Calls = {}
              /\ h.node[q].kind = "StateSave" =>
                   /\ h.node[q].next \in Calls
                   /\ LET restore == h.node[h.node[h.node[q].next].next]
                      IN /\ restore.groups_to_restore = h.node[q].groups_to_save
                         /\ restore.sequence_counters_to_restore
                              = h.node[q].sequence_counters_to_save
              /\ q \in Calls => h.node[q].subroutine_node \notin Res \cup Calls
  <2>1. CASE q \in DOMAIN nodes
    <3>1. h.node[q].kind # "StateSave" /\ q \notin Calls
      BY <1>1, <1>2, <1>5, <2>1
    <3> QED
      BY <1>9, <2>1, <3>1
  <2>2. CASE q \notin DOMAIN nodes
    <3>1. q \in DOMAIN g.node /\ h.node[q] = g.node[q]
      BY <1>1, <2>2
    <3>2. ASSUME g.node[q].kind = "StateSave"
          PROVE  /\ g.node[q].next \in Calls
                 /\ LET restore == h.node[h.node[g.node[q].next].next]
                    IN /\ restore.groups_to_restore = g.node[q].groups_to_save
                       /\ restore.sequence_counters_to_restore
                            = g.node[q].sequence_counters_to_save
      <4>1. g.node[q].next \in Calls
        BY <1>3, <3>1, <3>2
      <4>2. h.node[g.node[q].next] = g.node[g.node[q].next] /\ g.node[g.node[q].next].next \in Res
        BY <1>4, <1>5, <4>1
      <4>3. h.node[g.node[g.node[q].next].next] = g.node[g.node[g.node[q].next].next]
        BY <1>5, <4>2
      <4> QED
        BY <1>3, <3>1, <3>2, <4>1, <4>2, <4>3
    <3> QED
      BY <1>3, <3>1, <3>2
  <2> QED
    BY <2>1, <2>2
<1>11. SavesPaired(h)
  BY <1>1, <1>3, <1>6, <1>7, <1>10, PairedFacts
<1> QED
  BY <1>11 DEF h

-----------------------------------------------------------------------------
(***************************************************************************)
(* What is stored first.  The nodes to which there is a way that does not  *)
(* store x are the least set that has where ways begin and what its nodes  *)
(* lead on to, past those that store x.                                    *)
(***************************************************************************)
\* Where p goes on to with x not stored.
Past(g, x, p) == IF x \in StoredBy(g.node[p]) THEN {} ELSE ContinuationsOf(g.node[p])

PastAll(g, x, T) == (UNION { {p} \cup Past(g, x, p) : p \in T }) \ {nullptr}

LEMMA EntriesIn ==
  ASSUME NEW g, GraphOK(g)
  PROVE  /\ Entries(g) \subseteq PtrOf(g)
         /\ \A x : \A p \in DOMAIN g.node : Past(g, x, p) \subseteq PtrOf(g)
<1>1. \A p \in DOMAIN g.node : LeadsTo(g.node[p]) \subseteq PtrOf(g)
  BY LeadsIn
<1>2. g.root \in PtrOf(g)
  BY DEF GraphOK, PtrOf
<1> QED
  BY <1>1, <1>2 DEF Entries, Past, LeadsTo

\* Unstored, step by step.
LEMMA UnstoredSteps ==
  ASSUME NEW g, GraphOK(g), Shaped(g), NEW x
  PROVE  LET N == Cardinality(DOMAIN g.node) IN
         /\ N \in Nat
         /\ \E f \in [0..N -> SUBSET DOMAIN g.node] :
              /\ f[0] = Entries(g) \ {nullptr}
              /\ \A n \in 1..N : f[n] = PastAll(g, x, f[n - 1])
              /\ Unstored(g, x) = f[N]
<1> DEFINE N == Cardinality(DOMAIN g.node)
           V == SUBSET DOMAIN g.node
           onwards(n) == IF x \in StoredBy(n) THEN {} ELSE ContinuationsOf(n)
           more(T) == (UNION { {p} \cup onwards(g.node[p]) : p \in T }) \ {nullptr}
           start == Entries(g) \ {nullptr}
           step == [k \in 1..N |-> [T \in V |-> more(T)]]
           F[k \in 0..N] == IF k = 0 THEN start ELSE more(F[k - 1])
<1>1. N \in Nat
  BY FS_CardinalityType DEF Shaped
<1>5. \A T : more(T) = PastAll(g, x, T)
  BY DEF PastAll, Past
<1>2. start \in V /\ \A T \in V : more(T) \in V
  <2>1. start \in V
    BY EntriesIn DEF PtrOf
  <2>2. \A T \in V : PastAll(g, x, T) \in V
    BY EntriesIn DEF PastAll, PtrOf
  <2> HIDE DEF more, V, start
  <2> QED
    BY <1>5, <2>1, <2>2
<1>3. IsSteps(step, N, V)
  <2> HIDE DEF more, V, N
  <2> QED
    BY <1>1, <1>2 DEF IsSteps
<1>4. \A k \in 1..N : \A T \in V : step[k][T] = more(T)
  <2> HIDE DEF more, V, N
  <2> QED
    OBVIOUS
<1> HIDE DEF step, V, N, more, start
<1>7. PICK f \in [0..N -> V] : Recurs(f, N, start, step)
  BY <1>2, <1>3, RecursionExists
<1>8. \A k \in 1..N : k - 1 \in 0..N /\ f[k - 1] \in V /\ f[k] = more(f[k - 1])
  <2> TAKE k \in 1..N
  <2>1. k - 1 \in 0..N
    BY <1>1
  <2>2. f[k - 1] \in V
    BY <1>7, <2>1
  <2> QED
    BY <1>4, <1>7, <2>1, <2>2 DEF Recurs
<1>9. f = [k \in 0..N |-> IF k = 0 THEN start ELSE more(f[k - 1])]
  <2>1. \A k \in 0..N : k # 0 => f[k] = more(f[k - 1])
    <3> TAKE k \in 0..N
    <3>1. k # 0 => k \in 1..N
      BY <1>1
    <3> QED
      BY <1>8, <3>1
  <2> QED
    BY <1>7, <2>1 DEF Recurs
<1>10. Unstored(g, x) = F[N]
  BY DEF Unstored, ReachedFrom, N, more, start
<1>11. F = [k \in 0..N |-> IF k = 0 THEN start ELSE more(F[k - 1])]
  BY <1>9
<1> HIDE DEF F
<1>12. F[N] = f[N]
  <2> DEFINE G == { n \in 0..N : F[n] = f[n] }
  <2>1. 0 \in G
    BY <1>1, <1>9, <1>11
  <2>2. \A n \in 1..N : n - 1 \in G => n \in G
    BY <1>1, <1>9, <1>11
  <2> HIDE DEF G
  <2>3. 0..N \subseteq G
    BY <1>1, <2>1, <2>2, StepByStep
  <2> QED
    BY <1>1, <2>3 DEF G
<1>13. /\ f[0] = Entries(g) \ {nullptr}
       /\ \A n \in 1..N : f[n] = PastAll(g, x, f[n - 1])
       /\ Unstored(g, x) = f[N]
  BY <1>5, <1>7, <1>8, <1>10, <1>12 DEF Recurs, start
<1> QED
  BY <1>1, <1>7, <1>13 DEF N, V

\* Every set with where ways begin and what its nodes lead on to has them all.
LEMMA UnstoredLeast ==
  ASSUME NEW g, GraphOK(g), Shaped(g), NEW x, NEW T, Entries(g) \ {nullptr} \subseteq T,
         \A p \in T \cap DOMAIN g.node : Past(g, x, p) \ {nullptr} \subseteq T
  PROVE  Unstored(g, x) \subseteq T
<1> DEFINE N == Cardinality(DOMAIN g.node)
<1>1. N \in Nat
  BY FS_CardinalityType DEF Shaped
<1>2. PICK f \in [0..N -> SUBSET DOMAIN g.node] :
        /\ f[0] = Entries(g) \ {nullptr}
        /\ \A n \in 1..N : f[n] = PastAll(g, x, f[n - 1])
        /\ Unstored(g, x) = f[N]
  BY UnstoredSteps
<1> HIDE DEF N
<1> DEFINE G == { n \in 0..N : f[n] \subseteq T }
<1>3. 0 \in G
  BY <1>1, <1>2
<1>4. \A n \in 1..N : n - 1 \in G => n \in G
  <2> SUFFICES ASSUME NEW n \in 1..N, n - 1 \in G
               PROVE  n \in G
    OBVIOUS
  <2>1. n \in 0..N /\ n - 1 \in 0..N
    BY <1>1
  <2>2. f[n - 1] \subseteq T /\ f[n - 1] \subseteq DOMAIN g.node
    BY <1>2, <2>1
  <2>3. PastAll(g, x, f[n - 1]) \subseteq T
    BY <2>2 DEF PastAll
  <2>4. f[n] = PastAll(g, x, f[n - 1])
    BY <1>2
  <2> QED
    BY <2>1, <2>3, <2>4
<1> HIDE DEF G
<1>5. 0..N \subseteq G
  BY <1>1, <1>3, <1>4, StepByStep
<1> QED
  BY <1>1, <1>2, <1>5 DEF G

\* They are such a set: as many steps as there are nodes are enough.
LEMMA UnstoredClosed ==
  ASSUME NEW g, GraphOK(g), Shaped(g), NEW x
  PROVE  /\ Unstored(g, x) \subseteq DOMAIN g.node
         /\ Entries(g) \subseteq Unstored(g, x) \cup {nullptr}
         /\ \A p \in Unstored(g, x) : Past(g, x, p) \subseteq Unstored(g, x) \cup {nullptr}
<1> DEFINE N == Cardinality(DOMAIN g.node)
<1>1. N \in Nat /\ IsFiniteSet(DOMAIN g.node)
  BY FS_CardinalityType DEF Shaped
<1>2. PICK f \in [0..N -> SUBSET DOMAIN g.node] :
        /\ f[0] = Entries(g) \ {nullptr}
        /\ \A n \in 1..N : f[n] = PastAll(g, x, f[n - 1])
        /\ Unstored(g, x) = f[N]
  BY UnstoredSteps
<1> DEFINE Closed(n) == PastAll(g, x, f[n]) \subseteq f[n]
           G == { n \in 0..N : /\ Entries(g) \subseteq f[n] \cup {nullptr}
                               /\ Closed(n) \/ Cardinality(f[n]) >= n }
<1>3. \A n \in 0..N : /\ f[n] \subseteq DOMAIN g.node
                      /\ IsFiniteSet(f[n]) /\ Cardinality(f[n]) \in Nat
  <2> TAKE n \in 0..N
  <2>1. f[n] \subseteq DOMAIN g.node
    BY <1>2
  <2> QED
    BY <1>1, <2>1, FS_Subset, FS_CardinalityType
<1>4. N \in 0..N /\ 0 \in 0..N
  <2> HIDE DEF N
  <2> QED
    BY <1>1
<1>0. nullptr \notin DOMAIN g.node
  BY DEF GraphOK
<1>5. 0 \in G
  BY <1>2, <1>3, <1>4
<1>6. \A n \in 1..N : n - 1 \in G => n \in G
  <2> SUFFICES ASSUME NEW n \in 1..N, n - 1 \in G
               PROVE  n \in G
    OBVIOUS
  <2>2. n \in 0..N /\ n \in Int /\ n - 1 \in 0..N
    BY <1>1
  <2>1. f[n] = PastAll(g, x, f[n - 1]) /\ f[n - 1] \subseteq f[n]
        /\ Entries(g) \subseteq f[n - 1] \cup {nullptr}
    <3>1. f[n] = PastAll(g, x, f[n - 1]) /\ f[n - 1] \subseteq DOMAIN g.node
      BY <1>2, <1>3, <2>2
    <3>2. f[n - 1] \subseteq PastAll(g, x, f[n - 1])
      BY <1>0, <3>1 DEF PastAll
    <3> QED
      BY <3>1, <3>2
  <2>3. CASE Closed(n - 1)
    <3>1. f[n] = f[n - 1]
      BY <2>1, <2>3
    <3> QED
      BY <2>1, <2>2, <2>3, <3>1
  <2>4. CASE ~Closed(n - 1)
    <3>1. Cardinality(f[n - 1]) >= n - 1
      BY <2>4
    <3>2. f[n - 1] \subseteq f[n] /\ f[n - 1] # f[n]
      BY <2>1, <2>4
    <3>3. Cardinality(f[n - 1]) < Cardinality(f[n])
      BY <1>3, <2>2, <3>2, FS_Subset
    <3>4. Cardinality(f[n]) >= n
      BY <1>3, <2>2, <3>1, <3>3
    <3> QED
      BY <2>1, <2>2, <3>4
  <2> QED
    BY <2>3, <2>4
<1> HIDE DEF G
<1>7. 0..N \subseteq G
  <2> HIDE DEF N
  <2> QED
    BY <1>1, <1>5, <1>6, StepByStep
<1>8. Entries(g) \subseteq f[N] \cup {nullptr} /\ (Closed(N) \/ Cardinality(f[N]) >= N)
  BY <1>4, <1>7 DEF G
<1>9. Closed(N)
  <2> SUFFICES ASSUME Cardinality(f[N]) >= N
               PROVE  Closed(N)
    BY <1>8
  <2>1. f[N] = DOMAIN g.node
    <3> SUFFICES ASSUME f[N] # DOMAIN g.node
                 PROVE  FALSE
      OBVIOUS
    <3>1. f[N] \subseteq DOMAIN g.node /\ Cardinality(f[N]) \in Nat
      BY <1>3, <1>4
    <3>2. Cardinality(f[N]) < N
      BY <1>1, <3>1, FS_Subset
    <3> HIDE DEF N
    <3> QED
      BY <1>1, <3>1, <3>2
  <2>2. PastAll(g, x, DOMAIN g.node) \subseteq DOMAIN g.node
    BY EntriesIn DEF PastAll, PtrOf
  <2> QED
    BY <2>1, <2>2
<1>10. \A p \in f[N] : Past(g, x, p) \subseteq f[N] \cup {nullptr}
  BY <1>9 DEF PastAll
<1> QED
  BY <1>2, <1>3, <1>4, <1>8, <1>10

\* So a way to a node that reads x unstored is all that there can be against it.
LEMMA StoredFirstReads ==
  ASSUME NEW g, GraphOK(g), Shaped(g), NEW x
  PROVE  StoredFirst(g, x) <=> \A p \in Unstored(g, x) : x \notin ReadBy(g.node[p])
<1> DEFINE U == Unstored(g, x)
<1>1. /\ U \subseteq DOMAIN g.node
      /\ Entries(g) \subseteq U \cup {nullptr}
      /\ \A p \in U : Past(g, x, p) \subseteq U \cup {nullptr}
  BY UnstoredClosed
<1> HIDE DEF U
<1>2. \A p \in U : x \in StoredBy(g.node[p]) \/ ContinuationsOf(g.node[p]) \subseteq U \cup {nullptr}
  BY <1>1 DEF Past
<1>3. (/\ Entries(g) \subseteq U \cup {nullptr}
       /\ \A p \in U \cap DOMAIN g.node :
            /\ x \notin ReadBy(g.node[p])
            /\ x \in StoredBy(g.node[p])
               \/ ContinuationsOf(g.node[p]) \subseteq U \cup {nullptr})
      <=> \A p \in U : x \notin ReadBy(g.node[p])
  BY <1>1, <1>2
<1> QED
  BY <1>3 DEF StoredFirst, U

\* What is written stores nothing, reads nothing, and leads only where the node
\* it is written for has led, or into graphs of its own that end at once.
LEMMA WriteKeepsStored ==
  ASSUME NEW g, GraphOK(g), Shaped(g), Fresh(g), NEW p \in DOMAIN g.node, NEW nodes,
         Writes(g, p, nodes), NEW own, Stands(g, p, nodes, own), NEW x, StoredFirst(g, x)
  PROVE  StoredFirst(Merged(g, nodes), x)
<1> DEFINE h == Merged(g, nodes)
           U == Unstored(g, x)
           T == U \cup (IF p \in U THEN own ELSE {}) \cup (DOMAIN nodes \ own)
<1>1. /\ DOMAIN h.node = DOMAIN nodes \cup DOMAIN g.node
      /\ h.root = g.root
      /\ \A q \in DOMAIN nodes : h.node[q] = nodes[q]
      /\ \A q \in DOMAIN g.node : q \notin DOMAIN nodes => h.node[q] = g.node[q]
  BY MergedFacts
<1>2. GraphOK(h) /\ Shaped(h)
  BY WriteKeepsGraph
<1>3. /\ p \in own /\ own \subseteq DOMAIN nodes
      /\ \A q \in DOMAIN nodes : q = p \/ q \notin PtrOf(g)
      /\ ContinuationsOf(g.node[p]) \subseteq Onward(g, p)
      /\ \A q \in DOMAIN nodes : SubroutinesOf(nodes[q]) = {}
      /\ \A q \in own : /\ ContinuationsOf(nodes[q]) \subseteq own \cup Onward(g, p)
                        /\ SubgraphsOf(nodes[q]) \subseteq DOMAIN nodes \ own
      /\ \A q \in DOMAIN nodes \ own :
           ContinuationsOf(nodes[q]) = {nullptr} /\ SubgraphsOf(nodes[q]) = {}
  BY StandsFacts
<1>4. /\ U \subseteq DOMAIN g.node
      /\ Entries(g) \subseteq U \cup {nullptr}
      /\ \A q \in U : Past(g, x, q) \subseteq U \cup {nullptr}
      /\ \A q \in U : x \notin ReadBy(g.node[q])
  BY UnstoredClosed, StoredFirstReads
<1>5. /\ \A q \in DOMAIN nodes : ReadBy(nodes[q]) = {}
      /\ \A q \in DOMAIN g.node :
           g.node[q].kind \in SimpleKinds \cup {"Alternatives"} => StoredBy(g.node[q]) = {}
      /\ g.node[p].kind \in SimpleKinds \cup {"Alternatives"}
  BY DEF Stands, ReadBy, StoredBy, SimpleKinds
<1> HIDE DEF h, U
<1>6. ASSUME p \in U
      PROVE  Onward(g, p) \subseteq U \cup {nullptr}
  <2>1. ContinuationsOf(g.node[p]) \subseteq U \cup {nullptr}
    BY <1>4, <1>5, <1>6 DEF Past
  <2>2. ASSUME NEW b \in ContinuationsOf(g.node[p]), KindAt(g, b) \in SimpleKinds
        PROVE  g.node[b].next \in U \cup {nullptr}
    <3>1. b \in U /\ g.node[b].kind \in SimpleKinds
      BY <2>1, <2>2 DEF KindAt, SimpleKinds
    <3>2. ContinuationsOf(g.node[b]) = {g.node[b].next} /\ StoredBy(g.node[b]) = {}
      BY <1>4, <1>5, <3>1, SimpleContinues
    <3> QED
      BY <1>4, <3>1, <3>2 DEF Past
  <2> QED
    BY <2>1, <2>2 DEF Onward
<1>7. \A q \in T : q \in DOMAIN nodes \/ (q \in U /\ q \in DOMAIN g.node)
  BY <1>3, <1>4
<1>8. \A q \in own : q \in T => p \in U
  BY <1>3, <1>4 DEF PtrOf
<1>9. Entries(h) \ {nullptr} \subseteq T
  <2>1. ASSUME NEW q \in DOMAIN h.node
        PROVE  SubgraphsOf(h.node[q]) \cup SubroutinesOf(h.node[q]) \subseteq T \cup {nullptr}
    <3>1. CASE q \notin DOMAIN nodes
      <4>1. q \in DOMAIN g.node /\ h.node[q] = g.node[q]
        BY <1>1, <3>1
      <4>2. SubgraphsOf(g.node[q]) \cup SubroutinesOf(g.node[q]) \subseteq Entries(g)
        BY <4>1 DEF Entries
      <4> QED
        BY <1>4, <4>1, <4>2
    <3>2. CASE q \in own
      BY <1>1, <1>3, <3>2
    <3>3. CASE q \in DOMAIN nodes \ own
      BY <1>1, <1>3, <3>3
    <3> QED
      BY <3>1, <3>2, <3>3
  <2>2. h.root \in T \cup {nullptr}
    BY <1>1, <1>4 DEF Entries
  <2> HIDE DEF T
  <2> QED
    BY <2>1, <2>2 DEF Entries
<1>10. ASSUME NEW q \in T \cap DOMAIN h.node
       PROVE  Past(h, x, q) \ {nullptr} \subseteq T
  <2>1. Past(h, x, q) \subseteq ContinuationsOf(h.node[q])
    BY DEF Past
  <2>2. CASE q \notin DOMAIN nodes
    <3>1. q \in U /\ h.node[q] = g.node[q]
      BY <1>1, <1>7, <2>2
    <3>2. Past(h, x, q) = Past(g, x, q)
      BY <3>1 DEF Past
    <3> QED
      BY <1>4, <3>1, <3>2
  <2>3. CASE q \in own
    <3>1. p \in U /\ h.node[q] = nodes[q]
      BY <1>1, <1>3, <1>8, <2>3
    <3> QED
      BY <1>3, <1>6, <2>1, <2>3, <3>1
  <2>4. CASE q \in DOMAIN nodes \ own
    BY <1>1, <1>3, <2>1, <2>4
  <2> QED
    BY <2>2, <2>3, <2>4
<1>11. \A q \in T : x \notin ReadBy(h.node[q])
  <2> TAKE q \in T
  <2>1. CASE q \in DOMAIN nodes
    BY <1>1, <1>5, <2>1
  <2>2. CASE q \notin DOMAIN nodes
    <3>1. q \in U /\ h.node[q] = g.node[q]
      BY <1>1, <1>7, <2>2
    <3> QED
      BY <1>4, <3>1
  <2> QED
    BY <2>1, <2>2
<1> HIDE DEF T
<1>12. Unstored(h, x) \subseteq T
  BY <1>2, <1>9, <1>10, UnstoredLeast
<1>13. StoredFirst(h, x)
  BY <1>2, <1>11, <1>12, StoredFirstReads
<1> QED
  BY <1>13 DEF h

LEMMA WriteKeepsStoring ==
  ASSUME NEW g, GraphOK(g), Shaped(g), Fresh(g), NEW p \in DOMAIN g.node, NEW nodes,
         Writes(g, p, nodes), NEW own, Stands(g, p, nodes, own), StoresFirst(g)
  PROVE  StoresFirst(Merged(g, nodes))
<1> DEFINE h == Merged(g, nodes)
<1>1. /\ DOMAIN h.node = DOMAIN nodes \cup DOMAIN g.node
      /\ \A q \in DOMAIN nodes : h.node[q] = nodes[q]
      /\ \A q \in DOMAIN g.node : q \notin DOMAIN nodes => h.node[q] = g.node[q]
  BY MergedFacts
<1>2. \A x : StoredFirst(g, x) => StoredFirst(h, x)
  BY WriteKeepsStored
<1> HIDE DEF h
<1>3. \A q \in DOMAIN nodes : ReadBy(nodes[q]) = {}
  BY DEF Stands, ReadBy, SimpleKinds
<1>4. ASSUME NEW q \in DOMAIN h.node, NEW x \in ReadBy(h.node[q])
      PROVE  StoredFirst(h, x)
  <2>1. q \in DOMAIN g.node /\ h.node[q] = g.node[q]
    BY <1>1, <1>3, <1>4
  <2> QED
    BY <1>2, <1>4, <2>1 DEF StoresFirst
<1> QED
  BY <1>4 DEF StoresFirst, h

-----------------------------------------------------------------------------
\* A visit rewrites a node, or leaves the graph as it is.
LEMMA VisitReplaces ==
  ASSUME OptimizerInv, VisitNode
  PROVE  /\ source' = source
         /\ \/ graph' = graph
            \/ \E p \in DOMAIN graph.node : \E nodes, own :
                 /\ GraphOK(graph) /\ Shaped(graph) /\ Fresh(graph)
                 /\ Writes(graph, p, nodes) /\ Replaces(graph, p, nodes, own)
                 /\ graph' = Merged(graph, nodes)
<1> DEFINE p     == Head(agenda)
           nodes == Optimization(graph, p, Passes[pass])
<1>1. Optimizing /\ agenda # <<>> /\ source' = source /\ graph' = Merged(graph, nodes)
  BY DEF VisitNode, Merged
<1>2. /\ p \in DOMAIN graph.node /\ Writes(graph, p, nodes)
      /\ GraphOK(graph) /\ Shaped(graph) /\ Fresh(graph)
  BY <1>1, VisitWrites DEF OptimizerInv, OptimizerTypeOK
<1>3. pass \in DOMAIN Passes
  BY <1>1 DEF Optimizing
<1> HIDE DEF p
<1>4. Forms(graph, p, nodes)
  BY <1>2, <1>3, EveryForm
<1> HIDE DEF nodes
<1>5. CASE nodes = Unchanged
  <2>1. DOMAIN nodes = {}
    BY <1>5 DEF Unchanged
  <2>2. graph.node = [q \in DOMAIN graph.node |-> graph.node[q]]
    BY <1>2 DEF Shaped
  <2>3. Over(nodes, graph.node) = graph.node
    BY <2>1, <2>2 DEF Over
  <2>4. graph = [f \in {"root", "node", "group_count", "used_sequence_counters"} |-> graph[f]]
    BY <1>2 DEF Shaped
  <2>5. Merged(graph, nodes) = graph
    BY <2>3, <2>4 DEF Merged
  <2> QED
    BY <1>1, <2>5
<1>6. CASE nodes # Unchanged
  <2>1. PICK own : Replaces(graph, p, nodes, own)
    BY <1>2, <1>4, <1>6, FormsReplace
  <2> QED
    BY <1>1, <1>2, <2>1
<1> QED
  BY <1>5, <1>6

\* What is kept of a graph that is given with nested calls and paired saves, and
\* of one that is given with all that is read stored first.
NestingInv ==
  WellNested(source) /\ SavesPaired(source) => WellNested(graph) /\ SavesPaired(graph)

StoringInv == StoresFirst(source) => StoresFirst(graph)

LEMMA KeepingStep ==
  ASSUME OptimizerInv, NestingInv, StoringInv, [OptimizerNext]_optimizerVars
  PROVE  NestingInv' /\ StoringInv'
<1>1. ASSUME NEW g \in SourceGraphs, OptimizeRegexGraph(g)
      PROVE  NestingInv' /\ StoringInv'
  BY <1>1 DEF OptimizeRegexGraph, NestingInv, StoringInv
<1>2. CASE VisitNode
  <2>1. CASE graph' = graph /\ source' = source
    BY <2>1 DEF NestingInv, StoringInv
  <2>2. ASSUME source' = source, NEW p \in DOMAIN graph.node, NEW nodes, NEW own,
               GraphOK(graph), Shaped(graph), Fresh(graph),
               Writes(graph, p, nodes), Replaces(graph, p, nodes, own),
               graph' = Merged(graph, nodes)
        PROVE  NestingInv' /\ StoringInv'
    <3>1. Stands(graph, p, nodes, own)
      BY <2>2 DEF Replaces
    <3>2. WellNested(graph) => WellNested(Merged(graph, nodes))
      BY <2>2, WriteKeepsNesting
    <3>3. SavesPaired(graph) => SavesPaired(Merged(graph, nodes))
      BY <2>2, <3>1, WriteKeepsSaves
    <3>4. StoresFirst(graph) => StoresFirst(Merged(graph, nodes))
      BY <2>2, <3>1, WriteKeepsStoring
    <3> QED
      BY <2>2, <3>2, <3>3, <3>4 DEF NestingInv, StoringInv
  <2> QED
    BY <1>2, <2>1, <2>2, VisitReplaces
<1>3. CASE WalkAgain \/ NextPass \/ UNCHANGED optimizerVars
  BY <1>3 DEF WalkAgain, NextPass, NestingInv, StoringInv, optimizerVars
<1> QED
  BY <1>1, <1>2, <1>3 DEF OptimizerNext, Optimize, OptimizerReturned

LEMMA KeptThroughout ==
  OptimizerSpec => [](OptimizerInv /\ NestingInv /\ StoringInv)
<1>1. OptimizerInit => NestingInv /\ StoringInv
  BY DEF OptimizerInit, NestingInv, StoringInv
<1>2. /\ OptimizerInv /\ NestingInv /\ StoringInv /\ [OptimizerNext]_optimizerVars
      => OptimizerInv' /\ NestingInv' /\ StoringInv'
  BY OptimizerStep, KeepingStep
<1> QED
  BY InitOptimizer, <1>1, <1>2, PTL DEF OptimizerSpec

\* Whatever is rewritten in a graph whose calls are nested and whose saves are
\* paired: no subroutine's body runs into the end of a graph, no look, loop or
\* atomic group into a SubroutineLeave, and nothing comes between a StateSave,
\* its call and its StateRestore.
THEOREM NestingSurvives ==
  OptimizerSpec => [](WellNested(source) /\ SavesPaired(source) => NestingKept)
<1>1. NestingInv => (WellNested(source) /\ SavesPaired(source) => NestingKept)
  BY DEF NestingInv, NestingKept
<1> QED
  BY KeptThroughout, <1>1, PTL

\* Whatever is rewritten in a graph in which every way to the end of a group or
\* to the counter of a loop has stored its start or its zero first: so it is in
\* what the matcher and the generated code are given.
THEOREM StoringSurvives ==
  OptimizerSpec => [](StoresFirst(source) => StoringKept)
<1>1. StoringInv => (StoresFirst(source) => StoringKept)
  BY DEF StoringInv, StoringKept
<1> QED
  BY KeptThroughout, <1>1, PTL

=============================================================================
