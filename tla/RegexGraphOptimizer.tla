------------------------ MODULE RegexGraphOptimizer ------------------------
(***************************************************************************)
(* The optimizer (RegexGraphOptimizer.cpp).  A pass walks the graph from   *)
(* its root and may rewrite each node when it gets there, before it goes   *)
(* on to the successors the node then has.  Nodes are rewritten in place:  *)
(* every pointer to the node sees the new one.                             *)
(***************************************************************************)
EXTENDS GraphOptimizations

CONSTANT SourceGraphs   \* the graphs OptimizeRegexGraph may be given

\* The nodes that are copied whole, and records of graphs.
SimpleNodes ==
  [kind : {"SpecificSymbol"}, code : Nat, next : Seq(Int)]
  \cup [kind : {"String"}, str : Seq(Byte), next : Seq(Int)]
  \cup [kind : {"OneOf"}, variants : SUBSET Nat, ranges : Seq(Nat \X Nat),
        inverse_flag : BOOLEAN, next : Seq(Int)]

Shaped(g) ==
  /\ g = [f \in {"root", "node", "group_count", "used_sequence_counters"} |-> g[f]]
  /\ g.node = [p \in DOMAIN g.node |-> g.node[p]]
  /\ IsFiniteSet(DOMAIN g.node)
  /\ DOMAIN g.node \subseteq Seq(Int)
  /\ \A p \in DOMAIN g.node : g.node[p].kind \in SimpleKinds => g.node[p] \in SimpleNodes

\* What BuildRegexGraph returns: it uses neither the pointers of New nor the
\* kinds of nodes that only the optimizer makes.
SourceOK(g) ==
  /\ GraphOK(g)
  /\ Shaped(g)
  /\ \A p \in DOMAIN g.node :
       /\ Last(p) > -20
       /\ g.node[p].kind \notin {"AlternativesPossessive", "SingleRollbackPointSequence",
                                "FixedLengthElementSequence"}

ASSUME SourceGraphsAssumption == \A g \in SourceGraphs : SourceOK(g)

VARIABLES
  source,    \* the graph as it was given
  graph,     \* the graph as it is now
  pass,      \* number of the pass in Passes; 0 before the call, beyond the last: done
  changed,   \* something_changed
  visited,   \* visited_nodes_set of the walk
  agenda     \* what the walk still has to visit, the next one first

optimizerVars == <<source, graph, pass, changed, visited, agenda>>

\* The order OptimizeRegexGraph applies the optimizations in.
Passes ==
  <<"SymbolsCombining", "AlternativeStartUnite", "SymbolsCombining", "AlternativeStartUnite",
    "SymbolsCombining", "AlternativeStartUnite", "AlternativesPossessification",
    "SequenceWithSingleRollbackPoint", "FixedLengthElementSequence">>

\* The passes that walk again until a walk changes nothing.
RepeatedPasses == {"SymbolsCombining", "AlternativeStartUnite"}

-----------------------------------------------------------------------------
(***************************************************************************)
(* The walk.                                                               *)
(***************************************************************************)
\* A fault: nullptr is visited too.
ToVisitNull(ps, seen) == SelectSeq(ps, LAMBDA p : p \notin seen)

\* What of the pointers ps is to be visited at all.
ToVisit(ps, seen) ==
  LET ofFirst[k \in 0..Len(ps)] ==
        IF k = 0 THEN <<>>
        ELSE ofFirst[k - 1] \o IF ps[k] \in seen \cup {nullptr} THEN <<>> ELSE <<ps[k]>>
  IN ofFirst[Len(ps)]

\* Where EnumerateAllNodesOnce goes from a node, in order.
Successors(n) ==
  CASE n.kind = "Alternatives" -> n.next
    [] n.kind = "AlternativesPossessive" -> <<n.path0_element, n.path0_next, n.path1_next>>
    [] n.kind \in LookKinds -> <<n.look_graph, n.next>>
    [] n.kind = "ConditionalElement" -> <<n.condition_node, n.next_true, n.next_false>>
    [] n.kind = "SequenceCounter" -> <<n.next_iteration, n.next_sequence_end>>
    [] n.kind \in LoopKinds -> <<n.sequence_element, n.next>>
    [] n.kind = "AtomicGroup" -> <<n.group_element, n.next>>
    [] n.kind = "SubroutineEnter" -> <<n.subroutine_node, n.next>>
    [] n.kind = "SubroutineLeave" -> <<>>
    [] OTHER -> <<n.next>>

\* A fault: a pass that is repeated does not forget the last walk's changes.
WalkFromChanged(g, k) ==
  /\ pass' = k
  /\ UNCHANGED changed
  /\ visited' = {}
  /\ agenda' = ToVisit(<<g.root>>, {})

WalkFrom(g, k) ==
  /\ pass' = k
  /\ changed' = FALSE
  /\ visited' = {}
  /\ agenda' = ToVisit(<<g.root>>, {})

OptimizerInit ==
  /\ source = NoGraph
  /\ graph = NoGraph
  /\ pass = 0
  /\ changed = FALSE
  /\ visited = {}
  /\ agenda = <<>>

OptimizeRegexGraph(g) ==
  /\ pass = 0
  /\ source' = g
  /\ graph' = g
  /\ WalkFrom(g, 1)

Optimizing == pass \in DOMAIN Passes
IsOptimized == pass > Len(Passes)

\* A fault: the walk goes on to the successors the node had before.
VisitNodeAsItWas ==
  /\ Optimizing
  /\ agenda # <<>>
  /\ LET p     == Head(agenda)
         nodes == Optimization(graph, p, Passes[pass])
         seen  == visited \cup {p}
     IN /\ graph' = [graph EXCEPT !.node = Over(nodes, @)]
        /\ changed' = (changed \/ nodes # Unchanged)
        /\ visited' = seen
        /\ agenda' = ToVisit(Successors(graph.node[p]) \o Tail(agenda), seen)
  /\ UNCHANGED <<source, pass>>

VisitNode ==
  /\ Optimizing
  /\ agenda # <<>>
  /\ LET p     == Head(agenda)
         nodes == Optimization(graph, p, Passes[pass])
         seen  == visited \cup {p}
     IN /\ graph' = [graph EXCEPT !.node = Over(nodes, @)]
        /\ changed' = (changed \/ nodes # Unchanged)
        /\ visited' = seen
        /\ agenda' = ToVisit(Successors(graph'.node[p]) \o Tail(agenda), seen)
  /\ UNCHANGED <<source, pass>>

\* The walk was not the last one of its pass.
WalkAgain ==
  /\ Optimizing
  /\ agenda = <<>>
  /\ Passes[pass] \in RepeatedPasses /\ changed
  /\ WalkFrom(graph, pass)
  /\ UNCHANGED <<source, graph>>

NextPass ==
  /\ Optimizing
  /\ agenda = <<>>
  /\ ~(Passes[pass] \in RepeatedPasses /\ changed)
  /\ WalkFrom(graph, pass + 1)
  /\ UNCHANGED <<source, graph>>

Optimize == VisitNode \/ WalkAgain \/ NextPass

\* The call has returned.
OptimizerReturned == IsOptimized /\ UNCHANGED optimizerVars

OptimizerNext ==
  (\E g \in SourceGraphs : OptimizeRegexGraph(g)) \/ Optimize \/ OptimizerReturned

OptimizerSpec == OptimizerInit /\ [][OptimizerNext]_optimizerVars /\ WF_optimizerVars(Optimize)
-----------------------------------------------------------------------------
(***************************************************************************)
(* Properties.                                                             *)
(***************************************************************************)
\* The graph is a graph after every step, with pointers to nodes only, and the
\* walk keeps to its nodes.
OptimizerTypeOK ==
  /\ GraphOK(graph)
  /\ pass \in 0..(Len(Passes) + 1)
  /\ changed \in BOOLEAN
  /\ visited \subseteq DOMAIN graph.node
  /\ agenda \in Seq(DOMAIN graph.node)

\* No rewriting joins what a call, a look, an atomic group or a possessive
\* construct keeps apart, and none comes between a StateSave and its
\* StateRestore: the matcher's return stack and saved_state rely on it.
NestingKept == WellNested(graph) /\ SavesPaired(graph)

\* No rewriting makes a way past the start of a group, or past the reset of a
\* loop's counter, to what relies on it, and no graph of its own comes to rely on
\* one outside: the matchers read both with no check that they were written.
StoringKept == StoresFirst(graph)

\* No part of the graph escapes an optimization: when a walk is over it has
\* visited every node the matcher can get to now, new ones and subroutines
\* included.
WalkReachesAll ==
  LET leads(n) == ContinuationsOf(n) \cup SubgraphsOf(n) \cup SubroutinesOf(n)
  IN agenda = <<>> => ReachedFrom(graph, {graph.root}, leads) \subseteq visited

\* A possessive choice stays justified by its start symbols: nothing a later
\* pass makes of the second branch lets it begin with what the first begins
\* with.
PossessiveStaysExclusive ==
  \A p \in DOMAIN graph.node :
    LET n == graph.node[p]
    IN n.kind = "AlternativesPossessive" =>
         ~HasIntersection(GetPossibleStartSymbols(graph, n.path0_element),
                          GetPossibleStartSymbols(graph, n.path1_next))

\* All symbols are characters, and classes are what they list.
PlainSymbols(g) ==
  LET plain(c) == ValidCode(c) /\ c # 0
  IN \A p \in DOMAIN g.node :
       LET n == g.node[p]
       IN /\ n.kind = "SpecificSymbol" => plain(n.code)
          /\ n.kind = "OneOf" =>
               /\ ~n.inverse_flag
               /\ \A c \in n.variants \cup UNION { {r[1], r[2]} : r \in ToSet(n.ranges) } :
                    plain(c)

\* Whatever a loop with a fixed element length can read in one round has that
\* length, and the rounds are nothing but that: the matcher steps back by
\* multiplication.
LoopLengthsExact == LoopsExact(graph)

\* The passes that are repeated until nothing changes come to an end.
OptimizerEnds == pass = 1 ~> IsOptimized
=============================================================================
