--------------------------- MODULE ExampleGraphs ---------------------------
(***************************************************************************)
(* Graphs to match with: as they are built from the expressions, and with  *)
(* the nodes that only the optimizer makes.                                *)
(***************************************************************************)
EXTENDS Expressions, GraphOptimizations

GraphsOf(patterns) == { BuildRegexGraph(p.chain, p.options) : p \in patterns }

\* An optimization applied to every node once.
RECURSIVE RewrittenAt(_, _, _)
RewrittenAt(g, name, ps) ==
  IF ps = {} THEN g
  ELSE LET p == CHOOSE q \in ps : TRUE
       IN RewrittenAt([g EXCEPT !.node = Over(Optimization(g, p, name), @)], name, ps \ {p})
Rewritten(g, name) == RewrittenAt(g, name, DOMAIN g.node)

Rewritings ==
  {"SymbolsCombining", "AlternativesPossessification",
   "SequenceWithSingleRollbackPoint", "FixedLengthElementSequence"}
=============================================================================
