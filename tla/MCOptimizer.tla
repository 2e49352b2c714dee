---------------------------- MODULE MCOptimizer ----------------------------
(***************************************************************************)
(* The optimizer on the graphs of all the families of expressions.         *)
(***************************************************************************)
EXTENDS RegexGraphOptimizer, Expressions

AllGraphs ==
  { BuildRegexGraph(p.chain, p.options) :
      p \in FamilyPatterns \cup GroupPatterns \cup LookPatterns \cup TextPatterns }

HasInvertedClass(g) ==
  \E p \in DOMAIN g.node : g.node[p].kind = "OneOf" /\ g.node[p].inverse_flag

MCSourceGraphs  == { g \in AllGraphs : ~HasInvertedClass(g) }
InvertedClasses == { g \in AllGraphs : HasInvertedClass(g) }

\* What the lengths of loops are proved for.
ASSUME SourcesArePlain == \A g \in MCSourceGraphs : PlainSymbols(g)
=============================================================================
