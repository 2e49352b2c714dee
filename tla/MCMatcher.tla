----------------------------- MODULE MCMatcher -----------------------------
(***************************************************************************)
(* Instances of Matcher: graphs of expressions with groups, calls and      *)
(* nested repetitions as they are built, and graphs with the nodes that    *)
(* only the optimizer makes.                                               *)
(***************************************************************************)
EXTENDS Matcher, ExampleGraphs

CallsOf(graphs, strings) ==
  { [graph |-> g, str |-> s, start_pos |-> 0, out_groups_count |-> 3] :
      g \in graphs, s \in strings }

MCInputs ==
  CallsOf(GraphsOf(GroupPatterns), Texts({97, 98}, 3))
  \cup CallsOf(GraphsOf(LookPatterns), Texts({97, 98}, 3))
  \cup CallsOf({ Rewritten(g, name) : g \in GraphsOf(TextPatterns \cup GroupPatterns),
                                    name \in Rewritings },
              Texts({97, 98}, 2) \cup { Utf32ToUtf8(t) : t \in Texts({97, 1103}, 3) })

\* The graphs are what the theorems of MatcherCalls ask for; the lengths of loops
\* are looked at when they are made, in MCOptimizer.
ASSUME InputsNested ==
  \A c \in MCInputs : WellNested(c.graph) /\ SavesPaired(c.graph) /\ StoresFirst(c.graph)
=============================================================================
