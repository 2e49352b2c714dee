----------------------------- MODULE RegPanzer -----------------------------
(***************************************************************************)
(* The library end to end, with the interpreter: the graph of a pattern is *)
(* built, optimized or not, and run on a string.                           *)
(***************************************************************************)
EXTENDS RegexGraphBuilder

\* A sequence of families: patterns, [chain, options], and the subjects each of
\* them is searched in, [str, start_pos].
CONSTANT Families

VARIABLES
  pattern,
  source, graph, pass, changed, visited, agenda,              \* of the optimizer
  input, i, pc, node, state, answer, stack, result            \* of the matcher

\* Every pattern with its graph.
Built ==
  UNION { { [pattern |-> p, graph |-> BuildRegexGraph(p.chain, p.options)] :
              p \in Families[f].patterns } : f \in DOMAIN Families }

\* Which graphs and calls they get is decided here.
Optimizer == INSTANCE RegexGraphOptimizer WITH SourceGraphs <- {}
Interpreter == INSTANCE Matcher WITH Inputs <- {}

optimizerState   == <<source, graph, pass, changed, visited, agenda>>
interpreterState == <<input, i, pc, node, state, answer, stack, result>>
vars == <<pattern, optimizerState, interpreterState>>

Init ==
  /\ Optimizer!OptimizerInit
  /\ Interpreter!Init
  /\ pattern = [chain |-> <<>>]

\* The graph is built, and given to the optimizer or used as it is.
BuildAndOptimize(b) ==
  /\ Optimizer!OptimizeRegexGraph(b.graph)
  /\ pattern' = b.pattern
  /\ UNCHANGED interpreterState

BuildOnly(b) ==
  /\ pass = 0
  /\ source' = b.graph
  /\ graph' = b.graph
  /\ Optimizer!WalkFrom(b.graph, Len(Optimizer!Passes) + 1)
  /\ pattern' = b.pattern
  /\ UNCHANGED interpreterState

Optimize == Optimizer!Optimize /\ UNCHANGED <<pattern, interpreterState>>

CompilePattern(b) == pass = 0 /\ (BuildAndOptimize(b) \/ BuildOnly(b))

Compile == \E b \in Built : CompilePattern(b)

CallMatch ==
  /\ Optimizer!IsOptimized
  /\ \E f \in DOMAIN Families :
       /\ pattern \in Families[f].patterns
       /\ \E s \in Families[f].subjects :
            Interpreter!Call([graph |-> graph, str |-> s.str, start_pos |-> s.start_pos,
                              out_groups_count |-> graph.group_count])
  /\ UNCHANGED <<pattern, optimizerState>>

RunMatch == Interpreter!Run /\ UNCHANGED <<pattern, optimizerState>>

Returned == Interpreter!Returned /\ UNCHANGED <<pattern, optimizerState>>

Next == Compile \/ Optimize \/ CallMatch \/ RunMatch \/ Returned

\* Nobody has to compile a pattern; who does goes on to match with it.
Spec ==
  Init /\ [][Next]_vars /\ WF_vars(Optimize) /\ WF_vars(CallMatch) /\ WF_vars(RunMatch)

(***************************************************************************)
(* Seen from outside: a query that has no reply until Match returns.       *)
(***************************************************************************)
Query ==
  IF pc = "idle" THEN [chain |-> <<>>]
  ELSE [chain |-> pattern.chain, multiline |-> pattern.options.multiline,
        str |-> input.str, start_pos |-> input.start_pos,
        asked |-> IF pattern.options.extract_groups
                  THEN IndicesOf(OfKind(ElementsIn(pattern.chain, <<>>), "Group"))
                  ELSE {}]

Reply ==
  IF pc # "done" THEN [found |-> FALSE, pending |-> TRUE]
  ELSE IF result.count = 0 THEN [found |-> FALSE]
  ELSE [found |-> TRUE, at |-> result.out_groups[0].at, size |-> result.out_groups[0].size,
        groups |-> [g \in Query.asked |-> result.out_groups[g]]]

Abstract == INSTANCE RegexSearch WITH query <- Query, reply <- Reply

\* Match replies what the meaning of the expression says, whether or not the
\* graph went through the optimizer.
ImplementsSearch == Abstract!Spec

\* Once a pattern has a graph, the optimizer comes to an end and Match returns.
Terminates == pass # 0 ~> pc = "done"

(***************************************************************************)
(* The statistics of groups the builder works from.                        *)
(***************************************************************************)
\* Every cycle of calls has a group that is marked as recursive - among any
\* groups that are not, one calls none of the others - so that what a call inside
\* a call could overwrite is saved at least once on the way around.
CyclesAreCut ==
  pc = "idle" =>
    LET stats    == GroupStats(pattern.chain)
        unmarked == { g \in DOMAIN stats : ~stats[g].recursive }
    IN \A S \in SUBSET unmarked \ {{}} : \E g \in S : stats[g].internal_calls \cap S = {}
=============================================================================
