---------------------------- MODULE BothMatchers ----------------------------
(***************************************************************************)
(* The two ways to match: a graph that has been built, and optimized or    *)
(* not, is run on a string by the interpreter, and again by the function   *)
(* generated for it.                                                       *)
(***************************************************************************)
EXTENDS RegPanzer

VARIABLES
  generated,     \* "none" yet, "function", or why there is no function
  llvm_module,   \* what the generated functions work with
  args, current_start_offset, gpc, function, gstate, res, gstack, out   \* of the function

Function ==
  INSTANCE GeneratedMatcher WITH Inputs <- {}, pc <- gpc, state <- gstate, stack <- gstack

generatorState == <<generated, llvm_module>>
functionState  == <<args, current_start_offset, gpc, function, gstate, res, gstack, out>>
allVars        == <<vars, generatorState, functionState>>

BothInit ==
  /\ Init
  /\ Function!Init
  /\ generated = "none"
  /\ llvm_module = Function!NoFunction

\* A field of RegexGraphBuildResult that comes with the graph.
group_stats == GroupStats(pattern.chain)

CompileBoth ==
  \E b \in Built : CompilePattern(b) /\ UNCHANGED <<generatorState, functionState>>
OptimizeBoth == Optimize /\ UNCHANGED <<generatorState, functionState>>

GenerateMatcherFunction ==
  /\ Optimizer!IsOptimized
  /\ generated = "none"
  /\ llvm_module' = Function!CreateStateType(graph, group_stats, pattern.options.extract_groups)
  /\ generated' = Function!Generated(llvm_module')
  /\ UNCHANGED <<vars, functionState>>

Interpret ==
  /\ generated # "none"
  /\ CallMatch \/ RunMatch
  /\ UNCHANGED <<generatorState, functionState>>

\* The function is called with the arguments Match has had.
CallFunction ==
  /\ pc = "done"
  /\ generated = "function"
  /\ Function!CallRoot([code |-> llvm_module, str |-> input.str, start_offset |-> input.start_pos,
                        subpattern_count |-> graph.group_count])
  /\ UNCHANGED <<vars, generatorState>>

RunFunction == Function!Run /\ UNCHANGED <<vars, generatorState>>

BothReturned ==
  /\ pc = "done"
  /\ generated = "function" => gpc = "end"
  /\ UNCHANGED allVars

Continue == OptimizeBoth \/ GenerateMatcherFunction \/ Interpret \/ CallFunction \/ RunFunction

BothNext == CompileBoth \/ Continue \/ BothReturned

\* Whoever compiles a pattern goes on with it.
BothSpec == BothInit /\ [][BothNext]_allVars /\ WF_allVars(Continue)

\* The function answers what the interpreter answers: both find nothing, or both
\* the same text, and the same text for every group.  The tests of both are
\* given the same data (g_matcher_test_data).
SameAnswer ==
  gpc = "end" =>
    /\ out.count = result.count
    /\ \A g \in DOMAIN result.out_groups :
         LET v == result.out_groups[g]
         IN out.subpatterns[g] = [begin |-> v.at, end |-> v.at + v.size]

\* Every graph gets a function: the builder gives the nodes no group and no
\* counter the State of the function has no field for (group_number_to_field_number_.at
\* and sequence_id_to_counter_filed_number_.at throw for one).
GenerationSucceeds == generated # "threw"

\* "Do not call state copy functions in last alternative, just call alternative
\* node function with initial state and return call result": nothing is emitted
\* after that return.
NothingAfterRet == generated # "malformed"

\* Once there is a graph, the function is generated, called and returns.
FunctionAnswers == pass # 0 ~> (generated # "function" /\ pc = "done") \/ gpc = "end"
=============================================================================
