------------------------- MODULE MCGeneratedMatcher -------------------------
(***************************************************************************)
(* Instances of GeneratedMatcher: code for graphs of expressions with      *)
(* groups, calls and nested repetitions, and for graphs with the nodes     *)
(* that only the optimizer makes.                                          *)
(***************************************************************************)
EXTENDS GeneratedMatcher, ExampleGraphs

CodeFor(p) == CreateStateType(BuildRegexGraph(p.chain, p.options), GroupStats(p.chain),
                              p.options.extract_groups)
CodesFor(patterns)    == { CodeFor(p) : p \in patterns }
OptimizedFor(p, name) == [CodeFor(p) EXCEPT !.graph = Rewritten(@, name)]

CallsOf(codes, strings, offsets) ==
  { c \in { [code |-> code, str |-> s, start_offset |-> o, subpattern_count |-> 2] :
              code \in codes, s \in strings, o \in offsets } : c.start_offset <= Len(c.str) }

MCInputs ==
  CallsOf(CodesFor(GroupPatterns \cup LookPatterns), Texts({97, 98}, 3), {0, 1})
  \cup CallsOf({ OptimizedFor(p, name) : p \in GroupPatterns, name \in Rewritings },
              Texts({97, 98}, 3), {0})
  \cup CallsOf({ OptimizedFor(p, name) : p \in TextPatterns,
                   name \in Rewritings \ {"FixedLengthElementSequence"} },
              Texts({97, 98}, 2) \cup { s.str : s \in TextSubjects }, {0})

\* The graphs are what the theorems of GeneratedProofs ask for.
ASSUME InputsOrderly ==
  \A c \in MCInputs : /\ WellNested(c.code.graph) /\ SavesPaired(c.code.graph)
                      /\ LoopsExact(c.code.graph) /\ StoresFirst(c.code.graph)
                      /\ ByteLoops(c.code.graph)
=============================================================================
