-------------------------- MODULE MCCompilerDriver --------------------------
(***************************************************************************)
(* A small instance of the compiler.                                       *)
(***************************************************************************)
EXTENDS CompilerDriver, Expressions

Syntax == INSTANCE RegexSyntax WITH PatternTexts <- {}

MCExpressions ==
  { <<>>,
    <<Plus(OneOf({}, << <<97, 122>> >>, FALSE)), Once(a)>>,
    <<In("Lazy", Star(Group(1, <<Once(Alternatives(<<<<Once(a), Opt(SubroutineCall(1)), Once(b)>>,
                                                      Seq1(a)>>))>>)))>>,
    <<Once(ConditionalElement(Look(TRUE, TRUE, Seq1(a)),
                              Alternatives(<<Seq1(ab), <<Repeat(b, 2, CMax, "Possessive")>>>>)))>>,
    <<G(1, Seq1(a)), Once(SubroutineCall(2))>>, Seq1(SubroutineCall(1)) }

\* The expressions as they are written, and what is no expression.
WrittenRegexes == { Syntax!Written(chain) : chain \in MCExpressions }
BrokenRegexes ==
  { Parsing!Codes(s) : s \in
      { <<"(", "a", "|">>, <<"[", "a">>, <<"a", ")">>, <<"a", "{", "2">>, <<"\\">>, <<"(", "?", "<">> } }

MCOptions == [extract_groups : BOOLEAN, multiline : {FALSE}]

\* What is built of every expression, once.
GraphsOfAll ==
  { [chain |-> chain, options |-> options, graphs |-> BuiltGraphs(chain, options)] :
      chain \in MCExpressions, options \in MCOptions }
MCBuilt == GraphsOfAll

MCCommandLines ==
  [input_regex : WrittenRegexes \cup BrokenRegexes,
   options : MCOptions,
   no_graph_optimizations : BOOLEAN,
   optimization_level : {"0", "s", "unknown"},
   file_type : {"BC", "Obj"}]
=============================================================================
