--------------------------- MODULE CompilerDriver ---------------------------
(***************************************************************************)
(* RegPanzerCompiler, from its command line to its exit code: Main of      *)
(* Compiler/main.cpp with the parser, the builder and the optimizer it     *)
(* calls.  LLVM and the file system are external: a target may not exist,  *)
(* a file may not be opened, every write may fail.                         *)
(***************************************************************************)
EXTENDS RegexGraph

CONSTANTS
  CommandLines,   \* [input_regex, options, no_graph_optimizations, optimization_level, file_type]
  Built,          \* of every expression [chain, options, graphs]: BuildRegexGraph gives a graph
                  \* of graphs, or throws when there is none
  Chunks          \* in how many writes a module reaches its file

ASSUME ChunksAssumption == Chunks \in Nat \ {0}

VARIABLES
  command_line, stage, exit_code,
  module,         \* what has been generated
  out_file,       \* the file of that name
  stream,         \* out_file_stream
  str, pos, next_group_index, errors, pc, stack, one_of, returned, result,   \* of the parser
  source, graph, pass, changed, visited, agenda                              \* of the optimizer

Parsing   == INSTANCE Parser WITH PatternTexts <- {}
Optimizer == INSTANCE RegexGraphOptimizer WITH SourceGraphs <- {}

parserState    == <<str, pos, next_group_index, errors, pc, stack, one_of, returned, result>>
optimizerState == <<source, graph, pass, changed, visited, agenda>>
output == <<out_file, stream>>
driver == <<command_line, exit_code>>
vars   == <<driver, stage, module, output, parserState, optimizerState>>

NoModule   == [graph |-> NoGraph, level |-> "unknown"]
OldFile    == [kind |-> "old", written |-> {}]
NoStream   == [fd |-> "closed", chunk |-> 1, has_error |-> FALSE]

DriverInit ==
  /\ command_line \in CommandLines
  /\ stage = "options"
  /\ exit_code = "none"
  /\ module = NoModule
  /\ out_file = OldFile
  /\ stream = NoStream
  /\ Parsing!Init
  /\ Optimizer!OptimizerInit

\* Main returns code, and its locals are destroyed: see CloseStream.
Return(code) == stage' = "exit" /\ exit_code' = code /\ UNCHANGED command_line
GoOn(next)   == stage' = next /\ UNCHANGED driver

(***************************************************************************)
(* Options and target.                                                     *)
(***************************************************************************)
SelectOptimizationLevel ==
  /\ stage = "options"
  /\ IF command_line.optimization_level \in {"0", "1", "2", "3", "s", "z"}
     THEN GoOn("target") ELSE Return("1")
  /\ UNCHANGED <<module, output, parserState, optimizerState>>

\* lookupTarget and createTargetMachine.
PrepareTargetMachine ==
  /\ stage = "target"
  /\ GoOn("parse") \/ Return("1")
  /\ UNCHANGED <<module, output, parserState, optimizerState>>

(***************************************************************************)
(* From the text to a module.                                              *)
(***************************************************************************)
ParseRegexString ==
  /\ stage = "parse"
  /\ \/ pc = "idle" /\ Parsing!Parse(command_line.input_regex)
     \/ Parsing!ParseStep
  /\ UNCHANGED <<driver, stage, module, output, optimizerState>>

\* A fault: the errors are printed, and the chain is used all the same.
CheckParseErrorsPrinted ==
  /\ stage = "parse"
  /\ pc = "done"
  /\ GoOn("build")
  /\ UNCHANGED <<module, output, parserState, optimizerState>>

CheckParseErrors ==
  /\ stage = "parse"
  /\ pc = "done"
  /\ IF result.errors = <<>> THEN GoOn("build") ELSE Return("1")
  /\ UNCHANGED <<module, output, parserState, optimizerState>>

UseGraph(g) ==
  /\ IF command_line.no_graph_optimizations
     THEN /\ source' = g
          /\ graph' = g
          /\ Optimizer!WalkFrom(g, Len(Optimizer!Passes) + 1)
     ELSE Optimizer!OptimizeRegexGraph(g)
  /\ GoOn("optimize")

\* A fault: the exception is caught, and Main ends without a code.
TerminateCaught == stage' = "exit" /\ UNCHANGED <<driver, optimizerState>>

\* group_nodes_.at throws std::out_of_range, which nobody catches.
Terminate ==
  /\ stage' = "terminated"
  /\ exit_code' = "abort"
  /\ UNCHANGED <<command_line, optimizerState>>

Build ==
  \E b \in Built :
    /\ stage = "build"
    /\ b.chain = result.chain /\ b.options = command_line.options
    /\ \/ \E g \in b.graphs : UseGraph(g)
       \/ b.graphs = {} /\ Terminate
    /\ UNCHANGED <<module, output, parserState>>

OptimizeRegexGraph ==
  /\ stage = "optimize"
  /\ Optimizer!Optimize
  /\ UNCHANGED <<driver, stage, module, output, parserState>>

\* GenerateMatcherFunction, and LLVM's own optimizations.
Generate ==
  /\ stage = "optimize"
  /\ Optimizer!IsOptimized
  /\ module' = [graph |-> graph, level |-> command_line.optimization_level]
  /\ GoOn("open")
  /\ UNCHANGED <<output, parserState, optimizerState>>

(***************************************************************************)
(* The output file.                                                        *)
(***************************************************************************)
\* raw_fd_ostream empties the file, or creates it; if it can not, it goes on with
\* a descriptor that no write succeeds with.
OpenStream ==
  /\ stage = "open"
  /\ \/ /\ stream' = [NoStream EXCEPT !.fd = "open"]
        /\ out_file' = [kind |-> command_line.file_type, written |-> {}]
     \/ /\ stream' = [NoStream EXCEPT !.fd = "invalid"]
        /\ UNCHANGED out_file
  /\ GoOn("emit")
  /\ UNCHANGED <<module, parserState, optimizerState>>

\* A fault: the message is printed, Main goes on, and there is nothing to write.
AddPassesToEmitFileUnchecked ==
  /\ GoOn("flush")
  /\ stream' = [stream EXCEPT !.chunk = Chunks + 1]
  /\ UNCHANGED out_file

\* The target can not emit files of this type.  The file has been emptied.
AddPassesToEmitFile == Return("1") /\ UNCHANGED output

\* The next write; what comes after a failed one is written all the same.
WriteChunk ==
  /\ stream.chunk <= Chunks
  /\ \/ /\ stream.fd = "open"
        /\ out_file' = [out_file EXCEPT !.written = @ \cup {stream.chunk}]
        /\ stream' = [stream EXCEPT !.chunk = @ + 1]
     \/ /\ stream' = [stream EXCEPT !.chunk = @ + 1, !.has_error = TRUE]
        /\ UNCHANGED out_file
  /\ UNCHANGED <<driver, stage>>

\* WriteBitcodeToFile, print, or the passes that emit machine code.
Emit ==
  /\ stage = "emit"
  /\ \/ /\ command_line.file_type \in {"Obj", "Asm"}
        /\ stream.chunk = 1
        /\ AddPassesToEmitFile
     \/ stream.chunk < Chunks /\ WriteChunk
     \/ stream.chunk = Chunks /\ GoOn("flush") /\ UNCHANGED output
  /\ UNCHANGED <<module, parserState, optimizerState>>

\* What is still in the buffer is written before errors are asked for.
Flush ==
  /\ stage = "flush"
  /\ \/ WriteChunk
     \/ /\ stream.chunk > Chunks
        /\ Return(IF stream.has_error THEN "1" ELSE "0")
        /\ UNCHANGED output
  /\ UNCHANGED <<module, parserState, optimizerState>>

\* ~raw_fd_ostream: an error nobody has cleared, or that of close, is fatal.
CloseStream ==
  /\ stage = "exit"
  /\ stream' = NoStream
  /\ \E close_error \in IF stream.fd = "open" THEN BOOLEAN ELSE {FALSE} :
       exit_code' = IF stream.has_error \/ close_error THEN "1" ELSE exit_code
  /\ stage' = "exited"
  /\ UNCHANGED <<command_line, module, out_file, parserState, optimizerState>>

Exited == stage \in {"exited", "terminated"} /\ UNCHANGED vars

Main ==
  \/ SelectOptimizationLevel \/ PrepareTargetMachine \/ CheckParseErrors \/ Build
  \/ Generate \/ OpenStream \/ Emit \/ Flush \/ CloseStream

DriverNext == Main \/ ParseRegexString \/ OptimizeRegexGraph \/ Exited

DriverSpec ==
  /\ DriverInit
  /\ [][DriverNext]_vars
  /\ WF_vars(Main) /\ WF_vars(ParseRegexString) /\ WF_vars(OptimizeRegexGraph)
-----------------------------------------------------------------------------
(***************************************************************************)
(* Properties.                                                             *)
(***************************************************************************)
DriverTypeOK ==
  /\ stage \in {"options", "target", "parse", "build", "optimize", "open", "emit",
                "flush", "exit", "exited", "terminated"}
  /\ exit_code \in {"none", "0", "1", "abort"}
  /\ stage \in {"exit", "exited", "terminated"} <=> exit_code # "none"
  /\ out_file.written \subseteq 1..Chunks
  /\ stream.chunk \in 1..(Chunks + 1)
  /\ stream.has_error => stream.fd # "closed"

\* When the optimization is unknown, the target is not there, the pattern has errors or
\* the builder throws, so that no module has been generated or none should be, what an
\* earlier run has left in the file is still there.  That a target can not emit files of
\* the type asked for is only found when the file has been emptied (main.cpp:404).
OldFileKept ==
  \/ command_line.optimization_level = "unknown"
  \/ result.errors # <<>>
  \/ stage = "terminated"
  \/ module = NoModule
  => out_file.kind = "old"

\* Exit code 0 is given only when all of the module has reached the file, in the
\* form asked for, whatever has failed on the way.
SuccessIsWhole ==
  stage = "exited" /\ exit_code = "0" =>
    /\ result.errors = <<>>
    /\ module.level = command_line.optimization_level
    /\ out_file = [kind |-> command_line.file_type, written |-> 1..Chunks]

\* The compiler ends, whatever it is given.
CompilerEnds == <>(stage \in {"exited", "terminated"})
=============================================================================
