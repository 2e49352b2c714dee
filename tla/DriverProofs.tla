---------------------------- MODULE DriverProofs ----------------------------
(***************************************************************************)
(* Theorems about CompilerDriver: what the compiler leaves in the file,    *)
(* and what its exit code says of it, whatever fails on the way, for every *)
(* number of writes, every command line and whatever the parser and the    *)
(* builder make of the expression.                                         *)
(***************************************************************************)
EXTENDS CompilerDriver, TLAPS

-----------------------------------------------------------------------------
(***************************************************************************)
(* The inductive invariant: what is known at each stage.                   *)
(***************************************************************************)
StreamType == [fd : {"closed", "open", "invalid"}, chunk : 1..(Chunks + 1), has_error : BOOLEAN]

\* Nothing has been opened yet.
Untouched == out_file = OldFile /\ stream = NoStream

\* The options and the expression have no error.
Accepted == command_line.optimization_level # "unknown" /\ result.errors = <<>>

\* The stream is at its next write, and when none has failed so far all before
\* it have reached the file.
Written ==
  /\ stream.fd # "closed"
  /\ ~stream.has_error =>
       /\ stream.fd = "open" => out_file.kind = command_line.file_type
       /\ stream.fd = "open" => out_file.written = 1..(stream.chunk - 1)
       /\ stream.fd = "open" \/ stream.chunk = 1

\* All of the module that has been asked for is in the file, unless a write has failed.
Complete ==
  /\ Accepted
  /\ module.level = command_line.optimization_level
  /\ ~stream.has_error /\ out_file = [kind |-> command_line.file_type, written |-> 1..Chunks]

StageInv ==
  /\ out_file = [kind |-> out_file.kind, written |-> out_file.written]
  /\ stream \in StreamType
  /\ stage \in {"options", "target", "parse", "build", "optimize", "open", "terminated"} => Untouched
  /\ stage \in {"target", "parse"} => command_line.optimization_level # "unknown"
  /\ stage \in {"build", "optimize", "open", "emit", "flush"} => Accepted
  /\ stage \in {"open", "emit", "flush"} => module.level = command_line.optimization_level
  /\ stage \in {"emit", "flush"} => Written
  /\ stage \in {"exit", "exited"} =>
       out_file = OldFile \/ (Accepted /\ module.level = command_line.optimization_level)
  /\ stage \in {"exit", "exited"} /\ exit_code = "0" => Complete

DriverInv == DriverTypeOK /\ StageInv

LEMMA InitDriver ==
  ASSUME DriverInit
  PROVE  DriverInv
BY ChunksAssumption
   DEF DriverInit, DriverInv, DriverTypeOK, StageInv, StreamType, Untouched, OldFile, NoStream

-----------------------------------------------------------------------------
(***************************************************************************)
(* The stages before the file is opened.                                   *)
(***************************************************************************)
LEMMA OptionsStep ==
  ASSUME DriverInv, SelectOptimizationLevel \/ PrepareTargetMachine
  PROVE  DriverInv'
BY DEF DriverInv, DriverTypeOK, StageInv, StreamType, Untouched, OldFile, NoStream, Complete,
       SelectOptimizationLevel, PrepareTargetMachine, GoOn, Return, driver, output, parserState

\* The parser may do what it likes: nothing has been accepted yet.
LEMMA ParseStep ==
  ASSUME DriverInv, ParseRegexString
  PROVE  DriverInv'
BY DEF DriverInv, DriverTypeOK, StageInv, StreamType, Untouched, OldFile, NoStream,
       ParseRegexString, driver, output

LEMMA CheckParseErrorsStep ==
  ASSUME DriverInv, CheckParseErrors
  PROVE  DriverInv'
BY DEF DriverInv, DriverTypeOK, StageInv, StreamType, Untouched, OldFile, NoStream, Accepted,
       Complete, CheckParseErrors, GoOn, Return, driver, output, parserState

LEMMA BuildStep ==
  ASSUME DriverInv, Build
  PROVE  DriverInv'
<1>1. /\ stage = "build"
      /\ UNCHANGED <<module, out_file, stream, result>>
      /\ \/ stage' = "optimize" /\ UNCHANGED <<command_line, exit_code>>
         \/ stage' = "terminated" /\ exit_code' = "abort" /\ UNCHANGED command_line
  BY DEF Build, UseGraph, Terminate, GoOn, driver, output, parserState
<1> QED
  BY <1>1 DEF DriverInv, DriverTypeOK, StageInv, StreamType, Untouched, OldFile, NoStream,
              Accepted

LEMMA OptimizeStep ==
  ASSUME DriverInv, OptimizeRegexGraph \/ Generate
  PROVE  DriverInv'
BY DEF DriverInv, DriverTypeOK, StageInv, StreamType, Untouched, OldFile, NoStream, Accepted,
       OptimizeRegexGraph, Generate, GoOn, driver, output, parserState

-----------------------------------------------------------------------------
(***************************************************************************)
(* The stages of the file.                                                 *)
(***************************************************************************)
LEMMA OpenStep ==
  ASSUME DriverInv, OpenStream
  PROVE  DriverInv'
<1>1. /\ stage = "open"
      /\ stage' = "emit"
      /\ UNCHANGED <<module, result, command_line, exit_code>>
      /\ \/ /\ stream' = [NoStream EXCEPT !.fd = "open"]
            /\ out_file' = [kind |-> command_line.file_type, written |-> {}]
         \/ /\ stream' = [NoStream EXCEPT !.fd = "invalid"]
            /\ UNCHANGED out_file
  BY DEF OpenStream, GoOn, driver, parserState
<1>2. Written'
  BY <1>1 DEF Written, NoStream
<1>3. stream' \in StreamType
  <2>1. PICK fd \in {"open", "invalid"} :
          stream' = [fd |-> fd, chunk |-> 1, has_error |-> FALSE]
    BY <1>1 DEF NoStream
  <2>2. 1 \in 1..(Chunks + 1)
    BY ChunksAssumption
  <2> QED
    BY <2>1, <2>2 DEF StreamType
<1> QED
  BY <1>1, <1>2, <1>3, ChunksAssumption
     DEF DriverInv, DriverTypeOK, StageInv, StreamType, Untouched, OldFile, NoStream, Accepted

LEMMA WriteChunkStep ==
  ASSUME DriverInv, stage \in {"emit", "flush"}, WriteChunk, UNCHANGED <<module, parserState>>
  PROVE  DriverInv'
<1>1. /\ UNCHANGED <<module, result, command_line, exit_code, stage>>
      /\ stream.chunk <= Chunks
      /\ \/ /\ stream.fd = "open"
            /\ out_file' = [out_file EXCEPT !.written = @ \cup {stream.chunk}]
            /\ stream' = [stream EXCEPT !.chunk = @ + 1]
         \/ /\ stream' = [stream EXCEPT !.chunk = @ + 1, !.has_error = TRUE]
            /\ UNCHANGED out_file
  BY DEF WriteChunk, driver, parserState
<1>2. /\ stream \in StreamType /\ Written
      /\ out_file = [kind |-> out_file.kind, written |-> out_file.written]
      /\ out_file.written \subseteq 1..Chunks
  BY DEF DriverInv, DriverTypeOK, StageInv
<1>3. CASE /\ stream.fd = "open"
           /\ out_file' = [out_file EXCEPT !.written = @ \cup {stream.chunk}]
           /\ stream' = [stream EXCEPT !.chunk = @ + 1]
  <2>1. /\ stream'.chunk = stream.chunk + 1 /\ stream.chunk \in 1..Chunks
        /\ stream'.fd = "open" /\ stream'.has_error = stream.has_error
        /\ stream' \in StreamType
    BY <1>1, <1>2, <1>3, ChunksAssumption DEF StreamType
  <2>2. /\ out_file'.kind = out_file.kind
        /\ out_file'.written = out_file.written \cup {stream.chunk}
        /\ out_file' = [kind |-> out_file'.kind, written |-> out_file'.written]
    BY <1>2, <1>3
  <2>3. 1..stream.chunk = 1..(stream.chunk - 1) \cup {stream.chunk}
    BY <2>1
  <2>4. Written'
    <3>1. stream'.chunk - 1 = stream.chunk
      BY <2>1
    <3> SUFFICES ASSUME ~stream'.has_error
                 PROVE  /\ out_file'.kind = command_line'.file_type
                        /\ out_file'.written = 1..(stream'.chunk - 1)
      BY <2>1 DEF Written
    <3>2. out_file.kind = command_line.file_type /\ out_file.written = 1..(stream.chunk - 1)
      BY <1>2, <1>3, <2>1 DEF Written
    <3> QED
      BY <1>1, <2>2, <2>3, <3>1, <3>2
  <2>5. out_file'.written \subseteq 1..Chunks
    BY <1>2, <2>1, <2>2
  <2>6. stream'.chunk \in 1..(Chunks + 1)
    BY <2>1 DEF StreamType
  <2> QED
    BY <1>1, <1>3, <2>1, <2>2, <2>4, <2>5, <2>6 DEF DriverInv, DriverTypeOK, StageInv, Accepted
<1>4. CASE /\ stream' = [stream EXCEPT !.chunk = @ + 1, !.has_error = TRUE]
           /\ UNCHANGED out_file
  <2>1. /\ stream'.has_error /\ stream'.fd = stream.fd /\ stream' \in StreamType
        /\ stream'.chunk \in 1..(Chunks + 1)
    <3>1. stream.chunk + 1 \in 1..(Chunks + 1)
      BY <1>1, <1>2, ChunksAssumption DEF StreamType
    <3>2. stream' = [fd |-> stream.fd, chunk |-> stream.chunk + 1, has_error |-> TRUE]
      BY <1>2, <1>4 DEF StreamType
    <3> QED
      BY <1>2, <3>1, <3>2 DEF StreamType
  <2>2. Written'
    BY <1>2, <2>1 DEF Written
  <2> QED
    BY <1>1, <1>2, <1>4, <2>1, <2>2 DEF DriverInv, DriverTypeOK, StageInv, Accepted, Written
<1> QED
  BY <1>1, <1>3, <1>4

LEMMA EmitStep ==
  ASSUME DriverInv, Emit
  PROVE  DriverInv'
<1>1. CASE WriteChunk
  BY <1>1, WriteChunkStep DEF Emit
<1>2. CASE AddPassesToEmitFile
  BY <1>2 DEF Emit, AddPassesToEmitFile, Return, DriverInv, DriverTypeOK, StageInv, Accepted,
              output, parserState
<1>3. CASE GoOn("flush") /\ UNCHANGED output
  BY <1>3 DEF Emit, GoOn, DriverInv, DriverTypeOK, StageInv, Accepted, Written, driver, output,
              parserState
<1> QED
  BY <1>1, <1>2, <1>3 DEF Emit

LEMMA FlushStep ==
  ASSUME DriverInv, Flush
  PROVE  DriverInv'
<1>1. CASE WriteChunk
  BY <1>1, WriteChunkStep DEF Flush
<1>2. CASE /\ stream.chunk > Chunks
           /\ Return(IF stream.has_error THEN "1" ELSE "0")
           /\ UNCHANGED output
  <2>1. /\ stage = "flush"
        /\ UNCHANGED <<module, result, command_line, out_file, stream>>
        /\ stage' = "exit" /\ exit_code' = IF stream.has_error THEN "1" ELSE "0"
    BY <1>2 DEF Flush, Return, output, parserState
  <2>2. /\ Accepted /\ Written /\ stream \in StreamType
        /\ module.level = command_line.optimization_level
        /\ out_file = [kind |-> out_file.kind, written |-> out_file.written]
    BY <2>1 DEF DriverInv, StageInv
  <2>3. stream.chunk = Chunks + 1
    BY <1>2, <2>2, ChunksAssumption DEF StreamType
  <2>4. ~stream.has_error => Complete
    <3>1. stream.chunk # 1 /\ stream.chunk - 1 = Chunks
      BY <2>3, ChunksAssumption
    <3> QED
      BY <2>2, <3>1 DEF Complete, Written
  <2>5. Complete => Complete'
    BY <2>1 DEF Complete, Accepted
  <2> QED
    BY <2>1, <2>2, <2>4, <2>5 DEF DriverInv, DriverTypeOK, StageInv, Accepted
<1> QED
  BY <1>1, <1>2 DEF Flush

LEMMA CloseStep ==
  ASSUME DriverInv, CloseStream
  PROVE  DriverInv'
<1>1. /\ stage = "exit" /\ stage' = "exited" /\ stream' = NoStream
      /\ UNCHANGED <<command_line, module, out_file, result>>
      /\ exit_code' \in {"1", exit_code}
  BY DEF CloseStream, parserState
<1>2. NoStream \in StreamType /\ NoStream.chunk \in 1..(Chunks + 1) /\ ~NoStream.has_error
  BY ChunksAssumption DEF StreamType, NoStream
<1> QED
  BY <1>1, <1>2 DEF DriverInv, DriverTypeOK, StageInv, Accepted, Complete

-----------------------------------------------------------------------------
(***************************************************************************)
(* The compiler.                                                           *)
(***************************************************************************)
LEMMA DriverStep ==
  ASSUME DriverInv, [DriverNext]_vars
  PROVE  DriverInv'
<1>1. CASE UNCHANGED vars
  BY <1>1 DEF vars, driver, output, parserState, DriverInv, DriverTypeOK, StageInv, Untouched,
              Accepted, Written, Complete
<1>2. CASE DriverNext /\ ~Exited
  BY <1>2, OptionsStep, ParseStep, CheckParseErrorsStep, BuildStep, OptimizeStep, OpenStep,
     EmitStep, FlushStep, CloseStep
     DEF DriverNext, Main
<1> QED
  BY <1>1, <1>2 DEF Exited

LEMMA DriverKeeps == DriverSpec => []DriverInv
<1> QED
  BY InitDriver, DriverStep, PTL DEF DriverSpec

\* Main has an exit code just when it has returned or been terminated, and never
\* writes beyond the module or to a stream that has not been opened.
THEOREM DriverTypeCorrect == DriverSpec => []DriverTypeOK
BY DriverKeeps, PTL DEF DriverInv

\* A wrong option, a target that is not there, an error in the expression and an
\* exception leave what an earlier run of the compiler has written.
THEOREM OldFileIsKept == DriverSpec => []OldFileKept
<1>1. DriverInv => OldFileKept
  BY DEF DriverInv, DriverTypeOK, StageInv, Untouched, Accepted, OldFile, NoModule,
         OldFileKept
<1> QED
  BY <1>1, DriverKeeps, PTL

\* Exit code 0 means that every write of the module that was asked for has reached
\* the file, although errors are only asked for at the end.
THEOREM SuccessIsComplete == DriverSpec => []SuccessIsWhole
<1>1. DriverInv => SuccessIsWhole
  BY DEF DriverInv, StageInv, Accepted, Complete, SuccessIsWhole
<1> QED
  BY <1>1, DriverKeeps, PTL

=============================================================================
