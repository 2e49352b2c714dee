# RegPanzer: models and proofs

RegPanzer compiles regular expressions.  A pattern is parsed into a tree, the tree becomes a graph
of nodes, the optimizer rewrites the graph, and the graph is either interpreted (`Match`) or
translated into machine code with LLVM.  Everything runs in one thread.  What makes the library
hard to get right is not concurrency but backtracking: one mutable `State` is copied, kept in
frames, thrown away and taken up again, calls of subexpressions keep a return stack inside that
State while the data they save lives in C++ frames outside it, and the optimizer replaces general
backtracking by cheaper loops on the strength of conditions that are easy to get almost right.

This directory has TLA+ modules for the parser, the tree, the builder, the optimizer, the
interpreter, the generated code and the compiler's main program; specifications of what a search
should answer and of which texts an expression can be read from; TLC runs that compare them; and
TLAPS proofs about the interpreter, the generated code, the parser, the optimizer and the compiler.

## 1. The parts of the system

| Part | Source | State it keeps | Operations | Modelled by |
|---|---|---|---|---|
| Syntax tree | `RegexElements.hpp` | none; a value | construction, comparison | `RegexElements`, `RegexTree` |
| Parser | `Parser.cpp` | rest of the pattern, group counter, errors, the C++ stack | `ParseRegexString` | `Parser`, `RegexSyntax`, `ParserProofs` |
| Graph | `RegexGraph.hpp` | nodes owned by a storage, pointing at each other | allocation | `RegexGraph` |
| Builder | `RegexGraph.cpp` | group statistics, entries of groups, calls to be connected | `BuildRegexGraph` | `RegexGraphBuilder` |
| Optimizer | `RegexGraphOptimizer.cpp` | the graph, rewritten in place; visited nodes of a walk | `OptimizeRegexGraph` | `GraphOptimizations`, `RegexGraphOptimizer` |
| Interpreter | `Matcher.cpp` | `State` (rest of the string, groups, counters, return stack, chain of saved parts) and the C++ stack | `Match`, `MatchNode` | `Matcher`, `MatcherProofs`, `MatcherCalls` |
| Generator | `MatcherGeneratorLLVM.cpp` | the LLVM module; the generated code has a State of its own layout, and two chains of locals | `GenerateMatcherFunction`, the function it makes | `GeneratedMatcher`, `BothMatchers`, `GeneratedProofs` |
| Compiler driver | `Compiler/main.cpp` | options, output stream, exit code | `Main` | `CompilerDriver`, `DriverProofs` |
| Text conversion | `Utils.cpp` | none | `Utf8ToUtf32`, `Utf32ToUtf8` | `RegexGraph` |
| Tests, benchmarks | `Tests/`, `Benchmark/` | none | call the library | not modelled; `RegPanzer` and `BothMatchers` make the calls the tests make |

How they interact:

- The parser hands over a tree, or a list of errors.  The builder takes the numbers of groups and the
  targets of calls as they are; nobody checks that a group that is called exists.
- The builder hands over a graph, `group_stats` and the used counters.  What it promises the others
  is structural: a subroutine's body leads to `SubroutineLeave` and nothing else, the bodies of
  looks, atomic groups and possessive loops end in `nullptr`, and `StateSave`, `SubroutineEnter` and
  `StateRestore` come in triples (`WellNested`, `SavesPaired`); and every way to a `GroupEnd` or a
  `SequenceCounter` passes the node that stores what these read (`StoresFirst`).
- The optimizer rewrites nodes in place, so that every pointer to a node sees the new one.  It must
  keep that structure and the meaning of the graph.
- The interpreter relies on the structure without checking any of it: `State::saved_state` is a raw
  pointer to a local of a `StateSave` call, and `GroupEnd` subtracts whatever start it finds.
- The generator gets the same graph and relies on the same structure.  It makes one function per node
  and decides by `group_stats` which fields its State has.
- The driver calls parser, builder, optimizer and generator in turn and writes a file.

Hard behaviours, each with its line, are the `hazards` of `PROJECT.json`.  The main ones: pointers
to frames that return while a State lives on; return stack and C++ stack getting out of step; a
State that is dirty after a failure; unsigned steps backwards; start symbols that are empty, not
exact, or stale; rewriting a graph while walking it; loops that do not advance; a parser that goes on
after errors; two implementations of matching that have to agree; failures of output that are found
late.

What makes each part correct:

- parser: what it returns without an error could be read from the text, group numbers follow the
  brackets, it never reads behind the end, its recursion is bounded by the text.
- builder: the graph, interpreted, has the meaning of the tree; the structure above; the statistics
  mean what is done with them.
- optimizer: the same meaning and structure before and after; it terminates; it misses no node; the
  conditions of a rewriting stay true under later ones.
- interpreter: the first match in the order of preference of the tree, from the first possible start
  position; no access outside the string or to dead frames; it returns.
- generated code: the interpreter's answer; no access outside the string, to dead frames, or to what
  has not been written; it can be generated for every graph.
- driver: success only if all of the module is in the file; no input error costs an older file.

## 2. The modules

Data and pure functions:

- `RegexGraph` - nodes as records with the fields of `RegexGraph.hpp`, pointers as sequences of
  numbers, `nullptr` the empty one; UTF-8 as `ExtractCodePoint` and the conversions of `Utils.cpp` see
  it; the structural predicates `GraphOK`, `WellNested`, `SavesPaired`, `StoresFirst`, and those about loops
  of fixed length, `LoopsExact` and `ByteLoops`.  A string is the sequence of
  its bytes.
- `RegexElements` - the tree.  `RegexTree` - all its elements with their addresses: the path that
  leads to one.
- `RegexGraphBuilder` - `BuildRegexGraph` as a recursive function of the tree.  A node's pointer is
  the address of the element it is made for, extended where one element needs several nodes, which
  replaces allocation.
- `GraphOptimizations` - each rewriting as a function from a graph and a node to the nodes it writes
  (none if it does not apply).
- `RegexSemantics` - the reference for matching: what a tree means, as the ordered sequence of
  configurations it leads to.  It knows nothing of graphs, States or stacks.
- `RegexSyntax` - the reference for parsing: which parts an element is written with (`PartsOf`), at
  which positions of a text a chain can end that begins at given ones (`ChainEnds`), hence which
  chains a text can be read as (`Reads`), and the shortest way to write a chain (`Written`).  It
  looks at trees and never decides, symbol by symbol, what comes next.

State machines:

- `Parser` - the recursive descent with its recursion made explicit: a frame of `stack` is one running
  `ParseChain`, with its local chain and what its caller keeps meanwhile (`for` says which caller).
  `pc` is the loop of `ParseChain`, the loop of `ParseOneOf`, a return, or the end.  The actions are
  the branches of those loops and what each caller does with a returned chain (`Close...`).  Of an
  error only the position is kept.
- `RegexGraphOptimizer` - variables `graph`, `pass`, `changed`, `visited`, `agenda`.  `VisitNode`
  rewrites the next node and goes on to the successors it then has, in the order of the
  recursion; `WalkAgain` and `NextPass` are the loops of the passes;
  `OptimizeRegexGraph` is the call that starts them.
- `Matcher` - the interpreter with its recursion made explicit.  `pc` says whether `MatchNode` has
  just been entered or left; `stack` holds one frame for each C++ frame that still has work to do or
  a local that somebody points to.  There is one action `Match<Kind>` per overload of
  `MatchNodeImpl`, and one `BackIn<Kind>` where the overload goes on after an inner call.  `StartAttempt`,
  `SearchExhausted`, `AttemptMatched` and `AttemptFailed` are the loop of `Match`.  `saved_state` is
  the position of a frame in the stack; like the address in the code it is not checked when it is
  copied.
- `GeneratedMatcher` - the code that is emitted.  Node functions work on one `*state`; whoever needs it
  again keeps `state_backup` in its frame and copies it back.  The heads of the return chain and
  the save chain are positions of frames.  `CreateStateType` gives the State its fields and
  `Generated` says what becomes of the generation: a function, an exception for a field that does not
  exist, or instructions after a return.  `SearchLoop`, `NextIteration` and `Found` are the root
  function.
- `RegexSearch` - the abstract specification: a query is asked, and answered once, with the result
  of `RegexSemantics`.
- `RegPanzer` - `Compile` (build, then optimize or not), `CallMatch`, `RunMatch`; `ImplementsSearch` is the refinement of
  `RegexSearch`, with `Query` and `Reply` as the refinement mapping.
- `BothMatchers` - extends it: a function is generated for the same graph and called with the same
  arguments after `Match` has returned.
- `CompilerDriver` - `Main`, stage by stage, with the parser's and the optimizer's own steps in
  between.  What the builder makes of a chain is a constant, `Built`, which `MCCompilerDriver` gives the
  results of `RegexGraphBuilder`: so proofs about the driver need not look into the builder.  A target may be missing, the file may not open, each write may fail; `raw_fd_ostream`
  remembers an error and ends the program with it when it is destroyed uncleared.

Checking and proving: `Expressions` holds the families of expressions and strings, `ExampleGraphs` the
graphs of single rewritings, `MCMatcher`, `MCOptimizer`, `MCGeneratedMatcher`, `MCRegPanzer`,
`MCBothMatchers`, `MCParser` and `MCCompilerDriver` the instances, `MatcherProofs`, `MatcherCalls`,
`GeneratedProofs`, `ParserProofs`, `DriverProofs`, `OptimizerProofs` and `OptimizerNesting` the proofs.  `GraphLemmas`
is what they share: lemmas about stacks, the least and the largest of a set of numbers, recursion over
numbers, the lengths of characters, and what `WellNested` and `SavesPaired` say of a single node.

An operator that is commented "A fault: ..." is a changed form of the definition that follows it, as a plausible
mistake would leave it.  Nothing uses it; `PROJECT.json` lists, for every property, the fault that
the property detects when it takes the place of the original.

## 3. The runs

| Run | Question | Instance |
|---|---|---|
| `search` | Does every expression find what it should, group by group, optimized or not, and is there always an answer? | six families of patterns with their strings: 20 repeated elements x 8 neighbours; 19 expressions with groups, calls, recursion, with and without extraction; 13 with looks, conditions, atomic groups, counted loops; 2 with line assertions, single- and multiline; 16 of text the optimizer joins, splits and loops over, in UTF-8 and broken UTF-8 |
| `both` | Does the generated function answer what the interpreter answers? | the families above but the first, less what `differ` shows, plus classes over characters of one and two bytes |
| `matcher` | What the interpreter relies on inside, whatever graph it is given | the graphs above as they are built, and with one optimization applied everywhere |
| `generated` | The same for the generated code | the same graphs, two start offsets |
| `optimizer` | The optimizer, step by step | the graphs of all families without an inverted class |
| `parser` | Every short text, and every expression of the other runs written down | up to four brackets, bars and symbols, five of those that nest; three of symbols, escapes, classes, repetitions and calls, whole or broken off; all written expressions |
| `compiler` | From the command line to the exit code | six expressions (two call a group that is missing), six texts that are none, all combinations of the options that make a difference |
| `possessive`, `inverted`, `differ`, `last`, `parser_negated` | Places where the code does something else than its comments and tests say | the expressions below |

`search` checks the refinement `ImplementsSearch`: since `RegexSemantics` is deterministic, this
compares position, length and every requested group of the first match with the reference, for all
expressions and strings of the run; `Terminates`; and `CyclesAreCut`, what the builder's marking of
recursive groups is needed for.  `RegexGraph.hpp:272` says of the mark "Both directly and indirectly", but of a cycle only the
group that closes it is marked: in `(a(?R)?b)(?1)` group 1 and the whole call each other and one of
them is not marked.  What saving at calls needs is less, and that holds: among any groups without the
mark one calls none of the others, so that every way around a cycle saves at least once.

`both` checks `SameAnswer` (found or not, and position and length of every group),
`GenerationSucceeds` (no node needs a field the State has not got) and `FunctionAnswers`.

`matcher` checks, besides types:

- `SavedStateLive` - no State that may still be used, in whatever frame, has a `saved_state` whose
  frame has returned or will have returned when the State is taken up again;
- `RestoresItsOwnSave` - a `StateRestore` finds the save its own call made, at the same depth of calls;
- `CallsBalanced` - when a body ends, as many calls are open and saved as when it began;
- `GroupEndFindsStart` - the group it closes has been opened and was not reset since;
- `StatesInString` - no State kept anywhere points outside the string, neither the position nor a group;
- `ElementLengthExact` - the loop of fixed length steps back over exactly what it read;
- `MatchReturns`.

`generated` checks the same concerns where the emitted code has its own mechanisms: `ChainsLive` (the
heads of both chains point to functions that have not returned), `CallsReturn` (a subroutine returns
behind a call of itself, a restore finds its own save), `CountersInitialized` (no counter is compared
that this attempt, and in it this call of a subroutine, has not stored: the State is not initialized as a
whole, and attempts and calls go on with the counters they find), `PointersInString`, `FunctionReturns`.
The State of this module has one field the code has not: `stored`, the counters stored since the attempt
or the call began.  It is history only, nothing is decided by it.

`optimizer` checks that the structure survives every single rewriting (`NestingKept`, and `StoringKept`: what
is read has been stored first), that no
reachable node is missed by a walk that rewrites under its own feet (`WalkReachesAll`), that the
reason for a possessive choice is still there after the passes that follow
(`PossessiveStaysExclusive`), that a loop's element length is right (`LoopLengthsExact`), and that the
repeated passes end (`OptimizerEnds`).

`parser` checks `Faithful` (what is returned without an error can be read from the text, all of it),
`ReadsWhatIsWritten` (the other direction, for the shortest texts of over 200 trees: the tree comes back),
`GroupsInOrder`, `DepthBounded` and `ParsingEnds`.

`compiler` checks `OldFileKept` (with an unknown optimization, a target that is not there, errors in the
pattern or an exception of the builder the file of an earlier run is untouched; a file type the target
cannot emit is only found when the file has been emptied, `main.cpp:404`), `SuccessIsWhole` (exit code 0 only if all of the module has reached the
file, in the form asked for) and `CompilerEnds`.  A call of a group that is missing ends in an
exception nobody catches: the model shows it happens before the file is opened.

What the violations show:

- `possessive`: `(?:a[ab])*` finds nothing in `"a"`, where it should match the empty text.  The second
  branch of the loop's choice leads to the end, which has no start symbols, so it intersects with
  nothing and the choice becomes possessive.  In `(?:яa|юa)|[ю]b` the common first *byte* of two
  characters is extracted; what remains has no first character, and again a choice becomes possessive
  that is not exclusive.
- `inverted`: a loop over `[^a]` is given the length of `a`.
- `differ`: five reasons why the two ways to match differ.  `((?:(a)|b)\2)(?1)*+`: a call leaves
  the groups as they are in one and resets them in the other.  `a*` at the end of the string: one
  tries a match there, the other does not.  `[^ю]b`: a generated negative check takes a byte inside a
  character for a character.  `[юя]*[юя]`: the loop of fixed length counts elements forward and bytes
  back.  `[я0-9]`: only the last range decides whether bytes are compared.  Each is seen alone when
  `Families` has only its own family.
- `last`: in `(?:a||)` two alternatives are the same node, the last one; the code of the first of them
  returns, and more instructions follow.
- `parser_negated`: `[^\d]` becomes the digits, `[\Wa]` what is neither a word character nor `a`.

### Bounds

- `SizeMax` = 255 is the largest `size_t` and "no upper bound" of a repetition.  It is larger than
  any length in the runs, and small enough for wrapping to be visible.  `GroupSlots` = 10 as in the code.
- Strings up to length 3 or 4: every family has expressions that need fewer characters than that
  to take each of their ways, among them two rounds of a loop, one more to fail in, and one left over.
  Up to four recursive calls are open at once.
- Counted repetitions have bounds up to 3, enough to be below, at, between and above both.
- Texts of up to five fragments for the parser: enough for three bars or brackets in each other with
  something in one of them, and for a class or repetition with a beginning, a middle and an end of every
  kind.  All fragments are also ended in the middle.
- `Chunks` = 3 writes of a module, the last of them when the stream is flushed: a failure may be the first, in
  between, or after everything else.  Optimization levels are one known, one that is treated apart, and one
  unknown; file types are one that is written directly and one that needs the target.
- Expressions that read nothing in a loop or recurse to the left are left out: the code recurses
  until its stack ends (`RegexGraphOptimizer.cpp:277` mentions such sequences).  Trees with NUL or
  surrogate characters are left out: the optimizer's conversions give them the empty text, and a loop
  over that never advances.  In `both`, so are loops over characters of two bytes of one length, whose
  counter may pass zero and never end (the fourth reason of `differ`).
- The caller passes at most `GroupSlots` output groups, as the tests do, and saved groups have a slot.

### Fairness

Weak fairness of the steps of whatever has been started: `Optimize`, `CallMatch` and the matcher's `Run` in `RegPanzer`,
`Continue` in `BothMatchers`, `Run` of the generated code, `ParseStep`, and `Main`,
`ParseRegexString` and `OptimizeRegexGraph` in the driver.  One thread executes the code and no
step waits for anything, so a step that is enabled is taken.  Nobody is obliged to start (there
is no fairness on `Compile`, `Call`, `Start`); what is promised is promised once
it has been started.  No fairness between alternatives is needed: after the inputs
are chosen each state has one successor, except that in the driver the outside world may fail, and it
is never assumed that it does not.

## 4. The proofs

### Types of the interpreter

`MatcherProofs` proves

    THEOREM TypeCorrect == Spec => []TypeOK

for every graph that satisfies `GraphOK`, every string, every number of groups and every `SizeMax`.
It is more than it seems: the frames of the stack carry the nodes they belong to, so it says that no
function ever returns into a frame of another kind, that every field it reads there exists, that
positions, which look-behind and loops move backwards, never become negative, and that the loop of
fixed length never steps below its minimum (the unsigned `--count`).

`TypeOK` is inductive as it stands.  Two of its parts were needed to make it so: frames of loops that step
back have at least `min_elements` (`LoopFrames`; without it the count could leave the naturals), and an idle
matcher has no node and no frames (without it the new call's graph would not have the nodes of old
frames).  The argument has one lemma per action.  They rest on three groups of lemmas: entering and
leaving `MatchNode` keep the types if node, State and frames have theirs (`EnterType`, `LeaveType`);
the frame on top has the fields of its kind (`CallerType`, `FrameFields`, `CallerNode`); and
updating one field of a State gives a State (`StateUpdates`, `OverlayType`, `WithSaveType`,
`WithRestoredType`).  The assumptions are those of the modules: `GroupSlotsAssumption`,
`SizeMaxAssumption`, and `InputsAssumption` about the calls.

### Positions of the interpreter

`MatcherProofs` also proves

    THEOREM PositionsCorrect ==
      Spec => [](LoopsExact(graph) => PositionsInString /\ ElementLengthExact)

`LoopsExact` is what the loops of fixed length rely on and the interpreter does not check: the element is
one simple node with nothing after it, and whatever it can read has the length of the node.  For
classes it speaks of the listed characters and the ends of ranges only; that what lies between has
that length too is a lemma about UTF-8 (`Utf8Length`, `ListedLength`).  The run `optimizer` checks the
same predicate of every graph the optimizer makes (`LoopLengthsExact`), and the run `inverted` shows the
one way in which the optimizer breaks it: then the theorem says nothing, and indeed the positions
are wrong.

Neither property is inductive.  The invariant `Positions` adds where the loops are: a frame that scans
is on top of the stack (its element pushes nothing), while its element is matched the State is at the
beginning or at the end of that round, and every frame of a loop has counted only rounds that lie in
the string.  From the last fact follows that the steps back stay inside, from the first that nothing
else has to be said of the frames below.  Again there is one lemma per action, on top of four general ones:
`EnterSettled`, `LeaveSettled`, `HereSettled` (nodes other than simple ones are never met inside a
scan) and `ReadPosition` (simple nodes, inside or outside a scan).

### Calls of the interpreter

`MatcherCalls` proves

    THEOREM SavesLive           == Spec => [](Orderly(graph) => SavedStateLive)
    THEOREM RestoresOwn         == Spec => [](Orderly(graph) => RestoresItsOwnSave)
    THEOREM Balanced            == Spec => [](Orderly(graph) => CallsBalanced)
    THEOREM GroupEndsFindStarts ==
      Spec => [](Orderly(graph) /\ StoresFirst(graph) => GroupEndFindsStart)
    THEOREM StatesStayInString  ==
      Spec => [](Orderly(graph) /\ StoresFirst(graph) => StatesInString)

`Orderly` is `WellNested`, `SavesPaired` and `LoopsExact`.  `StoresFirst` says of nodes what the last two
theorems say of runs: on every way from where the whole, a graph of its own or a subroutine begins to a node that
reads a group or a counter there is the node that stores it.  It looks at nothing that happens: neither at
calls on the way, which may put groups aside, nor at States that are copied back.  The interpreter checks nothing of all
that; it is what builder and optimizer promise.  `MCMatcher` has TLC evaluate the first two and `StoresFirst`
for every graph it matches with (`InputsNested`), and the run `optimizer` checks all of it of every graph the
optimizer makes on its way; that the optimizer keeps it, given a graph that has it, is proved (`LoopLengthsRight`,
`NestingSurvives`, `StoringSurvives`).

The difficulty is that two stacks have to agree of which one is copied and thrown away at will.  A State's return
stack and its chain of saves may be older than the C++ stack (a choice is taken up again) or have been
built by frames that have returned since (a possessive body has matched, its State goes on).  The
invariant `CallsInOrder` therefore speaks of every State there is, the current one and those kept in
frames, and says what it says relative to where its body began:

- the frames are cut into segments (`Segments`): everything between a function that waits for a graph of its
  own (the body of a look, a loop, an atomic group, a possessive choice, or the whole expression) and the end of
  that graph.  What calls were open and which save was linked when it began is the segment's base (`IsBase`);
- a State in a segment is `InOrder`: it has the calls of the base, and more on top of them; it is in a
  subroutine's body just when there are more (`CallsNested`); the last of these that has
  something to restore has its save linked, in a StateSave frame of the same segment that was made with the return
  stack as it was just before the call (`LinksInnermost`); between a StateSave and its call, and between the
  return and the StateRestore, that save belongs to no open call.  This is where `WellNested` and
  `SavesPaired` come in;
- when a segment ends, its State has the calls and the save of the base again, so what happens in
  frames that return leaves no trace in the State that goes on;
- groups: what a State has `Begun` are the groups with a start at or before its position.  A State comes after
  another (`Follows`) if it has the same calls and saves, is not before it, and has begun all the other has; so do
  the end of a segment and its base.  At a node `p` the State has begun all that is stored on every way to `p` (`BegunAt`),
  and with a call open, all that is stored on every way to where it returns (`ReturnsSafely`), except that a call that
  saves puts groups aside: these the frame of its StateSave has (`LinksTo`), so that they are there again
  after the StateRestore.  A look goes on from its copy, so that it may move backwards without a part in
  this (`GoesOnFromEnd`);
- the frame of an atomic group does not keep the State it began with.  The invariant therefore says that there
  are `lev`els, one for each frame, with the calls and the save its function began with; whatever States the frame does
  keep agree with its level or, for what follows its body, with the base of its segment.

From there the properties are corollaries: a save is in a frame below (`SavedStateIsLive`), the
one a restore finds is the one of its own call (`RestoreFindsItsOwn`), at the end nothing is left
(`EndedBalanced`), and a GroupEnd is a node all of whose ways store the group.  `StatesStayInString` needs one invariant
more, `Views`, that every group in every State lies in the string: it is only the subtraction at
GroupEnd that could break it, and there the start is not behind the position.  There is one lemma per action again, over three that say what pushing a frame,
returning into one and throwing one away does to segments (`PushSegments`, `PopSegments`, `StandingContinues`).
TLC has checked the invariant on the run `matcher` before it was proved.

### The generated matcher

`GeneratedProofs` proves

    THEOREM GeneratedTypeCorrect == Spec => []TypeOK
    THEOREM ChainsStayLive       == Spec => [](Orderly(graph) => ChainsLive)
    THEOREM CallsComeBack        == Spec => [](Orderly(graph) => CallsReturn)
    THEOREM CountersAreStored    ==
      Spec => [](Orderly(graph) /\ StoresFirst(graph) => CountersInitialized)
    THEOREM PointersStayInString ==
      Spec => [](Orderly(graph) /\ StoresFirst(graph) /\ ByteLoops(graph) => PointersInString)

for all calls that satisfy `InputsAssumption`: the code could be generated (`Generated`), the graph is a finite graph
whose choices have branches (asserted at `MatcherGeneratorLLVM.cpp:1017`), the string is not longer than `SizeMax`
and the start offset not beyond its end.  Strings, graphs and State types are otherwise arbitrary.

For the types the fact needed is that nothing runs that was not generated.  `Generated` only looks at the
nodes that get a function, `NodeFunctions`, which is defined by as many rounds as there are nodes;
`FunctionsClosed` shows, from `GrowsToAnEnd` of `GraphLemmas`, that this is enough for a set that contains the
root and whatever its nodes point to: a round that adds nothing ends it, and every other adds a node.  The invariant
`Typed` then says that the function called, and the nodes of all frames, are in that set, so that the fields
their bodies name exist, and that a frame of a choice stands before an alternative that is there.  Positions
stay in `0..SizeMax` because sums and differences wrap as in the code.

The chains are harder, for the reason they are in the interpreter, but the invariant is another.  The generated
State has no stack of its own: its chains are pointers to locals, with the State as it was in them.
`ChainsInOrder` says of every State with heads `r` and `v`, relative to the base of its segment (`IsBase`, the last
frame below it that waits for a graph of its own):

- `Follows`: outside of bodies `r` is the head the base was called with (`ReturnsAt`), and in one a SubroutineEnter frame
  above the base that has called the very body that runs (`ReturnsDue`, `InBody`); `v` is the head of saves at the base, or at that call (`SavesDue`), and only between a
  StateSave and its call, and between the return and the StateRestore, a StateSave frame above the base whose copy
  has just these heads (`SavedFor`);
- every frame was in order when it was pushed (`FrameInOrder`), so that following a pointer gives a State that
  is in order itself: this is what makes SubroutineLeave and StateRestore steps of the induction (`LeaveBody`,
  `EnterRestored`);
- a function that returns true leaves the heads of its base (`Finished`), and so does every State a loop
  keeps for later (`next_states`);
- the generated loop of fixed length goes on from `*state` also when its element has failed, without copying
  it back.  That is only right because the element is a node on its own that changes no head, so
  nothing is above a frame that scans (`Scans`), and what fails there has the heads it was called with (`Left`).
  This is why `LoopsExact` is among the conditions.

`SameBelow` says that all of this depends on the frames below alone, `PushInOrder` and `PopInOrder` what pushing
and popping do to it, `OneHigher` that a frame that waits for nothing does not matter to what is above it.  There
is one lemma per kind of node, over `NextOrder`, `AboveOrder`, `InsideOrder`, `FailOrder` and `MatchedOrder`: going
on with the same frames, above a new one, in a graph of its own, failing, and matching.  `ChainsLive` then follows
since heads of a base point below it (`FinishedOuter`), `CallsReturn` from `LeaveBody`, `EnterRestored` and
`PopInOrder`.

What a State holds when it is read is a third invariant, `StatesKept`.  The generated StateSave leaves counters and groups
as they are, and neither is initialized: the State of a second attempt has the counters of the first, and
what a graph of its own or a subroutine has stored is there afterwards, or not, as it happened to match.  So nothing can be said
of the values; but from the base of a segment, from an open call and from a linked save onwards, no counter that
has been stored is lost and no group that begins before the position moves behind it (`Keeps`, of what is `Known`).
The marks in `stored` begin anew with a call and come back with its end, so they are kept between States with the
same head of returns only, and the counters marked are what is `Held`:

- a State `Comes` from the copy in its base and, where these are above the base, from those in its two heads
  (`EndsOn`, `Inside`), and at node `p` it has what is stored on every way to `p` (`StandsAt`).  A head that is followed
  leads to a copy of which the same is true (`FrameStands`), so that behind a StateRestore, with old values put
  back into a State that has moved on, what was known at its StateSave still is (`RestoredKeeps`, `LinkComes`);
- no pointer of any State leaves the string, and no group ends before it begins (`Clean`).  GroupEnd stores the
  position without a look at the begin, so this rests on the part above;
- a loop of fixed length goes on from the State its element leaves, also when it has failed; that has then
  read what the counter says, and stored nothing (`Elements`, `LoopStands`).

The positions only do this if the loops count in bytes, `ByteLoops`: of the others the run `differ` shows that they go
wrong.  Where a graph has such a loop, `Exact` fails, and the invariant says nothing of positions and groups but the same
of counters, which is why `CountersAreStored` needs no `ByteLoops`.

TLC has checked `ChainsInOrder` and `StatesKept` on the instances of the run `generated`, and evaluates
`Orderly`, `StoresFirst` and `ByteLoops` of all its graphs (`InputsOrderly`).

### The parser

`ParserProofs` proves

    THEOREM TypeCorrect    == Spec => []TypeOK
    THEOREM DepthIsBounded == Spec => []DepthBounded

for every set of patterns: whatever errors the parser goes on after, it does not read behind the end of
the text, it always has the caller it returns to, and it never nests more calls of `ParseChain` than it
has read symbols.  The only assumption is `PatternTextsAssumption`, that what is read are sequences of
numbers.

The invariant is `ParserInv`, types and `StackInv`: only the bottom frame was called for the whole
pattern, and `Len(stack) <= pos + 1`, where a frame that has just returned still counts
(`Len(stack) <= pos` then).  The latter is what makes the bound inductive: a bracket that is opened
has been read before the call, and a return never makes `pos` smaller.  Underneath are lemmas that each helper
(`ParseSequence`, numbers, escapes, classes) moves forward and stays inside the text, and one lemma per
action.

### The compiler

`DriverProofs` proves

    THEOREM DriverTypeCorrect == DriverSpec => []DriverTypeOK
    THEOREM OldFileIsKept     == DriverSpec => []OldFileKept
    THEOREM SuccessIsComplete == DriverSpec => []SuccessIsWhole

for every set of command lines, every number of writes (`ChunksAssumption`: at least one) and whatever `Built` is.
The invariant `DriverInv` adds to the types what is known at each stage (`StageInv`): nothing is
opened before the options and the expression are accepted and the module is generated, and while the file is written, unless an error
is remembered, exactly the writes so far are in it.  The last part is what the properties lack: they speak of
the exit, and errors are only asked for there.

### The optimizer

`OptimizerProofs` proves

    THEOREM OptimizerTypeCorrect == OptimizerSpec => []OptimizerTypeOK
    THEOREM WalksReachAll        == OptimizerSpec => []WalkReachesAll
    THEOREM LoopLengthsRight     == OptimizerSpec => [](PlainSymbols(source) => LoopLengthsExact)

for every set of graphs that satisfies `SourceGraphsAssumption`: what `BuildRegexGraph` may return is a
graph (`GraphOK`), finite, and has neither the nodes nor the pointers only the optimizer makes.
`PlainSymbols` says that symbols are characters and classes are not inverted; without the second
part the third theorem is false, as the run `inverted` shows, and `MCOptimizer` has TLC evaluate both
for every graph of the run `optimizer`.

What the optimizations have in common is a lemma, `EveryForm`: each writes nothing, or one of five
`Forms` of nodes (a text of two nodes, a text before a new choice with what is left of its branches, a possessive
choice with a copy of its first node, and the two loops with a copy of their element).  All other lemmas
about a step speak of the form: `WritesNew` and `WriteKeepsFresh` (new pointers are in use nowhere: a
pointer is extended by numbers no other node has, once for each node, since the new node at that
pointer is never a choice with branches that are text), `WriteKeepsGraph`, `SuccessorsLead`.

`WalkReachesAll` is not inductive.  Its invariant is `Walked`: whatever a visited node leads to has
been visited or is on the agenda, and so has the root.  That a rewriting does not break it is not
obvious, for it changes a node other visited nodes lead to, and where the walk goes from there: it only
changes the node that is being visited, and what this leads to is put on the agenda afterwards.  That
an empty agenda then means everything reachable, a least fixed point, is `ReachedLeast`: the visited
nodes are a set that contains the root and is closed.

`LoopLengthsExact` needs two facts more (`LengthsInv`): symbols stay characters while text is only
joined and cut at bytes that may lie in a character (strings need not be valid, a loop over them has
their length in bytes), and the element of a loop is never written again (`LoopsStay`): it is one text that ends
where it is, and only a choice, or a text with a text behind it, is rewritten.  That is why the order of
the passes does not matter for it.

`OptimizerNesting` proves

    THEOREM NestingSurvives ==
      OptimizerSpec => [](WellNested(source) /\ SavesPaired(source) => NestingKept)
    THEOREM StoringSurvives ==
      OptimizerSpec => [](StoresFirst(source) => StoringKept)

What is assumed of the source, calls that are nested, saves that are paired and what is read stored first, is
what the builder makes: the run `optimizer` checks `NestingKept` and `StoringKept` of every graph from its first
state on, before anything is rewritten.  `BodyNodes`, the bodies of subroutines, is what leads to a SubroutineLeave, computed in as many
rounds as there are nodes; `BodyLeast` and `BodyClosed` (a set that grows in every round has one node more
each time) show that it is the least set that has the leaves and whatever goes on to one of its nodes.
What a rewriting puts at p then only has to stand for p: `Replaces` says that the nodes written go on where p
went, and that every set closed like this has p, if p went on to it, and all that is written if all
ways on from p are in it.  Each of
the five forms replaces (`JoinsReplaces`, `CopyReplaces`, `SplitsReplaces`), so a body afterwards is the
body before, and what is written with it if p was in it (`WrittenBodies`); no leave, look or call changes sides.
For the saves it is enough that nothing written is a StateRestore or leads to the call behind a StateSave
that did not before (`WriteKeepsSaves`).
What is stored first is another least set, of the nodes to which some way leads that does not store x: `UnstoredLeast` and
`UnstoredClosed` say so, and `StoredFirstReads` that only a reader among them is against `StoresFirst`.  A rewriting adds to that set
no more than what it writes, for the new nodes lead where p led and their copies lead nowhere; and it writes
nothing that reads (`WriteKeepsStored`).  The invariants are one for each theorem, `NestingInv` and `StoringInv`,
next to `OptimizerInv`.

### Only model-checked

All other properties.  Liveness and the refinement of
`RegexSearch` are out of reach of the prover, and so is everything that speaks of recursive
definitions: the builder, `RegexSemantics`, `RegexSyntax`, and with them `Faithful`,
`ReadsWhatIsWritten`, `GroupsInOrder`, `ImplementsSearch`, `CyclesAreCut`, `SameAnswer` and
`GenerationSucceeds`.  `PossessiveStaysExclusive` is no invariant of single rewritings: a later pass may change what the
second branch begins with, and that it does not make the sets of start symbols meet depends on how
text in UTF-8 was cut before.

## 5. Not modelled

- Tests and benchmarks: they only call the library.
- `GetRegexFeatures`, which selects tests, and the printing of trees and graphs.
- What LLVM does with a module, a target or an optimization level, and its verification of functions.
  Its conversions are modelled by their results, as `ExtractCodePoint` and `Utils.cpp` use them.  In
  `raw_fd_ostream` a debug build of LLVM stops at an assertion where a release build goes on with an invalid descriptor;
  the latter is modelled.
- `cl::ParseCommandLineOptions`, which ends the program by itself before anything else has happened.
- The words of errors.
- Memory: frames and nodes are values; the size of the C++ stack is unlimited.
- The copies of loop bodies the builder makes in case a sequence is possessive and never uses.
- The order of elements in `variants` and the hash sets, which nothing depends on.  The order of `ranges` is kept:
  the generator looks at the last one.

## 6. What is next

1. `GreedySequence`: an abstract loop "as many elements as possible, then back, element by element",
   implemented by `FixedLengthElementSequence` and `SingleRollbackPointSequence` under the conditions
   the optimizer checks.
2. A predicate on trees, "no loop and no left recursion reads nothing", under which `Match` returns,
   and the depth of its recursion as a function of the string.
3. Calls with more groups than `GroupSlots`, and look-behinds whose contents have several lengths, once a
   document says what they should do.
4. Proofs: that a possessive choice has no other way when its start symbols are exact; and that the answer
   of the generated function is that of the interpreter, for graphs without what the run `differ` shows, by a
   relation between their frames.
