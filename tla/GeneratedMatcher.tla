-------------------------- MODULE GeneratedMatcher --------------------------
(***************************************************************************)
(* The code MatcherGeneratorLLVM.cpp emits for a graph, and the check it   *)
(* makes of the graph on the way.  Every node becomes a function of one    *)
(* argument, a pointer to the one State object of the call; the functions  *)
(* call each other, and whoever needs the State again copies it to a local *)
(* and back.                                                               *)
(*                                                                         *)
(* "stack" holds one frame for every function that has work left to do, or *)
(* a local somebody points to.  The two chains of subroutine calls are     *)
(* made of such locals: a pointer into one is a position in the stack, and *)
(* 0 is null.                                                              *)
(*                                                                         *)
(* One field of "state" is history, and none of the program's: "stored",   *)
(* the counters this attempt, and in it the subroutine that runs, has      *)
(* stored.  No guard reads it and no other field depends on it; it is      *)
(* copied with the State because what has been stored is in that copy.     *)
(***************************************************************************)
EXTENDS RegexGraph

CONSTANT Inputs   \* the calls: [code, str, start_offset, subpattern_count]

VARIABLES
  args,      \* the arguments of the call, and the code called
  current_start_offset,
  pc,        \* "idle", "search_loop", "call" (a node function is entered),
             \* "ret" (it returns), "end"
  function,  \* the node of the function called
  state,     \* *state
  res,       \* what a node function returns
  stack,
  out        \* the return value and out_subpatterns

vars == <<args, current_start_offset, pc, function, state, res, stack, out>>

-----------------------------------------------------------------------------
(***************************************************************************)
(* Generation.                                                             *)
(***************************************************************************)
\* CreateStateType.  A fault: a group that is only referred to has no field.
CreateStateTypeExtracted(graph, group_stats, extract_groups) ==
  [graph |-> graph,
   groups |-> DOMAIN group_stats,
   fields |-> IF extract_groups THEN DOMAIN group_stats ELSE {},
   has_chains |-> group_stats[0].internal_calls # {}]

\* CreateStateType: the groups the function reports, those that have a field in
\* the State, and whether it has the heads of the chains.
CreateStateType(graph, group_stats, extract_groups) ==
  [graph |-> graph,
   groups |-> DOMAIN group_stats,
   fields |-> { g \in DOMAIN group_stats :
                  extract_groups \/ group_stats[g].backreference_count > 0 },
   has_chains |-> group_stats[0].internal_calls # {}]

\* GetOrCreateNodeFunction: the nodes that get a function.
NodeFunctions(graph) ==
  ReachedFrom(graph, {graph.root},
    LAMBDA n : ContinuationsOf(n) \cup SubgraphsOf(n) \cup SubroutinesOf(n))

\* The body of node n's function names only fields the State has.
FieldsExist(code, n) ==
  /\ n.kind \in GroupKinds => n.index \in code.fields
  /\ n.kind \in CounterKinds => n.id \in code.graph.used_sequence_counters
  /\ n.kind = "StateSave" => n.groups_to_save \subseteq code.fields
  /\ n.kind = "StateRestore" => n.groups_to_restore \subseteq code.fields
  /\ n.kind \in {"SubroutineEnter", "SubroutineLeave", "StateSave", "StateRestore"} =>
       code.has_chains

\* The last alternative is the one that is the same pointer as the last.
IsLast(n, k) == n.next[k] = Last(n.next)

\* Code follows a "ret": the last alternative is there once more before the end.
GoesOnAfterRet(n) ==
  n.kind = "Alternatives" /\ \E k \in 1..(Len(n.next) - 1) : IsLast(n, k)

\* What becomes of the generation: it throws for a field that is not there, and
\* emits whatever it emits otherwise.
Generated(code) ==
  LET bodies == { code.graph.node[p] : p \in NodeFunctions(code.graph) }
  IN IF \E n \in bodies : ~FieldsExist(code, n) THEN "threw"
     ELSE IF \E n \in bodies : GoesOnAfterRet(n) THEN "malformed"
     ELSE "function"

\* Code is called that could be generated, of graphs whose choices have branches
\* (asserted), and "start offset should not be greater" than the size of the string.
CallOK(c) ==
  /\ GraphOK(c.code.graph)
  /\ IsFiniteSet(DOMAIN c.code.graph.node)
  /\ \A n \in Range(c.code.graph.node) : n.kind = "Alternatives" => n.next # <<>>
  /\ Generated(c.code) = "function"
  /\ 0 \in c.code.groups /\ c.code.fields \subseteq c.code.groups
  /\ c.str \in Seq(Byte) /\ Len(c.str) <= SizeMax
  /\ c.start_offset \in 0..Len(c.str)
  /\ c.subpattern_count \in Nat

ASSUME InputsAssumption == \A c \in Inputs : CallOK(c)

-----------------------------------------------------------------------------
graph == args.code.graph
str   == args.str

Counters == graph.used_sequence_counters
Fields   == args.code.fields

\* A counter that nothing has been stored in yet: State is not initialized as a
\* whole, and the counters are not initialized at all.
Uninitialized == -1

NoFunction == [graph |-> NoGraph, groups |-> {0}, fields |-> {}, has_chains |-> FALSE]
NoArgs  == [code |-> NoFunction, str |-> <<>>, start_offset |-> 0, subpattern_count |-> 0]

Init ==
  /\ args = NoArgs
  /\ current_start_offset = 0
  /\ pc = "idle"
  /\ function = nullptr
  /\ state = [str_begin |-> 0, sequence_counters |-> <<>>, groups |-> <<>>,
              return_chain_head |-> 0, save_chain_head |-> 0, stored |-> {}]
  /\ res = FALSE
  /\ stack = <<>>
  /\ out = [count |-> 0, subpatterns |-> <<>>]

Here     == graph.node[function]
At(kind) == pc = "call" /\ function # nullptr /\ Here.kind = kind

Caller       == Last(stack)
BackIn(kind) == pc = "ret" /\ stack # <<>> /\ Caller.kind = kind
Callers      == Front(stack)
CallerNode   == graph.node[Caller.node]

\* The function of node p is called on State s, above the frames stk.
Call(p, s, stk) ==
  /\ pc' = "call"
  /\ function' = p
  /\ state' = s
  /\ stack' = stk
  /\ UNCHANGED <<args, current_start_offset, res, out>>

\* A function returns.
Ret(value, s, stk) ==
  /\ pc' = "ret"
  /\ res' = value
  /\ state' = s
  /\ stack' = stk
  /\ UNCHANGED <<args, current_start_offset, function, out>>

CallIf(cond, p, s) == IF cond THEN Call(p, s, stack) ELSE Ret(FALSE, state, stack)

\* A frame of the function of node p, with its local copy of the State.
Frame(p, backup) == [kind |-> graph.node[p].kind, node |-> p, state_backup |-> backup]
Pushed(frame)    == Append(stack, frame)

Moved(s, p) == [s EXCEPT !.str_begin = p]
StateAt(p)      == Moved(state, p)

-----------------------------------------------------------------------------
(***************************************************************************)
(* Functions that read the string.                                         *)
(***************************************************************************)
ReturnTrue ==
  /\ pc = "call"
  /\ function = nullptr
  /\ Ret(TRUE, state, stack)

BytesOf(n) == IF n.kind = "String" THEN n.str ELSE Utf8(n.code)

MatchText ==
  /\ At("String") \/ At("SpecificSymbol")
  /\ LET text == BytesOf(Here)
     IN CallIf(IsPrefixAt(text, str, state.str_begin), Here.next,
               StateAt(state.str_begin + Len(text)))

\* How many bytes the code for a class takes after this first one; any byte
\* that begins no character stands for itself.
DecodedLength(lead) ==
  CASE lead \in 192..223 -> 2
    [] lead \in 224..239 -> 3
    [] lead \in 240..247 -> 4
    [] OTHER -> 1

\* The bytes after the first are taken without a look at what they are.
DecodeCodePoint(pos) ==
  LET end == pos + DecodedLength(str[pos + 1])
  IN IF pos >= Len(str) \/ end > Len(str) THEN NoCode
     ELSE [ok |-> TRUE, code |-> CodeOf(SubSeq(str, pos + 1, end)), pos |-> end]

InClass(n, code) ==
  \/ code \in n.variants
  \/ \E r \in ToSet(n.ranges) : r[1] <= code /\ code <= r[2]

\* Whether code points are decoded: decided by the last range, if there is one.
HasMultiByteCodePoints(n) ==
  IF n.ranges # <<>> THEN Last(n.ranges)[2] >= 127
                     ELSE \E c \in n.variants : c > 127

\* Otherwise bytes are compared, with the constants cut to a byte.
InBytes(n) ==
  [variants |-> { c % 256 : c \in n.variants },
   ranges |-> [k \in DOMAIN n.ranges |-> <<n.ranges[k][1] % 256, n.ranges[k][2] % 256>>]]

MatchClass(n) ==
  IF n.inverse_flag \/ HasMultiByteCodePoints(n)
  THEN LET c == DecodeCodePoint(state.str_begin)
       IN CallIf(c.ok /\ InClass(n, c.code) # n.inverse_flag, n.next, StateAt(c.pos))
  ELSE CallIf(/\ state.str_begin < Len(str)
              /\ InClass(InBytes(n), str[state.str_begin + 1]),
              n.next, StateAt(state.str_begin + 1))

MatchOneOf == At("OneOf") /\ MatchClass(Here)

\* Everything but nothing.
MatchAnySymbol ==
  /\ At("AnySymbol")
  /\ MatchClass([variants |-> {}, ranges |-> <<>>, inverse_flag |-> TRUE,
                 next |-> Here.next])

MatchStringStartAssertion ==
  At("StringStartAssertion") /\ CallIf(state.str_begin = 0, Here.next, state)

MatchStringEndAssertion ==
  At("StringEndAssertion") /\ CallIf(state.str_begin = Len(str), Here.next, state)

(***************************************************************************)
(* Groups: pairs of pointers.                                              *)
(***************************************************************************)
\* A fault: only the begin of the group is stored.
MatchGroupStartNoEnd ==
  /\ At("GroupStart")
  /\ Call(Here.next, [state EXCEPT !.groups[Here.index].begin = state.str_begin], stack)

MatchGroupStart ==
  /\ At("GroupStart")
  /\ Call(Here.next,
          [state EXCEPT !.groups[Here.index] =
             [begin |-> state.str_begin, end |-> state.str_begin]], stack)

MatchGroupEnd ==
  /\ At("GroupEnd")
  /\ Call(Here.next, [state EXCEPT !.groups[Here.index].end = state.str_begin], stack)

MatchBackReference ==
  /\ At("BackReference")
  /\ LET group      == state.groups[Here.index]
         str_size   == Wrap(Len(str) - state.str_begin)
         group_size == Wrap(group.end - group.begin)
         equal(k)   == str[group.begin + k] = str[state.str_begin + k]
     IN CallIf(group_size <= str_size /\ \A k \in 1..group_size : equal(k), Here.next,
               StateAt(Wrap(state.str_begin + group_size)))

(***************************************************************************)
(* Choice.  The last alternative is called without a copy.                 *)
(***************************************************************************)
ChoiceFrame(p, backup, k) ==
  [kind |-> "Alternatives", node |-> p, state_backup |-> backup, tried |-> k]

TryAlternative(p, k, s, stk) ==
  LET n == graph.node[p]
  IN Call(n.next[k], s,
          IF IsLast(n, k) THEN stk ELSE Append(stk, ChoiceFrame(p, s, k)))

MatchAlternatives == At("Alternatives") /\ TryAlternative(function, 1, state, stack)

BackInAlternatives ==
  /\ BackIn("Alternatives")
  /\ IF res THEN Ret(TRUE, state, Callers)
     ELSE TryAlternative(Caller.node, Caller.tried + 1, Caller.state_backup, Callers)

MatchAlternativesPossessive ==
  /\ At("AlternativesPossessive")
  /\ Call(Here.path0_element, state, Pushed(Frame(function, state)))

BackInAlternativesPossessive ==
  /\ BackIn("AlternativesPossessive")
  /\ IF res THEN Call(CallerNode.path0_next, state, Callers)
            ELSE Call(CallerNode.path1_next, Caller.state_backup, Callers)

(***************************************************************************)
(* Assertions.                                                             *)
(***************************************************************************)
MatchLookAhead ==
  At("LookAhead") /\ Call(Here.look_graph, state, Pushed(Frame(function, state)))

\* The copy is only needed when the match goes on.
BackInLookAhead ==
  /\ BackIn("LookAhead")
  /\ IF res = CallerNode.positive
     THEN Call(CallerNode.next, Caller.state_backup, Callers)
     ELSE Ret(FALSE, state, Callers)

\* A fault: goes back without a look at where the string begins.
MatchLookBehindUnchecked ==
  /\ At("LookBehind")
  /\ Call(Here.look_graph, StateAt(state.str_begin - Here.size), Pushed(Frame(function, state)))

MatchLookBehind ==
  /\ At("LookBehind")
  /\ LET str_begin_for_look == state.str_begin - Here.size
     IN IF str_begin_for_look >= 0
        THEN Call(Here.look_graph, StateAt(str_begin_for_look), Pushed(Frame(function, state)))
        ELSE CallIf(~Here.positive, Here.next, state)

BackInLookBehind ==
  /\ BackIn("LookBehind")
  /\ IF res = CallerNode.positive
     THEN Call(CallerNode.next, Caller.state_backup, Callers)
     ELSE Ret(FALSE, Caller.state_backup, Callers)

MatchConditionalElement ==
  /\ At("ConditionalElement")
  /\ Call(Here.condition_node, state, Pushed(Frame(function, state)))

BackInConditionalElement ==
  /\ BackIn("ConditionalElement")
  /\ Call(IF res THEN CallerNode.next_true ELSE CallerNode.next_false,
          Caller.state_backup, Callers)

(***************************************************************************)
(* Sequences with a counter.                                               *)
(***************************************************************************)
\* A fault: a counter that has a value is left as it is.
MatchSequenceCounterResetOnce ==
  /\ At("SequenceCounterReset")
  /\ Call(Here.next,
          IF state.sequence_counters[Here.id] # Uninitialized THEN state
          ELSE [state EXCEPT !.sequence_counters[Here.id] = 0, !.stored = @ \cup {Here.id}],
          stack)

MatchSequenceCounterReset ==
  /\ At("SequenceCounterReset")
  /\ Call(Here.next,
          [state EXCEPT !.sequence_counters[Here.id] = 0, !.stored = @ \cup {Here.id}], stack)

\* The branches in the order they are tried.
Branches(n) ==
  IF n.greedy THEN <<n.next_iteration, n.next_sequence_end>>
              ELSE <<n.next_sequence_end, n.next_iteration>>

MatchSequenceCounter ==
  /\ At("SequenceCounter")
  /\ LET counter_value == state.sequence_counters[Here.id]
         counted == [state EXCEPT !.sequence_counters[Here.id] = counter_value + 1]
         less    == counter_value < Here.min_elements
         greater_equal == Here.max_elements < SizeMax /\ counter_value >= Here.max_elements
     IN CASE less -> Call(Here.next_iteration, counted, stack)
          [] ~less /\ greater_equal -> Call(Here.next_sequence_end, counted, stack)
          [] OTHER -> Call(Branches(Here)[1], counted, Pushed(Frame(function, counted)))

BackInSequenceCounter ==
  /\ BackIn("SequenceCounter")
  /\ IF res THEN Ret(TRUE, state, Callers)
            ELSE Call(Branches(CallerNode)[2], Caller.state_backup, Callers)

(***************************************************************************)
(* Sequences that keep what they matched.                                  *)
(***************************************************************************)
LoopFrame(p, backup, counter) ==
  [kind |-> "PossessiveSequence", node |-> p, state_backup |-> backup, counter |-> counter]

\* The iteration after `counter` elements.
PossessiveLoop(p, counter, s, stk) ==
  LET n == graph.node[p]
  IN IF n.max_elements = SizeMax \/ counter < n.max_elements
     THEN Call(n.sequence_element, s, Append(stk, LoopFrame(p, s, counter)))
     ELSE Call(n.next, s, stk)

MatchPossessiveSequence ==
  At("PossessiveSequence") /\ PossessiveLoop(function, 0, state, stack)

BackInPossessiveSequence ==
  /\ BackIn("PossessiveSequence")
  /\ CASE res -> PossessiveLoop(Caller.node, Caller.counter + 1, state, Callers)
       [] ~res /\ Caller.counter < CallerNode.min_elements ->
            Ret(FALSE, Caller.state_backup, Callers)
       [] OTHER -> Call(CallerNode.next, Caller.state_backup, Callers)

\* next_states is state_next, empty while its str_begin is null.
RollbackFrame(p, backup, in_tail, next_states) ==
  [kind |-> "SingleRollbackPointSequence", node |-> p, state_backup |-> backup,
   in_tail |-> in_tail, next_states |-> next_states]

\* The tail is tried after each element.
RollbackTail(p, s, next_states, stk) ==
  Call(graph.node[p].next, s, Append(stk, RollbackFrame(p, s, TRUE, next_states)))

MatchSingleRollbackPointSequence ==
  At("SingleRollbackPointSequence") /\ RollbackTail(function, state, {}, stack)

BackInRollbackTail ==
  /\ BackIn("SingleRollbackPointSequence")
  /\ Caller.in_tail
  /\ Call(CallerNode.sequence_element, Caller.state_backup,
          Append(Callers, RollbackFrame(Caller.node, Caller.state_backup, FALSE,
                                        IF res THEN {state} ELSE Caller.next_states)))

BackInRollbackElement ==
  /\ BackIn("SingleRollbackPointSequence")
  /\ ~Caller.in_tail
  /\ CASE res -> RollbackTail(Caller.node, state, Caller.next_states, Callers)
       [] ~res /\ Caller.next_states # {} ->
            Ret(TRUE, CHOOSE s \in Caller.next_states : TRUE, Callers)
       [] OTHER -> Ret(FALSE, state, Callers)

\* Elements of fixed length.  The counter counts elements on the way forward and
\* bytes on the way back.
ElementFrame(p, backup, in_tail, str_begin, counter) ==
  [kind |-> "FixedLengthElementSequence", node |-> p, state_backup |-> backup,
   in_tail |-> in_tail, str_begin |-> str_begin, counter |-> counter]

ExtractElement(p, str_begin, counter, s, stk) ==
  Call(graph.node[p].sequence_element, s,
       Append(stk, ElementFrame(p, s, FALSE, str_begin, counter)))

TailCheck(p, str_begin, counter, s, stk) ==
  Call(graph.node[p].next, Moved(s, Wrap(str_begin + counter)),
       Append(stk, ElementFrame(p, s, TRUE, str_begin, counter)))

BlockAfterExtractLoop(p, str_begin, counter, s, stk) ==
  LET n == graph.node[p]
  IN IF counter >= Wrap(n.min_elements * n.element_length)
     THEN TailCheck(p, str_begin, counter, s, stk)
     ELSE Ret(FALSE, s, stk)

MatchFixedLengthElementSequence ==
  /\ At("FixedLengthElementSequence")
  /\ ExtractElement(function, state.str_begin, 0, state, stack)

BackInElement ==
  /\ BackIn("FixedLengthElementSequence")
  /\ ~Caller.in_tail
  /\ LET n == CallerNode
         counter_next == Caller.counter + 1
         more == \/ n.max_elements = SizeMax
                 \/ counter_next < Wrap(n.max_elements * n.element_length)
     IN CASE res /\ more ->
               ExtractElement(Caller.node, Caller.str_begin, counter_next, state, Callers)
          [] res /\ ~more ->
               BlockAfterExtractLoop(Caller.node, Caller.str_begin, counter_next, state, Callers)
          [] ~res ->
               BlockAfterExtractLoop(Caller.node, Caller.str_begin, Caller.counter, state, Callers)

\* A fault: the loop tries the rest again without giving up an element.
BackInElementTailEndless ==
  /\ BackIn("FixedLengthElementSequence")
  /\ Caller.in_tail
  /\ IF res THEN Ret(TRUE, state, Callers)
     ELSE BlockAfterExtractLoop(Caller.node, Caller.str_begin, Caller.counter,
                                Caller.state_backup, Callers)

\* With no minimum the loop ends at zero exactly.
BackInElementTail ==
  /\ BackIn("FixedLengthElementSequence")
  /\ Caller.in_tail
  /\ CASE res -> Ret(TRUE, state, Callers)
       [] ~res /\ CallerNode.min_elements = 0 /\ Caller.counter = 0 ->
            Ret(FALSE, Caller.state_backup, Callers)
       [] OTHER ->
            BlockAfterExtractLoop(Caller.node, Caller.str_begin,
                                  Wrap(Caller.counter - CallerNode.element_length),
                                  Caller.state_backup, Callers)

MatchAtomicGroup ==
  At("AtomicGroup") /\ Call(Here.group_element, state, Pushed(Frame(function, state)))

BackInAtomicGroup ==
  /\ BackIn("AtomicGroup")
  /\ IF res THEN Call(CallerNode.next, state, Callers) ELSE Ret(FALSE, state, Callers)

-----------------------------------------------------------------------------
(***************************************************************************)
(* Subroutine calls.  A link of the return chain is a local of the         *)
(* function of SubroutineEnter, one of the save chain a local of that of   *)
(* StateSave: frames that hold the State as it was, "prev" included.       *)
(***************************************************************************)
Links(kind) == { k \in DOMAIN stack : stack[k].kind = kind }

MatchSubroutineEnter ==
  /\ At("SubroutineEnter")
  /\ Call(Here.subroutine_node,
          [state EXCEPT !.return_chain_head = Len(stack) + 1, !.stored = {}],
          Pushed(Frame(function, state)))

\* A fault: the link stays at the head of the chain.
MatchSubroutineLeaveNoPop ==
  /\ At("SubroutineLeave")
  /\ state.return_chain_head \in Links("SubroutineEnter")
  /\ LET link == stack[state.return_chain_head]
     IN Call(graph.node[link.node].next, state, stack)

\* Without a link there is no step: the head is not compared with null.
MatchSubroutineLeave ==
  /\ At("SubroutineLeave")
  /\ state.return_chain_head \in Links("SubroutineEnter")
  /\ LET link == stack[state.return_chain_head]
     IN Call(graph.node[link.node].next,
             [state EXCEPT !.return_chain_head = link.state_backup.return_chain_head,
                           !.stored = link.state_backup.stored], stack)

\* Counters and groups are saved, and left as they are.
MatchStateSave ==
  /\ At("StateSave")
  /\ Call(Here.next, [state EXCEPT !.save_chain_head = Len(stack) + 1],
          Pushed(Frame(function, state)))

\* f with the values of g on S, where f has them at all.
Restored(f, g, S) == [x \in DOMAIN f |-> IF x \in S THEN g[x] ELSE f[x]]

\* A fault: the head of the chain stays where it is.
MatchStateRestoreNoPop ==
  /\ At("StateRestore")
  /\ state.save_chain_head \in Links("StateSave")
  /\ LET saved == stack[state.save_chain_head].state_backup
     IN Call(Here.next,
             [state EXCEPT
                !.sequence_counters =
                   Restored(@, saved.sequence_counters, Here.sequence_counters_to_restore),
                !.groups = Restored(@, saved.groups, Here.groups_to_restore)],
             stack)

MatchStateRestore ==
  /\ At("StateRestore")
  /\ state.save_chain_head \in Links("StateSave")
  /\ LET saved == stack[state.save_chain_head].state_backup
     IN Call(Here.next,
             [state EXCEPT
                !.sequence_counters =
                   Restored(@, saved.sequence_counters, Here.sequence_counters_to_restore),
                !.groups = Restored(@, saved.groups, Here.groups_to_restore),
                !.save_chain_head = saved.save_chain_head],
             stack)

ReturnFromCall ==
  /\ BackIn("SubroutineEnter") \/ BackIn("StateSave")
  /\ Ret(res, state, Callers)

-----------------------------------------------------------------------------
(***************************************************************************)
(* The root function.                                                      *)
(***************************************************************************)
CallRoot(c) ==
  /\ pc = "idle"
  /\ args' = c
  /\ current_start_offset' = c.start_offset
  /\ pc' = "search_loop"
  /\ state' = [state EXCEPT
       !.sequence_counters = [id \in c.code.graph.used_sequence_counters |-> Uninitialized]]
  /\ UNCHANGED <<function, res, stack, out>>

\* A new attempt keeps the counters of the one before.
SearchLoop ==
  /\ pc = "search_loop"
  /\ pc' = "call"
  /\ function' = graph.root
  /\ state' = [str_begin |-> current_start_offset,
               sequence_counters |-> state.sequence_counters,
               groups |-> [g \in Fields |-> [begin |-> Len(str), end |-> Len(str)]],
               return_chain_head |-> 0, save_chain_head |-> 0, stored |-> {}]
  /\ UNCHANGED <<args, current_start_offset, res, stack, out>>

RootReturned(value) == pc = "ret" /\ stack = <<>> /\ res = value

RootIsStringStart ==
  graph.root # nullptr /\ graph.node[graph.root].kind = "StringStartAssertion"

\* A fault: the last start position is not tried.
NextIterationShort ==
  /\ RootReturned(FALSE)
  /\ LET next_start_offset == current_start_offset + 1
         more == ~RootIsStringStart /\ next_start_offset + 1 < Len(str)
     IN /\ pc' = IF more THEN "search_loop" ELSE "end"
        /\ current_start_offset' = IF more THEN next_start_offset ELSE current_start_offset
  /\ UNCHANGED <<args, function, state, res, stack, out>>

NextIteration ==
  /\ RootReturned(FALSE)
  /\ LET next_start_offset == current_start_offset + 1
         more == ~RootIsStringStart /\ next_start_offset < Len(str)
     IN /\ pc' = IF more THEN "search_loop" ELSE "end"
        /\ current_start_offset' = IF more THEN next_start_offset ELSE current_start_offset
  /\ UNCHANGED <<args, function, state, res, stack, out>>

Subpattern(g) ==
  CASE g = 0 -> [begin |-> current_start_offset, end |-> state.str_begin]
    [] g # 0 /\ g \in Fields -> state.groups[g]
    [] OTHER -> [begin |-> Len(str), end |-> Len(str)]

Found ==
  /\ RootReturned(TRUE)
  /\ pc' = "end"
  /\ out' = [count |-> Cardinality(args.code.groups),
             subpatterns |-> [g \in { h \in args.code.groups : h < args.subpattern_count }
                                |-> Subpattern(g)]]
  /\ UNCHANGED <<args, current_start_offset, function, state, res, stack>>

Returned == pc = "end" /\ UNCHANGED vars

NodeFunction ==
  \/ ReturnTrue \/ MatchText \/ MatchOneOf \/ MatchAnySymbol
  \/ MatchStringStartAssertion \/ MatchStringEndAssertion
  \/ MatchGroupStart \/ MatchGroupEnd \/ MatchBackReference
  \/ MatchAlternatives \/ MatchAlternativesPossessive
  \/ MatchLookAhead \/ MatchLookBehind \/ MatchConditionalElement
  \/ MatchSequenceCounterReset \/ MatchSequenceCounter \/ MatchPossessiveSequence
  \/ MatchSingleRollbackPointSequence \/ MatchFixedLengthElementSequence
  \/ MatchAtomicGroup \/ MatchSubroutineEnter \/ MatchSubroutineLeave
  \/ MatchStateSave \/ MatchStateRestore

AfterCall ==
  \/ BackInAlternatives \/ BackInAlternativesPossessive \/ BackInLookAhead
  \/ BackInLookBehind \/ BackInConditionalElement \/ BackInSequenceCounter
  \/ BackInPossessiveSequence \/ BackInRollbackTail \/ BackInRollbackElement
  \/ BackInElement \/ BackInElementTail \/ BackInAtomicGroup \/ ReturnFromCall

Run == NodeFunction \/ AfterCall \/ SearchLoop \/ NextIteration \/ Found

Next == (\E c \in Inputs : CallRoot(c)) \/ Run \/ Returned

Spec == Init /\ [][Next]_vars /\ WF_vars(Run)
-----------------------------------------------------------------------------
(***************************************************************************)
(* Properties.                                                             *)
(***************************************************************************)
StateType ==
  [str_begin : 0..SizeMax,
   sequence_counters : [Counters -> Nat \cup {Uninitialized}],
   groups : [Fields -> [begin : Nat, end : Nat]],
   return_chain_head : Nat, save_chain_head : Nat, stored : SUBSET Counters]

\* A frame that has nothing but the copy of the State.
PlainKinds == LookKinds \cup {"AlternativesPossessive", "ConditionalElement", "SequenceCounter",
                              "AtomicGroup", "SubroutineEnter", "StateSave"}

FrameType ==
  LET Node == DOMAIN graph.node
  IN [kind : PlainKinds, node : Node, state_backup : StateType]
     \cup [kind : {"Alternatives"}, node : Node, state_backup : StateType, tried : Nat]
     \cup [kind : {"PossessiveSequence"}, node : Node, state_backup : StateType, counter : Nat]
     \cup [kind : {"SingleRollbackPointSequence"}, node : Node, state_backup : StateType,
           in_tail : BOOLEAN, next_states : SUBSET StateType]
     \cup [kind : {"FixedLengthElementSequence"}, node : Node, state_backup : StateType,
           in_tail : BOOLEAN, str_begin : 0..SizeMax, counter : Nat]

\* A frame is one of a node of its kind, and a choice only keeps one while there
\* is an alternative left.
FrameOK(f) ==
  LET n == graph.node[f.node]
  IN /\ n.kind = f.kind
     /\ f.kind = "Alternatives" => f.tried \in DOMAIN n.next /\ ~IsLast(n, f.tried)

\* Every variable has its type.
TypeOK ==
  /\ current_start_offset \in 0..SizeMax
  /\ pc \in {"idle", "search_loop", "call", "ret", "end"}
  /\ function \in DOMAIN graph.node \cup {nullptr}
  /\ pc = "search_loop" => state.sequence_counters \in [Counters -> Nat \cup {Uninitialized}]
  /\ pc \in {"call", "ret"} => state \in StateType
  /\ res \in BOOLEAN
  /\ stack \in Seq(FrameType)
  /\ \A k \in DOMAIN stack : FrameOK(stack[k])

\* The function goes on from the State its callee leaves, when that graph of its
\* own has matched.
WaitsForSubgraph(f) ==
  \/ f.kind \in LookKinds \cup {"AlternativesPossessive", "ConditionalElement",
                                 "PossessiveSequence", "AtomicGroup"}
  \/ f.kind \in {"SingleRollbackPointSequence", "FixedLengthElementSequence"} /\ ~f.in_tail

\* The part of the stack that is left when that function goes on.
Outer ==
  LET waiting == { k \in DOMAIN stack : WaitsForSubgraph(stack[k]) }
  IN IF waiting = {} THEN 0 ELSE Max(waiting) - 1

StatesOf(f) ==
  {f.state_backup} \cup IF f.kind = "SingleRollbackPointSequence" THEN f.next_states ELSE {}

\* The heads of both chains, in *state and in every copy that may be copied
\* back, are null or point to locals of functions that have not returned.  They
\* are followed without a check, and the locals are gone when a subgraph has
\* matched and its functions return.
ChainsLive ==
  LET link(head, kind, depth) == head = 0 \/ (head <= depth /\ head \in Links(kind))
      live(s, depth) == /\ link(s.return_chain_head, "SubroutineEnter", depth)
                        /\ link(s.save_chain_head, "StateSave", depth)
  IN /\ pc = "call" => live(state, Len(stack))
     /\ pc = "ret" /\ res => live(state, Outer)
     /\ \A k \in DOMAIN stack : \A s \in StatesOf(stack[k]) : live(s, k - 1)

\* The nodes of the subroutine that begins at node entry: what comes after its calls
\* is, what they call is not.
BodyFrom(g, entry) == ReachedFrom(g, {entry}, ContinuationsOf)

\* A subroutine returns behind its own call: the head SubroutineLeave follows is
\* a call of the subroutine being left, also where no StateRestore looks which call it
\* was (RegexGraph.cpp:728-733), a StateRestore finds the save of its own call, and when
\* the whole has matched, or a graph of its own has, the chains are as they were when
\* it began.
CallsReturn ==
  /\ At("SubroutineLeave") =>
       /\ state.return_chain_head # 0
       /\ LET call == graph.node[stack[state.return_chain_head].node]
          IN function \in BodyFrom(graph, call.subroutine_node)
  /\ At("StateRestore") =>
       /\ state.save_chain_head # 0
       /\ LET save == graph.node[stack[state.save_chain_head].node]
          IN /\ save.groups_to_save = Here.groups_to_restore
             /\ save.sequence_counters_to_save = Here.sequence_counters_to_restore
             /\ graph.node[save.next].next = function
  /\ pc = "ret" /\ res =>
       IF stack = <<>> THEN state.return_chain_head = 0 /\ state.save_chain_head = 0
       ELSE WaitsForSubgraph(Caller) =>
              /\ state.return_chain_head = Caller.state_backup.return_chain_head
              /\ state.save_chain_head = Caller.state_backup.save_chain_head

\* No counter is read before this attempt, and this call of a subroutine, has
\* stored one: neither the root function nor StateSave sets them, so that the
\* counters of an earlier attempt and of the caller are still there, and before the
\* first attempt no value at all.
CountersInitialized ==
  At("SequenceCounter") =>
    Here.id \in state.stored /\ state.sequence_counters[Here.id] # Uninitialized

\* All pointers into the string stay in it, and a group ends after it begins,
\* although nothing but the functions that read compares them with its end.
PointersInString ==
  pc \in {"call", "ret"} =>
    \A s \in {state} \cup UNION { StatesOf(stack[k]) : k \in DOMAIN stack } :
      /\ s.str_begin <= Len(str)
      /\ \A g \in Fields : s.groups[g].begin <= s.groups[g].end /\ s.groups[g].end <= Len(str)

\* Every call returns.
FunctionReturns == pc = "search_loop" ~> pc = "end"
=============================================================================
