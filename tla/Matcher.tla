------------------------------ MODULE Matcher ------------------------------
(***************************************************************************)
(* The graph interpreter of Matcher.cpp: Match tries every start position, *)
(* MatchNode walks the graph by recursive calls.  The recursion is made    *)
(* explicit: "stack" holds one frame for every C++ frame that still has    *)
(* work to do, or a local somebody points to; a call whose answer is       *)
(* returned as it is ("return MatchNode(node.next, state)") keeps none.    *)
(*                                                                         *)
(* Every MatchNode works on the State object it is given, "state" here; a  *)
(* frame keeps the other State objects of its function.  The pointer       *)
(* State::saved_state is the position in the stack of the StateSave frame  *)
(* whose local it points to, or 0: like the C++ address, it is not checked *)
(* by anything when it is used.                                            *)
(***************************************************************************)
EXTENDS RegexGraph

CONSTANT Inputs   \* the calls of Match: [graph, str, start_pos, out_groups_count]

\* The caller asks for no more groups than a State has room for.  (Match reads
\* State::groups up to the number of groups of the expression, unchecked.)
CallOK(c) ==
  /\ GraphOK(c.graph)
  /\ c.str \in Seq(Byte)
  /\ c.start_pos \in Nat
  /\ c.out_groups_count \in 0..GroupSlots

ASSUME InputsAssumption == \A c \in Inputs : CallOK(c)

VARIABLES
  input,    \* the arguments of the call
  i,        \* Match's loop variable, the start position being tried
  pc,       \* "idle" (before the call), "search" (in Match), "match" (MatchNode
            \* entered), "return" (MatchNode left) or "done"
  node,     \* the argument of MatchNode
  state,    \* the State object MatchNode works on
  answer,   \* what MatchNode returned
  stack,    \* the C++ frames above Match
  result    \* what Match returned, and out_groups

vars == <<input, i, pc, node, state, answer, stack, result>>

graph == input.graph
str   == input.str

(***************************************************************************)
(* Values.                                                                 *)
(***************************************************************************)
\* The groups and the sequence counters a State has.
Slots    == 0..(GroupSlots - 1)
Counters == graph.used_sequence_counters

\* A std::string_view into str; NoView is the one without data.
View(begin, size) == [at |-> begin, size |-> size]
NoView            == View(-1, 0)
Viewed(v)         == SubSeq(str, v.at + 1, v.at + v.size)

\* The State object Match makes for the start position p.
FreshState(p) ==
  [pos |-> p,
   groups |-> [g \in Slots |-> NoView],
   sequence_counters |-> [id \in Counters |-> 0],
   subroutines_return_stack |-> <<>>,
   saved_state |-> 0]

Moved(p)       == [state EXCEPT !.pos = p]
GroupIsKept(n) == n.index \in 1..(GroupSlots - 1)
NoMatch        == [count |-> 0, out_groups |-> <<>>]

\* Nothing has been asked yet.
NoInput == [graph |-> NoGraph, str |-> <<>>, start_pos |-> 0, out_groups_count |-> 0]

Init ==
  /\ input = NoInput
  /\ i = 0
  /\ pc = "idle"
  /\ node = nullptr
  /\ state = [pos |-> 0, groups |-> [g \in Slots |-> NoView], sequence_counters |-> <<>>,
              subroutines_return_stack |-> <<>>, saved_state |-> 0]
  /\ answer = FALSE
  /\ stack = <<>>
  /\ result = NoMatch

(***************************************************************************)
(* Control: entering MatchNode, and leaving it.                            *)
(***************************************************************************)
Here     == graph.node[node]
At(kind) == pc = "match" /\ node # nullptr /\ Here.kind = kind

Caller       == Last(stack)
BackIn(kind) == pc = "return" /\ stack # <<>> /\ Caller.kind = kind
Callers      == Front(stack)

\* MatchNode(p, s) is called, with the frames stk below it.
Enter(p, s, stk) ==
  /\ pc' = "match"
  /\ node' = p
  /\ state' = s
  /\ stack' = stk
  /\ UNCHANGED <<input, i, answer, result>>

\* MatchNode answers a; s is its State object, dirty or not.
Leave(a, s, stk) ==
  /\ pc' = "return"
  /\ answer' = a
  /\ state' = s
  /\ stack' = stk
  /\ UNCHANGED <<input, i, node, result>>

\* return cond && MatchNode(p, s)
EnterIf(cond, p, s) == IF cond THEN Enter(p, s, stack) ELSE Leave(FALSE, s, stack)

-----------------------------------------------------------------------------
(***************************************************************************)
(* Nodes that read the string.  The character is consumed even when it is  *)
(* not the one asked for: a failed MatchNode leaves its State dirty.       *)
(***************************************************************************)
Extracted(c) == IF c.ok THEN Moved(c.pos) ELSE state

OneOfHas(n, code) ==
  \/ code \in n.variants
  \/ \E range \in ToSet(n.ranges) : range[1] <= code /\ code <= range[2]

MatchNullptr ==
  /\ pc = "match"
  /\ node = nullptr
  /\ Leave(TRUE, state, stack)

MatchAnySymbol ==
  /\ At("AnySymbol")
  /\ LET c == ExtractCodePoint(str, state.pos)
     IN EnterIf(c.ok, Here.next, Extracted(c))

MatchSpecificSymbol ==
  /\ At("SpecificSymbol")
  /\ LET c == ExtractCodePoint(str, state.pos)
     IN EnterIf(c.ok /\ c.code = Here.code, Here.next, Extracted(c))

MatchOneOf ==
  /\ At("OneOf")
  /\ LET c == ExtractCodePoint(str, state.pos)
     IN EnterIf(c.ok /\ OneOfHas(Here, c.code) # Here.inverse_flag,
                Here.next, Extracted(c))

MatchString ==
  /\ At("String")
  /\ IF IsPrefixAt(Here.str, str, state.pos)
     THEN Enter(Here.next, Moved(state.pos + Len(Here.str)), stack)
     ELSE Leave(FALSE, state, stack)

MatchStringStartAssertion ==
  /\ At("StringStartAssertion")
  /\ EnterIf(state.pos = 0, Here.next, state)

MatchStringEndAssertion ==
  /\ At("StringEndAssertion")
  /\ EnterIf(state.pos = Len(str), Here.next, state)

(***************************************************************************)
(* Groups.                                                                 *)
(***************************************************************************)
WithGroup(s, g, v) == [s EXCEPT !.groups[g] = v]

MatchGroupStart ==
  /\ At("GroupStart")
  /\ Enter(Here.next,
           IF GroupIsKept(Here) THEN WithGroup(state, Here.index, View(state.pos, 0))
                                ELSE state,
           stack)

MatchGroupEnd ==
  /\ At("GroupEnd")
  /\ Enter(Here.next,
           IF GroupIsKept(Here)
           THEN LET begin == state.groups[Here.index].at
                IN WithGroup(state, Here.index, View(begin, Wrap(state.pos - begin)))
           ELSE state,
           stack)

MatchBackReference ==
  /\ At("BackReference")
  /\ LET prev_value == state.groups[Here.index]
     IN IF /\ GroupIsKept(Here)
           /\ state.pos + prev_value.size <= Len(str)
           /\ IsPrefixAt(Viewed(prev_value), str, state.pos)
        THEN Enter(Here.next, Moved(state.pos + prev_value.size), stack)
        ELSE Leave(FALSE, state, stack)

(***************************************************************************)
(* Choice.  Each alternative runs on a copy of the State.                  *)
(***************************************************************************)
TryAlternative(p, k, s, stk) ==
  IF k <= Len(graph.node[p].next)
  THEN Enter(graph.node[p].next[k], s,
             Append(stk, [kind |-> "Alternatives", node |-> p, tried |-> k, state |-> s]))
  ELSE Leave(FALSE, s, stk)

MatchAlternatives ==
  /\ At("Alternatives")
  /\ TryAlternative(node, 1, state, stack)

BackInAlternatives ==
  /\ BackIn("Alternatives")
  /\ IF answer THEN Leave(TRUE, state, Callers)
     ELSE TryAlternative(Caller.node, Caller.tried + 1, Caller.state, Callers)

MatchAlternativesPossessive ==
  /\ At("AlternativesPossessive")
  /\ Enter(Here.path0_element, state,
           Append(stack, [kind |-> "AlternativesPossessive", node |-> node,
                          state_copy |-> state]))

BackInAlternativesPossessive ==
  /\ BackIn("AlternativesPossessive")
  /\ LET n == graph.node[Caller.node]
     IN IF answer THEN Enter(n.path0_next, state, Callers)
                  ELSE Enter(n.path1_next, Caller.state_copy, Callers)

(***************************************************************************)
(* Assertions.  The look graph runs on a copy that is thrown away.         *)
(***************************************************************************)
EnterLook(s) ==
  Enter(Here.look_graph, s,
        Append(stack, [kind |-> Here.kind, node |-> node, state |-> state]))

MatchLookAhead ==
  /\ At("LookAhead")
  /\ EnterLook(state)

MatchLookBehind ==
  /\ At("LookBehind")
  /\ IF state.pos < Here.size
     THEN EnterIf(~Here.positive, Here.next, state)
     ELSE EnterLook(Moved(state.pos - Here.size))

BackInLook ==
  /\ BackIn("LookAhead") \/ BackIn("LookBehind")
  /\ LET n == graph.node[Caller.node]
     IN IF answer = n.positive THEN Enter(n.next, Caller.state, Callers)
                               ELSE Leave(FALSE, Caller.state, Callers)

MatchConditionalElement ==
  /\ At("ConditionalElement")
  /\ Enter(Here.condition_node, state,
           Append(stack, [kind |-> "ConditionalElement", node |-> node, state |-> state]))

BackInConditionalElement ==
  /\ BackIn("ConditionalElement")
  /\ LET n == graph.node[Caller.node]
     IN Enter(IF answer THEN n.next_true ELSE n.next_false, Caller.state, Callers)

(***************************************************************************)
(* Sequences with a counter.                                               *)
(***************************************************************************)
WithCounter(s, id, k) == [s EXCEPT !.sequence_counters[id] = k]

MatchSequenceCounterReset ==
  /\ At("SequenceCounterReset")
  /\ Enter(Here.next, WithCounter(state, Here.id, 0), stack)

MatchSequenceCounter ==
  /\ At("SequenceCounter")
  /\ LET sequence_counter == state.sequence_counters[Here.id]
         counted == WithCounter(state, Here.id, sequence_counter + 1)
     IN IF sequence_counter < Here.min_elements
        THEN Enter(Here.next_iteration, counted, stack)
        ELSE IF sequence_counter >= Here.max_elements
        THEN Enter(Here.next_sequence_end, counted, stack)
        ELSE Enter(IF Here.greedy THEN Here.next_iteration ELSE Here.next_sequence_end,
                   counted,
                   Append(stack, [kind |-> "SequenceCounter", node |-> node,
                                  state |-> counted]))

\* A fault: the other way is tried on the State the first one has left.
BackInSequenceCounterDirty ==
  /\ BackIn("SequenceCounter")
  /\ LET n == graph.node[Caller.node]
     IN IF answer THEN Leave(TRUE, state, Callers)
        ELSE Enter(IF n.greedy THEN n.next_sequence_end ELSE n.next_iteration,
                   state, Callers)

BackInSequenceCounter ==
  /\ BackIn("SequenceCounter")
  /\ LET n == graph.node[Caller.node]
     IN IF answer THEN Leave(TRUE, state, Callers)
        ELSE Enter(IF n.greedy THEN n.next_sequence_end ELSE n.next_iteration,
                   Caller.state, Callers)

(***************************************************************************)
(* Sequences that keep what they matched.                                  *)
(***************************************************************************)
\* PossessiveSequence: one more element, from the State s after `done` of them.
PossessiveLoop(p, done, s, stk) ==
  LET n == graph.node[p]
  IN IF done < n.max_elements
     THEN Enter(n.sequence_element, s,
                Append(stk, [kind |-> "PossessiveSequence", node |-> p,
                             done |-> done, state |-> s]))
     ELSE Enter(n.next, s, stk)

MatchPossessiveSequence ==
  /\ At("PossessiveSequence")
  /\ PossessiveLoop(node, 0, state, stack)

BackInPossessiveSequence ==
  /\ BackIn("PossessiveSequence")
  /\ LET n == graph.node[Caller.node]
     IN IF answer
        THEN PossessiveLoop(Caller.node, Caller.done + 1, state, Callers)
        ELSE IF Caller.done < n.min_elements
             THEN Leave(FALSE, Caller.state, Callers)
             ELSE Enter(n.next, Caller.state, Callers)

\* SingleRollbackPointSequence: the tail is tried after each element, on the
\* State itself, which is put back; the last tail that matched is the answer.
\* next_states is the optional next_state: at most one State.
RollbackFrame(p, in_tail, s, next_states) ==
  [kind |-> "SingleRollbackPointSequence", node |-> p, in_tail |-> in_tail,
   state_copy |-> s, next_states |-> next_states]

RollbackTail(p, s, next_states, stk) ==
  Enter(graph.node[p].next, s, Append(stk, RollbackFrame(p, TRUE, s, next_states)))

MatchSingleRollbackPointSequence ==
  /\ At("SingleRollbackPointSequence")
  /\ RollbackTail(node, state, {}, stack)

BackInSingleRollbackPointSequence ==
  /\ BackIn("SingleRollbackPointSequence")
  /\ IF Caller.in_tail
     THEN Enter(graph.node[Caller.node].sequence_element, Caller.state_copy,
                Append(Callers, RollbackFrame(Caller.node, FALSE, Caller.state_copy,
                                  IF answer THEN {state} ELSE Caller.next_states)))
     ELSE IF answer
     THEN RollbackTail(Caller.node, state, Caller.next_states, Callers)
     ELSE IF Caller.next_states # {}
     THEN Leave(TRUE, CHOOSE s \in Caller.next_states : TRUE, Callers)
     ELSE Leave(FALSE, state, Callers)

\* FixedLengthElementSequence: first count elements forward, on the State
\* itself; then try the tail, on copies, giving one element back each time.
LoopFrame(p, scanning, str_initial, count, s) ==
  [kind |-> "FixedLengthElementSequence", node |-> p, scanning |-> scanning,
   str_initial |-> str_initial, count |-> count, state |-> s]

AtElement(p, str_initial, count) == str_initial + count * graph.node[p].element_length

TryTail(p, str_initial, count, s, stk) ==
  Enter(graph.node[p].next, [s EXCEPT !.pos = AtElement(p, str_initial, count)],
        Append(stk, LoopFrame(p, FALSE, str_initial, count, s)))

\* A fault: the element that failed is counted too.
EndScanBeyond(p, str_initial, count, s, stk) ==
  IF count < graph.node[p].min_elements THEN Leave(FALSE, s, stk)
                                        ELSE TryTail(p, str_initial, count + 1, s, stk)

EndScan(p, str_initial, count, s, stk) ==
  IF count < graph.node[p].min_elements THEN Leave(FALSE, s, stk)
                                        ELSE TryTail(p, str_initial, count, s, stk)

ScanElement(p, str_initial, count, s, stk) ==
  IF count < graph.node[p].max_elements
  THEN Enter(graph.node[p].sequence_element,
             [s EXCEPT !.pos = AtElement(p, str_initial, count)],
             Append(stk, LoopFrame(p, TRUE, str_initial, count, s)))
  ELSE EndScan(p, str_initial, count, s, stk)

\* A fault: count is not decremented.
StepBackStuck(p, str_initial, count, s, stk) ==
  IF count = graph.node[p].min_elements THEN Leave(FALSE, s, stk)
                                        ELSE TryTail(p, str_initial, count, s, stk)

\* A fault: the loop steps back below min_elements.
StepBackBelow(p, str_initial, count, s, stk) ==
  IF count < graph.node[p].min_elements THEN Leave(FALSE, s, stk)
                                        ELSE TryTail(p, str_initial, count - 1, s, stk)

StepBack(p, str_initial, count, s, stk) ==
  IF count = graph.node[p].min_elements THEN Leave(FALSE, s, stk)
                                        ELSE TryTail(p, str_initial, count - 1, s, stk)

MatchFixedLengthElementSequence ==
  /\ At("FixedLengthElementSequence")
  /\ ScanElement(node, state.pos, 0, state, stack)

BackInFixedLengthElementSequence ==
  /\ BackIn("FixedLengthElementSequence")
  /\ LET p           == Caller.node
         str_initial == Caller.str_initial
     IN IF Caller.scanning
        THEN IF answer THEN ScanElement(p, str_initial, Caller.count + 1, state, Callers)
                       ELSE EndScan(p, str_initial, Caller.count, state, Callers)
        ELSE IF answer THEN Leave(TRUE, state, Callers)
                       ELSE StepBack(p, str_initial, Caller.count, Caller.state, Callers)

MatchAtomicGroup ==
  /\ At("AtomicGroup")
  /\ Enter(Here.group_element, state,
           Append(stack, [kind |-> "AtomicGroup", node |-> node]))

BackInAtomicGroup ==
  /\ BackIn("AtomicGroup")
  /\ IF answer THEN Enter(graph.node[Caller.node].next, state, Callers)
               ELSE Leave(FALSE, state, Callers)

(***************************************************************************)
(* Subroutine calls: an explicit return stack, and a chain of saved State  *)
(* parts that lives in the C++ frames of StateSave.                        *)
(***************************************************************************)
MatchSubroutineEnter ==
  /\ At("SubroutineEnter")
  /\ Enter(Here.subroutine_node,
           [state EXCEPT !.subroutines_return_stack = Append(@, Here.next)], stack)

\* A fault: the return address stays on the return stack.
MatchSubroutineLeaveNoPop ==
  /\ At("SubroutineLeave")
  /\ IF state.subroutines_return_stack = <<>>
     THEN Enter(nullptr, state, stack)
     ELSE Enter(Last(state.subroutines_return_stack), state, stack)

MatchSubroutineLeave ==
  /\ At("SubroutineLeave")
  /\ IF state.subroutines_return_stack = <<>>
     THEN Enter(nullptr, state, stack)
     ELSE Enter(Last(state.subroutines_return_stack),
                [state EXCEPT !.subroutines_return_stack = Front(@)], stack)

\* f with the values of g on S.
Overlay(f, g, S) == [x \in DOMAIN f |-> IF x \in S THEN g[x] ELSE f[x]]

\* A fault: an inner call does not put its own save on the chain.
WithSaveOutermost(s, n, link) ==
  [s EXCEPT
     !.sequence_counters =
        Overlay(@, [id \in Counters |-> 0], n.sequence_counters_to_save),
     !.groups = Overlay(@, [g \in Slots |-> NoView], n.groups_to_save),
     !.saved_state = IF @ = 0 THEN link ELSE @]

\* s for the inside of a call that saves what node n lists, in a local at `link`
\* of the stack.
WithSave(s, n, link) ==
  [s EXCEPT
     !.sequence_counters =
        Overlay(@, [id \in Counters |-> 0], n.sequence_counters_to_save),
     !.groups = Overlay(@, [g \in Slots |-> NoView], n.groups_to_save),
     !.saved_state = link]

\* s with what a save for node n holds.  A fault: saved_state is not set back to
\* the outer call's.
WithRestoredNoUnlink(s, n, saved) ==
  [s EXCEPT
     !.sequence_counters = Overlay(@, saved.sequence_counters, n.sequence_counters_to_save),
     !.groups = Overlay(@, saved.groups, n.groups_to_save)]

\* A fault: the groups are not put back.
WithRestoredNoGroups(s, n, saved) ==
  [s EXCEPT
     !.sequence_counters = Overlay(@, saved.sequence_counters, n.sequence_counters_to_save),
     !.saved_state = saved.saved_state]

WithRestored(s, n, saved) ==
  [s EXCEPT
     !.sequence_counters = Overlay(@, saved.sequence_counters, n.sequence_counters_to_save),
     !.groups = Overlay(@, saved.groups, n.groups_to_save),
     !.saved_state = saved.saved_state]

\* The frame keeps the State as it was.  Of it, state_to_save has the counters
\* and groups the node lists, and saved_state as the link "prev".
MatchStateSave ==
  /\ At("StateSave")
  /\ Enter(Here.next, WithSave(state, Here, Len(stack) + 1),
           Append(stack, [kind |-> "StateSave", node |-> node, state |-> state]))

BackInStateSave ==
  /\ BackIn("StateSave")
  /\ Leave(answer, state, Callers)

\* The StateSave frames that still exist.  With a pointer to anything else
\* there is no step: SavedStateLive says that this never happens.
LiveSaves == { k \in DOMAIN stack : stack[k].kind = "StateSave" }

MatchStateRestore ==
  /\ At("StateRestore")
  /\ state.saved_state \in LiveSaves
  /\ LET frame == stack[state.saved_state]
     IN Enter(Here.next, WithRestored(state, graph.node[frame.node], frame.state), stack)

-----------------------------------------------------------------------------
(***************************************************************************)
(* Match: the search for the first start position from which the graph     *)
(* matches.                                                                *)
(***************************************************************************)
Call(c) ==
  /\ pc = "idle"
  /\ pc' = "search"
  /\ input' = c
  /\ i' = c.start_pos
  /\ UNCHANGED <<node, state, answer, stack, result>>

StartAttempt ==
  /\ pc = "search"
  /\ i < Len(str)
  /\ pc' = "match"
  /\ node' = graph.root
  /\ state' = FreshState(i)
  /\ UNCHANGED <<input, i, answer, stack, result>>

SearchExhausted ==
  /\ pc = "search"
  /\ i >= Len(str)
  /\ pc' = "done"
  /\ UNCHANGED <<input, i, node, state, answer, stack, result>>

OutGroup(g) ==
  CASE g = 0 -> View(i, Wrap(state.pos - i))
    [] g > 0 /\ state.groups[g].at = -1 -> View(Len(str), 0)
    [] OTHER -> state.groups[g]

\* out_groups[0] is written whenever there is room, the others only up to the
\* number of groups of the expression.
GroupsWritten ==
  {g \in 0..(input.out_groups_count - 1) : g = 0 \/ g < graph.group_count}

AttemptMatched ==
  /\ pc = "return"
  /\ stack = <<>>
  /\ answer
  /\ pc' = "done"
  /\ result' = [count |-> graph.group_count,
                out_groups |-> [g \in GroupsWritten |-> OutGroup(g)]]
  /\ UNCHANGED <<input, i, node, state, answer, stack>>

\* A fault: the next attempt begins where this one did.
AttemptFailedStuck ==
  /\ pc = "return"
  /\ stack = <<>>
  /\ ~answer
  /\ pc' = "search"
  /\ UNCHANGED <<input, i, node, state, answer, stack, result>>

AttemptFailed ==
  /\ pc = "return"
  /\ stack = <<>>
  /\ ~answer
  /\ pc' = "search"
  /\ i' = i + 1
  /\ UNCHANGED <<input, node, state, answer, stack, result>>

\* The call has returned.
Returned == pc = "done" /\ UNCHANGED vars

VisitNode ==
  \/ MatchNullptr \/ MatchAnySymbol \/ MatchSpecificSymbol \/ MatchOneOf \/ MatchString
  \/ MatchStringStartAssertion \/ MatchStringEndAssertion
  \/ MatchGroupStart \/ MatchGroupEnd \/ MatchBackReference
  \/ MatchAlternatives \/ MatchAlternativesPossessive
  \/ MatchLookAhead \/ MatchLookBehind \/ MatchConditionalElement
  \/ MatchSequenceCounterReset \/ MatchSequenceCounter \/ MatchPossessiveSequence
  \/ MatchSingleRollbackPointSequence \/ MatchFixedLengthElementSequence
  \/ MatchAtomicGroup \/ MatchSubroutineEnter \/ MatchSubroutineLeave
  \/ MatchStateSave \/ MatchStateRestore

ReturnToFrame ==
  \/ BackInAlternatives \/ BackInAlternativesPossessive \/ BackInLook
  \/ BackInConditionalElement \/ BackInSequenceCounter \/ BackInPossessiveSequence
  \/ BackInSingleRollbackPointSequence \/ BackInFixedLengthElementSequence
  \/ BackInAtomicGroup \/ BackInStateSave

Search == StartAttempt \/ SearchExhausted \/ AttemptMatched \/ AttemptFailed

Run == VisitNode \/ ReturnToFrame \/ Search

Next == (\E c \in Inputs : Call(c)) \/ Run \/ Returned

Spec == Init /\ [][Next]_vars

\* One thread runs the call and nothing blocks it.
FairSpec == Spec /\ WF_vars(Run)
-----------------------------------------------------------------------------
(***************************************************************************)
(* Types.                                                                  *)
(***************************************************************************)
Pointers      == DOMAIN graph.node \cup {nullptr}
NodesOf(kind) == { p \in DOMAIN graph.node : graph.node[p].kind = kind }

ViewType == [at : Int, size : 0..SizeMax]

StateType ==
  [pos : Nat,
   groups : [Slots -> ViewType],
   sequence_counters : [Counters -> Nat],
   subroutines_return_stack : Seq(Pointers),
   saved_state : Nat]

\* A frame that keeps one State, of a node of this kind.
KeepsState(kind) == [kind : {kind}, node : NodesOf(kind), state : StateType]

\* Once the scan is over there are enough elements, so that stepping back stops.
LoopFrames ==
  { f \in [kind : {"FixedLengthElementSequence"}, node : NodesOf("FixedLengthElementSequence"),
           scanning : BOOLEAN, str_initial : Nat, count : Nat, state : StateType] :
      f.scanning \/ f.count >= graph.node[f.node].min_elements }

Frame ==
  [kind : {"Alternatives"}, node : NodesOf("Alternatives"), tried : Nat, state : StateType]
  \cup [kind : {"AlternativesPossessive"}, node : NodesOf("AlternativesPossessive"),
        state_copy : StateType]
  \cup KeepsState("LookAhead")
  \cup KeepsState("LookBehind")
  \cup KeepsState("ConditionalElement")
  \cup KeepsState("SequenceCounter")
  \cup KeepsState("StateSave")
  \cup [kind : {"PossessiveSequence"}, node : NodesOf("PossessiveSequence"), done : Nat,
        state : StateType]
  \cup [kind : {"SingleRollbackPointSequence"}, node : NodesOf("SingleRollbackPointSequence"),
        in_tail : BOOLEAN, state_copy : StateType, next_states : SUBSET StateType]
  \cup LoopFrames
  \cup [kind : {"AtomicGroup"}, node : NodesOf("AtomicGroup")]

\* Every variable has its type: in particular every frame belongs to a node of
\* its own kind, every counter and group slot that is saved exists, and no
\* position is negative (look-behind and the loops move backwards).
TypeOK ==
  /\ CallOK(input)
  /\ i \in Nat
  /\ pc \in {"idle", "search", "match", "return", "done"}
  /\ node \in Pointers
  /\ pc \in {"match", "return"} => state \in StateType
  /\ answer \in BOOLEAN
  /\ stack \in Seq(Frame)
  /\ pc = "idle" => node = nullptr /\ stack = <<>>
  /\ result.count \in Nat
  /\ \A g \in DOMAIN result.out_groups : g \in Nat /\ result.out_groups[g] \in ViewType

(***************************************************************************)
(* Safety.                                                                 *)
(***************************************************************************)
\* The State objects frame f keeps: the State its function began with, and those
\* with which a whole tail has matched.
StatesBefore(f) ==
  CASE f.kind \in {"AlternativesPossessive", "SingleRollbackPointSequence"} -> {f.state_copy}
    [] f.kind = "AtomicGroup" -> {}
    [] OTHER -> {f.state}

StatesAfter(f) == IF f.kind = "SingleRollbackPointSequence" THEN f.next_states ELSE {}
StatesIn(f)    == StatesBefore(f) \cup StatesAfter(f)

\* The frame waits for the end of a graph of its own, not for the end of all
\* that follows: its function goes on from the State the callee left.
WaitsForSubgraph(f) ==
  \/ f.kind \in LookKinds \cup {"AlternativesPossessive", "ConditionalElement",
                                 "PossessiveSequence", "AtomicGroup"}
  \/ f.kind = "SingleRollbackPointSequence" /\ ~f.in_tail
  \/ f.kind = "FixedLengthElementSequence" /\ f.scanning

\* How much of the stack will be there when the function that waits for the
\* graph being matched goes on.
Outer ==
  LET waiting == { k \in DOMAIN stack : WaitsForSubgraph(stack[k]) }
  IN IF waiting = {} THEN 0 ELSE Max(waiting) - 1

\* State::saved_state never dangles: in the State being matched, in every State
\* a frame keeps and so in every link of the chain, it is null or points
\* to a local of a StateSave call that has not returned.  A State that a
\* subgraph has matched points below the frames that are about to go away.
SavedStateLive ==
  LET live(k, depth) == k = 0 \/ (k <= depth /\ k \in LiveSaves)
  IN /\ pc = "match" => live(state.saved_state, Len(stack))
     /\ pc = "return" /\ answer => live(state.saved_state, Outer)
     /\ \A k \in DOMAIN stack :
          \A s \in StatesIn(stack[k]) : live(s.saved_state, k - 1)

\* A call puts back what it saved itself: StateRestore finds the frame of the
\* StateSave its own SubroutineEnter comes from, made with the calls open that
\* are open now, however many calls, and returns from calls, there were between.
RestoresItsOwnSave ==
  At("StateRestore") =>
    /\ state.saved_state \in LiveSaves
    /\ LET frame == stack[state.saved_state]
           save  == graph.node[frame.node]
       IN /\ graph.node[save.next].next = node
          /\ frame.state.subroutines_return_stack = state.subroutines_return_stack
          /\ save.groups_to_save = Here.groups_to_restore
          /\ save.sequence_counters_to_save = Here.sequence_counters_to_restore

\* Calls are nested in subgraphs and subgraphs in calls: when the element of a
\* possessive or atomic construct, a look or a condition has matched, as many
\* calls are open as when it began; when the expression has matched, none is.
CallsBalanced ==
  pc = "return" /\ answer =>
    IF stack = <<>>
    THEN state.subroutines_return_stack = <<>> /\ state.saved_state = 0
    ELSE WaitsForSubgraph(Caller) =>
           \A s \in StatesBefore(Caller) :
             /\ state.subroutines_return_stack = s.subroutines_return_stack
             /\ state.saved_state = s.saved_state

\* GroupEnd always closes a group that GroupStart has opened, at or before the
\* current position: no call that resets its groups comes in between without
\* putting them back.
GroupEndFindsStart ==
  At("GroupEnd") /\ GroupIsKept(Here) =>
    state.groups[Here.index].at \in 0..state.pos

\* The State being matched and those that may be gone back to.
StatesInUse == {state} \cup UNION { StatesIn(stack[k]) : k \in DOMAIN stack }

\* No State begins outside the string (string_view::remove_prefix and the
\* arithmetic of the loops are not checked).
PositionsInString == pc \in {"match", "return"} => \A s \in StatesInUse : s.pos <= Len(str)

\* No group of a State does either.
ViewsInString ==
  pc \in {"match", "return"} =>
    \A s \in StatesInUse, g \in Slots :
      LET v == s.groups[g]
      IN v = NoView \/ (v.at >= 0 /\ v.size >= 0 /\ v.at + v.size <= Len(str))

\* No State, and none that is gone back to, points outside the string: neither
\* the rest to match nor a group.
StatesInString == PositionsInString /\ ViewsInString

\* The loop that steps back over its elements finds them where they were
\* matched: every element has had exactly the length of the node.
ElementLengthExact ==
  BackIn("FixedLengthElementSequence") /\ Caller.scanning /\ answer =>
    state.pos = AtElement(Caller.node, Caller.str_initial, Caller.count + 1)

(***************************************************************************)
(* Liveness.                                                               *)
(***************************************************************************)
\* Every call of Match returns.
MatchReturns == pc = "search" ~> pc = "done"
=============================================================================
