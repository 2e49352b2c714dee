--------------------------- MODULE MatcherProofs ---------------------------
(***************************************************************************)
(* Theorems about Matcher, for every graph, every string and every number  *)
(* of calls.                                                               *)
(***************************************************************************)
EXTENDS Matcher, GraphLemmas

-----------------------------------------------------------------------------
(***************************************************************************)
(* Lemmas about sequences and characters.                                  *)
(***************************************************************************)
\* Extracting a character never moves before the beginning of the string.
LEMMA ExtractCodePointType ==
  ASSUME NEW s \in Seq(Byte), NEW pos \in Nat
  PROVE  ExtractCodePoint(s, pos).pos \in Nat
<1>1. CASE pos >= Len(s) \/ Truncated(s, pos)
  BY <1>1 DEF ExtractCodePoint, NoCode
<1>2. CASE ~(pos >= Len(s) \/ Truncated(s, pos))
  <2> DEFINE end == pos + LengthByLead(s[pos + 1])
  <2>1. LengthByLead(s[pos + 1]) \in 1..4
    BY LengthByLeadBound
  <2>2. end \in Nat
    BY <2>1
  <2> HIDE DEF end
  <2>3. \/ ExtractCodePoint(s, pos) = NoCode
        \/ ExtractCodePoint(s, pos)
             = [ok |-> TRUE, code |-> CodeOf(SubSeq(s, pos + 1, end)), pos |-> end]
    BY <1>2 DEF ExtractCodePoint, end
  <2> QED
    BY <2>2, <2>3 DEF NoCode
<1> QED
  BY <1>1, <1>2

-----------------------------------------------------------------------------
(***************************************************************************)
(* Lemmas about types: what entering and leaving MatchNode keeps, and what *)
(* the parts of a node and of a State are.                                 *)
(***************************************************************************)
\* The sets the types are made of depend on the call's arguments alone.
LEMMA SameTypes ==
  ASSUME UNCHANGED input
  PROVE  /\ Pointers' = Pointers
         /\ Counters' = Counters
         /\ StateType' = StateType
         /\ Frame' = Frame
         /\ CallOK(input)' = CallOK(input)
BY DEF Pointers, Counters, StateType, Frame, LoopFrames, KeepsState, NodesOf, Slots, graph,
       CallOK

\* What a view may be depends on nothing.
LEMMA SameViews == ViewType' = ViewType
BY DEF ViewType

\* The parts of TypeOK that a running MatchNode relies on.
Running == TypeOK /\ pc \in {"match", "return"}

LEMMA RunningTypes ==
  ASSUME Running
  PROVE  /\ node \in Pointers
         /\ state \in StateType
         /\ stack \in Seq(Frame)
         /\ str \in Seq(Byte)
         /\ GraphOK(graph)
BY DEF Running, TypeOK, CallOK, str, graph

\* Entering MatchNode with arguments of their types.
LEMMA EnterType ==
  ASSUME Running, NEW p \in Pointers, NEW s \in StateType, NEW stk \in Seq(Frame),
         Enter(p, s, stk)
  PROVE  TypeOK'
<1>1. UNCHANGED input
  BY DEF Enter
<1> QED
  BY <1>1, SameTypes DEF Running, TypeOK, Enter

\* Leaving MatchNode likewise.
LEMMA LeaveType ==
  ASSUME Running, NEW a \in BOOLEAN, NEW s \in StateType, NEW stk \in Seq(Frame),
         Leave(a, s, stk)
  PROVE  TypeOK'
<1>1. UNCHANGED input
  BY DEF Leave
<1> QED
  BY <1>1, SameTypes DEF Running, TypeOK, Leave

\* return cond && MatchNode(p, s)
LEMMA EnterIfType ==
  ASSUME Running, NEW cond, NEW p \in Pointers, NEW s \in StateType, EnterIf(cond, p, s)
  PROVE  TypeOK'
<1>1. stack \in Seq(Frame)
  BY RunningTypes
<1>2. CASE cond
  BY <1>1, <1>2, EnterType DEF EnterIf
<1>3. CASE ~cond
  BY <1>1, <1>3, LeaveType DEF EnterIf
<1> QED
  BY <1>2, <1>3

\* Every node of the graph has the fields of its kind.
LEMMA NodeFields ==
  ASSUME Running, NEW p \in DOMAIN graph.node
  PROVE  NodeOK(graph.node[p], Pointers, Counters)
BY RunningTypes DEF GraphOK, Pointers, Counters

LEMMA HereFields ==
  ASSUME Running, NEW kind, At(kind)
  PROVE  /\ node \in DOMAIN graph.node
         /\ node \in NodesOf(kind)
         /\ Here.kind = kind
         /\ NodeOK(Here, Pointers, Counters)
<1>1. node \in DOMAIN graph.node
  BY RunningTypes DEF At, Pointers
<1> QED
  BY <1>1, NodeFields DEF At, Here, NodesOf

\* The ways the matcher changes a State.
LEMMA StateUpdates ==
  ASSUME NEW s \in StateType
  PROVE  /\ \A p \in Nat : [s EXCEPT !.pos = p] \in StateType
         /\ \A g \in Slots, v \in ViewType : WithGroup(s, g, v) \in StateType
         /\ \A id \in Counters, k \in Nat : WithCounter(s, id, k) \in StateType
         /\ \A r \in Seq(Pointers) :
              [s EXCEPT !.subroutines_return_stack = r] \in StateType
<1>1. \A p \in Nat : [s EXCEPT !.pos = p] \in StateType
  BY DEF StateType
<1>2. \A g \in Slots, v \in ViewType : WithGroup(s, g, v) \in StateType
  BY DEF StateType, WithGroup
<1>3. \A id \in Counters, k \in Nat : WithCounter(s, id, k) \in StateType
  BY DEF StateType, WithCounter
<1>4. \A r \in Seq(Pointers) : [s EXCEPT !.subroutines_return_stack = r] \in StateType
  BY DEF StateType
<1> QED
  BY <1>1, <1>2, <1>3, <1>4

LEMMA StateFields ==
  ASSUME NEW s \in StateType
  PROVE  /\ s.pos \in Nat
         /\ s.groups \in [Slots -> ViewType]
         /\ s.sequence_counters \in [Counters -> Nat]
         /\ s.subroutines_return_stack \in Seq(Pointers)
         /\ s.saved_state \in Nat
BY DEF StateType

\* A match moved to a position that is one.
LEMMA MovedType ==
  ASSUME Running, NEW p \in Nat
  PROVE  Moved(p) \in StateType
BY RunningTypes, StateUpdates DEF Moved

-----------------------------------------------------------------------------
(***************************************************************************)
(* Nodes that read the string.                                             *)
(***************************************************************************)
LEMMA ExtractedType ==
  ASSUME Running
  PROVE  Extracted(ExtractCodePoint(str, state.pos)) \in StateType
<1>1. ExtractCodePoint(str, state.pos).pos \in Nat
  BY RunningTypes, StateFields, ExtractCodePointType
<1> QED
  BY <1>1, MovedType, RunningTypes DEF Extracted

LEMMA MatchNullptrType ==
  ASSUME TypeOK, MatchNullptr
  PROVE  TypeOK'
<1>1. Running
  BY DEF MatchNullptr, Running
<1> QED
  BY <1>1, RunningTypes, LeaveType DEF MatchNullptr

LEMMA MatchSymbolType ==
  ASSUME TypeOK, MatchAnySymbol \/ MatchSpecificSymbol \/ MatchOneOf
  PROVE  TypeOK'
<1>1. Running
  BY DEF MatchAnySymbol, MatchSpecificSymbol, MatchOneOf, At, Running
<1>2. Here.next \in Pointers
  BY <1>1, HereFields DEF MatchAnySymbol, MatchSpecificSymbol, MatchOneOf, NodeOK, NextKinds
<1>3. Extracted(ExtractCodePoint(str, state.pos)) \in StateType
  BY <1>1, ExtractedType
<1> QED
  BY <1>1, <1>2, <1>3, EnterIfType DEF MatchAnySymbol, MatchSpecificSymbol, MatchOneOf

LEMMA MatchStringType ==
  ASSUME TypeOK, MatchString
  PROVE  TypeOK'
<1>1. Running
  BY DEF MatchString, At, Running
<1>2. Here.next \in Pointers /\ Here.str \in Seq(Byte)
  BY <1>1, HereFields DEF MatchString, NodeOK, NextKinds
<1>3. state.pos + Len(Here.str) \in Nat
  BY <1>1, <1>2, RunningTypes, StateFields
<1>4. Moved(state.pos + Len(Here.str)) \in StateType
  BY <1>1, <1>3, MovedType
<1> QED
  BY <1>1, <1>2, <1>4, RunningTypes, EnterType, LeaveType DEF MatchString

LEMMA MatchAssertionType ==
  ASSUME TypeOK, MatchStringStartAssertion \/ MatchStringEndAssertion
  PROVE  TypeOK'
<1>1. Running
  BY DEF MatchStringStartAssertion, MatchStringEndAssertion, At, Running
<1>2. Here.next \in Pointers
  BY <1>1, HereFields DEF MatchStringStartAssertion, MatchStringEndAssertion, NodeOK, NextKinds
<1> QED
  BY <1>1, <1>2, RunningTypes, EnterIfType
     DEF MatchStringStartAssertion, MatchStringEndAssertion

-----------------------------------------------------------------------------
(***************************************************************************)
(* Groups.                                                                 *)
(***************************************************************************)
LEMMA ViewIsView ==
  ASSUME NEW b \in Int, NEW n \in Int
  PROVE  /\ View(b, Wrap(n)) \in ViewType
         /\ View(b, 0) \in ViewType
<1>1. Wrap(n) \in 0..SizeMax
  BY SizeMaxAssumption DEF Wrap
<1>2. 0 \in 0..SizeMax
  BY SizeMaxAssumption
<1> QED
  BY <1>1, <1>2 DEF View, ViewType

LEMMA MatchGroupStartType ==
  ASSUME TypeOK, MatchGroupStart
  PROVE  TypeOK'
<1>1. Running
  BY DEF MatchGroupStart, At, Running
<1>2. Here.next \in Pointers /\ Here.index \in Nat
  BY <1>1, HereFields DEF MatchGroupStart, NodeOK, NextKinds, GroupKinds
<1>3. View(state.pos, 0) \in ViewType
  BY <1>1, RunningTypes, StateFields, ViewIsView
<1>4. ASSUME GroupIsKept(Here)
      PROVE  WithGroup(state, Here.index, View(state.pos, 0)) \in StateType
  <2>1. Here.index \in Slots
    BY <1>2, <1>4, GroupSlotsAssumption DEF GroupIsKept, Slots
  <2> QED
    BY <1>1, <1>3, <2>1, RunningTypes, StateUpdates
<1> QED
  BY <1>1, <1>2, <1>4, RunningTypes, EnterType DEF MatchGroupStart

LEMMA MatchGroupEndType ==
  ASSUME TypeOK, MatchGroupEnd
  PROVE  TypeOK'
<1>1. Running
  BY DEF MatchGroupEnd, At, Running
<1>2. Here.next \in Pointers /\ Here.index \in Nat
  BY <1>1, HereFields DEF MatchGroupEnd, NodeOK, NextKinds, GroupKinds
<1> DEFINE begin == state.groups[Here.index].at
           closed == WithGroup(state, Here.index, View(begin, Wrap(state.pos - begin)))
<1>3. ASSUME GroupIsKept(Here)
      PROVE  closed \in StateType
  <2>1. Here.index \in Slots
    BY <1>2, <1>3, GroupSlotsAssumption DEF GroupIsKept, Slots
  <2>2. begin \in Int /\ state.pos \in Int
    BY <1>1, <2>1, RunningTypes, StateFields DEF ViewType
  <2>3. View(begin, Wrap(state.pos - begin)) \in ViewType
    BY <2>2, ViewIsView
  <2> QED
    BY <1>1, <2>1, <2>3, RunningTypes, StateUpdates
<1>4. Enter(Here.next, IF GroupIsKept(Here) THEN closed ELSE state, stack)
  BY DEF MatchGroupEnd
<1> HIDE DEF closed
<1> QED
  BY <1>1, <1>2, <1>3, <1>4, RunningTypes, EnterType

LEMMA MatchBackReferenceType ==
  ASSUME TypeOK, MatchBackReference
  PROVE  TypeOK'
<1>1. Running
  BY DEF MatchBackReference, At, Running
<1>2. Here.next \in Pointers /\ Here.index \in Nat
  BY <1>1, HereFields DEF MatchBackReference, NodeOK, NextKinds, GroupKinds
<1> DEFINE prev_value == state.groups[Here.index]
<1>3. ASSUME GroupIsKept(Here)
      PROVE  Moved(state.pos + prev_value.size) \in StateType
  <2>1. Here.index \in Slots
    BY <1>2, <1>3, GroupSlotsAssumption DEF GroupIsKept, Slots
  <2>2. prev_value.size \in Nat /\ state.pos \in Nat
    BY <1>1, <2>1, RunningTypes, StateFields, SizeMaxAssumption DEF ViewType
  <2> QED
    BY <1>1, <2>2, MovedType
<1> HIDE DEF prev_value
<1>4. \/ GroupIsKept(Here) /\ Enter(Here.next, Moved(state.pos + prev_value.size), stack)
      \/ Leave(FALSE, state, stack)
  BY DEF MatchBackReference, prev_value
<1> QED
  BY <1>1, <1>2, <1>3, <1>4, RunningTypes, EnterType, LeaveType

-----------------------------------------------------------------------------
(***************************************************************************)
(* Frames.                                                                 *)
(***************************************************************************)
\* A frame put on the stack leaves a stack.
LEMMA PushedType ==
  ASSUME NEW stk \in Seq(Frame), NEW f \in Frame
  PROVE  Append(stk, f) \in Seq(Frame)
OBVIOUS

\* The frame a function returns to, and the frames below it.
LEMMA CallerType ==
  ASSUME Running, NEW kind, BackIn(kind)
  PROVE  /\ Caller \in Frame
         /\ Callers \in Seq(Frame)
         /\ Caller.kind = kind
BY RunningTypes, LastAndFront DEF BackIn, Caller, Callers

\* What a frame of each kind holds.
LEMMA FrameFields ==
  ASSUME NEW f \in Frame
  PROVE  /\ f.node \in DOMAIN graph.node
         /\ graph.node[f.node].kind = f.kind
         /\ f.node \in NodesOf(f.kind)
BY DEF Frame, LoopFrames, KeepsState, NodesOf

\* The kinds of frames that keep one State in "state".
KeepingKinds == {"Alternatives", "LookAhead", "LookBehind", "ConditionalElement",
                 "SequenceCounter", "StateSave", "PossessiveSequence",
                 "FixedLengthElementSequence"}

LEMMA FrameStates ==
  ASSUME NEW f \in Frame
  PROVE  /\ f.kind \in KeepingKinds => f.state \in StateType
         /\ f.kind = "AlternativesPossessive" => f.state_copy \in StateType
         /\ f.kind = "SingleRollbackPointSequence" =>
              f.state_copy \in StateType /\ f.next_states \subseteq StateType
         /\ f.kind = "Alternatives" => f.tried \in Nat
         /\ f.kind = "PossessiveSequence" => f.done \in Nat
BY DEF Frame, LoopFrames, KeepsState, KeepingKinds

\* The node the frame on top belongs to.
LEMMA CallerNode ==
  ASSUME Running, NEW kind, BackIn(kind)
  PROVE  /\ Caller.node \in DOMAIN graph.node
         /\ Caller.node \in NodesOf(kind)
         /\ graph.node[Caller.node].kind = kind
         /\ NodeOK(graph.node[Caller.node], Pointers, Counters)
BY CallerType, FrameFields, NodeFields

-----------------------------------------------------------------------------
(***************************************************************************)
(* Choice.                                                                 *)
(***************************************************************************)
LEMMA TryAlternativeType ==
  ASSUME Running, NEW p \in NodesOf("Alternatives"), NEW k \in Nat \ {0},
         NEW s \in StateType, NEW stk \in Seq(Frame), TryAlternative(p, k, s, stk)
  PROVE  TypeOK'
<1> DEFINE f == [kind |-> "Alternatives", node |-> p, tried |-> k, state |-> s]
<1>1. f \in Frame
  BY DEF Frame
<1>2. graph.node[p].next \in Seq(Pointers)
  BY NodeFields DEF NodesOf, NodeOK
<1>3. CASE k <= Len(graph.node[p].next)
  <2>1. graph.node[p].next[k] \in Pointers
    BY <1>2, <1>3
  <2>2. Append(stk, f) \in Seq(Frame)
    BY <1>1, PushedType
  <2>3. Enter(graph.node[p].next[k], s, Append(stk, f))
    BY <1>3 DEF TryAlternative
  <2> QED
    BY <2>1, <2>2, <2>3, EnterType
<1>4. CASE ~(k <= Len(graph.node[p].next))
  BY <1>4, LeaveType DEF TryAlternative
<1> QED
  BY <1>3, <1>4

LEMMA AlternativesType ==
  ASSUME TypeOK, MatchAlternatives \/ BackInAlternatives
  PROVE  TypeOK'
<1>1. Running
  BY DEF MatchAlternatives, BackInAlternatives, At, BackIn, Running
<1>2. CASE MatchAlternatives
  BY <1>1, <1>2, HereFields, RunningTypes, TryAlternativeType DEF MatchAlternatives
<1>3. CASE BackInAlternatives
  <2>1. BackIn("Alternatives")
    BY <1>3 DEF BackInAlternatives
  <2>2. /\ Callers \in Seq(Frame)
        /\ Caller.state \in StateType
        /\ Caller.tried + 1 \in Nat \ {0}
        /\ Caller.node \in NodesOf("Alternatives")
    BY <1>1, <2>1, CallerType, CallerNode, FrameStates DEF KeepingKinds
  <2>3. CASE answer
    BY <1>1, <1>3, <2>2, <2>3, RunningTypes, LeaveType DEF BackInAlternatives
  <2>4. CASE ~answer
    BY <1>1, <1>3, <2>2, <2>4, TryAlternativeType DEF BackInAlternatives
  <2> QED
    BY <2>3, <2>4
<1> QED
  BY <1>2, <1>3

LEMMA AlternativesPossessiveType ==
  ASSUME TypeOK, MatchAlternativesPossessive \/ BackInAlternativesPossessive
  PROVE  TypeOK'
<1>1. Running
  BY DEF MatchAlternativesPossessive, BackInAlternativesPossessive, At, BackIn, Running
<1>2. CASE MatchAlternativesPossessive
  <2> DEFINE f == [kind |-> "AlternativesPossessive", node |-> node, state_copy |-> state]
  <2>1. At("AlternativesPossessive")
    BY <1>2 DEF MatchAlternativesPossessive
  <2>2. f \in Frame
    BY <1>1, <2>1, HereFields, RunningTypes DEF Frame
  <2>3. Here.path0_element \in Pointers
    BY <1>1, <2>1, HereFields DEF NodeOK
  <2>4. Append(stack, f) \in Seq(Frame)
    BY <1>1, <2>2, RunningTypes, PushedType
  <2>5. Enter(Here.path0_element, state, Append(stack, f))
    BY <1>2 DEF MatchAlternativesPossessive
  <2> QED
    BY <1>1, <2>3, <2>4, <2>5, RunningTypes, EnterType
<1>3. CASE BackInAlternativesPossessive
  <2>1. BackIn("AlternativesPossessive")
    BY <1>3 DEF BackInAlternativesPossessive
  <2>2. /\ Callers \in Seq(Frame)
        /\ Caller.state_copy \in StateType
    BY <1>1, <2>1, CallerType, FrameStates
  <2>3. /\ graph.node[Caller.node].path0_next \in Pointers
        /\ graph.node[Caller.node].path1_next \in Pointers
    BY <1>1, <2>1, CallerNode DEF NodeOK
  <2> QED
    BY <1>1, <1>3, <2>2, <2>3, RunningTypes, EnterType DEF BackInAlternativesPossessive
<1> QED
  BY <1>2, <1>3

-----------------------------------------------------------------------------
(***************************************************************************)
(* Assertions.                                                             *)
(***************************************************************************)
LEMMA LookType ==
  ASSUME TypeOK, MatchLookAhead \/ MatchLookBehind \/ BackInLook
  PROVE  TypeOK'
<1>1. Running
  BY DEF MatchLookAhead, MatchLookBehind, BackInLook, At, BackIn, Running
<1>2. ASSUME NEW kind \in LookKinds, At(kind)
      PROVE  /\ Here.next \in Pointers
             /\ \A s \in StateType : EnterLook(s) => TypeOK'
  <2> DEFINE f == [kind |-> Here.kind, node |-> node, state |-> state]
  <2>1. /\ node \in NodesOf(kind)
        /\ Here.kind = kind
        /\ Here.next \in Pointers
        /\ Here.look_graph \in Pointers
    BY <1>1, <1>2, HereFields DEF NodeOK, NextKinds, LookKinds
  <2>2. f \in Frame
    BY <1>1, <2>1, RunningTypes DEF Frame, KeepsState, LookKinds
  <2>3. Append(stack, f) \in Seq(Frame)
    BY <1>1, <2>2, RunningTypes, PushedType
  <2>4. ASSUME NEW s \in StateType, EnterLook(s)
        PROVE  TypeOK'
    BY <1>1, <2>1, <2>3, <2>4, EnterType DEF EnterLook
  <2> QED
    BY <2>1, <2>4
<1>3. CASE MatchLookAhead
  BY <1>1, <1>2, <1>3, RunningTypes DEF MatchLookAhead, LookKinds
<1>4. CASE MatchLookBehind
  <2>1. At("LookBehind")
    BY <1>4 DEF MatchLookBehind
  <2>2. Here.size \in Nat /\ Here.next \in Pointers
    BY <1>1, <2>1, HereFields DEF NodeOK, NextKinds
  <2>3. CASE state.pos < Here.size
    BY <1>1, <1>4, <2>2, <2>3, RunningTypes, EnterIfType DEF MatchLookBehind
  <2>4. CASE ~(state.pos < Here.size)
    <3>1. state.pos - Here.size \in Nat
      BY <1>1, <2>2, <2>4, RunningTypes, StateFields
    <3>2. Moved(state.pos - Here.size) \in StateType
      BY <1>1, <3>1, MovedType
    <3>3. EnterLook(Moved(state.pos - Here.size))
      BY <1>4, <2>4 DEF MatchLookBehind
    <3> QED
      BY <1>2, <2>1, <3>2, <3>3 DEF LookKinds
  <2> QED
    BY <2>3, <2>4
<1>5. CASE BackInLook
  <2>1. PICK kind \in LookKinds : BackIn(kind)
    BY <1>5 DEF BackInLook, LookKinds
  <2>2. Callers \in Seq(Frame) /\ Caller.state \in StateType
    BY <1>1, <2>1, CallerType, FrameStates DEF LookKinds, KeepingKinds
  <2>3. graph.node[Caller.node].next \in Pointers
    BY <1>1, <2>1, CallerNode DEF NodeOK, NextKinds, LookKinds
  <2> QED
    BY <1>1, <1>5, <2>2, <2>3, EnterType, LeaveType DEF BackInLook
<1> QED
  BY <1>3, <1>4, <1>5

LEMMA ConditionalElementType ==
  ASSUME TypeOK, MatchConditionalElement \/ BackInConditionalElement
  PROVE  TypeOK'
<1>1. Running
  BY DEF MatchConditionalElement, BackInConditionalElement, At, BackIn, Running
<1>2. CASE MatchConditionalElement
  <2> DEFINE f == [kind |-> "ConditionalElement", node |-> node, state |-> state]
  <2>1. At("ConditionalElement")
    BY <1>2 DEF MatchConditionalElement
  <2>2. f \in Frame
    BY <1>1, <2>1, HereFields, RunningTypes DEF Frame, KeepsState
  <2>3. Here.condition_node \in Pointers
    BY <1>1, <2>1, HereFields DEF NodeOK
  <2>4. Append(stack, f) \in Seq(Frame)
    BY <1>1, <2>2, RunningTypes, PushedType
  <2>5. Enter(Here.condition_node, state, Append(stack, f))
    BY <1>2 DEF MatchConditionalElement
  <2> QED
    BY <1>1, <2>3, <2>4, <2>5, RunningTypes, EnterType
<1>3. CASE BackInConditionalElement
  <2>1. BackIn("ConditionalElement")
    BY <1>3 DEF BackInConditionalElement
  <2>2. Callers \in Seq(Frame) /\ Caller.state \in StateType
    BY <1>1, <2>1, CallerType, FrameStates DEF KeepingKinds
  <2>3. /\ graph.node[Caller.node].next_true \in Pointers
        /\ graph.node[Caller.node].next_false \in Pointers
    BY <1>1, <2>1, CallerNode DEF NodeOK
  <2> QED
    BY <1>1, <1>3, <2>2, <2>3, EnterType DEF BackInConditionalElement
<1> QED
  BY <1>2, <1>3

-----------------------------------------------------------------------------
(***************************************************************************)
(* Sequences with a counter.                                               *)
(***************************************************************************)
LEMMA MatchSequenceCounterResetType ==
  ASSUME TypeOK, MatchSequenceCounterReset
  PROVE  TypeOK'
<1>1. Running
  BY DEF MatchSequenceCounterReset, At, Running
<1>2. Here.next \in Pointers /\ Here.id \in Counters
  BY <1>1, HereFields DEF MatchSequenceCounterReset, NodeOK, NextKinds, CounterKinds
<1>3. WithCounter(state, Here.id, 0) \in StateType
  BY <1>1, <1>2, RunningTypes, StateUpdates
<1> QED
  BY <1>1, <1>2, <1>3, RunningTypes, EnterType DEF MatchSequenceCounterReset

LEMMA SequenceCounterType ==
  ASSUME TypeOK, MatchSequenceCounter \/ BackInSequenceCounter
  PROVE  TypeOK'
<1>1. Running
  BY DEF MatchSequenceCounter, BackInSequenceCounter, At, BackIn, Running
<1>2. CASE MatchSequenceCounter
  <2> DEFINE counted == WithCounter(state, Here.id, state.sequence_counters[Here.id] + 1)
             f == [kind |-> "SequenceCounter", node |-> node, state |-> counted]
             first == IF Here.greedy THEN Here.next_iteration ELSE Here.next_sequence_end
  <2>1. At("SequenceCounter")
    BY <1>2 DEF MatchSequenceCounter
  <2>2. /\ node \in NodesOf("SequenceCounter")
        /\ Here.next_iteration \in Pointers
        /\ Here.next_sequence_end \in Pointers
        /\ Here.id \in Counters
    BY <1>1, <2>1, HereFields DEF NodeOK, CounterKinds
  <2>3. state.sequence_counters[Here.id] + 1 \in Nat
    BY <1>1, <2>2, RunningTypes, StateFields
  <2>4. counted \in StateType
    BY <1>1, <2>2, <2>3, RunningTypes, StateUpdates
  <2>5. \/ Enter(Here.next_iteration, counted, stack)
        \/ Enter(Here.next_sequence_end, counted, stack)
        \/ Enter(first, counted, Append(stack, f))
    BY <1>2 DEF MatchSequenceCounter
  <2>6. f \in Frame
    BY <2>2, <2>4 DEF Frame, KeepsState
  <2>7. first \in Pointers
    BY <2>2
  <2> HIDE DEF counted, f, first
  <2> QED
    BY <1>1, <2>2, <2>4, <2>5, <2>6, <2>7, RunningTypes, PushedType, EnterType
<1>3. CASE BackInSequenceCounter
  <2>1. BackIn("SequenceCounter")
    BY <1>3 DEF BackInSequenceCounter
  <2>2. Callers \in Seq(Frame) /\ Caller.state \in StateType
    BY <1>1, <2>1, CallerType, FrameStates DEF KeepingKinds
  <2>3. /\ graph.node[Caller.node].next_iteration \in Pointers
        /\ graph.node[Caller.node].next_sequence_end \in Pointers
    BY <1>1, <2>1, CallerNode DEF NodeOK
  <2> QED
    BY <1>1, <1>3, <2>2, <2>3, RunningTypes, EnterType, LeaveType DEF BackInSequenceCounter
<1> QED
  BY <1>2, <1>3

-----------------------------------------------------------------------------
(***************************************************************************)
(* Sequences that keep what they matched.                                  *)
(***************************************************************************)
LEMMA PossessiveLoopType ==
  ASSUME Running, NEW p \in NodesOf("PossessiveSequence"), NEW done \in Nat,
         NEW s \in StateType, NEW stk \in Seq(Frame), PossessiveLoop(p, done, s, stk)
  PROVE  TypeOK'
<1> DEFINE f == [kind |-> "PossessiveSequence", node |-> p, done |-> done, state |-> s]
<1>1. f \in Frame
  BY DEF Frame
<1>2. Append(stk, f) \in Seq(Frame)
  BY <1>1, PushedType
<1>3. /\ graph.node[p].next \in Pointers
      /\ graph.node[p].sequence_element \in Pointers
  BY NodeFields DEF NodesOf, NodeOK, NextKinds, LoopKinds
<1>4. \/ Enter(graph.node[p].sequence_element, s, Append(stk, f))
      \/ Enter(graph.node[p].next, s, stk)
  BY DEF PossessiveLoop
<1> QED
  BY <1>2, <1>3, <1>4, EnterType

LEMMA PossessiveSequenceType ==
  ASSUME TypeOK, MatchPossessiveSequence \/ BackInPossessiveSequence
  PROVE  TypeOK'
<1>1. Running
  BY DEF MatchPossessiveSequence, BackInPossessiveSequence, At, BackIn, Running
<1>2. CASE MatchPossessiveSequence
  BY <1>1, <1>2, HereFields, RunningTypes, PossessiveLoopType DEF MatchPossessiveSequence
<1>3. CASE BackInPossessiveSequence
  <2>1. BackIn("PossessiveSequence")
    BY <1>3 DEF BackInPossessiveSequence
  <2>2. /\ Callers \in Seq(Frame)
        /\ Caller.state \in StateType
        /\ Caller.done + 1 \in Nat
        /\ Caller.node \in NodesOf("PossessiveSequence")
        /\ graph.node[Caller.node].next \in Pointers
    BY <1>1, <2>1, CallerType, CallerNode, FrameStates DEF KeepingKinds, NodeOK, NextKinds
  <2>3. CASE answer
    BY <1>1, <1>3, <2>2, <2>3, RunningTypes, PossessiveLoopType DEF BackInPossessiveSequence
  <2>4. CASE ~answer
    BY <1>1, <1>3, <2>2, <2>4, EnterType, LeaveType DEF BackInPossessiveSequence
  <2> QED
    BY <2>3, <2>4
<1> QED
  BY <1>2, <1>3

LEMMA RollbackFrameType ==
  ASSUME NEW p \in NodesOf("SingleRollbackPointSequence"), NEW in_tail \in BOOLEAN,
         NEW s \in StateType, NEW S \in SUBSET StateType, NEW stk \in Seq(Frame)
  PROVE  Append(stk, RollbackFrame(p, in_tail, s, S)) \in Seq(Frame)
<1>1. RollbackFrame(p, in_tail, s, S) \in Frame
  BY DEF RollbackFrame, Frame
<1> QED
  BY <1>1, PushedType

LEMMA RollbackTailType ==
  ASSUME Running, NEW p \in NodesOf("SingleRollbackPointSequence"), NEW s \in StateType,
         NEW S \in SUBSET StateType, NEW stk \in Seq(Frame), RollbackTail(p, s, S, stk)
  PROVE  TypeOK'
<1>1. Append(stk, RollbackFrame(p, TRUE, s, S)) \in Seq(Frame)
  BY RollbackFrameType
<1>2. graph.node[p].next \in Pointers
  BY NodeFields DEF NodesOf, NodeOK, NextKinds
<1> QED
  BY <1>1, <1>2, EnterType DEF RollbackTail

LEMMA SingleRollbackPointSequenceType ==
  ASSUME TypeOK,
         MatchSingleRollbackPointSequence \/ BackInSingleRollbackPointSequence
  PROVE  TypeOK'
<1>1. Running
  BY DEF MatchSingleRollbackPointSequence, BackInSingleRollbackPointSequence,
         At, BackIn, Running
<1>2. CASE MatchSingleRollbackPointSequence
  <2>1. node \in NodesOf("SingleRollbackPointSequence")
    BY <1>1, <1>2, HereFields DEF MatchSingleRollbackPointSequence
  <2> QED
    BY <1>1, <1>2, <2>1, RunningTypes, RollbackTailType DEF MatchSingleRollbackPointSequence
<1>3. CASE BackInSingleRollbackPointSequence
  <2>1. BackIn("SingleRollbackPointSequence")
    BY <1>3 DEF BackInSingleRollbackPointSequence
  <2>2. /\ Callers \in Seq(Frame)
        /\ Caller.node \in NodesOf("SingleRollbackPointSequence")
        /\ Caller.state_copy \in StateType
        /\ Caller.next_states \in SUBSET StateType
        /\ graph.node[Caller.node].sequence_element \in Pointers
    BY <1>1, <2>1, CallerType, CallerNode, FrameStates DEF NodeOK, LoopKinds
  <2>3. CASE Caller.in_tail
    <3> DEFINE states == IF answer THEN {state} ELSE Caller.next_states
    <3>1. states \in SUBSET StateType
      BY <1>1, <2>2, RunningTypes
    <3>2. Enter(graph.node[Caller.node].sequence_element, Caller.state_copy,
                Append(Callers, RollbackFrame(Caller.node, FALSE, Caller.state_copy, states)))
      BY <1>3, <2>3 DEF BackInSingleRollbackPointSequence
    <3> HIDE DEF states
    <3>3. Append(Callers, RollbackFrame(Caller.node, FALSE, Caller.state_copy, states))
            \in Seq(Frame)
      BY <2>2, <3>1, RollbackFrameType
    <3> QED
      BY <1>1, <2>2, <3>2, <3>3, EnterType
  <2>4. CASE ~Caller.in_tail /\ answer
    BY <1>1, <1>3, <2>2, <2>4, RunningTypes, RollbackTailType
       DEF BackInSingleRollbackPointSequence
  <2>5. CASE ~Caller.in_tail /\ ~answer
    <3>1. CASE Caller.next_states # {}
      <4>1. (CHOOSE s \in Caller.next_states : TRUE) \in StateType
        BY <2>2, <3>1
      <4> QED
        BY <1>1, <1>3, <2>2, <2>5, <3>1, <4>1, LeaveType
           DEF BackInSingleRollbackPointSequence
    <3>2. CASE Caller.next_states = {}
      BY <1>1, <1>3, <2>2, <2>5, <3>2, RunningTypes, LeaveType
         DEF BackInSingleRollbackPointSequence
    <3> QED
      BY <3>1, <3>2
  <2> QED
    BY <2>3, <2>4, <2>5
<1> QED
  BY <1>2, <1>3

\* The position of an element of a loop is one.
LEMMA AtElementNat ==
  ASSUME Running, NEW p \in NodesOf("FixedLengthElementSequence"),
         NEW str_initial \in Nat, NEW count \in Nat
  PROVE  AtElement(p, str_initial, count) \in Nat
<1>1. graph.node[p].element_length \in Nat
  BY NodeFields DEF NodesOf, NodeOK
<1>2. count * graph.node[p].element_length \in Nat
  BY <1>1
<1> QED
  BY <1>2 DEF AtElement

\* The fields of a FixedLengthElementSequence.
LEMMA LoopNode ==
  ASSUME Running, NEW p \in NodesOf("FixedLengthElementSequence")
  PROVE  /\ graph.node[p].next \in Pointers
         /\ graph.node[p].sequence_element \in Pointers
         /\ graph.node[p].min_elements \in Nat
BY NodeFields, SizeMaxAssumption DEF NodesOf, NodeOK, NextKinds, LoopKinds, CountedKinds

LEMMA LoopFrameFields ==
  ASSUME NEW f \in Frame, f.kind = "FixedLengthElementSequence"
  PROVE  /\ f.str_initial \in Nat
         /\ f.count \in Nat
         /\ f.scanning \/ f.count >= graph.node[f.node].min_elements
<1>1. f \in LoopFrames
  BY DEF Frame, KeepsState
<1>2. f.str_initial \in Nat /\ f.count \in Nat
  BY <1>1 DEF LoopFrames
<1>3. f.scanning \/ f.count >= graph.node[f.node].min_elements
  BY <1>1, Zenon DEF LoopFrames
<1> QED
  BY <1>2, <1>3

LEMMA TryTailType ==
  ASSUME Running, NEW p \in NodesOf("FixedLengthElementSequence"),
         NEW str_initial \in Nat, NEW count \in Nat, count >= graph.node[p].min_elements,
         NEW s \in StateType, NEW stk \in Seq(Frame),
         TryTail(p, str_initial, count, s, stk)
  PROVE  TypeOK'
<1>1. [s EXCEPT !.pos = AtElement(p, str_initial, count)] \in StateType
  BY AtElementNat, StateUpdates
<1>2. LoopFrame(p, FALSE, str_initial, count, s) \in Frame
  BY DEF LoopFrame, LoopFrames, Frame
<1>3. Append(stk, LoopFrame(p, FALSE, str_initial, count, s)) \in Seq(Frame)
  BY <1>2, PushedType
<1> QED
  BY <1>1, <1>3, LoopNode, EnterType DEF TryTail

LEMMA EndScanType ==
  ASSUME Running, NEW p \in NodesOf("FixedLengthElementSequence"),
         NEW str_initial \in Nat, NEW count \in Nat,
         NEW s \in StateType, NEW stk \in Seq(Frame),
         EndScan(p, str_initial, count, s, stk)
  PROVE  TypeOK'
<1>1. CASE count < graph.node[p].min_elements
  BY <1>1, LeaveType DEF EndScan
<1>2. CASE ~(count < graph.node[p].min_elements)
  <2>1. count >= graph.node[p].min_elements
    BY <1>2, LoopNode
  <2> QED
    BY <1>2, <2>1, TryTailType DEF EndScan
<1> QED
  BY <1>1, <1>2

LEMMA ScanElementType ==
  ASSUME Running, NEW p \in NodesOf("FixedLengthElementSequence"),
         NEW str_initial \in Nat, NEW count \in Nat,
         NEW s \in StateType, NEW stk \in Seq(Frame),
         ScanElement(p, str_initial, count, s, stk)
  PROVE  TypeOK'
<1>1. [s EXCEPT !.pos = AtElement(p, str_initial, count)] \in StateType
  BY AtElementNat, StateUpdates
<1>2. LoopFrame(p, TRUE, str_initial, count, s) \in Frame
  BY DEF LoopFrame, LoopFrames, Frame
<1>3. Append(stk, LoopFrame(p, TRUE, str_initial, count, s)) \in Seq(Frame)
  BY <1>2, PushedType
<1> QED
  BY <1>1, <1>3, LoopNode, EnterType, EndScanType DEF ScanElement

\* There is an element to give back: the count stays above min_elements.
LEMMA StepBackType ==
  ASSUME Running, NEW p \in NodesOf("FixedLengthElementSequence"),
         NEW str_initial \in Nat, NEW count \in Nat, count >= graph.node[p].min_elements,
         NEW s \in StateType, NEW stk \in Seq(Frame),
         StepBack(p, str_initial, count, s, stk)
  PROVE  TypeOK'
<1> DEFINE least == graph.node[p].min_elements
<1>1. CASE count = least
  BY <1>1, LeaveType DEF StepBack
<1>2. CASE count # least
  <2>1. count - 1 \in Nat /\ count - 1 >= least
    BY <1>2, LoopNode
  <2> QED
    BY <1>2, <2>1, TryTailType DEF StepBack
<1> QED
  BY <1>1, <1>2

LEMMA FixedLengthElementSequenceType ==
  ASSUME TypeOK,
         MatchFixedLengthElementSequence \/ BackInFixedLengthElementSequence
  PROVE  TypeOK'
<1>1. Running
  BY DEF MatchFixedLengthElementSequence, BackInFixedLengthElementSequence,
         At, BackIn, Running
<1>2. CASE MatchFixedLengthElementSequence
  <2>1. node \in NodesOf("FixedLengthElementSequence")
    BY <1>1, <1>2, HereFields DEF MatchFixedLengthElementSequence
  <2>2. state.pos \in Nat
    BY <1>1, RunningTypes, StateFields
  <2> QED
    BY <1>1, <1>2, <2>1, <2>2, RunningTypes, ScanElementType
       DEF MatchFixedLengthElementSequence
<1>3. CASE BackInFixedLengthElementSequence
  <2> DEFINE least == graph.node[Caller.node].min_elements
  <2>1. BackIn("FixedLengthElementSequence")
    BY <1>3 DEF BackInFixedLengthElementSequence
  <2>2. /\ Callers \in Seq(Frame)
        /\ Caller.state \in StateType
        /\ Caller.node \in NodesOf("FixedLengthElementSequence")
    BY <1>1, <2>1, CallerType, CallerNode, FrameStates DEF KeepingKinds
  <2>3. /\ Caller.str_initial \in Nat
        /\ Caller.count \in Nat
        /\ Caller.scanning \/ Caller.count >= least
    BY <1>1, <2>1, CallerType, LoopFrameFields
  <2>4. CASE Caller.scanning /\ answer
    BY <1>1, <1>3, <2>2, <2>3, <2>4, RunningTypes, ScanElementType
       DEF BackInFixedLengthElementSequence
  <2>5. CASE Caller.scanning /\ ~answer
    BY <1>1, <1>3, <2>2, <2>3, <2>5, RunningTypes, EndScanType
       DEF BackInFixedLengthElementSequence
  <2>6. CASE ~Caller.scanning /\ answer
    BY <1>1, <1>3, <2>2, <2>6, RunningTypes, LeaveType
       DEF BackInFixedLengthElementSequence
  <2>7. CASE ~Caller.scanning /\ ~answer
    BY <1>1, <1>3, <2>2, <2>3, <2>7, StepBackType DEF BackInFixedLengthElementSequence
  <2> QED
    BY <2>4, <2>5, <2>6, <2>7
<1> QED
  BY <1>2, <1>3

-----------------------------------------------------------------------------
(***************************************************************************)
(* Atomic groups and subroutine calls.                                     *)
(***************************************************************************)
LEMMA AtomicGroupType ==
  ASSUME TypeOK, MatchAtomicGroup \/ BackInAtomicGroup
  PROVE  TypeOK'
<1>1. Running
  BY DEF MatchAtomicGroup, BackInAtomicGroup, At, BackIn, Running
<1>2. CASE MatchAtomicGroup
  <2> DEFINE f == [kind |-> "AtomicGroup", node |-> node]
  <2>1. /\ node \in NodesOf("AtomicGroup")
        /\ Here.group_element \in Pointers
    BY <1>1, <1>2, HereFields DEF MatchAtomicGroup, NodeOK
  <2>2. f \in Frame
    BY <2>1 DEF Frame
  <2>3. Append(stack, f) \in Seq(Frame)
    BY <1>1, <2>2, RunningTypes, PushedType
  <2>4. Enter(Here.group_element, state, Append(stack, f))
    BY <1>2 DEF MatchAtomicGroup
  <2> QED
    BY <1>1, <2>1, <2>3, <2>4, RunningTypes, EnterType
<1>3. CASE BackInAtomicGroup
  <2>1. BackIn("AtomicGroup")
    BY <1>3 DEF BackInAtomicGroup
  <2>2. Callers \in Seq(Frame) /\ graph.node[Caller.node].next \in Pointers
    BY <1>1, <2>1, CallerType, CallerNode DEF NodeOK, NextKinds
  <2> QED
    BY <1>1, <1>3, <2>2, RunningTypes, EnterType, LeaveType DEF BackInAtomicGroup
<1> QED
  BY <1>2, <1>3

LEMMA SubroutineEnterType ==
  ASSUME TypeOK, MatchSubroutineEnter
  PROVE  TypeOK'
<1>1. Running
  BY DEF MatchSubroutineEnter, At, Running
<1> DEFINE returns == Append(state.subroutines_return_stack, Here.next)
<1>2. Here.next \in Pointers /\ Here.subroutine_node \in Pointers
  BY <1>1, HereFields DEF MatchSubroutineEnter, NodeOK, NextKinds
<1>3. returns \in Seq(Pointers)
  BY <1>1, <1>2, RunningTypes, StateFields
<1>4. Enter(Here.subroutine_node, [state EXCEPT !.subroutines_return_stack = returns], stack)
  BY DEF MatchSubroutineEnter
<1> HIDE DEF returns
<1>5. [state EXCEPT !.subroutines_return_stack = returns] \in StateType
  BY <1>1, <1>3, RunningTypes, StateUpdates
<1> QED
  BY <1>1, <1>2, <1>4, <1>5, RunningTypes, EnterType

LEMMA SubroutineLeaveType ==
  ASSUME TypeOK, MatchSubroutineLeave
  PROVE  TypeOK'
<1>1. Running
  BY DEF MatchSubroutineLeave, At, Running
<1> DEFINE returns == state.subroutines_return_stack
<1>2. returns \in Seq(Pointers)
  BY <1>1, RunningTypes, StateFields
<1>3. CASE returns = <<>>
  <2>1. nullptr \in Pointers
    BY DEF Pointers
  <2> QED
    BY <1>1, <1>3, <2>1, RunningTypes, EnterType DEF MatchSubroutineLeave
<1>4. CASE returns # <<>>
  <2>1. Last(returns) \in Pointers /\ Front(returns) \in Seq(Pointers)
    BY <1>2, <1>4, LastAndFront
  <2>2. Enter(Last(returns), [state EXCEPT !.subroutines_return_stack = Front(returns)], stack)
    BY <1>4 DEF MatchSubroutineLeave
  <2> HIDE DEF returns
  <2>3. [state EXCEPT !.subroutines_return_stack = Front(returns)] \in StateType
    BY <1>1, <2>1, RunningTypes, StateUpdates
  <2> QED
    BY <1>1, <2>1, <2>2, <2>3, RunningTypes, EnterType
<1> QED
  BY <1>3, <1>4

LEMMA OverlayType ==
  ASSUME NEW X, NEW Y, NEW f \in [X -> Y], NEW g \in [X -> Y], NEW S
  PROVE  Overlay(f, g, S) \in [X -> Y]
BY DEF Overlay

\* A State with other counters, groups and saved_state.
LEMMA StateSavedType ==
  ASSUME NEW s \in StateType, NEW c \in [Counters -> Nat], NEW v \in [Slots -> ViewType],
         NEW k \in Nat
  PROVE  [s EXCEPT !.sequence_counters = c, !.groups = v, !.saved_state = k] \in StateType
BY DEF StateType

LEMMA WithSaveType ==
  ASSUME NEW s \in StateType, NEW n, NEW link \in Nat
  PROVE  WithSave(s, n, link) \in StateType
<1> DEFINE counters == Overlay(s.sequence_counters, [id \in Counters |-> 0],
                               n.sequence_counters_to_save)
           views    == Overlay(s.groups, [g \in Slots |-> NoView], n.groups_to_save)
<1>1. [id \in Counters |-> 0] \in [Counters -> Nat]
  OBVIOUS
<1>2. counters \in [Counters -> Nat]
  BY <1>1, StateFields, OverlayType
<1>3. NoView \in ViewType
  BY SizeMaxAssumption DEF NoView, View, ViewType
<1>4. [g \in Slots |-> NoView] \in [Slots -> ViewType]
  BY <1>3
<1>5. views \in [Slots -> ViewType]
  BY <1>4, StateFields, OverlayType
<1>6. WithSave(s, n, link)
        = [s EXCEPT !.sequence_counters = counters, !.groups = views, !.saved_state = link]
  BY DEF WithSave
<1> HIDE DEF counters, views
<1>7. [s EXCEPT !.sequence_counters = counters, !.groups = views, !.saved_state = link]
        \in StateType
  BY <1>2, <1>5, StateSavedType
<1> QED
  BY <1>6, <1>7, Zenon

LEMMA WithRestoredType ==
  ASSUME NEW s \in StateType, NEW n, NEW saved \in StateType
  PROVE  WithRestored(s, n, saved) \in StateType
<1> DEFINE counters == Overlay(s.sequence_counters, saved.sequence_counters,
                               n.sequence_counters_to_save)
           views    == Overlay(s.groups, saved.groups, n.groups_to_save)
<1>1. counters \in [Counters -> Nat]
  BY StateFields, OverlayType
<1>2. views \in [Slots -> ViewType]
  BY StateFields, OverlayType
<1>3. saved.saved_state \in Nat
  BY StateFields
<1>4. WithRestored(s, n, saved)
        = [s EXCEPT !.sequence_counters = counters, !.groups = views,
                    !.saved_state = saved.saved_state]
  BY DEF WithRestored
<1> HIDE DEF counters, views
<1>5. [s EXCEPT !.sequence_counters = counters, !.groups = views,
                !.saved_state = saved.saved_state] \in StateType
  BY <1>1, <1>2, <1>3, StateSavedType
<1> QED
  BY <1>4, <1>5, Zenon

LEMMA StateSaveType ==
  ASSUME TypeOK, MatchStateSave
  PROVE  TypeOK'
<1>1. Running
  BY DEF MatchStateSave, At, Running
<1> DEFINE f == [kind |-> "StateSave", node |-> node, state |-> state]
<1>2. /\ node \in NodesOf("StateSave")
      /\ Here.next \in Pointers
  BY <1>1, HereFields DEF MatchStateSave, NodeOK, NextKinds
<1>3. f \in Frame
  BY <1>1, <1>2, RunningTypes DEF Frame, KeepsState
<1>4. Len(stack) + 1 \in Nat
  BY <1>1, RunningTypes
<1>5. WithSave(state, Here, Len(stack) + 1) \in StateType
  BY <1>1, <1>4, RunningTypes, WithSaveType
<1>6. Append(stack, f) \in Seq(Frame)
  BY <1>1, <1>3, RunningTypes, PushedType
<1> QED
  BY <1>1, <1>2, <1>5, <1>6, EnterType DEF MatchStateSave

LEMMA BackInStateSaveType ==
  ASSUME TypeOK, BackInStateSave
  PROVE  TypeOK'
<1>1. Running /\ BackIn("StateSave")
  BY DEF BackInStateSave, BackIn, Running
<1>2. Callers \in Seq(Frame)
  BY <1>1, CallerType
<1>3. answer \in BOOLEAN
  BY DEF TypeOK
<1> QED
  BY <1>1, <1>2, <1>3, RunningTypes, LeaveType DEF BackInStateSave

LEMMA StateRestoreType ==
  ASSUME TypeOK, MatchStateRestore
  PROVE  TypeOK'
<1>1. Running
  BY DEF MatchStateRestore, At, Running
<1> DEFINE f == stack[state.saved_state]
<1>2. Here.next \in Pointers
  BY <1>1, HereFields DEF MatchStateRestore, NodeOK, NextKinds
<1>3. state.saved_state \in DOMAIN stack /\ f.kind = "StateSave"
  BY DEF MatchStateRestore, LiveSaves
<1>4. f \in Frame
  BY <1>1, <1>3, RunningTypes
<1>5. f.state \in StateType
  BY <1>3, <1>4, FrameStates DEF KeepingKinds
<1>6. WithRestored(state, graph.node[f.node], f.state) \in StateType
  BY <1>1, <1>5, RunningTypes, WithRestoredType
<1> QED
  BY <1>1, <1>2, <1>6, RunningTypes, EnterType DEF MatchStateRestore

-----------------------------------------------------------------------------
(***************************************************************************)
(* Match.                                                                  *)
(***************************************************************************)
LEMMA CallType ==
  ASSUME TypeOK, NEW c \in Inputs, Call(c)
  PROVE  TypeOK'
<1>1. CallOK(input')
  BY InputsAssumption DEF Call
<1>2. i' \in Nat
  BY InputsAssumption DEF Call, CallOK
<1>3. node' \in Pointers' /\ stack' \in Seq(Frame')
  BY DEF Call, TypeOK, Pointers
<1> QED
  BY <1>1, <1>2, <1>3, SameViews DEF TypeOK, Call

LEMMA StartAttemptType ==
  ASSUME TypeOK, StartAttempt
  PROVE  TypeOK'
<1>1. UNCHANGED input
  BY DEF StartAttempt
<1>2. graph.root \in Pointers
  BY DEF TypeOK, CallOK, GraphOK, graph, Pointers
<1>3. FreshState(i) \in StateType
  <2>1. NoView \in ViewType
    BY SizeMaxAssumption DEF NoView, View, ViewType
  <2>2. [g \in Slots |-> NoView] \in [Slots -> ViewType]
    BY <2>1
  <2> QED
    BY <2>2 DEF TypeOK, FreshState, StateType
<1> QED
  BY <1>1, <1>2, <1>3, SameTypes, SameViews DEF TypeOK, StartAttempt

LEMMA SearchEndsType ==
  ASSUME TypeOK, SearchExhausted \/ AttemptFailed
  PROVE  TypeOK'
<1>1. UNCHANGED input
  BY DEF SearchExhausted, AttemptFailed
<1> QED
  BY <1>1, SameTypes, SameViews DEF TypeOK, SearchExhausted, AttemptFailed

\* Every view that is written to out_groups is one.
LEMMA OutGroupType ==
  ASSUME Running, NEW g \in GroupsWritten
  PROVE  g \in Nat /\ OutGroup(g) \in ViewType
<1>1. g \in Nat /\ g \in Slots
  BY GroupSlotsAssumption DEF Running, TypeOK, CallOK, GroupsWritten, Slots
<1>2. state.groups[g] \in ViewType /\ state.pos \in Nat
  BY <1>1, RunningTypes, StateFields
<1>3. i \in Int /\ state.pos - i \in Int
  BY <1>2 DEF Running, TypeOK
<1>4. Len(str) \in Int
  BY RunningTypes
<1>5. /\ View(i, Wrap(state.pos - i)) \in ViewType
      /\ View(Len(str), 0) \in ViewType
  BY <1>3, <1>4, ViewIsView
<1> QED
  BY <1>1, <1>2, <1>5 DEF OutGroup

LEMMA AttemptMatchedType ==
  ASSUME TypeOK, AttemptMatched
  PROVE  TypeOK'
<1>1. Running /\ UNCHANGED input
  BY DEF AttemptMatched, Running
<1> DEFINE views == [g \in GroupsWritten |-> OutGroup(g)]
<1>2. graph.group_count \in Nat
  BY <1>1, RunningTypes DEF GraphOK
<1>3. \A g \in DOMAIN views : g \in Nat /\ views[g] \in ViewType
  BY <1>1, OutGroupType
<1>4. result' = [count |-> graph.group_count, out_groups |-> views]
  BY DEF AttemptMatched
<1> HIDE DEF views
<1>5. /\ result'.count \in Nat
      /\ \A g \in DOMAIN result'.out_groups : g \in Nat /\ result'.out_groups[g] \in ViewType
  BY <1>2, <1>3, <1>4
<1>6. /\ pc' = "done"
      /\ UNCHANGED <<input, i, node, answer, stack>>
  BY DEF AttemptMatched
<1> QED
  BY <1>5, <1>6, SameTypes, SameViews DEF TypeOK

-----------------------------------------------------------------------------
(***************************************************************************)
(* Type correctness: whatever the graphs and strings of the calls, every   *)
(* frame on the stack belongs to a node of its kind, every counter, group  *)
(* and saved part a State holds exists, and no position, and no count of a *)
(* loop that steps back, gets negative.                                    *)
(***************************************************************************)
LEMMA InitType ==
  ASSUME Init
  PROVE  TypeOK
<1>1. CallOK(NoInput)
  BY GroupSlotsAssumption DEF CallOK, NoInput, NoGraph, GraphOK
<1>2. nullptr \in Pointers
  BY DEF Pointers
<1>3. /\ result.count \in Nat
      /\ \A g \in DOMAIN result.out_groups : g \in Nat /\ result.out_groups[g] \in ViewType
  <2>1. result.count = 0 /\ result.out_groups = <<>>
    BY DEF Init, NoMatch
  <2> QED
    BY <2>1
<1>4. stack \in Seq(Frame)
  BY DEF Init
<1> QED
  BY <1>1, <1>2, <1>3, <1>4 DEF Init, TypeOK

LEMMA VisitNodeType ==
  ASSUME TypeOK, VisitNode
  PROVE  TypeOK'
BY MatchNullptrType, MatchSymbolType, MatchStringType, MatchAssertionType,
   MatchGroupStartType, MatchGroupEndType, MatchBackReferenceType, AlternativesType,
   AlternativesPossessiveType, LookType, ConditionalElementType,
   MatchSequenceCounterResetType, SequenceCounterType, PossessiveSequenceType,
   SingleRollbackPointSequenceType, FixedLengthElementSequenceType, AtomicGroupType,
   SubroutineEnterType, SubroutineLeaveType, StateSaveType, StateRestoreType
   DEF VisitNode

LEMMA ReturnToFrameType ==
  ASSUME TypeOK, ReturnToFrame
  PROVE  TypeOK'
BY AlternativesType, AlternativesPossessiveType, LookType, ConditionalElementType,
   SequenceCounterType, PossessiveSequenceType, SingleRollbackPointSequenceType,
   FixedLengthElementSequenceType, AtomicGroupType, BackInStateSaveType
   DEF ReturnToFrame

THEOREM TypeCorrect == Spec => []TypeOK
<1>1. Init => TypeOK
  BY InitType
<1>2. TypeOK /\ [Next]_vars => TypeOK'
  <2> SUFFICES ASSUME TypeOK, [Next]_vars
               PROVE  TypeOK'
    OBVIOUS
  <2>1. CASE \E c \in Inputs : Call(c)
    BY <2>1, CallType
  <2>2. CASE VisitNode
    BY <2>2, VisitNodeType
  <2>3. CASE ReturnToFrame
    BY <2>3, ReturnToFrameType
  <2>4. CASE Search
    BY <2>4, StartAttemptType, SearchEndsType, AttemptMatchedType DEF Search
  <2>5. CASE UNCHANGED vars
    <3>1. UNCHANGED input
      BY <2>5 DEF vars
    <3> QED
      BY <2>5, <3>1, SameTypes, SameViews DEF vars, TypeOK
  <2> QED
    BY <2>1, <2>2, <2>3, <2>4, <2>5 DEF Next, Run, Returned
<1> QED
  BY <1>1, <1>2, PTL DEF Spec

-----------------------------------------------------------------------------
(***************************************************************************)
(* The inductive invariant.  An element of a fixed length loop is a node   *)
(* on its own: while the loop scans, its frame is on top, and the element  *)
(* begins and ends where the count says.                                   *)
(***************************************************************************)
InString(s) == s.pos <= Len(str)
Scanning(f) == f.kind = "FixedLengthElementSequence" /\ f.scanning

FrameInString(f) ==
  /\ \A s \in StatesIn(f) : InString(s)
  /\ f.kind = "FixedLengthElementSequence" =>
       AtElement(f.node, f.str_initial, f.count) <= Len(str)

\* The frames stk are in the string, and no loop scans.
Settled(stk) == \A k \in DOMAIN stk : FrameInString(stk[k]) /\ ~Scanning(stk[k])

\* The frame f scans.  Its element moves the State and does nothing else to it.
InElement(f) ==
  /\ FrameInString(f)
  /\ Scanning(f)
  /\ state.groups = f.state.groups
  /\ LET begin == AtElement(f.node, f.str_initial, f.count)
         end   == AtElement(f.node, f.str_initial, f.count + 1)
     IN /\ pc = "match" => \/ node = graph.node[f.node].sequence_element /\ state.pos = begin
                           \/ node = nullptr /\ state.pos = end
        /\ pc = "return" /\ answer => state.pos = end

Positions ==
  /\ pc = "search" => stack = <<>>
  /\ pc \in {"match", "return"} =>
       /\ InString(state)
       /\ Settled(stack) \/ (stack # <<>> /\ Settled(Callers) /\ InElement(Caller))

\* The matcher runs, on a graph with exact loops.
Placed == TypeOK /\ Positions /\ LoopsExact(graph) /\ pc \in {"match", "return"}

-----------------------------------------------------------------------------
(***************************************************************************)
(* Lemmas about characters.                                                *)
(***************************************************************************)
\* A byte is a number.
LEMMA ByteInt == Byte \subseteq Int
BY SMT DEF Byte

LEMMA CodeOfInt ==
  ASSUME NEW b \in Seq(Byte), Len(b) \in 1..4
  PROVE  CodeOf(b) \in Int
<1> DEFINE low(k) == b[k] % 64
<1>1. \A k \in 1..Len(b) : b[k] \in Int
  <2>1. \A k \in 1..Len(b) : b[k] \in Byte
    OBVIOUS
  <2> QED
    BY <2>1, ByteInt
<1>2. \A k \in 1..Len(b) : low(k) \in Int
  BY <1>1, SMT
<1>3. CASE Len(b) = 1
  <2>1. CodeOf(b) = b[1]
    BY <1>3, SMT DEF CodeOf
  <2> QED
    BY <1>1, <1>3, <2>1
<1>4. CASE Len(b) = 2
  <2> DEFINE lead == b[1] % 32
  <2>1. CodeOf(b) = lead * 64 + low(2)
    BY <1>4, SMT DEF CodeOf
  <2>2. lead \in Int /\ low(2) \in Int
    BY <1>1, <1>2, <1>4, SMT
  <2> HIDE DEF lead, low
  <2> QED
    BY <2>1, <2>2, SMT
<1>5. CASE Len(b) = 3
  <2> DEFINE lead == b[1] % 16
  <2>1. CodeOf(b) = lead * 4096 + low(2) * 64 + low(3)
    BY <1>5, SMT DEF CodeOf
  <2>2. lead \in Int /\ low(2) \in Int /\ low(3) \in Int
    BY <1>1, <1>2, <1>5, SMT
  <2> HIDE DEF lead, low
  <2> QED
    BY <2>1, <2>2, SMT
<1>6. CASE Len(b) = 4
  <2> DEFINE lead == b[1] % 8
  <2>1. CodeOf(b) = lead * 262144 + low(2) * 4096 + low(3) * 64 + low(4)
    BY <1>6, SMT DEF CodeOf
  <2>2. lead \in Int
    BY <1>1, <1>6, SMT
  <2>3. low(2) \in Int /\ low(3) \in Int /\ low(4) \in Int
    BY <1>2, <1>6, SMT
  <2> HIDE DEF lead, low
  <2> QED
    BY <2>1, <2>2, <2>3, SMT
<1> QED
  BY <1>3, <1>4, <1>5, <1>6

\* A character ends as many bytes after its beginning as it has, and not beyond
\* the end of the string.
LEMMA ExtractedLength ==
  ASSUME NEW s \in Seq(Byte), NEW pos \in Nat, ExtractCodePoint(s, pos).ok
  PROVE  /\ ExtractCodePoint(s, pos).code \in Int
         /\ ExtractCodePoint(s, pos).pos = pos + Len(Utf8(ExtractCodePoint(s, pos).code))
         /\ ExtractCodePoint(s, pos).pos <= Len(s)
<1>1. ~(pos >= Len(s) \/ Truncated(s, pos))
  BY DEF ExtractCodePoint, NoCode
<1> DEFINE end   == pos + LengthByLead(s[pos + 1])
           bytes == SubSeq(s, pos + 1, end)
<1>2. end \in Nat /\ pos + 1 <= end /\ end <= pos + 4
  <2>1. LengthByLead(s[pos + 1]) \in 1..4
    BY LengthByLeadBound
  <2> QED
    BY <2>1
<1>3. end <= Len(s)
  BY <1>1, <1>2 DEF Truncated
<1> HIDE DEF end
<1>4. bytes \in Seq(Byte) /\ Len(bytes) = end - pos
  BY <1>2, <1>3
<1> HIDE DEF bytes
<1>5. CodeOf(bytes) \in Int
  <2>1. Len(bytes) \in 1..4
    BY <1>2, <1>4
  <2> QED
    BY <1>4, <2>1, CodeOfInt
<1>6. /\ Utf8(CodeOf(bytes)) = bytes
      /\ ExtractCodePoint(s, pos) = [ok |-> TRUE, code |-> CodeOf(bytes), pos |-> end]
  BY <1>1 DEF ExtractCodePoint, NoCode, end, bytes
<1> QED
  BY <1>2, <1>3, <1>4, <1>5, <1>6

-----------------------------------------------------------------------------
(***************************************************************************)
(* Lemmas about the stack: what entering and leaving MatchNode keeps, and  *)
(* what is known of the frame on top.                                      *)
(***************************************************************************)
LEMMA PlacedRuns ==
  ASSUME Placed
  PROVE  Running /\ InString(state)
BY DEF Placed, Running, Positions

\* The element of a loop of fixed length.
LEMMA ElementFacts ==
  ASSUME Placed, NEW p \in NodesOf("FixedLengthElementSequence")
  PROVE  LET element == graph.node[graph.node[p].sequence_element]
         IN /\ graph.node[p].sequence_element # nullptr
            /\ graph.node[p].element_length \in Nat
            /\ element.kind \in {"SpecificSymbol", "String", "OneOf"}
            /\ element.next = nullptr
<1>1. graph.node[p].element_length \in Nat
  BY PlacedRuns, NodeFields DEF NodesOf, NodeOK
<1> QED
  BY <1>1 DEF Placed, LoopsExact, NodesOf

LEMMA EnterSettled ==
  ASSUME Placed, NEW p, NEW s, NEW stk, Enter(p, s, stk), InString(s), Settled(stk)
  PROVE  Positions'
<1>1. input' = input /\ pc' = "match" /\ state' = s /\ stack' = stk
  BY DEF Enter
<1>2. InString(state)'
  BY <1>1 DEF InString, str
<1>3. Settled(stack)'
  BY <1>1 DEF Settled, FrameInString, InString, Scanning, AtElement, str, graph
<1> QED
  BY <1>1, <1>2, <1>3 DEF Positions

LEMMA LeaveSettled ==
  ASSUME Placed, NEW a, NEW s, NEW stk, Leave(a, s, stk), InString(s), Settled(stk)
  PROVE  Positions'
<1>1. input' = input /\ pc' = "return" /\ state' = s /\ stack' = stk
  BY DEF Leave
<1>2. InString(state)'
  BY <1>1 DEF InString, str
<1>3. Settled(stack)'
  BY <1>1 DEF Settled, FrameInString, InString, Scanning, AtElement, str, graph
<1> QED
  BY <1>1, <1>2, <1>3 DEF Positions

LEMMA PushSettled ==
  ASSUME NEW stk \in Seq(Frame), NEW f \in Frame,
         Settled(stk), FrameInString(f), ~Scanning(f)
  PROVE  Settled(Append(stk, f))
BY DEF Settled

\* A frame that is not a loop's is in the string when its State is.
LEMMA KeptInString ==
  ASSUME NEW f, f.kind \in KeepingKinds \ {"FixedLengthElementSequence"}
  PROVE  /\ FrameInString(f) <=> InString(f.state)
         /\ ~Scanning(f)
<1>1. StatesIn(f) = {f.state}
  BY DEF StatesIn, StatesBefore, StatesAfter, KeepingKinds
<1> QED
  BY <1>1 DEF FrameInString, Scanning, KeepingKinds

\* Only the element of a loop is matched while the loop scans.
LEMMA HereSettled ==
  ASSUME Placed, NEW kind, At(kind), kind \notin {"SpecificSymbol", "String", "OneOf"}
  PROVE  Settled(stack)
<1> SUFFICES ASSUME stack # <<>>, InElement(Caller)
             PROVE  FALSE
  BY DEF Placed, Positions
<1>1. Caller \in Frame
  BY PlacedRuns, RunningTypes, LastAndFront DEF Caller
<1>2. Caller.node \in NodesOf("FixedLengthElementSequence")
  BY <1>1, FrameFields DEF InElement, Scanning
<1>3. node = graph.node[Caller.node].sequence_element
  BY DEF InElement, At
<1> QED
  BY <1>2, <1>3, ElementFacts DEF At, Here

\* Below a frame that does not scan, none does.
LEMMA PopSettled ==
  ASSUME Placed, NEW kind, BackIn(kind), ~Scanning(Caller)
  PROVE  Settled(Callers) /\ FrameInString(Caller)
<1>1. Settled(stack)
  BY DEF Placed, Positions, InElement
<1>2. stack \in Seq(Frame) /\ stack # <<>>
  BY PlacedRuns, RunningTypes DEF BackIn
<1> QED
  BY <1>1, <1>2 DEF Settled, Callers, Caller, Front, Last

-----------------------------------------------------------------------------
(***************************************************************************)
(* Nodes that read the string.                                             *)
(***************************************************************************)
LEMMA MatchNullptrPosition ==
  ASSUME Placed, MatchNullptr
  PROVE  Positions'
<1>1. CASE Settled(stack)
  BY <1>1, PlacedRuns, LeaveSettled DEF MatchNullptr
<1>2. CASE stack # <<>> /\ Settled(Callers) /\ InElement(Caller)
  <2>1. Caller.node \in NodesOf("FixedLengthElementSequence")
    BY <1>2, PlacedRuns, RunningTypes, LastAndFront, FrameFields
       DEF Caller, InElement, Scanning
  <2>2. state.pos = AtElement(Caller.node, Caller.str_initial, Caller.count + 1)
    BY <1>2, <2>1, ElementFacts DEF InElement, MatchNullptr
  <2>3. input' = input /\ pc' = "return" /\ state' = state /\ stack' = stack
    BY DEF MatchNullptr, Leave
  <2>4. InString(state)'
    BY <2>3, PlacedRuns DEF InString, str
  <2>5. Settled(Callers)'
    BY <1>2, <2>3
       DEF Callers, Settled, FrameInString, InString, Scanning, AtElement, str, graph
  <2>6. InElement(Caller)'
    BY <1>2, <2>2, <2>3
       DEF Caller, InElement, FrameInString, InString, Scanning, AtElement, str, graph
  <2> QED
    BY <1>2, <2>3, <2>4, <2>5, <2>6 DEF Positions
<1> QED
  BY <1>1, <1>2 DEF Placed, Positions

\* The next element begins one length later.
LEMMA NextElement ==
  ASSUME NEW p, NEW n \in Nat, NEW b \in Nat, graph.node[p].element_length \in Nat
  PROVE  /\ AtElement(p, b, n) \in Nat
         /\ AtElement(p, b, n + 1) = AtElement(p, b, n) + graph.node[p].element_length
<1> DEFINE L == graph.node[p].element_length
<1>1. L \in Nat
  OBVIOUS
<1>2. AtElement(p, b, n) = b + n * L /\ AtElement(p, b, n + 1) = b + (n + 1) * L
  BY DEF AtElement
<1> HIDE DEF L
<1>3. n * L \in Nat /\ (n + 1) * L = n * L + L
  BY <1>1
<1> QED
  BY <1>1, <1>2, <1>3 DEF L

\* A node that has read something, or has failed to.  If it is the element of a
\* loop it has to have read as much as the loop expects.
LEMMA ReadPosition ==
  ASSUME Placed, NEW kind, At(kind), NEW s, InString(s), s.groups = state.groups,
         \/ Leave(FALSE, s, stack)
         \/ /\ Enter(Here.next, s, stack)
            /\ \A p \in NodesOf("FixedLengthElementSequence") :
                 node = graph.node[p].sequence_element =>
                   s.pos = state.pos + graph.node[p].element_length
  PROVE  Positions'
<1>1. CASE Settled(stack)
  BY <1>1, EnterSettled, LeaveSettled
<1>2. CASE stack # <<>> /\ Settled(Callers) /\ InElement(Caller)
  <2> DEFINE f == Caller
  <2>1. /\ f.node \in NodesOf("FixedLengthElementSequence")
        /\ f.str_initial \in Nat
        /\ f.count \in Nat
    <3>1. f \in Frame /\ f.kind = "FixedLengthElementSequence"
      BY <1>2, PlacedRuns, RunningTypes, LastAndFront DEF Caller, InElement, Scanning
    <3>2. f.node \in NodesOf(f.kind)
      BY <3>1, FrameFields
    <3> QED
      BY <3>1, <3>2, LoopFrameFields
  <2>2. /\ node = graph.node[f.node].sequence_element
        /\ state.pos = AtElement(f.node, f.str_initial, f.count)
    BY <1>2 DEF InElement, At
  <2>3. input' = input /\ state' = s /\ stack' = stack
    BY DEF Enter, Leave
  <2>4. InString(state)'
    BY <2>3 DEF InString, str
  <2>5. /\ Settled(Callers)' /\ FrameInString(Caller)' /\ Scanning(Caller)'
        /\ (state.groups = Caller.state.groups)'
    BY <1>2, <2>3
       DEF Callers, Caller, InElement, Settled, FrameInString, InString, Scanning, AtElement,
           str, graph
  <2>6. CASE Leave(FALSE, s, stack)
    <3>1. pc' = "return" /\ ~answer'
      BY <2>6 DEF Leave
    <3>2. InElement(Caller)'
      BY <2>5, <3>1 DEF InElement
    <3> QED
      BY <1>2, <2>3, <2>4, <2>5, <3>1, <3>2 DEF Positions
  <2>7. CASE /\ Enter(Here.next, s, stack)
             /\ \A p \in NodesOf("FixedLengthElementSequence") :
                  node = graph.node[p].sequence_element =>
                    s.pos = state.pos + graph.node[p].element_length
    <3>1. Here.next = nullptr /\ graph.node[f.node].element_length \in Nat
      BY <2>1, <2>2, ElementFacts DEF Here
    <3>2. s.pos = AtElement(f.node, f.str_initial, f.count + 1)
      <4>1. s.pos = state.pos + graph.node[f.node].element_length
        BY <2>1, <2>2, <2>7
      <4>2. AtElement(f.node, f.str_initial, f.count + 1)
              = AtElement(f.node, f.str_initial, f.count) + graph.node[f.node].element_length
        BY <2>1, <3>1, NextElement
      <4> QED
        BY <2>2, <4>1, <4>2
    <3>3. pc' = "match" /\ node' = nullptr
      BY <2>7, <3>1 DEF Enter
    <3>4. InElement(Caller)'
      BY <2>3, <2>5, <3>2, <3>3 DEF InElement, Caller, AtElement, graph
    <3> QED
      BY <1>2, <2>3, <2>4, <2>5, <3>3, <3>4 DEF Positions
  <2> QED
    BY <2>6, <2>7
<1> QED
  BY <1>1, <1>2 DEF Placed, Positions

\* The State after a character is in the string.
LEMMA ExtractedInString ==
  ASSUME Placed
  PROVE  InString(Extracted(ExtractCodePoint(str, state.pos)))
<1> DEFINE c == ExtractCodePoint(str, state.pos)
<1>1. str \in Seq(Byte) /\ state.pos \in Nat
  BY PlacedRuns, RunningTypes, StateFields
<1>2. c.ok => c.pos <= Len(str)
  BY <1>1, ExtractedLength
<1> HIDE DEF c
<1>3. state \in StateType
  BY PlacedRuns, RunningTypes
<1>4. c.ok => Moved(c.pos).pos = c.pos
  BY <1>3 DEF Moved, StateType
<1>5. InString(Extracted(c))
  BY <1>2, <1>4, PlacedRuns DEF Extracted, InString
<1> QED
  BY <1>5 DEF c

\* Reading moves the State and does nothing else to it.
LEMMA ReadingMoves ==
  ASSUME Placed
  PROVE  /\ \A p : Moved(p).groups = state.groups
         /\ \A c : Extracted(c).groups = state.groups
<1>1. state \in StateType
  BY PlacedRuns, RunningTypes
<1> QED
  BY <1>1 DEF Moved, Extracted, StateType

LEMMA MatchAnySymbolPosition ==
  ASSUME Placed, MatchAnySymbol
  PROVE  Positions'
<1>1. Settled(stack)
  BY HereSettled DEF MatchAnySymbol
<1>2. InString(Extracted(ExtractCodePoint(str, state.pos)))
  BY ExtractedInString
<1> QED
  BY <1>1, <1>2, EnterSettled, LeaveSettled DEF MatchAnySymbol, EnterIf

LEMMA MatchSpecificSymbolPosition ==
  ASSUME Placed, MatchSpecificSymbol
  PROVE  Positions'
<1> DEFINE c == ExtractCodePoint(str, state.pos)
<1>1. At("SpecificSymbol") /\ EnterIf(c.ok /\ c.code = Here.code, Here.next, Extracted(c))
  BY DEF MatchSpecificSymbol
<1>2. InString(Extracted(c)) /\ Extracted(c).groups = state.groups
  BY ExtractedInString, ReadingMoves
<1>3. ASSUME c.ok /\ c.code = Here.code,
             NEW p \in NodesOf("FixedLengthElementSequence"),
             node = graph.node[p].sequence_element
      PROVE  Extracted(c).pos = state.pos + graph.node[p].element_length
  <2>1. str \in Seq(Byte) /\ state.pos \in Nat /\ state \in StateType
    BY PlacedRuns, RunningTypes, StateFields
  <2>2. c.pos = state.pos + Len(Utf8(Here.code))
    BY <1>3, <2>1, ExtractedLength
  <2>3. Len(Utf8(Here.code)) = graph.node[p].element_length
    BY <1>1, <1>3 DEF Placed, LoopsExact, NodesOf, At, Here
  <2>4. Extracted(c).pos = c.pos
    BY <1>3, <2>1 DEF Extracted, Moved, StateType
  <2> QED
    BY <2>2, <2>3, <2>4
<1> HIDE DEF c
<1>4. \/ Leave(FALSE, Extracted(c), stack)
      \/ /\ Enter(Here.next, Extracted(c), stack)
         /\ \A p \in NodesOf("FixedLengthElementSequence") :
              node = graph.node[p].sequence_element =>
                Extracted(c).pos = state.pos + graph.node[p].element_length
  BY <1>1, <1>3 DEF EnterIf
<1> QED
  BY <1>1, <1>2, <1>4, ReadPosition

\* What a class that is not inverted has, has the length of what it lists.
LEMMA ListedLength ==
  ASSUME Placed, At("OneOf"), NEW code \in Int, NEW n, ~Here.inverse_flag,
         \A c \in Here.variants \cup UNION { {r[1], r[2]} : r \in ToSet(Here.ranges) } :
           Len(Utf8(c)) = n,
         OneOfHas(Here, code) # Here.inverse_flag
  PROVE  Len(Utf8(code)) = n
<1>1. Here.variants \subseteq Nat /\ ToSet(Here.ranges) \subseteq Nat \X Nat
  <2>1. Here.variants \subseteq Nat /\ Here.ranges \in Seq(Nat \X Nat)
    BY PlacedRuns, HereFields DEF NodeOK
  <2> QED
    BY <2>1 DEF ToSet
<1>2. OneOfHas(Here, code)
  <2>1. Here.kind = "OneOf" /\ NodeOK(Here, Pointers, Counters)
    BY PlacedRuns, HereFields
  <2>2. Here.inverse_flag \in BOOLEAN
    BY <2>1, Zenon DEF NodeOK
  <2>3. Here.inverse_flag = FALSE
    BY <2>2
  <2> QED
    BY <2>3, Zenon DEF OneOfHas
<1>3. CASE code \in Here.variants
  BY <1>3
<1>4. CASE \E range \in ToSet(Here.ranges) : range[1] <= code /\ code <= range[2]
  <2>1. PICK range \in ToSet(Here.ranges) : range[1] <= code /\ code <= range[2]
    BY <1>4
  <2>2. range[1] \in Int /\ range[2] \in Int
    BY <1>1, <2>1
  <2>3. Len(Utf8(range[1])) = n /\ Len(Utf8(range[2])) = n
    <3>1. {range[1], range[2]} \in { {r[1], r[2]} : r \in ToSet(Here.ranges) }
      BY <2>1
    <3> QED
      BY <3>1
  <2>4. /\ Len(Utf8(range[1])) <= Len(Utf8(code))
        /\ Len(Utf8(code)) <= Len(Utf8(range[2]))
    BY <2>1, <2>2, Utf8Length
  <2>5. Len(Utf8(code)) \in Int /\ n \in Int
    BY <2>2, <2>3, Utf8Length
  <2> QED
    BY <2>3, <2>4, <2>5
<1> QED
  BY <1>2, <1>3, <1>4 DEF OneOfHas

LEMMA MatchOneOfPosition ==
  ASSUME Placed, MatchOneOf
  PROVE  Positions'
<1> DEFINE c == ExtractCodePoint(str, state.pos)
           has == OneOfHas(Here, c.code) # Here.inverse_flag
<1>1. At("OneOf") /\ EnterIf(c.ok /\ has, Here.next, Extracted(c))
  BY DEF MatchOneOf
<1>2. InString(Extracted(c)) /\ Extracted(c).groups = state.groups
  BY ExtractedInString, ReadingMoves
<1>3. ASSUME c.ok /\ has,
             NEW p \in NodesOf("FixedLengthElementSequence"),
             node = graph.node[p].sequence_element
      PROVE  Extracted(c).pos = state.pos + graph.node[p].element_length
  <2>1. str \in Seq(Byte) /\ state.pos \in Nat /\ state \in StateType
    BY PlacedRuns, RunningTypes, StateFields
  <2>2. c.pos = state.pos + Len(Utf8(c.code)) /\ c.code \in Int
    BY <1>3, <2>1, ExtractedLength
  <2>3. /\ ~Here.inverse_flag
        /\ \A x \in Here.variants \cup UNION { {r[1], r[2]} : r \in ToSet(Here.ranges) } :
             Len(Utf8(x)) = graph.node[p].element_length
    BY <1>1, <1>3 DEF Placed, LoopsExact, NodesOf, At, Here
  <2>4. Len(Utf8(c.code)) = graph.node[p].element_length
    BY <1>1, <1>3, <2>2, <2>3, ListedLength
  <2>5. Extracted(c).pos = c.pos
    BY <1>3, <2>1 DEF Extracted, Moved, StateType
  <2> QED
    BY <2>2, <2>4, <2>5
<1> HIDE DEF c, has
<1>4. \/ Leave(FALSE, Extracted(c), stack)
      \/ /\ Enter(Here.next, Extracted(c), stack)
         /\ \A p \in NodesOf("FixedLengthElementSequence") :
              node = graph.node[p].sequence_element =>
                Extracted(c).pos = state.pos + graph.node[p].element_length
  BY <1>1, <1>3 DEF EnterIf
<1> QED
  BY <1>1, <1>2, <1>4, ReadPosition

LEMMA MatchStringPosition ==
  ASSUME Placed, MatchString
  PROVE  Positions'
<1>1. At("String")
  BY DEF MatchString
<1>2. state \in StateType /\ InString(state)
  BY PlacedRuns, RunningTypes
<1>3. CASE IsPrefixAt(Here.str, str, state.pos)
  <2> DEFINE s == Moved(state.pos + Len(Here.str))
  <2>1. s.pos = state.pos + Len(Here.str)
    BY <1>2 DEF Moved, StateType
  <2>2. InString(s) /\ s.groups = state.groups
    BY <1>3, <2>1, ReadingMoves DEF IsPrefixAt, InString
  <2>3. ASSUME NEW p \in NodesOf("FixedLengthElementSequence"),
               node = graph.node[p].sequence_element
        PROVE  s.pos = state.pos + graph.node[p].element_length
    BY <1>1, <2>1, <2>3 DEF Placed, LoopsExact, NodesOf, At, Here
  <2>4. Enter(Here.next, s, stack)
    BY <1>3 DEF MatchString
  <2> HIDE DEF s
  <2> QED
    BY <1>1, <2>2, <2>3, <2>4, ReadPosition
<1>4. CASE ~IsPrefixAt(Here.str, str, state.pos)
  BY <1>1, <1>2, <1>4, ReadPosition DEF MatchString
<1> QED
  BY <1>3, <1>4

-----------------------------------------------------------------------------
(***************************************************************************)
(* Nodes that go on without a frame.                                       *)
(***************************************************************************)
\* Groups, counters, calls and saves do not move a State.
LEMMA UpdatesKeepPosition ==
  ASSUME NEW s \in StateType
  PROVE  /\ \A g, v : WithGroup(s, g, v).pos = s.pos
         /\ \A id, k : WithCounter(s, id, k).pos = s.pos
         /\ \A r : [s EXCEPT !.subroutines_return_stack = r].pos = s.pos
         /\ \A n, link : WithSave(s, n, link).pos = s.pos
         /\ \A n, saved : WithRestored(s, n, saved).pos = s.pos
BY DEF StateType, WithGroup, WithCounter, WithSave, WithRestored

LEMMA MatchAssertionPosition ==
  ASSUME Placed, MatchStringStartAssertion \/ MatchStringEndAssertion
  PROVE  Positions'
<1>1. Settled(stack) /\ InString(state)
  BY PlacedRuns, HereSettled DEF MatchStringStartAssertion, MatchStringEndAssertion
<1> QED
  BY <1>1, EnterSettled, LeaveSettled
     DEF MatchStringStartAssertion, MatchStringEndAssertion, EnterIf

LEMMA MatchGroupPosition ==
  ASSUME Placed, MatchGroupStart \/ MatchGroupEnd
  PROVE  Positions'
<1>1. Settled(stack) /\ InString(state) /\ state \in StateType
  BY PlacedRuns, RunningTypes, HereSettled DEF MatchGroupStart, MatchGroupEnd
<1>2. \A g, v : InString(WithGroup(state, g, v))
  BY <1>1, UpdatesKeepPosition DEF InString
<1>3. \/ Enter(Here.next, state, stack)
      \/ \E g, v : Enter(Here.next, WithGroup(state, g, v), stack)
  BY DEF MatchGroupStart, MatchGroupEnd
<1> QED
  BY <1>1, <1>2, <1>3, EnterSettled

LEMMA MatchBackReferencePosition ==
  ASSUME Placed, MatchBackReference
  PROVE  Positions'
<1>1. Settled(stack) /\ InString(state) /\ state \in StateType
  BY PlacedRuns, RunningTypes, HereSettled DEF MatchBackReference
<1> DEFINE end == state.pos + state.groups[Here.index].size
<1>2. \/ end <= Len(str) /\ Enter(Here.next, Moved(end), stack)
      \/ Leave(FALSE, state, stack)
  BY DEF MatchBackReference
<1>3. Moved(end).pos = end
  BY <1>1 DEF Moved, StateType
<1> HIDE DEF end
<1> QED
  BY <1>1, <1>2, <1>3, EnterSettled, LeaveSettled DEF InString

LEMMA MatchSequenceCounterResetPosition ==
  ASSUME Placed, MatchSequenceCounterReset
  PROVE  Positions'
<1>1. Settled(stack) /\ InString(state) /\ state \in StateType
  BY PlacedRuns, RunningTypes, HereSettled DEF MatchSequenceCounterReset
<1>2. InString(WithCounter(state, Here.id, 0))
  BY <1>1, UpdatesKeepPosition DEF InString
<1> QED
  BY <1>1, <1>2, EnterSettled DEF MatchSequenceCounterReset

LEMMA MatchSubroutinePosition ==
  ASSUME Placed, MatchSubroutineEnter \/ MatchSubroutineLeave
  PROVE  Positions'
<1>1. Settled(stack) /\ InString(state) /\ state \in StateType
  BY PlacedRuns, RunningTypes, HereSettled DEF MatchSubroutineEnter, MatchSubroutineLeave
<1>2. \A r : InString([state EXCEPT !.subroutines_return_stack = r])
  BY <1>1, UpdatesKeepPosition DEF InString
<1>3. \/ \E p : Enter(p, state, stack)
      \/ \E p, r : Enter(p, [state EXCEPT !.subroutines_return_stack = r], stack)
  BY DEF MatchSubroutineEnter, MatchSubroutineLeave
<1> QED
  BY <1>1, <1>2, <1>3, EnterSettled

LEMMA MatchStateRestorePosition ==
  ASSUME Placed, MatchStateRestore
  PROVE  Positions'
<1>1. Settled(stack) /\ InString(state) /\ state \in StateType
  BY PlacedRuns, RunningTypes, HereSettled DEF MatchStateRestore
<1>2. \A n, saved : InString(WithRestored(state, n, saved))
  BY <1>1, UpdatesKeepPosition DEF InString
<1>3. \E n, saved : Enter(Here.next, WithRestored(state, n, saved), stack)
  BY DEF MatchStateRestore
<1> QED
  BY <1>1, <1>2, <1>3, EnterSettled

-----------------------------------------------------------------------------
(***************************************************************************)
(* Nodes that wait for an inner call, and try again or go on after it.     *)
(***************************************************************************)
\* A frame that keeps its State goes on the stack.
LEMMA PushKept ==
  ASSUME Placed, NEW f \in Frame, f.kind \in KeepingKinds \ {"FixedLengthElementSequence"},
         NEW stk \in Seq(Frame), Settled(stk), InString(f.state)
  PROVE  Settled(Append(stk, f))
BY KeptInString, PushSettled

\* The State the frame on top has kept, and the frames below.
LEMMA PopKept ==
  ASSUME Placed, NEW kind, BackIn(kind), kind \in KeepingKinds \ {"FixedLengthElementSequence"}
  PROVE  Settled(Callers) /\ InString(Caller.state)
<1>1. Caller.kind = kind
  BY DEF BackIn
<1> QED
  BY <1>1, KeptInString, PopSettled

LEMMA TryAlternativePosition ==
  ASSUME Placed, NEW p \in NodesOf("Alternatives"), NEW k \in Nat, NEW s \in StateType,
         NEW stk \in Seq(Frame), TryAlternative(p, k, s, stk), Settled(stk), InString(s)
  PROVE  Positions'
<1> DEFINE f == [kind |-> "Alternatives", node |-> p, tried |-> k, state |-> s]
<1>1. f \in Frame
  BY DEF Frame
<1>2. Settled(Append(stk, f))
  BY <1>1, PushKept DEF KeepingKinds
<1>3. \/ Enter(graph.node[p].next[k], s, Append(stk, f))
      \/ Leave(FALSE, s, stk)
  BY DEF TryAlternative
<1> HIDE DEF f
<1> QED
  BY <1>2, <1>3, EnterSettled, LeaveSettled

LEMMA AlternativesPosition ==
  ASSUME Placed, MatchAlternatives \/ BackInAlternatives
  PROVE  Positions'
<1>1. CASE MatchAlternatives
  <2>1. node \in NodesOf("Alternatives") /\ Settled(stack)
    BY <1>1, PlacedRuns, HereFields, HereSettled DEF MatchAlternatives
  <2> QED
    BY <1>1, <2>1, PlacedRuns, RunningTypes, TryAlternativePosition DEF MatchAlternatives
<1>2. CASE BackInAlternatives
  <2>1. BackIn("Alternatives")
    BY <1>2 DEF BackInAlternatives
  <2>2. /\ Caller.node \in NodesOf("Alternatives")
        /\ Caller.tried + 1 \in Nat
        /\ Caller.state \in StateType
        /\ Callers \in Seq(Frame)
    BY <2>1, PlacedRuns, CallerType, CallerNode, FrameStates DEF KeepingKinds
  <2>3. Settled(Callers) /\ InString(Caller.state) /\ InString(state)
    BY <2>1, PlacedRuns, PopKept DEF KeepingKinds
  <2>4. \/ Leave(TRUE, state, Callers)
        \/ TryAlternative(Caller.node, Caller.tried + 1, Caller.state, Callers)
    BY <1>2 DEF BackInAlternatives
  <2> QED
    BY <2>2, <2>3, <2>4, LeaveSettled, TryAlternativePosition
<1> QED
  BY <1>1, <1>2

LEMMA AlternativesPossessivePosition ==
  ASSUME Placed, MatchAlternativesPossessive \/ BackInAlternativesPossessive
  PROVE  Positions'
<1>1. CASE MatchAlternativesPossessive
  <2> DEFINE f == [kind |-> "AlternativesPossessive", node |-> node, state_copy |-> state]
  <2>1. /\ node \in NodesOf("AlternativesPossessive")
        /\ Settled(stack)
        /\ state \in StateType /\ InString(state) /\ stack \in Seq(Frame)
    BY <1>1, PlacedRuns, RunningTypes, HereFields, HereSettled DEF MatchAlternativesPossessive
  <2>2. f \in Frame
    BY <2>1 DEF Frame
  <2>3. FrameInString(f) /\ ~Scanning(f)
    BY <2>1 DEF FrameInString, Scanning, StatesIn, StatesBefore, StatesAfter
  <2>4. Settled(Append(stack, f))
    BY <2>1, <2>2, <2>3, PushSettled
  <2>5. Enter(Here.path0_element, state, Append(stack, f))
    BY <1>1 DEF MatchAlternativesPossessive
  <2> QED
    BY <2>1, <2>4, <2>5, EnterSettled
<1>2. CASE BackInAlternativesPossessive
  <2>1. BackIn("AlternativesPossessive") /\ Caller.kind = "AlternativesPossessive"
    BY <1>2 DEF BackInAlternativesPossessive, BackIn
  <2>2. Settled(Callers) /\ FrameInString(Caller)
    BY <2>1, PopSettled DEF Scanning
  <2>3. InString(Caller.state_copy)
    BY <2>1, <2>2 DEF FrameInString, StatesIn, StatesBefore, StatesAfter
  <2> QED
    BY <1>2, <2>2, <2>3, PlacedRuns, EnterSettled DEF BackInAlternativesPossessive
<1> QED
  BY <1>1, <1>2

LEMMA LookPosition ==
  ASSUME Placed, MatchLookAhead \/ MatchLookBehind \/ BackInLook
  PROVE  Positions'
<1>1. ASSUME NEW kind \in LookKinds, At(kind)
      PROVE  /\ Settled(stack) /\ InString(state)
             /\ state \in StateType /\ state.pos \in Nat
             /\ Here.size \in Nat \/ kind = "LookAhead"
             /\ \A s : InString(s) /\ EnterLook(s) => Positions'
  <2> DEFINE f == [kind |-> Here.kind, node |-> node, state |-> state]
  <2>1. /\ Settled(stack) /\ InString(state)
        /\ state \in StateType /\ state.pos \in Nat /\ stack \in Seq(Frame)
        /\ node \in NodesOf(kind) /\ Here.kind = kind
    BY <1>1, PlacedRuns, RunningTypes, StateFields, HereFields, HereSettled DEF LookKinds
  <2>2. f \in Frame
    BY <2>1 DEF Frame, KeepsState, LookKinds
  <2>3. Settled(Append(stack, f))
    BY <2>1, <2>2, PushKept DEF KeepingKinds, LookKinds
  <2>4. \A s : EnterLook(s) => Enter(Here.look_graph, s, Append(stack, f))
    BY DEF EnterLook
  <2>5. Here.size \in Nat \/ kind = "LookAhead"
    BY <1>1, <2>1, PlacedRuns, HereFields DEF NodeOK, LookKinds
  <2> HIDE DEF f
  <2> QED
    BY <2>1, <2>3, <2>4, <2>5, EnterSettled
<1>2. CASE MatchLookAhead
  BY <1>1, <1>2 DEF MatchLookAhead, LookKinds
<1>3. CASE MatchLookBehind
  <2>1. At("LookBehind")
    BY <1>3 DEF MatchLookBehind
  <2>2. /\ Settled(stack) /\ InString(state) /\ state \in StateType /\ state.pos \in Nat
        /\ Here.size \in Nat
        /\ \A s : InString(s) /\ EnterLook(s) => Positions'
    BY <1>1, <2>1 DEF LookKinds
  <2>3. Moved(state.pos - Here.size).pos = state.pos - Here.size
    BY <2>2 DEF Moved, StateType
  <2>4. Len(str) \in Nat
    BY PlacedRuns, RunningTypes
  <2>5. InString(Moved(state.pos - Here.size))
    BY <2>2, <2>3, <2>4 DEF InString
  <2>6. \/ Enter(Here.next, state, stack)
        \/ Leave(FALSE, state, stack)
        \/ EnterLook(Moved(state.pos - Here.size))
    BY <1>3 DEF MatchLookBehind, EnterIf
  <2> QED
    BY <2>2, <2>5, <2>6, EnterSettled, LeaveSettled
<1>4. CASE BackInLook
  <2>1. Settled(Callers) /\ InString(Caller.state)
    BY <1>4, PopKept DEF BackInLook, KeepingKinds
  <2> QED
    BY <1>4, <2>1, EnterSettled, LeaveSettled DEF BackInLook
<1> QED
  BY <1>2, <1>3, <1>4

LEMMA ConditionalElementPosition ==
  ASSUME Placed, MatchConditionalElement \/ BackInConditionalElement
  PROVE  Positions'
<1>1. CASE MatchConditionalElement
  <2> DEFINE f == [kind |-> "ConditionalElement", node |-> node, state |-> state]
  <2>1. /\ node \in NodesOf("ConditionalElement")
        /\ Settled(stack)
        /\ state \in StateType /\ InString(state) /\ stack \in Seq(Frame)
    BY <1>1, PlacedRuns, RunningTypes, HereFields, HereSettled DEF MatchConditionalElement
  <2>2. f \in Frame
    BY <2>1 DEF Frame, KeepsState
  <2>3. Settled(Append(stack, f))
    BY <2>1, <2>2, PushKept DEF KeepingKinds
  <2>4. Enter(Here.condition_node, state, Append(stack, f))
    BY <1>1 DEF MatchConditionalElement
  <2> QED
    BY <2>1, <2>3, <2>4, EnterSettled
<1>2. CASE BackInConditionalElement
  <2>1. Settled(Callers) /\ InString(Caller.state)
    BY <1>2, PopKept DEF BackInConditionalElement, KeepingKinds
  <2> QED
    BY <1>2, <2>1, EnterSettled DEF BackInConditionalElement
<1> QED
  BY <1>1, <1>2

LEMMA SequenceCounterPosition ==
  ASSUME Placed, MatchSequenceCounter \/ BackInSequenceCounter
  PROVE  Positions'
<1>1. CASE MatchSequenceCounter
  <2> DEFINE counted == WithCounter(state, Here.id, state.sequence_counters[Here.id] + 1)
             f == [kind |-> "SequenceCounter", node |-> node, state |-> counted]
  <2>1. /\ node \in NodesOf("SequenceCounter") /\ Here.id \in Counters
        /\ Settled(stack)
        /\ state \in StateType /\ InString(state) /\ stack \in Seq(Frame)
    BY <1>1, PlacedRuns, RunningTypes, HereFields, HereSettled
       DEF MatchSequenceCounter, NodeOK, CounterKinds
  <2>2. counted \in StateType
    <3>1. state.sequence_counters[Here.id] + 1 \in Nat
      BY <2>1, StateFields
    <3> QED
      BY <2>1, <3>1, StateUpdates
  <2>3. InString(counted)
    BY <2>1, UpdatesKeepPosition DEF InString
  <2>4. \/ \E p : Enter(p, counted, stack)
        \/ \E p : Enter(p, counted, Append(stack, f))
    BY <1>1 DEF MatchSequenceCounter
  <2> HIDE DEF counted
  <2>5. f \in Frame
    BY <2>1, <2>2 DEF Frame, KeepsState
  <2>6. Settled(Append(stack, f))
    BY <2>1, <2>3, <2>5, PushKept DEF KeepingKinds
  <2> QED
    BY <2>1, <2>3, <2>4, <2>6, EnterSettled
<1>2. CASE BackInSequenceCounter
  <2>1. Settled(Callers) /\ InString(Caller.state) /\ InString(state)
    BY <1>2, PlacedRuns, PopKept DEF BackInSequenceCounter, KeepingKinds
  <2> QED
    BY <1>2, <2>1, EnterSettled, LeaveSettled DEF BackInSequenceCounter
<1> QED
  BY <1>1, <1>2

LEMMA PossessiveLoopPosition ==
  ASSUME Placed, NEW p \in NodesOf("PossessiveSequence"), NEW done \in Nat,
         NEW s \in StateType, NEW stk \in Seq(Frame),
         PossessiveLoop(p, done, s, stk), Settled(stk), InString(s)
  PROVE  Positions'
<1> DEFINE f == [kind |-> "PossessiveSequence", node |-> p, done |-> done, state |-> s]
<1>1. f \in Frame
  BY DEF Frame
<1>2. Settled(Append(stk, f))
  BY <1>1, PushKept DEF KeepingKinds
<1>3. \/ \E q : Enter(q, s, Append(stk, f))
      \/ \E q : Enter(q, s, stk)
  BY DEF PossessiveLoop
<1> HIDE DEF f
<1> QED
  BY <1>2, <1>3, EnterSettled

LEMMA PossessiveSequencePosition ==
  ASSUME Placed, MatchPossessiveSequence \/ BackInPossessiveSequence
  PROVE  Positions'
<1>1. CASE MatchPossessiveSequence
  <2>1. node \in NodesOf("PossessiveSequence") /\ Settled(stack)
    BY <1>1, PlacedRuns, HereFields, HereSettled DEF MatchPossessiveSequence
  <2> QED
    BY <1>1, <2>1, PlacedRuns, RunningTypes, PossessiveLoopPosition
       DEF MatchPossessiveSequence
<1>2. CASE BackInPossessiveSequence
  <2>1. BackIn("PossessiveSequence")
    BY <1>2 DEF BackInPossessiveSequence
  <2>2. /\ Caller.node \in NodesOf("PossessiveSequence")
        /\ Caller.done + 1 \in Nat
        /\ Callers \in Seq(Frame)
        /\ state \in StateType
    BY <2>1, PlacedRuns, RunningTypes, CallerType, CallerNode, FrameStates
  <2>3. Settled(Callers) /\ InString(Caller.state) /\ InString(state)
    BY <2>1, PlacedRuns, PopKept DEF KeepingKinds
  <2>4. \/ PossessiveLoop(Caller.node, Caller.done + 1, state, Callers)
        \/ Leave(FALSE, Caller.state, Callers)
        \/ \E q : Enter(q, Caller.state, Callers)
    BY <1>2 DEF BackInPossessiveSequence
  <2> QED
    BY <2>2, <2>3, <2>4, EnterSettled, LeaveSettled, PossessiveLoopPosition
<1> QED
  BY <1>1, <1>2

\* The frame of the loop that keeps one way back.
LEMMA PushRollback ==
  ASSUME Placed, NEW p \in NodesOf("SingleRollbackPointSequence"), NEW in_tail \in BOOLEAN,
         NEW s \in StateType, NEW next_states \in SUBSET StateType, NEW stk \in Seq(Frame),
         Settled(stk), InString(s), \A t \in next_states : InString(t)
  PROVE  Settled(Append(stk, RollbackFrame(p, in_tail, s, next_states)))
<1> DEFINE f == RollbackFrame(p, in_tail, s, next_states)
<1>1. f \in Frame
  BY DEF RollbackFrame, Frame
<1>2. StatesIn(f) = {s} \cup next_states
  BY DEF RollbackFrame, StatesIn, StatesBefore, StatesAfter
<1>3. FrameInString(f) /\ ~Scanning(f)
  BY <1>2 DEF FrameInString, Scanning, RollbackFrame
<1> HIDE DEF f
<1>4. Settled(Append(stk, f))
  BY <1>1, <1>3, PushSettled
<1> QED
  BY <1>4 DEF f

LEMMA SingleRollbackPointSequencePosition ==
  ASSUME Placed, MatchSingleRollbackPointSequence \/ BackInSingleRollbackPointSequence
  PROVE  Positions'
<1>1. CASE MatchSingleRollbackPointSequence
  <2>1. /\ node \in NodesOf("SingleRollbackPointSequence")
        /\ Settled(stack)
        /\ state \in StateType /\ InString(state) /\ stack \in Seq(Frame)
    BY <1>1, PlacedRuns, RunningTypes, HereFields, HereSettled
       DEF MatchSingleRollbackPointSequence
  <2>2. Settled(Append(stack, RollbackFrame(node, TRUE, state, {})))
    BY <2>1, PushRollback
  <2> QED
    BY <1>1, <2>1, <2>2, EnterSettled DEF MatchSingleRollbackPointSequence, RollbackTail
<1>2. CASE BackInSingleRollbackPointSequence
  <2>1. BackIn("SingleRollbackPointSequence")
    BY <1>2 DEF BackInSingleRollbackPointSequence
  <2>2. /\ Caller.node \in NodesOf("SingleRollbackPointSequence")
        /\ Caller.kind = "SingleRollbackPointSequence"
        /\ Callers \in Seq(Frame)
        /\ state \in StateType
        /\ Caller.state_copy \in StateType
        /\ Caller.next_states \in SUBSET StateType
    BY <2>1, PlacedRuns, RunningTypes, CallerType, CallerNode, FrameStates
  <2>3. Settled(Callers) /\ FrameInString(Caller) /\ InString(state)
    BY <2>1, <2>2, PlacedRuns, PopSettled DEF Scanning
  <2>4. InString(Caller.state_copy) /\ \A t \in Caller.next_states : InString(t)
    BY <2>2, <2>3 DEF FrameInString, StatesIn, StatesBefore, StatesAfter
  <2>5. CASE Caller.in_tail
    <3> DEFINE kept == IF answer THEN {state} ELSE Caller.next_states
    <3>1. kept \in SUBSET StateType /\ \A t \in kept : InString(t)
      BY <2>2, <2>3, <2>4
    <3>2. Enter(graph.node[Caller.node].sequence_element, Caller.state_copy,
                Append(Callers, RollbackFrame(Caller.node, FALSE, Caller.state_copy, kept)))
      BY <1>2, <2>5 DEF BackInSingleRollbackPointSequence
    <3> HIDE DEF kept
    <3>3. Settled(Append(Callers, RollbackFrame(Caller.node, FALSE, Caller.state_copy, kept)))
      BY <2>2, <2>3, <2>4, <3>1, PushRollback
    <3> QED
      BY <2>4, <3>2, <3>3, EnterSettled
  <2>6. CASE ~Caller.in_tail
    <3>1. Settled(Append(Callers, RollbackFrame(Caller.node, TRUE, state, Caller.next_states)))
      BY <2>2, <2>3, <2>4, PushRollback
    <3>2. Caller.next_states # {} =>
            (CHOOSE s \in Caller.next_states : TRUE) \in Caller.next_states
      OBVIOUS
    <3>3. \/ RollbackTail(Caller.node, state, Caller.next_states, Callers)
          \/ /\ Caller.next_states # {}
             /\ Leave(TRUE, CHOOSE s \in Caller.next_states : TRUE, Callers)
          \/ Leave(FALSE, state, Callers)
      BY <1>2, <2>6 DEF BackInSingleRollbackPointSequence
    <3> QED
      BY <2>3, <2>4, <3>1, <3>2, <3>3, EnterSettled, LeaveSettled DEF RollbackTail
  <2> QED
    BY <2>5, <2>6
<1> QED
  BY <1>1, <1>2

LEMMA AtomicGroupPosition ==
  ASSUME Placed, MatchAtomicGroup \/ BackInAtomicGroup
  PROVE  Positions'
<1>1. CASE MatchAtomicGroup
  <2> DEFINE f == [kind |-> "AtomicGroup", node |-> node]
  <2>1. /\ node \in NodesOf("AtomicGroup")
        /\ Settled(stack)
        /\ InString(state) /\ stack \in Seq(Frame)
    BY <1>1, PlacedRuns, RunningTypes, HereFields, HereSettled DEF MatchAtomicGroup
  <2>2. f \in Frame
    BY <2>1 DEF Frame
  <2>3. FrameInString(f) /\ ~Scanning(f)
    BY DEF FrameInString, Scanning, StatesIn, StatesBefore, StatesAfter
  <2>4. Settled(Append(stack, f))
    BY <2>1, <2>2, <2>3, PushSettled
  <2>5. Enter(Here.group_element, state, Append(stack, f))
    BY <1>1 DEF MatchAtomicGroup
  <2> QED
    BY <2>1, <2>4, <2>5, EnterSettled
<1>2. CASE BackInAtomicGroup
  <2>1. BackIn("AtomicGroup") /\ Caller.kind = "AtomicGroup"
    BY <1>2 DEF BackInAtomicGroup, BackIn
  <2>2. Settled(Callers) /\ InString(state)
    BY <2>1, PlacedRuns, PopSettled DEF Scanning
  <2> QED
    BY <1>2, <2>2, EnterSettled, LeaveSettled DEF BackInAtomicGroup
<1> QED
  BY <1>1, <1>2

LEMMA StateSavePosition ==
  ASSUME Placed, MatchStateSave \/ BackInStateSave
  PROVE  Positions'
<1>1. CASE MatchStateSave
  <2> DEFINE f == [kind |-> "StateSave", node |-> node, state |-> state]
             saved == WithSave(state, Here, Len(stack) + 1)
  <2>1. /\ node \in NodesOf("StateSave")
        /\ Settled(stack)
        /\ state \in StateType /\ InString(state) /\ stack \in Seq(Frame)
    BY <1>1, PlacedRuns, RunningTypes, HereFields, HereSettled DEF MatchStateSave
  <2>2. f \in Frame
    BY <2>1 DEF Frame, KeepsState
  <2>3. Settled(Append(stack, f))
    BY <2>1, <2>2, PushKept DEF KeepingKinds
  <2>4. InString(saved)
    BY <2>1, UpdatesKeepPosition DEF InString
  <2>5. Enter(Here.next, saved, Append(stack, f))
    BY <1>1 DEF MatchStateSave
  <2> QED
    BY <2>3, <2>4, <2>5, EnterSettled
<1>2. CASE BackInStateSave
  <2>1. Settled(Callers) /\ InString(state)
    BY <1>2, PlacedRuns, PopKept DEF BackInStateSave, KeepingKinds
  <2> QED
    BY <1>2, <2>1, LeaveSettled DEF BackInStateSave
<1> QED
  BY <1>1, <1>2

-----------------------------------------------------------------------------
(***************************************************************************)
(* The loop of fixed length.                                               *)
(***************************************************************************)
LEMMA AppendedParts ==
  ASSUME NEW S, NEW s \in Seq(S), NEW x \in S
  PROVE  /\ Append(s, x) # <<>>
         /\ Front(Append(s, x)) = s
         /\ Last(Append(s, x)) = x
BY DEF Front, Last

LEMMA LoopFrameInString ==
  ASSUME NEW p, NEW scanning \in BOOLEAN, NEW b, NEW n, NEW s,
         InString(s), AtElement(p, b, n) <= Len(str)
  PROVE  /\ FrameInString(LoopFrame(p, scanning, b, n, s))
         /\ Scanning(LoopFrame(p, scanning, b, n, s)) <=> scanning
BY DEF FrameInString, Scanning, StatesIn, StatesBefore, StatesAfter, LoopFrame

LEMMA TryTailPosition ==
  ASSUME Placed, NEW p \in NodesOf("FixedLengthElementSequence"),
         NEW b \in Nat, NEW n \in Nat, n >= graph.node[p].min_elements,
         NEW s \in StateType, NEW stk \in Seq(Frame), TryTail(p, b, n, s, stk),
         Settled(stk), InString(s), AtElement(p, b, n) <= Len(str)
  PROVE  Positions'
<1> DEFINE f == LoopFrame(p, FALSE, b, n, s)
           t == [s EXCEPT !.pos = AtElement(p, b, n)]
<1>1. f \in Frame
  BY DEF LoopFrame, LoopFrames, Frame
<1>2. FrameInString(f) /\ ~Scanning(f)
  BY LoopFrameInString
<1>3. InString(t)
  BY DEF InString, StateType
<1>4. Enter(graph.node[p].next, t, Append(stk, f))
  BY DEF TryTail
<1> HIDE DEF f, t
<1> QED
  BY <1>1, <1>2, <1>3, <1>4, PushSettled, EnterSettled

LEMMA EndScanPosition ==
  ASSUME Placed, NEW p \in NodesOf("FixedLengthElementSequence"),
         NEW b \in Nat, NEW n \in Nat,
         NEW s \in StateType, NEW stk \in Seq(Frame), EndScan(p, b, n, s, stk),
         Settled(stk), InString(s), AtElement(p, b, n) <= Len(str)
  PROVE  Positions'
<1>1. graph.node[p].min_elements \in Nat
  BY PlacedRuns, LoopNode
<1>2. CASE n < graph.node[p].min_elements
  BY <1>2, LeaveSettled DEF EndScan
<1>3. CASE ~(n < graph.node[p].min_elements)
  <2>1. n >= graph.node[p].min_elements
    BY <1>1, <1>3
  <2> QED
    BY <1>3, <2>1, TryTailPosition DEF EndScan
<1> QED
  BY <1>2, <1>3

\* The scan goes on: the next element begins where the one before has ended.
LEMMA ScanElementPosition ==
  ASSUME Placed, NEW p \in NodesOf("FixedLengthElementSequence"),
         NEW b \in Nat, NEW n \in Nat,
         NEW s \in StateType, NEW stk \in Seq(Frame), ScanElement(p, b, n, s, stk),
         Settled(stk), InString(s), AtElement(p, b, n) <= Len(str)
  PROVE  Positions'
<1> DEFINE f == LoopFrame(p, TRUE, b, n, s)
           t == [s EXCEPT !.pos = AtElement(p, b, n)]
<1>1. CASE EndScan(p, b, n, s, stk)
  BY <1>1, EndScanPosition
<1>2. CASE Enter(graph.node[p].sequence_element, t, Append(stk, f))
  <2>1. f \in Frame
    BY DEF LoopFrame, LoopFrames, Frame
  <2>2. FrameInString(f) /\ Scanning(f)
    BY LoopFrameInString
  <2>3. t.pos = AtElement(p, b, n) /\ InString(t) /\ t.groups = s.groups
    BY DEF InString, StateType
  <2>4. /\ input' = input /\ pc' = "match" /\ state' = t
        /\ node' = graph.node[p].sequence_element
        /\ stack' = Append(stk, f)
    BY <1>2 DEF Enter
  <2>5. f.node = p /\ f.str_initial = b /\ f.count = n /\ f.state = s
    BY DEF LoopFrame
  <2> HIDE DEF f, t
  <2>6. stack' # <<>> /\ Callers' = stk /\ Caller' = f
    BY <2>1, <2>4, AppendedParts DEF Callers, Caller
  <2>7. InString(state)'
    BY <2>3, <2>4 DEF InString, str
  <2>8. Settled(Callers)'
    BY <2>4, <2>6 DEF Settled, FrameInString, InString, Scanning, AtElement, str, graph
  <2>9. InElement(Caller)'
    BY <2>2, <2>3, <2>4, <2>5, <2>6
       DEF InElement, FrameInString, InString, Scanning, AtElement, str, graph
  <2> QED
    BY <2>4, <2>6, <2>7, <2>8, <2>9 DEF Positions
<1> QED
  BY <1>1, <1>2 DEF ScanElement

LEMMA StepBackPosition ==
  ASSUME Placed, NEW p \in NodesOf("FixedLengthElementSequence"),
         NEW b \in Nat, NEW n \in Nat, n >= graph.node[p].min_elements,
         NEW s \in StateType, NEW stk \in Seq(Frame), StepBack(p, b, n, s, stk),
         Settled(stk), InString(s), AtElement(p, b, n) <= Len(str)
  PROVE  Positions'
<1>1. CASE n = graph.node[p].min_elements
  BY <1>1, LeaveSettled DEF StepBack
<1>2. CASE n # graph.node[p].min_elements
  <2>1. n - 1 \in Nat /\ n - 1 >= graph.node[p].min_elements
    BY <1>2, PlacedRuns, LoopNode
  <2> DEFINE m == n - 1
  <2>2. m \in Nat /\ n = m + 1
    BY <2>1
  <2>3. graph.node[p].element_length \in Nat
    BY ElementFacts
  <2> HIDE DEF m
  <2>4. /\ AtElement(p, b, m) \in Nat
        /\ AtElement(p, b, n) = AtElement(p, b, m) + graph.node[p].element_length
    BY <2>2, <2>3, NextElement
  <2>5. Len(str) \in Nat
    BY PlacedRuns, RunningTypes
  <2>6. AtElement(p, b, m) <= Len(str)
    BY <2>3, <2>4, <2>5
  <2>7. TryTail(p, b, m, s, stk)
    BY <1>2 DEF StepBack, m
  <2>8. m >= graph.node[p].min_elements
    BY <2>1 DEF m
  <2> QED
    BY <2>2, <2>6, <2>7, <2>8, TryTailPosition
<1> QED
  BY <1>1, <1>2

LEMMA FixedLengthElementSequencePosition ==
  ASSUME Placed, MatchFixedLengthElementSequence \/ BackInFixedLengthElementSequence
  PROVE  Positions'
<1>1. CASE MatchFixedLengthElementSequence
  <2>1. /\ node \in NodesOf("FixedLengthElementSequence")
        /\ Settled(stack) /\ InString(state)
        /\ state \in StateType /\ state.pos \in Nat /\ stack \in Seq(Frame)
    BY <1>1, PlacedRuns, RunningTypes, StateFields, HereFields, HereSettled
       DEF MatchFixedLengthElementSequence
  <2>2. AtElement(node, state.pos, 0) = state.pos
    <3>1. graph.node[node].element_length \in Nat
      BY <2>1, ElementFacts
    <3>2. 0 * graph.node[node].element_length = 0
      BY <3>1
    <3> QED
      BY <2>1, <3>2 DEF AtElement
  <2>3. AtElement(node, state.pos, 0) <= Len(str)
    BY <2>1, <2>2 DEF InString
  <2> QED
    BY <1>1, <2>1, <2>3, ScanElementPosition DEF MatchFixedLengthElementSequence
<1>2. CASE BackInFixedLengthElementSequence
  <2> DEFINE f == Caller
  <2>1. BackIn("FixedLengthElementSequence")
    BY <1>2 DEF BackInFixedLengthElementSequence
  <2>2. f \in Frame /\ f.kind = "FixedLengthElementSequence" /\ Callers \in Seq(Frame)
    BY <2>1, PlacedRuns, CallerType
  <2>3. /\ f.node \in NodesOf("FixedLengthElementSequence")
        /\ f.str_initial \in Nat /\ f.count \in Nat
        /\ f.scanning \/ f.count >= graph.node[f.node].min_elements
        /\ f.state \in StateType
        /\ state \in StateType
    BY <2>1, <2>2, PlacedRuns, RunningTypes, CallerNode, LoopFrameFields, FrameStates
       DEF KeepingKinds
  <2>4. /\ InString(state)
        /\ Settled(Callers)
        /\ FrameInString(f)
        /\ f.scanning => InElement(f)
    <3>1. CASE Scanning(f)
      <4>1. ~Settled(stack)
        <5>1. Len(stack) \in DOMAIN stack /\ stack[Len(stack)] = Caller
          BY <2>1, PlacedRuns, RunningTypes DEF BackIn, Caller, Last
        <5> QED
          BY <3>1, <5>1 DEF Settled
      <4> QED
        BY <2>1, <4>1, PlacedRuns DEF Placed, Positions, BackIn, InElement
    <3>2. CASE ~Scanning(f)
      BY <2>1, <2>2, <3>2, PlacedRuns, PopSettled DEF Scanning
    <3> QED
      BY <3>1, <3>2
  <2>5. /\ InString(f.state)
        /\ AtElement(f.node, f.str_initial, f.count) <= Len(str)
    BY <2>2, <2>4 DEF FrameInString, StatesIn, StatesBefore, StatesAfter
  <2>6. CASE f.scanning
    <3>1. answer => AtElement(f.node, f.str_initial, f.count + 1) <= Len(str)
      BY <2>1, <2>4, <2>6 DEF InElement, InString, BackIn
    <3>2. f.count + 1 \in Nat
      BY <2>3
    <3>3. \/ answer /\ ScanElement(f.node, f.str_initial, f.count + 1, state, Callers)
          \/ EndScan(f.node, f.str_initial, f.count, state, Callers)
      BY <1>2, <2>6 DEF BackInFixedLengthElementSequence
    <3>4. CASE answer /\ ScanElement(f.node, f.str_initial, f.count + 1, state, Callers)
      BY <2>2, <2>3, <2>4, <3>1, <3>2, <3>4, ScanElementPosition
    <3>5. CASE EndScan(f.node, f.str_initial, f.count, state, Callers)
      BY <2>2, <2>3, <2>4, <2>5, <3>5, EndScanPosition
    <3> QED
      BY <3>3, <3>4, <3>5
  <2>7. CASE ~f.scanning
    <3>1. \/ Leave(TRUE, state, Callers)
          \/ StepBack(f.node, f.str_initial, f.count, f.state, Callers)
      BY <1>2, <2>7 DEF BackInFixedLengthElementSequence
    <3> QED
      BY <2>2, <2>3, <2>4, <2>5, <2>7, <3>1, LeaveSettled, StepBackPosition
  <2> QED
    BY <2>6, <2>7
<1> QED
  BY <1>1, <1>2

-----------------------------------------------------------------------------
(***************************************************************************)
(* Match.                                                                  *)
(***************************************************************************)
LEMMA SearchPosition ==
  ASSUME TypeOK, Positions, Search
  PROVE  Positions'
<1>1. CASE StartAttempt
  <2>1. /\ input' = input /\ pc' = "match" /\ stack' = <<>> /\ state' = FreshState(i)
        /\ i < Len(str)
    BY <1>1 DEF StartAttempt, Positions
  <2>2. i \in Nat /\ Len(str) \in Nat
    BY DEF TypeOK, CallOK, str
  <2>3. InString(state)'
    BY <2>1, <2>2 DEF InString, FreshState, str
  <2>4. Settled(stack)'
    BY <2>1 DEF Settled
  <2> QED
    BY <2>1, <2>3, <2>4 DEF Positions
<1>2. CASE SearchExhausted \/ AttemptMatched \/ AttemptFailed
  BY <1>2 DEF SearchExhausted, AttemptMatched, AttemptFailed, Positions
<1> QED
  BY <1>1, <1>2 DEF Search

LEMMA VisitNodePosition ==
  ASSUME Placed, VisitNode
  PROVE  Positions'
BY MatchNullptrPosition, MatchAnySymbolPosition, MatchSpecificSymbolPosition,
   MatchOneOfPosition, MatchStringPosition, MatchAssertionPosition, MatchGroupPosition,
   MatchBackReferencePosition, AlternativesPosition, AlternativesPossessivePosition,
   LookPosition, ConditionalElementPosition, MatchSequenceCounterResetPosition,
   SequenceCounterPosition, PossessiveSequencePosition, SingleRollbackPointSequencePosition,
   FixedLengthElementSequencePosition, AtomicGroupPosition, MatchSubroutinePosition,
   StateSavePosition, MatchStateRestorePosition
   DEF VisitNode

LEMMA ReturnToFramePosition ==
  ASSUME Placed, ReturnToFrame
  PROVE  Positions'
BY AlternativesPosition, AlternativesPossessivePosition, LookPosition,
   ConditionalElementPosition, SequenceCounterPosition, PossessiveSequencePosition,
   SingleRollbackPointSequencePosition, FixedLengthElementSequencePosition,
   AtomicGroupPosition, StateSavePosition
   DEF ReturnToFrame

\* The matcher walks on, or returns to a frame, only while it runs; the call's
\* arguments stay.
LEMMA RunArguments ==
  ASSUME Run
  PROVE  /\ UNCHANGED input
         /\ VisitNode \/ ReturnToFrame => pc \in {"match", "return"}
<1>1. ASSUME VisitNode
      PROVE  pc \in {"match", "return"} /\ UNCHANGED input
  BY <1>1
     DEF VisitNode, At, Enter, Leave, EnterIf, EnterLook, TryAlternative, PossessiveLoop,
         RollbackTail, ScanElement, EndScan, TryTail,
         MatchNullptr, MatchAnySymbol, MatchSpecificSymbol, MatchOneOf, MatchString,
         MatchStringStartAssertion, MatchStringEndAssertion, MatchGroupStart, MatchGroupEnd,
         MatchBackReference, MatchAlternatives, MatchAlternativesPossessive, MatchLookAhead,
         MatchLookBehind, MatchConditionalElement, MatchSequenceCounterReset,
         MatchSequenceCounter, MatchPossessiveSequence, MatchSingleRollbackPointSequence,
         MatchFixedLengthElementSequence, MatchAtomicGroup, MatchSubroutineEnter,
         MatchSubroutineLeave, MatchStateSave, MatchStateRestore
<1>2. ASSUME ReturnToFrame
      PROVE  pc \in {"match", "return"} /\ UNCHANGED input
  BY <1>2
     DEF ReturnToFrame, BackIn, Enter, Leave, TryAlternative, PossessiveLoop,
         RollbackTail, ScanElement, EndScan, StepBack, TryTail,
         BackInAlternatives, BackInAlternativesPossessive, BackInLook,
         BackInConditionalElement, BackInSequenceCounter, BackInPossessiveSequence,
         BackInSingleRollbackPointSequence, BackInFixedLengthElementSequence,
         BackInAtomicGroup, BackInStateSave
<1>3. Search => UNCHANGED input
  BY DEF Search, StartAttempt, SearchExhausted, AttemptMatched, AttemptFailed
<1> QED
  BY <1>1, <1>2, <1>3 DEF Run

LEMMA StepPosition ==
  ASSUME TypeOK, LoopsExact(graph) => Positions, [Next]_vars
  PROVE  (LoopsExact(graph) => Positions)'
<1>1. CASE \E c \in Inputs : Call(c)
  <2>1. pc' = "search" /\ stack' = <<>>
    BY <1>1 DEF Call, TypeOK
  <2> QED
    BY <2>1 DEF Positions
<1>2. CASE Run
  <2> SUFFICES ASSUME LoopsExact(graph)'
               PROVE  Positions'
    OBVIOUS
  <2>1. UNCHANGED input
    BY <1>2, RunArguments
  <2>2. LoopsExact(graph)
    BY <2>1 DEF graph
  <2>3. VisitNode \/ ReturnToFrame => Placed
    BY <1>2, <2>2, RunArguments DEF Placed
  <2> QED
    BY <1>2, <2>2, <2>3, VisitNodePosition, ReturnToFramePosition, SearchPosition DEF Run
<1>3. CASE UNCHANGED vars
  BY <1>3
     DEF vars, Positions, Settled, InElement, FrameInString, InString, Scanning, AtElement,
         Callers, Caller, str, graph
<1> QED
  BY <1>1, <1>2, <1>3 DEF Next, Returned

\* In the words of Matcher.
LEMMA PositionsMean ==
  ASSUME TypeOK, Positions
  PROVE  PositionsInString /\ ElementLengthExact
<1>1. PositionsInString
  <2> SUFFICES ASSUME pc \in {"match", "return"}, NEW s \in StatesInUse
               PROVE  InString(s)
    BY DEF PositionsInString, InString
  <2>1. CASE s = state
    BY <2>1 DEF Positions
  <2>2. CASE s \in UNION { StatesIn(stack[k]) : k \in DOMAIN stack }
    <3>1. PICK k \in DOMAIN stack : s \in StatesIn(stack[k])
      BY <2>2
    <3>2. stack \in Seq(Frame)
      BY DEF TypeOK
    <3>3. FrameInString(stack[k])
      <4>1. CASE Settled(stack)
        BY <3>1, <4>1 DEF Settled
      <4>2. CASE stack # <<>> /\ Settled(Callers) /\ InElement(Caller)
        <5>1. stack[Len(stack)] = Caller
          BY DEF Caller, Last
        <5>2. CASE k = Len(stack)
          BY <4>2, <5>1, <5>2 DEF InElement
        <5>3. CASE k # Len(stack)
          <6>1. k \in DOMAIN Callers /\ Callers[k] = stack[k]
            BY <3>1, <3>2, <5>3 DEF Callers, Front
          <6> QED
            BY <4>2, <6>1 DEF Settled
        <5> QED
          BY <5>2, <5>3
      <4> QED
        BY <4>1, <4>2 DEF Positions
    <3> QED
      BY <3>1, <3>3 DEF FrameInString
  <2> QED
    BY <2>1, <2>2 DEF StatesInUse
<1>2. ElementLengthExact
  <2> SUFFICES ASSUME BackIn("FixedLengthElementSequence"), Caller.scanning, answer
               PROVE  state.pos = AtElement(Caller.node, Caller.str_initial, Caller.count + 1)
    BY DEF ElementLengthExact
  <2>1. Len(stack) \in DOMAIN stack /\ stack[Len(stack)] = Caller
    BY DEF TypeOK, BackIn, Caller, Last
  <2>2. ~Settled(stack)
    BY <2>1 DEF Settled, Scanning, BackIn
  <2> QED
    BY <2>2 DEF Positions, InElement, BackIn
<1> QED
  BY <1>1, <1>2

\* On a graph whose loops are exact no State, in use or kept for later, begins
\* beyond the end of the string, and when an element of a fixed length loop has
\* matched, the State is where the loop will look for it by multiplication when
\* it steps back.
THEOREM PositionsCorrect ==
  Spec => [](LoopsExact(graph) => PositionsInString /\ ElementLengthExact)
<1>1. Init => (LoopsExact(graph) => Positions)
  BY DEF Init, Positions
<1>2. TypeOK /\ (LoopsExact(graph) => Positions) /\ [Next]_vars
        => (LoopsExact(graph) => Positions)'
  BY StepPosition
<1>3. TypeOK /\ (LoopsExact(graph) => Positions)
        => (LoopsExact(graph) => PositionsInString /\ ElementLengthExact)
  BY PositionsMean
<1> QED
  BY <1>1, <1>2, <1>3, TypeCorrect, PTL DEF Spec

=============================================================================
