-------------------------- MODULE GeneratedProofs --------------------------
(***************************************************************************)
(* Theorems about GeneratedMatcher, for every function generated, every    *)
(* string and every number of calls: the types; that the chains of         *)
(* subroutine calls, which are followed without a check, lead where they   *)
(* should; and that what a State holds is there when it is read: counters  *)
(* have been stored, and pointers stay in the string.                      *)
(***************************************************************************)
EXTENDS GeneratedMatcher, GraphLemmas

-----------------------------------------------------------------------------
(***************************************************************************)
(* The nodes that have a function: all a function calls, it was generated  *)
(* with.                                                                   *)
(***************************************************************************)
LeadsOn(n) == ContinuationsOf(n) \cup SubgraphsOf(n) \cup SubroutinesOf(n)

\* Every pointer of a node is one the node leads on to.
LEMMA NodePointers ==
  ASSUME NEW n
  PROVE  /\ n.kind \in NextKinds => n.next \in ContinuationsOf(n)
         /\ n.kind = "Alternatives" => ContinuationsOf(n) = ToSet(n.next)
         /\ n.kind = "AlternativesPossessive" =>
              /\ n.path0_next \in ContinuationsOf(n) /\ n.path1_next \in ContinuationsOf(n)
              /\ n.path0_element \in SubgraphsOf(n)
         /\ n.kind \in LookKinds => n.look_graph \in SubgraphsOf(n)
         /\ n.kind = "ConditionalElement" =>
              /\ n.next_true \in ContinuationsOf(n) /\ n.next_false \in ContinuationsOf(n)
              /\ n.condition_node \in SubgraphsOf(n)
         /\ n.kind = "SequenceCounter" =>
              /\ n.next_iteration \in ContinuationsOf(n)
              /\ n.next_sequence_end \in ContinuationsOf(n)
         /\ n.kind \in LoopKinds => n.sequence_element \in SubgraphsOf(n)
         /\ n.kind = "AtomicGroup" => n.group_element \in SubgraphsOf(n)
         /\ n.kind = "SubroutineEnter" => n.subroutine_node \in SubroutinesOf(n)
<1>1. n.kind \in NextKinds => n.next \in ContinuationsOf(n)
  BY DEF ContinuationsOf, NextKinds
<1>2. n.kind \in {"Alternatives", "AlternativesPossessive", "ConditionalElement", "SequenceCounter"}
        => /\ n.kind = "Alternatives" => ContinuationsOf(n) = ToSet(n.next)
           /\ n.kind = "AlternativesPossessive" => ContinuationsOf(n) = {n.path0_next, n.path1_next}
           /\ n.kind = "ConditionalElement" => ContinuationsOf(n) = {n.next_true, n.next_false}
           /\ n.kind = "SequenceCounter" =>
                ContinuationsOf(n) = {n.next_iteration, n.next_sequence_end}
  BY DEF ContinuationsOf
<1>3. /\ n.kind = "AlternativesPossessive" => SubgraphsOf(n) = {n.path0_element}
      /\ n.kind \in LookKinds => SubgraphsOf(n) = {n.look_graph}
      /\ n.kind = "ConditionalElement" => SubgraphsOf(n) = {n.condition_node}
      /\ n.kind \in LoopKinds => SubgraphsOf(n) = {n.sequence_element}
      /\ n.kind = "AtomicGroup" => SubgraphsOf(n) = {n.group_element}
  BY DEF SubgraphsOf, LookKinds, LoopKinds
<1>4. n.kind = "SubroutineEnter" => SubroutinesOf(n) = {n.subroutine_node}
  BY DEF SubroutinesOf
<1> QED
  BY <1>1, <1>2, <1>3, <1>4

\* In a graph all of them are nodes, or null.
LEMMA LeadsToNodes ==
  ASSUME NEW g, GraphOK(g), NEW p \in DOMAIN g.node
  PROVE  LeadsOn(g.node[p]) \subseteq DOMAIN g.node \cup {nullptr}
<1> DEFINE n   == g.node[p]
           Ptr == DOMAIN g.node \cup {nullptr}
<1>1. NodeOK(n, Ptr, g.used_sequence_counters)
  BY DEF GraphOK
<1> HIDE DEF n, Ptr
<1>2. n.kind = "Alternatives" => ToSet(n.next) \subseteq Ptr
  BY <1>1 DEF NodeOK, ToSet
<1>3. n.kind \in Kinds \ NextKinds =>
        n.kind \in {"Alternatives", "AlternativesPossessive", "ConditionalElement",
                    "SequenceCounter", "SubroutineLeave"}
  BY DEF Kinds
<1>4. ContinuationsOf(n) \subseteq Ptr
  <2>1. CASE n.kind \in NextKinds
    <3>1. ContinuationsOf(n) = {n.next}
      BY <2>1 DEF ContinuationsOf, NextKinds
    <3> QED
      BY <1>1, <2>1, <3>1 DEF NodeOK
  <2>2. CASE n.kind \in Kinds \ NextKinds
    BY <1>1, <1>2, <1>3, <2>2 DEF NodeOK, ContinuationsOf
  <2> QED
    BY <1>1, <2>1, <2>2 DEF NodeOK
<1>5. SubgraphsOf(n) \subseteq Ptr
  BY <1>1 DEF NodeOK, SubgraphsOf, LookKinds, LoopKinds
<1>6. SubroutinesOf(n) \subseteq Ptr
  BY <1>1 DEF NodeOK, SubroutinesOf
<1> QED
  BY <1>4, <1>5, <1>6 DEF LeadsOn, n, Ptr

\* The node of the root function and what nodes with functions lead on to.
LEMMA FunctionsClosed ==
  ASSUME NEW g, GraphOK(g), IsFiniteSet(DOMAIN g.node)
  PROVE  /\ NodeFunctions(g) \subseteq DOMAIN g.node
         /\ g.root \in NodeFunctions(g) \cup {nullptr}
         /\ \A p \in NodeFunctions(g) : LeadsOn(g.node[p]) \subseteq NodeFunctions(g) \cup {nullptr}
<1> DEFINE N       == Cardinality(DOMAIN g.node)
           V       == SUBSET DOMAIN g.node
           first   == {g.root} \ {nullptr}
           more(S) == (UNION { {p} \cup LeadsOn(g.node[p]) : p \in S }) \ {nullptr}
           M       == [S \in V |-> more(S)]
           F[k \in 0..N] == IF k = 0 THEN first ELSE more(F[k - 1])
<1>1. first \in V
  BY DEF GraphOK
<1>2. \A S \in V : more(S) \in V /\ S \subseteq more(S)
  <2> TAKE S \in V
  <2>1. nullptr \notin S
    BY DEF GraphOK
  <2> QED
    BY <2>1, LeadsToNodes
<1>3. NodeFunctions(g) = F[N]
  BY DEF NodeFunctions, ReachedFrom, LeadsOn
<1>4. \A p, S : p \in S => LeadsOn(g.node[p]) \subseteq more(S) \cup {nullptr}
  OBVIOUS
<1> HIDE DEF more, first
<1>5. M \in [V -> V] /\ \A S \in V : M[S] = more(S)
  BY <1>2
<1>6. \A S \in V : S \subseteq M[S]
  BY <1>2, <1>5
<1> HIDE DEF M
<1>7. /\ N \in Nat
      /\ \E f \in [0..N -> V] : Grows(f, N, first, M)
  BY <1>1, <1>5, <1>6, GrowsToAnEnd
<1> HIDE DEF N, V
<1>8. PICK f \in [0..N -> V] : Grows(f, N, first, M)
  BY <1>7
<1>9. /\ f[0] = first /\ first \subseteq f[N] /\ M[f[N]] = f[N]
      /\ \A k \in 1..N : k - 1 \in 0..N /\ f[k] = more(f[k - 1])
  BY <1>5, <1>8 DEF Grows
<1>10. f = [k \in 0..N |-> IF k = 0 THEN first ELSE more(f[k - 1])]
  <2>1. \A k \in 0..N : k = 0 \/ k \in 1..N
    BY <1>7
  <2> QED
    BY <1>9, <2>1
<1>11. F = [k \in 0..N |-> IF k = 0 THEN first ELSE more(F[k - 1])]
  BY <1>10
<1> HIDE DEF F
<1>12. F[N] = f[N] /\ N \in 0..N
  <2> DEFINE G == { k \in 0..N : F[k] = f[k] }
  <2>1. 0 \in G /\ \A k \in 1..N : k - 1 \in G => k \in G
    BY <1>7, <1>9, <1>11
  <2> HIDE DEF G
  <2>2. 0..N \subseteq G
    BY <1>7, <2>1, StepByStep
  <2> QED
    BY <1>7, <2>2 DEF G
<1>13. f[N] \in V /\ more(f[N]) = f[N]
  BY <1>5, <1>8, <1>9, <1>12
<1> QED
  BY <1>3, <1>4, <1>9, <1>12, <1>13 DEF first, V

\* Where the body of a subroutine begins, and what comes after its nodes.
LEMMA BodyClosed ==
  ASSUME NEW g, GraphOK(g), IsFiniteSet(DOMAIN g.node), NEW entry \in DOMAIN g.node
  PROVE  /\ BodyFrom(g, entry) \subseteq DOMAIN g.node
         /\ entry \in BodyFrom(g, entry)
         /\ \A p \in BodyFrom(g, entry) :
              ContinuationsOf(g.node[p]) \subseteq BodyFrom(g, entry) \cup {nullptr}
<1> DEFINE N       == Cardinality(DOMAIN g.node)
           V       == SUBSET DOMAIN g.node
           first   == {entry} \ {nullptr}
           more(S) == (UNION { {p} \cup ContinuationsOf(g.node[p]) : p \in S }) \ {nullptr}
           M       == [S \in V |-> more(S)]
           F[k \in 0..N] == IF k = 0 THEN first ELSE more(F[k - 1])
<1>1. first \in V
  BY DEF GraphOK
<1>2. \A S \in V : more(S) \in V /\ S \subseteq more(S)
  <2> TAKE S \in V
  <2>1. nullptr \notin S
    BY DEF GraphOK
  <2> QED
    BY <2>1, LeadsToNodes DEF LeadsOn
<1>3. BodyFrom(g, entry) = F[N]
  BY DEF BodyFrom, ReachedFrom
<1>4. \A p, S : p \in S => ContinuationsOf(g.node[p]) \subseteq more(S) \cup {nullptr}
  OBVIOUS
<1> HIDE DEF more, first
<1>5. M \in [V -> V] /\ \A S \in V : M[S] = more(S)
  BY <1>2
<1>6. \A S \in V : S \subseteq M[S]
  BY <1>2, <1>5
<1> HIDE DEF M
<1>7. /\ N \in Nat
      /\ \E f \in [0..N -> V] : Grows(f, N, first, M)
  BY <1>1, <1>5, <1>6, GrowsToAnEnd
<1> HIDE DEF N, V
<1>8. PICK f \in [0..N -> V] : Grows(f, N, first, M)
  BY <1>7
<1>9. /\ f[0] = first /\ first \subseteq f[N] /\ M[f[N]] = f[N]
      /\ \A k \in 1..N : k - 1 \in 0..N /\ f[k] = more(f[k - 1])
  BY <1>5, <1>8 DEF Grows
<1>10. f = [k \in 0..N |-> IF k = 0 THEN first ELSE more(f[k - 1])]
  <2>1. \A k \in 0..N : k = 0 \/ k \in 1..N
    BY <1>7
  <2> QED
    BY <1>9, <2>1
<1>11. F = [k \in 0..N |-> IF k = 0 THEN first ELSE more(F[k - 1])]
  BY <1>10
<1> HIDE DEF F
<1>12. F[N] = f[N] /\ N \in 0..N
  <2> DEFINE G == { k \in 0..N : F[k] = f[k] }
  <2>1. 0 \in G /\ \A k \in 1..N : k - 1 \in G => k \in G
    BY <1>7, <1>9, <1>11
  <2> HIDE DEF G
  <2>2. 0..N \subseteq G
    BY <1>7, <2>1, StepByStep
  <2> QED
    BY <1>7, <2>2 DEF G
<1>13. f[N] \in V /\ more(f[N]) = f[N]
  BY <1>5, <1>8, <1>9, <1>12
<1> QED
  BY <1>3, <1>4, <1>9, <1>12, <1>13 DEF first, V, GraphOK

-----------------------------------------------------------------------------
(***************************************************************************)
(* Types.                                                                  *)
(***************************************************************************)
\* What can be called: functions that were generated, and the end of a graph.
Callable == NodeFunctions(graph) \cup {nullptr}

\* The frames of functions that were generated.
Frames == { f \in FrameType : FrameOK(f) /\ f.node \in NodeFunctions(graph) }

CounterValues == [Counters -> Nat \cup {Uninitialized}]

Typed ==
  /\ CallOK(args)
  /\ current_start_offset \in 0..SizeMax
  /\ pc \in {"idle", "search_loop", "call", "ret", "end"}
  /\ function \in Callable
  /\ pc = "idle" => function = nullptr /\ "sequence_counters" \in DOMAIN state
  /\ pc = "search_loop" => state.sequence_counters \in CounterValues
  /\ pc \in {"call", "ret"} => state \in StateType
  /\ pc \notin {"call", "ret"} => stack = <<>>
  /\ res \in BOOLEAN
  /\ stack \in Seq(Frames)

Running == Typed /\ pc \in {"call", "ret"}

LEMMA WrapType ==
  ASSUME NEW n \in Int
  PROVE  Wrap(n) \in 0..SizeMax
BY SizeMaxAssumption DEF Wrap

\* What was generated for the call.
LEMMA CodeFacts ==
  ASSUME CallOK(args)
  PROVE  /\ GraphOK(graph) /\ IsFiniteSet(DOMAIN graph.node)
         /\ nullptr \notin DOMAIN graph.node
         /\ NodeFunctions(graph) \subseteq DOMAIN graph.node
         /\ graph.root \in Callable
         /\ \A p \in NodeFunctions(graph) :
              /\ LeadsOn(graph.node[p]) \subseteq Callable
              /\ NodeOK(graph.node[p], DOMAIN graph.node \cup {nullptr}, Counters)
              /\ FieldsExist(args.code, graph.node[p])
              /\ graph.node[p].kind = "Alternatives" => graph.node[p].next # <<>>
<1>1. GraphOK(graph) /\ IsFiniteSet(DOMAIN graph.node) /\ Generated(args.code) = "function"
  BY DEF CallOK, graph
<1>2. /\ NodeFunctions(graph) \subseteq DOMAIN graph.node
      /\ graph.root \in Callable
      /\ \A p \in NodeFunctions(graph) : LeadsOn(graph.node[p]) \subseteq Callable
  BY <1>1, FunctionsClosed DEF Callable
<1>3. ASSUME NEW p \in NodeFunctions(graph)
      PROVE  FieldsExist(args.code, graph.node[p])
  <2> DEFINE bodies == { args.code.graph.node[q] : q \in NodeFunctions(args.code.graph) }
  <2>1. graph.node[p] \in bodies
    BY DEF graph
  <2>2. (\E n \in bodies : ~FieldsExist(args.code, n)) => Generated(args.code) = "threw"
    BY DEF Generated
  <2> HIDE DEF bodies
  <2> QED
    BY <1>1, <2>1, <2>2
<1>4. \A p \in DOMAIN graph.node :
        /\ NodeOK(graph.node[p], DOMAIN graph.node \cup {nullptr}, Counters)
        /\ graph.node[p].kind = "Alternatives" => graph.node[p].next # <<>>
  <2>1. \A n \in Range(graph.node) : n.kind = "Alternatives" => n.next # <<>>
    BY DEF CallOK, graph
  <2> QED
    BY <1>1, <2>1 DEF GraphOK, Counters, Range
<1> QED
  BY <1>1, <1>2, <1>3, <1>4 DEF GraphOK

\* The function that runs.
LEMMA HereFacts ==
  ASSUME Typed, pc = "call", function # nullptr
  PROVE  /\ function \in NodeFunctions(graph) /\ function \in DOMAIN graph.node
         /\ Here = graph.node[function]
         /\ LeadsOn(Here) \subseteq Callable
         /\ NodeOK(Here, DOMAIN graph.node \cup {nullptr}, Counters)
         /\ FieldsExist(args.code, Here)
         /\ Here.kind = "Alternatives" => Here.next # <<>>
BY CodeFacts DEF Typed, Callable, Here

\* A frame.
LEMMA FrameFacts ==
  ASSUME Typed, NEW f \in Frames
  PROVE  /\ f.node \in NodeFunctions(graph) /\ f.node \in DOMAIN graph.node
         /\ graph.node[f.node].kind = f.kind
         /\ LeadsOn(graph.node[f.node]) \subseteq Callable
         /\ NodeOK(graph.node[f.node], DOMAIN graph.node \cup {nullptr}, Counters)
         /\ f.state_backup \in StateType
         /\ f.kind = "Alternatives" =>
              /\ f.tried \in Nat /\ f.tried \in DOMAIN graph.node[f.node].next
              /\ ~IsLast(graph.node[f.node], f.tried)
         /\ f.kind = "PossessiveSequence" => f.counter \in Nat
         /\ f.kind = "SingleRollbackPointSequence" =>
              f.in_tail \in BOOLEAN /\ f.next_states \in SUBSET StateType
         /\ f.kind = "FixedLengthElementSequence" =>
              f.in_tail \in BOOLEAN /\ f.str_begin \in 0..SizeMax /\ f.counter \in Nat
<1>1. f \in FrameType /\ FrameOK(f) /\ f.node \in NodeFunctions(graph)
  BY DEF Frames
<1>2. /\ f.state_backup \in StateType
      /\ f.kind = "Alternatives" => f.tried \in Nat
      /\ f.kind = "PossessiveSequence" => f.counter \in Nat
      /\ f.kind = "SingleRollbackPointSequence" =>
           f.in_tail \in BOOLEAN /\ f.next_states \in SUBSET StateType
      /\ f.kind = "FixedLengthElementSequence" =>
           f.in_tail \in BOOLEAN /\ f.str_begin \in 0..SizeMax /\ f.counter \in Nat
  BY <1>1 DEF FrameType, PlainKinds, LookKinds
<1>3. CallOK(args)
  BY DEF Typed
<1> QED
  BY <1>1, <1>2, <1>3, CodeFacts DEF FrameOK
\* New frames.
LEMMA NewFrames ==
  ASSUME Typed, NEW p \in NodeFunctions(graph), NEW s \in StateType
  PROVE  LET n == graph.node[p] IN
         /\ n.kind \in PlainKinds => Frame(p, s) \in Frames
         /\ n.kind = "Alternatives" =>
              \A k \in DOMAIN n.next : k \in Nat /\ ~IsLast(n, k) => ChoiceFrame(p, s, k) \in Frames
         /\ n.kind = "PossessiveSequence" => \A counter \in Nat : LoopFrame(p, s, counter) \in Frames
         /\ n.kind = "SingleRollbackPointSequence" =>
              \A in_tail \in BOOLEAN : \A next_states \in SUBSET StateType :
                RollbackFrame(p, s, in_tail, next_states) \in Frames
         /\ n.kind = "FixedLengthElementSequence" =>
              \A in_tail \in BOOLEAN : \A str_begin \in 0..SizeMax : \A counter \in Nat :
                ElementFrame(p, s, in_tail, str_begin, counter) \in Frames
<1> DEFINE n == graph.node[p]
           Node == DOMAIN graph.node
<1>1. p \in Node
  BY CodeFacts DEF Typed
<1> HIDE DEF Node
<1>2. ASSUME n.kind \in PlainKinds
      PROVE  Frame(p, s) \in Frames
  <2>1. Frame(p, s) = [kind |-> n.kind, node |-> p, state_backup |-> s]
    BY DEF Frame
  <2>2. Frame(p, s) \in FrameType
    BY <1>1, <1>2, <2>1 DEF FrameType, Node
  <2>3. n.kind # "Alternatives"
    BY <1>2 DEF PlainKinds, LookKinds
  <2>4. FrameOK(Frame(p, s)) /\ Frame(p, s).node = p
    BY <2>1, <2>3 DEF FrameOK
  <2> QED
    BY <2>2, <2>4 DEF Frames
<1>3. ASSUME n.kind = "Alternatives", NEW k \in DOMAIN n.next, k \in Nat, ~IsLast(n, k)
      PROVE  ChoiceFrame(p, s, k) \in Frames
  <2>1. ChoiceFrame(p, s, k) \in FrameType
    BY <1>1, <1>3 DEF ChoiceFrame, FrameType, Node
  <2>2. FrameOK(ChoiceFrame(p, s, k)) /\ ChoiceFrame(p, s, k).node = p
    BY <1>3 DEF ChoiceFrame, FrameOK
  <2> QED
    BY <2>1, <2>2 DEF Frames
<1>4. ASSUME n.kind = "PossessiveSequence", NEW counter \in Nat
      PROVE  LoopFrame(p, s, counter) \in Frames
  <2>1. LoopFrame(p, s, counter) \in FrameType
    BY <1>1, <1>4 DEF LoopFrame, FrameType, Node
  <2>2. FrameOK(LoopFrame(p, s, counter)) /\ LoopFrame(p, s, counter).node = p
    BY <1>4 DEF LoopFrame, FrameOK
  <2> QED
    BY <2>1, <2>2 DEF Frames
<1>5. ASSUME n.kind = "SingleRollbackPointSequence",
             NEW in_tail \in BOOLEAN, NEW next_states \in SUBSET StateType
      PROVE  RollbackFrame(p, s, in_tail, next_states) \in Frames
  <2>1. RollbackFrame(p, s, in_tail, next_states) \in FrameType
    BY <1>1, <1>5 DEF RollbackFrame, FrameType, Node
  <2>2. /\ FrameOK(RollbackFrame(p, s, in_tail, next_states))
        /\ RollbackFrame(p, s, in_tail, next_states).node = p
    BY <1>5 DEF RollbackFrame, FrameOK
  <2> QED
    BY <2>1, <2>2 DEF Frames
<1>6. ASSUME n.kind = "FixedLengthElementSequence",
             NEW in_tail \in BOOLEAN, NEW str_begin \in 0..SizeMax, NEW counter \in Nat
      PROVE  ElementFrame(p, s, in_tail, str_begin, counter) \in Frames
  <2>1. ElementFrame(p, s, in_tail, str_begin, counter) \in FrameType
    BY <1>1, <1>6 DEF ElementFrame, FrameType, Node
  <2>2. /\ FrameOK(ElementFrame(p, s, in_tail, str_begin, counter))
        /\ ElementFrame(p, s, in_tail, str_begin, counter).node = p
    BY <1>6 DEF ElementFrame, FrameOK
  <2> QED
    BY <2>1, <2>2 DEF Frames
<1> QED
  BY <1>2, <1>3, <1>4, <1>5, <1>6

\* A frame is pushed.
LEMMA PushedFrames ==
  ASSUME Running, NEW f \in Frames, NEW stk \in Seq(Frames)
  PROVE  Append(stk, f) \in Seq(Frames)
OBVIOUS

\* The function a callee returns to.
LEMMA CallerFacts ==
  ASSUME Typed, stack # <<>>
  PROVE  Caller \in Frames /\ Callers \in Seq(Frames)
BY LastAndFront DEF Typed, Caller, Callers

\* While a call runs, nothing that types are made of changes.
LEMMA SameTypes ==
  ASSUME args' = args
  PROVE  /\ Callable' = Callable /\ Frames' = Frames
         /\ StateType' = StateType /\ CounterValues' = CounterValues
BY DEF Callable, Frames, FrameType, FrameOK, StateType, CounterValues, Counters, Fields, graph

LEMMA CallTypes ==
  ASSUME Typed, NEW p \in Callable, NEW s \in StateType, NEW stk \in Seq(Frames), Call(p, s, stk)
  PROVE  Typed'
<1>1. /\ args' = args /\ pc' = "call" /\ function' = p /\ state' = s /\ stack' = stk
      /\ UNCHANGED <<current_start_offset, res>>
  BY DEF Call
<1>2. Callable' = Callable /\ Frames' = Frames /\ StateType' = StateType
  BY <1>1, SameTypes
<1> QED
  BY <1>1, <1>2 DEF Typed

LEMMA RetTypes ==
  ASSUME Running, NEW value \in BOOLEAN, NEW s \in StateType, NEW stk \in Seq(Frames), Ret(value, s, stk)
  PROVE  Typed'
<1>1. /\ args' = args /\ pc' = "ret" /\ res' = value /\ state' = s /\ stack' = stk
      /\ UNCHANGED <<current_start_offset, function>>
  BY DEF Ret
<1>2. Callable' = Callable /\ Frames' = Frames /\ StateType' = StateType
  BY <1>1, SameTypes
<1> QED
  BY <1>1, <1>2 DEF Typed, Running

LEMMA CallIfTypes ==
  ASSUME Running, NEW cond, NEW p \in Callable, NEW s, cond => s \in StateType, CallIf(cond, p, s)
  PROVE  Typed'
<1>1. CASE cond
  <2>1. Call(p, s, stack)
    BY <1>1 DEF CallIf
  <2> QED
    BY <1>1, <2>1, CallTypes DEF Running, Typed
<1>2. CASE ~cond
  <2>1. Ret(FALSE, state, stack)
    BY <1>2 DEF CallIf
  <2> QED
    BY <2>1, RetTypes DEF Running, Typed
<1> QED
  BY <1>1, <1>2

\* The parts of a State, and what is stored in them.
LEMMA StateParts ==
  ASSUME NEW s \in StateType
  PROVE  /\ s.str_begin \in 0..SizeMax /\ s.str_begin \in Nat
         /\ s.sequence_counters \in CounterValues
         /\ s.groups \in [Fields -> [begin : Nat, end : Nat]]
         /\ s.return_chain_head \in Nat /\ s.save_chain_head \in Nat
         /\ s.stored \subseteq Counters
BY SizeMaxAssumption DEF StateType, CounterValues

LEMMA MovedType ==
  ASSUME NEW s \in StateType, NEW pos \in 0..SizeMax
  PROVE  Moved(s, pos) \in StateType
BY DEF StateType, Moved

LEMMA GroupsType ==
  ASSUME NEW s \in StateType, NEW i, NEW pos \in Nat
  PROVE  /\ [s EXCEPT !.groups[i] = [begin |-> pos, end |-> pos]] \in StateType
         /\ [s EXCEPT !.groups[i].end = pos] \in StateType
<1> DEFINE G == [begin : Nat, end : Nat]
<1>1. s.groups \in [Fields -> G]
  BY StateParts
<1>2. [begin |-> pos, end |-> pos] \in G
  OBVIOUS
<1>3. i \in Fields => [s.groups[i] EXCEPT !.end = pos] \in G
  BY <1>1
<1> HIDE DEF G
<1>4. [s.groups EXCEPT ![i] = [begin |-> pos, end |-> pos]] \in [Fields -> G]
  BY <1>1, <1>2
<1>5. [s.groups EXCEPT ![i] = [s.groups[i] EXCEPT !.end = pos]] \in [Fields -> G]
  BY <1>1, <1>3
<1>6. \A h \in [Fields -> G] : [s EXCEPT !.groups = h] \in StateType
  BY DEF StateType, G
<1>7. /\ [s EXCEPT !.groups = [s.groups EXCEPT ![i] = [begin |-> pos, end |-> pos]]] \in StateType
      /\ [s EXCEPT !.groups = [s.groups EXCEPT ![i] = [s.groups[i] EXCEPT !.end = pos]]] \in StateType
  BY <1>4, <1>5, <1>6
<1> QED
  BY <1>7

LEMMA CountersType ==
  ASSUME NEW s \in StateType, NEW i, NEW n \in Nat
  PROVE  /\ [s EXCEPT !.sequence_counters[i] = n] \in StateType
         /\ i \in Counters =>
              [s EXCEPT !.sequence_counters[i] = n, !.stored = @ \cup {i}] \in StateType
<1>1. s.sequence_counters \in CounterValues
  BY StateParts
<1>2. [s.sequence_counters EXCEPT ![i] = n] \in CounterValues
  BY <1>1 DEF CounterValues
<1>3. \A h \in CounterValues :
        /\ [s EXCEPT !.sequence_counters = h] \in StateType
        /\ i \in Counters =>
             [s EXCEPT !.sequence_counters = h, !.stored = s.stored \cup {i}] \in StateType
  BY DEF StateType, CounterValues
<1> QED
  BY <1>2, <1>3

LEMMA HeadsType ==
  ASSUME NEW s \in StateType, NEW head \in Nat
  PROVE  /\ \A S \in SUBSET Counters :
              [s EXCEPT !.return_chain_head = head, !.stored = S] \in StateType
         /\ [s EXCEPT !.save_chain_head = head] \in StateType
BY DEF StateType

LEMMA RestoredType ==
  ASSUME NEW s \in StateType, NEW saved \in StateType, NEW S, NEW T
  PROVE  [s EXCEPT !.sequence_counters = Restored(@, saved.sequence_counters, S),
                   !.groups = Restored(@, saved.groups, T),
                   !.save_chain_head = saved.save_chain_head] \in StateType
<1> DEFINE G == [begin : Nat, end : Nat]
<1>1. \A X, Y : \A f \in [X -> Y], g \in [X -> Y] : \A U : Restored(f, g, U) \in [X -> Y]
  BY DEF Restored
<1>2. /\ s.groups \in [Fields -> G] /\ saved.groups \in [Fields -> G]
      /\ s.sequence_counters \in [Counters -> Nat \cup {Uninitialized}]
      /\ saved.sequence_counters \in [Counters -> Nat \cup {Uninitialized}]
      /\ saved.save_chain_head \in Nat
  BY StateParts DEF CounterValues
<1> HIDE DEF G
<1>3. /\ Restored(s.groups, saved.groups, T) \in [Fields -> G]
      /\ Restored(s.sequence_counters, saved.sequence_counters, S)
           \in [Counters -> Nat \cup {Uninitialized}]
  BY <1>1, <1>2
<1>4. \A c \in [Counters -> Nat \cup {Uninitialized}] : \A h \in [Fields -> G] : \A v \in Nat :
        [s EXCEPT !.sequence_counters = c, !.groups = h, !.save_chain_head = v] \in StateType
  BY DEF StateType, G
<1> QED
  BY <1>2, <1>3, <1>4

\* The string.
LEMMA StringFacts ==
  ASSUME CallOK(args)
  PROVE  /\ str \in Seq(Byte) /\ Len(str) \in 0..SizeMax /\ Len(str) \in Nat
         /\ \A b \in Nat : b <= Len(str) => b \in 0..SizeMax
BY SizeMaxAssumption DEF CallOK, str

-----------------------------------------------------------------------------
(***************************************************************************)
(* Every step of a function keeps the types.                               *)
(***************************************************************************)
LEMMA AtFacts ==
  ASSUME Running, NEW kind, At(kind)
  PROVE  /\ Typed /\ pc = "call" /\ function # nullptr /\ Here.kind = kind
         /\ function \in NodeFunctions(graph)
         /\ Here = graph.node[function] /\ LeadsOn(Here) \subseteq Callable
         /\ kind \in NextKinds => Here.next \in Callable
         /\ NodeOK(Here, DOMAIN graph.node \cup {nullptr}, Counters)
         /\ state \in StateType /\ stack \in Seq(Frames)
<1>1. Typed /\ pc = "call" /\ function # nullptr /\ Here.kind = kind
  BY DEF Running, At
<1>2. kind \in NextKinds => Here.next \in LeadsOn(Here)
  BY <1>1, NodePointers DEF LeadsOn
<1> QED
  BY <1>1, <1>2, HereFacts DEF Typed

LEMMA BackInFacts ==
  ASSUME Running, NEW kind, BackIn(kind)
  PROVE  /\ Typed /\ pc = "ret" /\ stack # <<>> /\ Caller.kind = kind
         /\ Caller \in Frames /\ Callers \in Seq(Frames)
         /\ Caller.node \in NodeFunctions(graph)
         /\ CallerNode = graph.node[Caller.node] /\ CallerNode.kind = kind
         /\ LeadsOn(CallerNode) \subseteq Callable
         /\ kind \in NextKinds => CallerNode.next \in Callable
         /\ NodeOK(CallerNode, DOMAIN graph.node \cup {nullptr}, Counters)
         /\ Caller.state_backup \in StateType
         /\ state \in StateType /\ res \in BOOLEAN
<1>1. Typed /\ pc = "ret" /\ stack # <<>> /\ Caller.kind = kind
  BY DEF Running, BackIn
<1>2. Caller \in Frames /\ Callers \in Seq(Frames)
  BY <1>1, CallerFacts
<1>3. CallerNode = graph.node[Caller.node] /\ CallerNode.kind = kind
  BY <1>1, <1>2, FrameFacts DEF CallerNode
<1>4. kind \in NextKinds => CallerNode.next \in LeadsOn(CallerNode)
  BY <1>3, NodePointers DEF LeadsOn
<1> QED
  BY <1>1, <1>2, <1>3, <1>4, FrameFacts DEF Typed

LEMMA ReturnTrueTypes ==
  ASSUME Running, ReturnTrue
  PROVE  Typed'
BY RetTypes DEF Running, Typed, ReturnTrue

LEMMA MatchTextTypes ==
  ASSUME Running, MatchText
  PROVE  Typed'
<1> DEFINE text == BytesOf(Here)
           pos == state.str_begin + Len(text)
           cond == IsPrefixAt(text, str, state.str_begin)
<1>1. CallIf(cond, Here.next, StateAt(pos))
  BY DEF MatchText
<1>2. /\ Typed /\ Here.next \in Callable /\ state \in StateType
      /\ NodeOK(Here, DOMAIN graph.node \cup {nullptr}, Counters)
      /\ Here.kind \in {"String", "SpecificSymbol"}
  BY AtFacts DEF MatchText, NextKinds
<1>3. Len(text) \in Nat
  <2>1. CASE Here.kind = "String"
    <3>1. text = Here.str /\ Here.str \in Seq(Byte)
      BY <1>2, <2>1 DEF BytesOf, NodeOK
    <3> QED
      BY <3>1
  <2>2. CASE Here.kind = "SpecificSymbol"
    <3>1. text = Utf8(Here.code) /\ Here.code \in Nat
      BY <1>2, <2>2 DEF BytesOf, NodeOK
    <3> QED
      BY <3>1, Utf8Length
  <2> QED
    BY <1>2, <2>1, <2>2
<1>4. cond => pos \in Nat /\ pos <= Len(str)
  BY <1>2, <1>3, StateParts DEF IsPrefixAt
<1>5. cond => pos \in 0..SizeMax
  BY <1>2, <1>4, StringFacts DEF Typed
<1> HIDE DEF cond, pos
<1>6. cond => StateAt(pos) \in StateType
  BY <1>2, <1>5, MovedType DEF StateAt
<1> QED
  BY <1>1, <1>2, <1>6, CallIfTypes

\* A class reads one character of one to four bytes, or a byte.
LEMMA DecodedPos ==
  ASSUME CallOK(args), NEW pos \in Nat
  PROVE  LET c == DecodeCodePoint(pos) IN c.ok => c.pos \in 0..SizeMax
<1> DEFINE end == pos + DecodedLength(str[pos + 1])
<1>1. DecodedLength(str[pos + 1]) \in 1..4
  <2> DEFINE d == DecodedLength(str[pos + 1])
  <2>1. d = 1 \/ d = 2 \/ d = 3 \/ d = 4
    BY SMT DEF DecodedLength
  <2> QED
    BY <2>1
<1>2. end \in Nat
  BY <1>1
<1>3. end <= Len(str) => end \in 0..SizeMax
  BY <1>2, StringFacts
<1>4. CASE pos >= Len(str) \/ end > Len(str)
  <2>1. DecodeCodePoint(pos) = NoCode
    BY <1>4 DEF DecodeCodePoint
  <2> QED
    BY <2>1 DEF NoCode
<1>5. CASE ~(pos >= Len(str) \/ end > Len(str))
  <2>1. DecodeCodePoint(pos) = [ok |-> TRUE, code |-> CodeOf(SubSeq(str, pos + 1, end)), pos |-> end]
    BY <1>5 DEF DecodeCodePoint
  <2>2. end \in 0..SizeMax
    BY <1>2, <1>3, <1>5, StringFacts
  <2> QED
    BY <2>1, <2>2
<1> QED
  BY <1>4, <1>5

LEMMA MatchClassTypes ==
  ASSUME Running, NEW n, n.next \in Callable, MatchClass(n)
  PROVE  Typed'
<1>1. Typed /\ state \in StateType /\ CallOK(args)
  BY DEF Running, Typed
<1>2. state.str_begin \in Nat
  BY <1>1, StateParts
<1>3. CASE n.inverse_flag \/ HasMultiByteCodePoints(n)
  <2> DEFINE c == DecodeCodePoint(state.str_begin)
             cond == c.ok /\ InClass(n, c.code) # n.inverse_flag
  <2>1. CallIf(cond, n.next, StateAt(c.pos))
    BY <1>3 DEF MatchClass
  <2>2. c.ok => c.pos \in 0..SizeMax
    BY <1>1, <1>2, DecodedPos
  <2>3. cond => c.pos \in 0..SizeMax
    BY <2>2
  <2> HIDE DEF cond, c
  <2>4. cond => StateAt(c.pos) \in StateType
    BY <1>1, <2>3, MovedType DEF StateAt
  <2> QED
    BY <2>1, <2>4, CallIfTypes
<1>4. CASE ~(n.inverse_flag \/ HasMultiByteCodePoints(n))
  <2> DEFINE cond == /\ state.str_begin < Len(str)
                     /\ InClass(InBytes(n), str[state.str_begin + 1])
             pos == state.str_begin + 1
  <2>1. CallIf(cond, n.next, StateAt(pos))
    BY <1>4 DEF MatchClass
  <2>2. cond => pos \in Nat /\ pos <= Len(str)
    BY <1>1, <1>2, StringFacts
  <2>3. cond => pos \in 0..SizeMax
    BY <1>1, <2>2, StringFacts
  <2> HIDE DEF cond, pos
  <2>4. cond => StateAt(pos) \in StateType
    BY <1>1, <2>3, MovedType DEF StateAt
  <2> QED
    BY <2>1, <2>4, CallIfTypes
<1> QED
  BY <1>3, <1>4

LEMMA ReadTypes ==
  ASSUME Running, MatchOneOf \/ MatchAnySymbol \/ MatchStringStartAssertion \/ MatchStringEndAssertion
  PROVE  Typed'
<1>1. CASE MatchOneOf
  BY <1>1, AtFacts, MatchClassTypes DEF MatchOneOf, NextKinds
<1>2. CASE MatchAnySymbol
  <2> DEFINE n == [variants |-> {}, ranges |-> <<>>, inverse_flag |-> TRUE, next |-> Here.next]
  <2>1. MatchClass(n) /\ n.next = Here.next
    BY <1>2 DEF MatchAnySymbol
  <2>2. Here.next \in Callable
    BY <1>2, AtFacts DEF MatchAnySymbol, NextKinds
  <2> HIDE DEF n
  <2> QED
    BY <2>1, <2>2, MatchClassTypes
<1>3. CASE MatchStringStartAssertion
  BY <1>3, AtFacts, CallIfTypes DEF MatchStringStartAssertion, NextKinds
<1>4. CASE MatchStringEndAssertion
  BY <1>4, AtFacts, CallIfTypes DEF MatchStringEndAssertion, NextKinds
<1> QED
  BY <1>1, <1>2, <1>3, <1>4

LEMMA GroupTypes ==
  ASSUME Running, MatchGroupStart \/ MatchGroupEnd
  PROVE  Typed'
<1>1. /\ Typed /\ state \in StateType /\ stack \in Seq(Frames) /\ Here.next \in Callable
      /\ state.str_begin \in Nat
  BY AtFacts, StateParts DEF MatchGroupStart, MatchGroupEnd, NextKinds
<1>2. /\ [state EXCEPT !.groups[Here.index] =
            [begin |-> state.str_begin, end |-> state.str_begin]] \in StateType
      /\ [state EXCEPT !.groups[Here.index].end = state.str_begin] \in StateType
  BY <1>1, GroupsType
<1> QED
  BY <1>1, <1>2, CallTypes DEF MatchGroupStart, MatchGroupEnd

LEMMA BackReferenceTypes ==
  ASSUME Running, MatchBackReference
  PROVE  Typed'
<1>1. /\ Typed /\ state \in StateType /\ Here.next \in Callable
      /\ Here.kind = "BackReference" /\ FieldsExist(args.code, Here)
  BY AtFacts, HereFacts DEF MatchBackReference, NextKinds
<1>2. Here.index \in Fields
  BY <1>1 DEF FieldsExist, GroupKinds, Fields
<1> DEFINE group == state.groups[Here.index]
           group_size == Wrap(group.end - group.begin)
           pos == Wrap(state.str_begin + group_size)
<1>3. group.begin \in Nat /\ group.end \in Nat /\ state.str_begin \in Nat
  BY <1>1, <1>2, StateParts
<1>4. group.end - group.begin \in Int
  BY <1>3
<1>5. group_size \in 0..SizeMax
  BY <1>4, WrapType
<1>6. state.str_begin + group_size \in Int
  BY <1>3, <1>5
<1>7. pos \in 0..SizeMax
  BY <1>6, WrapType
<1>8. \E cond : CallIf(cond, Here.next, StateAt(pos))
  BY DEF MatchBackReference
<1> HIDE DEF pos
<1>9. StateAt(pos) \in StateType
  BY <1>1, <1>7, MovedType DEF StateAt
<1> QED
  BY <1>1, <1>8, <1>9, CallIfTypes

\* A choice goes on with one of its alternatives, which one is left for.
LEMMA TryAlternativeTypes ==
  ASSUME Running, NEW p \in NodeFunctions(graph), graph.node[p].kind = "Alternatives",
         NEW k \in DOMAIN graph.node[p].next, NEW s \in StateType, NEW stk \in Seq(Frames),
         TryAlternative(p, k, s, stk)
  PROVE  Typed'
<1> DEFINE n == graph.node[p]
<1>1. Typed /\ LeadsOn(n) \subseteq Callable /\ NodeOK(n, DOMAIN graph.node \cup {nullptr}, Counters)
  BY CodeFacts DEF Running, Typed
<1>2. n.next \in Seq(DOMAIN graph.node \cup {nullptr}) /\ k \in Nat
  BY <1>1 DEF NodeOK
<1>3. n.next[k] \in Callable
  <2>1. n.next[k] \in ToSet(n.next)
    BY DEF ToSet
  <2> QED
    BY <1>1, <2>1, NodePointers DEF LeadsOn
<1>4. ~IsLast(n, k) => ChoiceFrame(p, s, k) \in Frames
  BY <1>1, <1>2, NewFrames
<1> DEFINE below == IF IsLast(n, k) THEN stk ELSE Append(stk, ChoiceFrame(p, s, k))
<1>5. Call(n.next[k], s, below)
  BY DEF TryAlternative
<1>6. below \in Seq(Frames)
  BY <1>4, PushedFrames
<1> HIDE DEF below, n
<1> QED
  BY <1>1, <1>3, <1>5, <1>6, CallTypes

LEMMA AlternativesTypes ==
  ASSUME Running, MatchAlternatives \/ BackInAlternatives
  PROVE  Typed'
<1>1. CASE MatchAlternatives
  <2>1. /\ Typed /\ function \in NodeFunctions(graph) /\ state \in StateType /\ stack \in Seq(Frames)
        /\ Here = graph.node[function] /\ Here.kind = "Alternatives" /\ Here.next # <<>>
        /\ NodeOK(Here, DOMAIN graph.node \cup {nullptr}, Counters)
    BY <1>1, AtFacts, HereFacts DEF MatchAlternatives
  <2>2. 1 \in DOMAIN Here.next
    <3>1. Here.next \in Seq(DOMAIN graph.node \cup {nullptr})
      BY <2>1 DEF NodeOK
    <3> QED
      BY <2>1, <3>1
  <2>3. TryAlternative(function, 1, state, stack)
    BY <1>1 DEF MatchAlternatives
  <2> QED
    BY <2>1, <2>2, <2>3, TryAlternativeTypes
<1>2. CASE BackInAlternatives
  <2>1. /\ Typed /\ Caller \in Frames /\ Callers \in Seq(Frames) /\ state \in StateType
        /\ Caller.node \in NodeFunctions(graph) /\ Caller.state_backup \in StateType
        /\ CallerNode = graph.node[Caller.node] /\ CallerNode.kind = "Alternatives"
        /\ NodeOK(CallerNode, DOMAIN graph.node \cup {nullptr}, Counters)
        /\ Caller.kind = "Alternatives"
    BY <1>2, BackInFacts DEF BackInAlternatives
  <2>2. CASE res
    BY <1>2, <2>1, <2>2, RetTypes DEF BackInAlternatives
  <2>3. CASE ~res
    <3>1. /\ Caller.tried \in Nat /\ Caller.tried \in DOMAIN CallerNode.next
          /\ ~IsLast(CallerNode, Caller.tried)
      BY <2>1, FrameFacts
    <3>2. CallerNode.next \in Seq(DOMAIN graph.node \cup {nullptr})
      BY <2>1 DEF NodeOK
    <3>3. Caller.tried # Len(CallerNode.next)
      BY <3>1 DEF IsLast, Last
    <3>4. Caller.tried + 1 \in DOMAIN CallerNode.next
      BY <3>1, <3>2, <3>3
    <3>5. TryAlternative(Caller.node, Caller.tried + 1, Caller.state_backup, Callers)
      BY <1>2, <2>3 DEF BackInAlternatives
    <3> QED
      BY <2>1, <3>4, <3>5, TryAlternativeTypes
  <2> QED
    BY <2>2, <2>3
<1> QED
  BY <1>1, <1>2

\* A function calls for a graph of its own, and keeps a copy of the State.
LEMMA CallAboveTypes ==
  ASSUME Running, NEW kind \in PlainKinds, At(kind), NEW p, p \in LeadsOn(Here),
         NEW s \in StateType, NEW backup \in StateType, Call(p, s, Pushed(Frame(function, backup)))
  PROVE  Typed'
<1>1. /\ Typed /\ function \in NodeFunctions(graph) /\ stack \in Seq(Frames)
      /\ Here = graph.node[function] /\ Here.kind = kind /\ LeadsOn(Here) \subseteq Callable
  BY AtFacts
<1>2. Frame(function, backup) \in Frames
  BY <1>1, NewFrames
<1>3. Pushed(Frame(function, backup)) \in Seq(Frames)
  BY <1>1, <1>2, PushedFrames DEF Pushed
<1> QED
  BY <1>1, <1>3, CallTypes

\* A function goes on when its callee has returned.
LEMMA GoOnTypes ==
  ASSUME Running, NEW kind, BackIn(kind), NEW p, p \in LeadsOn(CallerNode),
         NEW s \in StateType, Call(p, s, Callers)
  PROVE  Typed'
BY BackInFacts, CallTypes

LEMMA ReturnTypes ==
  ASSUME Running, NEW kind, BackIn(kind), NEW value \in BOOLEAN,
         NEW s \in StateType, Ret(value, s, Callers)
  PROVE  Typed'
BY BackInFacts, RetTypes

LEMMA AssertionTypes ==
  ASSUME Running,
         \/ MatchAlternativesPossessive \/ BackInAlternativesPossessive
         \/ MatchLookAhead \/ BackInLookAhead \/ MatchLookBehind \/ BackInLookBehind
         \/ MatchConditionalElement \/ BackInConditionalElement
         \/ MatchAtomicGroup \/ BackInAtomicGroup
  PROVE  Typed'
<1>1. CASE MatchAlternativesPossessive
  <2>1. /\ At("AlternativesPossessive") /\ state \in StateType
        /\ Call(Here.path0_element, state, Pushed(Frame(function, state)))
    BY <1>1, AtFacts DEF MatchAlternativesPossessive
  <2>2. Here.path0_element \in LeadsOn(Here) /\ "AlternativesPossessive" \in PlainKinds
    BY <2>1, AtFacts, NodePointers DEF LeadsOn, PlainKinds
  <2> QED
    BY <2>1, <2>2, CallAboveTypes
<1>2. CASE BackInAlternativesPossessive
  <2>1. /\ BackIn("AlternativesPossessive") /\ state \in StateType /\ Caller.state_backup \in StateType
        /\ \/ Call(CallerNode.path0_next, state, Callers)
           \/ Call(CallerNode.path1_next, Caller.state_backup, Callers)
    BY <1>2, BackInFacts DEF BackInAlternativesPossessive
  <2>2. CallerNode.path0_next \in LeadsOn(CallerNode) /\ CallerNode.path1_next \in LeadsOn(CallerNode)
    BY <2>1, BackInFacts, NodePointers DEF LeadsOn
  <2> QED
    BY <2>1, <2>2, GoOnTypes
<1>3. CASE MatchLookAhead
  <2>1. /\ At("LookAhead") /\ state \in StateType
        /\ Call(Here.look_graph, state, Pushed(Frame(function, state)))
    BY <1>3, AtFacts DEF MatchLookAhead
  <2>2. Here.look_graph \in LeadsOn(Here) /\ "LookAhead" \in PlainKinds
    BY <2>1, AtFacts, NodePointers DEF LeadsOn, PlainKinds, LookKinds
  <2> QED
    BY <2>1, <2>2, CallAboveTypes
<1>4. CASE BackInLookAhead \/ BackInLookBehind
  <2>1. PICK kind \in LookKinds :
          /\ BackIn(kind) /\ state \in StateType /\ Caller.state_backup \in StateType
          /\ \/ Call(CallerNode.next, Caller.state_backup, Callers)
             \/ \E s \in StateType : Ret(FALSE, s, Callers)
    BY <1>4, BackInFacts DEF BackInLookAhead, BackInLookBehind, LookKinds
  <2>2. CallerNode.next \in LeadsOn(CallerNode)
    BY <2>1, BackInFacts, NodePointers DEF LeadsOn, LookKinds, NextKinds
  <2> QED
    BY <2>1, <2>2, GoOnTypes, ReturnTypes
<1>5. CASE MatchLookBehind
  <2> DEFINE pos == state.str_begin - Here.size
  <2>1. /\ At("LookBehind") /\ state \in StateType /\ state.str_begin \in 0..SizeMax
        /\ Here.next \in Callable /\ Here.kind = "LookBehind"
        /\ NodeOK(Here, DOMAIN graph.node \cup {nullptr}, Counters)
    BY <1>5, AtFacts, StateParts DEF MatchLookBehind, NextKinds
  <2>2. Here.look_graph \in LeadsOn(Here) /\ "LookBehind" \in PlainKinds
    BY <2>1, NodePointers DEF LeadsOn, PlainKinds, LookKinds
  <2>3. Here.size \in Nat
    BY <2>1 DEF NodeOK
  <2>4. CASE pos >= 0
    <3>1. Call(Here.look_graph, StateAt(pos), Pushed(Frame(function, state)))
      BY <1>5, <2>4 DEF MatchLookBehind
    <3>2. pos \in 0..SizeMax
      BY <2>1, <2>3, <2>4, SizeMaxAssumption
    <3> HIDE DEF pos
    <3>3. StateAt(pos) \in StateType
      BY <2>1, <3>2, MovedType DEF StateAt
    <3> QED
      BY <2>1, <2>2, <3>1, <3>3, CallAboveTypes
  <2>5. CASE ~(pos >= 0)
    <3>1. CallIf(~Here.positive, Here.next, state)
      BY <1>5, <2>5 DEF MatchLookBehind
    <3> QED
      BY <2>1, <3>1, CallIfTypes
  <2> QED
    BY <2>4, <2>5
<1>6. CASE MatchConditionalElement
  <2>1. /\ At("ConditionalElement") /\ state \in StateType
        /\ Call(Here.condition_node, state, Pushed(Frame(function, state)))
    BY <1>6, AtFacts DEF MatchConditionalElement
  <2>2. Here.condition_node \in LeadsOn(Here) /\ "ConditionalElement" \in PlainKinds
    BY <2>1, AtFacts, NodePointers DEF LeadsOn, PlainKinds
  <2> QED
    BY <2>1, <2>2, CallAboveTypes
<1>7. CASE BackInConditionalElement
  <2>1. /\ BackIn("ConditionalElement") /\ Caller.state_backup \in StateType
        /\ \/ Call(CallerNode.next_true, Caller.state_backup, Callers)
           \/ Call(CallerNode.next_false, Caller.state_backup, Callers)
    BY <1>7, BackInFacts DEF BackInConditionalElement
  <2>2. CallerNode.next_true \in LeadsOn(CallerNode) /\ CallerNode.next_false \in LeadsOn(CallerNode)
    BY <2>1, BackInFacts, NodePointers DEF LeadsOn
  <2> QED
    BY <2>1, <2>2, GoOnTypes
<1>8. CASE MatchAtomicGroup
  <2>1. /\ At("AtomicGroup") /\ state \in StateType
        /\ Call(Here.group_element, state, Pushed(Frame(function, state)))
    BY <1>8, AtFacts DEF MatchAtomicGroup
  <2>2. Here.group_element \in LeadsOn(Here) /\ "AtomicGroup" \in PlainKinds
    BY <2>1, AtFacts, NodePointers DEF LeadsOn, PlainKinds
  <2> QED
    BY <2>1, <2>2, CallAboveTypes
<1>9. CASE BackInAtomicGroup
  <2>1. /\ BackIn("AtomicGroup") /\ state \in StateType
        /\ Call(CallerNode.next, state, Callers) \/ Ret(FALSE, state, Callers)
    BY <1>9, BackInFacts DEF BackInAtomicGroup
  <2>2. CallerNode.next \in LeadsOn(CallerNode)
    BY <2>1, BackInFacts, NodePointers DEF LeadsOn, NextKinds
  <2> QED
    BY <2>1, <2>2, GoOnTypes, ReturnTypes
<1> QED
  BY <1>1, <1>2, <1>3, <1>4, <1>5, <1>6, <1>7, <1>8, <1>9

LEMMA CounterTypes ==
  ASSUME Running,
         MatchSequenceCounterReset \/ MatchSequenceCounter \/ BackInSequenceCounter
  PROVE  Typed'
<1>1. CASE MatchSequenceCounterReset
  <2>1. /\ Typed /\ state \in StateType /\ stack \in Seq(Frames) /\ Here.next \in Callable
        /\ Call(Here.next,
                [state EXCEPT !.sequence_counters[Here.id] = 0, !.stored = @ \cup {Here.id}],
                stack)
        /\ Here.kind = "SequenceCounterReset"
        /\ NodeOK(Here, DOMAIN graph.node \cup {nullptr}, Counters)
    BY <1>1, AtFacts DEF MatchSequenceCounterReset, NextKinds
  <2>2. Here.id \in Counters
    BY <2>1 DEF NodeOK, CounterKinds
  <2>3. [state EXCEPT !.sequence_counters[Here.id] = 0, !.stored = @ \cup {Here.id}] \in StateType
    BY <2>1, <2>2, CountersType
  <2> QED
    BY <2>1, <2>3, CallTypes
<1>2. CASE MatchSequenceCounter
  <2> DEFINE counter_value == state.sequence_counters[Here.id]
             counted == [state EXCEPT !.sequence_counters[Here.id] = counter_value + 1]
  <2>1. /\ At("SequenceCounter") /\ Typed /\ state \in StateType /\ stack \in Seq(Frames)
        /\ Here.kind = "SequenceCounter"
        /\ NodeOK(Here, DOMAIN graph.node \cup {nullptr}, Counters)
        /\ LeadsOn(Here) \subseteq Callable
    BY <1>2, AtFacts DEF MatchSequenceCounter
  <2>2. /\ Here.next_iteration \in LeadsOn(Here) /\ Here.next_sequence_end \in LeadsOn(Here)
        /\ Branches(Here)[1] \in LeadsOn(Here)
    BY <2>1, NodePointers DEF LeadsOn, Branches
  <2>3. Here.id \in Counters
    BY <2>1 DEF NodeOK, CounterKinds
  <2>4. counter_value \in Nat \cup {Uninitialized}
    BY <2>1, <2>3, StateParts DEF CounterValues
  <2>5. counter_value + 1 \in Nat
    BY <2>4 DEF Uninitialized
  <2> HIDE DEF counter_value
  <2>6. counted \in StateType
    BY <2>1, <2>5, CountersType
  <2>7. \/ Call(Here.next_iteration, counted, stack)
        \/ Call(Here.next_sequence_end, counted, stack)
        \/ Call(Branches(Here)[1], counted, Pushed(Frame(function, counted)))
    BY <1>2 DEF MatchSequenceCounter, counter_value
  <2>8. "SequenceCounter" \in PlainKinds
    BY DEF PlainKinds
  <2> HIDE DEF counted
  <2> QED
    BY <2>1, <2>2, <2>6, <2>7, <2>8, CallTypes, CallAboveTypes
<1>3. CASE BackInSequenceCounter
  <2>1. /\ BackIn("SequenceCounter") /\ state \in StateType /\ Caller.state_backup \in StateType
        /\ Ret(TRUE, state, Callers) \/ Call(Branches(CallerNode)[2], Caller.state_backup, Callers)
    BY <1>3, BackInFacts DEF BackInSequenceCounter
  <2>2. Branches(CallerNode)[2] \in LeadsOn(CallerNode)
    BY <2>1, BackInFacts, NodePointers DEF LeadsOn, Branches
  <2> QED
    BY <2>1, <2>2, GoOnTypes, ReturnTypes
<1> QED
  BY <1>1, <1>2, <1>3

\* The next iteration of a loop, or what comes after it.
LEMMA PossessiveLoopTypes ==
  ASSUME Running, NEW p \in NodeFunctions(graph), graph.node[p].kind = "PossessiveSequence",
         NEW counter \in Nat, NEW s \in StateType, NEW stk \in Seq(Frames),
         PossessiveLoop(p, counter, s, stk)
  PROVE  Typed'
<1>1. /\ Typed /\ graph.node[p].next \in Callable /\ graph.node[p].sequence_element \in Callable
  BY CodeFacts, NodePointers DEF Running, Typed, LeadsOn, NextKinds, LoopKinds
<1>2. LoopFrame(p, s, counter) \in Frames
  BY <1>1, NewFrames
<1>3. Append(stk, LoopFrame(p, s, counter)) \in Seq(Frames)
  BY <1>2, PushedFrames
<1> QED
  BY <1>1, <1>3, CallTypes DEF PossessiveLoop

LEMMA PossessiveTypes ==
  ASSUME Running, MatchPossessiveSequence \/ BackInPossessiveSequence
  PROVE  Typed'
<1>1. CASE MatchPossessiveSequence
  <2>1. PossessiveLoop(function, 0, state, stack)
    BY <1>1 DEF MatchPossessiveSequence
  <2>2. /\ function \in NodeFunctions(graph) /\ graph.node[function].kind = "PossessiveSequence"
        /\ state \in StateType /\ stack \in Seq(Frames) /\ 0 \in Nat
    BY <1>1, AtFacts DEF MatchPossessiveSequence
  <2> QED
    BY <2>1, <2>2, PossessiveLoopTypes
<1>2. CASE BackInPossessiveSequence
  <2>1. /\ BackIn("PossessiveSequence") /\ Typed /\ Caller \in Frames /\ Callers \in Seq(Frames)
        /\ Caller.kind = "PossessiveSequence" /\ Caller.node \in NodeFunctions(graph)
        /\ graph.node[Caller.node].kind = "PossessiveSequence"
        /\ state \in StateType /\ Caller.state_backup \in StateType
    BY <1>2, BackInFacts DEF BackInPossessiveSequence
  <2>2. Caller.counter + 1 \in Nat
    BY <2>1, FrameFacts
  <2>3. CallerNode.next \in LeadsOn(CallerNode)
    BY <2>1, BackInFacts, NodePointers DEF LeadsOn, NextKinds
  <2>4. \/ PossessiveLoop(Caller.node, Caller.counter + 1, state, Callers)
        \/ Ret(FALSE, Caller.state_backup, Callers)
        \/ Call(CallerNode.next, Caller.state_backup, Callers)
    BY <1>2 DEF BackInPossessiveSequence
  <2> QED
    BY <2>1, <2>2, <2>3, <2>4, PossessiveLoopTypes, GoOnTypes, ReturnTypes
<1> QED
  BY <1>1, <1>2

LEMMA RollbackTypes ==
  ASSUME Running,
         MatchSingleRollbackPointSequence \/ BackInRollbackTail \/ BackInRollbackElement
  PROVE  Typed'
<1> DEFINE kind == "SingleRollbackPointSequence"
<1>1. ASSUME NEW p \in NodeFunctions(graph), graph.node[p].kind = kind, NEW s \in StateType,
             NEW next_states \in SUBSET StateType, NEW stk \in Seq(Frames),
             RollbackTail(p, s, next_states, stk)
      PROVE  Typed'
  <2>1. Typed /\ graph.node[p].next \in Callable
    BY <1>1, CodeFacts, NodePointers DEF Running, Typed, LeadsOn, NextKinds
  <2>2. RollbackFrame(p, s, TRUE, next_states) \in Frames
    BY <1>1, <2>1, NewFrames
  <2>3. Append(stk, RollbackFrame(p, s, TRUE, next_states)) \in Seq(Frames)
    BY <1>1, <2>2, PushedFrames
  <2> QED
    BY <1>1, <2>1, <2>3, CallTypes DEF RollbackTail
<1>2. CASE MatchSingleRollbackPointSequence
  <2>1. /\ RollbackTail(function, state, {}, stack) /\ function \in NodeFunctions(graph)
        /\ graph.node[function].kind = kind /\ state \in StateType /\ stack \in Seq(Frames)
    BY <1>2, AtFacts DEF MatchSingleRollbackPointSequence
  <2> QED
    BY <1>1, <2>1
<1>3. ASSUME BackIn(kind)
      PROVE  /\ Typed /\ Caller \in Frames /\ Callers \in Seq(Frames) /\ Caller.kind = kind
             /\ Caller.node \in NodeFunctions(graph) /\ graph.node[Caller.node].kind = kind
             /\ CallerNode.sequence_element \in Callable
             /\ state \in StateType /\ Caller.state_backup \in StateType
             /\ Caller.next_states \in SUBSET StateType
  <2>1. /\ Typed /\ Caller \in Frames /\ Callers \in Seq(Frames) /\ Caller.kind = kind
        /\ Caller.node \in NodeFunctions(graph) /\ graph.node[Caller.node].kind = kind
        /\ state \in StateType /\ Caller.state_backup \in StateType
        /\ LeadsOn(CallerNode) \subseteq Callable /\ CallerNode.kind = kind
    BY <1>3, BackInFacts
  <2>2. CallerNode.sequence_element \in LeadsOn(CallerNode)
    BY <2>1, NodePointers DEF LeadsOn, LoopKinds
  <2> QED
    BY <2>1, <2>2, FrameFacts
<1>4. CASE BackInRollbackTail
  <2>1. BackIn(kind)
    BY <1>4 DEF BackInRollbackTail
  <2> DEFINE next_states == IF res THEN {state} ELSE Caller.next_states
             frame == RollbackFrame(Caller.node, Caller.state_backup, FALSE, next_states)
  <2>2. Call(CallerNode.sequence_element, Caller.state_backup, Append(Callers, frame))
    BY <1>4 DEF BackInRollbackTail
  <2>3. next_states \in SUBSET StateType
    BY <1>3, <2>1
  <2> HIDE DEF next_states
  <2>4. frame \in Frames
    BY <1>3, <2>1, <2>3, NewFrames
  <2> HIDE DEF frame
  <2>5. Append(Callers, frame) \in Seq(Frames)
    BY <1>3, <2>1, <2>4, PushedFrames
  <2> QED
    BY <1>3, <2>1, <2>2, <2>5, CallTypes
<1>5. CASE BackInRollbackElement
  <2>1. BackIn(kind)
    BY <1>5 DEF BackInRollbackElement
  <2>2. \/ RollbackTail(Caller.node, state, Caller.next_states, Callers)
        \/ /\ Caller.next_states # {}
           /\ Ret(TRUE, CHOOSE s \in Caller.next_states : TRUE, Callers)
        \/ Ret(FALSE, state, Callers)
    BY <1>5 DEF BackInRollbackElement
  <2>3. Caller.next_states # {} => (CHOOSE s \in Caller.next_states : TRUE) \in StateType
    BY <1>3, <2>1
  <2> QED
    BY <1>1, <1>3, <2>1, <2>2, <2>3, RetTypes
<1> QED
  BY <1>2, <1>4, <1>5

LEMMA FixedLengthTypes ==
  ASSUME Running,
         MatchFixedLengthElementSequence \/ BackInElement \/ BackInElementTail
  PROVE  Typed'
<1> DEFINE kind == "FixedLengthElementSequence"
           Numbers == 0..SizeMax
<1>1. ASSUME NEW p \in NodeFunctions(graph), graph.node[p].kind = kind, NEW s \in StateType,
             NEW str_begin \in Numbers, NEW counter \in Nat, NEW stk \in Seq(Frames)
      PROVE  /\ ExtractElement(p, str_begin, counter, s, stk) => Typed'
             /\ BlockAfterExtractLoop(p, str_begin, counter, s, stk) => Typed'
  <2>1. /\ Typed /\ graph.node[p].next \in Callable /\ graph.node[p].sequence_element \in Callable
    BY <1>1, CodeFacts, NodePointers DEF Running, Typed, LeadsOn, NextKinds, LoopKinds
  <2>2. \A in_tail \in BOOLEAN : ElementFrame(p, s, in_tail, str_begin, counter) \in Frames
    BY <1>1, <2>1, NewFrames
  <2>3. \A in_tail \in BOOLEAN :
          Append(stk, ElementFrame(p, s, in_tail, str_begin, counter)) \in Seq(Frames)
    BY <1>1, <2>2, PushedFrames
  <2>4. str_begin + counter \in Int
    BY <1>1
  <2>5. Moved(s, Wrap(str_begin + counter)) \in StateType
    BY <1>1, <2>4, WrapType, MovedType
  <2>6. ExtractElement(p, str_begin, counter, s, stk) => Typed'
    BY <1>1, <2>1, <2>3, CallTypes DEF ExtractElement
  <2>7. TailCheck(p, str_begin, counter, s, stk) => Typed'
    BY <1>1, <2>1, <2>3, <2>5, CallTypes DEF TailCheck
  <2>8. Ret(FALSE, s, stk) => Typed'
    BY <1>1, RetTypes
  <2> QED
    BY <2>6, <2>7, <2>8 DEF BlockAfterExtractLoop
<1>2. CASE MatchFixedLengthElementSequence
  <2>1. /\ ExtractElement(function, state.str_begin, 0, state, stack)
        /\ function \in NodeFunctions(graph) /\ graph.node[function].kind = kind
        /\ state \in StateType /\ stack \in Seq(Frames) /\ 0 \in Nat
    BY <1>2, AtFacts DEF MatchFixedLengthElementSequence
  <2>2. state.str_begin \in Numbers
    BY <2>1, StateParts
  <2> QED
    BY <1>1, <2>1, <2>2
<1>3. ASSUME BackIn(kind)
      PROVE  /\ Typed /\ Caller \in Frames /\ Callers \in Seq(Frames) /\ Caller.kind = kind
             /\ Caller.node \in NodeFunctions(graph) /\ graph.node[Caller.node].kind = kind
             /\ state \in StateType /\ Caller.state_backup \in StateType
             /\ Caller.str_begin \in Numbers /\ Caller.counter \in Nat /\ Caller.counter + 1 \in Nat
             /\ CallerNode.element_length \in Nat
  <2>1. /\ Typed /\ Caller \in Frames /\ Callers \in Seq(Frames) /\ Caller.kind = kind
        /\ Caller.node \in NodeFunctions(graph) /\ graph.node[Caller.node].kind = kind
        /\ state \in StateType /\ Caller.state_backup \in StateType /\ CallerNode.kind = kind
        /\ NodeOK(CallerNode, DOMAIN graph.node \cup {nullptr}, Counters)
    BY <1>3, BackInFacts
  <2>2. Caller.str_begin \in Numbers /\ Caller.counter \in Nat
    BY <2>1, FrameFacts
  <2>3. CallerNode.element_length \in Nat
    BY <2>1 DEF NodeOK
  <2> QED
    BY <2>1, <2>2, <2>3
<1>4. CASE BackInElement
  <2>1. BackIn(kind)
    BY <1>4 DEF BackInElement
  <2>2. \/ ExtractElement(Caller.node, Caller.str_begin, Caller.counter + 1, state, Callers)
        \/ BlockAfterExtractLoop(Caller.node, Caller.str_begin, Caller.counter + 1, state, Callers)
        \/ BlockAfterExtractLoop(Caller.node, Caller.str_begin, Caller.counter, state, Callers)
    BY <1>4 DEF BackInElement
  <2> QED
    BY <1>1, <1>3, <2>1, <2>2
<1>5. CASE BackInElementTail
  <2> DEFINE back == Wrap(Caller.counter - CallerNode.element_length)
  <2>1. BackIn(kind)
    BY <1>5 DEF BackInElementTail
  <2>2. \/ Ret(TRUE, state, Callers)
        \/ Ret(FALSE, Caller.state_backup, Callers)
        \/ BlockAfterExtractLoop(Caller.node, Caller.str_begin, back, Caller.state_backup, Callers)
    BY <1>5 DEF BackInElementTail
  <2>3. Caller.counter - CallerNode.element_length \in Int
    BY <1>3, <2>1
  <2>4. back \in Nat
    BY <2>3, WrapType, SizeMaxAssumption
  <2> HIDE DEF back
  <2> QED
    BY <1>1, <1>3, <2>1, <2>2, <2>4, RetTypes
<1> QED
  BY <1>2, <1>4, <1>5

\* A link of a chain.
LEMMA LinkFacts ==
  ASSUME Typed, NEW kind \in {"SubroutineEnter", "StateSave"}, NEW k \in Links(kind)
  PROVE  /\ k \in DOMAIN stack /\ k \in 1..Len(stack) /\ stack[k] \in Frames /\ stack[k].kind = kind
         /\ graph.node[stack[k].node].next \in Callable
         /\ stack[k].state_backup \in StateType
<1>1. k \in DOMAIN stack /\ stack[k].kind = kind
  BY DEF Links
<1>2. stack \in Seq(Frames)
  BY DEF Typed
<1>3. k \in 1..Len(stack) /\ stack[k] \in Frames
  BY <1>1, <1>2
<1>4. graph.node[stack[k].node].next \in LeadsOn(graph.node[stack[k].node])
  BY <1>1, <1>3, FrameFacts, NodePointers DEF LeadsOn, NextKinds
<1> QED
  BY <1>1, <1>3, <1>4, FrameFacts

LEMMA SubroutineTypes ==
  ASSUME Running,
         \/ MatchSubroutineEnter \/ MatchSubroutineLeave
         \/ MatchStateSave \/ MatchStateRestore \/ ReturnFromCall
  PROVE  Typed'
<1>1. CASE MatchSubroutineEnter
  <2> DEFINE s == [state EXCEPT !.return_chain_head = Len(stack) + 1, !.stored = {}]
  <2>1. /\ At("SubroutineEnter") /\ state \in StateType /\ stack \in Seq(Frames)
        /\ Here.kind = "SubroutineEnter"
        /\ Call(Here.subroutine_node, s, Pushed(Frame(function, state)))
    BY <1>1, AtFacts DEF MatchSubroutineEnter
  <2>2. Here.subroutine_node \in LeadsOn(Here) /\ "SubroutineEnter" \in PlainKinds
    BY <2>1, NodePointers DEF LeadsOn, PlainKinds
  <2>3. Len(stack) + 1 \in Nat
    BY <2>1
  <2>4. s \in StateType
    BY <2>1, <2>3, HeadsType
  <2> HIDE DEF s
  <2> QED
    BY <2>1, <2>2, <2>4, CallAboveTypes
<1>2. CASE MatchSubroutineLeave
  <2> DEFINE link == stack[state.return_chain_head]
             s == [state EXCEPT !.return_chain_head = link.state_backup.return_chain_head,
                                !.stored = link.state_backup.stored]
  <2>1. /\ Typed /\ state \in StateType /\ stack \in Seq(Frames)
        /\ state.return_chain_head \in Links("SubroutineEnter")
        /\ Call(graph.node[link.node].next, s, stack)
    BY <1>2, AtFacts DEF MatchSubroutineLeave
  <2>2. graph.node[link.node].next \in Callable /\ link.state_backup \in StateType
    BY <2>1, LinkFacts
  <2>3. /\ link.state_backup.return_chain_head \in Nat
        /\ link.state_backup.stored \subseteq Counters
    BY <2>2, StateParts
  <2>4. s \in StateType
    BY <2>1, <2>3, HeadsType
  <2> HIDE DEF s, link
  <2> QED
    BY <2>1, <2>2, <2>4, CallTypes
<1>3. CASE MatchStateSave
  <2> DEFINE s == [state EXCEPT !.save_chain_head = Len(stack) + 1]
  <2>1. /\ At("StateSave") /\ state \in StateType /\ stack \in Seq(Frames)
        /\ Here.kind = "StateSave"
        /\ Call(Here.next, s, Pushed(Frame(function, state)))
    BY <1>3, AtFacts DEF MatchStateSave
  <2>2. Here.next \in LeadsOn(Here) /\ "StateSave" \in PlainKinds
    BY <2>1, NodePointers DEF LeadsOn, PlainKinds, NextKinds
  <2>3. Len(stack) + 1 \in Nat
    BY <2>1
  <2>4. s \in StateType
    BY <2>1, <2>3, HeadsType
  <2> HIDE DEF s
  <2> QED
    BY <2>1, <2>2, <2>4, CallAboveTypes
<1>4. CASE MatchStateRestore
  <2> DEFINE saved == stack[state.save_chain_head].state_backup
             s == [state EXCEPT
                     !.sequence_counters =
                        Restored(@, saved.sequence_counters, Here.sequence_counters_to_restore),
                     !.groups = Restored(@, saved.groups, Here.groups_to_restore),
                     !.save_chain_head = saved.save_chain_head]
  <2>1. /\ Typed /\ state \in StateType /\ stack \in Seq(Frames) /\ Here.next \in Callable
        /\ state.save_chain_head \in Links("StateSave")
        /\ Call(Here.next, s, stack)
    BY <1>4, AtFacts DEF MatchStateRestore, NextKinds
  <2>2. saved \in StateType
    BY <2>1, LinkFacts
  <2> HIDE DEF saved
  <2>3. s \in StateType
    BY <2>1, <2>2, RestoredType
  <2> HIDE DEF s
  <2> QED
    BY <2>1, <2>3, CallTypes
<1>5. CASE ReturnFromCall
  BY <1>5, BackInFacts, ReturnTypes DEF ReturnFromCall
<1> QED
  BY <1>1, <1>2, <1>3, <1>4, <1>5

-----------------------------------------------------------------------------
(***************************************************************************)
(* The root function, and the theorem.                                     *)
(***************************************************************************)
LEMMA RunTypes ==
  ASSUME Running, NodeFunction \/ AfterCall
  PROVE  Typed'
<1>1. CASE NodeFunction
  BY <1>1, ReturnTrueTypes, MatchTextTypes, ReadTypes, GroupTypes, BackReferenceTypes,
     AlternativesTypes, AssertionTypes, CounterTypes, PossessiveTypes, RollbackTypes,
     FixedLengthTypes, SubroutineTypes
  DEF NodeFunction
<1>2. CASE AfterCall
  BY <1>2, AlternativesTypes, AssertionTypes, CounterTypes, PossessiveTypes, RollbackTypes,
     FixedLengthTypes, SubroutineTypes
  DEF AfterCall
<1> QED
  BY <1>1, <1>2

\* Functions run when they are called or return.
LEMMA RunsWhenCalled ==
  ASSUME Typed, NodeFunction \/ AfterCall
  PROVE  Running
<1>1. pc \in {"call", "ret"}
  BY DEF NodeFunction, AfterCall, ReturnTrue, MatchText, MatchOneOf, MatchAnySymbol,
     MatchStringStartAssertion, MatchStringEndAssertion, MatchGroupStart, MatchGroupEnd,
     MatchBackReference, MatchAlternatives, MatchAlternativesPossessive, MatchLookAhead,
     MatchLookBehind, MatchConditionalElement, MatchSequenceCounterReset, MatchSequenceCounter,
     MatchPossessiveSequence, MatchSingleRollbackPointSequence, MatchFixedLengthElementSequence,
     MatchAtomicGroup, MatchSubroutineEnter, MatchSubroutineLeave, MatchStateSave,
     MatchStateRestore, BackInAlternatives, BackInAlternativesPossessive, BackInLookAhead,
     BackInLookBehind, BackInConditionalElement, BackInSequenceCounter, BackInPossessiveSequence,
     BackInRollbackTail, BackInRollbackElement, BackInElement, BackInElementTail,
     BackInAtomicGroup, ReturnFromCall, At, BackIn
<1> QED
  BY <1>1 DEF Running

LEMMA NoCallOK == CallOK(NoArgs)
<1>1. GraphOK(NoGraph) /\ DOMAIN NoGraph.node = {}
  BY SMT DEF GraphOK, NoGraph, nullptr
<1>2. IsFiniteSet(DOMAIN NoGraph.node)
  BY <1>1, FS_EmptySet
<1>3. NodeFunctions(NoGraph) = {}
  BY <1>1, <1>2, FunctionsClosed
<1>4. NoArgs.code = NoFunction /\ NoFunction.graph = NoGraph
  BY DEF NoArgs, NoFunction
<1>5. Generated(NoFunction) = "function"
  BY <1>3, <1>4 DEF Generated
<1>6. Range(NoGraph.node) = {}
  BY <1>1 DEF Range
<1>7. /\ NoArgs.str \in Seq(Byte) /\ Len(NoArgs.str) = 0
      /\ NoArgs.start_offset = 0 /\ NoArgs.subpattern_count = 0
      /\ NoFunction.groups = {0} /\ NoFunction.fields = {}
  BY DEF NoArgs, NoFunction
<1> QED
  <2>1. /\ GraphOK(NoArgs.code.graph) /\ IsFiniteSet(DOMAIN NoArgs.code.graph.node)
        /\ \A n \in Range(NoArgs.code.graph.node) : n.kind = "Alternatives" => n.next # <<>>
        /\ Generated(NoArgs.code) = "function"
    BY <1>1, <1>2, <1>4, <1>5, <1>6
  <2>2. /\ 0 \in NoArgs.code.groups /\ NoArgs.code.fields \subseteq NoArgs.code.groups
        /\ NoArgs.subpattern_count \in Nat
    BY <1>4, <1>7
  <2>3. NoArgs.start_offset \in 0..Len(NoArgs.str) /\ Len(NoArgs.str) <= SizeMax
    BY <1>7, SizeMaxAssumption
  <2> QED
    BY <1>7, <2>1, <2>2, <2>3 DEF CallOK

LEMMA InitTypes ==
  ASSUME Init
  PROVE  Typed
<1>1. CallOK(args)
  BY NoCallOK DEF Init
<1>2. 0 \in 0..SizeMax
  BY SizeMaxAssumption
<1>3. /\ pc = "idle" /\ function = nullptr /\ "sequence_counters" \in DOMAIN state
      /\ current_start_offset = 0 /\ res = FALSE /\ stack = <<>>
  BY DEF Init
<1> QED
  <2>1. stack \in Seq(Frames) /\ function \in Callable
    BY <1>3 DEF Callable
  <2> QED
    BY <1>1, <1>2, <1>3, <2>1 DEF Typed

LEMMA CallRootTypes ==
  ASSUME Typed, NEW c \in Inputs, CallRoot(c)
  PROVE  Typed'
<1>1. CallOK(c)
  BY InputsAssumption
<1>2. /\ pc = "idle" /\ args' = c /\ pc' = "search_loop" /\ current_start_offset' = c.start_offset
      /\ function' = nullptr /\ stack' = <<>> /\ res' \in BOOLEAN
      /\ state' = [state EXCEPT !.sequence_counters =
                     [id \in c.code.graph.used_sequence_counters |-> Uninitialized]]
      /\ "sequence_counters" \in DOMAIN state
  BY DEF CallRoot, Typed
<1>3. c.start_offset \in 0..SizeMax
  <2>1. Len(c.str) \in Nat /\ Len(c.str) <= SizeMax /\ c.start_offset \in 0..Len(c.str)
    BY <1>1 DEF CallOK
  <2> QED
    BY <2>1, SizeMaxAssumption
<1>4. state'.sequence_counters = [id \in Counters' |-> Uninitialized]
  BY <1>2 DEF Counters, graph
<1>5. state'.sequence_counters \in CounterValues'
  BY <1>4 DEF CounterValues
<1>6. function' \in Callable'
  BY <1>2 DEF Callable
<1>7. stack' \in Seq(Frames')
  BY <1>2
<1>8. CallOK(args')
  BY <1>1, <1>2
<1> QED
  BY <1>2, <1>3, <1>5, <1>6, <1>7, <1>8 DEF Typed

LEMMA RootTypes ==
  ASSUME Typed, SearchLoop \/ NextIteration \/ Found
  PROVE  Typed'
<1>1. args' = args
  BY DEF SearchLoop, NextIteration, Found
<1>2. /\ Callable' = Callable /\ Frames' = Frames
      /\ StateType' = StateType /\ CounterValues' = CounterValues
  BY <1>1, SameTypes
<1>3. CASE SearchLoop
  <2> DEFINE counters == state.sequence_counters
             groups == [g \in Fields |-> [begin |-> Len(str), end |-> Len(str)]]
  <2>1. counters \in CounterValues /\ stack = <<>> /\ current_start_offset \in 0..SizeMax
    BY <1>3 DEF SearchLoop, Typed
  <2>2. groups \in [Fields -> [begin : Nat, end : Nat]]
    BY StringFacts DEF Typed
  <2>3. state' = [str_begin |-> current_start_offset, sequence_counters |-> counters,
                  groups |-> groups, return_chain_head |-> 0, save_chain_head |-> 0,
                  stored |-> {}]
    BY <1>3 DEF SearchLoop
  <2> HIDE DEF counters, groups
  <2>4. state' \in StateType
    BY <2>1, <2>2, <2>3 DEF StateType, CounterValues
  <2>5. function' \in Callable
    BY <1>3, CodeFacts DEF SearchLoop, Typed
  <2>6. /\ pc' = "call" /\ current_start_offset' = current_start_offset
        /\ res' = res /\ stack' = stack
    BY <1>3 DEF SearchLoop
  <2> QED
    BY <1>1, <1>2, <2>4, <2>5, <2>6 DEF Typed
<1>4. CASE NextIteration
  <2>1. /\ pc = "ret" /\ stack = <<>> /\ pc' \in {"search_loop", "end"}
        /\ UNCHANGED <<function, state, res, stack>>
    BY <1>4 DEF NextIteration, RootReturned
  <2>2. state.sequence_counters \in CounterValues
    BY <2>1, StateParts DEF Typed
  <2>3. current_start_offset' \in 0..SizeMax
    <3>1. current_start_offset \in 0..SizeMax /\ Len(str) \in 0..SizeMax
      BY StringFacts DEF Typed
    <3>2. \/ current_start_offset' = current_start_offset
          \/ /\ current_start_offset' = current_start_offset + 1
             /\ current_start_offset + 1 < Len(str)
      BY <1>4 DEF NextIteration
    <3> QED
      BY <3>1, <3>2, SizeMaxAssumption
  <2> QED
    BY <1>1, <1>2, <2>1, <2>2, <2>3 DEF Typed
<1>5. CASE Found
  <2>1. /\ pc' = "end" /\ stack = <<>>
        /\ UNCHANGED <<current_start_offset, function, state, res, stack>>
    BY <1>5 DEF Found, RootReturned
  <2> QED
    BY <1>1, <1>2, <2>1 DEF Typed
<1> QED
  BY <1>3, <1>4, <1>5

LEMMA StepTypes ==
  ASSUME Typed, [Next]_vars
  PROVE  Typed'
<1>1. CASE \E c \in Inputs : CallRoot(c)
  BY <1>1, CallRootTypes
<1>2. CASE NodeFunction \/ AfterCall
  BY <1>2, RunTypes, RunsWhenCalled
<1>3. CASE SearchLoop \/ NextIteration \/ Found
  BY <1>3, RootTypes
<1>4. CASE UNCHANGED vars
  <2>1. /\ UNCHANGED <<current_start_offset, pc, function, state, res, stack>>
        /\ args' = args
    BY <1>4 DEF vars
  <2> QED
    BY <2>1, SameTypes DEF Typed
<1> QED
  BY <1>1, <1>2, <1>3, <1>4 DEF Next, Run, Returned

LEMMA TypedThroughout == Spec => []Typed
<1>1. Init => Typed
  BY InitTypes
<1>2. Typed /\ [Next]_vars => Typed'
  BY StepTypes
<1> QED
  BY <1>1, <1>2, PTL DEF Spec

\* Whatever the function is generated for and called with, every variable has its
\* type: the State and all its copies have the fields CreateStateType gave them,
\* and frames are those of functions that were generated.
THEOREM GeneratedTypeCorrect == Spec => []TypeOK
<1>1. Typed => TypeOK
  <2> SUFFICES ASSUME Typed
               PROVE  TypeOK
    OBVIOUS
  <2>1. function \in DOMAIN graph.node \cup {nullptr}
    BY CodeFacts DEF Typed, Callable
  <2>2. stack \in Seq(FrameType) /\ \A k \in DOMAIN stack : FrameOK(stack[k])
    <3>1. \A f \in Frames : f \in FrameType /\ FrameOK(f)
      BY DEF Frames
    <3>2. stack \in Seq(Frames)
      BY DEF Typed
    <3> QED
      BY <3>1, <3>2
  <2> QED
    BY <2>1, <2>2 DEF Typed, TypeOK, CounterValues
<1> QED
  BY <1>1, TypedThroughout, PTL

-----------------------------------------------------------------------------
(***************************************************************************)
(* The order of calls.  A frame that waits for a graph of its own is the   *)
(* base of the frames above it: when that graph has matched, both chains   *)
(* are as they were when it began.  Within it a subroutine returns to a    *)
(* call above the base, which is a call of this subroutine, and the chain  *)
(* of saves is as it was at that call.                                     *)
(* Only between StateSave and its call, and between that call and its      *)
(* StateRestore, there is one save more.                                   *)
(*                                                                         *)
(* stk is a stack, d a number of its frames from below, r and v are the    *)
(* heads of the chains of returns and of saves.                            *)
(***************************************************************************)
IsBase(stk, d, b) ==
  /\ b \in 0..d
  /\ \A k \in (b + 1)..d : ~WaitsForSubgraph(stk[k])
  /\ b # 0 => WaitsForSubgraph(stk[b])

\* The heads when the graph of base b began.
ReturnsAt(stk, b) == IF b = 0 THEN 0 ELSE stk[b].state_backup.return_chain_head
SavesAt(stk, b)   == IF b = 0 THEN 0 ELSE stk[b].state_backup.save_chain_head

\* The saves there should be at node p.
SavesDue(g, stk, b, p, r) ==
  IF p \in BodyNodes(g) THEN stk[r].state_backup.save_chain_head ELSE SavesAt(stk, b)

\* The save for the call that p makes, or comes after.
SavedFor(g, stk, b, d, p, r, v) ==
  /\ v \in (b + 1)..d
  /\ stk[v].kind = "StateSave"
  /\ stk[v].state_backup.return_chain_head = r
  /\ stk[v].state_backup.save_chain_head = SavesDue(g, stk, b, p, r)
  /\ LET save == g.node[stk[v].node]
     IN p = IF p \in Restores(g) THEN g.node[save.next].next ELSE save.next

\* p is a node of the subroutine that begins at node entry.
InBody(g, entry, p) ==
  \A S \in SUBSET BodyNodes(g) :
    entry \in S /\ (\A m \in S : ContinuationsOf(g.node[m]) \cap BodyNodes(g) \subseteq S) => p \in S

\* The head of the chain of returns there should be at node p.
ReturnsDue(g, stk, b, d, p, r) ==
  IF p \in BodyNodes(g)
  THEN /\ r \in (b + 1)..d /\ stk[r].kind = "SubroutineEnter"
       /\ InBody(g, g.node[stk[r].node].subroutine_node, p)
  ELSE r = ReturnsAt(stk, b)

Follows(g, stk, b, d, p, r, v) ==
  /\ ReturnsDue(g, stk, b, d, p, r)
  /\ IF p \in Restores(g) \cup SavingCalls(g)
     THEN SavedFor(g, stk, b, d, p, r, v)
     ELSE v = SavesDue(g, stk, b, p, r)

InOrder(g, stk, d, p, r, v) == \E b \in 0..d : IsBase(stk, d, b) /\ Follows(g, stk, b, d, p, r, v)

\* The graph of the base has matched.
Finished(stk, d, r, v) ==
  \E b \in 0..d : IsBase(stk, d, b) /\ r = ReturnsAt(stk, b) /\ v = SavesAt(stk, b)

\* Both heads are null or point into frames of the right kind.
HeadLive(stk, d, head, kind) == head = 0 \/ (head \in 1..d /\ stk[head].kind = kind)
HeadsLive(stk, d, r, v) ==
  HeadLive(stk, d, r, "SubroutineEnter") /\ HeadLive(stk, d, v, "StateSave")

\* Frame k has been pushed in order, and its copies of the State can be used.
FrameInOrder(g, stk, k) ==
  LET f == stk[k]
  IN /\ InOrder(g, stk, k - 1, f.node, f.state_backup.return_chain_head,
                f.state_backup.save_chain_head)
     /\ HeadsLive(stk, k - 1, f.state_backup.return_chain_head, f.state_backup.save_chain_head)
     /\ f.kind = "SingleRollbackPointSequence" =>
          \A s \in f.next_states : Finished(stk, k - 1, s.return_chain_head, s.save_chain_head)

\* A frame that scans goes on from the State its element leaves even when that
\* has failed; its element is a node on its own, so that nothing is above it.
Scans(f) == f.kind = "FixedLengthElementSequence" /\ ~f.in_tail

StackInOrder(g, stk) ==
  /\ \A k \in 1..Len(stk) : FrameInOrder(g, stk, k)
  /\ \A k \in 1..(Len(stk) - 1) : ~Scans(stk[k])

\* The function of p can run on a State with heads r and v.
Runs(g, stk, p, r, v) ==
  InOrder(g, stk, Len(stk), p, r, v) /\ HeadsLive(stk, Len(stk), r, v)

ScansOnTop(stk) == stk # <<>> /\ Scans(Last(stk))

Entered(g, stk, p, r, v) ==
  /\ StackInOrder(g, stk) /\ Runs(g, stk, p, r, v)
  /\ ScansOnTop(stk) => p \in {g.node[Last(stk).node].sequence_element, nullptr}

\* A function above these frames returns value.
Left(g, stk, value, r, v) ==
  /\ StackInOrder(g, stk)
  /\ value \/ ScansOnTop(stk) => Finished(stk, Len(stk), r, v)

ChainsInOrder ==
  /\ pc = "call" =>
       Entered(graph, stack, function, state.return_chain_head, state.save_chain_head)
  /\ pc = "ret" => Left(graph, stack, res, state.return_chain_head, state.save_chain_head)

-----------------------------------------------------------------------------
(***************************************************************************)
(* What these say depends on the frames from below alone.                  *)
(***************************************************************************)
Agree(stk1, stk2, d) == \A k \in 1..d : stk1[k] = stk2[k]

LEMMA SameBelow ==
  ASSUME NEW g, NEW stk1, NEW stk2, NEW d \in Nat, Agree(stk1, stk2, d), NEW p, NEW r, NEW v
  PROVE  /\ InOrder(g, stk1, d, p, r, v) => InOrder(g, stk2, d, p, r, v)
         /\ Finished(stk1, d, r, v) => Finished(stk2, d, r, v)
         /\ HeadsLive(stk1, d, r, v) => HeadsLive(stk2, d, r, v)
<1>1. \A b \in 0..d : /\ IsBase(stk1, d, b) => IsBase(stk2, d, b)
                      /\ ReturnsAt(stk1, b) = ReturnsAt(stk2, b)
                      /\ SavesAt(stk1, b) = SavesAt(stk2, b)
  BY DEF Agree, IsBase, ReturnsAt, SavesAt
<1>2. ASSUME NEW b \in 0..d, Follows(g, stk1, b, d, p, r, v)
      PROVE  Follows(g, stk2, b, d, p, r, v)
  <2>1. \A k \in (b + 1)..d : stk1[k] = stk2[k]
    BY DEF Agree
  <2>2. ReturnsDue(g, stk2, b, d, p, r)
    BY <1>1, <1>2, <2>1 DEF Follows, ReturnsDue
  <2>3. SavesDue(g, stk1, b, p, r) = SavesDue(g, stk2, b, p, r)
    BY <1>1, <1>2, <2>1 DEF Follows, ReturnsDue, SavesDue
  <2>4. SavedFor(g, stk1, b, d, p, r, v) => SavedFor(g, stk2, b, d, p, r, v)
    BY <2>1, <2>3 DEF SavedFor
  <2> QED
    BY <1>2, <2>2, <2>3, <2>4 DEF Follows
<1>3. HeadsLive(stk1, d, r, v) => HeadsLive(stk2, d, r, v)
  BY DEF Agree, HeadsLive, HeadLive
<1> QED
  BY <1>1, <1>2, <1>3 DEF InOrder, Finished

LEMMA SameFrame ==
  ASSUME NEW g, NEW stk1, NEW stk2, NEW d \in Nat, Agree(stk1, stk2, d), NEW k \in 1..d,
         FrameInOrder(g, stk1, k)
  PROVE  FrameInOrder(g, stk2, k)
<1>1. stk1[k] = stk2[k] /\ k - 1 \in Nat /\ Agree(stk1, stk2, k - 1)
  BY DEF Agree
<1> QED
  BY <1>1, SameBelow DEF FrameInOrder

\* A frame that waits for nothing changes nothing.
LEMMA OneHigher ==
  ASSUME NEW g, NEW stk, NEW d \in Nat, ~WaitsForSubgraph(stk[d + 1]), NEW p, NEW r, NEW v
  PROVE  /\ InOrder(g, stk, d, p, r, v) => InOrder(g, stk, d + 1, p, r, v)
         /\ Finished(stk, d, r, v) => Finished(stk, d + 1, r, v)
         /\ Finished(stk, d + 1, r, v) => Finished(stk, d, r, v)
<1>1. \A b \in 0..d : IsBase(stk, d, b) <=> IsBase(stk, d + 1, b)
  BY DEF IsBase
<1>2. ~IsBase(stk, d + 1, d + 1)
  BY DEF IsBase
<1>3. ASSUME NEW b \in 0..d, Follows(g, stk, b, d, p, r, v)
      PROVE  Follows(g, stk, b, d + 1, p, r, v)
  <2>1. (b + 1)..d \subseteq (b + 1)..(d + 1)
    OBVIOUS
  <2> QED
    BY <1>3, <2>1 DEF Follows, ReturnsDue, SavedFor
<1>4. \A b \in 0..(d + 1) : b \in 0..d \/ b = d + 1
  OBVIOUS
<1>5. \A b \in 0..d : b \in 0..(d + 1)
  OBVIOUS
<1> QED
  BY <1>1, <1>2, <1>3, <1>4, <1>5 DEF InOrder, Finished

LEMMA LiveHigher ==
  ASSUME NEW stk, NEW d \in Nat, NEW e \in Nat, d <= e, NEW r, NEW v, HeadsLive(stk, d, r, v)
  PROVE  HeadsLive(stk, e, r, v)
BY DEF HeadsLive, HeadLive

\* A frame that waits is the base of what is above it.
LEMMA WaitingBase ==
  ASSUME NEW stk, NEW d \in Nat, WaitsForSubgraph(stk[d + 1])
  PROVE  \A b \in 0..(d + 1) : IsBase(stk, d + 1, b) <=> b = d + 1
BY DEF IsBase

\* There is one base.
LEMMA OneBase ==
  ASSUME NEW stk, NEW d \in Nat, NEW b, NEW c, IsBase(stk, d, b), IsBase(stk, d, c)
  PROVE  b = c
BY DEF IsBase

-----------------------------------------------------------------------------
(***************************************************************************)
(* Frames are pushed and popped.                                           *)
(***************************************************************************)
\* When a graph has matched, the heads are those its base was called with.
LEMMA FinishedLive ==
  ASSUME NEW g, NEW F, NEW stk \in Seq(F), StackInOrder(g, stk),
         NEW d \in 0..Len(stk), NEW r, NEW v, Finished(stk, d, r, v)
  PROVE  HeadsLive(stk, d, r, v)
<1>1. PICK b \in 0..d : r = ReturnsAt(stk, b) /\ v = SavesAt(stk, b)
  BY DEF Finished
<1>2. CASE b = 0
  BY <1>1, <1>2 DEF ReturnsAt, SavesAt, HeadsLive, HeadLive
<1>3. CASE b # 0
  <2>1. b \in 1..Len(stk) /\ b - 1 \in Nat /\ d \in Nat /\ b - 1 <= d
    BY <1>3
  <2>2. r = stk[b].state_backup.return_chain_head /\ v = stk[b].state_backup.save_chain_head
    BY <1>1, <1>3 DEF ReturnsAt, SavesAt
  <2>3. HeadsLive(stk, b - 1, r, v)
    BY <2>1, <2>2 DEF StackInOrder, FrameInOrder
  <2> QED
    BY <2>1, <2>3, LiveHigher
<1> QED
  BY <1>2, <1>3

\* What frame f must be to be pushed on stk.
Fits(g, stk, f) ==
  /\ InOrder(g, stk, Len(stk), f.node, f.state_backup.return_chain_head,
             f.state_backup.save_chain_head)
  /\ HeadsLive(stk, Len(stk), f.state_backup.return_chain_head, f.state_backup.save_chain_head)
  /\ f.kind = "SingleRollbackPointSequence" =>
       \A s \in f.next_states : Finished(stk, Len(stk), s.return_chain_head, s.save_chain_head)

LEMMA PushInOrder ==
  ASSUME NEW g, NEW F, NEW stk \in Seq(F), NEW f \in F,
         StackInOrder(g, stk), ~ScansOnTop(stk), Fits(g, stk, f)
  PROVE  /\ StackInOrder(g, Append(stk, f))
         /\ Agree(stk, Append(stk, f), Len(stk))
         /\ ScansOnTop(Append(stk, f)) <=> Scans(f)
         /\ Last(Append(stk, f)) = f
<1> DEFINE new == Append(stk, f)
           d   == Len(stk)
<1>1. /\ d \in Nat /\ new \in Seq(F) /\ new # <<>> /\ Len(new) = d + 1
      /\ \A k \in 1..d : new[k] = stk[k]
      /\ new[d + 1] = f
  BY PushedStack
<1>2. Last(new) = f
  BY <1>1 DEF Last
<1>3. stk # <<>> => Last(stk) = stk[d]
  BY DEF Last
<1>4. d # 0 => stk # <<>>
  OBVIOUS
<1> HIDE DEF new, d
<1>5. Agree(stk, new, d)
  BY <1>1 DEF Agree
<1>6. \A k \in 1..d : FrameInOrder(g, new, k)
  BY <1>1, <1>5, SameFrame DEF StackInOrder, d
<1>7. FrameInOrder(g, new, d + 1)
  <2>1. (d + 1) - 1 = d
    BY <1>1
  <2>2. /\ InOrder(g, stk, d, f.node, f.state_backup.return_chain_head,
                   f.state_backup.save_chain_head)
        /\ HeadsLive(stk, d, f.state_backup.return_chain_head, f.state_backup.save_chain_head)
        /\ f.kind = "SingleRollbackPointSequence" =>
             \A s \in f.next_states : Finished(stk, d, s.return_chain_head, s.save_chain_head)
    BY DEF Fits, d
  <2>3. /\ InOrder(g, new, d, f.node, f.state_backup.return_chain_head,
                   f.state_backup.save_chain_head)
        /\ HeadsLive(new, d, f.state_backup.return_chain_head, f.state_backup.save_chain_head)
        /\ f.kind = "SingleRollbackPointSequence" =>
             \A s \in f.next_states : Finished(new, d, s.return_chain_head, s.save_chain_head)
    BY <1>1, <1>5, <2>2, SameBelow
  <2> QED
    BY <1>1, <2>1, <2>3 DEF FrameInOrder
<1>8. \A k \in 1..(Len(new) - 1) : ~Scans(new[k])
  <2> TAKE k \in 1..(Len(new) - 1)
  <2>1. k \in 1..d /\ new[k] = stk[k]
    BY <1>1
  <2>2. k = d \/ k \in 1..(d - 1)
    BY <1>1, <2>1
  <2>3. k = d => ~Scans(stk[k])
    BY <1>1, <1>3, <1>4, <2>1 DEF ScansOnTop
  <2> QED
    BY <2>1, <2>2, <2>3 DEF StackInOrder, d
<1>9. StackInOrder(g, new)
  BY <1>1, <1>6, <1>7, <1>8 DEF StackInOrder
<1> QED
  BY <1>1, <1>2, <1>5, <1>9 DEF ScansOnTop, new, d

LEMMA PopInOrder ==
  ASSUME NEW g, NEW F, NEW stk \in Seq(F), stk # <<>>, StackInOrder(g, stk)
  PROVE  LET f   == Last(stk)
             old == Front(stk)
         IN /\ StackInOrder(g, old) /\ ~ScansOnTop(old) /\ Fits(g, old, f)
            /\ \A r, v : Finished(stk, Len(stk), r, v) =>
                 IF WaitsForSubgraph(f)
                 THEN r = f.state_backup.return_chain_head /\ v = f.state_backup.save_chain_head
                 ELSE Finished(old, Len(old), r, v)
<1> DEFINE f   == Last(stk)
           old == Front(stk)
           d   == Len(old)
<1>1. /\ d \in Nat /\ Len(stk) = d + 1 /\ old \in Seq(F)
      /\ \A k \in 1..d : old[k] = stk[k]
      /\ f = stk[d + 1]
  BY PoppedStack
<1>2. old # <<>> => d # 0 /\ Last(old) = old[d]
  BY <1>1 DEF Last
<1> HIDE DEF f, old, d
<1>3. Agree(stk, old, d)
  BY <1>1 DEF Agree
<1>4. StackInOrder(g, old)
  <2>1. \A k \in 1..d : FrameInOrder(g, old, k)
    BY <1>1, <1>3, SameFrame DEF StackInOrder
  <2>2. \A k \in 1..(d - 1) : ~Scans(old[k])
    BY <1>1 DEF StackInOrder
  <2> QED
    BY <2>1, <2>2 DEF StackInOrder, d
<1>5. ~ScansOnTop(old)
  <2>1. \A k \in 1..d : ~Scans(stk[k])
    BY <1>1 DEF StackInOrder
  <2> QED
    BY <1>1, <1>2, <2>1 DEF ScansOnTop
<1>6. Fits(g, old, f)
  <2>1. (d + 1) - 1 = d /\ d + 1 \in 1..Len(stk)
    BY <1>1
  <2>2. FrameInOrder(g, stk, d + 1)
    BY <2>1 DEF StackInOrder
  <2>3. /\ InOrder(g, stk, d, f.node, f.state_backup.return_chain_head,
                   f.state_backup.save_chain_head)
        /\ HeadsLive(stk, d, f.state_backup.return_chain_head, f.state_backup.save_chain_head)
        /\ f.kind = "SingleRollbackPointSequence" =>
             \A s \in f.next_states : Finished(stk, d, s.return_chain_head, s.save_chain_head)
    BY <1>1, <2>1, <2>2 DEF FrameInOrder
  <2>4. /\ InOrder(g, old, d, f.node, f.state_backup.return_chain_head,
                   f.state_backup.save_chain_head)
        /\ HeadsLive(old, d, f.state_backup.return_chain_head, f.state_backup.save_chain_head)
        /\ f.kind = "SingleRollbackPointSequence" =>
             \A s \in f.next_states : Finished(old, d, s.return_chain_head, s.save_chain_head)
    BY <1>1, <1>3, <2>3, SameBelow
  <2> QED
    BY <2>4 DEF Fits, d
<1>7. ASSUME NEW r, NEW v, Finished(stk, Len(stk), r, v)
      PROVE  IF WaitsForSubgraph(f)
             THEN r = f.state_backup.return_chain_head /\ v = f.state_backup.save_chain_head
             ELSE Finished(old, d, r, v)
  <2>1. Finished(stk, d + 1, r, v)
    BY <1>1, <1>7
  <2>2. CASE WaitsForSubgraph(f)
    <3>1. PICK b \in 0..(d + 1) : /\ IsBase(stk, d + 1, b)
                                  /\ r = ReturnsAt(stk, b) /\ v = SavesAt(stk, b)
      BY <2>1 DEF Finished
    <3>2. b = d + 1
      BY <1>1, <2>2, <3>1, WaitingBase
    <3> QED
      BY <1>1, <2>2, <3>1, <3>2 DEF ReturnsAt, SavesAt
  <2>3. CASE ~WaitsForSubgraph(f)
    <3>1. Finished(stk, d, r, v)
      BY <1>1, <2>1, <2>3, OneHigher
    <3>2. Finished(old, d, r, v)
      BY <1>1, <1>3, <3>1, SameBelow
    <3> QED
      BY <2>3, <3>2
  <2> QED
    BY <2>2, <2>3
<1> QED
  BY <1>4, <1>5, <1>6, <1>7 DEF f, old, d

-----------------------------------------------------------------------------
(***************************************************************************)
(* From node to node.                                                      *)
(***************************************************************************)
\* Nodes that neither begin nor end a call.
PlainNode(n) ==
  n.kind \notin {"SubroutineEnter", "SubroutineLeave", "StateSave", "StateRestore"}

\* The function of p runs above stk, and is no element of a loop that scans.
Ready(g, stk, p, r, v) ==
  p \in DOMAIN g.node /\ StackInOrder(g, stk) /\ ~ScansOnTop(stk) /\ Runs(g, stk, p, r, v)

LEMMA PlainLeads ==
  ASSUME NEW g, Orderly(g), NEW p \in DOMAIN g.node, PlainNode(g.node[p])
  PROVE  /\ p \notin Restores(g) \cup SavingCalls(g)
         /\ \A q \in ContinuationsOf(g.node[p]) \cup SubgraphsOf(g.node[p]) :
              q \notin Restores(g) \cup SavingCalls(g)
         /\ \A q \in ContinuationsOf(g.node[p]) : q \in BodyNodes(g) <=> p \in BodyNodes(g)
         /\ \A q \in SubgraphsOf(g.node[p]) : q \notin BodyNodes(g)
<1>1. WellNested(g) /\ SavesPaired(g)
  BY DEF Orderly
<1>2. p \notin Restores(g) \cup SavingCalls(g)
  BY OrdinaryNode DEF PlainNode
<1>3. g.node[p].kind # "StateSave" /\ p \notin SavingCalls(g)
  BY <1>2 DEF PlainNode
<1>4. (ContinuationsOf(g.node[p]) \cup SubgraphsOf(g.node[p])) \cap (Restores(g) \cup SavingCalls(g)) = {}
  BY <1>1, <1>3, PairedNode
<1> QED
  BY <1>1, <1>2, <1>4, NestedNode

\* What comes after a node of a body is one of the same body.
LEMMA BodyGoesOn ==
  ASSUME NEW g, NEW entry, NEW p, InBody(g, entry, p),
         NEW q \in ContinuationsOf(g.node[p]), q \in BodyNodes(g)
  PROVE  InBody(g, entry, q)
BY DEF InBody

\* The call returned to is the same one.
LEMMA ReturnsGoOn ==
  ASSUME NEW g, NEW stk, NEW b, NEW d, NEW r, NEW p, ReturnsDue(g, stk, b, d, p, r),
         NEW q \in ContinuationsOf(g.node[p]), q \in BodyNodes(g) <=> p \in BodyNodes(g)
  PROVE  ReturnsDue(g, stk, b, d, q, r)
BY BodyGoesOn DEF ReturnsDue

LEMMA OrderGoesOn ==
  ASSUME NEW g, Orderly(g), NEW p \in DOMAIN g.node, PlainNode(g.node[p]),
         NEW q \in ContinuationsOf(g.node[p]), NEW stk, NEW d, NEW r, NEW v,
         InOrder(g, stk, d, p, r, v)
  PROVE  InOrder(g, stk, d, q, r, v)
<1>1. PICK b \in 0..d : IsBase(stk, d, b) /\ Follows(g, stk, b, d, p, r, v)
  BY DEF InOrder
<1>2. /\ p \notin Restores(g) \cup SavingCalls(g) /\ q \notin Restores(g) \cup SavingCalls(g)
      /\ q \in BodyNodes(g) <=> p \in BodyNodes(g)
  BY PlainLeads
<1>3. ReturnsDue(g, stk, b, d, q, r)
  BY <1>1, <1>2, ReturnsGoOn DEF Follows
<1>4. Follows(g, stk, b, d, q, r, v)
  BY <1>1, <1>2, <1>3 DEF Follows, SavesDue
<1> QED
  BY <1>1, <1>4 DEF InOrder

\* The next node, above the same frames.
LEMMA EnterNext ==
  ASSUME NEW g, Orderly(g), NEW p \in DOMAIN g.node, PlainNode(g.node[p]),
         NEW q \in ContinuationsOf(g.node[p]), NEW stk, NEW r, NEW v,
         Ready(g, stk, p, r, v)
  PROVE  Entered(g, stk, q, r, v)
BY OrderGoesOn DEF Ready, Entered, Runs

\* Frame f is one of node p with a copy of a State with heads r and v.
Copies(stk, f, p, r, v) ==
  /\ f.node = p /\ f.state_backup.return_chain_head = r /\ f.state_backup.save_chain_head = v
  /\ f.kind = "SingleRollbackPointSequence" =>
       \A s \in f.next_states : Finished(stk, Len(stk), s.return_chain_head, s.save_chain_head)

LEMMA CopyFits ==
  ASSUME NEW g, NEW stk, NEW f, NEW p, NEW r, NEW v, Ready(g, stk, p, r, v), Copies(stk, f, p, r, v)
  PROVE  Fits(g, stk, f)
BY DEF Ready, Runs, Copies, Fits

\* The next node, above a frame that keeps a way to go back.
LEMMA EnterAbove ==
  ASSUME NEW g, Orderly(g), NEW p \in DOMAIN g.node, PlainNode(g.node[p]),
         NEW q \in ContinuationsOf(g.node[p]), NEW F, NEW stk \in Seq(F), NEW r, NEW v,
         Ready(g, stk, p, r, v),
         NEW f \in F, Copies(stk, f, p, r, v), ~WaitsForSubgraph(f)
  PROVE  Entered(g, Append(stk, f), q, r, v)
<1> DEFINE new == Append(stk, f)
           d   == Len(stk)
<1>1. Fits(g, stk, f) /\ StackInOrder(g, stk) /\ ~ScansOnTop(stk)
  BY CopyFits DEF Ready
<1>2. StackInOrder(g, new) /\ Agree(stk, new, d) /\ (ScansOnTop(new) <=> Scans(f))
  BY <1>1, PushInOrder
<1>3. d \in Nat /\ Len(new) = d + 1 /\ new[d + 1] = f
  BY PushedStack
<1>4. InOrder(g, stk, d, q, r, v) /\ HeadsLive(stk, d, r, v)
  BY OrderGoesOn DEF Ready, Runs
<1> HIDE DEF new, d
<1>5. InOrder(g, new, d, q, r, v) /\ HeadsLive(new, d, r, v)
  BY <1>2, <1>3, <1>4, SameBelow
<1>6. d + 1 \in Nat /\ d <= d + 1
  BY <1>3
<1>7. InOrder(g, new, d + 1, q, r, v)
  BY <1>3, <1>5, OneHigher
<1>8. HeadsLive(new, d + 1, r, v)
  BY <1>3, <1>5, <1>6, LiveHigher
<1>9. ~Scans(f)
  BY DEF Scans, WaitsForSubgraph
<1> QED
  BY <1>2, <1>3, <1>7, <1>8, <1>9 DEF Entered, Runs, new

\* A graph of its own, above the frame that waits for it.
LEMMA EnterInside ==
  ASSUME NEW g, Orderly(g), NEW p \in DOMAIN g.node, PlainNode(g.node[p]),
         NEW q \in SubgraphsOf(g.node[p]), NEW F, NEW stk \in Seq(F), NEW r, NEW v,
         Ready(g, stk, p, r, v),
         NEW f \in F, Copies(stk, f, p, r, v), WaitsForSubgraph(f),
         Scans(f) => q = g.node[p].sequence_element
  PROVE  Entered(g, Append(stk, f), q, r, v)
<1> DEFINE new == Append(stk, f)
           d   == Len(stk)
<1>1. Fits(g, stk, f) /\ StackInOrder(g, stk) /\ ~ScansOnTop(stk)
  BY CopyFits DEF Ready
<1>2. /\ StackInOrder(g, new) /\ Agree(stk, new, d)
      /\ (ScansOnTop(new) <=> Scans(f)) /\ Last(new) = f
  BY <1>1, PushInOrder
<1>3. d \in Nat /\ Len(new) = d + 1 /\ new[d + 1] = f
  BY PushedStack
<1>4. HeadsLive(stk, d, r, v)
  BY DEF Ready, Runs
<1> HIDE DEF new, d
<1>5. HeadsLive(new, d, r, v) /\ d + 1 \in Nat /\ d <= d + 1
  BY <1>2, <1>3, <1>4, SameBelow
<1>6. HeadsLive(new, d + 1, r, v)
  BY <1>3, <1>5, LiveHigher
<1>7. IsBase(new, d + 1, d + 1) /\ d + 1 \in 0..(d + 1) /\ d + 1 # 0
  BY <1>3, WaitingBase
<1>8. r = ReturnsAt(new, d + 1) /\ v = SavesAt(new, d + 1)
  BY <1>3, <1>7 DEF Copies, ReturnsAt, SavesAt
<1>9. q \notin BodyNodes(g) /\ q \notin Restores(g) \cup SavingCalls(g)
  BY PlainLeads
<1>10. Follows(g, new, d + 1, d + 1, q, r, v)
  BY <1>8, <1>9 DEF Follows, ReturnsDue, SavesDue
<1>11. InOrder(g, new, d + 1, q, r, v)
  BY <1>7, <1>10 DEF InOrder
<1>12. ScansOnTop(new) => q \in {g.node[Last(new).node].sequence_element, nullptr}
  BY <1>2 DEF Copies
<1> QED
  BY <1>2, <1>3, <1>6, <1>11, <1>12 DEF Entered, Runs, new

\* What is no part of a body ends with the heads its base had.
LEMMA OrderEnds ==
  ASSUME NEW g, NEW stk, NEW d, NEW p, NEW r, NEW v, InOrder(g, stk, d, p, r, v),
         p \notin BodyNodes(g), p \notin Restores(g) \cup SavingCalls(g)
  PROVE  Finished(stk, d, r, v)
BY DEF InOrder, Follows, ReturnsDue, SavesDue, Finished

LEMMA NullEnds ==
  ASSUME NEW g, GraphOK(g), Orderly(g), NEW stk, NEW d, NEW r, NEW v,
         InOrder(g, stk, d, nullptr, r, v)
  PROVE  Finished(stk, d, r, v)
<1>1. nullptr \notin DOMAIN g.node
  BY DEF GraphOK
<1>2. nullptr \notin BodyNodes(g)
  BY <1>1, NestedGraph DEF Orderly
<1>3. nullptr \notin Restores(g) \cup SavingCalls(g)
  BY <1>1, OrdinaryNode
<1> QED
  BY <1>2, <1>3, OrderEnds

-----------------------------------------------------------------------------
(***************************************************************************)
(* Calls, saves, and the way back from them.                               *)
(***************************************************************************)
\* What the nodes of a call lead on to.
LEMMA CallLeads ==
  ASSUME NEW g, Orderly(g), NEW p \in DOMAIN g.node, ~PlainNode(g.node[p])
  PROVE  /\ g.node[p].kind = "SubroutineEnter" =>
              /\ g.node[p].subroutine_node \in BodyNodes(g)
              /\ g.node[p].subroutine_node \notin Restores(g) \cup SavingCalls(g)
              /\ p \notin Restores(g)
              /\ IF p \in SavingCalls(g) THEN g.node[p].next \in Restores(g)
                 ELSE g.node[p].next \notin Restores(g) \cup SavingCalls(g)
         /\ g.node[p].kind = "SubroutineLeave" =>
              p \in BodyNodes(g) /\ p \notin Restores(g) \cup SavingCalls(g)
         /\ g.node[p].kind = "StateSave" =>
              /\ p \notin Restores(g) \cup SavingCalls(g)
              /\ g.node[p].next \in SavingCalls(g) /\ g.node[p].next \notin Restores(g)
         /\ g.node[p].kind = "StateRestore" =>
              p \in Restores(g) /\ g.node[p].next \notin Restores(g) \cup SavingCalls(g)
         /\ g.node[p].kind # "SubroutineLeave" =>
              (g.node[p].next \in BodyNodes(g) <=> p \in BodyNodes(g))
<1> DEFINE n == g.node[p]
<1>1. WellNested(g) /\ SavesPaired(g)
  BY DEF Orderly
<1>2. n.kind # "SubroutineLeave" => n.next \in ContinuationsOf(n)
  BY DEF PlainNode, ContinuationsOf
<1>3. n.kind = "SubroutineEnter" => SubroutinesOf(n) = {n.subroutine_node}
  BY DEF SubroutinesOf
<1>4. /\ p \in Restores(g) <=> n.kind = "StateRestore"
      /\ p \in SavingCalls(g) <=> n.kind = "SubroutineEnter" /\ n.next \in Restores(g)
      /\ Restores(g) \cap SavingCalls(g) = {}
  BY DEF Restores, SavingCalls
<1>5. /\ p \notin SavingCalls(g) =>
           (ContinuationsOf(n) \cup SubgraphsOf(n) \cup SubroutinesOf(n)) \cap Restores(g) = {}
      /\ n.kind # "StateSave" =>
           (ContinuationsOf(n) \cup SubgraphsOf(n) \cup SubroutinesOf(n)) \cap SavingCalls(g) = {}
      /\ n.kind = "StateSave" => n.next \in SavingCalls(g)
      /\ p \in SavingCalls(g) => n.subroutine_node \notin Restores(g) \cup SavingCalls(g)
  BY <1>1, PairedNode
<1>6. /\ SubroutinesOf(n) \subseteq BodyNodes(g)
      /\ n.kind = "SubroutineLeave" => p \in BodyNodes(g)
      /\ \A q \in ContinuationsOf(n) : q \in BodyNodes(g) <=> p \in BodyNodes(g)
  BY <1>1, NestedNode
<1> HIDE DEF n
<1>7. n.kind = "SubroutineEnter" =>
        /\ n.subroutine_node \in BodyNodes(g)
        /\ n.subroutine_node \notin Restores(g) \cup SavingCalls(g)
        /\ p \notin Restores(g)
        /\ IF p \in SavingCalls(g) THEN n.next \in Restores(g)
           ELSE n.next \notin Restores(g) \cup SavingCalls(g)
  BY <1>2, <1>3, <1>4, <1>5, <1>6
<1>8. n.kind = "SubroutineLeave" =>
        p \in BodyNodes(g) /\ p \notin Restores(g) \cup SavingCalls(g)
  BY <1>4, <1>6
<1>9. n.kind = "StateSave" =>
        /\ p \notin Restores(g) \cup SavingCalls(g)
        /\ n.next \in SavingCalls(g) /\ n.next \notin Restores(g)
  BY <1>4, <1>5
<1>10. n.kind = "StateRestore" =>
         p \in Restores(g) /\ n.next \notin Restores(g) \cup SavingCalls(g)
  BY <1>2, <1>4, <1>5
<1>11. n.kind # "SubroutineLeave" => (n.next \in BodyNodes(g) <=> p \in BodyNodes(g))
  BY <1>2, <1>6
<1> QED
  BY <1>7, <1>8, <1>9, <1>10, <1>11 DEF n

\* SubroutineEnter.
LEMMA EnterBody ==
  ASSUME NEW g, Orderly(g), NEW p \in DOMAIN g.node, g.node[p].kind = "SubroutineEnter",
         NEW F, NEW stk \in Seq(F), NEW r, NEW v, Ready(g, stk, p, r, v),
         NEW f \in F, Copies(stk, f, p, r, v), f.kind = "SubroutineEnter"
  PROVE  Entered(g, Append(stk, f), g.node[p].subroutine_node, Len(stk) + 1, v)
<1> DEFINE new == Append(stk, f)
           d   == Len(stk)
           q   == g.node[p].subroutine_node
<1>1. Fits(g, stk, f) /\ StackInOrder(g, stk) /\ ~ScansOnTop(stk)
  BY CopyFits DEF Ready
<1>2. StackInOrder(g, new) /\ Agree(stk, new, d) /\ (ScansOnTop(new) <=> Scans(f))
  BY <1>1, PushInOrder
<1>3. d \in Nat /\ Len(new) = d + 1 /\ new[d + 1] = f
  BY PushedStack
<1>4. q \in BodyNodes(g) /\ q \notin Restores(g) \cup SavingCalls(g)
  BY CallLeads DEF PlainNode
<1>5. HeadsLive(stk, d, r, v)
  BY DEF Ready, Runs
<1>6. PICK b \in 0..d : IsBase(stk, d, b)
  BY DEF Ready, Runs, InOrder
<1>7. ~WaitsForSubgraph(f) /\ ~Scans(f)
  BY DEF WaitsForSubgraph, Scans, LookKinds
<1> HIDE DEF new, d, q
<1>8. IsBase(new, d + 1, b) /\ b \in 0..(d + 1)
  <2>1. \A k \in 1..d : new[k] = stk[k]
    BY <1>2 DEF Agree
  <2> QED
    BY <1>3, <1>6, <1>7, <2>1 DEF IsBase
<1>9. d + 1 \in (b + 1)..(d + 1) /\ d + 1 \in 1..(d + 1) /\ d + 1 \in Nat /\ d <= d + 1
  BY <1>3, <1>6
<1>10. Follows(g, new, b, d + 1, q, d + 1, v)
  <2>1. g.node[new[d + 1].node].subroutine_node = q
    BY <1>3 DEF Copies, q
  <2>2. InBody(g, q, q)
    BY DEF InBody
  <2> QED
    BY <1>3, <1>4, <1>9, <2>1, <2>2 DEF Follows, ReturnsDue, SavesDue, Copies
<1>11. InOrder(g, new, d + 1, q, d + 1, v)
  BY <1>8, <1>10 DEF InOrder
<1>12. HeadsLive(new, d + 1, d + 1, v)
  <2>1. HeadsLive(new, d, r, v)
    BY <1>2, <1>3, <1>5, SameBelow
  <2>2. HeadsLive(new, d + 1, r, v)
    BY <1>3, <1>9, <2>1, LiveHigher
  <2> QED
    BY <1>3, <1>9, <2>2 DEF HeadsLive, HeadLive
<1> QED
  BY <1>2, <1>3, <1>7, <1>11, <1>12 DEF Entered, Runs, new, d, q

\* StateSave.
LEMMA EnterSaved ==
  ASSUME NEW g, Orderly(g), NEW p \in DOMAIN g.node, g.node[p].kind = "StateSave",
         NEW F, NEW stk \in Seq(F), NEW r, NEW v, Ready(g, stk, p, r, v),
         NEW f \in F, Copies(stk, f, p, r, v), f.kind = "StateSave"
  PROVE  Entered(g, Append(stk, f), g.node[p].next, r, Len(stk) + 1)
<1> DEFINE new == Append(stk, f)
           d   == Len(stk)
           q   == g.node[p].next
<1>1. Fits(g, stk, f) /\ StackInOrder(g, stk) /\ ~ScansOnTop(stk)
  BY CopyFits DEF Ready
<1>2. StackInOrder(g, new) /\ Agree(stk, new, d) /\ (ScansOnTop(new) <=> Scans(f))
  BY <1>1, PushInOrder
<1>3. d \in Nat /\ Len(new) = d + 1 /\ new[d + 1] = f
  BY PushedStack
<1>4. /\ p \notin Restores(g) \cup SavingCalls(g)
      /\ q \in SavingCalls(g) /\ q \notin Restores(g)
      /\ q \in BodyNodes(g) <=> p \in BodyNodes(g)
      /\ q \in ContinuationsOf(g.node[p])
  BY CallLeads, NodePointers DEF PlainNode, NextKinds
<1>5. HeadsLive(stk, d, r, v)
  BY DEF Ready, Runs
<1>6. PICK b \in 0..d : IsBase(stk, d, b) /\ Follows(g, stk, b, d, p, r, v)
  BY DEF Ready, Runs, InOrder
<1>7. ~WaitsForSubgraph(f) /\ ~Scans(f)
  BY DEF WaitsForSubgraph, Scans, LookKinds
<1> HIDE DEF new, d
<1>8. \A k \in 1..d : new[k] = stk[k]
  BY <1>2 DEF Agree
<1>9. IsBase(new, d + 1, b) /\ b \in 0..(d + 1)
  BY <1>3, <1>6, <1>7, <1>8 DEF IsBase
<1>10. d + 1 \in (b + 1)..(d + 1) /\ d + 1 \in 1..(d + 1) /\ d + 1 \in Nat /\ d <= d + 1
  BY <1>3, <1>6
<1>11. ReturnsAt(new, b) = ReturnsAt(stk, b) /\ SavesAt(new, b) = SavesAt(stk, b)
  BY <1>3, <1>6, <1>8 DEF ReturnsAt, SavesAt
<1>12. ReturnsDue(g, new, b, d + 1, q, r) /\ SavesDue(g, new, b, q, r) = v
  <2>1. v = SavesDue(g, stk, b, p, r)
    BY <1>4, <1>6 DEF Follows
  <2>2. ReturnsDue(g, stk, b, d, q, r)
    BY <1>4, <1>6, ReturnsGoOn DEF Follows
  <2>3. CASE p \in BodyNodes(g)
    <3>1. /\ r \in (b + 1)..d /\ stk[r].kind = "SubroutineEnter"
          /\ InBody(g, g.node[stk[r].node].subroutine_node, q)
      BY <1>4, <2>2, <2>3 DEF ReturnsDue
    <3>2. new[r] = stk[r] /\ r \in (b + 1)..(d + 1)
      BY <1>3, <1>6, <1>8, <3>1
    <3> QED
      BY <1>4, <2>1, <2>3, <3>1, <3>2 DEF SavesDue, ReturnsDue
  <2>4. CASE p \notin BodyNodes(g)
    BY <1>4, <1>11, <2>1, <2>2, <2>4 DEF SavesDue, ReturnsDue
  <2> QED
    BY <2>3, <2>4
<1>13. SavedFor(g, new, b, d + 1, q, r, d + 1)
  BY <1>3, <1>4, <1>10, <1>12 DEF SavedFor, Copies
<1>14. Follows(g, new, b, d + 1, q, r, d + 1)
  BY <1>4, <1>12, <1>13 DEF Follows
<1>15. InOrder(g, new, d + 1, q, r, d + 1)
  BY <1>9, <1>14 DEF InOrder
<1>16. HeadsLive(new, d + 1, r, d + 1)
  <2>1. HeadsLive(new, d, r, v)
    BY <1>2, <1>3, <1>5, SameBelow
  <2>2. HeadsLive(new, d + 1, r, v)
    BY <1>3, <1>10, <2>1, LiveHigher
  <2> QED
    BY <1>3, <1>10, <2>2 DEF HeadsLive, HeadLive
<1> QED
  BY <1>2, <1>3, <1>7, <1>15, <1>16 DEF Entered, Runs, new, d

\* The frames are those of nodes of their kinds.
FramesOf(g, stk) ==
  \A k \in 1..Len(stk) : stk[k].node \in DOMAIN g.node /\ g.node[stk[k].node].kind = stk[k].kind

\* SubroutineLeave.
LEMMA LeaveBody ==
  ASSUME NEW g, Orderly(g), NEW p \in DOMAIN g.node, g.node[p].kind = "SubroutineLeave",
         NEW F, NEW stk \in Seq(F), FramesOf(g, stk), NEW r, NEW v, Ready(g, stk, p, r, v)
  PROVE  /\ r \in 1..Len(stk) /\ stk[r].kind = "SubroutineEnter"
         /\ v = stk[r].state_backup.save_chain_head
         /\ p \in BodyNodes(g) /\ InBody(g, g.node[stk[r].node].subroutine_node, p)
         /\ Entered(g, stk, g.node[stk[r].node].next, stk[r].state_backup.return_chain_head, v)
<1> DEFINE d == Len(stk)
           f == stk[r]
           m == f.node
           q == g.node[m].next
           s == f.state_backup.return_chain_head
<1>1. p \in BodyNodes(g) /\ p \notin Restores(g) \cup SavingCalls(g)
  BY CallLeads DEF PlainNode
<1>2. PICK b \in 0..d : IsBase(stk, d, b) /\ Follows(g, stk, b, d, p, r, v)
  BY DEF Ready, Runs, InOrder
<1>3. /\ r \in (b + 1)..d /\ f.kind = "SubroutineEnter" /\ v = f.state_backup.save_chain_head
      /\ InBody(g, g.node[m].subroutine_node, p)
  BY <1>1, <1>2 DEF Follows, ReturnsDue, SavesDue
<1>4. /\ d \in Nat /\ r \in 1..d /\ r - 1 \in Nat /\ r - 1 <= d /\ b \in 0..(r - 1)
      /\ (b + 1)..(r - 1) \subseteq (b + 1)..d
  <2>1. d \in Nat
    OBVIOUS
  <2>2. r \in (b + 1)..d /\ b \in 0..d
    BY <1>3
  <2> HIDE DEF d, f, m, q, s
  <2> QED
    BY <2>1, <2>2
<1>5. FrameInOrder(g, stk, r) /\ m \in DOMAIN g.node /\ g.node[m].kind = "SubroutineEnter"
  BY <1>3, <1>4 DEF Ready, StackInOrder, FramesOf
<1>6. /\ m \notin Restores(g)
      /\ IF m \in SavingCalls(g) THEN q \in Restores(g) ELSE q \notin Restores(g) \cup SavingCalls(g)
      /\ q \in BodyNodes(g) <=> m \in BodyNodes(g)
      /\ q \in ContinuationsOf(g.node[m])
  BY <1>5, CallLeads, NodePointers DEF PlainNode, NextKinds
<1>7. InOrder(g, stk, r - 1, m, s, v) /\ HeadsLive(stk, r - 1, s, v)
  BY <1>3, <1>5 DEF FrameInOrder
<1>8. HeadsLive(stk, d, s, v)
  BY <1>4, <1>7, LiveHigher
<1> HIDE DEF d, f, m, q, s
<1>9. IsBase(stk, r - 1, b)
  BY <1>2, <1>4 DEF IsBase
<1>10. PICK c \in 0..(r - 1) : IsBase(stk, r - 1, c) /\ Follows(g, stk, c, r - 1, m, s, v)
  BY <1>7 DEF InOrder
<1>11. c = b
  BY <1>4, <1>9, <1>10, OneBase
<1>12. Follows(g, stk, b, r - 1, m, s, v)
  BY <1>10, <1>11
<1>13. /\ ReturnsDue(g, stk, b, d, q, s)
       /\ SavesDue(g, stk, b, q, s) = SavesDue(g, stk, b, m, s)
  <2>1. ReturnsDue(g, stk, b, r - 1, q, s)
    BY <1>6, <1>12, ReturnsGoOn DEF Follows
  <2>2. ReturnsDue(g, stk, b, d, q, s)
    BY <1>4, <2>1 DEF ReturnsDue
  <2> QED
    BY <1>6, <2>2 DEF SavesDue
<1>14. CASE m \in SavingCalls(g)
  <2>1. SavedFor(g, stk, b, r - 1, m, s, v)
    BY <1>12, <1>14 DEF Follows
  <2>2. /\ v \in (b + 1)..d /\ stk[v].kind = "StateSave"
        /\ stk[v].state_backup.return_chain_head = s
        /\ stk[v].state_backup.save_chain_head = SavesDue(g, stk, b, q, s)
        /\ m = g.node[stk[v].node].next
    BY <1>4, <1>6, <1>13, <2>1 DEF SavedFor
  <2>3. q = g.node[g.node[stk[v].node].next].next
    BY <2>2 DEF q
  <2>4. SavedFor(g, stk, b, d, q, s, v)
    BY <1>6, <1>14, <2>2, <2>3 DEF SavedFor
  <2>5. Follows(g, stk, b, d, q, s, v)
    BY <1>6, <1>13, <1>14, <2>4 DEF Follows
  <2>6. InOrder(g, stk, d, q, s, v)
    BY <1>2, <2>5 DEF InOrder
  <2> QED
    BY <1>1, <1>3, <1>4, <1>8, <2>6 DEF Entered, Runs, Ready, d, f, m, q, s
<1>15. CASE m \notin SavingCalls(g)
  <2>1. v = SavesDue(g, stk, b, q, s)
    BY <1>6, <1>12, <1>13, <1>15 DEF Follows
  <2>2. Follows(g, stk, b, d, q, s, v)
    BY <1>6, <1>13, <1>15, <2>1 DEF Follows
  <2>3. InOrder(g, stk, d, q, s, v)
    BY <1>2, <2>2 DEF InOrder
  <2> QED
    BY <1>1, <1>3, <1>4, <1>8, <2>3 DEF Entered, Runs, Ready, d, f, m, q, s
<1> QED
  BY <1>14, <1>15

\* StateRestore.
LEMMA EnterRestored ==
  ASSUME NEW g, Orderly(g), NEW p \in DOMAIN g.node, g.node[p].kind = "StateRestore",
         NEW F, NEW stk \in Seq(F), FramesOf(g, stk), NEW r, NEW v, Ready(g, stk, p, r, v)
  PROVE  /\ v \in 1..Len(stk) /\ stk[v].kind = "StateSave"
         /\ g.node[g.node[stk[v].node].next].next = p
         /\ Entered(g, stk, g.node[p].next, r, stk[v].state_backup.save_chain_head)
<1> DEFINE d == Len(stk)
           q == g.node[p].next
           w == stk[v].state_backup.save_chain_head
<1>1. /\ p \in Restores(g) /\ q \notin Restores(g) \cup SavingCalls(g)
      /\ q \in BodyNodes(g) <=> p \in BodyNodes(g)
      /\ q \in ContinuationsOf(g.node[p])
  BY CallLeads, NodePointers DEF PlainNode, NextKinds
<1>2. PICK b \in 0..d : IsBase(stk, d, b) /\ Follows(g, stk, b, d, p, r, v)
  BY DEF Ready, Runs, InOrder
<1>3. SavedFor(g, stk, b, d, p, r, v)
  BY <1>1, <1>2 DEF Follows
<1>4. /\ v \in (b + 1)..d /\ stk[v].kind = "StateSave"
      /\ stk[v].state_backup.return_chain_head = r /\ w = SavesDue(g, stk, b, p, r)
      /\ p = g.node[g.node[stk[v].node].next].next
  BY <1>1, <1>3 DEF SavedFor
<1>5. d \in Nat /\ v \in 1..d /\ v - 1 \in Nat /\ v - 1 <= d
  <2>1. d \in Nat
    OBVIOUS
  <2>2. v \in (b + 1)..d /\ b \in 0..d
    BY <1>4
  <2> HIDE DEF d, q, w
  <2> QED
    BY <2>1, <2>2
<1>6. HeadsLive(stk, v - 1, r, w)
  BY <1>4, <1>5 DEF Ready, StackInOrder, FrameInOrder
<1>7. HeadsLive(stk, d, r, w)
  BY <1>5, <1>6, LiveHigher
<1>8. Follows(g, stk, b, d, q, r, w)
  <2>1. ReturnsDue(g, stk, b, d, q, r)
    BY <1>1, <1>2, ReturnsGoOn DEF Follows
  <2> QED
    BY <1>1, <1>4, <2>1 DEF Follows, SavesDue
<1>9. InOrder(g, stk, d, q, r, w)
  BY <1>2, <1>8 DEF InOrder
<1> QED
  BY <1>4, <1>5, <1>7, <1>9 DEF Entered, Runs, Ready

-----------------------------------------------------------------------------
(***************************************************************************)
(* The steps of the functions.                                             *)
(***************************************************************************)
Ordered == Running /\ Orderly(graph) /\ ChainsInOrder

SameHeads(t, s) ==
  t.return_chain_head = s.return_chain_head /\ t.save_chain_head = s.save_chain_head

\* s is a State for the function of p above stk.
ReadyFor(stk, p, s) == Ready(graph, stk, p, s.return_chain_head, s.save_chain_head)

LEMMA HeadsKept ==
  ASSUME NEW s \in StateType, NEW x, NEW y, NEW z
  PROVE  /\ SameHeads(s, s)
         /\ SameHeads(Moved(s, x), s)
         /\ SameHeads([s EXCEPT !.groups[x] = y], s)
         /\ SameHeads([s EXCEPT !.groups[x].end = y], s)
         /\ SameHeads([s EXCEPT !.sequence_counters[x] = y], s)
         /\ SameHeads([s EXCEPT !.sequence_counters[x] = y, !.stored = z], s)
<1>1. /\ s.return_chain_head = s.return_chain_head
      /\ \A f : \A e : (f \notin {"return_chain_head", "save_chain_head"}) =>
           /\ [s EXCEPT ![f] = e].return_chain_head = s.return_chain_head
           /\ [s EXCEPT ![f] = e].save_chain_head = s.save_chain_head
  BY DEF StateType
<1>2. /\ SameHeads(s, s)
      /\ SameHeads(Moved(s, x), s)
      /\ SameHeads([s EXCEPT !.groups[x] = y], s)
  BY <1>1 DEF SameHeads, Moved
<1>3. /\ SameHeads([s EXCEPT !.groups[x].end = y], s)
      /\ SameHeads([s EXCEPT !.sequence_counters[x] = y], s)
  BY <1>1 DEF SameHeads
<1>4. SameHeads([s EXCEPT !.sequence_counters[x] = y, !.stored = z], s)
  BY DEF StateType, SameHeads
<1> QED
  BY <1>2, <1>3, <1>4

LEMMA CallOrder ==
  ASSUME NEW p, NEW s, NEW stk, Call(p, s, stk),
         Entered(graph, stk, p, s.return_chain_head, s.save_chain_head)
  PROVE  ChainsInOrder'
<1>1. pc' = "call" /\ function' = p /\ state' = s /\ stack' = stk /\ graph' = graph
  BY DEF Call, graph
<1> QED
  BY <1>1 DEF ChainsInOrder

LEMMA RetOrder ==
  ASSUME NEW value, NEW s, NEW stk, Ret(value, s, stk),
         Left(graph, stk, value, s.return_chain_head, s.save_chain_head)
  PROVE  ChainsInOrder'
<1>1. pc' = "ret" /\ res' = value /\ state' = s /\ stack' = stk /\ graph' = graph
  BY DEF Ret, graph
<1> QED
  BY <1>1 DEF ChainsInOrder

LEMMA NextOrder ==
  ASSUME Orderly(graph), NEW stk, NEW p \in DOMAIN graph.node, NEW s, ReadyFor(stk, p, s),
         PlainNode(graph.node[p]), NEW q \in ContinuationsOf(graph.node[p]),
         NEW t, SameHeads(t, s), Call(q, t, stk)
  PROVE  ChainsInOrder'
<1>1. Entered(graph, stk, q, s.return_chain_head, s.save_chain_head)
  BY EnterNext DEF ReadyFor
<1> QED
  BY <1>1, CallOrder DEF SameHeads

LEMMA AboveOrder ==
  ASSUME Orderly(graph), NEW stk \in Seq(Frames), NEW p \in DOMAIN graph.node, NEW s,
         ReadyFor(stk, p, s), PlainNode(graph.node[p]), NEW q \in ContinuationsOf(graph.node[p]),
         NEW f \in Frames, Copies(stk, f, p, s.return_chain_head, s.save_chain_head),
         ~WaitsForSubgraph(f), NEW t, SameHeads(t, s), Call(q, t, Append(stk, f))
  PROVE  ChainsInOrder'
<1>1. Entered(graph, Append(stk, f), q, s.return_chain_head, s.save_chain_head)
  BY EnterAbove DEF ReadyFor
<1> QED
  BY <1>1, CallOrder DEF SameHeads

LEMMA InsideOrder ==
  ASSUME Orderly(graph), NEW stk \in Seq(Frames), NEW p \in DOMAIN graph.node, NEW s,
         ReadyFor(stk, p, s), PlainNode(graph.node[p]), NEW q \in SubgraphsOf(graph.node[p]),
         NEW f \in Frames, Copies(stk, f, p, s.return_chain_head, s.save_chain_head),
         WaitsForSubgraph(f), Scans(f) => q = graph.node[p].sequence_element,
         NEW t, SameHeads(t, s), Call(q, t, Append(stk, f))
  PROVE  ChainsInOrder'
<1>1. Entered(graph, Append(stk, f), q, s.return_chain_head, s.save_chain_head)
  BY EnterInside DEF ReadyFor
<1> QED
  BY <1>1, CallOrder DEF SameHeads

LEMMA FailOrder ==
  ASSUME NEW stk, StackInOrder(graph, stk), ~ScansOnTop(stk), NEW s, Ret(FALSE, s, stk)
  PROVE  ChainsInOrder'
BY RetOrder DEF Left

LEMMA MatchedOrder ==
  ASSUME NEW stk, StackInOrder(graph, stk), NEW value, NEW s, Ret(value, s, stk),
         Finished(stk, Len(stk), s.return_chain_head, s.save_chain_head)
  PROVE  ChainsInOrder'
BY RetOrder DEF Left

\* Above a frame that scans runs its element, or the end of that.
LEMMA ScanFacts ==
  ASSUME Ordered, pc = "call", ScansOnTop(stack), function # nullptr
  PROVE  /\ Here.kind \in {"SpecificSymbol", "String", "OneOf"} /\ Here.next = nullptr
         /\ function \notin BodyNodes(graph)
<1> DEFINE m == Caller.node
           n == graph.node[m]
<1>1. Typed /\ Orderly(graph) /\ stack # <<>> /\ Scans(Caller)
  BY DEF Ordered, Running, ScansOnTop, Caller
<1>2. Caller \in Frames
  BY <1>1, CallerFacts
<1>3. m \in DOMAIN graph.node /\ n.kind = "FixedLengthElementSequence"
  BY <1>1, <1>2, FrameFacts DEF Scans
<1>4. function = n.sequence_element
  BY DEF Ordered, ChainsInOrder, Entered, Caller
<1>5. SubgraphsOf(n) = {n.sequence_element}
  BY <1>3 DEF SubgraphsOf, LoopKinds, LookKinds
<1>6. function \notin BodyNodes(graph)
  BY <1>1, <1>3, <1>4, <1>5, NestedNode DEF Orderly
<1>7. /\ graph.node[n.sequence_element].kind \in {"SpecificSymbol", "String", "OneOf"}
      /\ graph.node[n.sequence_element].next = nullptr
  BY <1>1, <1>3 DEF Orderly, LoopsExact
<1> QED
  BY <1>4, <1>6, <1>7 DEF Here

LEMMA AtReady ==
  ASSUME Ordered, NEW kind, At(kind)
  PROVE  /\ Orderly(graph) /\ function \in DOMAIN graph.node /\ Here = graph.node[function]
         /\ kind \notin {"SubroutineEnter", "SubroutineLeave", "StateSave", "StateRestore"} =>
              PlainNode(Here)
         /\ kind \notin {"SpecificSymbol", "String", "OneOf"} => ReadyFor(stack, function, state)
<1>1. Running /\ Orderly(graph) /\ pc = "call"
  BY DEF Ordered, At
<1>2. function # nullptr /\ Here.kind = kind /\ function \in DOMAIN graph.node /\ Here = graph.node[function]
  BY <1>1, AtFacts, HereFacts
<1>3. Entered(graph, stack, function, state.return_chain_head, state.save_chain_head)
  BY <1>1 DEF Ordered, ChainsInOrder
<1>4. ScansOnTop(stack) => kind \in {"SpecificSymbol", "String", "OneOf"}
  BY <1>1, <1>2, ScanFacts
<1> QED
  BY <1>1, <1>2, <1>3, <1>4 DEF ReadyFor, Ready, Entered, PlainNode

LEMMA BackReady ==
  ASSUME Ordered, NEW kind, BackIn(kind)
  PROVE  /\ Orderly(graph) /\ Caller.node \in DOMAIN graph.node
         /\ CallerNode = graph.node[Caller.node]
         /\ kind \notin {"SubroutineEnter", "SubroutineLeave", "StateSave", "StateRestore"} =>
              PlainNode(CallerNode)
         /\ ReadyFor(Callers, Caller.node, Caller.state_backup)
         /\ StackInOrder(graph, Callers) /\ ~ScansOnTop(Callers)
         /\ Caller.kind = "SingleRollbackPointSequence" =>
              \A s \in Caller.next_states :
                Finished(Callers, Len(Callers), s.return_chain_head, s.save_chain_head)
         /\ res \/ Scans(Caller) =>
              IF WaitsForSubgraph(Caller)
              THEN SameHeads(state, Caller.state_backup) /\ ReadyFor(Callers, Caller.node, state)
              ELSE Finished(Callers, Len(Callers), state.return_chain_head, state.save_chain_head)
<1>1. Running /\ Orderly(graph) /\ pc = "ret" /\ stack # <<>>
  BY DEF Ordered, BackIn
<1>2. /\ Typed /\ Caller \in Frames /\ CallerNode = graph.node[Caller.node] /\ CallerNode.kind = kind
      /\ stack \in Seq(Frames)
  BY <1>1, BackInFacts DEF Typed
<1>3. Caller.node \in DOMAIN graph.node
  BY <1>2, FrameFacts
<1>4. Left(graph, stack, res, state.return_chain_head, state.save_chain_head)
  BY <1>1 DEF Ordered, ChainsInOrder
<1>5. StackInOrder(graph, stack)
  BY <1>4 DEF Left
<1>6. /\ StackInOrder(graph, Callers) /\ ~ScansOnTop(Callers) /\ Fits(graph, Callers, Caller)
      /\ \A r, v : Finished(stack, Len(stack), r, v) =>
           IF WaitsForSubgraph(Caller)
           THEN r = Caller.state_backup.return_chain_head /\ v = Caller.state_backup.save_chain_head
           ELSE Finished(Callers, Len(Callers), r, v)
  BY <1>1, <1>2, <1>5, PopInOrder DEF Caller, Callers
<1>7. ReadyFor(Callers, Caller.node, Caller.state_backup)
  BY <1>3, <1>6 DEF ReadyFor, Ready, Runs, Fits
<1>8. res \/ Scans(Caller) =>
        Finished(stack, Len(stack), state.return_chain_head, state.save_chain_head)
  BY <1>1, <1>4 DEF Left, ScansOnTop, Caller
<1>9. SameHeads(state, Caller.state_backup) => ReadyFor(Callers, Caller.node, state)
  BY <1>7 DEF SameHeads, ReadyFor
<1>10. kind \notin {"SubroutineEnter", "SubroutineLeave", "StateSave", "StateRestore"} =>
         PlainNode(CallerNode)
  BY <1>2 DEF PlainNode
<1>11. res \/ Scans(Caller) =>
         IF WaitsForSubgraph(Caller)
         THEN SameHeads(state, Caller.state_backup) /\ ReadyFor(Callers, Caller.node, state)
         ELSE Finished(Callers, Len(Callers), state.return_chain_head, state.save_chain_head)
  BY <1>6, <1>8, <1>9 DEF SameHeads
<1> QED
  BY <1>1, <1>2, <1>3, <1>6, <1>7, <1>10, <1>11 DEF Fits

LEMMA ReturnTrueOrder ==
  ASSUME Ordered, ReturnTrue
  PROVE  ChainsInOrder'
<1>1. /\ pc = "call" /\ function = nullptr /\ Ret(TRUE, state, stack)
      /\ Typed /\ Orderly(graph) /\ GraphOK(graph)
  BY CodeFacts DEF ReturnTrue, Ordered, Running, Typed
<1>2. Entered(graph, stack, nullptr, state.return_chain_head, state.save_chain_head)
  BY <1>1 DEF Ordered, ChainsInOrder
<1>3. Finished(stack, Len(stack), state.return_chain_head, state.save_chain_head)
  BY <1>1, <1>2, NullEnds DEF Entered, Runs
<1> QED
  BY <1>1, <1>2, <1>3, MatchedOrder DEF Entered

\* What reads the string goes on with the next node or fails, and leaves the heads.
LEMMA ReadOrder ==
  ASSUME Ordered, NEW kind \in NextKinds, At(kind),
         kind \notin {"SubroutineEnter", "SubroutineLeave", "StateSave", "StateRestore"},
         NEW cond, NEW t, cond => SameHeads(t, state), CallIf(cond, Here.next, t)
  PROVE  ChainsInOrder'
<1>1. /\ Orderly(graph) /\ function \in DOMAIN graph.node /\ Here = graph.node[function]
      /\ PlainNode(Here) /\ Here.kind = kind /\ pc = "call" /\ function # nullptr
  BY AtReady DEF At
<1>2. Here.next \in ContinuationsOf(Here)
  BY <1>1, NodePointers
<1>3. Entered(graph, stack, function, state.return_chain_head, state.save_chain_head)
  BY <1>1 DEF Ordered, ChainsInOrder
<1>4. CASE cond
  <2>1. Call(Here.next, t, stack)
    BY <1>4 DEF CallIf
  <2>2. Runs(graph, stack, Here.next, state.return_chain_head, state.save_chain_head)
    BY <1>1, <1>2, <1>3, OrderGoesOn DEF Entered, Runs
  <2>3. ScansOnTop(stack) => Here.next = nullptr
    BY <1>1, ScanFacts
  <2>4. Entered(graph, stack, Here.next, state.return_chain_head, state.save_chain_head)
    BY <1>3, <2>2, <2>3 DEF Entered
  <2> QED
    BY <1>4, <2>1, <2>4, CallOrder DEF SameHeads
<1>5. CASE ~cond
  <2>1. Ret(FALSE, state, stack)
    BY <1>5 DEF CallIf
  <2>2. ScansOnTop(stack) =>
          Finished(stack, Len(stack), state.return_chain_head, state.save_chain_head)
    <3>1. function \notin Restores(graph) \cup SavingCalls(graph)
      BY <1>1, OrdinaryNode DEF PlainNode
    <3> QED
      BY <1>1, <1>3, <3>1, ScanFacts, OrderEnds DEF Entered, Runs
  <2>3. Left(graph, stack, FALSE, state.return_chain_head, state.save_chain_head)
    BY <1>3, <2>2 DEF Left, Entered
  <2> QED
    BY <2>1, <2>3, RetOrder
<1> QED
  BY <1>4, <1>5

LEMMA MatchClassOrder ==
  ASSUME Ordered, NEW kind \in {"OneOf", "AnySymbol"}, At(kind), NEW n, n.next = Here.next, MatchClass(n)
  PROVE  ChainsInOrder'
<1>1. state \in StateType /\ kind \in NextKinds
  BY DEF Ordered, Running, Typed, NextKinds
<1>2. \E cond, pos : CallIf(cond, Here.next, StateAt(pos))
  BY DEF MatchClass
<1>3. PICK cond, pos : CallIf(cond, Here.next, StateAt(pos))
  BY <1>2
<1>4. SameHeads(StateAt(pos), state)
  BY <1>1, HeadsKept DEF StateAt
<1> QED
  BY <1>1, <1>3, <1>4, ReadOrder

LEMMA ReadersOrder ==
  ASSUME Ordered,
         \/ MatchText \/ MatchOneOf \/ MatchAnySymbol
         \/ MatchStringStartAssertion \/ MatchStringEndAssertion \/ MatchBackReference
  PROVE  ChainsInOrder'
<1>1. state \in StateType
  BY DEF Ordered, Running, Typed
<1>2. CASE MatchText
  <2>1. PICK kind \in {"String", "SpecificSymbol"} : At(kind)
    BY <1>2 DEF MatchText
  <2> DEFINE pos == state.str_begin + Len(BytesOf(Here))
             cond == IsPrefixAt(BytesOf(Here), str, state.str_begin)
  <2>2. CallIf(cond, Here.next, StateAt(pos))
    BY <1>2 DEF MatchText
  <2> HIDE DEF pos, cond
  <2>3. SameHeads(StateAt(pos), state)
    BY <1>1, HeadsKept DEF StateAt
  <2>4. kind \in NextKinds
    BY DEF NextKinds
  <2> QED
    BY <2>1, <2>2, <2>3, <2>4, ReadOrder
<1>3. CASE MatchOneOf
  BY <1>3, MatchClassOrder DEF MatchOneOf
<1>4. CASE MatchAnySymbol
  <2> DEFINE n == [variants |-> {}, ranges |-> <<>>, inverse_flag |-> TRUE, next |-> Here.next]
  <2>1. MatchClass(n) /\ n.next = Here.next /\ At("AnySymbol")
    BY <1>4 DEF MatchAnySymbol
  <2> HIDE DEF n
  <2> QED
    BY <2>1, MatchClassOrder
<1>5. CASE MatchStringStartAssertion \/ MatchStringEndAssertion
  <2>1. PICK kind \in {"StringStartAssertion", "StringEndAssertion"} :
          At(kind) /\ \E cond : CallIf(cond, Here.next, state)
    BY <1>5 DEF MatchStringStartAssertion, MatchStringEndAssertion
  <2>2. SameHeads(state, state) /\ kind \in NextKinds
    BY DEF SameHeads, NextKinds
  <2> QED
    BY <2>1, <2>2, ReadOrder
<1>6. CASE MatchBackReference
  <2>1. At("BackReference") /\ \E cond, pos : CallIf(cond, Here.next, StateAt(pos))
    BY <1>6 DEF MatchBackReference
  <2>2. PICK cond, pos : CallIf(cond, Here.next, StateAt(pos))
    BY <2>1
  <2>3. SameHeads(StateAt(pos), state) /\ "BackReference" \in NextKinds
    BY <1>1, HeadsKept DEF StateAt, NextKinds
  <2> QED
    BY <2>1, <2>2, <2>3, ReadOrder
<1> QED
  BY <1>2, <1>3, <1>4, <1>5, <1>6

LEMMA StoreOrder ==
  ASSUME Ordered, MatchGroupStart \/ MatchGroupEnd \/ MatchSequenceCounterReset
  PROVE  ChainsInOrder'
<1>1. state \in StateType
  BY DEF Ordered, Running, Typed
<1>2. PICK kind \in {"GroupStart", "GroupEnd", "SequenceCounterReset"} :
        At(kind) /\ \E t : SameHeads(t, state) /\ Call(Here.next, t, stack)
  <2>1. CASE MatchGroupStart \/ MatchGroupEnd
    BY <1>1, <2>1, HeadsKept DEF MatchGroupStart, MatchGroupEnd
  <2>2. CASE MatchSequenceCounterReset
    <3> DEFINE t == [state EXCEPT !.sequence_counters[Here.id] = 0, !.stored = @ \cup {Here.id}]
    <3>1. At("SequenceCounterReset") /\ Call(Here.next, t, stack)
      BY <2>2 DEF MatchSequenceCounterReset
    <3>2. SameHeads(t, state)
      BY <1>1, HeadsKept
    <3> HIDE DEF t
    <3> QED
      BY <3>1, <3>2
  <2> QED
    BY <2>1, <2>2
<1>3. /\ Orderly(graph) /\ function \in DOMAIN graph.node /\ Here = graph.node[function]
      /\ PlainNode(Here) /\ ReadyFor(stack, function, state) /\ Here.kind = kind
  BY <1>2, AtReady DEF At
<1>4. Here.next \in ContinuationsOf(Here)
  BY <1>3, NodePointers DEF NextKinds
<1> QED
  BY <1>2, <1>3, <1>4, NextOrder

LEMMA TryAlternativeOrder ==
  ASSUME Ordered, NEW p \in NodeFunctions(graph), graph.node[p].kind = "Alternatives",
         NEW k \in DOMAIN graph.node[p].next, NEW s \in StateType, NEW stk \in Seq(Frames),
         ReadyFor(stk, p, s), TryAlternative(p, k, s, stk)
  PROVE  ChainsInOrder'
<1> DEFINE n == graph.node[p]
           f == ChoiceFrame(p, s, k)
<1>1. /\ Typed /\ Orderly(graph) /\ p \in DOMAIN graph.node
      /\ NodeOK(n, DOMAIN graph.node \cup {nullptr}, Counters)
  BY CodeFacts DEF Ordered, Running, Typed
<1>2. k \in Nat
  BY <1>1 DEF NodeOK
<1>3. n.next[k] \in ContinuationsOf(n)
  <2>1. n.next[k] \in ToSet(n.next)
    BY DEF ToSet
  <2> QED
    BY <2>1, NodePointers
<1>4. PlainNode(n) /\ SameHeads(s, s)
  BY DEF PlainNode, SameHeads
<1>5. CASE IsLast(n, k)
  <2>1. Call(n.next[k], s, stk)
    BY <1>5 DEF TryAlternative
  <2> QED
    BY <1>1, <1>3, <1>4, <2>1, NextOrder
<1>6. CASE ~IsLast(n, k)
  <2>1. Call(n.next[k], s, Append(stk, f))
    BY <1>6 DEF TryAlternative
  <2>2. f \in Frames
    BY <1>1, <1>2, <1>6, NewFrames
  <2>3. Copies(stk, f, p, s.return_chain_head, s.save_chain_head) /\ ~WaitsForSubgraph(f)
    BY DEF Copies, ChoiceFrame, WaitsForSubgraph, LookKinds
  <2> HIDE DEF f
  <2> QED
    BY <1>1, <1>3, <1>4, <2>1, <2>2, <2>3, AboveOrder
<1> QED
  BY <1>5, <1>6

LEMMA AlternativesOrder ==
  ASSUME Ordered, MatchAlternatives \/ BackInAlternatives
  PROVE  ChainsInOrder'
<1>0. Running
  BY DEF Ordered
<1>1. CASE MatchAlternatives
  <2>1. /\ Typed /\ function \in NodeFunctions(graph) /\ state \in StateType /\ stack \in Seq(Frames)
        /\ Here = graph.node[function] /\ Here.kind = "Alternatives" /\ Here.next # <<>>
        /\ NodeOK(Here, DOMAIN graph.node \cup {nullptr}, Counters)
    BY <1>0, <1>1, AtFacts, HereFacts DEF MatchAlternatives
  <2>2. 1 \in DOMAIN Here.next
    <3>1. Here.next \in Seq(DOMAIN graph.node \cup {nullptr})
      BY <2>1 DEF NodeOK
    <3> QED
      BY <2>1, <3>1
  <2>3. TryAlternative(function, 1, state, stack) /\ ReadyFor(stack, function, state)
    BY <1>1, AtReady DEF MatchAlternatives
  <2> QED
    BY <2>1, <2>2, <2>3, TryAlternativeOrder
<1>2. CASE BackInAlternatives
  <2>1. /\ Typed /\ Caller \in Frames /\ Callers \in Seq(Frames) /\ state \in StateType
        /\ Caller.node \in NodeFunctions(graph) /\ Caller.state_backup \in StateType
        /\ CallerNode = graph.node[Caller.node] /\ CallerNode.kind = "Alternatives"
        /\ NodeOK(CallerNode, DOMAIN graph.node \cup {nullptr}, Counters)
        /\ Caller.kind = "Alternatives"
    BY <1>0, <1>2, BackInFacts DEF BackInAlternatives
  <2>2. ~WaitsForSubgraph(Caller)
    BY <2>1 DEF WaitsForSubgraph, LookKinds
  <2>3. CASE res
    <3>1. Ret(TRUE, state, Callers)
      BY <1>2, <2>3 DEF BackInAlternatives
    <3> QED
      BY <1>2, <2>2, <2>3, <3>1, BackReady, MatchedOrder DEF BackInAlternatives
  <2>4. CASE ~res
    <3>1. /\ Caller.tried \in Nat /\ Caller.tried \in DOMAIN CallerNode.next
          /\ ~IsLast(CallerNode, Caller.tried)
      BY <2>1, FrameFacts
    <3>2. CallerNode.next \in Seq(DOMAIN graph.node \cup {nullptr})
      BY <2>1 DEF NodeOK
    <3>3. Caller.tried # Len(CallerNode.next)
      BY <3>1 DEF IsLast, Last
    <3>4. Caller.tried + 1 \in DOMAIN CallerNode.next
      BY <3>1, <3>2, <3>3
    <3>5. TryAlternative(Caller.node, Caller.tried + 1, Caller.state_backup, Callers)
      BY <1>2, <2>4 DEF BackInAlternatives
    <3>6. ReadyFor(Callers, Caller.node, Caller.state_backup)
      BY <1>2, BackReady DEF BackInAlternatives
    <3> QED
      BY <2>1, <3>4, <3>5, <3>6, TryAlternativeOrder
  <2> QED
    BY <2>3, <2>4
<1> QED
  BY <1>1, <1>2

\* Functions that ask a graph of its own, from a State like theirs.
AskingKinds == LookKinds \cup {"AlternativesPossessive", "ConditionalElement", "AtomicGroup"}

LEMMA AskOrder ==
  ASSUME Ordered, NEW kind \in AskingKinds, At(kind), NEW q \in SubgraphsOf(Here),
         NEW t, SameHeads(t, state), Call(q, t, Pushed(Frame(function, state)))
  PROVE  ChainsInOrder'
<1> DEFINE f == Frame(function, state)
<1>1. /\ Running /\ Typed /\ state \in StateType /\ stack \in Seq(Frames) /\ Here.kind = kind
      /\ function \in NodeFunctions(graph) /\ Here = graph.node[function]
  BY AtFacts DEF Ordered
<1>2. /\ kind \in PlainKinds
      /\ kind \notin {"SubroutineEnter", "SubroutineLeave", "StateSave", "StateRestore"}
      /\ kind \notin {"SpecificSymbol", "String", "OneOf"}
  BY DEF AskingKinds, PlainKinds, LookKinds
<1>3. /\ Orderly(graph) /\ function \in DOMAIN graph.node
      /\ PlainNode(Here) /\ ReadyFor(stack, function, state)
  BY <1>2, AtReady
<1>4. f \in Frames
  BY <1>1, <1>2, NewFrames
<1>5. /\ Copies(stack, f, function, state.return_chain_head, state.save_chain_head)
      /\ WaitsForSubgraph(f) /\ ~Scans(f)
  BY <1>1 DEF Copies, Frame, WaitsForSubgraph, Scans, AskingKinds, LookKinds
<1>6. Call(q, t, Append(stack, f))
  BY DEF Pushed
<1> HIDE DEF f
<1> QED
  BY <1>1, <1>3, <1>4, <1>5, <1>6, InsideOrder

LEMMA AskedOrder ==
  ASSUME Ordered, NEW kind \in AskingKinds, BackIn(kind)
  PROVE  /\ res => SameHeads(state, Caller.state_backup)
         /\ \A q \in ContinuationsOf(CallerNode) : \A t :
              SameHeads(t, Caller.state_backup) /\ Call(q, t, Callers) => ChainsInOrder'
         /\ \A t : Ret(FALSE, t, Callers) => ChainsInOrder'
<1>1. /\ kind \notin {"SubroutineEnter", "SubroutineLeave", "StateSave", "StateRestore"}
      /\ Caller.kind = kind
  BY DEF AskingKinds, LookKinds, BackIn
<1>2. WaitsForSubgraph(Caller)
  BY <1>1 DEF AskingKinds, WaitsForSubgraph
<1>3. /\ Orderly(graph) /\ Caller.node \in DOMAIN graph.node /\ CallerNode = graph.node[Caller.node]
      /\ PlainNode(CallerNode) /\ ReadyFor(Callers, Caller.node, Caller.state_backup)
      /\ StackInOrder(graph, Callers) /\ ~ScansOnTop(Callers)
      /\ res => SameHeads(state, Caller.state_backup)
  BY <1>1, <1>2, BackReady
<1> QED
  BY <1>3, NextOrder, FailOrder

LEMMA AssertionsOrder ==
  ASSUME Ordered,
         \/ MatchAlternativesPossessive \/ BackInAlternativesPossessive
         \/ MatchLookAhead \/ BackInLookAhead \/ MatchLookBehind \/ BackInLookBehind
         \/ MatchConditionalElement \/ BackInConditionalElement
         \/ MatchAtomicGroup \/ BackInAtomicGroup
  PROVE  ChainsInOrder'
<1>1. Running /\ state \in StateType
  BY DEF Ordered, Running, Typed
<1>2. CASE \/ MatchAlternativesPossessive \/ MatchLookAhead
           \/ MatchConditionalElement \/ MatchAtomicGroup
  <2>1. PICK kind \in AskingKinds : /\ At(kind)
                                    /\ \E q \in SubgraphsOf(Here) :
                                         Call(q, state, Pushed(Frame(function, state)))
    <3>1. CASE MatchAlternativesPossessive
      <4>1. /\ At("AlternativesPossessive") /\ Here.kind = "AlternativesPossessive"
            /\ Call(Here.path0_element, state, Pushed(Frame(function, state)))
        BY <3>1 DEF MatchAlternativesPossessive, At
      <4> QED
        BY <4>1, NodePointers DEF AskingKinds
    <3>2. CASE MatchLookAhead
      <4>1. /\ At("LookAhead") /\ Here.kind = "LookAhead"
            /\ Call(Here.look_graph, state, Pushed(Frame(function, state)))
        BY <3>2 DEF MatchLookAhead, At
      <4> QED
        BY <4>1, NodePointers DEF AskingKinds, LookKinds
    <3>3. CASE MatchConditionalElement
      <4>1. /\ At("ConditionalElement") /\ Here.kind = "ConditionalElement"
            /\ Call(Here.condition_node, state, Pushed(Frame(function, state)))
        BY <3>3 DEF MatchConditionalElement, At
      <4> QED
        BY <4>1, NodePointers DEF AskingKinds
    <3>4. CASE MatchAtomicGroup
      <4>1. /\ At("AtomicGroup") /\ Here.kind = "AtomicGroup"
            /\ Call(Here.group_element, state, Pushed(Frame(function, state)))
        BY <3>4 DEF MatchAtomicGroup, At
      <4> QED
        BY <4>1, NodePointers DEF AskingKinds
    <3> QED
      BY <1>2, <3>1, <3>2, <3>3, <3>4
  <2>2. SameHeads(state, state)
    BY DEF SameHeads
  <2> QED
    BY <2>1, <2>2, AskOrder
<1>3. CASE MatchLookBehind
  <2> DEFINE pos == state.str_begin - Here.size
  <2>1. At("LookBehind") /\ Here.kind = "LookBehind"
    BY <1>3 DEF MatchLookBehind, At
  <2>2. /\ Here.look_graph \in SubgraphsOf(Here)
        /\ "LookBehind" \in AskingKinds /\ "LookBehind" \in NextKinds
    BY <2>1, NodePointers DEF AskingKinds, LookKinds, NextKinds
  <2>3. SameHeads(StateAt(pos), state) /\ SameHeads(state, state)
    BY <1>1, HeadsKept DEF StateAt
  <2>4. \/ Call(Here.look_graph, StateAt(pos), Pushed(Frame(function, state)))
        \/ CallIf(~Here.positive, Here.next, state)
    BY <1>3 DEF MatchLookBehind
  <2> HIDE DEF pos
  <2> QED
    BY <2>1, <2>2, <2>3, <2>4, AskOrder, ReadOrder
<1>4. CASE BackInAlternativesPossessive
  <2>1. /\ BackIn("AlternativesPossessive") /\ "AlternativesPossessive" \in AskingKinds
        /\ IF res THEN Call(CallerNode.path0_next, state, Callers)
                  ELSE Call(CallerNode.path1_next, Caller.state_backup, Callers)
    BY <1>4 DEF BackInAlternativesPossessive, AskingKinds
  <2>2. CallerNode.kind = "AlternativesPossessive"
    BY <1>1, <2>1, BackInFacts
  <2>3. /\ CallerNode.path0_next \in ContinuationsOf(CallerNode)
        /\ CallerNode.path1_next \in ContinuationsOf(CallerNode)
    BY <2>2, NodePointers
  <2>4. SameHeads(Caller.state_backup, Caller.state_backup)
    BY DEF SameHeads
  <2> QED
    BY <2>1, <2>3, <2>4, AskedOrder
<1>5. CASE BackInLookAhead \/ BackInLookBehind
  <2>1. PICK kind \in LookKinds :
          /\ BackIn(kind)
          /\ Call(CallerNode.next, Caller.state_backup, Callers) \/ \E t : Ret(FALSE, t, Callers)
    BY <1>5 DEF BackInLookAhead, BackInLookBehind, LookKinds
  <2>2. CallerNode.kind = kind /\ kind \in AskingKinds /\ kind \in NextKinds
    BY <1>1, <2>1, BackInFacts DEF AskingKinds, LookKinds, NextKinds
  <2>3. CallerNode.next \in ContinuationsOf(CallerNode)
    BY <2>2, NodePointers
  <2>4. SameHeads(Caller.state_backup, Caller.state_backup)
    BY DEF SameHeads
  <2> QED
    BY <2>1, <2>2, <2>3, <2>4, AskedOrder
<1>6. CASE BackInConditionalElement
  <2>1. /\ BackIn("ConditionalElement") /\ "ConditionalElement" \in AskingKinds
        /\ \/ Call(CallerNode.next_true, Caller.state_backup, Callers)
           \/ Call(CallerNode.next_false, Caller.state_backup, Callers)
    BY <1>6 DEF BackInConditionalElement, AskingKinds
  <2>2. CallerNode.kind = "ConditionalElement"
    BY <1>1, <2>1, BackInFacts
  <2>3. /\ CallerNode.next_true \in ContinuationsOf(CallerNode)
        /\ CallerNode.next_false \in ContinuationsOf(CallerNode)
    BY <2>2, NodePointers
  <2>4. SameHeads(Caller.state_backup, Caller.state_backup)
    BY DEF SameHeads
  <2> QED
    BY <2>1, <2>3, <2>4, AskedOrder
<1>7. CASE BackInAtomicGroup
  <2>1. /\ BackIn("AtomicGroup") /\ "AtomicGroup" \in AskingKinds
        /\ IF res THEN Call(CallerNode.next, state, Callers) ELSE Ret(FALSE, state, Callers)
    BY <1>7 DEF BackInAtomicGroup, AskingKinds
  <2>2. CallerNode.kind = "AtomicGroup"
    BY <1>1, <2>1, BackInFacts
  <2>3. CallerNode.next \in ContinuationsOf(CallerNode)
    BY <2>2, NodePointers DEF NextKinds
  <2> QED
    BY <2>1, <2>3, AskedOrder
<1> QED
  BY <1>2, <1>3, <1>4, <1>5, <1>6, <1>7

LEMMA CounterOrder ==
  ASSUME Ordered, MatchSequenceCounter \/ BackInSequenceCounter
  PROVE  ChainsInOrder'
<1>1. Running /\ state \in StateType
  BY DEF Ordered, Running, Typed
<1>2. CASE MatchSequenceCounter
  <2> DEFINE counter_value == state.sequence_counters[Here.id]
             counted == [state EXCEPT !.sequence_counters[Here.id] = counter_value + 1]
             f == Frame(function, counted)
  <2>1. /\ At("SequenceCounter") /\ Typed /\ state \in StateType /\ stack \in Seq(Frames)
        /\ Here.kind = "SequenceCounter" /\ function \in NodeFunctions(graph)
        /\ Here = graph.node[function]
        /\ NodeOK(Here, DOMAIN graph.node \cup {nullptr}, Counters)
    BY <1>1, <1>2, AtFacts DEF MatchSequenceCounter
  <2>2. /\ Orderly(graph) /\ function \in DOMAIN graph.node
        /\ PlainNode(Here) /\ ReadyFor(stack, function, state)
    BY <2>1, AtReady
  <2>3. /\ Here.next_iteration \in ContinuationsOf(Here)
        /\ Here.next_sequence_end \in ContinuationsOf(Here)
        /\ Branches(Here)[1] \in ContinuationsOf(Here)
    BY <2>1, NodePointers DEF Branches
  <2>4. Here.id \in Counters
    BY <2>1 DEF NodeOK, CounterKinds
  <2>5. counter_value \in Nat \cup {Uninitialized}
    BY <2>1, <2>4, StateParts DEF CounterValues
  <2>6. counter_value + 1 \in Nat
    BY <2>5 DEF Uninitialized
  <2>7. \/ Call(Here.next_iteration, counted, stack)
        \/ Call(Here.next_sequence_end, counted, stack)
        \/ Call(Branches(Here)[1], counted, Append(stack, f))
    BY <1>2 DEF MatchSequenceCounter, Pushed
  <2> HIDE DEF counter_value
  <2>8. counted \in StateType /\ SameHeads(counted, state)
    BY <2>1, <2>6, CountersType, HeadsKept
  <2> HIDE DEF counted
  <2>9. f \in Frames
    BY <2>1, <2>8, NewFrames DEF PlainKinds
  <2>10. /\ Copies(stack, f, function, state.return_chain_head, state.save_chain_head)
         /\ ~WaitsForSubgraph(f)
    BY <2>1, <2>8 DEF Copies, Frame, WaitsForSubgraph, LookKinds, SameHeads
  <2> HIDE DEF f
  <2> QED
    BY <2>1, <2>2, <2>3, <2>7, <2>8, <2>9, <2>10, NextOrder, AboveOrder
<1>3. CASE BackInSequenceCounter
  <2>1. /\ BackIn("SequenceCounter")
        /\ IF res THEN Ret(TRUE, state, Callers)
                  ELSE Call(Branches(CallerNode)[2], Caller.state_backup, Callers)
    BY <1>3 DEF BackInSequenceCounter
  <2>2. CallerNode.kind = "SequenceCounter" /\ Caller.kind = "SequenceCounter"
    BY <1>1, <2>1, BackInFacts
  <2>3. Branches(CallerNode)[2] \in ContinuationsOf(CallerNode)
    BY <2>2, NodePointers DEF Branches
  <2>4. ~WaitsForSubgraph(Caller)
    BY <2>2 DEF WaitsForSubgraph, LookKinds
  <2>5. SameHeads(Caller.state_backup, Caller.state_backup)
    BY DEF SameHeads
  <2> QED
    <3>1. /\ Orderly(graph) /\ Caller.node \in DOMAIN graph.node
          /\ CallerNode = graph.node[Caller.node] /\ PlainNode(CallerNode)
          /\ ReadyFor(Callers, Caller.node, Caller.state_backup) /\ StackInOrder(graph, Callers)
          /\ res => Finished(Callers, Len(Callers), state.return_chain_head, state.save_chain_head)
      BY <2>1, <2>4, BackReady
    <3>2. CASE res
      BY <2>1, <3>1, <3>2, MatchedOrder
    <3>3. CASE ~res
      BY <2>1, <2>3, <2>5, <3>1, <3>3, NextOrder
    <3> QED
      BY <3>2, <3>3
<1> QED
  BY <1>2, <1>3

\* The next iteration of a loop, or what comes after it.
LEMMA PossessiveLoopOrder ==
  ASSUME Ordered, NEW p \in NodeFunctions(graph), graph.node[p].kind = "PossessiveSequence",
         NEW counter \in Nat, NEW s \in StateType, NEW stk \in Seq(Frames),
         ReadyFor(stk, p, s), PossessiveLoop(p, counter, s, stk)
  PROVE  ChainsInOrder'
<1> DEFINE n == graph.node[p]
           f == LoopFrame(p, s, counter)
<1>1. Typed /\ Orderly(graph) /\ p \in DOMAIN graph.node
  BY CodeFacts DEF Ordered, Running, Typed
<1>2. n.next \in ContinuationsOf(n) /\ n.sequence_element \in SubgraphsOf(n)
  BY NodePointers DEF NextKinds, LoopKinds
<1>3. PlainNode(n) /\ SameHeads(s, s)
  BY DEF PlainNode, SameHeads
<1>4. f \in Frames
  BY <1>1, NewFrames
<1>5. /\ Copies(stk, f, p, s.return_chain_head, s.save_chain_head)
      /\ WaitsForSubgraph(f) /\ ~Scans(f)
  BY DEF Copies, LoopFrame, WaitsForSubgraph, Scans
<1>6. Call(n.sequence_element, s, Append(stk, f)) \/ Call(n.next, s, stk)
  BY DEF PossessiveLoop
<1> HIDE DEF f
<1> QED
  BY <1>1, <1>2, <1>3, <1>4, <1>5, <1>6, InsideOrder, NextOrder

LEMMA PossessiveOrder ==
  ASSUME Ordered, MatchPossessiveSequence \/ BackInPossessiveSequence
  PROVE  ChainsInOrder'
<1>0. Running
  BY DEF Ordered
<1>1. CASE MatchPossessiveSequence
  <2>1. /\ PossessiveLoop(function, 0, state, stack) /\ function \in NodeFunctions(graph)
        /\ graph.node[function].kind = "PossessiveSequence"
        /\ state \in StateType /\ stack \in Seq(Frames) /\ 0 \in Nat
    BY <1>0, <1>1, AtFacts DEF MatchPossessiveSequence
  <2>2. ReadyFor(stack, function, state)
    BY <1>1, AtReady DEF MatchPossessiveSequence
  <2> QED
    BY <2>1, <2>2, PossessiveLoopOrder
<1>2. CASE BackInPossessiveSequence
  <2>1. /\ BackIn("PossessiveSequence") /\ Typed /\ Caller \in Frames /\ Callers \in Seq(Frames)
        /\ Caller.kind = "PossessiveSequence" /\ Caller.node \in NodeFunctions(graph)
        /\ CallerNode = graph.node[Caller.node] /\ CallerNode.kind = "PossessiveSequence"
        /\ state \in StateType /\ Caller.state_backup \in StateType
    BY <1>0, <1>2, BackInFacts DEF BackInPossessiveSequence
  <2>2. Caller.counter + 1 \in Nat
    BY <2>1, FrameFacts
  <2>3. CallerNode.next \in ContinuationsOf(CallerNode)
    BY <2>1, NodePointers DEF NextKinds
  <2>4. WaitsForSubgraph(Caller)
    BY <2>1 DEF WaitsForSubgraph
  <2>5. /\ Orderly(graph) /\ Caller.node \in DOMAIN graph.node /\ PlainNode(CallerNode)
        /\ ReadyFor(Callers, Caller.node, Caller.state_backup)
        /\ StackInOrder(graph, Callers) /\ ~ScansOnTop(Callers)
        /\ res => ReadyFor(Callers, Caller.node, state)
    BY <2>1, <2>4, BackReady
  <2>6. \/ res /\ PossessiveLoop(Caller.node, Caller.counter + 1, state, Callers)
        \/ Ret(FALSE, Caller.state_backup, Callers)
        \/ Call(CallerNode.next, Caller.state_backup, Callers)
    BY <1>2 DEF BackInPossessiveSequence
  <2>7. CASE res /\ PossessiveLoop(Caller.node, Caller.counter + 1, state, Callers)
    BY <2>1, <2>2, <2>5, <2>7, PossessiveLoopOrder
  <2>8. CASE Ret(FALSE, Caller.state_backup, Callers)
    BY <2>5, <2>8, FailOrder
  <2>9. CASE Call(CallerNode.next, Caller.state_backup, Callers)
    <3>1. SameHeads(Caller.state_backup, Caller.state_backup)
      BY DEF SameHeads
    <3> QED
      BY <2>1, <2>3, <2>5, <2>9, <3>1, NextOrder
  <2> QED
    BY <2>6, <2>7, <2>8, <2>9
<1> QED
  BY <1>1, <1>2

LEMMA RollbackTailOrder ==
  ASSUME Ordered, NEW p \in NodeFunctions(graph),
         graph.node[p].kind = "SingleRollbackPointSequence", NEW s \in StateType,
         NEW next_states \in SUBSET StateType, NEW stk \in Seq(Frames), ReadyFor(stk, p, s),
         \A t \in next_states : Finished(stk, Len(stk), t.return_chain_head, t.save_chain_head),
         RollbackTail(p, s, next_states, stk)
  PROVE  ChainsInOrder'
<1> DEFINE n == graph.node[p]
           f == RollbackFrame(p, s, TRUE, next_states)
<1>1. Typed /\ Orderly(graph) /\ p \in DOMAIN graph.node
  BY CodeFacts DEF Ordered, Running, Typed
<1>2. n.next \in ContinuationsOf(n)
  BY NodePointers DEF NextKinds
<1>3. PlainNode(n) /\ SameHeads(s, s)
  BY DEF PlainNode, SameHeads
<1>4. f \in Frames
  BY <1>1, NewFrames
<1>5. Copies(stk, f, p, s.return_chain_head, s.save_chain_head)
  BY DEF Copies, RollbackFrame
<1>6. ~WaitsForSubgraph(f)
  BY DEF RollbackFrame, WaitsForSubgraph, LookKinds
<1>7. Call(n.next, s, Append(stk, f))
  BY DEF RollbackTail
<1> HIDE DEF f
<1> QED
  BY <1>1, <1>2, <1>3, <1>4, <1>5, <1>6, <1>7, AboveOrder

LEMMA RollbackOrder ==
  ASSUME Ordered,
         MatchSingleRollbackPointSequence \/ BackInRollbackTail \/ BackInRollbackElement
  PROVE  ChainsInOrder'
<1> DEFINE kind == "SingleRollbackPointSequence"
<1>0. Running
  BY DEF Ordered
<1>1. CASE MatchSingleRollbackPointSequence
  <2>1. /\ RollbackTail(function, state, {}, stack) /\ function \in NodeFunctions(graph)
        /\ graph.node[function].kind = kind /\ state \in StateType /\ stack \in Seq(Frames)
    BY <1>0, <1>1, AtFacts DEF MatchSingleRollbackPointSequence
  <2>2. ReadyFor(stack, function, state)
    BY <1>1, AtReady DEF MatchSingleRollbackPointSequence
  <2> QED
    BY <2>1, <2>2, RollbackTailOrder
<1>2. ASSUME BackIn(kind)
      PROVE  /\ Typed /\ Caller \in Frames /\ Callers \in Seq(Frames) /\ Caller.kind = kind
             /\ Caller.node \in NodeFunctions(graph)
             /\ CallerNode = graph.node[Caller.node] /\ CallerNode.kind = kind
             /\ state \in StateType /\ Caller.state_backup \in StateType
             /\ Caller.next_states \in SUBSET StateType
  <2>1. /\ Typed /\ Caller \in Frames /\ Callers \in Seq(Frames) /\ Caller.kind = kind
        /\ Caller.node \in NodeFunctions(graph)
        /\ CallerNode = graph.node[Caller.node] /\ CallerNode.kind = kind
        /\ state \in StateType /\ Caller.state_backup \in StateType
    BY <1>0, <1>2, BackInFacts
  <2> QED
    BY <2>1, FrameFacts
<1>3. ASSUME BackIn(kind)
      PROVE  /\ Orderly(graph) /\ Caller.node \in DOMAIN graph.node /\ PlainNode(CallerNode)
             /\ ReadyFor(Callers, Caller.node, Caller.state_backup)
             /\ StackInOrder(graph, Callers) /\ ~ScansOnTop(Callers)
             /\ \A s \in Caller.next_states :
                  Finished(Callers, Len(Callers), s.return_chain_head, s.save_chain_head)
             /\ res /\ ~Caller.in_tail => ReadyFor(Callers, Caller.node, state)
             /\ res /\ Caller.in_tail =>
                  Finished(Callers, Len(Callers), state.return_chain_head, state.save_chain_head)
  <2>1. Caller.kind = kind
    BY <1>2, <1>3
  <2>2. WaitsForSubgraph(Caller) <=> ~Caller.in_tail
    BY <2>1 DEF WaitsForSubgraph, LookKinds
  <2> QED
    BY <1>3, <2>1, <2>2, BackReady
<1>4. CASE BackInRollbackTail
  <2>1. BackIn(kind) /\ Caller.in_tail
    BY <1>4 DEF BackInRollbackTail
  <2> DEFINE next_states == IF res THEN {state} ELSE Caller.next_states
             f == RollbackFrame(Caller.node, Caller.state_backup, FALSE, next_states)
  <2>2. Call(CallerNode.sequence_element, Caller.state_backup, Append(Callers, f))
    BY <1>4 DEF BackInRollbackTail
  <2>3. next_states \in SUBSET StateType
    BY <1>2, <2>1
  <2>4. \A s \in next_states :
          Finished(Callers, Len(Callers), s.return_chain_head, s.save_chain_head)
    BY <1>3, <2>1
  <2> HIDE DEF next_states
  <2>5. f \in Frames
    BY <1>2, <2>1, <2>3, NewFrames
  <2>6. /\ Copies(Callers, f, Caller.node, Caller.state_backup.return_chain_head,
                  Caller.state_backup.save_chain_head)
        /\ WaitsForSubgraph(f) /\ ~Scans(f)
    BY <2>4 DEF Copies, RollbackFrame, WaitsForSubgraph, Scans
  <2>7. CallerNode.sequence_element \in SubgraphsOf(CallerNode)
    BY <1>2, <2>1, NodePointers DEF LoopKinds
  <2>8. SameHeads(Caller.state_backup, Caller.state_backup)
    BY DEF SameHeads
  <2> HIDE DEF f
  <2> QED
    BY <1>2, <1>3, <2>1, <2>2, <2>5, <2>6, <2>7, <2>8, InsideOrder
<1>5. CASE BackInRollbackElement
  <2>1. BackIn(kind) /\ ~Caller.in_tail
    BY <1>5 DEF BackInRollbackElement
  <2>2. \/ res /\ RollbackTail(Caller.node, state, Caller.next_states, Callers)
        \/ /\ Caller.next_states # {}
           /\ Ret(TRUE, CHOOSE s \in Caller.next_states : TRUE, Callers)
        \/ Ret(FALSE, state, Callers)
    BY <1>5 DEF BackInRollbackElement
  <2>3. CASE res /\ RollbackTail(Caller.node, state, Caller.next_states, Callers)
    BY <1>2, <1>3, <2>1, <2>3, RollbackTailOrder
  <2>4. CASE /\ Caller.next_states # {}
             /\ Ret(TRUE, CHOOSE s \in Caller.next_states : TRUE, Callers)
    <3> DEFINE t == CHOOSE s \in Caller.next_states : TRUE
    <3>1. t \in Caller.next_states /\ Ret(TRUE, t, Callers)
      BY <2>4
    <3> HIDE DEF t
    <3> QED
      BY <1>3, <2>1, <3>1, MatchedOrder
  <2>5. CASE Ret(FALSE, state, Callers)
    BY <1>3, <2>1, <2>5, FailOrder
  <2> QED
    BY <2>2, <2>3, <2>4, <2>5
<1> QED
  BY <1>1, <1>4, <1>5
\* What a loop over elements of fixed length does next.
LEMMA ElementLoopOrder ==
  ASSUME Ordered, NEW p \in NodeFunctions(graph),
         graph.node[p].kind = "FixedLengthElementSequence", NEW s \in StateType,
         NEW str_begin \in 0..SizeMax, NEW counter \in Nat, NEW stk \in Seq(Frames),
         ReadyFor(stk, p, s)
  PROVE  /\ ExtractElement(p, str_begin, counter, s, stk) => ChainsInOrder'
         /\ BlockAfterExtractLoop(p, str_begin, counter, s, stk) => ChainsInOrder'
<1> DEFINE n == graph.node[p]
           f(in_tail) == ElementFrame(p, s, in_tail, str_begin, counter)
           t == Moved(s, Wrap(str_begin + counter))
<1>1. Typed /\ Orderly(graph) /\ p \in DOMAIN graph.node
  BY CodeFacts DEF Ordered, Running, Typed
<1>2. n.next \in ContinuationsOf(n) /\ n.sequence_element \in SubgraphsOf(n) /\ PlainNode(n)
  BY NodePointers DEF NextKinds, LoopKinds, PlainNode
<1>3. SameHeads(s, s) /\ SameHeads(t, s)
  BY HeadsKept
<1>4. f(TRUE) \in Frames /\ f(FALSE) \in Frames
  BY <1>1, NewFrames
<1>5. /\ Copies(stk, f(TRUE), p, s.return_chain_head, s.save_chain_head)
      /\ Copies(stk, f(FALSE), p, s.return_chain_head, s.save_chain_head)
  BY DEF Copies, ElementFrame
<1>6. ~WaitsForSubgraph(f(TRUE)) /\ WaitsForSubgraph(f(FALSE))
  BY DEF ElementFrame, WaitsForSubgraph, LookKinds
<1>7. /\ ExtractElement(p, str_begin, counter, s, stk) =>
           Call(n.sequence_element, s, Append(stk, f(FALSE)))
      /\ BlockAfterExtractLoop(p, str_begin, counter, s, stk) =>
           Call(n.next, t, Append(stk, f(TRUE))) \/ Ret(FALSE, s, stk)
  BY DEF ExtractElement, BlockAfterExtractLoop, TailCheck
<1> HIDE DEF f, t
<1>8. Call(n.sequence_element, s, Append(stk, f(FALSE))) => ChainsInOrder'
  BY <1>1, <1>2, <1>3, <1>4, <1>5, <1>6, InsideOrder
<1>9. Call(n.next, t, Append(stk, f(TRUE))) => ChainsInOrder'
  BY <1>1, <1>2, <1>3, <1>4, <1>5, <1>6, AboveOrder
<1>10. Ret(FALSE, s, stk) => ChainsInOrder'
  BY FailOrder DEF ReadyFor, Ready
<1> QED
  BY <1>7, <1>8, <1>9, <1>10

LEMMA FixedLengthOrder ==
  ASSUME Ordered, MatchFixedLengthElementSequence \/ BackInElement \/ BackInElementTail
  PROVE  ChainsInOrder'
<1> DEFINE kind == "FixedLengthElementSequence"
           Numbers == 0..SizeMax
<1>0. Running
  BY DEF Ordered
<1>1. CASE MatchFixedLengthElementSequence
  <2>1. /\ ExtractElement(function, state.str_begin, 0, state, stack)
        /\ function \in NodeFunctions(graph) /\ graph.node[function].kind = kind
        /\ state \in StateType /\ stack \in Seq(Frames) /\ 0 \in Nat
    BY <1>0, <1>1, AtFacts DEF MatchFixedLengthElementSequence
  <2>2. state.str_begin \in Numbers
    BY <2>1, StateParts
  <2>3. ReadyFor(stack, function, state)
    BY <1>1, AtReady DEF MatchFixedLengthElementSequence
  <2> QED
    BY <2>1, <2>2, <2>3, ElementLoopOrder
<1>2. ASSUME BackIn(kind)
      PROVE  /\ Typed /\ Callers \in Seq(Frames) /\ Caller.kind = kind
             /\ Caller.node \in NodeFunctions(graph) /\ graph.node[Caller.node].kind = kind
             /\ state \in StateType /\ Caller.state_backup \in StateType
             /\ Caller.str_begin \in Numbers /\ Caller.counter \in Nat /\ Caller.counter + 1 \in Nat
             /\ CallerNode.element_length \in Nat
  <2>1. /\ Typed /\ Caller \in Frames /\ Callers \in Seq(Frames) /\ Caller.kind = kind
        /\ Caller.node \in NodeFunctions(graph) /\ graph.node[Caller.node].kind = kind
        /\ state \in StateType /\ Caller.state_backup \in StateType /\ CallerNode.kind = kind
        /\ NodeOK(CallerNode, DOMAIN graph.node \cup {nullptr}, Counters)
    BY <1>0, <1>2, BackInFacts
  <2>2. Caller.str_begin \in Numbers /\ Caller.counter \in Nat
    BY <2>1, FrameFacts
  <2>3. CallerNode.element_length \in Nat
    BY <2>1 DEF NodeOK
  <2> QED
    BY <2>1, <2>2, <2>3
<1>3. ASSUME BackIn(kind)
      PROVE  /\ ReadyFor(Callers, Caller.node, Caller.state_backup)
             /\ StackInOrder(graph, Callers) /\ ~ScansOnTop(Callers)
             /\ ~Caller.in_tail => ReadyFor(Callers, Caller.node, state)
             /\ res /\ Caller.in_tail =>
                  Finished(Callers, Len(Callers), state.return_chain_head, state.save_chain_head)
  <2>1. Caller.kind = kind
    BY <1>2, <1>3
  <2>2. WaitsForSubgraph(Caller) <=> ~Caller.in_tail
    BY <2>1 DEF WaitsForSubgraph, LookKinds
  <2>3. Scans(Caller) <=> ~Caller.in_tail
    BY <2>1 DEF Scans
  <2> QED
    BY <1>3, <2>2, <2>3, BackReady
<1>4. CASE BackInElement
  <2>1. BackIn(kind) /\ ~Caller.in_tail
    BY <1>4 DEF BackInElement
  <2>2. \/ ExtractElement(Caller.node, Caller.str_begin, Caller.counter + 1, state, Callers)
        \/ BlockAfterExtractLoop(Caller.node, Caller.str_begin, Caller.counter + 1, state, Callers)
        \/ BlockAfterExtractLoop(Caller.node, Caller.str_begin, Caller.counter, state, Callers)
    BY <1>4 DEF BackInElement
  <2> QED
    BY <1>2, <1>3, <2>1, <2>2, ElementLoopOrder
<1>5. CASE BackInElementTail
  <2> DEFINE back == Wrap(Caller.counter - CallerNode.element_length)
  <2>1. BackIn(kind) /\ Caller.in_tail
    BY <1>5 DEF BackInElementTail
  <2>2. \/ res /\ Ret(TRUE, state, Callers)
        \/ Ret(FALSE, Caller.state_backup, Callers)
        \/ BlockAfterExtractLoop(Caller.node, Caller.str_begin, back, Caller.state_backup, Callers)
    BY <1>5 DEF BackInElementTail
  <2>3. Caller.counter - CallerNode.element_length \in Int
    BY <1>2, <2>1
  <2>4. back \in Nat
    BY <2>3, WrapType, SizeMaxAssumption
  <2> HIDE DEF back
  <2>5. CASE res /\ Ret(TRUE, state, Callers)
    BY <1>3, <2>1, <2>5, MatchedOrder
  <2>6. CASE Ret(FALSE, Caller.state_backup, Callers)
    BY <1>3, <2>1, <2>6, FailOrder
  <2>7. CASE BlockAfterExtractLoop(Caller.node, Caller.str_begin, back, Caller.state_backup, Callers)
    BY <1>2, <1>3, <2>1, <2>4, <2>7, ElementLoopOrder
  <2> QED
    BY <2>2, <2>5, <2>6, <2>7
<1> QED
  BY <1>1, <1>4, <1>5

\* The stack holds frames of nodes.
LEMMA StackFrames ==
  ASSUME Typed
  PROVE  FramesOf(graph, stack)
<1>1. stack \in Seq(Frames)
  BY DEF Typed
<1>2. \A k \in 1..Len(stack) : stack[k] \in Frames
  BY <1>1
<1> QED
  BY <1>2, FrameFacts DEF FramesOf

LEMMA SubroutineOrder ==
  ASSUME Ordered,
         \/ MatchSubroutineEnter \/ MatchSubroutineLeave
         \/ MatchStateSave \/ MatchStateRestore \/ ReturnFromCall
  PROVE  ChainsInOrder'
<1>0. Running /\ Typed /\ FramesOf(graph, stack)
  BY StackFrames DEF Ordered, Running
<1>1. ASSUME NEW kind \in {"SubroutineEnter", "StateSave"}, At(kind)
      PROVE  /\ Frame(function, state) \in Frames /\ Frame(function, state).kind = kind
             /\ Copies(stack, Frame(function, state), function, state.return_chain_head,
                       state.save_chain_head)
  <2>1. /\ Typed /\ Here.kind = kind /\ state \in StateType
        /\ function \in NodeFunctions(graph) /\ Here = graph.node[function] /\ kind \in PlainKinds
    BY <1>0, <1>1, AtFacts DEF PlainKinds
  <2>2. Frame(function, state) \in Frames
    BY <2>1, NewFrames
  <2> QED
    BY <2>1, <2>2 DEF Frame, Copies
<1>2. ASSUME NEW kind \in {"SubroutineEnter", "SubroutineLeave", "StateSave", "StateRestore"},
             At(kind)
      PROVE  /\ Orderly(graph) /\ function \in DOMAIN graph.node /\ Here = graph.node[function]
             /\ graph.node[function].kind = kind
             /\ Ready(graph, stack, function, state.return_chain_head, state.save_chain_head)
             /\ state \in StateType /\ stack \in Seq(Frames)
  <2>1. Here.kind = kind /\ state \in StateType /\ stack \in Seq(Frames)
    BY <1>0, <1>2, AtFacts
  <2>2. /\ Orderly(graph) /\ function \in DOMAIN graph.node /\ Here = graph.node[function]
        /\ ReadyFor(stack, function, state)
    BY <1>2, AtReady
  <2> QED
    BY <2>1, <2>2 DEF ReadyFor
<1>3. CASE MatchSubroutineEnter
  <2> DEFINE s == [state EXCEPT !.return_chain_head = Len(stack) + 1, !.stored = {}]
             f == Frame(function, state)
  <2>1. At("SubroutineEnter") /\ Call(Here.subroutine_node, s, Append(stack, f))
    BY <1>3 DEF MatchSubroutineEnter, Pushed
  <2>2. s.return_chain_head = Len(stack) + 1 /\ s.save_chain_head = state.save_chain_head
    BY <1>2, <2>1 DEF StateType
  <2> HIDE DEF s, f
  <2>3. Entered(graph, Append(stack, f), Here.subroutine_node, Len(stack) + 1, state.save_chain_head)
    BY <1>1, <1>2, <2>1, EnterBody DEF f
  <2> QED
    BY <2>1, <2>2, <2>3, CallOrder
<1>4. CASE MatchSubroutineLeave
  <2> DEFINE link == stack[state.return_chain_head]
             s == [state EXCEPT !.return_chain_head = link.state_backup.return_chain_head,
                                !.stored = link.state_backup.stored]
  <2>1. At("SubroutineLeave") /\ Call(graph.node[link.node].next, s, stack)
    BY <1>4 DEF MatchSubroutineLeave
  <2>2. /\ s.return_chain_head = link.state_backup.return_chain_head
        /\ s.save_chain_head = state.save_chain_head
    BY <1>2, <2>1 DEF StateType
  <2>3. Entered(graph, stack, graph.node[link.node].next, link.state_backup.return_chain_head,
                state.save_chain_head)
    BY <1>0, <1>2, <2>1, LeaveBody
  <2> HIDE DEF s, link
  <2> QED
    BY <2>1, <2>2, <2>3, CallOrder
<1>5. CASE MatchStateSave
  <2> DEFINE s == [state EXCEPT !.save_chain_head = Len(stack) + 1]
             f == Frame(function, state)
  <2>1. At("StateSave") /\ Call(Here.next, s, Append(stack, f))
    BY <1>5 DEF MatchStateSave, Pushed
  <2>2. s.save_chain_head = Len(stack) + 1 /\ s.return_chain_head = state.return_chain_head
    BY <1>2, <2>1 DEF StateType
  <2> HIDE DEF s, f
  <2>3. Entered(graph, Append(stack, f), Here.next, state.return_chain_head, Len(stack) + 1)
    BY <1>1, <1>2, <2>1, EnterSaved DEF f
  <2> QED
    BY <2>1, <2>2, <2>3, CallOrder
<1>6. CASE MatchStateRestore
  <2> DEFINE saved == stack[state.save_chain_head].state_backup
             c == Restored(state.sequence_counters, saved.sequence_counters,
                           Here.sequence_counters_to_restore)
             h == Restored(state.groups, saved.groups, Here.groups_to_restore)
             s == [state EXCEPT !.sequence_counters = c, !.groups = h,
                                !.save_chain_head = saved.save_chain_head]
  <2>1. At("StateRestore") /\ Call(Here.next, s, stack)
    BY <1>6 DEF MatchStateRestore
  <2> HIDE DEF c, h
  <2>2. /\ s.return_chain_head = state.return_chain_head
        /\ s.save_chain_head = saved.save_chain_head
    BY <1>2, <2>1 DEF StateType
  <2>3. Entered(graph, stack, Here.next, state.return_chain_head, saved.save_chain_head)
    BY <1>0, <1>2, <2>1, EnterRestored
  <2> HIDE DEF s, saved
  <2> QED
    BY <2>1, <2>2, <2>3, CallOrder
<1>7. CASE ReturnFromCall
  <2>1. PICK kind \in {"SubroutineEnter", "StateSave"} : BackIn(kind) /\ Ret(res, state, Callers)
    BY <1>7 DEF ReturnFromCall
  <2>2. ~WaitsForSubgraph(Caller)
    BY <2>1 DEF BackIn, WaitsForSubgraph, LookKinds
  <2>3. /\ StackInOrder(graph, Callers) /\ ~ScansOnTop(Callers)
        /\ res => Finished(Callers, Len(Callers), state.return_chain_head, state.save_chain_head)
    BY <2>1, <2>2, BackReady
  <2>4. Left(graph, Callers, res, state.return_chain_head, state.save_chain_head)
    BY <2>3 DEF Left
  <2> QED
    BY <2>1, <2>4, RetOrder
<1> QED
  BY <1>3, <1>4, <1>5, <1>6, <1>7

-----------------------------------------------------------------------------
(***************************************************************************)
(* The root function, and the theorems about the chains.                   *)
(***************************************************************************)
\* No function changes what was called.
LEMMA RunArgs ==
  ASSUME NodeFunction \/ AfterCall
  PROVE  args' = args
<1>1. CASE NodeFunction
  <2>1. CASE \/ ReturnTrue \/ MatchText \/ MatchOneOf \/ MatchAnySymbol
             \/ MatchStringStartAssertion \/ MatchStringEndAssertion
             \/ MatchGroupStart \/ MatchGroupEnd \/ MatchBackReference
    BY <2>1 DEF ReturnTrue, MatchText, MatchOneOf, MatchAnySymbol, MatchClass,
       MatchStringStartAssertion, MatchStringEndAssertion, MatchGroupStart, MatchGroupEnd,
       MatchBackReference, CallIf, Call, Ret
  <2>2. CASE \/ MatchAlternatives \/ MatchAlternativesPossessive
             \/ MatchLookAhead \/ MatchLookBehind \/ MatchConditionalElement
             \/ MatchSequenceCounterReset \/ MatchSequenceCounter \/ MatchPossessiveSequence
    BY <2>2 DEF MatchAlternatives, TryAlternative, MatchAlternativesPossessive, MatchLookAhead,
       MatchLookBehind, MatchConditionalElement, MatchSequenceCounterReset, MatchSequenceCounter,
       MatchPossessiveSequence, PossessiveLoop, CallIf, Call, Ret
  <2>3. CASE \/ MatchSingleRollbackPointSequence \/ MatchFixedLengthElementSequence
             \/ MatchAtomicGroup \/ MatchSubroutineEnter \/ MatchSubroutineLeave
             \/ MatchStateSave \/ MatchStateRestore
    BY <2>3 DEF MatchSingleRollbackPointSequence, RollbackTail, MatchFixedLengthElementSequence,
       ExtractElement, MatchAtomicGroup, MatchSubroutineEnter, MatchSubroutineLeave,
       MatchStateSave, MatchStateRestore, Call
  <2> QED
    BY <1>1, <2>1, <2>2, <2>3 DEF NodeFunction
<1>2. CASE AfterCall
  <2>1. CASE \/ BackInAlternatives \/ BackInAlternativesPossessive \/ BackInLookAhead
             \/ BackInLookBehind \/ BackInConditionalElement \/ BackInSequenceCounter
             \/ BackInAtomicGroup \/ ReturnFromCall
    BY <2>1 DEF BackInAlternatives, TryAlternative, BackInAlternativesPossessive,
       BackInLookAhead, BackInLookBehind, BackInConditionalElement, BackInSequenceCounter,
       BackInAtomicGroup, ReturnFromCall, Call, Ret
  <2>2. CASE \/ BackInPossessiveSequence \/ BackInRollbackTail \/ BackInRollbackElement
             \/ BackInElement \/ BackInElementTail
    BY <2>2 DEF BackInPossessiveSequence, PossessiveLoop, BackInRollbackTail,
       BackInRollbackElement, RollbackTail, BackInElement, BackInElementTail, ExtractElement,
       BlockAfterExtractLoop, TailCheck, Call, Ret
  <2> QED
    BY <1>2, <2>1, <2>2 DEF AfterCall
<1> QED
  BY <1>1, <1>2

LEMMA RunOrder ==
  ASSUME Ordered, NodeFunction \/ AfterCall
  PROVE  ChainsInOrder'
<1>1. CASE NodeFunction
  BY <1>1, ReturnTrueOrder, ReadersOrder, StoreOrder, AlternativesOrder, AssertionsOrder,
     CounterOrder, PossessiveOrder, RollbackOrder, FixedLengthOrder, SubroutineOrder
  DEF NodeFunction
<1>2. CASE AfterCall
  BY <1>2, AlternativesOrder, AssertionsOrder, CounterOrder, PossessiveOrder, RollbackOrder,
     FixedLengthOrder, SubroutineOrder
  DEF AfterCall
<1> QED
  BY <1>1, <1>2

\* An attempt begins with an empty stack and null heads.
LEMMA SearchLoopOrder ==
  ASSUME Typed, Orderly(graph), SearchLoop
  PROVE  ChainsInOrder'
<1>1. /\ stack = <<>> /\ pc' = "call" /\ function' = graph.root /\ stack' = <<>> /\ graph' = graph
      /\ state'.return_chain_head = 0 /\ state'.save_chain_head = 0
  BY DEF SearchLoop, Typed, graph
<1>2. graph.root \notin BodyNodes(graph) /\ graph.root \notin Restores(graph) \cup SavingCalls(graph)
  BY NestedGraph, PairedRoot DEF Orderly
<1>3. StackInOrder(graph, <<>>) /\ ~ScansOnTop(<<>>)
  BY DEF StackInOrder, ScansOnTop
<1>4. IsBase(<<>>, 0, 0) /\ Follows(graph, <<>>, 0, 0, graph.root, 0, 0)
  BY <1>2 DEF IsBase, Follows, ReturnsDue, SavesDue, ReturnsAt, SavesAt
<1>5. InOrder(graph, <<>>, 0, graph.root, 0, 0) /\ HeadsLive(<<>>, 0, 0, 0) /\ Len(<<>>) = 0
  BY <1>4 DEF InOrder, HeadsLive, HeadLive
<1>6. Entered(graph, <<>>, graph.root, 0, 0)
  BY <1>3, <1>5 DEF Entered, Runs
<1> QED
  BY <1>1, <1>6 DEF ChainsInOrder

LEMMA StepOrder ==
  ASSUME Typed, Orderly(graph) => ChainsInOrder, [Next]_vars
  PROVE  Orderly(graph)' => ChainsInOrder'
<1>1. CASE (\E c \in Inputs : CallRoot(c)) \/ NextIteration \/ Found
  <2>1. pc' \in {"search_loop", "end"}
    BY <1>1 DEF CallRoot, NextIteration, Found
  <2> QED
    BY <2>1 DEF ChainsInOrder
<1>2. CASE NodeFunction \/ AfterCall
  <2>1. Running
    BY <1>2, RunsWhenCalled
  <2>2. graph' = graph
    <3>1. args' = args
      BY <1>2, RunArgs
    <3> QED
      BY <3>1 DEF graph
  <2>3. Orderly(graph) => Ordered
    BY <2>1 DEF Ordered
  <2> QED
    BY <1>2, <2>2, <2>3, RunOrder
<1>3. CASE SearchLoop
  <2>1. graph' = graph
    BY <1>3 DEF SearchLoop, graph
  <2> QED
    BY <1>3, <2>1, SearchLoopOrder
<1>4. CASE UNCHANGED vars
  <2>1. /\ pc' = pc /\ function' = function /\ state' = state /\ res' = res /\ stack' = stack
        /\ graph' = graph
    BY <1>4 DEF vars, graph
  <2> QED
    BY <2>1 DEF ChainsInOrder
<1> QED
  BY <1>1, <1>2, <1>3, <1>4 DEF Next, Run, Returned

LEMMA OrderThroughout == Spec => [](Typed /\ (Orderly(graph) => ChainsInOrder))
<1> DEFINE Inv == Typed /\ (Orderly(graph) => ChainsInOrder)
<1>1. Init => Inv
  BY InitTypes DEF Init, ChainsInOrder
<1>2. Inv /\ [Next]_vars => Inv'
  BY StepTypes, StepOrder
<1> QED
  BY <1>1, <1>2, PTL DEF Spec

\* A head that is live among the lowest d frames is a link.
LEMMA LiveLink ==
  ASSUME Typed, NEW d \in 0..Len(stack), NEW r, NEW v, HeadsLive(stack, d, r, v)
  PROVE  /\ r = 0 \/ (r <= d /\ r \in Links("SubroutineEnter"))
         /\ v = 0 \/ (v <= d /\ v \in Links("StateSave"))
<1>1. DOMAIN stack = 1..Len(stack) /\ Len(stack) \in Nat
  BY DEF Typed
<1> QED
  BY <1>1 DEF HeadsLive, HeadLive, Links

\* The frames left when the graph that has matched returns are those below its base.
LEMMA FinishedOuter ==
  ASSUME Typed, StackInOrder(graph, stack), NEW r, NEW v, Finished(stack, Len(stack), r, v)
  PROVE  Outer \in 0..Len(stack) /\ HeadsLive(stack, Outer, r, v)
<1> DEFINE d == Len(stack)
           waiting == { k \in DOMAIN stack : WaitsForSubgraph(stack[k]) }
<1>1. DOMAIN stack = 1..d /\ d \in Nat
  BY DEF Typed
<1>2. PICK b \in 0..d : IsBase(stack, d, b) /\ r = ReturnsAt(stack, b) /\ v = SavesAt(stack, b)
  BY DEF Finished
<1>3. Outer = IF waiting = {} THEN 0 ELSE Max(waiting) - 1
  BY DEF Outer
<1>4. CASE b = 0
  <2>1. waiting = {}
    BY <1>1, <1>2, <1>4 DEF IsBase
  <2> QED
    BY <1>1, <1>2, <1>3, <1>4, <2>1 DEF ReturnsAt, SavesAt, HeadsLive, HeadLive
<1>5. CASE b # 0
  <2>1. b \in 1..d /\ b \in waiting /\ waiting \subseteq 0..d
    BY <1>1, <1>2, <1>5 DEF IsBase
  <2>2. \A k \in waiting : k <= b
    BY <1>1, <1>2 DEF IsBase
  <2> HIDE DEF waiting
  <2>3. Max(waiting) \in waiting /\ \A x \in waiting : x <= Max(waiting)
    BY <1>1, <2>1, Largest
  <2> DEFINE m == Max(waiting)
  <2>4. m = b
    <3>1. m \in waiting /\ m <= b /\ b <= m
      BY <2>1, <2>2, <2>3
    <3>2. m \in Nat /\ b \in Nat
      <4>1. m \in 0..d /\ b \in 0..d
        BY <2>1, <3>1
      <4> HIDE DEF m, d
      <4> QED
        BY <4>1
    <3> HIDE DEF m
    <3> QED
      BY <3>1, <3>2
  <2>5. Outer = b - 1
    BY <1>3, <2>1, <2>4
  <2>6. FrameInOrder(graph, stack, b)
    BY <2>1 DEF StackInOrder
  <2>7. HeadsLive(stack, b - 1, r, v)
    BY <1>2, <1>5, <2>6 DEF FrameInOrder, ReturnsAt, SavesAt
  <2> QED
    BY <1>1, <2>1, <2>5, <2>7
<1> QED
  BY <1>4, <1>5

LEMMA OrderIsLive ==
  ASSUME Typed, ChainsInOrder
  PROVE  ChainsLive
<1> DEFINE link(head, kind, depth) == head = 0 \/ (head <= depth /\ head \in Links(kind))
           live(s, depth) == /\ link(s.return_chain_head, "SubroutineEnter", depth)
                             /\ link(s.save_chain_head, "StateSave", depth)
<1>1. DOMAIN stack = 1..Len(stack) /\ Len(stack) \in Nat /\ stack \in Seq(Frames)
  BY DEF Typed
<1>2. \A d \in 0..Len(stack) : \A s :
        HeadsLive(stack, d, s.return_chain_head, s.save_chain_head) => live(s, d)
  BY LiveLink
<1> HIDE DEF live
<1>3. ASSUME pc = "call"
      PROVE  live(state, Len(stack))
  <2>1. HeadsLive(stack, Len(stack), state.return_chain_head, state.save_chain_head)
    BY <1>3 DEF ChainsInOrder, Entered, Runs
  <2> QED
    BY <1>1, <1>2, <2>1
<1>4. ASSUME pc = "ret", res
      PROVE  live(state, Outer)
  <2>1. /\ StackInOrder(graph, stack)
        /\ Finished(stack, Len(stack), state.return_chain_head, state.save_chain_head)
    BY <1>4 DEF ChainsInOrder, Left
  <2> QED
    BY <1>2, <2>1, FinishedOuter
<1>5. ASSUME NEW k \in DOMAIN stack, NEW s \in StatesOf(stack[k])
      PROVE  live(s, k - 1)
  <2>1. pc \in {"call", "ret"} /\ StackInOrder(graph, stack)
    <3>1. stack # <<>>
      BY <1>5
    <3> QED
      BY <3>1 DEF Typed, ChainsInOrder, Entered, Left
  <2>2. k \in 1..Len(stack) /\ k - 1 \in 0..Len(stack)
    BY <1>1
  <2>3. FrameInOrder(graph, stack, k)
    BY <2>1, <2>2 DEF StackInOrder
  <2>4. HeadsLive(stack, k - 1, s.return_chain_head, s.save_chain_head)
    <3>1. CASE s = stack[k].state_backup
      BY <2>3, <3>1 DEF FrameInOrder
    <3>2. CASE s # stack[k].state_backup
      <4>1. stack[k].kind = "SingleRollbackPointSequence" /\ s \in stack[k].next_states
        BY <1>5, <3>2 DEF StatesOf
      <4>2. Finished(stack, k - 1, s.return_chain_head, s.save_chain_head)
        BY <2>3, <4>1 DEF FrameInOrder
      <4> QED
        BY <1>1, <2>1, <2>2, <4>2, FinishedLive
    <3> QED
      BY <3>1, <3>2
  <2> QED
    BY <1>2, <2>2, <2>4
<1> QED
  BY <1>3, <1>4, <1>5 DEF ChainsLive, live

\* A node of the subroutine is reached from its entry.
LEMMA InBodyFrom ==
  ASSUME NEW g, GraphOK(g), IsFiniteSet(DOMAIN g.node), Orderly(g),
         NEW entry \in BodyNodes(g), NEW p, InBody(g, entry, p)
  PROVE  p \in BodyFrom(g, entry)
<1> DEFINE S == BodyFrom(g, entry) \cap BodyNodes(g)
<1>1. BodyNodes(g) \subseteq DOMAIN g.node /\ nullptr \notin DOMAIN g.node
  BY NestedGraph DEF Orderly, GraphOK
<1>2. /\ entry \in BodyFrom(g, entry)
      /\ \A m \in BodyFrom(g, entry) :
           ContinuationsOf(g.node[m]) \subseteq BodyFrom(g, entry) \cup {nullptr}
  BY <1>1, BodyClosed
<1>3. S \in SUBSET BodyNodes(g) /\ entry \in S
  BY <1>2
<1>4. \A m \in S : ContinuationsOf(g.node[m]) \cap BodyNodes(g) \subseteq S
  BY <1>1, <1>2
<1> HIDE DEF S
<1>5. p \in S
  BY <1>3, <1>4 DEF InBody
<1> QED
  BY <1>5 DEF S

LEMMA OrderReturns ==
  ASSUME Typed, Orderly(graph), ChainsInOrder
  PROVE  CallsReturn
<1>1. ASSUME NEW kind, At(kind)
      PROVE  Ordered
  BY <1>1 DEF Ordered, Running, At
<1>2. ASSUME NEW kind \in {"SubroutineLeave", "StateRestore"}, At(kind)
      PROVE  /\ function \in DOMAIN graph.node /\ Here = graph.node[function]
             /\ graph.node[function].kind = kind
             /\ Ready(graph, stack, function, state.return_chain_head, state.save_chain_head)
             /\ stack \in Seq(Frames) /\ FramesOf(graph, stack)
  <2>1. Ordered /\ Here.kind = kind
    BY <1>1, <1>2 DEF At
  <2>2. /\ function \in DOMAIN graph.node /\ Here = graph.node[function]
        /\ ReadyFor(stack, function, state)
    BY <1>2, <2>1, AtReady
  <2> QED
    BY <2>1, <2>2, StackFrames DEF ReadyFor, Typed
<1>3. At("SubroutineLeave") =>
        /\ state.return_chain_head # 0
        /\ LET call == graph.node[stack[state.return_chain_head].node]
           IN function \in BodyFrom(graph, call.subroutine_node)
  <2> SUFFICES ASSUME At("SubroutineLeave")
               PROVE  /\ state.return_chain_head # 0
                      /\ LET call == graph.node[stack[state.return_chain_head].node]
                         IN function \in BodyFrom(graph, call.subroutine_node)
    OBVIOUS
  <2> DEFINE r     == state.return_chain_head
             entry == graph.node[stack[r].node].subroutine_node
  <2>1. /\ r \in 1..Len(stack) /\ stack[r].kind = "SubroutineEnter"
        /\ function \in BodyNodes(graph) /\ InBody(graph, entry, function)
    BY <1>2, LeaveBody
  <2>2. entry \in BodyNodes(graph)
    <3>1. stack[r].node \in DOMAIN graph.node /\ graph.node[stack[r].node].kind = "SubroutineEnter"
      BY <1>2, <2>1 DEF FramesOf
    <3> QED
      BY <3>1, CallLeads DEF PlainNode
  <2> HIDE DEF entry
  <2>3. function \in BodyFrom(graph, entry)
    BY <2>1, <2>2, InBodyFrom, CodeFacts DEF Typed
  <2> QED
    BY <2>1, <2>3 DEF entry
<1>4. At("StateRestore") =>
        /\ state.save_chain_head # 0
        /\ LET save == graph.node[stack[state.save_chain_head].node]
           IN /\ save.groups_to_save = Here.groups_to_restore
              /\ save.sequence_counters_to_save = Here.sequence_counters_to_restore
              /\ graph.node[save.next].next = function
  <2> SUFFICES ASSUME At("StateRestore")
               PROVE  /\ state.save_chain_head # 0
                      /\ LET save == graph.node[stack[state.save_chain_head].node]
                         IN /\ save.groups_to_save = Here.groups_to_restore
                            /\ save.sequence_counters_to_save = Here.sequence_counters_to_restore
                            /\ graph.node[save.next].next = function
    OBVIOUS
  <2> DEFINE v == state.save_chain_head
             p == stack[v].node
  <2>1. /\ v \in 1..Len(stack) /\ stack[v].kind = "StateSave"
        /\ graph.node[graph.node[p].next].next = function
    BY <1>2, EnterRestored
  <2>2. p \in DOMAIN graph.node /\ graph.node[p].kind = "StateSave"
    BY <1>2, <2>1 DEF FramesOf
  <2> HIDE DEF p
  <2>3. LET n       == graph.node[p]
            restore == graph.node[graph.node[n.next].next]
        IN /\ restore.groups_to_restore = n.groups_to_save
           /\ restore.sequence_counters_to_restore = n.sequence_counters_to_save
    BY <2>2, PairedNode DEF Orderly
  <2> QED
    BY <1>2, <2>1, <2>3 DEF p
<1>5. ASSUME pc = "ret", res
      PROVE  IF stack = <<>> THEN state.return_chain_head = 0 /\ state.save_chain_head = 0
             ELSE WaitsForSubgraph(Caller) =>
                    /\ state.return_chain_head = Caller.state_backup.return_chain_head
                    /\ state.save_chain_head = Caller.state_backup.save_chain_head
  <2>1. /\ StackInOrder(graph, stack) /\ stack \in Seq(Frames)
        /\ Finished(stack, Len(stack), state.return_chain_head, state.save_chain_head)
    BY <1>5 DEF ChainsInOrder, Left, Typed
  <2>2. CASE stack = <<>>
    BY <2>1, <2>2 DEF Finished, ReturnsAt, SavesAt
  <2>3. CASE stack # <<>>
    BY <2>1, <2>3, PopInOrder DEF Caller
  <2> QED
    BY <2>2, <2>3
<1> QED
  BY <1>3, <1>4, <1>5 DEF CallsReturn

\* In a function generated for a graph whose bodies of subroutines are entered by
\* their calls alone and whose saves stand by the calls they are for, neither chain
\* of calls ever holds a pointer to a local of a function that has returned: not in
\* *state, not in a copy that may be copied back.
THEOREM ChainsStayLive == Spec => [](Orderly(graph) => ChainsLive)
<1>1. Typed /\ (Orderly(graph) => ChainsInOrder) => (Orderly(graph) => ChainsLive)
  BY OrderIsLive
<1> QED
  BY <1>1, OrderThroughout, PTL

\* In such a function SubroutineLeave always finds the call of the body it ends, and
\* StateRestore the save made for its call; when a graph of its own has matched, or
\* the whole, both chains are as they were when it began.
THEOREM CallsComeBack == Spec => [](Orderly(graph) => CallsReturn)
<1>1. Typed /\ (Orderly(graph) => ChainsInOrder) => (Orderly(graph) => CallsReturn)
  BY OrderReturns
<1> QED
  BY <1>1, OrderThroughout, PTL

-----------------------------------------------------------------------------
(***************************************************************************)
(* What the States keep.  From where the whole, a graph of its own or a    *)
(* subroutine begins to where it ends, the match only moves forward: no    *)
(* counter that has been set is lost, and a group that began before the    *)
(* position still does.  A look-behind alone steps back, and nothing goes  *)
(* on from what it leaves.  So a State keeps what the copy in the base of  *)
(* its frames had, and what the copies in its last call and its last save  *)
(* had, where these are above the base.  The marks of the counters stored  *)
(* start anew with a call of a subroutine; a State keeps those of a copy   *)
(* made in the same call.                                                  *)
(*                                                                         *)
(* c is a call of the function.  Where loops go back by more than a byte,  *)
(* positions are no matter here, and counters alone are tracked.           *)
(***************************************************************************)
Exact(c)    == ByteLoops(c.code.graph)
Reliable(c) == IF Exact(c) THEN c.code.fields ELSE {}

Tracked(c) ==
  { <<"counter", id>> : id \in c.code.graph.used_sequence_counters }
  \cup { <<"group", i>> : i \in Reliable(c) }

\* What State s holds of that: the counters that are set, and the groups that
\* begin before the position.
Known(c, s) ==
  { <<"counter", id>> : id \in { x \in c.code.graph.used_sequence_counters :
                                   s.sequence_counters[x] # Uninitialized } }
  \cup { <<"group", i>> : i \in { x \in Reliable(c) : s.groups[x].begin <= s.str_begin } }

\* Without the counters that were set before this attempt, or this call of a
\* subroutine, began.
Held(c, s) ==
  Known(c, s) \ { <<"counter", id>> : id \in c.code.graph.used_sequence_counters \ s.stored }

\* State t keeps what s holds.
Keeps(c, t, s) ==
  /\ Known(c, s) \subseteq Known(c, t)
  /\ Exact(c) => s.str_begin <= t.str_begin
  /\ t.return_chain_head = s.return_chain_head => s.stored \subseteq t.stored

\* No pointer of s leaves the string.
Clean(c, s) ==
  Exact(c) =>
    /\ s.str_begin <= Len(c.str)
    /\ \A i \in c.code.fields :
         s.groups[i].begin <= s.groups[i].end /\ s.groups[i].end <= Len(c.str)

\* Frame k belongs to what runs above the base.
Inside(stk, d, k) == k \in 1..d /\ \A j \in k..d : ~WaitsForSubgraph(stk[j])

EndsOn(c, stk, d, s) ==
  /\ Clean(c, s)
  /\ \A b \in 1..d : IsBase(stk, d, b) /\ stk[b].kind # "LookBehind" =>
       Keeps(c, s, stk[b].state_backup)

Comes(c, stk, d, s) ==
  /\ EndsOn(c, stk, d, s)
  /\ \A k \in {s.return_chain_head, s.save_chain_head} :
       Inside(stk, d, k) => Keeps(c, s, stk[k].state_backup)

\* The function of p can run on s: all that is stored on every way to it is there.
StandsAt(c, stk, d, p, s) ==
  Comes(c, stk, d, s) /\ StoredAt(c.code.graph, Tracked(c), p) \subseteq Held(c, s)

\* The State a function was called with: a loop over elements of fixed length goes
\* back to it without keeping it.
Origin(f) ==
  IF f.kind = "FixedLengthElementSequence" THEN Moved(f.state_backup, f.str_begin)
  ELSE f.state_backup

\* The counter of such a loop leads to a position that has been read, and on the
\* way back it is not below the minimum.
LoopStands(c, f) ==
  f.kind = "FixedLengthElementSequence" /\ Exact(c) =>
    /\ f.str_begin + f.counter <= Len(c.str)
    /\ f.str_begin <= f.state_backup.str_begin
    /\ IF f.in_tail THEN c.code.graph.node[f.node].min_elements <= f.counter
       ELSE f.str_begin + f.counter <= f.state_backup.str_begin

FrameStands(c, stk, d, f) ==
  /\ StandsAt(c, stk, d, f.node, Origin(f))
  /\ Clean(c, f.state_backup)
  /\ f.kind = "SingleRollbackPointSequence" => \A s \in f.next_states : EndsOn(c, stk, d, s)
  /\ LoopStands(c, f)

StackStands(c, stk) == \A k \in 1..Len(stk) : FrameStands(c, stk, k - 1, stk[k])

\* The element of a loop that scans has read n more bytes when it has matched n
\* times, and stored nothing.
Elements(c, stk, n, s) ==
  Exact(c) /\ ScansOnTop(stk) =>
    /\ Last(stk).str_begin + Last(stk).counter + n <= s.str_begin
    /\ s.groups = Last(stk).state_backup.groups

Calls(c, stk, p, s) ==
  /\ StackStands(c, stk) /\ StandsAt(c, stk, Len(stk), p, s)
  /\ Elements(c, stk, IF p = nullptr THEN 1 ELSE 0, s)

Leaves(c, stk, value, s) ==
  /\ StackStands(c, stk) /\ Clean(c, s)
  /\ value \/ ScansOnTop(stk) => EndsOn(c, stk, Len(stk), s)
  /\ Elements(c, stk, IF value THEN 1 ELSE 0, s)

StatesKept ==
  /\ pc = "call" => Calls(args, stack, function, state)
  /\ pc = "ret" => Leaves(args, stack, res, state)
  /\ pc = "search_loop" => current_start_offset <= Len(str)

-----------------------------------------------------------------------------
(***************************************************************************)
(* What is known, part by part.                                            *)
(***************************************************************************)
LEMMA KnownParts ==
  ASSUME NEW c, NEW s
  PROVE  /\ \A id : <<"counter", id>> \in Known(c, s) <=>
                      /\ id \in c.code.graph.used_sequence_counters
                      /\ s.sequence_counters[id] # Uninitialized
         /\ \A i : <<"group", i>> \in Known(c, s) <=>
                     i \in Reliable(c) /\ s.groups[i].begin <= s.str_begin
         /\ \A x \in Known(c, s) : (\E id : x = <<"counter", id>>) \/ (\E i : x = <<"group", i>>)
BY DEF Known

LEMMA HeldParts ==
  ASSUME NEW c, NEW s
  PROVE  /\ \A id : <<"counter", id>> \in Held(c, s) <=>
                      <<"counter", id>> \in Known(c, s) /\ id \in s.stored
         /\ \A i : <<"group", i>> \in Held(c, s) <=> <<"group", i>> \in Known(c, s)
         /\ Held(c, s) \subseteq Known(c, s)
<1>1. \A id : <<"counter", id>> \in Known(c, s) => id \in c.code.graph.used_sequence_counters
  BY KnownParts
<1>2. \A id, x : <<"counter", id>> = <<"counter", x>> => id = x
  OBVIOUS
<1>3. \A i, x : <<"group", i>> # <<"counter", x>>
  OBVIOUS
<1> QED
  BY <1>1, <1>2, <1>3 DEF Held

\* In the same call, what is kept is still held.
LEMMA HeldKept ==
  ASSUME NEW c, NEW s, NEW t, Keeps(c, t, s), t.return_chain_head = s.return_chain_head
  PROVE  Held(c, s) \subseteq Held(c, t)
<1> SUFFICES ASSUME NEW x \in Held(c, s)
             PROVE  x \in Held(c, t)
  OBVIOUS
<1>1. x \in Known(c, s) /\ x \in Known(c, t) /\ s.stored \subseteq t.stored
  BY HeldParts DEF Keeps
<1>2. (\E id : x = <<"counter", id>>) \/ (\E i : x = <<"group", i>>)
  BY <1>1, KnownParts
<1> QED
  BY <1>1, <1>2, HeldParts

LEMMA TrackedParts ==
  ASSUME NEW c
  PROVE  /\ \A id : <<"counter", id>> \in Tracked(c) <=>
                      id \in c.code.graph.used_sequence_counters
         /\ \A i : <<"group", i>> \in Tracked(c) <=> i \in Reliable(c)
BY DEF Tracked

LEMMA KeepsParts ==
  ASSUME NEW c, NEW s, NEW t,
         \A id \in c.code.graph.used_sequence_counters :
           s.sequence_counters[id] # Uninitialized => t.sequence_counters[id] # Uninitialized,
         \A i \in Reliable(c) :
           s.groups[i].begin <= s.str_begin => t.groups[i].begin <= t.str_begin,
         Exact(c) => s.str_begin <= t.str_begin,
         t.return_chain_head = s.return_chain_head => s.stored \subseteq t.stored
  PROVE  Keeps(c, t, s)
<1>1. \A x \in Known(c, s) : x \in Known(c, t)
  BY KnownParts
<1> QED
  BY <1>1 DEF Keeps

LEMMA KeepsAlways ==
  ASSUME NEW s \in StateType
  PROVE  /\ Keeps(args, s, s)
         /\ \A t \in StateType : \A u \in StateType :
              /\ Keeps(args, t, s) /\ Keeps(args, u, t)
              /\ u.return_chain_head = s.return_chain_head =>
                   t.return_chain_head = s.return_chain_head
              => Keeps(args, u, s)
<1>1. s.str_begin \in Nat /\ \A t \in StateType : t.str_begin \in Nat
  BY StateParts
<1> QED
  BY <1>1 DEF Keeps

\* A State that only moves forward keeps what it had.
LEMMA KeepsForward ==
  ASSUME NEW s \in StateType, NEW t \in StateType,
         t.sequence_counters = s.sequence_counters, t.groups = s.groups,
         Exact(args) => s.str_begin <= t.str_begin,
         t.return_chain_head = s.return_chain_head => s.stored \subseteq t.stored
  PROVE  Keeps(args, t, s)
<1>1. \A i \in Reliable(args) :
        s.groups[i].begin <= s.str_begin => t.groups[i].begin <= t.str_begin
  <2> SUFFICES ASSUME NEW i \in Reliable(args), s.groups[i].begin <= s.str_begin
               PROVE  s.groups[i].begin <= t.str_begin
    OBVIOUS
  <2>1. Exact(args) /\ i \in Fields
    BY DEF Reliable, Fields
  <2>2. s.groups[i].begin \in Nat /\ s.str_begin \in Nat /\ t.str_begin \in Nat
    BY <2>1, StateParts
  <2> QED
    BY <2>1, <2>2
<1> QED
  BY <1>1, KeepsParts

-----------------------------------------------------------------------------
(***************************************************************************)
(* Frames are pushed and popped.                                           *)
(***************************************************************************)
\* What is kept depends on the frames from below alone.
LEMMA SameStands ==
  ASSUME NEW c, NEW stk1, NEW stk2, NEW d \in Nat, Agree(stk1, stk2, d), NEW s
  PROVE  /\ EndsOn(c, stk1, d, s) => EndsOn(c, stk2, d, s)
         /\ Comes(c, stk1, d, s) => Comes(c, stk2, d, s)
         /\ \A p : StandsAt(c, stk1, d, p, s) => StandsAt(c, stk2, d, p, s)
<1>1. \A k \in 1..d : stk1[k] = stk2[k]
  BY DEF Agree
<1>2. \A b \in 1..d : IsBase(stk2, d, b) => IsBase(stk1, d, b)
  BY <1>1 DEF IsBase
<1>3. \A k : Inside(stk2, d, k) => Inside(stk1, d, k)
  BY <1>1 DEF Inside
<1>4. EndsOn(c, stk1, d, s) => EndsOn(c, stk2, d, s)
  BY <1>1, <1>2 DEF EndsOn
<1>5. Comes(c, stk1, d, s) => Comes(c, stk2, d, s)
  <2>1. \A k : Inside(stk2, d, k) => stk1[k] = stk2[k]
    BY <1>1 DEF Inside
  <2> QED
    BY <1>3, <1>4, <2>1 DEF Comes
<1> QED
  BY <1>4, <1>5 DEF StandsAt

LEMMA SameFrameStands ==
  ASSUME NEW c, NEW stk1, NEW stk2, NEW d \in Nat, Agree(stk1, stk2, d), NEW f,
         FrameStands(c, stk1, d, f)
  PROVE  FrameStands(c, stk2, d, f)
BY SameStands DEF FrameStands

\* A frame that waits for nothing changes nothing.
LEMMA EndsHigher ==
  ASSUME NEW c, NEW stk, NEW d \in Nat, ~WaitsForSubgraph(stk[d + 1]), NEW s
  PROVE  EndsOn(c, stk, d, s) <=> EndsOn(c, stk, d + 1, s)
<1>1. \A b \in 1..d : IsBase(stk, d, b) <=> IsBase(stk, d + 1, b)
  BY DEF IsBase
<1>2. ~IsBase(stk, d + 1, d + 1)
  BY DEF IsBase
<1>3. \A b : b \in 1..(d + 1) <=> b \in 1..d \/ b = d + 1
  OBVIOUS
<1> QED
  BY <1>1, <1>2, <1>3 DEF EndsOn

\* The heads lead to frames below, or to this frame, which has a copy the State keeps.
LEMMA ComesHigher ==
  ASSUME NEW c, NEW stk, NEW d \in Nat, ~WaitsForSubgraph(stk[d + 1]), NEW s,
         EndsOn(c, stk, d, s),
         \A k \in {s.return_chain_head, s.save_chain_head} :
           /\ k \in 0..(d + 1)
           /\ Inside(stk, d, k) => Keeps(c, s, stk[k].state_backup)
           /\ k = d + 1 => Keeps(c, s, stk[k].state_backup)
  PROVE  Comes(c, stk, d + 1, s)
<1>1. EndsOn(c, stk, d + 1, s)
  BY EndsHigher
<1>2. \A k : Inside(stk, d + 1, k) => k = d + 1 \/ Inside(stk, d, k)
  BY DEF Inside
<1> QED
  BY <1>1, <1>2 DEF Comes

LEMMA StandsHigher ==
  ASSUME NEW c, NEW stk, NEW d \in Nat, ~WaitsForSubgraph(stk[d + 1]), NEW p, NEW s,
         StandsAt(c, stk, d, p, s), HeadsLive(stk, d, s.return_chain_head, s.save_chain_head)
  PROVE  StandsAt(c, stk, d + 1, p, s)
<1>1. \A k \in {s.return_chain_head, s.save_chain_head} : k \in 0..d
  BY DEF HeadsLive, HeadLive
<1>2. \A k \in 0..d : k \in 0..(d + 1) /\ k # d + 1
  OBVIOUS
<1>3. Comes(c, stk, d + 1, s)
  BY <1>1, <1>2, ComesHigher DEF StandsAt, Comes
<1> QED
  BY <1>3 DEF StandsAt

\* A graph of its own begins on a State like the copy of the frame that waits for it,
\* and the heads lead to frames below.
LEMMA ComesInside ==
  ASSUME NEW c, NEW stk, NEW d \in Nat, WaitsForSubgraph(stk[d + 1]), NEW s, Clean(c, s),
         stk[d + 1].kind # "LookBehind" => Keeps(c, s, stk[d + 1].state_backup),
         HeadsLive(stk, d, s.return_chain_head, s.save_chain_head)
  PROVE  Comes(c, stk, d + 1, s)
<1>1. \A b \in 1..(d + 1) : IsBase(stk, d + 1, b) => b = d + 1
  BY WaitingBase
<1>2. EndsOn(c, stk, d + 1, s)
  BY <1>1 DEF EndsOn
<1>3. \A k : k \in 1..(d + 1) => d + 1 \in k..(d + 1)
  OBVIOUS
<1>4. \A k : ~Inside(stk, d + 1, k)
  BY <1>3 DEF Inside
<1> QED
  BY <1>2, <1>4 DEF Comes

LEMMA PushStands ==
  ASSUME NEW c, NEW F, NEW stk \in Seq(F), NEW f \in F,
         StackStands(c, stk), FrameStands(c, stk, Len(stk), f)
  PROVE  StackStands(c, Append(stk, f))
<1> DEFINE new == Append(stk, f)
           d   == Len(stk)
<1>1. /\ d \in Nat /\ Len(new) = d + 1
      /\ \A k \in 1..d : new[k] = stk[k]
      /\ new[d + 1] = f
  BY PushedStack
<1>2. FrameStands(c, stk, d, f) /\ \A k \in 1..d : FrameStands(c, stk, k - 1, stk[k])
  BY DEF StackStands
<1> HIDE DEF new, d
<1>3. \A k \in 1..(d + 1) : k - 1 \in Nat /\ Agree(stk, new, k - 1)
  BY <1>1 DEF Agree
<1>4. \A k \in 1..d : FrameStands(c, new, k - 1, new[k])
  <2> TAKE k \in 1..d
  <2>1. k \in 1..(d + 1) /\ new[k] = stk[k] /\ FrameStands(c, stk, k - 1, stk[k])
    BY <1>1, <1>2
  <2> QED
    BY <1>3, <2>1, SameFrameStands
<1>5. FrameStands(c, new, (d + 1) - 1, new[d + 1])
  <2>1. d + 1 \in 1..(d + 1) /\ (d + 1) - 1 = d
    BY <1>1
  <2>2. Agree(stk, new, d)
    BY <1>3, <2>1
  <2> QED
    BY <1>1, <1>2, <2>1, <2>2, SameFrameStands
<1>6. \A k \in 1..(d + 1) : k \in 1..d \/ k = d + 1
  BY <1>1
<1>7. StackStands(c, new)
  BY <1>1, <1>4, <1>5, <1>6 DEF StackStands
<1> QED
  BY <1>7 DEF new

LEMMA PopStands ==
  ASSUME NEW c, NEW F, NEW stk \in Seq(F), stk # <<>>, StackStands(c, stk)
  PROVE  LET f   == Last(stk)
             old == Front(stk)
         IN /\ StackStands(c, old) /\ FrameStands(c, old, Len(old), f)
            /\ \A s : EndsOn(c, stk, Len(stk), s) =>
                 IF WaitsForSubgraph(f)
                 THEN Clean(c, s) /\ (f.kind # "LookBehind" => Keeps(c, s, f.state_backup))
                 ELSE EndsOn(c, old, Len(old), s)
<1> DEFINE f   == Last(stk)
           old == Front(stk)
           d   == Len(old)
<1>1. /\ d \in Nat /\ Len(stk) = d + 1
      /\ \A k \in 1..d : old[k] = stk[k]
      /\ f = stk[d + 1]
  BY PoppedStack
<1>2. \A k \in 1..(d + 1) : FrameStands(c, stk, k - 1, stk[k])
  BY <1>1 DEF StackStands
<1> HIDE DEF f, old, d
<1>3. \A k \in 1..(d + 1) : k - 1 \in Nat /\ Agree(stk, old, k - 1)
  BY <1>1 DEF Agree
<1>4. \A k \in 1..d : FrameStands(c, old, k - 1, old[k])
  <2> TAKE k \in 1..d
  <2>1. k \in 1..(d + 1) /\ old[k] = stk[k]
    BY <1>1
  <2> QED
    BY <1>2, <1>3, <2>1, SameFrameStands
<1>5. d + 1 \in 1..(d + 1) /\ (d + 1) - 1 = d
  BY <1>1
<1>6. Agree(stk, old, d)
  BY <1>3, <1>5
<1>7. FrameStands(c, stk, d, f)
  BY <1>1, <1>2, <1>5
<1>8. FrameStands(c, old, d, f)
  BY <1>1, <1>6, <1>7, SameFrameStands
<1>9. ASSUME NEW s, EndsOn(c, stk, d + 1, s)
      PROVE  IF WaitsForSubgraph(f)
             THEN Clean(c, s) /\ (f.kind # "LookBehind" => Keeps(c, s, f.state_backup))
             ELSE EndsOn(c, old, d, s)
  <2>1. CASE WaitsForSubgraph(f)
    <3>1. IsBase(stk, d + 1, d + 1)
      BY <1>1, <2>1 DEF IsBase
    <3> QED
      BY <1>1, <1>5, <1>9, <2>1, <3>1 DEF EndsOn
  <2>2. CASE ~WaitsForSubgraph(f)
    <3>1. EndsOn(c, stk, d, s)
      BY <1>1, <1>9, <2>2, EndsHigher
    <3>2. EndsOn(c, old, d, s)
      BY <1>1, <1>6, <3>1, SameStands
    <3> QED
      BY <2>2, <3>2
  <2> QED
    BY <2>1, <2>2
<1>10. StackStands(c, old)
  BY <1>4 DEF StackStands, d
<1> QED
  BY <1>1, <1>8, <1>9, <1>10 DEF f, old, d

-----------------------------------------------------------------------------
(***************************************************************************)
(* From node to node.                                                      *)
(***************************************************************************)
LEMMA BackupType ==
  ASSUME Typed, NEW stk \in Seq(Frames), NEW k \in 1..Len(stk)
  PROVE  stk[k] \in Frames /\ stk[k].state_backup \in StateType
<1>1. stk[k] \in Frames
  OBVIOUS
<1> QED
  BY <1>1, FrameFacts

\* A State that keeps what s holds will do for s.
LEMMA EndsKept ==
  ASSUME Typed, NEW stk \in Seq(Frames), NEW d \in 0..Len(stk), NEW s \in StateType,
         NEW t \in StateType, EndsOn(args, stk, d, s), Keeps(args, t, s), Clean(args, t),
         SameHeads(t, s)
  PROVE  EndsOn(args, stk, d, t)
<1> SUFFICES ASSUME NEW b \in 1..d, IsBase(stk, d, b), stk[b].kind # "LookBehind"
             PROVE  Keeps(args, t, stk[b].state_backup)
  BY DEF EndsOn
<1>1. Keeps(args, s, stk[b].state_backup)
  BY DEF EndsOn
<1>2. stk[b].state_backup \in StateType
  BY BackupType
<1>3. t.return_chain_head = s.return_chain_head
  BY DEF SameHeads
<1> QED
  BY <1>1, <1>2, <1>3, KeepsAlways

LEMMA ComesKept ==
  ASSUME Typed, NEW stk \in Seq(Frames), NEW d \in 0..Len(stk), NEW s \in StateType,
         NEW t \in StateType, Comes(args, stk, d, s), Keeps(args, t, s), Clean(args, t),
         SameHeads(t, s)
  PROVE  Comes(args, stk, d, t)
<1>1. EndsOn(args, stk, d, t)
  BY EndsKept DEF Comes
<1>2. ASSUME NEW k \in {s.return_chain_head, s.save_chain_head}, Inside(stk, d, k)
      PROVE  Keeps(args, t, stk[k].state_backup)
  <2>1. Keeps(args, s, stk[k].state_backup)
    BY <1>2 DEF Comes
  <2>2. k \in 1..Len(stk)
    BY <1>2 DEF Inside
  <2>3. stk[k].state_backup \in StateType
    BY <2>2, BackupType
  <2> QED
    BY <2>1, <2>3, KeepsAlways DEF SameHeads
<1> QED
  BY <1>1, <1>2 DEF Comes, SameHeads

\* The function of p runs on s above stk, and is no element of a loop that scans.
Standing(stk, p, s) ==
  /\ stk \in Seq(Frames) /\ s \in StateType
  /\ ReadyFor(stk, p, s)
  /\ StackStands(args, stk) /\ StandsAt(args, stk, Len(stk), p, s)

LEMMA StandingKept ==
  ASSUME Typed, NEW stk, NEW p, NEW s, Standing(stk, p, s), NEW t \in StateType,
         Keeps(args, t, s), Clean(args, t), SameHeads(t, s)
  PROVE  Standing(stk, p, t)
<1>1. stk \in Seq(Frames) /\ s \in StateType /\ Len(stk) \in 0..Len(stk)
  BY DEF Standing
<1>2. Comes(args, stk, Len(stk), s)
  BY DEF Standing, StandsAt
<1>3. Comes(args, stk, Len(stk), t)
  BY <1>1, <1>2, ComesKept
<1>4. StandsAt(args, stk, Len(stk), p, t)
  BY <1>3, HeldKept DEF Standing, StandsAt, SameHeads
<1>5. ReadyFor(stk, p, t)
  BY DEF Standing, ReadyFor, SameHeads
<1> QED
  BY <1>1, <1>4, <1>5 DEF Standing

\* What node p makes of State s for the nodes after it.
Onward(p, t, s) ==
  /\ t \in StateType /\ Keeps(args, t, s) /\ Clean(args, t) /\ SameHeads(t, s)
  /\ StoredBy(graph.node[p]) \cap Tracked(args) \subseteq Held(args, t)

LEMMA OnwardSame ==
  ASSUME NEW p, NEW s \in StateType, NEW t \in StateType, StoredBy(graph.node[p]) = {},
         Keeps(args, t, s), Clean(args, t), SameHeads(t, s)
  PROVE  Onward(p, t, s)
BY DEF Onward

LEMMA NextStands ==
  ASSUME Typed, NEW stk \in Seq(Frames), NEW d \in 0..Len(stk), NEW p \in DOMAIN graph.node,
         NEW s \in StateType, StandsAt(args, stk, d, p, s),
         NEW q \in ContinuationsOf(graph.node[p]), NEW t, Onward(p, t, s)
  PROVE  StandsAt(args, stk, d, q, t)
<1>1. /\ t \in StateType /\ Keeps(args, t, s) /\ Clean(args, t) /\ SameHeads(t, s)
      /\ StoredBy(graph.node[p]) \cap Tracked(args) \subseteq Held(args, t)
  BY DEF Onward
<1>2. Comes(args, stk, d, t)
  BY <1>1, ComesKept DEF StandsAt
<1>3. p # nullptr
  BY CodeFacts DEF Typed
<1>4. StoredAt(graph, Tracked(args), q)
        \subseteq StoredAt(graph, Tracked(args), p) \cup (StoredBy(graph.node[p]) \cap Tracked(args))
  BY <1>3, StoredNext
<1>5. StoredAt(graph, Tracked(args), p) \subseteq Held(args, s)
  BY DEF StandsAt, graph
<1>6. Held(args, s) \subseteq Held(args, t)
  BY <1>1, HeldKept DEF SameHeads
<1>7. StoredAt(graph, Tracked(args), q) \subseteq Held(args, t)
  BY <1>1, <1>4, <1>5, <1>6
<1> QED
  BY <1>2, <1>7 DEF StandsAt, graph

LEMMA EntryStands ==
  ASSUME NEW stk, NEW d, NEW s, Comes(args, stk, d, s), NEW p \in DOMAIN graph.node,
         NEW q \in SubgraphsOf(graph.node[p]) \cup SubroutinesOf(graph.node[p])
  PROVE  StandsAt(args, stk, d, q, s)
<1>1. StoredAt(graph, Tracked(args), q) = {}
  BY StoredEntry
<1> QED
  BY <1>1 DEF StandsAt, graph

LEMMA CallKept ==
  ASSUME NEW p, NEW s, NEW stk, Call(p, s, stk), Calls(args, stk, p, s)
  PROVE  StatesKept'
<1>1. pc' = "call" /\ function' = p /\ state' = s /\ stack' = stk /\ args' = args
  BY DEF Call
<1> QED
  BY <1>1 DEF StatesKept

LEMMA RetKept ==
  ASSUME NEW value, NEW s, NEW stk, Ret(value, s, stk), Leaves(args, stk, value, s)
  PROVE  StatesKept'
<1>1. pc' = "ret" /\ res' = value /\ state' = s /\ stack' = stk /\ args' = args
  BY DEF Ret
<1> QED
  BY <1>1 DEF StatesKept

\* The next node, above the same frames.
LEMMA GoesOn ==
  ASSUME Typed, NEW stk, NEW p, NEW s, Standing(stk, p, s),
         NEW q \in ContinuationsOf(graph.node[p]), NEW t, Onward(p, t, s), Call(q, t, stk)
  PROVE  StatesKept'
<1>1. /\ stk \in Seq(Frames) /\ s \in StateType /\ StackStands(args, stk)
      /\ StandsAt(args, stk, Len(stk), p, s) /\ Len(stk) \in 0..Len(stk)
      /\ p \in DOMAIN graph.node /\ ~ScansOnTop(stk)
  BY DEF Standing, ReadyFor, Ready
<1>2. StandsAt(args, stk, Len(stk), q, t)
  BY <1>1, NextStands
<1>3. Calls(args, stk, q, t)
  BY <1>1, <1>2 DEF Calls, Elements
<1> QED
  BY <1>3, CallKept

\* A frame that keeps a copy of the State.
LEMMA CopyStands ==
  ASSUME NEW stk, NEW p, NEW s, Standing(stk, p, s), NEW f, f.node = p, f.state_backup = s,
         f.kind # "FixedLengthElementSequence",
         f.kind = "SingleRollbackPointSequence" =>
           \A t \in f.next_states : EndsOn(args, stk, Len(stk), t)
  PROVE  FrameStands(args, stk, Len(stk), f)
<1>1. Origin(f) = s
  BY DEF Origin
<1>2. StandsAt(args, stk, Len(stk), f.node, Origin(f)) /\ Clean(args, f.state_backup)
  BY <1>1 DEF Standing, StandsAt, Comes, EndsOn
<1> QED
  BY <1>2 DEF FrameStands, LoopStands

\* The next node, above a frame that keeps a way to go back.
LEMMA GoesAbove ==
  ASSUME Typed, NEW stk, NEW p, NEW s, Standing(stk, p, s),
         NEW f \in Frames, FrameStands(args, stk, Len(stk), f), ~WaitsForSubgraph(f),
         NEW q \in ContinuationsOf(graph.node[p]), NEW t, Onward(p, t, s),
         Call(q, t, Append(stk, f))
  PROVE  StatesKept'
<1> DEFINE new == Append(stk, f)
           d   == Len(stk)
<1>1. /\ stk \in Seq(Frames) /\ s \in StateType /\ StackStands(args, stk)
      /\ StandsAt(args, stk, d, p, s) /\ p \in DOMAIN graph.node
      /\ StackInOrder(graph, stk) /\ ~ScansOnTop(stk)
      /\ HeadsLive(stk, d, s.return_chain_head, s.save_chain_head)
  BY DEF Standing, ReadyFor, Ready, Runs
<1>2. d \in Nat /\ Len(new) = d + 1 /\ new[d + 1] = f /\ d \in 0..Len(stk)
  BY <1>1, PushedStack
<1>3. Agree(stk, new, d) /\ ~ScansOnTop(new)
  <2>1. \A k \in 1..d : new[k] = stk[k]
    BY <1>1, PushedStack
  <2>2. Last(new) = f
    BY <1>1, <1>2 DEF Last
  <2> QED
    BY <2>1, <2>2 DEF Agree, ScansOnTop, Scans, WaitsForSubgraph
<1>4. StandsAt(args, stk, d, q, t)
  BY <1>1, <1>2, NextStands
<1>5. HeadsLive(stk, d, t.return_chain_head, t.save_chain_head)
  BY <1>1 DEF Onward, SameHeads
<1>6. StackStands(args, new)
  BY <1>1, PushStands
<1> HIDE DEF new, d
<1>7. StandsAt(args, new, d, q, t) /\ HeadsLive(new, d, t.return_chain_head, t.save_chain_head)
  BY <1>2, <1>3, <1>4, <1>5, SameStands, SameBelow
<1>8. StandsAt(args, new, d + 1, q, t)
  BY <1>2, <1>7, StandsHigher
<1>9. Calls(args, new, q, t)
  BY <1>2, <1>3, <1>6, <1>8 DEF Calls, Elements
<1> QED
  BY <1>9, CallKept DEF new

\* A graph of its own, above the frame that waits for it.
LEMMA GoesInside ==
  ASSUME Typed, NEW stk, NEW p, NEW s, Standing(stk, p, s),
         NEW f \in Frames, FrameStands(args, stk, Len(stk), f), WaitsForSubgraph(f),
         NEW q \in SubgraphsOf(graph.node[p]), NEW t \in StateType, SameHeads(t, s),
         Clean(args, t), f.kind # "LookBehind" => Keeps(args, t, f.state_backup),
         Scans(f) => Elements(args, Append(stk, f), IF q = nullptr THEN 1 ELSE 0, t),
         Call(q, t, Append(stk, f))
  PROVE  StatesKept'
<1> DEFINE new == Append(stk, f)
           d   == Len(stk)
<1>1. /\ stk \in Seq(Frames) /\ StackStands(args, stk) /\ p \in DOMAIN graph.node
      /\ HeadsLive(stk, d, s.return_chain_head, s.save_chain_head)
  BY DEF Standing, ReadyFor, Ready, Runs
<1>2. d \in Nat /\ Len(new) = d + 1 /\ new[d + 1] = f
  BY <1>1, PushedStack
<1>3. Agree(stk, new, d) /\ (ScansOnTop(new) <=> Scans(f))
  <2>1. \A k \in 1..d : new[k] = stk[k]
    BY <1>1, PushedStack
  <2>2. Last(new) = f /\ new # <<>>
    BY <1>1, <1>2 DEF Last
  <2> QED
    BY <2>1, <2>2 DEF Agree, ScansOnTop
<1>4. HeadsLive(stk, d, t.return_chain_head, t.save_chain_head)
  BY <1>1 DEF SameHeads
<1>5. StackStands(args, new)
  BY <1>1, PushStands
<1>6. Elements(args, new, IF q = nullptr THEN 1 ELSE 0, t)
  BY <1>3 DEF Elements
<1> HIDE DEF new, d
<1>7. HeadsLive(new, d, t.return_chain_head, t.save_chain_head)
  BY <1>2, <1>3, <1>4, SameBelow
<1>8. Comes(args, new, d + 1, t)
  BY <1>2, <1>7, ComesInside
<1>9. StandsAt(args, new, d + 1, q, t)
  BY <1>1, <1>8, EntryStands
<1>10. Calls(args, new, q, t)
  BY <1>2, <1>5, <1>6, <1>9 DEF Calls
<1> QED
  BY <1>10, CallKept DEF new

LEMMA Fails ==
  ASSUME NEW stk, StackStands(args, stk), ~ScansOnTop(stk), NEW s, Clean(args, s),
         Ret(FALSE, s, stk)
  PROVE  StatesKept'
BY RetKept DEF Leaves, Elements

LEMMA Matched ==
  ASSUME NEW stk, StackStands(args, stk), ~ScansOnTop(stk), NEW value, NEW s,
         EndsOn(args, stk, Len(stk), s), Ret(value, s, stk)
  PROVE  StatesKept'
BY RetKept DEF Leaves, Elements, EndsOn

-----------------------------------------------------------------------------
(***************************************************************************)
(* The functions that read the string, and those that store something.     *)
(***************************************************************************)
Steady == Ordered /\ StoresFirst(graph) /\ StatesKept

LEMMA WrapSame ==
  ASSUME NEW n \in 0..SizeMax
  PROVE  Wrap(n) = n
BY SizeMaxAssumption, SMT DEF Wrap

LEMMA MovedParts ==
  ASSUME NEW s \in StateType, NEW pos \in 0..SizeMax
  PROVE  /\ Moved(s, pos) \in StateType /\ Moved(s, pos).str_begin = pos
         /\ Moved(s, pos).groups = s.groups
         /\ Moved(s, pos).sequence_counters = s.sequence_counters
         /\ Moved(s, pos).stored = s.stored
         /\ SameHeads(Moved(s, pos), s)
         /\ Moved(s, s.str_begin) = s
         /\ \A q : Moved(Moved(s, pos), q) = Moved(s, q)
BY DEF StateType, Moved, SameHeads

LEMMA CleanMoved ==
  ASSUME NEW s \in StateType, NEW pos \in 0..SizeMax, Clean(args, s),
         Exact(args) => pos <= Len(str)
  PROVE  Clean(args, Moved(s, pos))
BY MovedParts DEF Clean, str

\* The function that runs.
LEMMA AtKept ==
  ASSUME Steady, NEW kind, At(kind)
  PROVE  /\ Running /\ Typed /\ stack \in Seq(Frames) /\ state \in StateType
         /\ function \in DOMAIN graph.node /\ Here = graph.node[function] /\ Here.kind = kind
         /\ Clean(args, state) /\ StackStands(args, stack) /\ Elements(args, stack, 0, state)
         /\ StandsAt(args, stack, Len(stack), function, state)
         /\ kind \notin {"SpecificSymbol", "String", "OneOf"} =>
              ~ScansOnTop(stack) /\ Standing(stack, function, state)
<1>1. /\ Running /\ Typed /\ stack \in Seq(Frames) /\ state \in StateType
      /\ function # nullptr /\ Here.kind = kind
  BY AtFacts DEF Steady, Ordered
<1>2. /\ function \in DOMAIN graph.node /\ Here = graph.node[function]
      /\ kind \notin {"SpecificSymbol", "String", "OneOf"} => ReadyFor(stack, function, state)
  BY AtReady DEF Steady
<1>3. Calls(args, stack, function, state)
  BY DEF Steady, StatesKept, At
<1>4. /\ StackStands(args, stack) /\ Elements(args, stack, 0, state)
      /\ StandsAt(args, stack, Len(stack), function, state)
  BY <1>1, <1>3 DEF Calls
<1>5. Clean(args, state)
  BY <1>4 DEF StandsAt, Comes, EndsOn
<1> QED
  BY <1>1, <1>2, <1>4, <1>5 DEF Standing, ReadyFor, Ready

\* The function that is returned to.
LEMMA BackKept ==
  ASSUME Steady, NEW kind, BackIn(kind)
  PROVE  /\ StackStands(args, Callers) /\ ~ScansOnTop(Callers)
         /\ Standing(Callers, Caller.node, Origin(Caller))
         /\ kind # "FixedLengthElementSequence" =>
              Standing(Callers, Caller.node, Caller.state_backup)
         /\ Clean(args, state) /\ Clean(args, Caller.state_backup) /\ LoopStands(args, Caller)
         /\ kind = "SingleRollbackPointSequence" =>
              \A s \in Caller.next_states : EndsOn(args, Callers, Len(Callers), s)
         /\ res \/ Scans(Caller) =>
              IF WaitsForSubgraph(Caller)
              THEN kind # "LookBehind" =>
                     /\ Keeps(args, state, Caller.state_backup)
                     /\ SameHeads(state, Caller.state_backup)
              ELSE EndsOn(args, Callers, Len(Callers), state)
         /\ Exact(args) /\ Scans(Caller) =>
              /\ Caller.str_begin + Caller.counter + (IF res THEN 1 ELSE 0) <= state.str_begin
              /\ state.groups = Caller.state_backup.groups
<1>1. /\ Typed /\ stack # <<>> /\ stack \in Seq(Frames) /\ Caller.kind = kind
      /\ Caller \in Frames /\ Callers \in Seq(Frames) /\ Caller.state_backup \in StateType
      /\ pc = "ret"
  BY BackInFacts DEF Steady, Ordered, Typed
<1>2. Leaves(args, stack, res, state)
  BY <1>1 DEF Steady, StatesKept
<1>3. /\ StackStands(args, Callers) /\ FrameStands(args, Callers, Len(Callers), Caller)
      /\ \A s : EndsOn(args, stack, Len(stack), s) =>
           IF WaitsForSubgraph(Caller)
           THEN Clean(args, s) /\ (Caller.kind # "LookBehind" => Keeps(args, s, Caller.state_backup))
           ELSE EndsOn(args, Callers, Len(Callers), s)
  BY <1>1, <1>2, PopStands DEF Leaves, Caller, Callers
<1>4. /\ ReadyFor(Callers, Caller.node, Caller.state_backup) /\ ~ScansOnTop(Callers)
      /\ res \/ Scans(Caller) =>
           (WaitsForSubgraph(Caller) => SameHeads(state, Caller.state_backup))
  BY BackReady DEF Steady
<1>5. /\ StandsAt(args, Callers, Len(Callers), Caller.node, Origin(Caller))
      /\ Clean(args, Caller.state_backup) /\ LoopStands(args, Caller)
      /\ kind = "SingleRollbackPointSequence" =>
           \A s \in Caller.next_states : EndsOn(args, Callers, Len(Callers), s)
  BY <1>1, <1>3 DEF FrameStands
<1>6. Origin(Caller) \in StateType /\ SameHeads(Origin(Caller), Caller.state_backup)
  <2>1. CASE Caller.kind = "FixedLengthElementSequence"
    <3>1. Caller.str_begin \in 0..SizeMax
      BY <1>1, <2>1, FrameFacts
    <3> QED
      BY <1>1, <2>1, <3>1, MovedParts DEF Origin
  <2>2. CASE Caller.kind # "FixedLengthElementSequence"
    BY <1>1, <2>2 DEF Origin, SameHeads
  <2> QED
    BY <2>1, <2>2
<1>7. ReadyFor(Callers, Caller.node, Origin(Caller))
  BY <1>4, <1>6 DEF ReadyFor, SameHeads
<1>8. Standing(Callers, Caller.node, Origin(Caller))
  BY <1>1, <1>3, <1>5, <1>6, <1>7 DEF Standing
<1>9. Caller.kind # "FixedLengthElementSequence" => Origin(Caller) = Caller.state_backup
  BY DEF Origin
<1>10. Clean(args, state)
  BY <1>2 DEF Leaves
<1>11. res \/ Scans(Caller) => EndsOn(args, stack, Len(stack), state)
  BY <1>1, <1>2 DEF Leaves, ScansOnTop, Caller
<1>12. Exact(args) /\ Scans(Caller) =>
         /\ Caller.str_begin + Caller.counter + (IF res THEN 1 ELSE 0) <= state.str_begin
         /\ state.groups = Caller.state_backup.groups
  BY <1>1, <1>2 DEF Leaves, Elements, ScansOnTop, Caller
<1>13. res \/ Scans(Caller) =>
         IF WaitsForSubgraph(Caller)
         THEN kind # "LookBehind" =>
                /\ Keeps(args, state, Caller.state_backup)
                /\ SameHeads(state, Caller.state_backup)
         ELSE EndsOn(args, Callers, Len(Callers), state)
  BY <1>1, <1>3, <1>4, <1>11
<1> QED
  BY <1>1, <1>3, <1>4, <1>5, <1>8, <1>9, <1>10, <1>12, <1>13

LEMMA ReturnTrueKept ==
  ASSUME Steady, ReturnTrue
  PROVE  StatesKept'
<1>1. pc = "call" /\ function = nullptr /\ Ret(TRUE, state, stack)
  BY DEF ReturnTrue
<1>2. Calls(args, stack, nullptr, state)
  BY <1>1 DEF Steady, StatesKept
<1>3. Leaves(args, stack, TRUE, state)
  BY <1>2 DEF Calls, Leaves, StandsAt, Comes, EndsOn
<1> QED
  BY <1>1, <1>3, RetKept

\* What reads the string moves forward in it, the element of a loop that scans by a
\* byte at least.
LEMMA ReadKept ==
  ASSUME Steady, NEW kind \in NextKinds, At(kind), StoredBy(Here) = {},
         NEW cond, NEW pos,
         cond => /\ pos \in 0..SizeMax
                 /\ Exact(args) => state.str_begin <= pos /\ pos <= Len(str)
                 /\ Exact(args) /\ ScansOnTop(stack) => state.str_begin < pos,
         CallIf(cond, Here.next, StateAt(pos))
  PROVE  StatesKept'
<1>1. /\ Typed /\ stack \in Seq(Frames) /\ state \in StateType
      /\ function \in DOMAIN graph.node /\ Here = graph.node[function] /\ Here.kind = kind
      /\ Clean(args, state) /\ StackStands(args, stack) /\ Elements(args, stack, 0, state)
      /\ StandsAt(args, stack, Len(stack), function, state)
  BY AtKept
<1>2. CASE cond
  <2> DEFINE t == StateAt(pos)
  <2>1. Call(Here.next, t, stack)
    BY <1>2 DEF CallIf
  <2>2. /\ t \in StateType /\ t.str_begin = pos /\ t.groups = state.groups
        /\ t.sequence_counters = state.sequence_counters /\ t.stored = state.stored
        /\ SameHeads(t, state)
    BY <1>1, <1>2, MovedParts DEF StateAt
  <2>3. Clean(args, t)
    BY <1>1, <1>2, CleanMoved DEF StateAt
  <2> HIDE DEF t
  <2>4. Keeps(args, t, state)
    BY <1>1, <1>2, <2>2, KeepsForward
  <2>5. Onward(function, t, state)
    BY <1>1, <2>2, <2>3, <2>4, OnwardSame
  <2>6. Here.next \in ContinuationsOf(Here) /\ Len(stack) \in 0..Len(stack)
    BY <1>1, NodePointers
  <2>7. StandsAt(args, stack, Len(stack), Here.next, t)
    BY <1>1, <2>5, <2>6, NextStands
  <2>8. Elements(args, stack, IF Here.next = nullptr THEN 1 ELSE 0, t)
    <3> SUFFICES ASSUME Exact(args), ScansOnTop(stack)
                 PROVE  /\ Last(stack).str_begin + Last(stack).counter
                             + (IF Here.next = nullptr THEN 1 ELSE 0) <= t.str_begin
                        /\ t.groups = Last(stack).state_backup.groups
      BY DEF Elements
    <3>1. Last(stack) \in Frames /\ Last(stack).kind = "FixedLengthElementSequence"
      BY <1>1, LastAndFront DEF ScansOnTop, Scans
    <3>2. Last(stack).str_begin \in Nat /\ Last(stack).counter \in Nat
      BY <1>1, <3>1, FrameFacts, SizeMaxAssumption
    <3>3. /\ Last(stack).str_begin + Last(stack).counter + 0 <= state.str_begin
          /\ state.groups = Last(stack).state_backup.groups
      BY <1>1 DEF Elements
    <3>4. state.str_begin \in Nat /\ t.str_begin \in Nat /\ state.str_begin < t.str_begin
      BY <1>1, <1>2, <2>2, StateParts
    <3> QED
      BY <2>2, <3>2, <3>3, <3>4
  <2>9. Calls(args, stack, Here.next, t)
    BY <1>1, <2>7, <2>8 DEF Calls
  <2> QED
    BY <2>1, <2>9, CallKept
<1>3. CASE ~cond
  <2>1. Ret(FALSE, state, stack)
    BY <1>3 DEF CallIf
  <2>2. EndsOn(args, stack, Len(stack), state)
    BY <1>1 DEF StandsAt, Comes
  <2>3. Leaves(args, stack, FALSE, state)
    BY <1>1, <2>2 DEF Leaves
  <2> QED
    BY <2>1, <2>3, RetKept
<1> QED
  BY <1>2, <1>3

\* The element of a loop that scans is a text of one byte, or a class.
LEMMA ScannedText ==
  ASSUME Steady, Exact(args), ScansOnTop(stack), pc = "call", function # nullptr
  PROVE  Here.kind \in {"String", "SpecificSymbol"} => Len(BytesOf(Here)) = 1
<1> DEFINE m == Caller.node
           n == graph.node[m]
<1>1. Typed /\ Orderly(graph) /\ stack # <<>> /\ Scans(Caller)
  BY DEF Steady, Ordered, Running, ScansOnTop, Caller
<1>2. Caller \in Frames
  BY <1>1, CallerFacts
<1>3. m \in DOMAIN graph.node /\ n.kind = "FixedLengthElementSequence"
  BY <1>1, <1>2, FrameFacts DEF Scans
<1>4. function = n.sequence_element
  BY DEF Steady, Ordered, ChainsInOrder, Entered, Caller
<1>5. n.element_length = 1
  BY <1>3 DEF Exact, ByteLoops, graph
<1>6. /\ graph.node[n.sequence_element].kind = "SpecificSymbol" =>
           Len(Utf8(graph.node[n.sequence_element].code)) = n.element_length
      /\ graph.node[n.sequence_element].kind = "String" =>
           Len(graph.node[n.sequence_element].str) = n.element_length
  BY <1>1, <1>3 DEF Orderly, LoopsExact
<1> QED
  BY <1>4, <1>5, <1>6 DEF Here, BytesOf

LEMMA MatchTextKept ==
  ASSUME Steady, MatchText
  PROVE  StatesKept'
<1>1. PICK kind \in {"String", "SpecificSymbol"} : At(kind)
  BY DEF MatchText
<1> DEFINE n   == Len(BytesOf(Here))
           pos == state.str_begin + n
           cond == IsPrefixAt(BytesOf(Here), str, state.str_begin)
<1>2. CallIf(cond, Here.next, StateAt(pos))
  BY DEF MatchText
<1>3. /\ Typed /\ state \in StateType /\ Here.kind = kind
      /\ NodeOK(Here, DOMAIN graph.node \cup {nullptr}, Counters)
      /\ pc = "call" /\ function # nullptr
  BY <1>1, AtFacts DEF Steady, Ordered
<1>4. n \in Nat
  <2>1. CASE kind = "String"
    <3>1. BytesOf(Here) = Here.str /\ Here.str \in Seq(Byte)
      BY <1>3, <2>1 DEF BytesOf, NodeOK
    <3> QED
      BY <3>1
  <2>2. CASE kind = "SpecificSymbol"
    <3>1. BytesOf(Here) = Utf8(Here.code) /\ Here.code \in Nat
      BY <1>3, <2>2 DEF BytesOf, NodeOK
    <3> QED
      BY <3>1, Utf8Length
  <2> QED
    BY <2>1, <2>2
<1>5. state.str_begin \in Nat /\ CallOK(args)
  BY <1>3, StateParts DEF Typed
<1>6. Exact(args) /\ ScansOnTop(stack) => n = 1
  BY <1>3, ScannedText
<1>7. cond => pos <= Len(str)
  BY DEF IsPrefixAt
<1> HIDE DEF n, cond
<1>8. pos \in Nat /\ state.str_begin <= pos /\ (n = 1 => state.str_begin < pos)
  BY <1>4, <1>5
<1>9. cond => pos \in 0..SizeMax
  BY <1>5, <1>7, <1>8, StringFacts
<1>10. StoredBy(Here) = {} /\ kind \in NextKinds
  BY <1>3 DEF StoredBy, NextKinds
<1> HIDE DEF pos
<1> QED
  BY <1>1, <1>2, <1>6, <1>7, <1>8, <1>9, <1>10, ReadKept

LEMMA DecodedForward ==
  ASSUME CallOK(args), NEW pos \in Nat
  PROVE  LET c == DecodeCodePoint(pos)
         IN c.ok => c.pos \in 0..SizeMax /\ pos < c.pos /\ c.pos <= Len(str)
<1> DEFINE end == pos + DecodedLength(str[pos + 1])
<1>1. DecodedLength(str[pos + 1]) \in 1..4
  <2> DEFINE d == DecodedLength(str[pos + 1])
  <2>1. d = 1 \/ d = 2 \/ d = 3 \/ d = 4
    BY SMT DEF DecodedLength
  <2> QED
    BY <2>1
<1>2. end \in Nat /\ pos < end
  BY <1>1
<1>3. CASE pos >= Len(str) \/ end > Len(str)
  <2>1. DecodeCodePoint(pos) = NoCode
    BY <1>3 DEF DecodeCodePoint
  <2> QED
    BY <2>1 DEF NoCode
<1>4. CASE ~(pos >= Len(str) \/ end > Len(str))
  <2>1. DecodeCodePoint(pos) = [ok |-> TRUE, code |-> CodeOf(SubSeq(str, pos + 1, end)), pos |-> end]
    BY <1>4 DEF DecodeCodePoint
  <2>2. end <= Len(str) /\ end \in 0..SizeMax
    BY <1>2, <1>4, StringFacts
  <2> QED
    BY <1>2, <2>1, <2>2
<1> QED
  BY <1>3, <1>4

LEMMA MatchClassKept ==
  ASSUME Steady, NEW kind \in {"OneOf", "AnySymbol"}, At(kind), NEW n, n.next = Here.next, MatchClass(n)
  PROVE  StatesKept'
<1>1. Typed /\ state \in StateType /\ CallOK(args) /\ Here.kind = kind
  BY AtKept DEF Typed
<1>2. state.str_begin \in Nat
  BY <1>1, StateParts
<1>3. StoredBy(Here) = {} /\ kind \in NextKinds
  BY <1>1 DEF StoredBy, NextKinds
<1>4. PICK cond, pos : /\ CallIf(cond, Here.next, StateAt(pos))
                       /\ cond => pos \in 0..SizeMax /\ state.str_begin < pos /\ pos <= Len(str)
  <2>1. CASE n.inverse_flag \/ HasMultiByteCodePoints(n)
    <3> DEFINE c == DecodeCodePoint(state.str_begin)
               cond == c.ok /\ InClass(n, c.code) # n.inverse_flag
    <3>1. CallIf(cond, Here.next, StateAt(c.pos))
      BY <2>1 DEF MatchClass
    <3>2. c.ok => c.pos \in 0..SizeMax /\ state.str_begin < c.pos /\ c.pos <= Len(str)
      BY <1>1, <1>2, DecodedForward
    <3>3. cond => c.ok
      OBVIOUS
    <3> HIDE DEF cond, c
    <3> QED
      BY <3>1, <3>2, <3>3
  <2>2. CASE ~(n.inverse_flag \/ HasMultiByteCodePoints(n))
    <3> DEFINE cond == /\ state.str_begin < Len(str)
                       /\ InClass(InBytes(n), str[state.str_begin + 1])
               pos == state.str_begin + 1
    <3>1. CallIf(cond, Here.next, StateAt(pos))
      BY <2>2 DEF MatchClass
    <3>2. cond => pos \in Nat /\ state.str_begin < pos /\ pos <= Len(str)
      BY <1>1, <1>2, StringFacts
    <3>3. cond => pos \in 0..SizeMax
      BY <1>1, <3>2, StringFacts
    <3> HIDE DEF cond, pos
    <3> QED
      BY <3>1, <3>2, <3>3
  <2> QED
    BY <2>1, <2>2
<1>5. cond => state.str_begin <= pos
  BY <1>2, <1>4
<1> QED
  BY <1>3, <1>4, <1>5, ReadKept

LEMMA BackReferenceKept ==
  ASSUME Steady, MatchBackReference
  PROVE  StatesKept'
<1>1. /\ Typed /\ state \in StateType /\ Here.kind = "BackReference" /\ At("BackReference")
      /\ Clean(args, state) /\ ~ScansOnTop(stack) /\ CallOK(args) /\ FieldsExist(args.code, Here)
  BY AtKept, HereFacts DEF MatchBackReference, Typed, At
<1>2. Here.index \in Fields
  BY <1>1 DEF FieldsExist, GroupKinds, Fields
<1> DEFINE group == state.groups[Here.index]
           str_size == Wrap(Len(str) - state.str_begin)
           group_size == Wrap(group.end - group.begin)
           pos == Wrap(state.str_begin + group_size)
           cond == group_size <= str_size
                   /\ \A k \in 1..group_size : str[group.begin + k] = str[state.str_begin + k]
<1>3. /\ group.begin \in Nat /\ group.end \in Nat /\ state.str_begin \in Nat
      /\ Len(str) \in Nat /\ Len(str) \in 0..SizeMax
  BY <1>1, <1>2, StateParts, StringFacts
<1>4. group_size \in 0..SizeMax /\ group_size \in Nat
  <2>1. group.end - group.begin \in Int
    BY <1>3
  <2>2. group_size \in 0..SizeMax
    BY <2>1, WrapType
  <2> HIDE DEF group_size
  <2> QED
    BY <2>2, SizeMaxAssumption
<1>5. pos \in 0..SizeMax
  <2> HIDE DEF group_size
  <2>1. state.str_begin + group_size \in Int
    BY <1>3, <1>4
  <2> QED
    BY <2>1, WrapType
<1>6. ASSUME cond, Exact(args)
      PROVE  state.str_begin <= pos /\ pos <= Len(str)
  <2>1. state.str_begin <= Len(str)
    BY <1>1, <1>6 DEF Clean, str
  <2>2. Len(str) - state.str_begin \in 0..SizeMax
    BY <1>3, <2>1, SizeMaxAssumption
  <2>3. str_size = Len(str) - state.str_begin
    BY <2>2, WrapSame
  <2>4. group_size <= Len(str) - state.str_begin
    BY <1>6, <2>3
  <2> HIDE DEF group_size
  <2>5. state.str_begin + group_size \in 0..SizeMax /\ state.str_begin + group_size <= Len(str)
    BY <1>3, <1>4, <2>4, SizeMaxAssumption
  <2>6. pos = state.str_begin + group_size
    BY <2>5, WrapSame
  <2> QED
    BY <1>3, <1>4, <2>5, <2>6
<1>7. CallIf(cond, Here.next, StateAt(pos))
  BY DEF MatchBackReference
<1>8. StoredBy(Here) = {} /\ "BackReference" \in NextKinds
  BY <1>1 DEF StoredBy, NextKinds
<1> HIDE DEF cond, pos
<1> QED
  BY <1>1, <1>5, <1>6, <1>7, <1>8, ReadKept

\* Assertions that look at the position go on with the State as it is.
LEMMA HereKept ==
  ASSUME Steady, NEW kind \in NextKinds, At(kind), StoredBy(Here) = {}, ~ScansOnTop(stack),
         NEW cond, CallIf(cond, Here.next, state)
  PROVE  StatesKept'
<1>1. state \in StateType /\ Clean(args, state)
  BY AtKept
<1>2. state.str_begin \in 0..SizeMax /\ state.str_begin \in Nat
  BY <1>1, StateParts
<1>3. StateAt(state.str_begin) = state
  BY <1>1, <1>2, MovedParts DEF StateAt
<1>4. Exact(args) => state.str_begin <= state.str_begin /\ state.str_begin <= Len(str)
  BY <1>1, <1>2 DEF Clean, str
<1>5. CallIf(cond, Here.next, StateAt(state.str_begin))
  BY <1>3
<1> QED
  BY <1>2, <1>4, <1>5, ReadKept

LEMMA ReadersKept ==
  ASSUME Steady,
         \/ MatchText \/ MatchOneOf \/ MatchAnySymbol
         \/ MatchStringStartAssertion \/ MatchStringEndAssertion \/ MatchBackReference
  PROVE  StatesKept'
<1>1. CASE MatchOneOf
  BY <1>1, MatchClassKept DEF MatchOneOf
<1>2. CASE MatchAnySymbol
  <2> DEFINE n == [variants |-> {}, ranges |-> <<>>, inverse_flag |-> TRUE, next |-> Here.next]
  <2>1. MatchClass(n) /\ n.next = Here.next /\ At("AnySymbol")
    BY <1>2 DEF MatchAnySymbol
  <2> HIDE DEF n
  <2> QED
    BY <2>1, MatchClassKept
<1>3. CASE MatchStringStartAssertion \/ MatchStringEndAssertion
  <2>1. PICK kind \in {"StringStartAssertion", "StringEndAssertion"} :
          At(kind) /\ \E cond : CallIf(cond, Here.next, state)
    BY <1>3 DEF MatchStringStartAssertion, MatchStringEndAssertion
  <2>2. Here.kind = kind /\ ~ScansOnTop(stack)
    BY <2>1, AtKept
  <2>3. StoredBy(Here) = {} /\ kind \in NextKinds
    BY <2>2 DEF StoredBy, NextKinds
  <2> QED
    BY <2>1, <2>2, <2>3, HereKept
<1> QED
  BY <1>1, <1>2, <1>3, MatchTextKept, BackReferenceKept

\* What is stored: a counter, a group that begins, and the end of one that has begun.
LEMMA CounterStored ==
  ASSUME NEW s \in StateType, NEW i \in Counters, NEW n \in Nat,
         NEW t \in StateType, SameHeads(t, s), t.str_begin = s.str_begin, t.groups = s.groups,
         t.sequence_counters = [s.sequence_counters EXCEPT ![i] = n], s.stored \subseteq t.stored
  PROVE  /\ Keeps(args, t, s) /\ (Clean(args, s) => Clean(args, t))
         /\ <<"counter", i>> \in Known(args, t)
<1>2. s.sequence_counters \in CounterValues
  BY StateParts
<1>3. s.str_begin \in Nat
  BY StateParts
<1>4. n # Uninitialized
  BY DEF Uninitialized
<1>5. t.sequence_counters[i] = n /\ \A id \in Counters : id # i =>
        t.sequence_counters[id] = s.sequence_counters[id]
  BY <1>2 DEF CounterValues
<1>6. \A id \in args.code.graph.used_sequence_counters :
        s.sequence_counters[id] # Uninitialized => t.sequence_counters[id] # Uninitialized
  BY <1>4, <1>5 DEF Counters, graph
<1>7. s.str_begin <= t.str_begin
  BY <1>3
<1>8. Keeps(args, t, s)
  BY <1>6, <1>7, KeepsParts
<1>9. Clean(args, s) => Clean(args, t)
  BY DEF Clean
<1>10. <<"counter", i>> \in Known(args, t)
  BY <1>4, <1>5, KnownParts DEF Counters, graph
<1> QED
  BY <1>8, <1>9, <1>10

LEMMA GroupBegun ==
  ASSUME NEW s \in StateType, NEW i \in Fields
  PROVE  LET t == [s EXCEPT !.groups[i] = [begin |-> s.str_begin, end |-> s.str_begin]]
         IN /\ t \in StateType /\ SameHeads(t, s)
            /\ Keeps(args, t, s) /\ (Clean(args, s) => Clean(args, t))
            /\ i \in Reliable(args) => <<"group", i>> \in Known(args, t)
<1> DEFINE g == [begin |-> s.str_begin, end |-> s.str_begin]
           t == [s EXCEPT !.groups[i] = g]
<1>1. s.str_begin \in Nat /\ s.groups \in [Fields -> [begin : Nat, end : Nat]]
  BY StateParts
<1>2. t \in StateType
  BY <1>1, GroupsType
<1>3. /\ t.str_begin = s.str_begin /\ t.sequence_counters = s.sequence_counters /\ SameHeads(t, s)
      /\ t.groups = [s.groups EXCEPT ![i] = g] /\ t.stored = s.stored
  BY DEF StateType, SameHeads
<1>4. g.begin = s.str_begin /\ g.end = s.str_begin
  OBVIOUS
<1> HIDE DEF t, g
<1>5. t.groups[i] = g /\ \A k \in Fields : k # i => t.groups[k] = s.groups[k]
  BY <1>1, <1>3
<1>6. Reliable(args) \subseteq Fields
  BY DEF Reliable, Fields
<1>7. \A k \in Reliable(args) :
        s.groups[k].begin <= s.str_begin => t.groups[k].begin <= t.str_begin
  BY <1>1, <1>3, <1>4, <1>5, <1>6
<1>8. Keeps(args, t, s)
  <2>1. \A id \in args.code.graph.used_sequence_counters :
          s.sequence_counters[id] # Uninitialized => t.sequence_counters[id] # Uninitialized
    BY <1>3
  <2>2. s.str_begin <= t.str_begin
    BY <1>1, <1>3
  <2> QED
    BY <1>3, <1>7, <2>1, <2>2, KeepsParts
<1>9. ASSUME Clean(args, s)
      PROVE  Clean(args, t)
  <2>1. CASE Exact(args)
    <3>1. s.str_begin <= Len(args.str)
      BY <1>9, <2>1 DEF Clean
    <3>2. \A k \in Fields :
            t.groups[k].begin <= t.groups[k].end /\ t.groups[k].end <= Len(args.str)
      <4> TAKE k \in Fields
      <4>1. CASE k = i
        BY <1>1, <1>4, <1>5, <3>1, <4>1
      <4>2. CASE k # i
        BY <1>5, <1>9, <2>1, <4>2 DEF Clean, Fields
      <4> QED
        BY <4>1, <4>2
    <3> QED
      BY <1>3, <3>1, <3>2 DEF Clean, Fields
  <2> QED
    BY <2>1 DEF Clean
<1>10. i \in Reliable(args) => <<"group", i>> \in Known(args, t)
  BY <1>1, <1>3, <1>4, <1>5, KnownParts
<1> QED
  BY <1>2, <1>3, <1>8, <1>9, <1>10 DEF t, g

LEMMA GroupEnded ==
  ASSUME NEW s \in StateType, NEW i \in Fields, Clean(args, s),
         i \in Reliable(args) => <<"group", i>> \in Known(args, s)
  PROVE  LET t == [s EXCEPT !.groups[i].end = s.str_begin]
         IN t \in StateType /\ SameHeads(t, s) /\ Keeps(args, t, s) /\ Clean(args, t)
<1> DEFINE g == [s.groups[i] EXCEPT !.end = s.str_begin]
           t == [s EXCEPT !.groups[i].end = s.str_begin]
<1>1. s.str_begin \in Nat /\ s.groups \in [Fields -> [begin : Nat, end : Nat]]
  BY StateParts
<1>2. t \in StateType
  BY <1>1, GroupsType
<1>3. /\ t.str_begin = s.str_begin /\ t.sequence_counters = s.sequence_counters /\ SameHeads(t, s)
      /\ t.groups = [s.groups EXCEPT ![i] = g] /\ t.stored = s.stored
  BY DEF StateType, SameHeads
<1>4. g.begin = s.groups[i].begin /\ g.end = s.str_begin
  BY <1>1
<1> HIDE DEF t, g
<1>5. t.groups[i] = g /\ \A k \in Fields : k # i => t.groups[k] = s.groups[k]
  BY <1>1, <1>3
<1>6. Reliable(args) \subseteq Fields
  BY DEF Reliable, Fields
<1>7. \A k \in Reliable(args) :
        s.groups[k].begin <= s.str_begin => t.groups[k].begin <= t.str_begin
  BY <1>1, <1>3, <1>4, <1>5, <1>6
<1>8. Keeps(args, t, s)
  <2>1. \A id \in args.code.graph.used_sequence_counters :
          s.sequence_counters[id] # Uninitialized => t.sequence_counters[id] # Uninitialized
    BY <1>3
  <2>2. s.str_begin <= t.str_begin
    BY <1>1, <1>3
  <2> QED
    BY <1>3, <1>7, <2>1, <2>2, KeepsParts
<1>9. ASSUME Exact(args)
      PROVE  /\ t.str_begin <= Len(args.str)
             /\ \A k \in Fields :
                  t.groups[k].begin <= t.groups[k].end /\ t.groups[k].end <= Len(args.str)
  <2>1. s.str_begin <= Len(args.str)
    BY <1>9 DEF Clean
  <2>2. s.groups[i].begin <= s.str_begin
    <3>1. i \in Reliable(args)
      BY <1>9 DEF Reliable, Fields
    <3> QED
      BY <3>1, KnownParts
  <2>3. ASSUME NEW k \in Fields
        PROVE  t.groups[k].begin <= t.groups[k].end /\ t.groups[k].end <= Len(args.str)
    <3>1. CASE k = i
      BY <1>4, <1>5, <2>1, <2>2, <3>1
    <3>2. CASE k # i
      BY <1>5, <1>9, <2>3, <3>2 DEF Clean, Fields
    <3> QED
      BY <3>1, <3>2
  <2> QED
    BY <1>3, <2>1, <2>3
<1>10. Clean(args, t)
  BY <1>9 DEF Clean, Fields
<1> QED
  BY <1>2, <1>3, <1>8, <1>10 DEF t

LEMMA StoreKept ==
  ASSUME Steady, MatchGroupStart \/ MatchGroupEnd \/ MatchSequenceCounterReset
  PROVE  StatesKept'
<1>1. ASSUME NEW kind \in {"GroupStart", "GroupEnd", "SequenceCounterReset"}, At(kind),
             NEW t, Onward(function, t, state), Call(Here.next, t, stack)
      PROVE  StatesKept'
  <2>1. Typed /\ Standing(stack, function, state) /\ Here = graph.node[function] /\ Here.kind = kind
    BY <1>1, AtKept
  <2>2. Here.next \in ContinuationsOf(graph.node[function])
    BY <2>1, NodePointers DEF NextKinds
  <2> QED
    BY <1>1, <2>1, <2>2, GoesOn
<1>2. ASSUME NEW kind \in {"GroupStart", "GroupEnd", "SequenceCounterReset"}, At(kind)
      PROVE  /\ state \in StateType /\ Clean(args, state) /\ Here.kind = kind
             /\ function \in DOMAIN graph.node /\ function # nullptr /\ Here = graph.node[function]
             /\ kind \in GroupKinds => Here.index \in Fields
             /\ kind = "SequenceCounterReset" => Here.id \in Counters
             /\ StoredAt(graph, Tracked(args), function) \subseteq Held(args, state)
  <2>1. /\ Typed /\ state \in StateType /\ Clean(args, state) /\ Here.kind = kind
        /\ function \in DOMAIN graph.node /\ Here = graph.node[function]
        /\ StandsAt(args, stack, Len(stack), function, state)
    BY <1>2, AtKept
  <2>2. pc = "call" /\ function # nullptr
    BY <1>2 DEF At
  <2>3. /\ NodeOK(Here, DOMAIN graph.node \cup {nullptr}, Counters)
        /\ FieldsExist(args.code, Here)
    BY <2>1, <2>2, HereFacts
  <2>4. /\ kind \in GroupKinds => Here.index \in Fields
        /\ kind = "SequenceCounterReset" => Here.id \in Counters
    BY <2>1, <2>3 DEF FieldsExist, NodeOK, CounterKinds, Fields
  <2> QED
    BY <2>1, <2>2, <2>4 DEF StandsAt, graph
<1>3. CASE MatchGroupStart
  <2> DEFINE i == Here.index
             t == [state EXCEPT !.groups[i] = [begin |-> state.str_begin, end |-> state.str_begin]]
  <2>1. At("GroupStart") /\ Call(Here.next, t, stack)
    BY <1>3 DEF MatchGroupStart
  <2>2. i \in Fields /\ state \in StateType /\ Clean(args, state) /\ Here.kind = "GroupStart"
    BY <1>2, <2>1 DEF GroupKinds
  <2>3. /\ t \in StateType /\ SameHeads(t, state) /\ Keeps(args, t, state) /\ Clean(args, t)
        /\ i \in Reliable(args) => <<"group", i>> \in Known(args, t)
    BY <2>2, GroupBegun
  <2> HIDE DEF t
  <2>4. StoredBy(Here) = {<<"group", i>>}
    BY <2>2 DEF StoredBy
  <2>5. StoredBy(Here) \cap Tracked(args) \subseteq Held(args, t)
    BY <2>3, <2>4, TrackedParts, HeldParts
  <2>6. Onward(function, t, state)
    BY <1>2, <2>1, <2>3, <2>5 DEF Onward
  <2> QED
    BY <1>1, <2>1, <2>6
<1>4. CASE MatchGroupEnd
  <2> DEFINE i == Here.index
             t == [state EXCEPT !.groups[i].end = state.str_begin]
  <2>1. At("GroupEnd") /\ Call(Here.next, t, stack)
    BY <1>4 DEF MatchGroupEnd
  <2>2. /\ i \in Fields /\ state \in StateType /\ Clean(args, state) /\ Here.kind = "GroupEnd"
        /\ function \in DOMAIN graph.node /\ function # nullptr /\ Here = graph.node[function]
        /\ StoredAt(graph, Tracked(args), function) \subseteq Held(args, state)
    BY <1>2, <2>1 DEF GroupKinds
  <2>3. ReadBy(Here) \cap Tracked(args) \subseteq StoredAt(graph, Tracked(args), function)
    BY <2>2, StoredWhereRead DEF Steady
  <2>4. ReadBy(Here) = {<<"group", i>>} /\ StoredBy(Here) = {}
    BY <2>2 DEF ReadBy, StoredBy
  <2>5. i \in Reliable(args) => <<"group", i>> \in Known(args, state)
    BY <2>2, <2>3, <2>4, TrackedParts, HeldParts
  <2>6. t \in StateType /\ SameHeads(t, state) /\ Keeps(args, t, state) /\ Clean(args, t)
    BY <2>2, <2>5, GroupEnded
  <2> HIDE DEF t
  <2>7. Onward(function, t, state)
    BY <2>2, <2>4, <2>6, OnwardSame
  <2> QED
    BY <1>1, <2>1, <2>7
<1>5. CASE MatchSequenceCounterReset
  <2> DEFINE i == Here.id
             t == [state EXCEPT !.sequence_counters[i] = 0, !.stored = @ \cup {i}]
  <2>1. At("SequenceCounterReset") /\ Call(Here.next, t, stack)
    BY <1>5 DEF MatchSequenceCounterReset
  <2>2. i \in Counters /\ state \in StateType /\ Clean(args, state) /\ Here.kind = "SequenceCounterReset"
    BY <1>2, <2>1
  <2>3. /\ t \in StateType /\ SameHeads(t, state) /\ Keeps(args, t, state) /\ Clean(args, t)
        /\ <<"counter", i>> \in Held(args, t)
    <3>1. t \in StateType
      BY <2>2, CountersType
    <3>2. /\ t.str_begin = state.str_begin /\ t.groups = state.groups /\ SameHeads(t, state)
          /\ t.sequence_counters = [state.sequence_counters EXCEPT ![i] = 0]
          /\ t.stored = state.stored \cup {i}
      BY <2>2 DEF StateType, SameHeads
    <3> HIDE DEF t
    <3>3. /\ Keeps(args, t, state) /\ (Clean(args, state) => Clean(args, t))
          /\ <<"counter", i>> \in Known(args, t)
      BY <2>2, <3>1, <3>2, CounterStored
    <3> QED
      BY <2>2, <3>1, <3>2, <3>3, HeldParts
  <2> HIDE DEF t
  <2>4. StoredBy(Here) = {<<"counter", i>>}
    BY <2>2 DEF StoredBy
  <2>5. StoredBy(Here) \cap Tracked(args) \subseteq Held(args, t)
    BY <2>3, <2>4
  <2>6. Onward(function, t, state)
    BY <1>2, <2>1, <2>3, <2>5 DEF Onward
  <2> QED
    BY <1>1, <2>1, <2>6
<1> QED
  BY <1>3, <1>4, <1>5

-----------------------------------------------------------------------------
(***************************************************************************)
(* Choice, assertions and counted sequences.                               *)
(***************************************************************************)
LEMMA SameOnward ==
  ASSUME NEW stk, NEW p, NEW s, Standing(stk, p, s), StoredBy(graph.node[p]) = {}
  PROVE  Onward(p, s, s) /\ Clean(args, s)
<1>1. s \in StateType /\ Clean(args, s)
  BY DEF Standing, StandsAt, Comes, EndsOn
<1>2. Keeps(args, s, s) /\ SameHeads(s, s)
  BY <1>1, KeepsAlways DEF SameHeads
<1> QED
  BY <1>1, <1>2, OnwardSame

LEMMA TryAlternativeKept ==
  ASSUME Typed, NEW p \in NodeFunctions(graph), graph.node[p].kind = "Alternatives",
         NEW k \in DOMAIN graph.node[p].next, NEW s, NEW stk, Standing(stk, p, s),
         TryAlternative(p, k, s, stk)
  PROVE  StatesKept'
<1> DEFINE n == graph.node[p]
           f == ChoiceFrame(p, s, k)
<1>1. NodeOK(n, DOMAIN graph.node \cup {nullptr}, Counters) /\ s \in StateType
  BY CodeFacts DEF Typed, Standing
<1>2. k \in Nat
  BY <1>1 DEF NodeOK
<1>3. n.next[k] \in ContinuationsOf(n)
  <2>1. n.next[k] \in ToSet(n.next)
    BY DEF ToSet
  <2> QED
    BY <2>1, NodePointers
<1>4. Onward(p, s, s)
  <2>1. StoredBy(n) = {}
    BY DEF StoredBy
  <2> QED
    BY <2>1, SameOnward
<1>5. CASE IsLast(n, k)
  <2>1. Call(n.next[k], s, stk)
    BY <1>5 DEF TryAlternative
  <2> QED
    BY <1>3, <1>4, <2>1, GoesOn
<1>6. CASE ~IsLast(n, k)
  <2>1. Call(n.next[k], s, Append(stk, f))
    BY <1>6 DEF TryAlternative
  <2>2. f \in Frames
    BY <1>1, <1>2, <1>6, NewFrames
  <2>3. f.node = p /\ f.state_backup = s /\ f.kind = "Alternatives" /\ ~WaitsForSubgraph(f)
    BY DEF ChoiceFrame, WaitsForSubgraph, LookKinds
  <2> HIDE DEF f
  <2>4. FrameStands(args, stk, Len(stk), f)
    BY <2>3, CopyStands
  <2> QED
    BY <1>3, <1>4, <2>1, <2>2, <2>3, <2>4, GoesAbove
<1> QED
  BY <1>5, <1>6

LEMMA AlternativesKept ==
  ASSUME Steady, MatchAlternatives \/ BackInAlternatives
  PROVE  StatesKept'
<1>0. Running
  BY DEF Steady, Ordered
<1>1. CASE MatchAlternatives
  <2>1. /\ Typed /\ function \in NodeFunctions(graph)
        /\ Here = graph.node[function] /\ Here.kind = "Alternatives" /\ Here.next # <<>>
        /\ NodeOK(Here, DOMAIN graph.node \cup {nullptr}, Counters)
    BY <1>0, <1>1, AtFacts, HereFacts DEF MatchAlternatives
  <2>2. 1 \in DOMAIN Here.next
    <3>1. Here.next \in Seq(DOMAIN graph.node \cup {nullptr})
      BY <2>1 DEF NodeOK
    <3> QED
      BY <2>1, <3>1
  <2>3. TryAlternative(function, 1, state, stack) /\ Standing(stack, function, state)
    BY <1>1, AtKept DEF MatchAlternatives
  <2> QED
    BY <2>1, <2>2, <2>3, TryAlternativeKept
<1>2. CASE BackInAlternatives
  <2>1. /\ Typed /\ Caller \in Frames /\ Caller.kind = "Alternatives"
        /\ Caller.node \in NodeFunctions(graph)
        /\ CallerNode = graph.node[Caller.node] /\ CallerNode.kind = "Alternatives"
        /\ NodeOK(CallerNode, DOMAIN graph.node \cup {nullptr}, Counters)
    BY <1>0, <1>2, BackInFacts DEF BackInAlternatives
  <2>2. ~WaitsForSubgraph(Caller)
    BY <2>1 DEF WaitsForSubgraph, LookKinds
  <2>3. /\ StackStands(args, Callers) /\ ~ScansOnTop(Callers)
        /\ Standing(Callers, Caller.node, Caller.state_backup)
        /\ res => EndsOn(args, Callers, Len(Callers), state)
    BY <1>2, <2>2, BackKept DEF BackInAlternatives
  <2>4. CASE res
    <3>1. Ret(TRUE, state, Callers)
      BY <1>2, <2>4 DEF BackInAlternatives
    <3> QED
      BY <2>3, <2>4, <3>1, Matched
  <2>5. CASE ~res
    <3>1. /\ Caller.tried \in Nat /\ Caller.tried \in DOMAIN CallerNode.next
          /\ ~IsLast(CallerNode, Caller.tried)
      BY <2>1, FrameFacts
    <3>2. CallerNode.next \in Seq(DOMAIN graph.node \cup {nullptr})
      BY <2>1 DEF NodeOK
    <3>3. Caller.tried # Len(CallerNode.next)
      BY <3>1 DEF IsLast, Last
    <3>4. Caller.tried + 1 \in DOMAIN CallerNode.next
      BY <3>1, <3>2, <3>3
    <3>5. TryAlternative(Caller.node, Caller.tried + 1, Caller.state_backup, Callers)
      BY <1>2, <2>5 DEF BackInAlternatives
    <3> QED
      BY <2>1, <2>3, <3>4, <3>5, TryAlternativeKept
  <2> QED
    BY <2>4, <2>5
<1> QED
  BY <1>1, <1>2

\* What asks a graph of its own stores nothing itself.
LEMMA AskKept ==
  ASSUME Steady, NEW kind \in AskingKinds, At(kind), NEW q \in SubgraphsOf(Here),
         NEW t \in StateType, SameHeads(t, state), Clean(args, t),
         kind # "LookBehind" => Keeps(args, t, state), Call(q, t, Pushed(Frame(function, state)))
  PROVE  StatesKept'
<1> DEFINE f == Frame(function, state)
<1>1. Running /\ Typed /\ state \in StateType /\ Here = graph.node[function] /\ Here.kind = kind
  BY AtKept
<1>2. kind \in PlainKinds /\ kind \notin {"SpecificSymbol", "String", "OneOf"}
  BY DEF AskingKinds, PlainKinds, LookKinds
<1>3. Standing(stack, function, state) /\ function \in NodeFunctions(graph)
  BY <1>1, <1>2, AtKept, AtFacts
<1>4. f \in Frames
  BY <1>1, <1>2, <1>3, NewFrames
<1>5. /\ f.node = function /\ f.state_backup = state /\ f.kind = kind
      /\ f.kind \notin {"FixedLengthElementSequence", "SingleRollbackPointSequence"}
      /\ WaitsForSubgraph(f) /\ ~Scans(f)
  BY <1>1 DEF Frame, WaitsForSubgraph, Scans, AskingKinds, LookKinds
<1>6. Call(q, t, Append(stack, f))
  BY DEF Pushed
<1> HIDE DEF f
<1>7. FrameStands(args, stack, Len(stack), f)
  BY <1>3, <1>5, CopyStands
<1> QED
  BY <1>1, <1>3, <1>4, <1>5, <1>6, <1>7, GoesInside

LEMMA AskedKept ==
  ASSUME Steady, NEW kind \in AskingKinds, BackIn(kind)
  PROVE  /\ \A q \in ContinuationsOf(CallerNode) :
              /\ Call(q, Caller.state_backup, Callers) => StatesKept'
              /\ res /\ kind # "LookBehind" => (Call(q, state, Callers) => StatesKept')
         /\ Ret(FALSE, state, Callers) => StatesKept'
         /\ Ret(FALSE, Caller.state_backup, Callers) => StatesKept'
<1>1. /\ Typed /\ Caller.kind = kind /\ CallerNode = graph.node[Caller.node]
      /\ CallerNode.kind = kind /\ Caller.state_backup \in StateType /\ state \in StateType
  BY BackInFacts DEF Steady, Ordered
<1>2. WaitsForSubgraph(Caller) /\ kind # "FixedLengthElementSequence"
  BY <1>1 DEF AskingKinds, LookKinds, WaitsForSubgraph
<1>3. /\ StackStands(args, Callers) /\ ~ScansOnTop(Callers)
      /\ Standing(Callers, Caller.node, Caller.state_backup)
      /\ Clean(args, state) /\ Clean(args, Caller.state_backup)
      /\ res /\ kind # "LookBehind" =>
           Keeps(args, state, Caller.state_backup) /\ SameHeads(state, Caller.state_backup)
  BY <1>2, BackKept
<1>4. StoredBy(graph.node[Caller.node]) = {}
  BY <1>1 DEF AskingKinds, LookKinds, StoredBy
<1>5. Onward(Caller.node, Caller.state_backup, Caller.state_backup)
  BY <1>3, <1>4, SameOnward
<1>6. res /\ kind # "LookBehind" => Onward(Caller.node, state, Caller.state_backup)
  BY <1>1, <1>3, <1>4, OnwardSame
<1>7. ASSUME NEW q \in ContinuationsOf(CallerNode), NEW t,
             Onward(Caller.node, t, Caller.state_backup), Call(q, t, Callers)
      PROVE  StatesKept'
  BY <1>1, <1>3, <1>7, GoesOn
<1>8. ASSUME NEW s, Clean(args, s), Ret(FALSE, s, Callers)
      PROVE  StatesKept'
  BY <1>3, <1>8, Fails
<1> QED
  BY <1>3, <1>5, <1>6, <1>7, <1>8

LEMMA LookBehindKept ==
  ASSUME Steady, MatchLookBehind
  PROVE  StatesKept'
<1> DEFINE pos == state.str_begin - Here.size
<1>1. /\ At("LookBehind") /\ Here.kind = "LookBehind" /\ state \in StateType /\ Clean(args, state)
      /\ Running /\ ~ScansOnTop(stack)
  BY AtKept DEF MatchLookBehind
<1>2. Here.size \in Nat /\ Here.look_graph \in SubgraphsOf(Here) /\ Typed
  BY <1>1, AtFacts, NodePointers DEF NodeOK, LookKinds
<1>3. state.str_begin \in 0..SizeMax /\ state.str_begin \in Nat /\ SizeMax \in Nat
  BY <1>1, StateParts, SizeMaxAssumption
<1>4. CASE pos >= 0
  <2>1. Call(Here.look_graph, StateAt(pos), Pushed(Frame(function, state)))
    BY <1>4 DEF MatchLookBehind
  <2>2. pos \in 0..SizeMax /\ pos <= state.str_begin
    BY <1>2, <1>3, <1>4
  <2> HIDE DEF pos
  <2>3. Exact(args) => pos <= Len(str)
    <3>1. Exact(args) => state.str_begin <= Len(str)
      BY <1>1 DEF Clean, str
    <3>2. Len(str) \in Nat
      BY <1>2, StringFacts DEF Typed
    <3> QED
      BY <1>3, <2>2, <3>1, <3>2
  <2>4. StateAt(pos) \in StateType /\ SameHeads(StateAt(pos), state) /\ Clean(args, StateAt(pos))
    BY <1>1, <2>2, <2>3, MovedParts, CleanMoved DEF StateAt
  <2>5. "LookBehind" \in AskingKinds
    BY DEF AskingKinds, LookKinds
  <2> QED
    BY <1>1, <1>2, <2>1, <2>4, <2>5, AskKept
<1>5. CASE ~(pos >= 0)
  <2>1. CallIf(~Here.positive, Here.next, state)
    BY <1>5 DEF MatchLookBehind
  <2>2. StoredBy(Here) = {} /\ "LookBehind" \in NextKinds
    BY <1>1 DEF StoredBy, NextKinds
  <2> QED
    BY <1>1, <2>1, <2>2, HereKept
<1> QED
  BY <1>4, <1>5

LEMMA AssertionsKept ==
  ASSUME Steady,
         \/ MatchAlternativesPossessive \/ BackInAlternativesPossessive
         \/ MatchLookAhead \/ BackInLookAhead \/ MatchLookBehind \/ BackInLookBehind
         \/ MatchConditionalElement \/ BackInConditionalElement
         \/ MatchAtomicGroup \/ BackInAtomicGroup
  PROVE  StatesKept'
<1>1. Running
  BY DEF Steady, Ordered
<1>2. CASE \/ MatchAlternativesPossessive \/ MatchLookAhead
           \/ MatchConditionalElement \/ MatchAtomicGroup
  <2>1. PICK kind \in AskingKinds : /\ At(kind)
                                    /\ \E q \in SubgraphsOf(Here) :
                                         Call(q, state, Pushed(Frame(function, state)))
    <3>1. CASE MatchAlternativesPossessive
      <4>1. /\ At("AlternativesPossessive") /\ Here.kind = "AlternativesPossessive"
            /\ Call(Here.path0_element, state, Pushed(Frame(function, state)))
        BY <3>1 DEF MatchAlternativesPossessive, At
      <4> QED
        BY <4>1, NodePointers DEF AskingKinds
    <3>2. CASE MatchLookAhead
      <4>1. /\ At("LookAhead") /\ Here.kind = "LookAhead"
            /\ Call(Here.look_graph, state, Pushed(Frame(function, state)))
        BY <3>2 DEF MatchLookAhead, At
      <4> QED
        BY <4>1, NodePointers DEF AskingKinds, LookKinds
    <3>3. CASE MatchConditionalElement
      <4>1. /\ At("ConditionalElement") /\ Here.kind = "ConditionalElement"
            /\ Call(Here.condition_node, state, Pushed(Frame(function, state)))
        BY <3>3 DEF MatchConditionalElement, At
      <4> QED
        BY <4>1, NodePointers DEF AskingKinds
    <3>4. CASE MatchAtomicGroup
      <4>1. /\ At("AtomicGroup") /\ Here.kind = "AtomicGroup"
            /\ Call(Here.group_element, state, Pushed(Frame(function, state)))
        BY <3>4 DEF MatchAtomicGroup, At
      <4> QED
        BY <4>1, NodePointers DEF AskingKinds
    <3> QED
      BY <1>2, <3>1, <3>2, <3>3, <3>4
  <2>2. state \in StateType /\ Clean(args, state)
    BY <2>1, AtKept
  <2>3. SameHeads(state, state) /\ Keeps(args, state, state)
    BY <2>2, KeepsAlways DEF SameHeads
  <2> QED
    BY <2>1, <2>2, <2>3, AskKept
<1>3. CASE MatchLookBehind
  BY <1>3, LookBehindKept
<1>4. CASE BackInAlternativesPossessive
  <2>1. /\ BackIn("AlternativesPossessive") /\ "AlternativesPossessive" \in AskingKinds
        /\ IF res THEN Call(CallerNode.path0_next, state, Callers)
                  ELSE Call(CallerNode.path1_next, Caller.state_backup, Callers)
    BY <1>4 DEF BackInAlternativesPossessive, AskingKinds
  <2>2. CallerNode.kind = "AlternativesPossessive"
    BY <1>1, <2>1, BackInFacts
  <2>3. /\ CallerNode.path0_next \in ContinuationsOf(CallerNode)
        /\ CallerNode.path1_next \in ContinuationsOf(CallerNode)
    BY <2>2, NodePointers
  <2> QED
    BY <2>1, <2>3, AskedKept
<1>5. CASE BackInLookAhead \/ BackInLookBehind
  <2>1. PICK kind \in LookKinds :
          /\ BackIn(kind)
          /\ \/ Call(CallerNode.next, Caller.state_backup, Callers)
             \/ Ret(FALSE, state, Callers) \/ Ret(FALSE, Caller.state_backup, Callers)
    BY <1>5 DEF BackInLookAhead, BackInLookBehind, LookKinds
  <2>2. CallerNode.kind = kind /\ kind \in AskingKinds /\ kind \in NextKinds
    BY <1>1, <2>1, BackInFacts DEF AskingKinds, LookKinds, NextKinds
  <2>3. CallerNode.next \in ContinuationsOf(CallerNode)
    BY <2>2, NodePointers
  <2> QED
    BY <2>1, <2>2, <2>3, AskedKept
<1>6. CASE BackInConditionalElement
  <2>1. /\ BackIn("ConditionalElement") /\ "ConditionalElement" \in AskingKinds
        /\ \/ Call(CallerNode.next_true, Caller.state_backup, Callers)
           \/ Call(CallerNode.next_false, Caller.state_backup, Callers)
    BY <1>6 DEF BackInConditionalElement, AskingKinds
  <2>2. CallerNode.kind = "ConditionalElement"
    BY <1>1, <2>1, BackInFacts
  <2>3. /\ CallerNode.next_true \in ContinuationsOf(CallerNode)
        /\ CallerNode.next_false \in ContinuationsOf(CallerNode)
    BY <2>2, NodePointers
  <2> QED
    BY <2>1, <2>3, AskedKept
<1>7. CASE BackInAtomicGroup
  <2>1. /\ BackIn("AtomicGroup") /\ "AtomicGroup" \in AskingKinds
        /\ IF res THEN Call(CallerNode.next, state, Callers) ELSE Ret(FALSE, state, Callers)
    BY <1>7 DEF BackInAtomicGroup, AskingKinds
  <2>2. CallerNode.kind = "AtomicGroup"
    BY <1>1, <2>1, BackInFacts
  <2>3. CallerNode.next \in ContinuationsOf(CallerNode)
    BY <2>2, NodePointers DEF NextKinds
  <2> QED
    BY <2>1, <2>3, AskedKept
<1> QED
  BY <1>2, <1>3, <1>4, <1>5, <1>6, <1>7

LEMMA CounterKept ==
  ASSUME Steady, MatchSequenceCounter \/ BackInSequenceCounter
  PROVE  StatesKept'
<1>1. Running
  BY DEF Steady, Ordered
<1>2. CASE MatchSequenceCounter
  <2> DEFINE counter_value == state.sequence_counters[Here.id]
             counted == [state EXCEPT !.sequence_counters[Here.id] = counter_value + 1]
             f == Frame(function, counted)
  <2>1. /\ At("SequenceCounter") /\ Typed /\ state \in StateType
        /\ Here.kind = "SequenceCounter" /\ function \in NodeFunctions(graph)
        /\ Here = graph.node[function]
        /\ NodeOK(Here, DOMAIN graph.node \cup {nullptr}, Counters)
    BY <1>1, <1>2, AtFacts DEF MatchSequenceCounter
  <2>2. Standing(stack, function, state) /\ Clean(args, state)
    BY <2>1, AtKept
  <2>3. /\ Here.next_iteration \in ContinuationsOf(Here)
        /\ Here.next_sequence_end \in ContinuationsOf(Here)
        /\ Branches(Here)[1] \in ContinuationsOf(Here)
    BY <2>1, NodePointers DEF Branches
  <2>4. Here.id \in Counters
    BY <2>1 DEF NodeOK, CounterKinds
  <2>5. counter_value \in Nat \cup {Uninitialized}
    BY <2>1, <2>4, StateParts DEF CounterValues
  <2>6. counter_value + 1 \in Nat
    BY <2>5 DEF Uninitialized
  <2>7. \/ Call(Here.next_iteration, counted, stack)
        \/ Call(Here.next_sequence_end, counted, stack)
        \/ Call(Branches(Here)[1], counted, Append(stack, f))
    BY <1>2 DEF MatchSequenceCounter, Pushed
  <2> HIDE DEF counter_value
  <2>8. /\ counted \in StateType /\ SameHeads(counted, state)
        /\ Keeps(args, counted, state) /\ Clean(args, counted)
    <3>1. counted \in StateType
      BY <2>1, <2>6, CountersType
    <3>2. /\ counted.str_begin = state.str_begin /\ counted.groups = state.groups
          /\ counted.sequence_counters =
               [state.sequence_counters EXCEPT ![Here.id] = counter_value + 1]
          /\ counted.stored = state.stored /\ SameHeads(counted, state)
      BY <2>1 DEF StateType, SameHeads
    <3> HIDE DEF counted
    <3> QED
      BY <2>1, <2>2, <2>4, <2>6, <3>1, <3>2, CounterStored
  <2> HIDE DEF counted
  <2>9. StoredBy(Here) = {}
    BY <2>1 DEF StoredBy
  <2>10. Onward(function, counted, state)
    BY <2>1, <2>8, <2>9, OnwardSame
  <2>11. Standing(stack, function, counted)
    BY <2>1, <2>2, <2>8, StandingKept
  <2>12. Onward(function, counted, counted)
    BY <2>1, <2>9, <2>11, SameOnward
  <2>13. f \in Frames
    BY <2>1, <2>8, NewFrames DEF PlainKinds
  <2>14. /\ f.node = function /\ f.state_backup = counted /\ f.kind = "SequenceCounter"
         /\ ~WaitsForSubgraph(f)
    BY <2>1 DEF Frame, WaitsForSubgraph, LookKinds
  <2> HIDE DEF f
  <2>15. FrameStands(args, stack, Len(stack), f)
    BY <2>11, <2>14, CopyStands
  <2>16. ASSUME NEW q \in ContinuationsOf(Here), Call(q, counted, stack)
         PROVE  StatesKept'
    BY <2>1, <2>2, <2>10, <2>16, GoesOn
  <2>17. ASSUME NEW q \in ContinuationsOf(Here), Call(q, counted, Append(stack, f))
         PROVE  StatesKept'
    BY <2>1, <2>11, <2>12, <2>13, <2>14, <2>15, <2>17, GoesAbove
  <2> QED
    BY <2>3, <2>7, <2>16, <2>17
<1>3. CASE BackInSequenceCounter
  <2>1. /\ BackIn("SequenceCounter")
        /\ IF res THEN Ret(TRUE, state, Callers)
                  ELSE Call(Branches(CallerNode)[2], Caller.state_backup, Callers)
    BY <1>3 DEF BackInSequenceCounter
  <2>2. /\ CallerNode.kind = "SequenceCounter" /\ Caller.kind = "SequenceCounter" /\ Typed
        /\ CallerNode = graph.node[Caller.node]
    BY <1>1, <2>1, BackInFacts
  <2>3. Branches(CallerNode)[2] \in ContinuationsOf(CallerNode)
    BY <2>2, NodePointers DEF Branches
  <2>4. ~WaitsForSubgraph(Caller)
    BY <2>2 DEF WaitsForSubgraph, LookKinds
  <2>5. /\ StackStands(args, Callers) /\ ~ScansOnTop(Callers)
        /\ Standing(Callers, Caller.node, Caller.state_backup)
        /\ res => EndsOn(args, Callers, Len(Callers), state)
    BY <2>1, <2>4, BackKept
  <2>6. CASE res
    <3>1. Ret(TRUE, state, Callers)
      BY <2>1, <2>6
    <3> QED
      BY <2>5, <2>6, <3>1, Matched
  <2>7. CASE ~res
    <3>1. Call(Branches(CallerNode)[2], Caller.state_backup, Callers)
      BY <2>1, <2>7
    <3>2. StoredBy(graph.node[Caller.node]) = {}
      BY <2>2 DEF StoredBy
    <3>3. Onward(Caller.node, Caller.state_backup, Caller.state_backup)
      BY <2>5, <3>2, SameOnward
    <3> QED
      BY <2>2, <2>3, <2>5, <3>1, <3>3, GoesOn
  <2> QED
    BY <2>6, <2>7
<1> QED
  BY <1>2, <1>3

-----------------------------------------------------------------------------
(***************************************************************************)
(* Sequences that keep what they matched.                                  *)
(***************************************************************************)
LEMMA PossessiveLoopKept ==
  ASSUME Typed, NEW p \in NodeFunctions(graph), graph.node[p].kind = "PossessiveSequence",
         NEW counter \in Nat, NEW s, NEW stk, Standing(stk, p, s),
         PossessiveLoop(p, counter, s, stk)
  PROVE  StatesKept'
<1> DEFINE n == graph.node[p]
           f == LoopFrame(p, s, counter)
<1>1. n.next \in ContinuationsOf(n) /\ n.sequence_element \in SubgraphsOf(n)
  BY NodePointers DEF NextKinds, LoopKinds
<1>2. s \in StateType /\ Clean(args, s) /\ Onward(p, s, s)
  <2>1. StoredBy(n) = {}
    BY DEF StoredBy
  <2> QED
    BY <2>1, SameOnward DEF Standing
<1>3. f \in Frames
  BY <1>2, NewFrames
<1>4. /\ f.node = p /\ f.state_backup = s /\ f.kind = "PossessiveSequence"
      /\ WaitsForSubgraph(f) /\ ~Scans(f)
  BY DEF LoopFrame, WaitsForSubgraph, Scans
<1>5. Call(n.sequence_element, s, Append(stk, f)) \/ Call(n.next, s, stk)
  BY DEF PossessiveLoop
<1> HIDE DEF f
<1>6. FrameStands(args, stk, Len(stk), f)
  BY <1>4, CopyStands
<1>7. SameHeads(s, s) /\ Keeps(args, s, f.state_backup)
  BY <1>2, <1>4, KeepsAlways DEF SameHeads
<1>8. CASE Call(n.sequence_element, s, Append(stk, f))
  BY <1>1, <1>2, <1>3, <1>4, <1>6, <1>7, <1>8, GoesInside
<1>9. CASE Call(n.next, s, stk)
  BY <1>1, <1>2, <1>9, GoesOn
<1> QED
  BY <1>5, <1>8, <1>9

LEMMA PossessiveKept ==
  ASSUME Steady, MatchPossessiveSequence \/ BackInPossessiveSequence
  PROVE  StatesKept'
<1>0. Running
  BY DEF Steady, Ordered
<1>1. CASE MatchPossessiveSequence
  <2>1. /\ PossessiveLoop(function, 0, state, stack) /\ function \in NodeFunctions(graph)
        /\ graph.node[function].kind = "PossessiveSequence" /\ 0 \in Nat /\ Typed
    BY <1>0, <1>1, AtFacts DEF MatchPossessiveSequence
  <2>2. Standing(stack, function, state)
    BY <1>1, AtKept DEF MatchPossessiveSequence
  <2> QED
    BY <2>1, <2>2, PossessiveLoopKept
<1>2. CASE BackInPossessiveSequence
  <2>1. /\ BackIn("PossessiveSequence") /\ Typed /\ Caller \in Frames
        /\ Caller.kind = "PossessiveSequence" /\ Caller.node \in NodeFunctions(graph)
        /\ CallerNode = graph.node[Caller.node] /\ CallerNode.kind = "PossessiveSequence"
        /\ state \in StateType
    BY <1>0, <1>2, BackInFacts DEF BackInPossessiveSequence
  <2>2. Caller.counter + 1 \in Nat
    BY <2>1, FrameFacts
  <2>3. CallerNode.next \in ContinuationsOf(CallerNode)
    BY <2>1, NodePointers DEF NextKinds
  <2>4. WaitsForSubgraph(Caller)
    BY <2>1 DEF WaitsForSubgraph
  <2>5. /\ StackStands(args, Callers) /\ ~ScansOnTop(Callers)
        /\ Standing(Callers, Caller.node, Caller.state_backup)
        /\ Clean(args, state) /\ Clean(args, Caller.state_backup)
        /\ res => Keeps(args, state, Caller.state_backup) /\ SameHeads(state, Caller.state_backup)
    BY <2>1, <2>4, BackKept
  <2>6. \/ res /\ PossessiveLoop(Caller.node, Caller.counter + 1, state, Callers)
        \/ Ret(FALSE, Caller.state_backup, Callers)
        \/ Call(CallerNode.next, Caller.state_backup, Callers)
    BY <1>2 DEF BackInPossessiveSequence
  <2>7. CASE res /\ PossessiveLoop(Caller.node, Caller.counter + 1, state, Callers)
    <3>1. Standing(Callers, Caller.node, state)
      BY <2>1, <2>5, <2>7, StandingKept
    <3> QED
      BY <2>1, <2>2, <2>7, <3>1, PossessiveLoopKept
  <2>8. CASE Ret(FALSE, Caller.state_backup, Callers)
    BY <2>5, <2>8, Fails
  <2>9. CASE Call(CallerNode.next, Caller.state_backup, Callers)
    <3>1. StoredBy(graph.node[Caller.node]) = {}
      BY <2>1 DEF StoredBy
    <3>2. Onward(Caller.node, Caller.state_backup, Caller.state_backup)
      BY <2>5, <3>1, SameOnward
    <3> QED
      BY <2>1, <2>3, <2>5, <2>9, <3>2, GoesOn
  <2> QED
    BY <2>6, <2>7, <2>8, <2>9
<1> QED
  BY <1>1, <1>2

LEMMA RollbackTailKept ==
  ASSUME Typed, NEW p \in NodeFunctions(graph),
         graph.node[p].kind = "SingleRollbackPointSequence", NEW s, NEW stk, Standing(stk, p, s),
         NEW next_states \in SUBSET StateType,
         \A t \in next_states : EndsOn(args, stk, Len(stk), t),
         RollbackTail(p, s, next_states, stk)
  PROVE  StatesKept'
<1> DEFINE n == graph.node[p]
           f == RollbackFrame(p, s, TRUE, next_states)
<1>1. n.next \in ContinuationsOf(n)
  BY NodePointers DEF NextKinds
<1>2. s \in StateType /\ Onward(p, s, s)
  <2>1. StoredBy(n) = {}
    BY DEF StoredBy
  <2> QED
    BY <2>1, SameOnward DEF Standing
<1>3. f \in Frames
  BY <1>2, NewFrames
<1>4. /\ f.node = p /\ f.state_backup = s /\ f.kind = "SingleRollbackPointSequence"
      /\ f.next_states = next_states /\ ~WaitsForSubgraph(f)
  BY DEF RollbackFrame, WaitsForSubgraph, LookKinds
<1>5. Call(n.next, s, Append(stk, f))
  BY DEF RollbackTail
<1> HIDE DEF f
<1>6. FrameStands(args, stk, Len(stk), f)
  BY <1>4, CopyStands
<1> QED
  BY <1>1, <1>2, <1>3, <1>4, <1>5, <1>6, GoesAbove

LEMMA RollbackKept ==
  ASSUME Steady,
         MatchSingleRollbackPointSequence \/ BackInRollbackTail \/ BackInRollbackElement
  PROVE  StatesKept'
<1> DEFINE kind == "SingleRollbackPointSequence"
<1>0. Running
  BY DEF Steady, Ordered
<1>1. CASE MatchSingleRollbackPointSequence
  <2>1. /\ RollbackTail(function, state, {}, stack) /\ function \in NodeFunctions(graph)
        /\ graph.node[function].kind = kind /\ Typed
    BY <1>0, <1>1, AtFacts DEF MatchSingleRollbackPointSequence
  <2>2. Standing(stack, function, state)
    BY <1>1, AtKept DEF MatchSingleRollbackPointSequence
  <2> QED
    BY <2>1, <2>2, RollbackTailKept
<1>2. ASSUME BackIn(kind)
      PROVE  /\ Typed /\ Caller \in Frames /\ Caller.kind = kind
             /\ Caller.node \in NodeFunctions(graph)
             /\ CallerNode = graph.node[Caller.node] /\ CallerNode.kind = kind
             /\ state \in StateType /\ Caller.state_backup \in StateType
             /\ Caller.next_states \in SUBSET StateType
  <2>1. /\ Typed /\ Caller \in Frames /\ Caller.kind = kind
        /\ Caller.node \in NodeFunctions(graph)
        /\ CallerNode = graph.node[Caller.node] /\ CallerNode.kind = kind
        /\ state \in StateType /\ Caller.state_backup \in StateType
    BY <1>0, <1>2, BackInFacts
  <2> QED
    BY <2>1, FrameFacts
<1>3. ASSUME BackIn(kind)
      PROVE  /\ StackStands(args, Callers) /\ ~ScansOnTop(Callers)
             /\ Standing(Callers, Caller.node, Caller.state_backup)
             /\ Clean(args, state) /\ Clean(args, Caller.state_backup)
             /\ \A s \in Caller.next_states : EndsOn(args, Callers, Len(Callers), s)
             /\ res /\ ~Caller.in_tail => Standing(Callers, Caller.node, state)
             /\ res /\ Caller.in_tail => EndsOn(args, Callers, Len(Callers), state)
  <2>1. /\ Caller.kind = kind /\ Typed /\ state \in StateType
    BY <1>2, <1>3
  <2>2. WaitsForSubgraph(Caller) <=> ~Caller.in_tail
    BY <2>1 DEF WaitsForSubgraph, LookKinds
  <2>3. /\ StackStands(args, Callers) /\ ~ScansOnTop(Callers)
        /\ Standing(Callers, Caller.node, Caller.state_backup)
        /\ Clean(args, state) /\ Clean(args, Caller.state_backup)
        /\ \A s \in Caller.next_states : EndsOn(args, Callers, Len(Callers), s)
        /\ res /\ ~Caller.in_tail =>
             Keeps(args, state, Caller.state_backup) /\ SameHeads(state, Caller.state_backup)
        /\ res /\ Caller.in_tail => EndsOn(args, Callers, Len(Callers), state)
    BY <1>3, <2>2, BackKept
  <2>4. res /\ ~Caller.in_tail => Standing(Callers, Caller.node, state)
    BY <2>1, <2>3, StandingKept
  <2> QED
    BY <2>3, <2>4
<1>4. CASE BackInRollbackTail
  <2>1. BackIn(kind) /\ Caller.in_tail
    BY <1>4 DEF BackInRollbackTail
  <2> DEFINE next_states == IF res THEN {state} ELSE Caller.next_states
             s == Caller.state_backup
             f == RollbackFrame(Caller.node, s, FALSE, next_states)
  <2>2. Call(CallerNode.sequence_element, s, Append(Callers, f))
    BY <1>4 DEF BackInRollbackTail
  <2>3. next_states \in SUBSET StateType
    BY <1>2, <2>1
  <2>4. \A t \in next_states : EndsOn(args, Callers, Len(Callers), t)
    BY <1>3, <2>1
  <2> HIDE DEF next_states
  <2>5. f \in Frames
    BY <1>2, <2>1, <2>3, NewFrames
  <2>6. /\ f.node = Caller.node /\ f.state_backup = s /\ f.kind = kind
        /\ f.next_states = next_states /\ WaitsForSubgraph(f) /\ ~Scans(f)
    BY DEF RollbackFrame, WaitsForSubgraph, Scans
  <2>7. CallerNode.sequence_element \in SubgraphsOf(graph.node[Caller.node])
    BY <1>2, <2>1, NodePointers DEF LoopKinds
  <2> HIDE DEF f
  <2>8. Standing(Callers, Caller.node, s) /\ s \in StateType /\ Clean(args, s) /\ Typed
    BY <1>2, <1>3, <2>1
  <2>9. FrameStands(args, Callers, Len(Callers), f)
    BY <2>4, <2>6, <2>8, CopyStands
  <2>10. SameHeads(s, s) /\ Keeps(args, s, f.state_backup)
    BY <2>6, <2>8, KeepsAlways DEF SameHeads
  <2> HIDE DEF s
  <2> QED
    BY <2>2, <2>5, <2>6, <2>7, <2>8, <2>9, <2>10, GoesInside
<1>5. CASE BackInRollbackElement
  <2>1. BackIn(kind) /\ ~Caller.in_tail
    BY <1>5 DEF BackInRollbackElement
  <2>2. \/ res /\ RollbackTail(Caller.node, state, Caller.next_states, Callers)
        \/ /\ Caller.next_states # {}
           /\ Ret(TRUE, CHOOSE s \in Caller.next_states : TRUE, Callers)
        \/ Ret(FALSE, state, Callers)
    BY <1>5 DEF BackInRollbackElement
  <2>3. CASE res /\ RollbackTail(Caller.node, state, Caller.next_states, Callers)
    BY <1>2, <1>3, <2>1, <2>3, RollbackTailKept
  <2>4. CASE /\ Caller.next_states # {}
             /\ Ret(TRUE, CHOOSE s \in Caller.next_states : TRUE, Callers)
    <3> DEFINE t == CHOOSE s \in Caller.next_states : TRUE
    <3>1. t \in Caller.next_states /\ Ret(TRUE, t, Callers)
      BY <2>4
    <3> HIDE DEF t
    <3> QED
      BY <1>3, <2>1, <3>1, Matched
  <2>5. CASE Ret(FALSE, state, Callers)
    BY <1>3, <2>1, <2>5, Fails
  <2> QED
    BY <2>2, <2>3, <2>4, <2>5
<1> QED
  BY <1>1, <1>4, <1>5

\* What a loop over elements of fixed length does next, when the State has been read
\* as far as its counter leads, and could go on from where the loop began.
LEMMA ExtractKept ==
  ASSUME Typed, Orderly(graph), NEW p \in NodeFunctions(graph),
         graph.node[p].kind = "FixedLengthElementSequence", NEW s \in StateType, Clean(args, s),
         NEW str_begin \in 0..SizeMax, NEW counter \in Nat, NEW stk,
         Standing(stk, p, Moved(s, str_begin)),
         Exact(args) => str_begin + counter <= s.str_begin,
         ExtractElement(p, str_begin, counter, s, stk)
  PROVE  StatesKept'
<1> DEFINE n == graph.node[p]
           f == ElementFrame(p, s, FALSE, str_begin, counter)
           q == n.sequence_element
<1>1. q \in SubgraphsOf(n) /\ q # nullptr
  <2>1. p \in DOMAIN graph.node
    BY CodeFacts DEF Typed
  <2>2. LoopsExact(graph)
    BY DEF Orderly
  <2> QED
    BY <2>1, <2>2, NodePointers DEF LoopKinds, LoopsExact
<1>2. f \in Frames
  <2>1. FALSE \in BOOLEAN
    OBVIOUS
  <2> QED
    BY <2>1, NewFrames
<1>3. /\ f.node = p /\ f.state_backup = s /\ f.kind = "FixedLengthElementSequence" /\ ~f.in_tail
      /\ f.str_begin = str_begin /\ f.counter = counter
      /\ WaitsForSubgraph(f) /\ Scans(f)
  BY DEF ElementFrame, WaitsForSubgraph, Scans
<1>4. Call(q, s, Append(stk, f))
  BY DEF ExtractElement
<1> HIDE DEF f
<1>5. Origin(f) = Moved(s, str_begin)
  BY <1>3 DEF Origin
<1>6. SameHeads(s, Moved(s, str_begin))
  BY MovedParts DEF SameHeads
<1>7. Exact(args) => /\ str_begin + counter <= Len(args.str)
                     /\ str_begin <= s.str_begin
                     /\ str_begin + counter <= s.str_begin
                     /\ str_begin + counter + 0 <= s.str_begin
  <2>1. Exact(args) => s.str_begin <= Len(args.str)
    BY DEF Clean
  <2>2. s.str_begin \in Nat /\ Len(args.str) \in Nat /\ str_begin \in Nat
    BY StateParts, StringFacts, SizeMaxAssumption DEF Typed, str
  <2> QED
    BY <2>1, <2>2
<1>8. FrameStands(args, stk, Len(stk), f)
  <2>1. StandsAt(args, stk, Len(stk), f.node, Origin(f))
    BY <1>3, <1>5 DEF Standing
  <2>2. LoopStands(args, f)
    BY <1>3, <1>7 DEF LoopStands
  <2> QED
    BY <1>3, <2>1, <2>2 DEF FrameStands
<1>9. Elements(args, Append(stk, f), IF q = nullptr THEN 1 ELSE 0, s)
  <2>1. stk \in Seq(Frames)
    BY DEF Standing
  <2>2. Last(Append(stk, f)) = f
    BY <1>2, <2>1, PushedStack DEF Last
  <2> QED
    BY <1>1, <1>3, <1>7, <2>2 DEF Elements
<1>10. Keeps(args, s, f.state_backup)
  BY <1>3, KeepsAlways
<1> HIDE DEF q
<1> QED
  BY <1>1, <1>2, <1>3, <1>4, <1>6, <1>8, <1>9, <1>10, GoesInside

LEMMA BlockKept ==
  ASSUME Typed, NEW p \in NodeFunctions(graph),
         graph.node[p].kind = "FixedLengthElementSequence", NEW s \in StateType, Clean(args, s),
         NEW str_begin \in 0..SizeMax, NEW counter \in Nat, NEW stk,
         Standing(stk, p, Moved(s, str_begin)),
         Exact(args) => str_begin + counter <= Len(str) /\ str_begin <= s.str_begin,
         BlockAfterExtractLoop(p, str_begin, counter, s, stk)
  PROVE  StatesKept'
<1> DEFINE n == graph.node[p]
           f == ElementFrame(p, s, TRUE, str_begin, counter)
           o == Moved(s, str_begin)
           pos == Wrap(str_begin + counter)
           t == Moved(s, pos)
           enough == counter >= Wrap(n.min_elements * n.element_length)
<1>1. CASE ~enough
  <2>1. Ret(FALSE, s, stk)
    BY <1>1 DEF BlockAfterExtractLoop
  <2> QED
    BY <2>1, Fails DEF Standing, ReadyFor, Ready
<1>2. CASE enough
  <2>1. Call(n.next, t, Append(stk, f))
    BY <1>2 DEF BlockAfterExtractLoop, TailCheck
  <2>2. n.next \in ContinuationsOf(n) /\ p \in DOMAIN graph.node /\ StoredBy(n) = {}
    BY NodePointers, CodeFacts DEF NextKinds, StoredBy, Typed
  <2>3. f \in Frames
    <3>1. TRUE \in BOOLEAN
      OBVIOUS
    <3> QED
      BY <3>1, NewFrames
  <2>4. /\ f.node = p /\ f.state_backup = s /\ f.kind = "FixedLengthElementSequence" /\ f.in_tail
        /\ f.str_begin = str_begin /\ f.counter = counter /\ ~WaitsForSubgraph(f)
    BY DEF ElementFrame, WaitsForSubgraph, LookKinds
  <2>5. Origin(f) = o
    BY <2>4 DEF Origin
  <2>6. str_begin \in Nat /\ Len(str) \in Nat /\ Len(str) \in 0..SizeMax /\ str_begin + counter \in Int
    BY StringFacts, SizeMaxAssumption DEF Typed
  <2>7. pos \in 0..SizeMax
    BY <2>6, WrapType
  <2>8. Exact(args) => str_begin <= pos /\ pos <= Len(str)
    <3> SUFFICES ASSUME Exact(args)
                 PROVE  str_begin <= pos /\ pos <= Len(str)
      OBVIOUS
    <3>1. str_begin + counter \in 0..SizeMax
      BY <2>6, SizeMaxAssumption
    <3>2. pos = str_begin + counter
      BY <3>1, WrapSame
    <3> QED
      BY <2>6, <3>2
  <2>9. Exact(args) => n.min_elements <= counter
    <3> SUFFICES ASSUME Exact(args)
                 PROVE  n.min_elements <= counter
      OBVIOUS
    <3>1. n.element_length = 1
      BY <2>2 DEF Exact, ByteLoops, graph
    <3>2. n.min_elements \in 0..SizeMax
      <4>1. NodeOK(n, DOMAIN graph.node \cup {nullptr}, Counters)
        BY CodeFacts DEF Typed
      <4> QED
        BY <4>1 DEF NodeOK, CountedKinds
    <3>3. n.min_elements * n.element_length = n.min_elements
      BY <3>1, <3>2, SizeMaxAssumption
    <3>4. Wrap(n.min_elements * n.element_length) = n.min_elements
      BY <3>2, <3>3, WrapSame
    <3> QED
      BY <1>2, <3>4
  <2> HIDE DEF pos, f, n, enough
  <2>10. /\ t \in StateType /\ t.str_begin = pos /\ t.groups = s.groups
         /\ t.sequence_counters = s.sequence_counters /\ t.stored = s.stored /\ SameHeads(t, s)
    BY <2>7, MovedParts
  <2>11. /\ o \in StateType /\ o.str_begin = str_begin /\ o.groups = s.groups
         /\ o.sequence_counters = s.sequence_counters /\ o.stored = s.stored /\ SameHeads(o, s)
    BY MovedParts
  <2>12. Clean(args, t)
    BY <2>7, <2>8, CleanMoved
  <2> HIDE DEF t, o
  <2>13. Keeps(args, t, o)
    BY <2>8, <2>10, <2>11, KeepsForward
  <2>14. Onward(p, t, o)
    BY <2>2, <2>10, <2>11, <2>12, <2>13, OnwardSame DEF SameHeads, n
  <2>15. Standing(stk, p, o)
    BY DEF o
  <2>16. FrameStands(args, stk, Len(stk), f)
    <3>1. StandsAt(args, stk, Len(stk), f.node, Origin(f))
      BY <2>4, <2>5, <2>15 DEF Standing
    <3>2. LoopStands(args, f)
      BY <2>4, <2>9 DEF LoopStands, n, graph, str
    <3> QED
      BY <2>4, <3>1, <3>2 DEF FrameStands
  <2>17. n.next \in ContinuationsOf(graph.node[p])
    BY <2>2 DEF n
  <2> QED
    BY <2>1, <2>3, <2>4, <2>14, <2>15, <2>16, <2>17, GoesAbove
<1> QED
  BY <1>1, <1>2

LEMMA FixedLengthKept ==
  ASSUME Steady, MatchFixedLengthElementSequence \/ BackInElement \/ BackInElementTail
  PROVE  StatesKept'
<1> DEFINE kind == "FixedLengthElementSequence"
           Numbers == 0..SizeMax
           begin == Caller.str_begin
<1>0. Running /\ Orderly(graph) /\ Typed
  BY DEF Steady, Ordered, Running
<1>1. CASE MatchFixedLengthElementSequence
  <2>1. /\ ExtractElement(function, state.str_begin, 0, state, stack)
        /\ function \in NodeFunctions(graph) /\ graph.node[function].kind = kind
        /\ state \in StateType /\ 0 \in Nat
    BY <1>0, <1>1, AtFacts DEF MatchFixedLengthElementSequence
  <2>2. state.str_begin \in Numbers /\ state.str_begin + 0 <= state.str_begin
    BY <2>1, StateParts
  <2>3. Standing(stack, function, state) /\ Clean(args, state)
    BY <1>1, AtKept DEF MatchFixedLengthElementSequence
  <2>4. Moved(state, state.str_begin) = state
    BY <2>1, <2>2, MovedParts
  <2>5. Standing(stack, function, Moved(state, state.str_begin))
    BY <2>3, <2>4
  <2> QED
    BY <1>0, <2>1, <2>2, <2>3, <2>5, ExtractKept
<1>2. ASSUME BackIn(kind)
      PROVE  /\ Callers \in Seq(Frames) /\ Caller.kind = kind
             /\ Caller.node \in NodeFunctions(graph) /\ graph.node[Caller.node].kind = kind
             /\ CallerNode = graph.node[Caller.node] /\ Caller.node \in DOMAIN graph.node
             /\ state \in StateType /\ Caller.state_backup \in StateType
             /\ begin \in Numbers /\ Caller.counter \in Nat /\ Caller.counter + 1 \in Nat
             /\ CallerNode.element_length \in Nat /\ CallerNode.min_elements \in Nat
             /\ begin \in Nat /\ Len(str) \in Nat /\ state.str_begin \in Nat
  <2>1. /\ Caller \in Frames /\ Callers \in Seq(Frames) /\ Caller.kind = kind
        /\ Caller.node \in NodeFunctions(graph) /\ CallerNode = graph.node[Caller.node]
        /\ state \in StateType /\ Caller.state_backup \in StateType /\ CallerNode.kind = kind
        /\ NodeOK(CallerNode, DOMAIN graph.node \cup {nullptr}, Counters)
    BY <1>0, <1>2, BackInFacts
  <2>2. begin \in Numbers /\ Caller.counter \in Nat /\ Caller.node \in DOMAIN graph.node
    BY <1>0, <2>1, FrameFacts
  <2>3. CallerNode.element_length \in Nat /\ CallerNode.min_elements \in Nat
    BY <2>1, SizeMaxAssumption DEF NodeOK, CountedKinds
  <2>4. begin \in Nat /\ Len(str) \in Nat /\ state.str_begin \in Nat
    BY <1>0, <2>1, <2>2, StringFacts, StateParts, SizeMaxAssumption DEF Typed
  <2> QED
    BY <2>1, <2>2, <2>3, <2>4
<1>3. ASSUME BackIn(kind)
      PROVE  /\ StackStands(args, Callers) /\ ~ScansOnTop(Callers)
             /\ Standing(Callers, Caller.node, Moved(Caller.state_backup, begin))
             /\ Clean(args, state) /\ Clean(args, Caller.state_backup)
             /\ Exact(args) => /\ begin + Caller.counter <= Len(str)
                               /\ begin <= Caller.state_backup.str_begin
             /\ Exact(args) /\ Caller.in_tail => CallerNode.min_elements <= Caller.counter
             /\ res /\ Caller.in_tail => EndsOn(args, Callers, Len(Callers), state)
             /\ ~Caller.in_tail =>
                  Keeps(args, state, Caller.state_backup) /\ SameHeads(state, Caller.state_backup)
             /\ Exact(args) /\ ~Caller.in_tail =>
                  /\ begin + Caller.counter + (IF res THEN 1 ELSE 0) <= state.str_begin
                  /\ state.groups = Caller.state_backup.groups
  <2>1. Caller.kind = kind /\ CallerNode = graph.node[Caller.node]
    BY <1>2, <1>3
  <2>2. (WaitsForSubgraph(Caller) <=> ~Caller.in_tail) /\ (Scans(Caller) <=> ~Caller.in_tail)
    BY <2>1 DEF WaitsForSubgraph, LookKinds, Scans
  <2>3. Origin(Caller) = Moved(Caller.state_backup, begin)
    BY <2>1 DEF Origin
  <2>4. LoopStands(args, Caller)
    BY <1>3, BackKept
  <2>5. Exact(args) => /\ begin + Caller.counter <= Len(str)
                       /\ begin <= Caller.state_backup.str_begin
                       /\ Caller.in_tail => CallerNode.min_elements <= Caller.counter
    BY <2>1, <2>4 DEF LoopStands, str, graph
  <2>6. /\ StackStands(args, Callers) /\ ~ScansOnTop(Callers)
        /\ Standing(Callers, Caller.node, Moved(Caller.state_backup, begin))
        /\ Clean(args, state) /\ Clean(args, Caller.state_backup)
    BY <1>3, <2>3, BackKept
  <2>7. /\ res /\ Caller.in_tail => EndsOn(args, Callers, Len(Callers), state)
        /\ ~Caller.in_tail =>
             Keeps(args, state, Caller.state_backup) /\ SameHeads(state, Caller.state_backup)
        /\ Exact(args) /\ ~Caller.in_tail =>
             /\ begin + Caller.counter + (IF res THEN 1 ELSE 0) <= state.str_begin
             /\ state.groups = Caller.state_backup.groups
    BY <1>3, <2>2, BackKept
  <2> QED
    BY <2>5, <2>6, <2>7
<1>4. ASSUME BackIn(kind), ~Caller.in_tail
      PROVE  Standing(Callers, Caller.node, Moved(state, begin))
  <2> DEFINE b == Caller.state_backup
             t == Moved(state, begin)
             o == Moved(b, begin)
  <2>1. /\ state \in StateType /\ b \in StateType /\ begin \in 0..SizeMax
        /\ begin \in Nat /\ Caller.counter \in Nat /\ Len(str) \in Nat
    BY <1>2, <1>4
  <2>2. /\ Standing(Callers, Caller.node, o) /\ Clean(args, state)
        /\ Keeps(args, state, b) /\ SameHeads(state, b)
        /\ Exact(args) => begin + Caller.counter <= Len(str) /\ state.groups = b.groups
    BY <1>3, <1>4
  <2>3. /\ t \in StateType /\ t.str_begin = begin /\ t.groups = state.groups
        /\ t.sequence_counters = state.sequence_counters /\ t.stored = state.stored
        /\ o \in StateType /\ o.str_begin = begin /\ o.groups = b.groups
        /\ o.sequence_counters = b.sequence_counters /\ o.stored = b.stored
        /\ SameHeads(t, state) /\ SameHeads(o, b)
    BY <2>1, MovedParts
  <2>4. Exact(args) => begin <= Len(str)
    BY <2>1, <2>2
  <2>5. Clean(args, t)
    BY <2>1, <2>2, <2>4, CleanMoved
  <2>6. Keeps(args, t, o)
    <3>1. \A id \in args.code.graph.used_sequence_counters :
            o.sequence_counters[id] # Uninitialized => t.sequence_counters[id] # Uninitialized
      <4>1. \A id \in args.code.graph.used_sequence_counters :
              b.sequence_counters[id] # Uninitialized => state.sequence_counters[id] # Uninitialized
        BY <2>2, KnownParts DEF Keeps
      <4> QED
        BY <2>3, <4>1
    <3>2. \A i \in Reliable(args) :
            o.groups[i].begin <= o.str_begin => t.groups[i].begin <= t.str_begin
      BY <2>2, <2>3 DEF Reliable
    <3>3. Exact(args) => o.str_begin <= t.str_begin
      BY <2>1, <2>3
    <3>4. o.stored \subseteq t.stored
      BY <2>2, <2>3 DEF Keeps, SameHeads
    <3> HIDE DEF o, t
    <3> QED
      BY <3>1, <3>2, <3>3, <3>4, KeepsParts
  <2>7. SameHeads(t, o)
    BY <2>2, <2>3 DEF SameHeads
  <2> HIDE DEF t, o
  <2>8. Standing(Callers, Caller.node, t)
    BY <1>0, <2>2, <2>3, <2>5, <2>6, <2>7, StandingKept
  <2> QED
    BY <2>8 DEF t
<1>5. CASE BackInElement
  <2> DEFINE counter == Caller.counter
             counter_next == counter + 1
  <2>1. BackIn(kind) /\ ~Caller.in_tail
    BY <1>5 DEF BackInElement
  <2>2. Standing(Callers, Caller.node, Moved(state, begin))
    BY <1>4, <2>1
  <2>3. /\ Caller.node \in NodeFunctions(graph) /\ graph.node[Caller.node].kind = kind
        /\ state \in StateType /\ begin \in 0..SizeMax /\ counter \in Nat /\ counter_next \in Nat
        /\ begin \in Nat /\ Len(str) \in Nat /\ state.str_begin \in Nat
    BY <1>2, <2>1
  <2>4. Clean(args, state)
    BY <1>3, <2>1
  <2>5. Exact(args) => begin + counter + (IF res THEN 1 ELSE 0) <= state.str_begin
    BY <1>3, <2>1
  <2>6. Exact(args) => state.str_begin <= Len(str)
    BY <2>4 DEF Clean, str
  <2>7. Exact(args) => begin + counter <= Len(str) /\ begin <= state.str_begin
    BY <2>3, <2>5, <2>6
  <2>8. Exact(args) /\ res => begin + counter_next <= state.str_begin /\ begin + counter_next <= Len(str)
    BY <2>3, <2>5, <2>6
  <2>9. \/ res /\ ExtractElement(Caller.node, begin, counter_next, state, Callers)
        \/ res /\ BlockAfterExtractLoop(Caller.node, begin, counter_next, state, Callers)
        \/ BlockAfterExtractLoop(Caller.node, begin, counter, state, Callers)
    BY <1>5 DEF BackInElement
  <2> HIDE DEF counter, counter_next, begin
  <2>10. CASE res /\ ExtractElement(Caller.node, begin, counter_next, state, Callers)
    <3>1. Exact(args) => begin + counter_next <= state.str_begin
      BY <2>8, <2>10
    <3> QED
      BY <1>0, <2>2, <2>3, <2>4, <2>10, <3>1, ExtractKept
  <2>11. CASE res /\ BlockAfterExtractLoop(Caller.node, begin, counter_next, state, Callers)
    <3>1. Exact(args) => begin + counter_next <= Len(str) /\ begin <= state.str_begin
      BY <2>7, <2>8, <2>11
    <3> QED
      BY <1>0, <2>2, <2>3, <2>4, <2>11, <3>1, BlockKept
  <2>12. CASE BlockAfterExtractLoop(Caller.node, begin, counter, state, Callers)
    BY <1>0, <2>2, <2>3, <2>4, <2>7, <2>12, BlockKept
  <2> QED
    BY <2>9, <2>10, <2>11, <2>12
<1>6. CASE BackInElementTail
  <2> DEFINE counter == Caller.counter
             back == Wrap(counter - CallerNode.element_length)
             s == Caller.state_backup
  <2>1. BackIn(kind) /\ Caller.in_tail
    BY <1>6 DEF BackInElementTail
  <2>2. /\ Caller.node \in NodeFunctions(graph) /\ graph.node[Caller.node].kind = kind
        /\ CallerNode = graph.node[Caller.node] /\ Caller.node \in DOMAIN graph.node
        /\ s \in StateType /\ begin \in 0..SizeMax /\ counter \in Nat
        /\ begin \in Nat /\ Len(str) \in Nat
        /\ CallerNode.element_length \in Nat /\ CallerNode.min_elements \in Nat
    BY <1>2, <2>1
  <2>3. /\ StackStands(args, Callers) /\ ~ScansOnTop(Callers)
        /\ Standing(Callers, Caller.node, Moved(s, begin)) /\ Clean(args, s)
        /\ Exact(args) => /\ begin + counter <= Len(str) /\ begin <= s.str_begin
                          /\ CallerNode.min_elements <= counter
        /\ res => EndsOn(args, Callers, Len(Callers), state)
    BY <1>3, <2>1
  <2>4. \/ res /\ Ret(TRUE, state, Callers)
        \/ Ret(FALSE, s, Callers)
        \/ /\ ~(CallerNode.min_elements = 0 /\ counter = 0)
           /\ BlockAfterExtractLoop(Caller.node, begin, back, s, Callers)
    BY <1>6 DEF BackInElementTail
  <2>5. counter - CallerNode.element_length \in Int
    BY <2>2
  <2>6. back \in Nat
    BY <2>5, WrapType, SizeMaxAssumption
  <2>7. ASSUME Exact(args), ~(CallerNode.min_elements = 0 /\ counter = 0)
        PROVE  begin + back <= Len(str)
    <3>1. CallerNode.element_length = 1
      BY <2>2, <2>7 DEF Exact, ByteLoops, graph
    <3>2. begin + counter <= Len(str) /\ CallerNode.min_elements <= counter
      BY <2>3, <2>7
    <3>3. counter # 0
      BY <2>2, <2>7, <3>2
    <3>4. Len(str) \in 0..SizeMax
      BY <1>0, StringFacts DEF Typed
    <3> HIDE DEF counter, begin
    <3>5. counter - 1 \in 0..SizeMax /\ begin + (counter - 1) <= Len(str)
      BY <2>2, <3>2, <3>3, <3>4, SizeMaxAssumption
    <3>6. back = counter - 1
      BY <3>1, <3>5, WrapSame
    <3> QED
      BY <3>5, <3>6
  <2> HIDE DEF back, begin, s, counter
  <2>8. CASE res /\ Ret(TRUE, state, Callers)
    BY <2>3, <2>8, Matched
  <2>9. CASE Ret(FALSE, s, Callers)
    BY <2>3, <2>9, Fails
  <2>10. CASE /\ ~(CallerNode.min_elements = 0 /\ counter = 0)
              /\ BlockAfterExtractLoop(Caller.node, begin, back, s, Callers)
    <3>1. Exact(args) => begin + back <= Len(str) /\ begin <= s.str_begin
      BY <2>3, <2>7, <2>10
    <3> QED
      BY <1>0, <2>2, <2>3, <2>6, <2>10, <3>1, BlockKept
  <2> QED
    BY <2>4, <2>8, <2>9, <2>10
<1> QED
  BY <1>1, <1>5, <1>6

-----------------------------------------------------------------------------
(***************************************************************************)
(* Calls and saves.                                                        *)
(***************************************************************************)
\* The call a body returns to, and the save a call is followed by, are above the base.
LEMMA LinksFound ==
  ASSUME NEW g, Orderly(g), NEW p \in DOMAIN g.node, NEW stk, NEW r, NEW v, Len(stk) \in Nat,
         Ready(g, stk, p, r, v)
  PROVE  /\ g.node[p].kind = "SubroutineLeave" => Inside(stk, Len(stk), r)
         /\ g.node[p].kind = "StateRestore" =>
              Inside(stk, Len(stk), v) /\ stk[v].state_backup.return_chain_head = r
<1> DEFINE d == Len(stk)
<1>1. PICK b \in 0..d : IsBase(stk, d, b) /\ Follows(g, stk, b, d, p, r, v)
  BY DEF Ready, Runs, InOrder
<1> HIDE DEF d
<1>2. ASSUME NEW k \in (b + 1)..d
      PROVE  Inside(stk, d, k)
  <2>1. k \in 1..d /\ k..d \subseteq (b + 1)..d
    BY DEF d
  <2> QED
    BY <1>1, <2>1 DEF Inside, IsBase
<1>3. ASSUME g.node[p].kind = "SubroutineLeave"
      PROVE  Inside(stk, d, r)
  <2>1. p \in BodyNodes(g)
    BY <1>3, CallLeads DEF PlainNode
  <2>2. r \in (b + 1)..d
    BY <1>1, <2>1 DEF Follows, ReturnsDue
  <2> QED
    BY <1>2, <2>2
<1>4. ASSUME g.node[p].kind = "StateRestore"
      PROVE  Inside(stk, d, v) /\ stk[v].state_backup.return_chain_head = r
  <2>1. p \in Restores(g)
    BY <1>4, CallLeads DEF PlainNode
  <2>2. v \in (b + 1)..d /\ stk[v].state_backup.return_chain_head = r
    BY <1>1, <2>1 DEF Follows, SavedFor
  <2> QED
    BY <1>2, <2>2
<1> QED
  BY <1>3, <1>4 DEF d

\* The copy in such a frame kept what was in the copies its own heads lead to.
LEMMA LinkStands ==
  ASSUME Typed, NEW stk \in Seq(Frames), StackInOrder(graph, stk), StackStands(args, stk),
         NEW r \in 1..Len(stk), stk[r].kind # "FixedLengthElementSequence"
  PROVE  LET saved == stk[r].state_backup
         IN /\ saved \in StateType /\ Clean(args, saved)
            /\ StandsAt(args, stk, r - 1, stk[r].node, saved)
            /\ \A k \in {saved.return_chain_head, saved.save_chain_head} :
                 Inside(stk, Len(stk), k) => Keeps(args, saved, stk[k].state_backup)
<1> DEFINE saved == stk[r].state_backup
           d == Len(stk)
<1>1. saved \in StateType
  BY BackupType
<1>2. FrameStands(args, stk, r - 1, stk[r])
  BY DEF StackStands
<1>3. StandsAt(args, stk, r - 1, stk[r].node, saved) /\ Clean(args, saved)
  BY <1>2 DEF FrameStands, Origin
<1>4. HeadsLive(stk, r - 1, saved.return_chain_head, saved.save_chain_head)
  BY DEF StackInOrder, FrameInOrder
<1>5. d \in Nat /\ r \in 1..d
  OBVIOUS
<1> HIDE DEF saved, d
<1>6. ASSUME NEW k \in {saved.return_chain_head, saved.save_chain_head}, Inside(stk, d, k)
      PROVE  Keeps(args, saved, stk[k].state_backup)
  <2>1. k \in 1..d
    BY <1>6 DEF Inside
  <2>2. k = 0 \/ k \in 1..(r - 1)
    BY <1>4, <1>6 DEF HeadsLive, HeadLive
  <2>3. k \in 1..(r - 1) /\ k..(r - 1) \subseteq k..d
    BY <1>5, <2>1, <2>2
  <2>4. Inside(stk, r - 1, k)
    BY <1>6, <2>3 DEF Inside
  <2> QED
    BY <1>3, <1>6, <2>4 DEF StandsAt, Comes
<1> QED
  BY <1>1, <1>3, <1>6 DEF saved, d

\* A State that keeps what the copy in such a frame had, with its heads.
LEMMA LinkComes ==
  ASSUME Typed, NEW stk \in Seq(Frames), StackInOrder(graph, stk), StackStands(args, stk),
         NEW r, Inside(stk, Len(stk), r), stk[r].kind # "FixedLengthElementSequence",
         NEW t \in StateType, Clean(args, t), Keeps(args, t, stk[r].state_backup),
         SameHeads(t, stk[r].state_backup)
  PROVE  Comes(args, stk, Len(stk), t)
<1> DEFINE saved == stk[r].state_backup
           d == Len(stk)
<1>1. d \in Nat /\ r \in 1..d /\ r - 1 \in 0..d /\ r - 1 \in Nat
  BY DEF Inside
<1>2. /\ saved \in StateType /\ StandsAt(args, stk, r - 1, stk[r].node, saved)
      /\ \A k \in {saved.return_chain_head, saved.save_chain_head} :
           Inside(stk, d, k) => Keeps(args, saved, stk[k].state_backup)
  BY <1>1, LinkStands
<1> HIDE DEF saved, d
<1>3. ASSUME NEW k \in 1..d, Keeps(args, saved, stk[k].state_backup)
      PROVE  Keeps(args, t, stk[k].state_backup)
  <2>1. stk[k].state_backup \in StateType
    BY BackupType DEF d
  <2>2. Keeps(args, t, saved) /\ t.return_chain_head = saved.return_chain_head
    BY DEF saved, SameHeads
  <2> QED
    BY <1>2, <1>3, <2>1, <2>2, KeepsAlways
<1>4. ASSUME NEW b \in 1..d, IsBase(stk, d, b), stk[b].kind # "LookBehind"
      PROVE  Keeps(args, t, stk[b].state_backup)
  <2>1. WaitsForSubgraph(stk[b]) /\ \A k \in (b + 1)..d : ~WaitsForSubgraph(stk[k])
    BY <1>4 DEF IsBase
  <2>2. \A j \in r..d : ~WaitsForSubgraph(stk[j])
    BY DEF Inside, d
  <2>3. b \in 1..(r - 1)
    BY <1>1, <2>1, <2>2
  <2>4. (b + 1)..(r - 1) \subseteq (b + 1)..d
    BY <1>1
  <2>5. IsBase(stk, r - 1, b)
    BY <2>1, <2>3, <2>4 DEF IsBase
  <2>6. Keeps(args, saved, stk[b].state_backup)
    BY <1>2, <1>4, <2>3, <2>5 DEF StandsAt, Comes, EndsOn
  <2> QED
    BY <1>3, <2>6
<1>5. ASSUME NEW k \in {t.return_chain_head, t.save_chain_head}, Inside(stk, d, k)
      PROVE  Keeps(args, t, stk[k].state_backup)
  <2>1. k \in 1..d
    BY <1>5 DEF Inside
  <2>2. k \in {saved.return_chain_head, saved.save_chain_head}
    BY <1>5 DEF saved, SameHeads
  <2> QED
    BY <1>2, <1>3, <1>5, <2>1, <2>2
<1> QED
  BY <1>4, <1>5 DEF Comes, EndsOn, d

\* What is on every way to a node that stores nothing is on every way past it.
LEMMA PassedOn ==
  ASSUME Typed, NEW p \in DOMAIN graph.node, StoredBy(graph.node[p]) = {},
         NEW K, StoredAt(graph, Tracked(args), p) \subseteq K,
         NEW q \in ContinuationsOf(graph.node[p])
  PROVE  StoredAt(graph, Tracked(args), q) \subseteq K
<1>1. p # nullptr
  BY CodeFacts DEF Typed
<1>2. StoredAt(graph, Tracked(args), q)
        \subseteq StoredAt(graph, Tracked(args), p) \cup (StoredBy(graph.node[p]) \cap Tracked(args))
  BY <1>1, StoredNext
<1> QED
  BY <1>2

LEMMA NothingStored ==
  ASSUME NEW n, n.kind \in {"SubroutineEnter", "StateSave", "StateRestore"}
  PROVE  StoredBy(n) = {} /\ ContinuationsOf(n) = {n.next}
BY DEF StoredBy, ContinuationsOf

\* Onto a frame that is a link of a chain.
LEMMA LinkPushed ==
  ASSUME Steady, NEW kind \in {"SubroutineEnter", "StateSave"}, At(kind),
         NEW t \in StateType, t.str_begin = state.str_begin, t.groups = state.groups,
         t.sequence_counters = state.sequence_counters,
         {t.return_chain_head, t.save_chain_head} \subseteq
           {Len(stack) + 1, state.return_chain_head, state.save_chain_head},
         \/ t.return_chain_head = Len(stack) + 1
         \/ t.return_chain_head = state.return_chain_head /\ t.stored = state.stored,
         NEW q, StoredAt(graph, Tracked(args), q) \subseteq Held(args, t),
         Call(q, t, Pushed(Frame(function, state)))
  PROVE  StatesKept'
<1> DEFINE f   == Frame(function, state)
           new == Append(stack, f)
           d   == Len(stack)
<1>1. /\ Running /\ Typed /\ stack \in Seq(Frames) /\ state \in StateType /\ StackStands(args, stack)
      /\ Standing(stack, function, state) /\ ~ScansOnTop(stack) /\ Clean(args, state)
      /\ StandsAt(args, stack, d, function, state) /\ Here = graph.node[function] /\ Here.kind = kind
  BY AtKept
<1>2. f.kind = kind /\ f.node = function /\ f.state_backup = state
  BY <1>1 DEF Frame
<1>3. f \in Frames
  <2>1. function \in NodeFunctions(graph)
    BY <1>1, AtFacts
  <2>2. graph.node[function].kind \in PlainKinds
    BY <1>1 DEF PlainKinds
  <2> QED
    BY <1>1, <2>1, <2>2, NewFrames
<1>4. FrameStands(args, stack, d, f)
  BY <1>1, <1>2, CopyStands
<1>5. ~WaitsForSubgraph(f) /\ ~Scans(f)
  BY <1>2 DEF WaitsForSubgraph, Scans, LookKinds
<1>6. HeadsLive(stack, d, state.return_chain_head, state.save_chain_head)
  BY <1>1 DEF Standing, ReadyFor, Ready, Runs
<1>7. StackStands(args, new)
  BY <1>1, <1>3, <1>4, PushStands
<1>8. /\ d \in Nat /\ d \in 0..d /\ Len(new) = d + 1 /\ new[d + 1] = f
      /\ \A k \in 1..d : new[k] = stack[k]
  BY <1>1, <1>3, PushedStack
<1>9. ~ScansOnTop(new)
  <2>1. Last(new) = f
    BY <1>8 DEF Last
  <2> QED
    BY <1>5, <2>1 DEF ScansOnTop
<1>10. Call(q, t, new)
  BY DEF Pushed
<1> HIDE DEF f, new, d
<1>11. Agree(stack, new, d)
  BY <1>8 DEF Agree
<1>12. Keeps(args, t, state) /\ Clean(args, t)
  <2>1. Exact(args) => state.str_begin <= t.str_begin
    BY <1>1, StateParts
  <2>2. t.return_chain_head = state.return_chain_head => state.stored \subseteq t.stored
    <3>1. state.return_chain_head \in 0..d
      BY <1>6, <1>8 DEF HeadsLive, HeadLive
    <3> QED
      BY <1>8, <3>1 DEF d
  <2>3. Keeps(args, t, state)
    BY <1>1, <2>1, <2>2, KeepsForward
  <2> QED
    BY <1>1, <2>3 DEF Clean
<1>13. ASSUME NEW k \in 1..d, Keeps(args, state, stack[k].state_backup)
       PROVE  Keeps(args, t, stack[k].state_backup)
  <2>1. stack[k].state_backup \in StateType
    BY <1>1, BackupType DEF d
  <2>2. stack[k].state_backup.return_chain_head \in 0..(k - 1)
    <3>1. StackInOrder(graph, stack)
      BY <1>1 DEF Standing, ReadyFor, Ready
    <3>2. HeadsLive(stack, k - 1, stack[k].state_backup.return_chain_head,
                    stack[k].state_backup.save_chain_head)
      BY <3>1 DEF StackInOrder, FrameInOrder, d
    <3> QED
      BY <1>8, <3>2 DEF HeadsLive, HeadLive
  <2>3. t.return_chain_head = stack[k].state_backup.return_chain_head =>
          state.return_chain_head = stack[k].state_backup.return_chain_head
    BY <1>8, <2>2 DEF d
  <2> QED
    BY <1>1, <1>12, <1>13, <2>1, <2>3, KeepsAlways
<1>14. EndsOn(args, new, d, t)
  <2>1. EndsOn(args, stack, d, state)
    BY <1>1 DEF StandsAt, Comes
  <2>2. EndsOn(args, stack, d, t)
    BY <1>12, <1>13, <2>1 DEF EndsOn
  <2> QED
    BY <1>8, <1>11, <2>2, SameStands
<1>15. ASSUME NEW k \in {t.return_chain_head, t.save_chain_head}
       PROVE  /\ k \in 0..(d + 1)
              /\ Inside(new, d, k) => Keeps(args, t, new[k].state_backup)
              /\ k = d + 1 => Keeps(args, t, new[k].state_backup)
  <2>1. k \in {d + 1, state.return_chain_head, state.save_chain_head}
    BY DEF d
  <2>2. k = d + 1 => new[k].state_backup = state
    BY <1>2, <1>8
  <2>3. k \in 0..(d + 1)
    BY <1>6, <1>8, <2>1 DEF HeadsLive, HeadLive
  <2>4. ASSUME Inside(new, d, k)
        PROVE  Keeps(args, t, new[k].state_backup)
    <3>1. k \in 1..d /\ k # d + 1 /\ new[k] = stack[k]
      BY <1>8, <2>4 DEF Inside
    <3>2. Inside(stack, d, k)
      BY <1>8, <2>4 DEF Inside
    <3>3. Keeps(args, state, stack[k].state_backup)
      BY <1>1, <2>1, <3>1, <3>2 DEF StandsAt, Comes
    <3> QED
      BY <1>13, <3>1, <3>3
  <2> QED
    BY <1>12, <2>2, <2>3, <2>4
<1>16. Comes(args, new, d + 1, t)
  <2>1. ~WaitsForSubgraph(new[d + 1])
    BY <1>5, <1>8
  <2> QED
    BY <1>8, <1>14, <1>15, <2>1, ComesHigher
<1>17. Calls(args, new, q, t)
  BY <1>7, <1>8, <1>9, <1>16 DEF Calls, Elements, StandsAt, graph
<1> QED
  BY <1>10, <1>17, CallKept

LEMMA EntersKept ==
  ASSUME Steady, MatchSubroutineEnter \/ MatchStateSave
  PROVE  StatesKept'
<1>1. ASSUME NEW kind \in {"SubroutineEnter", "StateSave"}, At(kind)
      PROVE  /\ Typed /\ state \in StateType /\ Len(stack) + 1 \in Nat
             /\ function \in DOMAIN graph.node /\ Here = graph.node[function] /\ Here.kind = kind
             /\ StoredAt(graph, Tracked(args), function) \subseteq Held(args, state)
  <2>1. stack \in Seq(Frames) /\ StandsAt(args, stack, Len(stack), function, state)
    BY <1>1, AtKept
  <2>2. Len(stack) + 1 \in Nat
    BY <2>1
  <2> QED
    BY <1>1, <2>1, <2>2, AtKept DEF StandsAt, graph
<1>2. CASE MatchSubroutineEnter
  <2> DEFINE t == [state EXCEPT !.return_chain_head = Len(stack) + 1, !.stored = {}]
             q == Here.subroutine_node
  <2>1. At("SubroutineEnter") /\ Call(q, t, Pushed(Frame(function, state)))
    BY <1>2 DEF MatchSubroutineEnter
  <2>2. /\ t \in StateType /\ t.str_begin = state.str_begin /\ t.groups = state.groups
        /\ t.sequence_counters = state.sequence_counters
        /\ t.return_chain_head = Len(stack) + 1 /\ t.save_chain_head = state.save_chain_head
    BY <1>1, <2>1, HeadsType DEF StateType
  <2>3. StoredAt(graph, Tracked(args), q) = {}
    <3>1. /\ q \in SubgraphsOf(Here) \cup SubroutinesOf(Here)
          /\ function \in DOMAIN graph.node /\ Here = graph.node[function]
      BY <1>1, <2>1 DEF SubroutinesOf
    <3> QED
      BY <3>1, StoredEntry
  <2> HIDE DEF t, q
  <2>4. {t.return_chain_head, t.save_chain_head} \subseteq
          {Len(stack) + 1, state.return_chain_head, state.save_chain_head}
    BY <2>2
  <2>5. StoredAt(graph, Tracked(args), q) \subseteq Held(args, t)
    BY <2>3
  <2> QED
    BY <2>1, <2>2, <2>4, <2>5, LinkPushed
<1>3. CASE MatchStateSave
  <2> DEFINE t == [state EXCEPT !.save_chain_head = Len(stack) + 1]
             q == Here.next
  <2>1. At("StateSave") /\ Call(q, t, Pushed(Frame(function, state)))
    BY <1>3 DEF MatchStateSave
  <2>2. /\ t \in StateType /\ t.str_begin = state.str_begin /\ t.groups = state.groups
        /\ t.sequence_counters = state.sequence_counters
        /\ t.save_chain_head = Len(stack) + 1 /\ t.return_chain_head = state.return_chain_head
        /\ t.stored = state.stored
    BY <1>1, <2>1, HeadsType DEF StateType
  <2>3. StoredBy(graph.node[function]) = {} /\ q \in ContinuationsOf(graph.node[function])
    BY <1>1, <2>1, NothingStored
  <2> HIDE DEF t, q
  <2>4. {t.return_chain_head, t.save_chain_head} \subseteq
          {Len(stack) + 1, state.return_chain_head, state.save_chain_head}
    BY <2>2
  <2>5. StoredAt(graph, Tracked(args), q) \subseteq Held(args, state)
    BY <1>1, <2>1, <2>3, PassedOn
  <2>6. Held(args, state) \subseteq Held(args, t)
    <3>1. Exact(args) => state.str_begin <= t.str_begin
      BY <1>1, <2>1, <2>2, StateParts
    <3>2. Keeps(args, t, state)
      BY <1>1, <2>1, <2>2, <3>1, KeepsForward
    <3> QED
      BY <2>2, <3>2, HeldKept
  <2>7. StoredAt(graph, Tracked(args), q) \subseteq Held(args, t)
    BY <2>5, <2>6
  <2> QED
    BY <2>1, <2>2, <2>4, <2>7, LinkPushed
<1> QED
  BY <1>2, <1>3

\* Back behind such a frame.
LEMMA LinkCall ==
  ASSUME Steady, NEW kind \in {"SubroutineLeave", "StateRestore"}, At(kind),
         NEW r, Inside(stack, Len(stack), r), stack[r].kind # "FixedLengthElementSequence",
         NEW t \in StateType, Clean(args, t), Keeps(args, t, stack[r].state_backup),
         SameHeads(t, stack[r].state_backup),
         NEW q, StoredAt(graph, Tracked(args), q) \subseteq Held(args, stack[r].state_backup),
         Call(q, t, stack)
  PROVE  StatesKept'
<1>1. /\ Typed /\ stack \in Seq(Frames) /\ StackStands(args, stack) /\ ~ScansOnTop(stack)
      /\ Standing(stack, function, state)
  BY AtKept
<1>2. StackInOrder(graph, stack)
  BY <1>1 DEF Standing, ReadyFor, Ready
<1>3. Comes(args, stack, Len(stack), t)
  BY <1>1, <1>2, LinkComes
<1>4. StoredAt(graph, Tracked(args), q) \subseteq Held(args, t)
  BY HeldKept DEF SameHeads
<1>5. Calls(args, stack, q, t)
  BY <1>1, <1>3, <1>4 DEF Calls, Elements, StandsAt, graph
<1> QED
  BY <1>5, CallKept

\* What is known where a body ends, or a save is restored.
LEMMA AtLink ==
  ASSUME Steady, NEW kind \in {"SubroutineLeave", "StateRestore"}, At(kind)
  PROVE  /\ Typed /\ Orderly(graph) /\ stack \in Seq(Frames) /\ FramesOf(graph, stack)
         /\ function \in DOMAIN graph.node /\ Here = graph.node[function]
         /\ graph.node[function].kind = kind
         /\ Ready(graph, stack, function, state.return_chain_head, state.save_chain_head)
         /\ state \in StateType /\ Clean(args, state)
         /\ StackStands(args, stack) /\ StackInOrder(graph, stack) /\ Len(stack) \in Nat
         /\ \A k \in {state.return_chain_head, state.save_chain_head} :
              Inside(stack, Len(stack), k) => Keeps(args, state, stack[k].state_backup)
<1>1. /\ Running /\ Typed /\ stack \in Seq(Frames) /\ state \in StateType
      /\ function \in DOMAIN graph.node /\ Here = graph.node[function] /\ Here.kind = kind
      /\ Clean(args, state) /\ StackStands(args, stack) /\ Standing(stack, function, state)
      /\ StandsAt(args, stack, Len(stack), function, state)
  BY AtKept
<1>2. Orderly(graph) /\ FramesOf(graph, stack) /\ Len(stack) \in Nat
  BY <1>1, StackFrames DEF Steady, Ordered
<1>3. /\ Ready(graph, stack, function, state.return_chain_head, state.save_chain_head)
      /\ StackInOrder(graph, stack)
  BY <1>1 DEF Standing, ReadyFor, Ready
<1>4. \A k \in {state.return_chain_head, state.save_chain_head} :
        Inside(stack, Len(stack), k) => Keeps(args, state, stack[k].state_backup)
  BY <1>1 DEF StandsAt, Comes
<1> QED
  BY <1>1, <1>2, <1>3, <1>4

LEMMA LeaveKept ==
  ASSUME Steady, MatchSubroutineLeave
  PROVE  StatesKept'
<1> DEFINE r == state.return_chain_head
           saved == stack[r].state_backup
           m == stack[r].node
           q == graph.node[m].next
           t == [state EXCEPT !.return_chain_head = saved.return_chain_head,
                              !.stored = saved.stored]
<1>1. At("SubroutineLeave") /\ Call(q, t, stack)
  BY DEF MatchSubroutineLeave
<1>2. /\ Typed /\ Orderly(graph) /\ stack \in Seq(Frames) /\ FramesOf(graph, stack)
      /\ function \in DOMAIN graph.node /\ graph.node[function].kind = "SubroutineLeave"
      /\ Ready(graph, stack, function, r, state.save_chain_head)
      /\ state \in StateType /\ Clean(args, state)
      /\ StackStands(args, stack) /\ StackInOrder(graph, stack) /\ Len(stack) \in Nat
      /\ \A k \in {r, state.save_chain_head} :
           Inside(stack, Len(stack), k) => Keeps(args, state, stack[k].state_backup)
  BY <1>1, AtLink
<1>3. Inside(stack, Len(stack), r)
  BY <1>2, LinksFound
<1>4. /\ r \in 1..Len(stack) /\ stack[r].kind = "SubroutineEnter"
      /\ state.save_chain_head = saved.save_chain_head
  BY <1>2, LeaveBody
<1>5. m \in DOMAIN graph.node /\ graph.node[m].kind = "SubroutineEnter"
  BY <1>2, <1>4 DEF FramesOf
<1>6. saved \in StateType /\ StandsAt(args, stack, r - 1, m, saved)
  BY <1>2, <1>4, LinkStands
<1>7. /\ t \in StateType /\ t.str_begin = state.str_begin /\ t.groups = state.groups
      /\ t.sequence_counters = state.sequence_counters
      /\ t.return_chain_head = saved.return_chain_head /\ t.stored = saved.stored
      /\ t.save_chain_head = state.save_chain_head
  <2>1. saved.return_chain_head \in Nat /\ saved.stored \in SUBSET Counters
    BY <1>6, StateParts
  <2> QED
    BY <1>2, <2>1, HeadsType DEF StateType
<1>8. StoredBy(graph.node[m]) = {} /\ q \in ContinuationsOf(graph.node[m])
  BY <1>5, NothingStored
<1>9. StoredAt(graph, Tracked(args), m) \subseteq Held(args, saved)
  BY <1>6 DEF StandsAt, graph
<1> HIDE DEF t, q, m
<1>10. StoredAt(graph, Tracked(args), q) \subseteq Held(args, saved)
  BY <1>2, <1>5, <1>8, <1>9, PassedOn
<1>11. Clean(args, t)
  BY <1>2, <1>7 DEF Clean
<1>12. Keeps(args, t, saved)
  <2>1. Keeps(args, state, saved)
    BY <1>2, <1>3
  <2>2. Known(args, t) = Known(args, state)
    BY <1>7 DEF Known
  <2> HIDE DEF saved
  <2> QED
    BY <1>7, <2>1, <2>2 DEF Keeps
<1>13. SameHeads(t, saved)
  BY <1>4, <1>7 DEF SameHeads
<1>14. stack[r].kind # "FixedLengthElementSequence"
  BY <1>4
<1> HIDE DEF r
<1> QED
  BY <1>1, <1>3, <1>7, <1>10, <1>11, <1>12, <1>13, <1>14, LinkCall

\* What is restored is as it was when it was saved, and the rest has moved forward.
LEMMA RestoredKeeps ==
  ASSUME NEW s \in StateType, NEW saved \in StateType, Keeps(args, s, saved),
         Clean(args, s), Clean(args, saved), NEW S, NEW T, NEW t \in StateType,
         t.str_begin = s.str_begin,
         t.sequence_counters = Restored(s.sequence_counters, saved.sequence_counters, S),
         t.groups = Restored(s.groups, saved.groups, T),
         t.return_chain_head = s.return_chain_head, t.stored = s.stored
  PROVE  Keeps(args, t, saved) /\ Clean(args, t)
<1>1. /\ DOMAIN s.groups = Fields /\ DOMAIN s.sequence_counters = Counters
      /\ s.str_begin \in Nat /\ saved.str_begin \in Nat
      /\ \A i \in Fields : saved.groups[i].begin \in Nat
  BY StateParts DEF CounterValues
<1>2. \A i \in Fields : t.groups[i] = s.groups[i] \/ t.groups[i] = saved.groups[i]
  BY <1>1 DEF Restored
<1>3. \A id \in Counters : \/ t.sequence_counters[id] = s.sequence_counters[id]
                           \/ t.sequence_counters[id] = saved.sequence_counters[id]
  BY <1>1 DEF Restored
<1>4. Clean(args, t)
  BY <1>2 DEF Clean, Fields
<1>5. Exact(args) => saved.str_begin <= t.str_begin
  BY DEF Keeps
<1>6. ASSUME NEW id \in args.code.graph.used_sequence_counters,
             saved.sequence_counters[id] # Uninitialized
      PROVE  t.sequence_counters[id] # Uninitialized
  <2>1. <<"counter", id>> \in Known(args, saved)
    BY <1>6, KnownParts
  <2>2. s.sequence_counters[id] # Uninitialized
    BY <2>1, KnownParts DEF Keeps
  <2> QED
    BY <1>3, <1>6, <2>2 DEF Counters, graph
<1>7. ASSUME NEW i \in Reliable(args), saved.groups[i].begin <= saved.str_begin
      PROVE  t.groups[i].begin <= t.str_begin
  <2>1. Exact(args) /\ i \in Fields
    BY DEF Reliable, Fields
  <2>2. <<"group", i>> \in Known(args, saved)
    BY <1>7, KnownParts
  <2>3. s.groups[i].begin <= s.str_begin
    BY <2>2, KnownParts DEF Keeps
  <2>4. saved.groups[i].begin <= s.str_begin
    <3>1. saved.str_begin <= s.str_begin
      BY <2>1 DEF Keeps
    <3> QED
      BY <1>1, <1>7, <2>1, <3>1
  <2> QED
    BY <1>2, <2>1, <2>3, <2>4
<1>8. t.return_chain_head = saved.return_chain_head => saved.stored \subseteq t.stored
  BY DEF Keeps
<1> QED
  BY <1>4, <1>5, <1>6, <1>7, <1>8, KeepsParts

LEMMA RestoreKept ==
  ASSUME Steady, MatchStateRestore
  PROVE  StatesKept'
<1> DEFINE v == state.save_chain_head
           saved == stack[v].state_backup
           p == stack[v].node
           call == graph.node[p].next
           q == Here.next
           c == Restored(state.sequence_counters, saved.sequence_counters,
                         Here.sequence_counters_to_restore)
           h == Restored(state.groups, saved.groups, Here.groups_to_restore)
           t == [state EXCEPT !.sequence_counters = c, !.groups = h,
                              !.save_chain_head = saved.save_chain_head]
<1>1. At("StateRestore") /\ Call(q, t, stack)
  BY DEF MatchStateRestore
<1>2. /\ Typed /\ Orderly(graph) /\ stack \in Seq(Frames) /\ FramesOf(graph, stack)
      /\ function \in DOMAIN graph.node /\ graph.node[function].kind = "StateRestore"
      /\ Here = graph.node[function]
      /\ Ready(graph, stack, function, state.return_chain_head, v)
      /\ state \in StateType /\ Clean(args, state)
      /\ StackStands(args, stack) /\ StackInOrder(graph, stack) /\ Len(stack) \in Nat
      /\ \A k \in {state.return_chain_head, v} :
           Inside(stack, Len(stack), k) => Keeps(args, state, stack[k].state_backup)
  BY <1>1, AtLink
<1>3. Inside(stack, Len(stack), v) /\ saved.return_chain_head = state.return_chain_head
  BY <1>2, LinksFound
<1>4. v \in 1..Len(stack) /\ stack[v].kind = "StateSave" /\ graph.node[call].next = function
  BY <1>2, EnterRestored
<1>5. p \in DOMAIN graph.node /\ graph.node[p].kind = "StateSave"
  BY <1>2, <1>4 DEF FramesOf
<1>6. saved \in StateType /\ Clean(args, saved) /\ StandsAt(args, stack, v - 1, p, saved)
  BY <1>2, <1>4, LinkStands
<1>7. t \in StateType
  BY <1>2, <1>6, RestoredType
<1>8. /\ t.str_begin = state.str_begin /\ t.groups = h /\ t.sequence_counters = c
      /\ t.return_chain_head = state.return_chain_head /\ t.stored = state.stored
      /\ t.save_chain_head = saved.save_chain_head
  <2> HIDE DEF c, h
  <2> QED
    BY <1>2 DEF StateType
<1>9. Keeps(args, state, saved)
  BY <1>2, <1>3
<1>10. Keeps(args, t, saved) /\ Clean(args, t)
  <2> HIDE DEF t, saved
  <2> QED
    BY <1>2, <1>6, <1>7, <1>8, <1>9, RestoredKeeps
<1>11. call \in DOMAIN graph.node /\ graph.node[call].kind = "SubroutineEnter"
  <2>1. call \in SavingCalls(graph)
    BY <1>2, <1>5, CallLeads DEF PlainNode
  <2> QED
    BY <2>1 DEF SavingCalls
<1>12. StoredBy(graph.node[p]) = {} /\ call \in ContinuationsOf(graph.node[p])
  BY <1>5, NothingStored
<1>13. StoredBy(graph.node[call]) = {} /\ function \in ContinuationsOf(graph.node[call])
  BY <1>4, <1>11, NothingStored
<1>14. StoredBy(graph.node[function]) = {} /\ q \in ContinuationsOf(graph.node[function])
  BY <1>2, NothingStored
<1>15. StoredAt(graph, Tracked(args), p) \subseteq Held(args, saved)
  BY <1>6 DEF StandsAt, graph
<1> HIDE DEF t, q, call, p
<1>16. StoredAt(graph, Tracked(args), call) \subseteq Held(args, saved)
  BY <1>2, <1>5, <1>12, <1>15, PassedOn
<1>17. StoredAt(graph, Tracked(args), function) \subseteq Held(args, saved)
  BY <1>2, <1>11, <1>13, <1>16, PassedOn
<1>18. StoredAt(graph, Tracked(args), q) \subseteq Held(args, saved)
  BY <1>2, <1>14, <1>17, PassedOn
<1>19. SameHeads(t, saved)
  BY <1>3, <1>8 DEF SameHeads
<1>20. stack[v].kind # "FixedLengthElementSequence"
  BY <1>4
<1> HIDE DEF v
<1> QED
  BY <1>1, <1>3, <1>7, <1>10, <1>18, <1>19, <1>20, LinkCall

LEMMA ReturnKept ==
  ASSUME Steady, ReturnFromCall
  PROVE  StatesKept'
<1>1. PICK kind \in {"SubroutineEnter", "StateSave"} : BackIn(kind) /\ Ret(res, state, Callers)
  BY DEF ReturnFromCall
<1>2. ~WaitsForSubgraph(Caller)
  BY <1>1 DEF BackIn, WaitsForSubgraph, LookKinds
<1>3. /\ StackStands(args, Callers) /\ ~ScansOnTop(Callers) /\ Clean(args, state)
      /\ res => EndsOn(args, Callers, Len(Callers), state)
  BY <1>1, <1>2, BackKept
<1>4. Leaves(args, Callers, res, state)
  BY <1>3 DEF Leaves, Elements
<1> QED
  BY <1>1, <1>4, RetKept

-----------------------------------------------------------------------------
(***************************************************************************)
(* The root function, and the theorems about what the States keep.         *)
(***************************************************************************)
LEMMA RunKept ==
  ASSUME Steady, NodeFunction \/ AfterCall
  PROVE  StatesKept'
<1>1. CASE NodeFunction
  BY <1>1, ReturnTrueKept, ReadersKept, StoreKept, AlternativesKept, AssertionsKept,
     CounterKept, PossessiveKept, RollbackKept, FixedLengthKept, EntersKept, LeaveKept,
     RestoreKept
  DEF NodeFunction
<1>2. CASE AfterCall
  BY <1>2, AlternativesKept, AssertionsKept, CounterKept, PossessiveKept, RollbackKept,
     FixedLengthKept, ReturnKept
  DEF AfterCall
<1> QED
  BY <1>1, <1>2

\* An attempt begins within the string, with all groups at its end.
LEMMA SearchLoopKept ==
  ASSUME Typed, StatesKept, SearchLoop
  PROVE  StatesKept'
<1>1. /\ stack = <<>> /\ pc' = "call" /\ function' = graph.root /\ stack' = <<>> /\ args' = args
      /\ state'.str_begin = current_start_offset
      /\ state'.groups = [g \in Fields |-> [begin |-> Len(str), end |-> Len(str)]]
      /\ pc = "search_loop" /\ current_start_offset <= Len(str)
  BY DEF SearchLoop, Typed, StatesKept
<1>2. Len(str) \in Nat /\ Len(<<>>) = 0
  BY StringFacts DEF Typed
<1>3. Clean(args, state')
  BY <1>1, <1>2 DEF Clean, Fields, str
<1>4. Comes(args, <<>>, 0, state')
  BY <1>3 DEF Comes, EndsOn, Inside
<1>5. StoredAt(args.code.graph, Tracked(args), graph.root) = {}
  BY StoredEntry DEF graph
<1>6. StackStands(args, <<>>) /\ Elements(args, <<>>, IF graph.root = nullptr THEN 1 ELSE 0, state')
  BY <1>2 DEF StackStands, Elements, ScansOnTop
<1>7. Calls(args, <<>>, graph.root, state')
  BY <1>2, <1>4, <1>5, <1>6 DEF Calls, StandsAt
<1> QED
  BY <1>1, <1>7 DEF StatesKept

\* Where an attempt begins.
LEMMA OffsetKept ==
  ASSUME Typed, (\E c \in Inputs : CallRoot(c)) \/ NextIteration \/ Found
  PROVE  StatesKept'
<1>1. CASE \E c \in Inputs : CallRoot(c)
  <2>1. PICK c \in Inputs : CallRoot(c)
    BY <1>1
  <2>2. /\ pc' = "search_loop" /\ current_start_offset' = c.start_offset /\ str' = c.str
    BY <2>1 DEF CallRoot, str
  <2>3. c.start_offset \in 0..Len(c.str) /\ c.str \in Seq(Byte)
    BY InputsAssumption DEF CallOK
  <2>4. c.start_offset <= Len(c.str)
    BY <2>3
  <2> QED
    BY <2>2, <2>4 DEF StatesKept
<1>2. CASE NextIteration
  <2> DEFINE more == ~RootIsStringStart /\ current_start_offset + 1 < Len(str)
  <2>1. /\ pc' = IF more THEN "search_loop" ELSE "end"
        /\ current_start_offset' = IF more THEN current_start_offset + 1 ELSE current_start_offset
        /\ str' = str
    BY <1>2 DEF NextIteration, str
  <2>2. current_start_offset \in Nat /\ Len(str) \in Nat
    BY StringFacts, SizeMaxAssumption DEF Typed
  <2>3. more => current_start_offset + 1 <= Len(str)
    BY <2>2
  <2> HIDE DEF more
  <2> QED
    BY <2>1, <2>3 DEF StatesKept
<1>3. CASE Found
  BY <1>3 DEF Found, StatesKept
<1> QED
  BY <1>1, <1>2, <1>3

LEMMA StepKept ==
  ASSUME Typed, Orderly(graph) => ChainsInOrder,
         Orderly(graph) /\ StoresFirst(graph) => StatesKept, [Next]_vars
  PROVE  (Orderly(graph) /\ StoresFirst(graph))' => StatesKept'
<1>1. CASE (\E c \in Inputs : CallRoot(c)) \/ NextIteration \/ Found
  BY <1>1, OffsetKept
<1>2. CASE NodeFunction \/ AfterCall
  <2>1. Running
    BY <1>2, RunsWhenCalled
  <2>2. graph' = graph
    <3>1. args' = args
      BY <1>2, RunArgs
    <3> QED
      BY <3>1 DEF graph
  <2>3. Orderly(graph) /\ StoresFirst(graph) => Steady
    BY <2>1 DEF Steady, Ordered
  <2> QED
    BY <1>2, <2>2, <2>3, RunKept
<1>3. CASE SearchLoop
  <2>1. graph' = graph
    BY <1>3 DEF SearchLoop, graph
  <2> QED
    BY <1>3, <2>1, SearchLoopKept
<1>4. CASE UNCHANGED vars
  <2>1. /\ pc' = pc /\ function' = function /\ state' = state /\ res' = res /\ stack' = stack
        /\ graph' = graph /\ args' = args /\ str' = str
        /\ current_start_offset' = current_start_offset
    BY <1>4 DEF vars, graph, str
  <2> QED
    BY <2>1 DEF StatesKept
<1> QED
  BY <1>1, <1>2, <1>3, <1>4 DEF Next, Run, Returned

LEMMA KeptThroughout ==
  Spec => [](/\ Typed
             /\ Orderly(graph) => ChainsInOrder
             /\ Orderly(graph) /\ StoresFirst(graph) => StatesKept)
<1> DEFINE Inv == /\ Typed
                  /\ Orderly(graph) => ChainsInOrder
                  /\ Orderly(graph) /\ StoresFirst(graph) => StatesKept
<1>1. Init => Inv
  BY InitTypes DEF Init, ChainsInOrder, StatesKept
<1>2. Inv /\ [Next]_vars => Inv'
  BY StepTypes, StepOrder, StepKept
<1> QED
  BY <1>1, <1>2, PTL DEF Spec

LEMMA KeptCounters ==
  ASSUME Typed, Orderly(graph), ChainsInOrder, StoresFirst(graph), StatesKept
  PROVE  CountersInitialized
<1> SUFFICES ASSUME At("SequenceCounter")
             PROVE  Here.id \in state.stored /\ state.sequence_counters[Here.id] # Uninitialized
  BY DEF CountersInitialized
<1> DEFINE x == <<"counter", Here.id>>
<1>1. Steady
  BY DEF Steady, Ordered, Running, At
<1>2. /\ function \in DOMAIN graph.node /\ Here = graph.node[function]
      /\ Here.kind = "SequenceCounter" /\ StandsAt(args, stack, Len(stack), function, state)
  BY <1>1, AtKept
<1>3. function # nullptr
  BY DEF At
<1>4. Here.id \in Counters
  <2>1. NodeOK(Here, DOMAIN graph.node \cup {nullptr}, Counters)
    BY <1>1, AtFacts DEF Steady, Ordered
  <2> QED
    BY <1>2, <2>1 DEF NodeOK, CounterKinds
<1>5. x \in ReadBy(Here)
  BY <1>2 DEF ReadBy
<1>6. x \in Tracked(args)
  BY <1>4, TrackedParts DEF Counters, graph
<1> HIDE DEF x
<1>7. x \in StoredAt(graph, Tracked(args), function)
  BY <1>2, <1>3, <1>5, <1>6, StoredWhereRead
<1>8. x \in Held(args, state)
  BY <1>2, <1>7 DEF StandsAt, graph
<1> QED
  BY <1>8, HeldParts, KnownParts DEF x

LEMMA KeptPointers ==
  ASSUME Typed, StatesKept, ByteLoops(graph)
  PROVE  PointersInString
<1> SUFFICES ASSUME pc \in {"call", "ret"},
                    NEW s \in {state} \cup UNION { StatesOf(stack[k]) : k \in DOMAIN stack }
             PROVE  Clean(args, s)
  <2>1. Exact(args)
    BY DEF Exact, graph
  <2> QED
    BY <2>1 DEF PointersInString, Clean, Fields, str
<1>1. StackStands(args, stack) /\ Clean(args, state)
  <2>1. CASE pc = "call"
    BY <2>1 DEF StatesKept, Calls, StandsAt, Comes, EndsOn
  <2>2. CASE pc = "ret"
    BY <2>2 DEF StatesKept, Leaves
  <2> QED
    BY <2>1, <2>2
<1>2. DOMAIN stack = 1..Len(stack)
  BY DEF Typed
<1>3. ASSUME NEW k \in DOMAIN stack, s \in StatesOf(stack[k])
      PROVE  Clean(args, s)
  <2>1. FrameStands(args, stack, k - 1, stack[k])
    BY <1>1, <1>2 DEF StackStands
  <2>2. s = stack[k].state_backup \/ EndsOn(args, stack, k - 1, s)
    BY <1>3, <2>1 DEF FrameStands, StatesOf
  <2> QED
    BY <2>1, <2>2 DEF FrameStands, EndsOn
<1> QED
  BY <1>1, <1>3

\* In a function generated for such a graph, where besides every way to the counter
\* of a loop passes the node that resets it, no counter is compared before this
\* attempt, and this call of a subroutine, has stored it: not after a graph of its
\* own, not after a subroutine that went back to what it had saved, not with what an
\* earlier attempt or the calling level has left in it.
THEOREM CountersAreStored ==
  Spec => [](Orderly(graph) /\ StoresFirst(graph) => CountersInitialized)
<1>1. /\ Typed
      /\ Orderly(graph) => ChainsInOrder
      /\ Orderly(graph) /\ StoresFirst(graph) => StatesKept
      => (Orderly(graph) /\ StoresFirst(graph) => CountersInitialized)
  BY KeptCounters
<1> QED
  BY <1>1, KeptThroughout, PTL

\* And where the loops over elements of fixed length go back by bytes, no pointer of
\* *state or of a local copy ever leaves the string, and no group ends before it begins.
THEOREM PointersStayInString ==
  Spec => [](Orderly(graph) /\ StoresFirst(graph) /\ ByteLoops(graph) => PointersInString)
<1>1. /\ Typed
      /\ Orderly(graph) => ChainsInOrder
      /\ Orderly(graph) /\ StoresFirst(graph) => StatesKept
      => (Orderly(graph) /\ StoresFirst(graph) /\ ByteLoops(graph) => PointersInString)
  BY KeptPointers
<1> QED
  BY <1>1, KeptThroughout, PTL
=============================================================================
