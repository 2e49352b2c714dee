------------------------- MODULE GraphOptimizations -------------------------
(***************************************************************************)
(* The optimizations of RegexGraphOptimizer.cpp, each as what it makes of  *)
(* one node of a graph, and the start symbols one of them asks for.        *)
(***************************************************************************)
EXTENDS RegexGraph

(***************************************************************************)
(* Start symbols: what a match that begins at node p may begin with.       *)
(***************************************************************************)
\* The nodes asked instead of n, because n reads nothing itself.
StartSuccessors(n) ==
  CASE n.kind = "String" -> IF FrontCode(n.str) = {} THEN {n.next} ELSE {}
    [] n.kind = "Alternatives" -> ToSet(n.next)
    [] n.kind = "AlternativesPossessive" -> {n.path0_element, n.path1_next}
    [] n.kind \in {"GroupStart", "GroupEnd", "SequenceCounterReset", "StateSave",
                   "StateRestore"} -> {n.next}
    [] n.kind = "ConditionalElement" -> {n.next_true, n.next_false}
    [] n.kind = "SequenceCounter" ->
         {n.next_iteration} \cup (IF n.min_elements > 0 THEN {} ELSE {n.next_sequence_end})
    [] n.kind = "PossessiveSequence" ->
         {n.sequence_element} \cup (IF n.min_elements > 0 THEN {} ELSE {n.next})
    [] n.kind \in {"SingleRollbackPointSequence", "FixedLengthElementSequence"} ->
         {n.sequence_element, n.next}
    [] n.kind = "AtomicGroup" -> {n.next, n.group_element}
    [] n.kind = "SubroutineEnter" -> {n.subroutine_node}
    [] OTHER -> {}

\* The recursion with its visited_nodes: all nodes it gets to.  nullptr gives
\* no symbols.
StartNodes(g, p) == ReachedFrom(g, {p}, StartSuccessors)

\* Kinds of nodes that may begin with anything.
AnyStartKinds ==
  {"AnySymbol", "BackReference", "LookAhead", "LookBehind", "StringStartAssertion",
   "StringEndAssertion", "SubroutineLeave"}

\* A set of symbols: variants and ranges, or everything.
GetPossibleStartSymbols(g, p) ==
  LET nodes == { g.node[q] : q \in StartNodes(g, p) }
      oneOf == { n \in nodes : n.kind = "OneOf" }
  IN [any |-> \E n \in nodes : \/ n.kind \in AnyStartKinds
                               \/ n.kind = "OneOf" /\ n.inverse_flag,
      variants |-> (UNION { n.variants : n \in oneOf })
                     \cup { n.code : n \in { m \in nodes : m.kind = "SpecificSymbol" } }
                     \cup UNION { FrontCode(n.str) : n \in { m \in nodes : m.kind = "String" } },
      ranges |-> UNION { ToSet(n.ranges) : n \in oneOf }]

HasIntersection(l, r) ==
  LET rangesOf(s) == s.ranges \cup { <<c, c>> : c \in s.variants }
  IN \/ l.any \/ r.any
     \/ \E x \in rangesOf(l), y \in rangesOf(r) : x[1] <= y[2] /\ y[1] <= x[2]

-----------------------------------------------------------------------------
(***************************************************************************)
(* Rewriting a node.  An optimization maps a graph and a node to the nodes *)
(* it writes: the node itself, and new ones; to no nodes where it does not *)
(* apply.  New nodes get pointers no other node has.                       *)
(***************************************************************************)
Unchanged == <<>>
New(p, k) == Append(p, -(20 + k))

\* The node n at p alone; the nodes of new, and those of old at other pointers.
NodeAt(p, n)   == [q \in {p} |-> n]
Over(new, old) ==
  [q \in DOMAIN new \cup DOMAIN old |-> IF q \in DOMAIN new THEN new[q] ELSE old[q]]

KindAt(g, p)  == IF p = nullptr THEN "nullptr" ELSE g.node[p].kind
IsText(g, p)  == KindAt(g, p) \in {"SpecificSymbol", "String"}
TextOf(n)     == IF n.kind = "SpecificSymbol" THEN Utf32ToUtf8(<<n.code>>) ELSE n.str
StringNode(s, next) == [kind |-> "String", str |-> s, next |-> next]

\* A symbol or string followed by another becomes one string.
SymbolsCombining(g, p) ==
  LET n == g.node[p]
      tail == g.node[n.next]
  IN IF ~(IsText(g, p) /\ IsText(g, n.next)) THEN Unchanged
     ELSE NodeAt(p, StringNode(IF n.kind = "SpecificSymbol" /\ tail.kind = "SpecificSymbol"
                               THEN Utf32ToUtf8(<<n.code, tail.code>>)
                               ELSE TextOf(n) \o TextOf(tail),
                               tail.next))

\* GetNodeStartString, CutNodeStartString: the text a branch begins with, and
\* the branch without its first `cut` bytes - a new node unless all are cut.
StartString(g, p) == IF IsText(g, p) THEN TextOf(g.node[p]) ELSE <<>>

CommonPrefixLength(strings) ==
  Max({ n \in 0..Len(strings[1]) :
          \A s \in ToSet(strings) : n <= Len(s) /\ SubSeq(s, 1, n) = SubSeq(strings[1], 1, n) })

\* Alternatives that begin with the same bytes: the bytes come first, then
\* what is left of the alternatives.
AlternativeStartUnite(g, p) ==
  LET branches == g.node[p].next
      strings  == [j \in DOMAIN branches |-> StartString(g, branches[j])]
      cut      == CommonPrefixLength(strings)
      whole(j) == Len(strings[j]) = cut
      parts    == [j \in DOMAIN branches |->
                     IF whole(j) THEN g.node[branches[j]].next ELSE New(p, j)]
      rests    == [q \in { New(p, j) : j \in { m \in DOMAIN branches : ~whole(m) } } |->
                     LET j == CHOOSE m \in DOMAIN branches : q = New(p, m)
                     IN StringNode(SubSeq(strings[j], cut + 1, Len(strings[j])),
                                   g.node[branches[j]].next)]
  IN IF g.node[p].kind # "Alternatives" \/ branches = <<>> THEN Unchanged
     ELSE IF cut = 0 THEN Unchanged
     ELSE Over(NodeAt(p, StringNode(SubSeq(strings[1], 1, cut), New(p, 0))),
               Over(NodeAt(New(p, 0), [kind |-> "Alternatives", next |-> parts]), rests))

\* Nodes that read something and have one successor.
SimpleKinds == {"SpecificSymbol", "String", "OneOf"}

\* A fault: the copy of a node still leads on.
CutOffNot(n) == n

\* A copy of a node that is a graph of its own.
CutOff(n) == [n EXCEPT !.next = nullptr]

\* The branches can begin with nothing in common.  A fault: any two will do.
CanBeSeparatedAlways(g, first, second) == KindAt(g, first) \in SimpleKinds

CanBeSeparated(g, first, second) ==
  /\ ~HasIntersection(GetPossibleStartSymbols(g, first), GetPossibleStartSymbols(g, second))
  /\ KindAt(g, first) \in SimpleKinds

\* A choice between a simple node, with all that follows it, and something
\* that cannot begin with the same symbols: no way back once the simple node
\* has matched.
AlternativesPossessification(g, p) ==
  LET first  == g.node[p].next[1]
      second == g.node[p].next[2]
  IN IF g.node[p].kind # "Alternatives" \/ Len(g.node[p].next) # 2 THEN Unchanged
     ELSE IF ~CanBeSeparated(g, first, second) THEN Unchanged
     ELSE Over(NodeAt(p, [kind |-> "AlternativesPossessive", path0_element |-> New(p, 1),
                          path0_next |-> g.node[first].next, path1_next |-> second]),
               NodeAt(New(p, 1), CutOff(g.node[first])))

(***************************************************************************)
(* Loops over one simple element.                                          *)
(***************************************************************************)
\* A fault: the symbols need not be of the same length.
GetOneOfLongest(n) ==
  LET codes == n.variants \cup UNION { {r[1], r[2]} : r \in ToSet(n.ranges) }
      sizes == { Len(Utf32ToUtf8(<<c>>)) : c \in codes }
  IN IF sizes = {} THEN {} ELSE {Max(sizes)}

\* GetOneOfLength: the length all listed symbols have, as a set.  What is
\* listed counts, whether or not the class is inverted.  The code takes the least
\* of the ranges' begins and the greatest of their ends, which is the same because
\* the parser lets no range end before it begins (Parser.cpp:238).
GetOneOfLength(n) ==
  LET codes == n.variants \cup UNION { {r[1], r[2]} : r \in ToSet(n.ranges) }
      sizes == { Len(Utf32ToUtf8(<<c>>)) : c \in codes }
  IN IF Cardinality(sizes) = 1 THEN sizes ELSE {}

\* A fault: a symbol counts as one character, not as its bytes.
ElementLengthInCharacters(g, p) ==
  CASE KindAt(g, p) = "SpecificSymbol" -> {1}
    [] KindAt(g, p) = "String" -> {Len(TextOf(g.node[p]))}
    [] KindAt(g, p) = "OneOf" -> GetOneOfLength(g.node[p])
    [] OTHER -> {}

ElementLength(g, p) ==
  CASE KindAt(g, p) \in {"SpecificSymbol", "String"} -> {Len(TextOf(g.node[p]))}
    [] KindAt(g, p) = "OneOf" -> GetOneOfLength(g.node[p])
    [] OTHER -> {}

\* p is a choice between a simple element that leads back to p, and a tail.
IsSimpleLoop(g, p) ==
  /\ g.node[p].kind = "Alternatives"
  /\ Len(g.node[p].next) = 2
  /\ KindAt(g, g.node[p].next[1]) \in SimpleKinds
  /\ g.node[g.node[p].next[1]].next = p

LoopElement(g, p) == NodeAt(New(p, 1), CutOff(g.node[g.node[p].next[1]]))

\* Loop and tail are single simple elements, and the tail is short.
SequenceWithSingleRollbackPoint(g, p) ==
  LET tail    == g.node[p].next[2]
      lengths == ElementLength(g, g.node[p].next[1])
  IN IF IsSimpleLoop(g, p) /\ KindAt(g, tail) \in SimpleKinds
     THEN IF /\ g.node[tail].next = nullptr
             /\ \E after \in ElementLength(g, tail), length \in lengths :
                  after <= 2 \/ after * 2 <= length
          THEN Over(NodeAt(p, [kind |-> "SingleRollbackPointSequence", next |-> tail,
                               sequence_element |-> New(p, 1)]),
                    LoopElement(g, p))
          ELSE Unchanged
     ELSE Unchanged

FixedLengthElementSequence(g, p) ==
  IF ~IsSimpleLoop(g, p) THEN Unchanged
  ELSE LET lengths == ElementLength(g, g.node[p].next[1])
       IN IF lengths = {} THEN Unchanged
          ELSE Over(NodeAt(p, [kind |-> "FixedLengthElementSequence", next |-> g.node[p].next[2],
                               sequence_element |-> New(p, 1), min_elements |-> 0,
                               max_elements |-> SizeMax,
                               element_length |-> CHOOSE length \in lengths : TRUE]),
                    LoopElement(g, p))

Optimization(g, p, name) ==
  CASE name = "SymbolsCombining" -> SymbolsCombining(g, p)
    [] name = "AlternativeStartUnite" -> AlternativeStartUnite(g, p)
    [] name = "AlternativesPossessification" -> AlternativesPossessification(g, p)
    [] name = "SequenceWithSingleRollbackPoint" -> SequenceWithSingleRollbackPoint(g, p)
    [] name = "FixedLengthElementSequence" -> FixedLengthElementSequence(g, p)
=============================================================================
