------------------------- MODULE RegexGraphBuilder -------------------------
(***************************************************************************)
(* From the syntax tree to the graph (RegexGraph.cpp).  Nodes are made     *)
(* from the end of a chain to its beginning, each with the pointer to what *)
(* comes next.                                                             *)
(*                                                                         *)
(* The pointer of a node is the address of the element it is made for,     *)
(* extended where an element needs several nodes.  The code also builds    *)
(* every element a second time with nothing after it, in case it is        *)
(* possessive; the copies of the other elements are not reachable and have *)
(* no node here (that copy is made first, so where it matters - the entry  *)
(* of a group - the one used below is the one that stays).                 *)
(***************************************************************************)
EXTENDS RegexTree

CMax == SizeMax   \* Sequence::c_max

-----------------------------------------------------------------------------
(***************************************************************************)
(* Statistics of groups, 0 being the whole expression.                     *)
(***************************************************************************)
\* The repetitions that need a counter.
NeedsCounter(e) ==
  /\ e.mode # "Possessive"
  /\ <<e.min_elements, e.max_elements>> \notin {<<1, 1>>, <<0, 1>>, <<0, CMax>>, <<1, CMax>>}

OfKind(elements, kind) == { x \in elements : x[2].el.kind = kind }
IndicesOf(elements)    == { x[2].el.index : x \in elements }

\* internal_sequences, internal_groups and internal_calls of a set of elements.
GroupInternals(elements) ==
  [internal_sequences |-> { x[1] : x \in { y \in elements : NeedsCounter(y[2]) } },
   internal_groups    |-> IndicesOf(OfKind(elements, "Group")),
   internal_calls     |-> IndicesOf(OfKind(elements, "SubroutineCall"))]

\* A fault: only direct recursion is found.
SearchRecursiveGroupCallsDirect(internals, g, path) ==
  { h \in DOMAIN internals : h \in internals[h].internal_calls }

\* The groups where a search along the calls, from group g, meets its own
\* path again.  Only the group that closes the cycle is found, not the others
\* on it.
RECURSIVE SearchRecursiveGroupCalls(_, _, _)
SearchRecursiveGroupCalls(internals, g, path) ==
  IF g \in ToSet(path) THEN {g}
  ELSE UNION { SearchRecursiveGroupCalls(internals, called, Append(path, g)) :
                 called \in internals[g].internal_calls }

GroupStats(chain) ==
  LET all      == ElementsIn(chain, <<>>)
      groups   == OfKind(all, "Group")
      backs    == OfKind(all, "BackReference")
      calls    == OfKind(all, "SubroutineCall")
      indices  == {0} \cup IndicesOf(groups \cup backs \cup calls)
      \* A group referred to but not there gets empty statistics.
      contents(g) ==
        IF g = 0 THEN all
        ELSE UNION { ElementsIn(x[2].el.elements, Append(x[1], 1)) :
                       x \in { y \in groups : y[2].el.index = g } }
      internals == [g \in indices |-> GroupInternals(contents(g))]
      recursive == SearchRecursiveGroupCalls(internals, 0, <<>>)
      count(S, g) == Cardinality({ x \in S : x[2].el.index = g })
  IN [g \in indices |->
        [recursive           |-> g \in recursive,
         backreference_count |-> count(backs, g),
         indirect_call_count |-> count(calls, g)] @@ internals[g]]

-----------------------------------------------------------------------------
(***************************************************************************)
(* Sizes of what a chain matches, in bytes: <<min, max>>.  size_t wraps.   *)
(***************************************************************************)
Utf8Size(code) == Len(Utf32ToUtf8(<<code>>))

SmallerOf(S, default) == IF S = {} THEN default ELSE Min(S \cup {default})
LargerOf(S)           == IF S = {} THEN 0 ELSE Max(S)

RECURSIVE GetRegexChainSize(_)
RECURSIVE GetRegexElementSize(_)

GetRegexElementSize(el) ==
  LET sizesOf(alternatives) == { GetRegexChainSize(alternatives[j]) : j \in DOMAIN alternatives }
      widest(alternatives) ==
        <<SmallerOf({ s[1] : s \in sizesOf(alternatives) }, CMax),
          LargerOf({ s[2] : s \in sizesOf(alternatives) })>>
  IN CASE el.kind = "AnySymbol" -> <<1, 6>>
       [] el.kind = "SpecificSymbol" -> <<Utf8Size(el.code), Utf8Size(el.code)>>
       [] el.kind = "OneOf" ->
            IF el.inverse_flag THEN <<1, 6>>
            ELSE LET sizes(codes) == { Utf8Size(c) : c \in codes }
                     firsts == el.variants \cup { r[1] : r \in ToSet(el.ranges) }
                     lasts  == el.variants \cup { r[2] : r \in ToSet(el.ranges) }
                 IN <<SmallerOf(sizes(firsts), 100), LargerOf(sizes(lasts))>>
       [] el.kind \in {"Group", "NonCapturingGroup", "AtomicGroup"} ->
            GetRegexChainSize(el.elements)
       [] el.kind = "Alternatives" -> widest(el.alternatives)
       [] el.kind = "ConditionalElement" -> widest(el.alternatives.alternatives)
       [] el.kind \in {"Look", "LineStartAssertion", "LineEndAssertion"} -> <<0, 0>>
       [] el.kind \in {"BackReference", "SubroutineCall"} -> <<0, CMax>>

GetRegexChainSize(chain) ==
  FoldLeft(LAMBDA s, e :
             LET size == GetRegexElementSize(e.el)
             IN <<Wrap(s[1] + size[1] * e.min_elements),
                  Wrap(s[2] + (IF e.max_elements = CMax THEN CMax
                               ELSE size[2] * e.max_elements))>>,
           <<0, 0>>, chain)

-----------------------------------------------------------------------------
(***************************************************************************)
(* Graph construction.  A part of the graph is [entry, node, group_nodes]: *)
(* where it begins, its nodes, and where the bodies of the groups in it    *)
(* begin.                                                                  *)
(***************************************************************************)
Nothing(next) == [entry |-> next, node |-> <<>>, group_nodes |-> <<>>]

\* Nodes n (a function from pointers) added to part, which now begins at entry.
Added(n, part, entry) == [part EXCEPT !.entry = entry, !.node = n @@ @]

\* Both parts, beginning where the first does.
Joined(first, second) ==
  [entry |-> first.entry, node |-> first.node @@ second.node,
   group_nodes |-> first.group_nodes @@ second.group_nodes]

\* Extra nodes for the element at path: a number no element has.
Extra(path, k) == Append(path, -k)

\* Options and statistics: b = [multiline, extract_groups, stats].
GroupIsRecorded(b, g) == b.stats[g].backreference_count > 0 \/ b.extract_groups

RECURSIVE BuildRegexGraphChain(_, _, _, _, _)
RECURSIVE BuildRegexGraphNode(_, _, _, _)

GroupNode(b, next, el, path) ==
  LET end      == Extra(path, 1)
      leave    == Extra(path, 2)
      enter    == Extra(path, 3)
      start    == Extra(path, 4)
      recorded == GroupIsRecorded(b, el.index)
      called   == b.stats[el.index].indirect_call_count > 0
      after    == IF recorded THEN end ELSE next
      contents == BuildRegexGraphChain(b, IF called THEN leave ELSE after, el.elements,
                                       Append(path, 1), 1)
      body     == IF called THEN enter ELSE contents.entry
      ends     == IF recorded
                  THEN end :> [kind |-> "GroupEnd", next |-> next, index |-> el.index]
                    @@ start :> [kind |-> "GroupStart", next |-> body, index |-> el.index]
                  ELSE <<>>
      subroutine ==
        IF called
        THEN leave :> [kind |-> "SubroutineLeave"]
          @@ enter :> [kind |-> "SubroutineEnter", next |-> after,
                       subroutine_node |-> contents.entry, index |-> el.index]
        ELSE <<>>
      part == Added(ends @@ subroutine, contents, IF recorded THEN start ELSE body)
  IN IF called
     THEN [part EXCEPT !.group_nodes = el.index :> contents.entry @@ @]
     ELSE part

LookNode(b, next, el, path) ==
  LET looked == BuildRegexGraphChain(b, nullptr, el.elements, Append(path, 1), 1)
      p      == Extra(path, 5)
      fields == [next |-> next, look_graph |-> looked.entry, positive |-> el.positive]
  IN Added(p :> (IF el.forward
                 THEN fields @@ [kind |-> "LookAhead"]
                 ELSE fields @@ [kind |-> "LookBehind",
                                 size |-> GetRegexChainSize(el.elements)[1]]),
           looked, p)

\* An assertion about the string, or in multiline mode about a line break too.
LineNode(b, assertion, look, path) ==
  LET p     == Extra(path, 6)
      both  == Extra(path, 7)
      ahead == Extra(path, 8)
      lf    == Extra(path, 9)
      newline == [kind |-> "OneOf", next |-> nullptr, variants |-> {10}, ranges |-> <<>>,
                  inverse_flag |-> FALSE]
      nodes == p :> assertion @@ both :> [kind |-> "Alternatives", next |-> <<p, ahead>>]
               @@ ahead :> (look @@ [look_graph |-> lf, positive |-> TRUE]) @@ lf :> newline
  IN IF b.multiline THEN Added(nodes, Nothing(nullptr), both)
                    ELSE Added(p :> assertion, Nothing(nullptr), p)

CallNode(b, next, el, path) ==
  LET enter   == Extra(path, 10)
      restore == Extra(path, 11)
      save    == Extra(path, 12)
      stat    == b.stats[el.index]
      sequences == IF stat.recursive THEN stat.internal_sequences ELSE {}
      groups  == { g \in stat.internal_groups : GroupIsRecorded(b, g) }
      \* Where the subroutine begins is only known at the end.
      entering(after) == [kind |-> "SubroutineEnter", next |-> after,
                          subroutine_node |-> nullptr, index |-> el.index]
  IN IF sequences = {} /\ groups = {}
     THEN Added(enter :> entering(next), Nothing(nullptr), enter)
     ELSE Added(save :> [kind |-> "StateSave", next |-> enter,
                         sequence_counters_to_save |-> sequences, groups_to_save |-> groups]
                  @@ enter :> entering(restore)
                  @@ restore :> [kind |-> "StateRestore", next |-> next,
                                 sequence_counters_to_restore |-> sequences,
                                 groups_to_restore |-> groups],
                Nothing(nullptr), save)

BuildRegexGraphNode(b, next, el, path) ==
  LET single == Added(path :> (el @@ [next |-> next]), Nothing(nullptr), path)
      chain(k, elements) == BuildRegexGraphChain(b, next, elements, Append(path, k), 1)
  IN CASE el.kind \in {"AnySymbol", "SpecificSymbol", "OneOf", "BackReference"} -> single
       [] el.kind = "Group" -> GroupNode(b, next, el, path)
       [] el.kind = "NonCapturingGroup" -> chain(1, el.elements)
       [] el.kind = "AtomicGroup" ->
            LET inside == BuildRegexGraphChain(b, nullptr, el.elements, Append(path, 1), 1)
            IN Added(path :> [kind |-> "AtomicGroup", next |-> next,
                              group_element |-> inside.entry], inside, path)
       [] el.kind = "Alternatives" ->
            LET parts == [k \in DOMAIN el.alternatives |-> chain(k, el.alternatives[k])]
            IN Added(path :> [kind |-> "Alternatives",
                              next |-> [k \in DOMAIN parts |-> parts[k].entry]],
                     FoldLeft(Joined, Nothing(nullptr), parts), path)
       [] el.kind = "Look" -> LookNode(b, next, el, path)
       [] el.kind = "LineStartAssertion" ->
            LineNode(b, [kind |-> "StringStartAssertion", next |-> next],
                     [kind |-> "LookBehind", next |-> next, size |-> 1], path)
       [] el.kind = "LineEndAssertion" ->
            LineNode(b, [kind |-> "StringEndAssertion", next |-> next],
                     [kind |-> "LookAhead", next |-> next], path)
       [] el.kind = "ConditionalElement" ->
            LET look == LookNode(b, nullptr, el.look, path)
                yes  == chain(2, el.alternatives.alternatives[1])
                no   == chain(3, el.alternatives.alternatives[2])
            IN Added(path :> [kind |-> "ConditionalElement", condition_node |-> look.entry,
                              next_true |-> yes.entry, next_false |-> no.entry],
                     Joined(Joined(look, yes), no), path)
       [] el.kind = "SubroutineCall" -> CallNode(b, next, el, path)

\* An element with its repetition, before what begins at next.
RepeatNode(b, next, e, path) ==
  LET loop      == Extra(path, 13)   \* the node that decides on one more element
      reset     == Extra(path, 14)
      body(n)   == BuildRegexGraphNode(b, n, e.el, path)
      loopBody  == body(loop)
      ordered(element) == IF e.mode = "Lazy" THEN <<next, element>> ELSE <<element, next>>
      choice(element)  == loop :> [kind |-> "Alternatives", next |-> ordered(element)]
      bounds    == [min_elements |-> e.min_elements, max_elements |-> e.max_elements]
      range     == <<e.min_elements, e.max_elements>>
  IN CASE range = <<1, 1>> -> body(next)
       [] range # <<1, 1>> /\ e.mode = "Possessive" ->
            LET node_possessive == body(nullptr)
            IN Added(loop :> (bounds @@ [kind |-> "PossessiveSequence", next |-> next,
                                         sequence_element |-> node_possessive.entry]),
                     node_possessive, loop)
       [] range = <<0, 1>> /\ e.mode # "Possessive" ->
            LET optional == body(next) IN Added(choice(optional.entry), optional, loop)
       [] range = <<1, CMax>> /\ e.mode # "Possessive" ->
            Added(choice(loopBody.entry), loopBody, loopBody.entry)
       [] range = <<0, CMax>> /\ e.mode # "Possessive" ->
            Added(choice(loopBody.entry), loopBody, loop)
       [] NeedsCounter(e) ->
            Added(loop :> (bounds @@ [kind |-> "SequenceCounter", id |-> path,
                                      next_iteration |-> loopBody.entry,
                                      next_sequence_end |-> next,
                                      greedy |-> e.mode # "Lazy"])
                    @@ reset :> [kind |-> "SequenceCounterReset", next |-> loop, id |-> path],
                  loopBody, reset)

BuildRegexGraphChain(b, next, chain, path, k) ==
  IF k > Len(chain) THEN Nothing(next)
  ELSE LET rest == BuildRegexGraphChain(b, next, chain, path, k + 1)
       IN Joined(RepeatNode(b, rest.entry, chain[k], Append(path, k)), rest)

\* Calls are directed to the bodies of their groups.  group_nodes_.at throws
\* for a group that does not exist: such an expression has no graph.
SetupSubroutineCalls(node, group_nodes) ==
  [p \in DOMAIN node |->
     IF node[p].kind = "SubroutineEnter" /\ node[p].subroutine_node = nullptr
     THEN [node[p] EXCEPT !.subroutine_node = group_nodes[node[p].index]]
     ELSE node[p]]

BuildRegexGraph(chain, options) ==
  LET stats == GroupStats(chain)
      b     == options @@ [stats |-> stats]
      leave == Extra(<<>>, 1)
      enter == Extra(<<>>, 2)
      called == stats[0].indirect_call_count > 0
      body  == BuildRegexGraphChain(b, IF called THEN leave ELSE nullptr, chain, <<>>, 1)
      whole ==
        IF ~called THEN body
        ELSE [Added(leave :> [kind |-> "SubroutineLeave"]
                      @@ enter :> [kind |-> "SubroutineEnter", next |-> nullptr,
                                   subroutine_node |-> body.entry, index |-> 0],
                    body, enter) EXCEPT !.group_nodes = 0 :> body.entry @@ @]
      node == SetupSubroutineCalls(whole.node, whole.group_nodes)
  IN [root |-> whole.entry,
      node |-> node,
      group_count |-> Cardinality(DOMAIN stats),
      used_sequence_counters |->
        { node[p].id : p \in { q \in DOMAIN node : node[q].kind = "SequenceCounter" } }]

\* The body of every group that is called is there.
CallsHaveGroups(chain) ==
  LET elements == ElementsIn(chain, <<>>)
  IN IndicesOf(OfKind(elements, "SubroutineCall"))
       \subseteq {0} \cup IndicesOf(OfKind(elements, "Group"))

\* The graph of the expression, or none when BuildRegexGraph throws.
BuiltGraphs(chain, options) ==
  IF CallsHaveGroups(chain) THEN {BuildRegexGraph(chain, options)} ELSE {}
=============================================================================
