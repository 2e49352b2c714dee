---------------------------- MODULE RegexGraph ----------------------------
(***************************************************************************)
(* The compiled form of a regular expression (RegexGraph.hpp): a set of    *)
(* nodes that point at each other.  A pointer is a sequence of numbers and *)
(* nullptr, "the whole (sub)expression has matched", is the empty one.  A  *)
(* node is a record whose "kind" is its alternative of the variant Node    *)
(* and whose other fields carry the names of the source.                   *)
(*                                                                         *)
(* A string is the sequence of its UTF-8 bytes, a position the number of   *)
(* bytes before it.                                                        *)
(***************************************************************************)
EXTENDS Integers, SequencesExt

CONSTANTS
  GroupSlots,   \* length of State::groups, 10 in the code
  SizeMax       \* the largest size_t, also Sequence::c_max, "no upper bound"

ASSUME GroupSlotsAssumption == GroupSlots \in Nat \ {0}
ASSUME SizeMaxAssumption    == SizeMax \in Nat \ {0}

\* Arithmetic of size_t.
Wrap(n) == n % (SizeMax + 1)

nullptr == <<>>

(***************************************************************************)
(* The kinds of nodes, by the pointer fields they have.                    *)
(***************************************************************************)
NextKinds ==
  {"AnySymbol", "SpecificSymbol", "String", "OneOf", "GroupStart", "GroupEnd",
   "BackReference", "LookAhead", "LookBehind", "StringStartAssertion",
   "StringEndAssertion", "SequenceCounterReset", "PossessiveSequence",
   "SingleRollbackPointSequence", "FixedLengthElementSequence", "AtomicGroup",
   "SubroutineEnter", "StateSave", "StateRestore"}
LookKinds     == {"LookAhead", "LookBehind"}
GroupKinds    == {"GroupStart", "GroupEnd", "BackReference"}
LoopKinds     == {"PossessiveSequence", "SingleRollbackPointSequence",
                  "FixedLengthElementSequence"}
CountedKinds  == {"PossessiveSequence", "FixedLengthElementSequence",
                  "SequenceCounter"}
CounterKinds  == {"SequenceCounter", "SequenceCounterReset"}
Kinds         == NextKinds \cup {"Alternatives", "AlternativesPossessive",
                                 "ConditionalElement", "SequenceCounter",
                                 "SubroutineLeave"}

(***************************************************************************)
(* UTF-8 (the conversions are LLVM's; only code points are used).          *)
(***************************************************************************)
Byte == 0..255

Utf8(c) ==
  CASE c < 128              -> <<c>>
    [] 128 <= c /\ c < 2048 -> <<192 + (c \div 64), 128 + (c % 64)>>
    [] 2048 <= c /\ c < 65536 ->
         <<224 + (c \div 4096), 128 + ((c \div 64) % 64), 128 + (c % 64)>>
    [] OTHER ->
         <<240 + (c \div 262144), 128 + ((c \div 4096) % 64),
           128 + ((c \div 64) % 64), 128 + (c % 64)>>

\* Surrogates are no characters, and Unicode ends at U+10FFFF.
ValidCode(c) == (0 <= c /\ c < 55296) \/ (57344 <= c /\ c <= 1114111)

\* How many bytes the character that begins with byte b should have.
LengthByLead(b) ==
  CASE b < 192 -> 1 [] 192 <= b /\ b < 224 -> 2 [] 224 <= b /\ b < 240 -> 3 [] OTHER -> 4

\* The code point the bytes b spell, if they spell one.
CodeOf(b) ==
  LET low(k) == b[k] % 64
  IN CASE Len(b) = 1 -> b[1]
       [] Len(b) = 2 -> (b[1] % 32) * 64 + low(2)
       [] Len(b) = 3 -> (b[1] % 16) * 4096 + low(2) * 64 + low(3)
       [] OTHER -> (b[1] % 8) * 262144 + low(2) * 4096 + low(3) * 64 + low(4)

\* The string ends inside the character at pos.
Truncated(str, pos) ==
  pos < Len(str) /\ pos + LengthByLead(str[pos + 1]) > Len(str)

IsPrefixAt(s, str, pos) ==
  pos + Len(s) <= Len(str) /\ SubSeq(str, pos + 1, pos + Len(s)) = s

(***************************************************************************)
(* ExtractCodePoint: the character at pos and the position after it.  One  *)
(* code point is asked for, but LLVM looks at the length of the next       *)
(* character before it notices that the output is full: a truncated        *)
(* character there fails the conversion too.                               *)
(***************************************************************************)
NoCode == [ok |-> FALSE, code |-> 0, pos |-> 0]

ExtractCodePoint(str, pos) ==
  IF pos >= Len(str) \/ Truncated(str, pos)
  THEN NoCode
  ELSE LET end   == pos + LengthByLead(str[pos + 1])
           bytes == SubSeq(str, pos + 1, end)
           code  == CodeOf(bytes)
       IN IF ValidCode(code) /\ Utf8(code) = bytes /\ ~Truncated(str, end)
          THEN [ok |-> TRUE, code |-> code, pos |-> end]
          ELSE NoCode

(***************************************************************************)
(* Utf32ToUtf8 on a zero-terminated buffer and Utf8ToUtf32: a conversion   *)
(* that meets something invalid has the empty string for result.           *)
(***************************************************************************)
Utf32ToUtf8(codes) ==
  LET zeros == { k \in DOMAIN codes : codes[k] = 0 }
      text  == SubSeq(codes, 1, IF zeros = {} THEN Len(codes) ELSE Min(zeros) - 1)
  IN IF \E k \in DOMAIN text : ~ValidCode(text[k]) THEN <<>>
     ELSE FlattenSeq([k \in DOMAIN text |-> Utf8(text[k])])

Continues(b) == b \in 128..191

\* The bytes of s are whole characters.
ValidUtf8(s) ==
  LET starts == { k \in DOMAIN s : ~Continues(s[k]) }
      endOf(k) == k + LengthByLead(s[k])
  IN /\ s # <<>> => 1 \in starts
     /\ \A k \in starts :
          /\ endOf(k) - 1 <= Len(s)
          /\ \A m \in k + 1 .. endOf(k) - 1 : m \notin starts
          /\ endOf(k) \in starts \cup {Len(s) + 1}
          /\ LET bytes == SubSeq(s, k, endOf(k) - 1)
             IN ValidCode(CodeOf(bytes)) /\ Utf8(CodeOf(bytes)) = bytes

Utf8ToUtf32(s) ==
  LET starts == SelectSeq([k \in DOMAIN s |-> k], LAMBDA k : ~Continues(s[k]))
  IN IF ~ValidUtf8(s) THEN <<>>
     ELSE [k \in DOMAIN starts |->
             CodeOf(SubSeq(s, starts[k], starts[k] + LengthByLead(s[starts[k]]) - 1))]

\* The first character of Utf8ToUtf32(s), as a set.
FrontCode(s) == LET codes == Utf8ToUtf32(s) IN IF codes = <<>> THEN {} ELSE {codes[1]}

(***************************************************************************)
(* What every graph satisfies: pointers lead to nodes and the fields have  *)
(* the types of RegexGraph.hpp.                                            *)
(***************************************************************************)
NodeOK(n, Ptr, Ids) ==
  /\ n.kind \in Kinds
  /\ n.kind \in NextKinds => n.next \in Ptr
  /\ n.kind = "SpecificSymbol" => n.code \in Nat
  /\ n.kind = "String" => n.str \in Seq(Byte)
  /\ n.kind = "OneOf" =>
       /\ n.variants \subseteq Nat
       /\ n.ranges \in Seq(Nat \X Nat)
       /\ n.inverse_flag \in BOOLEAN
  /\ n.kind = "Alternatives" => n.next \in Seq(Ptr)
  /\ n.kind = "AlternativesPossessive" =>
       /\ n.path0_element \in Ptr
       /\ n.path0_next \in Ptr
       /\ n.path1_next \in Ptr
  /\ n.kind \in GroupKinds => n.index \in Nat
  /\ n.kind \in LookKinds => n.look_graph \in Ptr /\ n.positive \in BOOLEAN
  /\ n.kind = "LookBehind" => n.size \in Nat
  /\ n.kind = "ConditionalElement" =>
       /\ n.condition_node \in Ptr
       /\ n.next_true \in Ptr
       /\ n.next_false \in Ptr
  /\ n.kind \in CounterKinds => n.id \in Ids
  /\ n.kind \in CountedKinds =>
       n.min_elements \in 0..SizeMax /\ n.max_elements \in 0..SizeMax
  /\ n.kind = "SequenceCounter" =>
       /\ n.next_iteration \in Ptr
       /\ n.next_sequence_end \in Ptr
       /\ n.greedy \in BOOLEAN
  /\ n.kind \in LoopKinds => n.sequence_element \in Ptr
  /\ n.kind = "FixedLengthElementSequence" => n.element_length \in Nat
  /\ n.kind = "AtomicGroup" => n.group_element \in Ptr
  /\ n.kind = "SubroutineEnter" => n.subroutine_node \in Ptr /\ n.index \in Nat
  /\ n.kind = "StateSave" =>
       /\ n.sequence_counters_to_save \subseteq Ids
       /\ n.groups_to_save \subseteq 0..(GroupSlots - 1)

GraphOK(g) ==
  LET Ptr == DOMAIN g.node \cup {nullptr}
  IN /\ nullptr \notin DOMAIN g.node
     /\ g.root \in Ptr
     /\ g.group_count \in Nat
     /\ \A p \in DOMAIN g.node : NodeOK(g.node[p], Ptr, g.used_sequence_counters)

\* No graph yet: an empty one.
NoGraph == [root |-> nullptr, node |-> <<>>, group_count |-> 0, used_sequence_counters |-> {}]

(***************************************************************************)
(* Continuations: the nodes that go on with the match node n is part of,   *)
(* as against the graphs of their own it asks about first, and the         *)
(* subroutine it calls.                                                    *)
(***************************************************************************)
ContinuationsOf(n) ==
  CASE n.kind = "Alternatives" -> ToSet(n.next)
    [] n.kind = "AlternativesPossessive" -> {n.path0_next, n.path1_next}
    [] n.kind = "ConditionalElement" -> {n.next_true, n.next_false}
    [] n.kind = "SequenceCounter" -> {n.next_iteration, n.next_sequence_end}
    [] n.kind = "SubroutineLeave" -> {}
    [] OTHER -> {n.next}

SubgraphsOf(n) ==
  CASE n.kind = "AlternativesPossessive" -> {n.path0_element}
    [] n.kind \in LookKinds -> {n.look_graph}
    [] n.kind = "ConditionalElement" -> {n.condition_node}
    [] n.kind \in LoopKinds -> {n.sequence_element}
    [] n.kind = "AtomicGroup" -> {n.group_element}
    [] OTHER -> {}

SubroutinesOf(n) == IF n.kind = "SubroutineEnter" THEN {n.subroutine_node} ELSE {}

\* The nodes reached from those of S in any number of steps.
ReachedFrom(g, S, Step(_)) ==
  LET more(T) == (UNION { {p} \cup Step(g.node[p]) : p \in T }) \ {nullptr}
      reach[n \in 0..Cardinality(DOMAIN g.node)] ==
        IF n = 0 THEN S \ {nullptr} ELSE more(reach[n - 1])
  IN reach[Cardinality(DOMAIN g.node)]

\* The nodes whose continuation comes to a SubroutineLeave: subroutine bodies.
BodyNodes(g) ==
  LET more(T) == T \cup { p \in DOMAIN g.node : ContinuationsOf(g.node[p]) \cap T # {} }
      reach[n \in 0..Cardinality(DOMAIN g.node)] ==
        IF n = 0 THEN { p \in DOMAIN g.node : g.node[p].kind = "SubroutineLeave" }
                 ELSE more(reach[n - 1])
  IN reach[Cardinality(DOMAIN g.node)]

\* Calls and graphs of their own are nested: a subroutine's body leads to
\* SubroutineLeave and never to the end of a graph, a graph of its own, and the
\* whole, to its end and never to a SubroutineLeave.
WellNested(g) ==
  LET body == BodyNodes(g)
  IN /\ body \subseteq DOMAIN g.node
     /\ g.root \notin body
     /\ \A p \in DOMAIN g.node :
          LET n == g.node[p]
          IN /\ SubgraphsOf(n) \cap body = {}
             /\ SubroutinesOf(n) \subseteq body
             /\ n.kind = "SubroutineLeave" => p \in body
             /\ IF p \in body THEN ContinuationsOf(n) \subseteq body
                             ELSE ContinuationsOf(n) \cap body = {}

\* StateSave, SubroutineEnter and StateRestore come together: there is no way
\* to a StateRestore but from the call its own StateSave leads to, and both
\* name the same groups and counters.
SavesPaired(g) ==
  LET restores == { p \in DOMAIN g.node : g.node[p].kind = "StateRestore" }
      calls    == { p \in DOMAIN g.node :
                      g.node[p].kind = "SubroutineEnter" /\ g.node[p].next \in restores }
  IN /\ g.root \notin restores \cup calls
     /\ \A p \in DOMAIN g.node :
          LET n     == g.node[p]
              leads == ContinuationsOf(n) \cup SubgraphsOf(n) \cup SubroutinesOf(n)
          IN /\ p \notin calls => leads \cap restores = {}
             /\ IF n.kind # "StateSave" THEN leads \cap calls = {}
                ELSE /\ n.next \in calls
                     /\ LET restore == g.node[g.node[n.next].next]
                        IN /\ restore.groups_to_restore = n.groups_to_save
                           /\ restore.sequence_counters_to_restore
                                = n.sequence_counters_to_save
             /\ p \in calls => n.subroutine_node \notin restores \cup calls

\* What a node stores in the State for nodes that come after it, where a group
\* begins or the counter of a sequence, and what it reads of that.
StoredBy(n) ==
  CASE n.kind = "GroupStart" -> {<<"group", n.index>>}
    [] n.kind = "SequenceCounterReset" -> {<<"counter", n.id>>}
    [] OTHER -> {}

ReadBy(n) ==
  CASE n.kind = "GroupEnd" -> {<<"group", n.index>>}
    [] n.kind = "SequenceCounter" -> {<<"counter", n.id>>}
    [] OTHER -> {}

\* The nodes some way leads to, from where the whole, a graph of its own or a
\* subroutine begins, on which x is not stored.
Entries(g) ==
  {g.root} \cup UNION { SubgraphsOf(g.node[p]) \cup SubroutinesOf(g.node[p]) :
                         p \in DOMAIN g.node }

Unstored(g, x) ==
  LET onwards(n) == IF x \in StoredBy(n) THEN {} ELSE ContinuationsOf(n)
  IN ReachedFrom(g, Entries(g), onwards)

\* Every way to a node that reads x stores it first; a subroutine and a graph of
\* its own rely on nothing that was stored before they began.
StoredFirst(g, x) ==
  LET unstored == Unstored(g, x)
  IN /\ Entries(g) \subseteq unstored \cup {nullptr}
     /\ \A p \in unstored \cap DOMAIN g.node :
          /\ x \notin ReadBy(g.node[p])
          /\ x \in StoredBy(g.node[p])
             \/ ContinuationsOf(g.node[p]) \subseteq unstored \cup {nullptr}

StoresFirst(g) == \A p \in DOMAIN g.node : \A x \in ReadBy(g.node[p]) : StoredFirst(g, x)

\* A loop with a fixed element length repeats one simple node on its own, and
\* everything that node can read has that length in UTF-8.  Characters between
\* the ends of a range lie between them in length.
LoopsExact(g) ==
  \A p \in DOMAIN g.node :
    g.node[p].kind = "FixedLengthElementSequence" =>
      LET n       == g.node[p]
          element == g.node[n.sequence_element]
      IN /\ n.sequence_element # nullptr
         /\ element.kind \in {"SpecificSymbol", "String", "OneOf"}
         /\ element.next = nullptr
         /\ element.kind = "SpecificSymbol" => Len(Utf8(element.code)) = n.element_length
         /\ element.kind = "String" => Len(element.str) = n.element_length
         /\ element.kind = "OneOf" =>
              /\ ~element.inverse_flag
              /\ \A c \in element.variants \cup UNION { {r[1], r[2]} : r \in ToSet(element.ranges) } :
                   Len(Utf8(c)) = n.element_length

\* A loop counts the elements it reads, and goes back by bytes: in a loop over
\* elements of one byte these are the same.
ByteLoops(g) ==
  \A p \in DOMAIN g.node :
    g.node[p].kind = "FixedLengthElementSequence" => g.node[p].element_length = 1
===========================================================================
