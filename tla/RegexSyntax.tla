---------------------------- MODULE RegexSyntax ----------------------------
(***************************************************************************)
(* What the text of an expression means, said without a parser: the parts  *)
(* an element is written with - texts, and chains between them - and the   *)
(* texts a chain can be read from.                                         *)
(***************************************************************************)
EXTENDS Parser, RegexTree

\* One text of each of the sets, one after the other.
Concatenations(sets) ==
  FoldLeft(LAMBDA texts, S : { t \o s : t \in texts, s \in S }, {<<>>}, sets)

Decimal(n) ==
  CASE n < 10  -> <<C["0"] + n>>
    [] n < 100 -> <<C["0"] + (n \div 10), C["0"] + (n % 10)>>
    [] OTHER   -> <<C["0"] + (n \div 100), C["0"] + ((n \div 10) % 10), C["0"] + (n % 10)>>
HexDigit(n) == IF n < 10 THEN C["0"] + n ELSE C["a"] + n - 10

\* A symbol that is special is escaped; one of the first 256 may be given by its
\* code.
PlainSpecial == { C[c] : c \in Special }
ClassSpecial == { C[c] : c \in {"]", "\\"} }
SymbolTexts(code, special) ==
  (IF code \in special THEN {} ELSE {<<code>>})
    \cup (IF code \in EscapedLiterals THEN {<<C["\\"], code>>} ELSE {})
    \cup (IF code < 256
          THEN { Codes(prefix) \o <<HexDigit(code \div 16), HexDigit(code % 16)>> :
                   prefix \in {<<"\\", "x">>, <<"\\", "u", "0", "0">>} }
          ELSE {})

\* The classes with a name.
Named(text, variants, ranges) == [text |-> text, variants |-> variants, ranges |-> ranges]
InnerClasses ==
  { Named(Codes(<<"\\", "d">>), {}, DigitRange), Named(Codes(<<"\\", "w">>), {C["_"]}, WordRanges),
    Named(Codes(<<"\\", "s">>), Spaces, << <<8192, 8202>> >>) }
NegatedClasses ==
  { Named(Codes(<<"\\", "D">>), {}, DigitRange), Named(Codes(<<"\\", "W">>), {C["_"]}, WordRanges),
    Named(Codes(<<"\\", "S">>), Spaces, << <<8192, 8202>> >>) }

ClassNames(el) ==
  { n.text : n \in { m \in IF el.inverse_flag THEN NegatedClasses ELSE InnerClasses :
                       m.variants = el.variants /\ m.ranges = el.ranges } }

\* Otherwise it is written in brackets: symbols, ranges and classes with a name.
ItemsOf(el) ==
  LET inner == InnerClasses \cup {Named(WordClass, {C["_"]}, WordRanges)}
      within(n) == n.variants \subseteq el.variants /\ ToSet(n.ranges) \subseteq ToSet(el.ranges)
  IN { Named(t, {c}, <<>>) : <<c, t>> \in
         UNION { {c} \X SymbolTexts(c, ClassSpecial) : c \in el.variants } }
     \cup { Named(t \o <<C["-"], r[2]>>, {}, <<r>>) : <<r, t>> \in
         UNION { {r} \X SymbolTexts(r[1], ClassSpecial) : r \in ToSet(el.ranges) } }
     \cup { n \in inner : within(n) }
ClassOpening(el) == Codes(<<"[">> \o IF el.inverse_flag THEN <<"^">> ELSE <<>>)

(***************************************************************************)
(* The parts of an element: sets of texts, classes, and chains.            *)
(***************************************************************************)
AnyText(texts) == [texts |-> texts]
Text(strings)  == AnyText({Codes(strings)})
Class(el)      == [class |-> el]
Inner(chain)   == [chain |-> chain]

LookOpening(look) ==
  Text(<<"(", "?">> \o (IF look.forward THEN <<>> ELSE <<"<">>)
                    \o (IF look.positive THEN <<"=">> ELSE <<"!">>))

\* Alternatives are all that is in their chain, and none of them is more of them.
HasBars(chain) == \E k \in DOMAIN chain : chain[k].el.kind = "Alternatives"
Barred(chains) ==
  [k \in 1..(2 * Len(chains) - 1) |->
     IF k % 2 = 0 THEN Text(<<"|">>)
     ELSE LET chain == chains[(k + 1) \div 2]
          IN IF HasBars(chain) THEN AnyText({}) ELSE Inner(chain)]

PartsOf(el) ==
  LET closed(open) == <<open, Inner(el.elements), Text(<<")">>)>>
  IN CASE el.kind = "AnySymbol"          -> <<Text(<<".">>)>>
       [] el.kind = "LineStartAssertion" -> <<Text(<<"^">>)>>
       [] el.kind = "LineEndAssertion"   -> <<Text(<<"$">>)>>
       [] el.kind = "SpecificSymbol" -> <<AnyText(SymbolTexts(el.code, PlainSpecial))>>
       [] el.kind = "OneOf"          -> <<Class(el)>>
       [] el.kind = "BackReference"  -> <<AnyText({<<C["\\"]>> \o Decimal(el.index)})>>
       [] el.kind = "SubroutineCall" ->
            <<Text(<<"(", "?">>),
              AnyText({Decimal(el.index)} \cup IF el.index = 0 THEN {<<C["R"]>>} ELSE {}),
              Text(<<")">>)>>
       [] el.kind = "Group"             -> closed(Text(<<"(">>))
       [] el.kind = "NonCapturingGroup" -> closed(Text(<<"(", "?", ":">>))
       [] el.kind = "AtomicGroup"       -> closed(Text(<<"(", "?", ">">>))
       [] el.kind = "Look"              -> closed(LookOpening(el))
       [] el.kind = "Alternatives"      -> Barred(el.alternatives)
       [] el.kind = "ConditionalElement" ->
            <<Text(<<"(", "?">>), LookOpening(el.look), Inner(el.look.elements), Text(<<")">>)>>
              \o Barred(el.alternatives.alternatives) \o <<Text(<<")">>)>>

\* The texts of a repetition, and the symbols that would be a part of it.
RepetitionTexts(e) ==
  LET min  == e.min_elements
      max  == e.max_elements
      short == { s \in {<<"?", 0, 1>>, <<"*", 0, SizeMax>>, <<"+", 1, SizeMax>>} :
                   s[2] = min /\ s[3] = max }
      least == {Decimal(min)} \cup IF min = 0 THEN {<<>>} ELSE {}
      most  == {Decimal(max)} \cup IF max = SizeMax THEN {<<>>} ELSE {}
      inside == (IF min = max THEN least ELSE {})
                  \cup Concatenations(<<least, {Codes(<<",">>)}, most>>)
      counts == { Codes(<<s[1]>>) : s \in short }
                  \cup Concatenations(<<{Codes(<<"{">>)}, inside, {Codes(<<"}">>)}>>)
      mode == CASE e.mode = "Lazy" -> <<"?">> [] e.mode = "Possessive" -> <<"+">> [] OTHER -> <<>>
  IN Concatenations(<<counts, {Codes(mode)}>>)
       \cup IF <<min, max, e.mode>> = <<1, 1, "Greedy">> THEN {<<>>} ELSE {}

GoesOn(text, mode, p) ==
  \/ text = <<>> /\ \E c \in {"*", "+", "?", "{"} : Sees(p, c)
  \/ text # <<>> /\ mode = "Greedy" /\ (Sees(p, "?") \/ Sees(p, "+"))

-----------------------------------------------------------------------------
(***************************************************************************)
(* Reading: where in the pattern a chain, an element or a part of it can   *)
(* end that begins at one of the positions.                                *)
(***************************************************************************)
TextEnds(positions, texts) ==
  UNION { { p + Len(t) : t \in { u \in texts : SeesText(p, u) } } : p \in positions }

\* Items of the class lead from p to the bracket, and all of them are there.
ClassEnds(p, el) ==
  LET items == ItemsOf(el)
      first == p + Len(ClassOpening(el))
      ended(q) == { n \in items : q - Len(n.text) >= first /\ SeesText(q - Len(n.text), n.text) }
      reached[q \in first..Len(str)] ==
        q = first \/ \E n \in ended(q) : reached[q - Len(n.text)]
      all_there(q) == LET there == UNION { ended(m) : m \in first..q }
                      IN /\ UNION { n.variants : n \in there } = el.variants
                         /\ UNION { ToSet(n.ranges) : n \in there } = ToSet(el.ranges)
  IN IF ~SeesText(p, ClassOpening(el)) THEN {}
     ELSE { q + 1 : q \in { m \in first..Len(str) :
                               Sees(m, "]") /\ reached[m] /\ all_there(m) } }

RECURSIVE ChainEnds(_, _)
ElementEnds(positions, e) ==
  LET parts == PartsOf(e.el)
      part_ends(ps, part) ==
        CASE "texts" \in DOMAIN part -> TextEnds(ps, part.texts)
          [] "chain" \in DOMAIN part -> ChainEnds(ps, part.chain)
          [] "class" \in DOMAIN part ->
               LET names == ClassNames(part.class)
               IN TextEnds(ps, names)
                    \cup TextEnds(ps, Concatenations(<<{Codes(<<"[">>)}, names, {Codes(<<"]">>)}>>))
                    \cup UNION { ClassEnds(p, part.class) : p \in ps }
      ends == FoldLeft(part_ends, positions, parts)
      repetition == RepetitionTexts(e)
  IN UNION { { p \in TextEnds(ends, {t}) : ~GoesOn(t, e.mode, p) } :
               t \in IF e.el.kind = "Alternatives" THEN {<<>>} ELSE repetition }
ChainEnds(positions, chain) ==
  IF HasBars(chain) /\ Len(chain) > 1 THEN {} ELSE FoldLeft(ElementEnds, positions, chain)

Reads(chain) == Len(str) \in ChainEnds({0}, chain)

(***************************************************************************)
(* Writing: the shortest text.                                             *)
(***************************************************************************)
Shortest(texts) == CHOOSE t \in texts : \A u \in texts : Len(t) <= Len(u)

WrittenClass(el) ==
  LET variants == SetToSeq(el.variants)
      written(c) == Shortest(SymbolTexts(c, ClassSpecial))
  IN ClassOpening(el)
       \o FlattenSeq([k \in DOMAIN variants |-> written(variants[k])])
       \o FlattenSeq([k \in DOMAIN el.ranges |->
                        written(el.ranges[k][1]) \o <<C["-"], el.ranges[k][2]>>])
       \o Codes(<<"]">>)

RECURSIVE Written(_)
Written(chain) ==
  FlattenSeq([k \in DOMAIN chain |->
    LET parts == PartsOf(chain[k].el)
    IN FlattenSeq([j \in DOMAIN parts |->
         CASE "texts" \in DOMAIN parts[j] -> Shortest(parts[j].texts)
           [] "chain" \in DOMAIN parts[j] -> Written(parts[j].chain)
           [] "class" \in DOMAIN parts[j] -> WrittenClass(parts[j].class)])
       \o Shortest(RepetitionTexts(chain[k]))])

\* The indices of the groups of a chain in the order of their brackets.
RECURSIVE GroupOrder(_)
GroupOrder(chain) ==
  FlattenSeq([k \in DOMAIN chain |->
    LET el == chain[k].el
    IN (IF el.kind = "Group" THEN <<el.index>> ELSE <<>>)
         \o FlattenSeq([j \in DOMAIN ChainsOf(el) |-> GroupOrder(ChainsOf(el)[j])])])

-----------------------------------------------------------------------------
(***************************************************************************)
(* Properties.                                                             *)
(***************************************************************************)
\* A pattern that is parsed without an error could be read as the chain that is
\* returned, with every symbol used, and every repetition, alternative and
\* bracket where it belongs.
Faithful == pc = "done" /\ result.errors = <<>> => Reads(result.chain)

\* Groups have the numbers of their brackets, whatever is open, whatever has
\* been put into alternatives that were begun before.
GroupsOf(frame) ==
  (IF frame.for = "Group" THEN <<frame.info.index>> ELSE <<>>)
    \o (IF frame.for = "ConditionalElement" THEN GroupOrder(frame.info.look.elements) ELSE <<>>)
    \o GroupOrder(frame.chain)
GroupsInOrder ==
  pc \in {"chain", "one_of", "returned"} /\ errors = <<>> =>
    LET frames == stack \o (IF pc = "returned" THEN <<returned>> ELSE <<>>)
    IN FlattenSeq([k \in DOMAIN frames |-> GroupsOf(frames[k])])
         = [k \in 1..(next_group_index - 1) |-> k]
=============================================================================
