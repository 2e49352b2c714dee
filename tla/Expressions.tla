---------------------------- MODULE Expressions ----------------------------
(***************************************************************************)
(* Families of small expressions, and strings for them, for the instances  *)
(* that are model-checked.                                                 *)
(***************************************************************************)
EXTENDS RegexGraphBuilder

a  == SpecificSymbol(97)
b  == SpecificSymbol(98)
ab == OneOf({97, 98}, <<>>, FALSE)
notA == OneOf({97}, <<>>, TRUE)

From(positions, strings) == { [str |-> s, start_pos |-> p] : s \in strings, p \in positions }
Texts(alphabet, n) == UNION { [1..k -> alphabet] : k \in 0..n }

Plain     == [multiline |-> FALSE, extract_groups |-> TRUE]
Multiline == [multiline |-> TRUE, extract_groups |-> TRUE]
NoGroups  == [multiline |-> FALSE, extract_groups |-> FALSE]
With(options, chains) == { [chain |-> c, options |-> options] : c \in chains }

Opt(el)  == Repeat(el, 0, 1, "Greedy")
Star(el) == Repeat(el, 0, CMax, "Greedy")
Plus(el) == Repeat(el, 1, CMax, "Greedy")
In(mode, e) == [e EXCEPT !.mode = mode]
G(k, chain) == Once(Group(k, chain))
Seq1(el) == <<Once(el)>>
Either(chain1, chain2) == Once(NonCapturingGroup(<<Once(Alternatives(<<chain1, chain2>>))>>))

(***************************************************************************)
(* Every way to repeat, every pair of neighbours.                          *)
(***************************************************************************)
Firsts ==
  { Once(a), Once(AnySymbol), Once(notA), Opt(a), In("Lazy", Opt(a)), Star(a),
    In("Lazy", Star(ab)), Plus(ab), In("Lazy", Plus(a)), In("Possessive", Star(a)),
    Repeat(ab, 1, 2, "Greedy"), Repeat(a, 1, 2, "Lazy"), Repeat(ab, 1, 2, "Possessive"),
    Repeat(a, 2, CMax, "Greedy"),
    Once(LineStartAssertion), Once(LineEndAssertion),
    Either(<<Once(a), Once(b)>>, <<Once(a)>>), Either(<<Once(b)>>, <<Star(a)>>),
    Once(AtomicGroup(<<Star(a)>>)), G(1, <<Plus(ab)>>) }

Seconds == { Once(b), Once(a), Opt(b), Star(notA), Once(AnySymbol), In("Lazy", Star(a)),
             Either(<<Once(b)>>, <<Once(a), Once(a)>>), Once(LineEndAssertion) }

FamilyPatterns ==
  With(Plain, { <<x>> : x \in Firsts } \cup { <<x, y>> : x \in Firsts, y \in Seconds })
FamilySubjects == From({0}, Texts({97, 98}, 3))

(***************************************************************************)
(* Groups, references to them and calls of them.                           *)
(***************************************************************************)
Ref(k)  == BackReference(k)
Sub(k)  == SubroutineCall(k)

GroupChains ==
  { <<G(1, <<Opt(a), Opt(b)>>), Once(Ref(1))>>,
    <<Opt(Group(1, Seq1(a))), Once(b), Once(Ref(1))>>,
    <<Plus(Group(1, <<Opt(Group(2, Seq1(a))), Once(b)>>)), Once(Ref(2))>>,
    <<Once(Ref(1)), G(1, Seq1(ab)), Once(Ref(1))>>,
    \* calls without anything to save
    <<Once(a), Opt(Sub(0)), Once(b)>>,
    <<Once(Sub(1)), Once(a), G(1, <<Opt(b)>>)>>,
    <<Star(Group(1, <<Once(a), Opt(Sub(1)), Once(b)>>))>>,
    <<G(1, <<Once(a), Opt(Sub(2))>>), G(2, <<Once(b), Opt(Sub(1))>>)>>,
    \* inner groups, saved and restored
    <<G(1, <<G(2, Seq1(ab)), Opt(Sub(1)), Once(Ref(2))>>)>>,
    <<G(1, <<Either(<<G(2, Seq1(a))>>, Seq1(b)), Once(Ref(2))>>), In("Possessive", Star(Sub(1)))>>,
    <<Once(AtomicGroup(<<G(1, <<Opt(Group(2, Seq1(a))), Once(b)>>), Once(Sub(1))>>)), Star(a)>>,
    <<G(1, <<Star(Group(2, Seq1(a))), Once(b)>>), Once(Look(TRUE, TRUE, Seq1(Sub(1)))), Once(a)>>,
    <<G(1, <<G(2, Seq1(ab)), Opt(Sub(1))>>), Opt(Ref(2))>>,
    <<Either(<<G(1, <<Once(a), Opt(Sub(0))>>)>>, Seq1(b))>>,
    <<G(1, <<Once(a), Opt(Sub(0)), Once(b)>>)>>,
    <<G(1, <<G(2, <<Once(a), Opt(Sub(1)), Once(b)>>), Opt(Ref(2))>>)>>,
    \* counters inside a recursion
    <<G(1, <<Repeat(a, 1, 2, "Greedy"), Opt(Sub(1)), Once(b)>>)>>,
    <<Repeat(NonCapturingGroup(<<Once(a), Opt(Sub(0)), Once(b)>>), 1, 2, "Greedy")>>,
    <<Repeat(Group(1, <<Once(a), Repeat(Sub(1), 0, 2, "Lazy"), Once(b)>>), 2, 2, "Greedy")>> }

GroupPatterns == With(Plain, GroupChains) \cup With(NoGroups, GroupChains)
GroupSubjects == From({0}, Texts({97, 98}, 4))

(***************************************************************************)
(* Assertions, conditions, atomic groups, line breaks, nested repetitions. *)
(***************************************************************************)
Ahead(chain)     == Look(TRUE, TRUE, chain)
NotAhead(chain)  == Look(TRUE, FALSE, chain)
Behind(chain)    == Look(FALSE, TRUE, chain)
NotBehind(chain) == Look(FALSE, FALSE, chain)
If(look, yes, no) == Once(ConditionalElement(look, Alternatives(<<yes, no>>)))

LookChains ==
  { <<Once(Ahead(<<Once(a), Once(b)>>)), Star(ab)>>,
    <<Once(AnySymbol), Once(NotAhead(<<Star(a), Once(b)>>))>>,
    <<Once(Behind(Seq1(a))), Once(b)>>,
    <<Star(a), Once(NotBehind(<<Once(a), Once(a)>>)), Once(b)>>,
    <<G(1, <<Star(a)>>), Once(Behind(<<Once(Ahead(Seq1(b)))>>)), Once(b)>>,
    <<If(Ahead(Seq1(a)), <<Once(AnySymbol), Once(b)>>, <<Once(b), Opt(a)>>)>>,
    <<Once(AnySymbol), If(NotBehind(Seq1(a)), <<Star(b)>>, <<Plus(a)>>), Once(b)>>,
    <<Once(AtomicGroup(<<Either(Seq1(a), <<Once(a), Once(b)>>)>>)), Once(b)>>,
    <<Star(AtomicGroup(<<Either(<<Once(a), Once(b)>>, Seq1(a))>>)), Once(b)>>,
    <<Repeat(Either(Seq1(a), <<Once(a), Once(b)>>).el, 1, 2, "Greedy"), Once(b)>>,
    <<Repeat(Either(Seq1(a), <<Once(a), Once(b)>>).el, 1, 2, "Lazy"), Once(b)>>,
    <<Repeat(Either(Seq1(a), <<Once(a), Once(b)>>).el, 1, 2, "Possessive"), Once(b)>>,
    <<Repeat(NonCapturingGroup(<<Repeat(a, 1, 2, "Greedy"), Opt(b)>>), 2, 3, "Greedy")>> }
LookSubjects == From({0, 1}, Texts({97, 98}, 3))

LineChains ==
  { <<Once(LineStartAssertion), Plus(notA), Once(LineEndAssertion)>>,
    <<Star(ab), Once(LineEndAssertion), Once(AnySymbol), Once(LineStartAssertion)>> }
LinePatterns == With(Plain, LineChains) \cup With(Multiline, LineChains)
LookPatterns == With(Plain, LookChains) \cup LinePatterns
LineSubjects == From({0, 1}, Texts({97, 98, 10}, 3))

(***************************************************************************)
(* Text the optimizer joins and splits, some of its characters longer      *)
(* than a byte.                                                            *)
(***************************************************************************)
ya == SpecificSymbol(1103)   \* bytes 209 143
yu == SpecificSymbol(1102)   \* bytes 209 142
yaOrYu == OneOf({1102, 1103}, <<>>, FALSE)
notYa  == OneOf({1103}, <<>>, TRUE)

TextChains ==
  { <<Once(ya), Once(a)>>, <<Star(ya), Once(yu)>>, <<Star(ya), Once(yaOrYu), Once(a)>>,
    <<Star(yaOrYu), Once(ya), Once(a)>>,
    <<Star(yaOrYu), Once(yaOrYu)>>, <<Once(notYa), Star(ya)>>, <<Star(a), Once(ya)>>,
    <<Star(a), Once(ya), Once(a)>>, <<Plus(AnySymbol), Once(ya)>>,
    <<Either(<<Once(ya), Once(a)>>, <<Once(yu), Once(a)>>)>>,
    <<Either(<<Once(a), Once(ya)>>, <<Once(a), Once(yu)>>), Once(a)>>,
    <<Either(<<Once(ya)>>, <<Once(ya), Once(a)>>), Once(yu)>>,
    <<Star(Either(Seq1(a), Seq1(yu)).el), Once(a)>>,
    <<Star(OneOf({97, 1103}, <<>>, FALSE)), Once(a)>>,
    <<Once(Behind(Seq1(ya))), Once(a)>>,
    <<G(1, <<Once(ya), Opt(yu)>>), Once(Ref(1))>> }

TextPatterns == With(Plain, TextChains)

\* The bytes of some characters, and of texts of up to n of them.
aByte   == <<97>>
bByte   == <<98>>
yaBytes == <<209, 143>>
yuBytes == <<209, 142>>
Texts1(chars) == chars \cup {<<>>}
Texts2(chars) == { x \o y : x, y \in Texts1(chars) }
Texts3(chars) == { x \o y \o z : x, y, z \in Texts1(chars) }

TextSubjects ==
  From({0}, Texts3({aByte, yuBytes, yaBytes})
              \cup { <<209>>, <<97, 209>>, <<143, 97>>, <<209, 143, 209>> })

\* All of them, and what each is searched in.
Family(patterns, subjects) == [patterns |-> patterns, subjects |-> subjects]
SearchFamilies ==
  << Family(FamilyPatterns, FamilySubjects),
     Family(With(Plain, GroupChains), GroupSubjects),
     Family(With(NoGroups, GroupChains), FamilySubjects),
     Family(With(Plain, LookChains), LookSubjects),
     Family(LinePatterns, LineSubjects), Family(TextPatterns, TextSubjects) >>

(***************************************************************************)
(* Expressions the code does not treat as its comments say.                *)
(***************************************************************************)
\* (?:a[ab])* : the first of the two is matched, the second is not.
HalfwayPatterns == With(Plain, { <<Star(NonCapturingGroup(<<Once(a), Once(ab)>>))>> })
HalfwaySubjects == From({0}, Texts({97, 98}, 3))

\* (?:яa|юa)|[ю]b : the first two begin with the same byte, half a character.
SplitPatterns ==
  LET halves == Either(<<Once(ya), Once(a)>>, <<Once(yu), Once(a)>>)
      whole  == Once(OneOf({1102}, <<>>, FALSE))
  IN With(Plain, { <<Either(<<halves>>, <<whole, Once(b)>>)>> })
SplitSubjects == From({0}, Texts2({aByte, bByte, yuBytes, yaBytes}))

PossessiveFamilies ==
  << Family(HalfwayPatterns, HalfwaySubjects), Family(SplitPatterns, SplitSubjects) >>

(***************************************************************************)
(* For the generated functions, which are tested on strings that are not   *)
(* empty.                                                                  *)
(***************************************************************************)
\* ((?:(a)|b)\2)(?1)*+ : the call refers to a group it has not matched yet.
StaleGroupChain ==
  <<G(1, <<Either(<<G(2, Seq1(a))>>, Seq1(b)), Once(Ref(2))>>), In("Possessive", Star(Sub(1)))>>

AgreeingChains == GroupChains \ {StaleGroupChain}
NotEmpty(subjects) == { s \in subjects : s.start_pos < Len(s.str) }
BothSubjects == NotEmpty(FamilySubjects)

\* Text and classes that mean the same in bytes and in characters: no loop over
\* characters of two bytes of one length, no class that begins inside one.
classAfterAscii  == OneOf({97}, << <<1102, 1103>> >>, FALSE)
classOfTwoRanges == OneOf({}, << <<97, 98>>, <<1102, 1104>> >>, FALSE)
AgreeingTextChains ==
  { <<Once(ya), Once(a)>>, <<Star(ya), Once(yu)>>,
    <<Star(a), Once(ya), Once(a)>>, <<Plus(AnySymbol), Once(ya)>>,
    <<Either(<<Once(a), Once(ya)>>, <<Once(a), Once(yu)>>), Once(a)>>,
    <<Either(<<Once(ya)>>, <<Once(ya), Once(a)>>), Once(yu)>>,
    <<Star(Either(Seq1(a), Seq1(yu)).el), Once(a)>>,
    <<Star(OneOf({97, 1103}, <<>>, FALSE)), Once(a)>>,
    <<Once(Behind(Seq1(ya))), Once(a)>>, <<G(1, <<Once(ya), Opt(yu)>>), Once(Ref(1))>>,
    <<Once(classAfterAscii), Star(classOfTwoRanges), Once(ya)>>,
    <<In("Possessive", Repeat(classOfTwoRanges, 1, 2, "Greedy")), Once(classAfterAscii)>> }

BothTextPatterns == With(Plain, AgreeingTextChains)
BothTextSubjects == From({0}, Texts3({aByte, yuBytes, yaBytes}) \ {<<>>})

AgreeingFamilies ==
  << Family(With(Plain, AgreeingChains), NotEmpty(GroupSubjects)),
     Family(With(NoGroups, AgreeingChains), BothSubjects),
     Family(With(Plain, LookChains), NotEmpty(LookSubjects)),
     Family(LinePatterns, NotEmpty(LineSubjects)),
     Family(BothTextPatterns, BothTextSubjects) >>

(***************************************************************************)
(* Expressions for which the two ways to match differ.                     *)
(***************************************************************************)
StalePatterns == With(Plain, {StaleGroupChain})

\* [^ю] and b : not found inside a character, where the second byte would begin.
NotYuPatterns == With(Plain, { <<Once(OneOf({1102}, <<>>, TRUE)), Once(b)>> })
NotYuSubjects == From({0}, Texts2({aByte, bByte, yuBytes}) \ {<<>>})

\* a* where nothing is left of the string.
StarPatterns == With(Plain, { <<Star(a)>> })
EndSubjects  == From({0}, {<<>>}) \cup From({1}, {<<98>>})

\* [юя]*[юя], and a class of a letter of two bytes and the digits.
LoopPatterns  == With(Plain, { <<Star(yaOrYu), Once(yaOrYu)>> })
LoopSubjects  == From({0}, Texts3({aByte, yuBytes, yaBytes}) \ {<<>>})
ClassPatterns == With(Plain, { <<Once(OneOf({1103}, << <<48, 57>> >>, FALSE))>> })
ClassSubjects == From({0}, Texts3({aByte, <<79>>, yaBytes}) \ {<<>>})

DifferingFamilies ==
  << Family(ClassPatterns, ClassSubjects), Family(LoopPatterns, LoopSubjects),
     Family(StalePatterns, BothSubjects), Family(NotYuPatterns, NotYuSubjects),
     Family(StarPatterns, EndSubjects) >>

\* (?:a||) : the alternatives share their last node.
SharedLastPatterns ==
  With(Plain, { <<Once(NonCapturingGroup(<<Once(Alternatives(<<Seq1(a), <<>>, <<>> >>))>>))>> })
SharedLastFamilies == << Family(SharedLastPatterns, BothSubjects) >>
=============================================================================
