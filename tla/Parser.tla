------------------------------- MODULE Parser -------------------------------
(***************************************************************************)
(* The recursive descent parser of Parser.cpp, with its recursion made     *)
(* explicit: "stack" holds one frame for every ParseChain that runs, with  *)
(* its local chain and what its caller keeps meanwhile.                    *)
(*                                                                         *)
(* str_ is what is left of the pattern, a sequence of code points, after   *)
(* "pos".  The parser goes on after most errors; what it returns then is   *)
(* the errors, of which only the positions are kept here.                  *)
(***************************************************************************)
EXTENDS RegexElements

CONSTANT PatternTexts   \* the patterns, in UTF-8

ASSUME PatternTextsAssumption == \A text \in PatternTexts : Utf8ToUtf32(text) \in Seq(Nat)

VARIABLES
  str,                \* the pattern
  pos,                \* how much of it has been removed from str_
  next_group_index,
  errors,             \* their positions
  pc,                 \* "idle", "chain" (the loop of ParseChain), "one_of" (that
                      \* of ParseOneOf), "returned" (from ParseChain), "done"
  stack,
  one_of,             \* the local of ParseOneOf
  returned,           \* the frame that has just returned
  result              \* what ParseRegexString returns

vars == <<str, pos, next_group_index, errors, pc, stack, one_of, returned, result>>

(***************************************************************************)
(* Characters: C["("] is the code point of "(".                            *)
(***************************************************************************)
Ascii ==
  <<" ", "!", "\"", "#", "$", "%", "&", "'", "(", ")", "*", "+", ",", "-", ".", "/",
    "0", "1", "2", "3", "4", "5", "6", "7", "8", "9", ":", ";", "<", "=", ">", "?",
    "@", "A", "B", "C", "D", "E", "F", "G", "H", "I", "J", "K", "L", "M", "N", "O",
    "P", "Q", "R", "S", "T", "U", "V", "W", "X", "Y", "Z", "[", "\\", "]", "^", "_",
    "grave accent", "a", "b", "c", "d", "e", "f", "g", "h", "i", "j", "k", "l", "m", "n", "o",
    "p", "q", "r", "s", "t", "u", "v", "w", "x", "y", "z", "{", "|", "}", "~">>
C == [s \in ToSet(Ascii) |-> 31 + (CHOOSE k \in DOMAIN Ascii : Ascii[k] = s)]
Codes(strings) == [k \in DOMAIN strings |-> C[strings[k]]]

IsDigit(c)  == C["0"] <= c /\ c <= C["9"]
Digit(c)    == c - C["0"]
HexDigits   == [c \in (C["0"]..C["9"]) \cup (C["a"]..C["f"]) \cup (C["A"]..C["F"]) |->
                 CASE c <= C["9"] -> c - C["0"]
                   [] c >= C["a"] -> c - C["a"] + 10
                   [] OTHER -> c - C["A"] + 10]

-----------------------------------------------------------------------------
EmptyAt(p)    == p >= Len(str)
Symbol(p)     == str[p + 1]
Sees(p, c)    == ~EmptyAt(p) /\ Symbol(p) = C[c]
SeesText(p, text) == IsPrefixAt(text, str, p)

NoClass == OneOf({}, <<>>, FALSE)
NoFrame == [for |-> "none", chain |-> <<>>, info |-> <<>>]

Init ==
  /\ str = <<>> /\ pos = 0
  /\ next_group_index = 0
  /\ errors = <<>>
  /\ pc = "idle"
  /\ stack = <<>>
  /\ one_of = NoClass
  /\ returned = NoFrame
  /\ result = [chain |-> <<>>, errors |-> <<>>]

\* A ParseChain called for something: the whole pattern, what follows a "|", or
\* the inside of a bracket, of which the caller keeps some info.
ChainFrame(for, info) == [for |-> for, chain |-> <<>>, info |-> info]
NoInfo == <<>>

\* ParseRegexString(text).  A text that is not UTF-8 becomes the empty pattern.
Parse(text) ==
  /\ str' = Utf8ToUtf32(text)
  /\ next_group_index' = 1
  /\ pc' = "chain"
  /\ stack' = <<ChainFrame("Parse", NoInfo)>>
  /\ UNCHANGED <<pos, errors, one_of, returned, result>>

(***************************************************************************)
(* The ways a step ends.                                                   *)
(***************************************************************************)
Caller  == Last(stack)
Callers == Front(stack)

\* ParseChain is called, at p, with all there is on the stack below it.
EnterChain(p, errs, frame) ==
  /\ pc' = "chain"
  /\ pos' = p
  /\ errors' = errs
  /\ stack' = Append(stack, frame)
  /\ UNCHANGED <<str, one_of, returned, result>>

\* ParseChain returns chain.
ReturnChain(p, errs, chain) ==
  /\ pc' = "returned"
  /\ pos' = p
  /\ errors' = errs
  /\ returned' = [Caller EXCEPT !.chain = chain]
  /\ stack' = Callers
  /\ UNCHANGED <<str, next_group_index, one_of, result>>

\* An error is reported at p, and ParseChain returns what it has.
Fail(p) == ReturnChain(p, Append(errors, p), Caller.chain)

\* A number of size_t, and where it ends.
NumberEnd(p) ==
  CHOOSE q \in p..Len(str) :
    /\ \A k \in p..(q - 1) : IsDigit(Symbol(k))
    /\ q < Len(str) => ~IsDigit(Symbol(q))
Number(p) ==
  FoldLeft(LAMBDA n, c : Wrap(10 * n + Digit(c)), 0, SubSeq(str, p + 1, NumberEnd(p)))

\* A fault: the symbol of the mode is not removed.
ModeAtKept(p) ==
  CASE Sees(p, "?") -> [mode |-> "Lazy", pos |-> p]
    [] Sees(p, "+") -> [mode |-> "Possessive", pos |-> p]
    [] OTHER        -> [mode |-> "Greedy", pos |-> p]

\* ParseSequenceMode.
ModeAt(p) ==
  CASE Sees(p, "?") -> [mode |-> "Lazy", pos |-> p + 1]
    [] Sees(p, "+") -> [mode |-> "Possessive", pos |-> p + 1]
    [] OTHER        -> [mode |-> "Greedy", pos |-> p]

\* ParseSequence at p: the repetition, where it ends, and where an error is
\* (a sequence of at most one).
Repetition(min, max, p) ==
  [min |-> min, max |-> max, mode |-> ModeAt(p).mode, pos |-> ModeAt(p).pos, error |-> <<>>]
Broken(min, max, p) ==
  [min |-> min, max |-> max, mode |-> "Greedy", pos |-> p, error |-> <<p>>]

\* {min}, {min,} or {min,max} from after the brace; without digits min is 0.
Braces(p) ==
  LET min       == Number(p)
      after_min == NumberEnd(p)
      p_max     == after_min + 1
      max       == CASE ~Sees(after_min, ",") -> min
                     [] Sees(after_min, ",") /\ NumberEnd(p_max) > p_max -> Number(p_max)
                     [] OTHER -> SizeMax
      after_max == IF Sees(after_min, ",") THEN NumberEnd(p_max) ELSE after_min
  IN CASE EmptyAt(after_min) -> Broken(min, 1, after_min)
       [] ~EmptyAt(after_min) /\ Sees(after_max, "}") -> Repetition(min, max, after_max + 1)
       [] OTHER -> Broken(min, max, after_max)

OneOrMore(p)   == Repetition(1, SizeMax, p)
AnyNumber(p)   == Repetition(0, SizeMax, p)
AtMostOne(p)   == Repetition(0, 1, p)
NotRepeated(p) == [min |-> 1, max |-> 1, mode |-> "Greedy", pos |-> p, error |-> <<>>]

ParseSequence(p) ==
  CASE Sees(p, "+") -> OneOrMore(p + 1)
    [] Sees(p, "*") -> AnyNumber(p + 1)
    [] Sees(p, "?") -> AtMostOne(p + 1)
    [] Sees(p, "{") -> Braces(p + 1)
    [] OTHER -> NotRepeated(p)

\* The end of the loop of ParseChain: el ends at p, its repetition is parsed, and
\* it is the next of the chain of the frame on top.
PushElement(el, p, errs) ==
  LET seq == ParseSequence(p)
  IN /\ pc' = "chain"
     /\ pos' = seq.pos
     /\ errors' = errs \o seq.error
     /\ stack' = Append(Callers, [Caller EXCEPT !.chain =
                   Append(@, Repeat(el, seq.min, seq.max, seq.mode))])
     /\ one_of' = NoClass
     /\ returned' = NoFrame
     /\ UNCHANGED <<str, next_group_index, result>>

-----------------------------------------------------------------------------
(***************************************************************************)
(* The loop of ParseChain: elements without a chain of their own.          *)
(***************************************************************************)
InChain(c) == pc = "chain" /\ Sees(pos, c)

EndOfChain ==
  /\ pc = "chain"
  /\ EmptyAt(pos) \/ Sees(pos, ")")
  /\ ReturnChain(pos, errors, Caller.chain)

Special == {"|", "(", ")", ".", "^", "$", "[", "\\"}

SimpleElement ==
  \/ InChain(".") /\ PushElement(AnySymbol, pos + 1, errors)
  \/ InChain("^") /\ PushElement(LineStartAssertion, pos + 1, errors)
  \/ InChain("$") /\ PushElement(LineEndAssertion, pos + 1, errors)

\* Everything else stands for itself, a "*" without an element before it too.
LiteralSymbol ==
  /\ pc = "chain"
  /\ ~EmptyAt(pos)
  /\ \A c \in Special : ~Sees(pos, c)
  /\ PushElement(SpecificSymbol(Symbol(pos)), pos + 1, errors)

\* ParseEscapeSequence at p, behind the backslash.
Escaped(el, p) == [el |-> el, pos |-> p, error |-> <<>>]
NoEscape(p)    == [el |-> AnySymbol, pos |-> p, error |-> <<p>>]

EscapedLiterals ==
  { C[c] : c \in {"[", "]", "{", "}", "(", ")", "^", "$", ".", "*", "+", "|", "?", "\\", "/"} }
DigitRange == << <<C["0"], C["9"]>> >>
WordRanges == << <<C["a"], C["z"]>>, <<C["A"], C["Z"]>> >> \o DigitRange
Spaces     == {32, 13, 10, 9, 12, 11, 160, 5760, 8232, 8233, 8239, 12288, 65279}

\* \d, \w and \s, inverted when they are in capitals.
DigitClass(c) == OneOf({}, DigitRange, c = C["D"])
WordCharacterClass(c) == OneOf({C["_"]}, WordRanges, c = C["W"])
SpaceClass(c) == OneOf(Spaces, << <<8192, 8202>> >>, c = C["S"])

HexCode(digits) == FoldLeft(LAMBDA n, c : 16 * n + HexDigits[c], 0, digits)

HexEscape(p, count) ==
  LET digits == SubSeq(str, p + 1, p + count)
  IN IF Len(str) - p < count \/ ~(ToSet(digits) \subseteq DOMAIN HexDigits) THEN NoEscape(p)
     ELSE Escaped(SpecificSymbol(HexCode(digits)), p + count)

ParseEscapeSequence(p) ==
  IF EmptyAt(p) THEN NoEscape(p)
  ELSE LET c == Symbol(p)
           is(lower, upper) == c \in {C[lower], C[upper]}
       IN CASE c \in EscapedLiterals -> Escaped(SpecificSymbol(c), p + 1)
            [] is("d", "D") -> Escaped(DigitClass(c), p + 1)
            [] is("w", "W") -> Escaped(WordCharacterClass(c), p + 1)
            [] is("s", "S") -> Escaped(SpaceClass(c), p + 1)
            [] c = C["x"] -> HexEscape(p + 1, 2)
            [] c = C["u"] -> HexEscape(p + 1, 4)
            [] IsDigit(c) /\ c # C["0"] -> Escaped(BackReference(Digit(c)), p + 1)
            [] OTHER -> NoEscape(p + 1)

EscapeSequence ==
  /\ InChain("\\")
  /\ LET escape == ParseEscapeSequence(pos + 1)
     IN PushElement(escape.el, escape.pos, errors \o escape.error)

(***************************************************************************)
(* ParseOneOf: the loop over the items of a class.                         *)
(***************************************************************************)
OpenClass ==
  /\ InChain("[")
  /\ LET inverse == Sees(pos + 1, "^")
     IN /\ one_of' = OneOf({}, <<>>, inverse)
        /\ pos' = IF inverse THEN pos + 2 ELSE pos + 1
  /\ pc' = "one_of"
  /\ UNCHANGED <<str, next_group_index, errors, stack, returned, result>>

NextItem(class, p, errs) ==
  /\ one_of' = class
  /\ pos' = p
  /\ errors' = errs
  /\ UNCHANGED <<str, next_group_index, pc, stack, returned, result>>

CloseClass ==
  /\ pc = "one_of"
  /\ \/ EmptyAt(pos) /\ PushElement(one_of, pos, Append(errors, pos))
     \/ Sees(pos, "]") /\ PushElement(one_of, pos + 1, errors)

WordClass == Codes(<<"[", ":", "w", "o", "r", "d", ":", "]">>)

\* The class with one more, or with all of another.
WithSymbol(class, c)       == [class EXCEPT !.variants = @ \cup {c}]
WithRange(class, from, to) == [class EXCEPT !.ranges = Append(@, <<from, to>>)]
WithAll(class, other) ==
  [class EXCEPT !.variants = @ \cup other.variants, !.ranges = @ \o other.ranges]

\* "^" before the word class inverts the whole class.
ClassWord ==
  /\ pc = "one_of"
  /\ LET with_word == WithAll(one_of, OneOf({C["_"]}, WordRanges, FALSE))
     IN \/ /\ SeesText(pos, WordClass)
           /\ NextItem(with_word, pos + Len(WordClass), errors)
        \/ /\ Sees(pos, "^") /\ SeesText(pos + 1, WordClass)
           /\ NextItem([with_word EXCEPT !.inverse_flag = TRUE],
                       pos + 1 + Len(WordClass), errors)

\* A fault: the symbol is not removed.
SymbolOrRangeKept(c, p, errs) == NextItem(WithSymbol(one_of, c), p - 1, errs)

\* A symbol c that ends at p, or the range it begins.  The end of a range is the
\* next symbol, whatever it is.
SymbolOrRange(c, p, errs) ==
  CASE EmptyAt(p) -> PushElement(one_of, p, Append(errs, p))
    [] Sees(p, "-") /\ EmptyAt(p + 1) -> PushElement(one_of, p + 1, Append(errs, p + 1))
    [] Sees(p, "-") /\ ~EmptyAt(p + 1) ->
         LET end_c == Symbol(p + 1)
         IN NextItem(WithRange(one_of, c, end_c), p + 2,
                     IF end_c < c THEN Append(errs, p + 1) ELSE errs)
    [] OTHER -> NextItem(WithSymbol(one_of, c), p, errs)

AtItem ==
  /\ pc = "one_of"
  /\ ~EmptyAt(pos) /\ ~Sees(pos, "]")
  /\ ~SeesText(pos, WordClass)
  /\ ~(Sees(pos, "^") /\ SeesText(pos + 1, WordClass))

ClassSymbol ==
  /\ AtItem
  /\ ~Sees(pos, "\\")
  /\ SymbolOrRange(Symbol(pos), pos + 1, errors)

\* A class inside the class: its own inverse_flag replaces that of the whole.
ClassEscape ==
  /\ AtItem
  /\ Sees(pos, "\\")
  /\ LET escape == ParseEscapeSequence(pos + 1)
         el     == escape.el
         errs   == errors \o escape.error
     IN CASE el.kind = "SpecificSymbol" -> SymbolOrRange(el.code, escape.pos, errs)
          [] el.kind = "OneOf" ->
               NextItem([WithAll(one_of, el) EXCEPT !.inverse_flag = el.inverse_flag],
                        escape.pos, errs)
          [] OTHER -> SymbolOrRange(C["\\"], escape.pos, Append(errs, escape.pos))

-----------------------------------------------------------------------------
(***************************************************************************)
(* Brackets.                                                               *)
(***************************************************************************)
\* A fault: the next group gets the same number.
OpenGroupNotCounted ==
  /\ InChain("(")
  /\ ~EmptyAt(pos + 1) /\ ~Sees(pos + 1, "?")
  /\ EnterChain(pos + 1, errors, ChainFrame("Group", [index |-> next_group_index]))
  /\ UNCHANGED next_group_index

OpenGroup ==
  /\ InChain("(")
  /\ ~EmptyAt(pos + 1) /\ ~Sees(pos + 1, "?")
  /\ EnterChain(pos + 1, errors, ChainFrame("Group", [index |-> next_group_index]))
  /\ next_group_index' = next_group_index + 1

\* Nothing after "(" or "(?".
OpenNothing ==
  /\ InChain("(")
  /\ \/ EmptyAt(pos + 1) /\ Fail(pos + 1)
     \/ Sees(pos + 1, "?") /\ EmptyAt(pos + 2) /\ Fail(pos + 2)

AtQuestion == InChain("(") /\ Sees(pos + 1, "?") /\ ~EmptyAt(pos + 2)

\* (?R) and (?1), with one digit.
ParseSubroutineCall ==
  /\ AtQuestion
  /\ Sees(pos + 2, "R") \/ IsDigit(Symbol(pos + 2))
  /\ LET index == IF Sees(pos + 2, "R") THEN 0 ELSE Digit(Symbol(pos + 2))
     IN IF Sees(pos + 3, ")") THEN PushElement(SubroutineCall(index), pos + 4, errors)
                              ELSE Fail(pos + 3)

OpenNonCapturingGroup ==
  /\ AtQuestion /\ Sees(pos + 2, ":")
  /\ EnterChain(pos + 3, errors, ChainFrame("NonCapturingGroup", NoInfo))
  /\ UNCHANGED next_group_index

OpenAtomicGroup ==
  /\ AtQuestion /\ Sees(pos + 2, ">")
  /\ EnterChain(pos + 3, errors, ChainFrame("AtomicGroup", NoInfo))
  /\ UNCHANGED next_group_index

\* ParseLook has returned at p, to a "(?" or to the condition of a "(?(?".
LookParsed(for, look, p, errs) ==
  IF for = "Look" THEN PushElement(look, p, errs)
  ELSE /\ EnterChain(p, errs, ChainFrame("ConditionalElement", [look |-> look]))
       /\ UNCHANGED next_group_index

\* ParseLook at p, up to its chain.
ParseLook(for, p) ==
  LET forward == ~Sees(p, "<")
      q       == IF forward THEN p ELSE p + 1
  IN IF Sees(q, "=") \/ Sees(q, "!")
     THEN /\ EnterChain(q + 1, errors,
                        ChainFrame(for, [forward |-> forward, positive |-> Sees(q, "=")]))
          /\ UNCHANGED next_group_index
     ELSE LookParsed(for, Look(forward, TRUE, <<>>), q, Append(errors, q))

AtCondition == SeesText(pos + 2, Codes(<<"(", "?">>))

OpenConditionalElement == AtQuestion /\ AtCondition /\ ParseLook("Condition", pos + 4)

OpenLook ==
  /\ AtQuestion
  /\ \A c \in {"R", ":", ">"} : ~Sees(pos + 2, c)
  /\ ~IsDigit(Symbol(pos + 2)) /\ ~AtCondition
  /\ ParseLook("Look", pos + 2)

\* A fault: the bar is not removed.
OpenAlternativeKept ==
  /\ InChain("|")
  /\ EnterChain(pos, errors, ChainFrame("|", NoInfo))
  /\ UNCHANGED next_group_index

\* The rest of the chain is parsed as a chain of its own.
OpenAlternative ==
  /\ InChain("|")
  /\ EnterChain(pos + 1, errors, ChainFrame("|", NoInfo))
  /\ UNCHANGED next_group_index

-----------------------------------------------------------------------------
(***************************************************************************)
(* ParseChain has returned.                                                *)
(***************************************************************************)
ReturnedTo(for) == pc = "returned" /\ returned.for = for

\* A fault: the bracket is not looked for.
CloseUnchecked(el) == PushElement(el, pos + 1, errors)

\* The element el of the returned chain, if the bracket is closed.
Close(el) == IF Sees(pos, ")") THEN PushElement(el, pos + 1, errors) ELSE Fail(pos)

CloseGroup ==
  ReturnedTo("Group") /\ Close(Group(returned.info.index, returned.chain))
CloseNonCapturingGroup ==
  ReturnedTo("NonCapturingGroup") /\ Close(NonCapturingGroup(returned.chain))
CloseAtomicGroup ==
  ReturnedTo("AtomicGroup") /\ Close(AtomicGroup(returned.chain))

\* An unclosed look is empty.
CloseLook ==
  /\ ReturnedTo("Look") \/ ReturnedTo("Condition")
  /\ LET look(chain) == Look(returned.info.forward, returned.info.positive, chain)
     IN IF Sees(pos, ")")
        THEN LookParsed(returned.for, look(returned.chain), pos + 1, errors)
        ELSE LookParsed(returned.for, look(<<>>), pos, Append(errors, pos))

IsAlternatives(chain) == Len(chain) = 1 /\ chain[1].el.kind = "Alternatives"

CloseConditionalElement ==
  /\ ReturnedTo("ConditionalElement")
  /\ LET chain == returned.chain
     IN CASE ~Sees(pos, ")") -> Fail(pos)
          [] Sees(pos, ")") /\ IsAlternatives(chain) /\ Len(chain[1].el.alternatives) = 2 ->
               PushElement(ConditionalElement(returned.info.look, chain[1].el), pos + 1, errors)
          [] OTHER -> Fail(pos + 1)

\* A fault: the alternatives behind the next "|" stay one alternative.
CloseAlternativeNested ==
  /\ ReturnedTo("|")
  /\ ReturnChain(pos, errors, <<Once(Alternatives(<<Caller.chain, returned.chain>>))>>)

\* What came before the "|" is the first of all alternatives.
CloseAlternative ==
  /\ ReturnedTo("|")
  /\ LET rest == returned.chain
     IN ReturnChain(pos, errors,
          IF IsAlternatives(rest)
          THEN <<[rest[1] EXCEPT !.el.alternatives = <<Caller.chain>> \o @]>>
          ELSE <<Once(Alternatives(<<Caller.chain, rest>>))>>)

ParseResult ==
  /\ ReturnedTo("Parse")
  /\ pc' = "done"
  /\ LET errs == IF ~EmptyAt(pos) /\ errors = <<>> THEN <<pos>> ELSE errors
     IN result' = [chain |-> IF errs = <<>> THEN returned.chain ELSE <<>>, errors |-> errs]
  /\ UNCHANGED <<str, pos, next_group_index, errors, stack, one_of, returned>>

Returned == pc = "done" /\ UNCHANGED vars

ParseStep ==
  \/ EndOfChain \/ SimpleElement \/ LiteralSymbol \/ EscapeSequence
  \/ OpenClass \/ ClassWord \/ ClassSymbol \/ ClassEscape \/ CloseClass
  \/ OpenGroup \/ OpenNothing \/ ParseSubroutineCall \/ OpenNonCapturingGroup
  \/ OpenAtomicGroup \/ OpenConditionalElement \/ OpenLook \/ OpenAlternative
  \/ CloseGroup \/ CloseNonCapturingGroup \/ CloseAtomicGroup \/ CloseLook
  \/ CloseConditionalElement \/ CloseAlternative \/ ParseResult

Start == pc = "idle" /\ \E text \in PatternTexts : Parse(text)

Next == Start \/ ParseStep \/ Returned

Spec == Init /\ [][Next]_vars /\ WF_vars(ParseStep)
-----------------------------------------------------------------------------
(***************************************************************************)
(* Properties.                                                             *)
(***************************************************************************)
\* What is left of the pattern is never read behind its end, no frame is missing
\* when one is needed, and errors are inside the pattern.
TypeOK ==
  /\ str \in Seq(Nat)
  /\ pos \in 0..Len(str)
  /\ next_group_index \in Nat
  /\ errors \in Seq(0..Len(str))
  /\ pc \in {"idle", "chain", "one_of", "returned", "done"}
  /\ pc \in {"chain", "one_of"} => stack # <<>>
  /\ pc = "returned" => (stack = <<>> <=> returned.for = "Parse")

\* ParseChain calls itself at most once for each symbol that has been read: the
\* depth of the recursion is bounded by the length of the pattern.
DepthBounded == Len(stack) <= pos + 1

\* The parser never goes back, and has something to do until it is done.
ParsingEnds == pc = "chain" ~> pc = "done"
=============================================================================
