--------------------------- MODULE RegexElements ---------------------------
(***************************************************************************)
(* Regular expressions as the parser leaves them (RegexElements.hpp): a    *)
(* chain is a sequence of elements, an element a record whose "el" is one  *)
(* alternative of the variant ElementType, with its repetition.            *)
(***************************************************************************)
EXTENDS RegexGraph

AnySymbol             == [kind |-> "AnySymbol"]
SpecificSymbol(code)  == [kind |-> "SpecificSymbol", code |-> code]
OneOf(variants, ranges, inverse_flag) ==
  [kind |-> "OneOf", variants |-> variants, ranges |-> ranges, inverse_flag |-> inverse_flag]
Group(index, elements) == [kind |-> "Group", index |-> index, elements |-> elements]
BackReference(index)   == [kind |-> "BackReference", index |-> index]
NonCapturingGroup(elements) == [kind |-> "NonCapturingGroup", elements |-> elements]
AtomicGroup(elements)  == [kind |-> "AtomicGroup", elements |-> elements]
Alternatives(alternatives) == [kind |-> "Alternatives", alternatives |-> alternatives]
Look(forward, positive, elements) ==
  [kind |-> "Look", forward |-> forward, positive |-> positive, elements |-> elements]
LineStartAssertion     == [kind |-> "LineStartAssertion"]
LineEndAssertion       == [kind |-> "LineEndAssertion"]
ConditionalElement(look, alternatives) ==
  [kind |-> "ConditionalElement", look |-> look, alternatives |-> alternatives]
SubroutineCall(index)  == [kind |-> "SubroutineCall", index |-> index]

\* An element with its Sequence: el{min,max}, mode Greedy, Lazy or Possessive.
Repeat(el, min, max, mode) ==
  [el |-> el, min_elements |-> min, max_elements |-> max, mode |-> mode]
Once(el) == Repeat(el, 1, 1, "Greedy")
=============================================================================
