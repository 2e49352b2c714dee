------------------------------ MODULE MCParser ------------------------------
(***************************************************************************)
(* Small instances of the parser.                                          *)
(***************************************************************************)
EXTENDS RegexSyntax, Expressions

InCodes(fragments) == { Codes(f) : f \in fragments }

\* Brackets, bars and symbols, and beginnings of them.
BracketFragments ==
  InCodes({ <<"a">>, <<")">>, <<"|">>, <<"+">>, <<"(">>, <<"(", "?", ":">>,
            <<"(", "?", "<", "!">>, <<"(", "?", "(", "?", "=">> })

\* Symbols, escape sequences, classes, repetitions, calls, and beginnings of them.
NamedClasses  == InCodes({ <<"\\", "d">>, <<"[", ":", "w", "o", "r", "d", ":", "]">> })
NegatedNamed  == InCodes({ <<"\\", "W">>, <<"^", "[", ":", "w", "o", "r", "d", ":", "]">> })
InverseClass  == Codes(<<"[", "^">>)
ClassOpenings == InCodes({ <<"[">>, <<"[", "a">> }) \cup {InverseClass}
SymbolFragments ==
  NamedClasses \cup NegatedNamed \cup ClassOpenings
    \cup InCodes({ <<".">>, <<"^">>, <<"$">>, <<"-">>, <<"]">>, <<"3">>, <<"}">>, <<",">>, <<"?">>,
           <<"+">>, <<"*">>, <<"{">>, <<"a", "{", "2">>, <<"\\">>, <<"\\", "]">>, <<"\\", "1">>,
           <<"\\", "p">>, <<"\\", "x", "6">>, <<"\\", "u", "0", "0", "e", "9">>,
           <<"(", "?">>, <<"(", "?", "R">>, <<"(", "?", "2">>, <<")">>, <<"(", "?", ">">>,
           <<"(", "?", "<">> })

SymbolTriples == [1..3 -> SymbolFragments \cup {<<>>}]

\* A named class that is inverted, in brackets that are inverted or contain more.
MixInversion ==
  LET openings == ClassOpenings
      negated  == NegatedNamed
      named    == NamedClasses
      inverse  == InverseClass
  IN { t \in SymbolTriples :
         \E k, j \in 1..3 : k < j /\ t[k] \in openings /\
           (t[j] \in negated \/ (t[k] = inverse /\ t[j] \in named)) }

(***************************************************************************)
(* The expressions of the other instances, as they are written.            *)
(***************************************************************************)
WrittenTrees ==
  { p.chain : p \in FamilyPatterns \cup SharedLastPatterns }
    \cup GroupChains \cup LookChains \cup LineChains \cup TextChains \cup AgreeingTextChains
TextOfTree == [tree \in WrittenTrees |-> Written(tree)]
WrittenTexts == { Utf32ToUtf8(TextOfTree[tree]) : tree \in WrittenTrees }

\* An expression that is written down is read as the same expression.
ReadsWhatIsWritten ==
  pc = "done" =>
    \A tree \in WrittenTrees :
      str = TextOfTree[tree] => result = [chain |-> tree, errors |-> <<>>]

-----------------------------------------------------------------------------
Followed(texts1, texts2) == { x \o y : x \in texts1, y \in texts2 }
Joined3(triples) == { t[1] \o t[2] \o t[3] : t \in triples }

NestingFragments == InCodes({ <<"a">>, <<")">>, <<"|">>, <<"(">>, <<"(", "?", "(", "?", "=">> })

\* Up to four of the first, five of those that nest, three of the others.
MCTexts ==
  WrittenTexts
    \cup Followed(Texts2(BracketFragments), Texts2(BracketFragments))
    \cup Followed(Texts3(NestingFragments), Texts2(NestingFragments))
    \cup Joined3(SymbolTriples \ MixInversion)
NegatedTexts == Joined3(MixInversion)
=============================================================================
