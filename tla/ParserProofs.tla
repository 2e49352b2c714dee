---------------------------- MODULE ParserProofs ----------------------------
(***************************************************************************)
(* Theorems about Parser, for every set of patterns.                       *)
(***************************************************************************)
EXTENDS Parser, TLAPS, WellFoundedInduction, FiniteSetTheorems, SequenceTheorems

Positions == 0..Len(str)

-----------------------------------------------------------------------------
(***************************************************************************)
(* Lemmas about numbers and sequences.                                     *)
(***************************************************************************)
\* A set of positions that is not empty has a first one: it is the end of the
\* smallest of the intervals from p.
LEMMA FirstPosition ==
  ASSUME NEW p \in Nat, NEW n \in Nat, NEW S \in SUBSET (p..n), S # {}
  PROVE  \E q \in S : \A r \in S : q <= r
<1> DEFINE T == { p..q : q \in S }
<1>1. IsFiniteSet(p..n)
  BY FS_Interval
<1>2. \A q \in S : (p..q) \in FiniteSubsetsOf(p..n)
  <2> TAKE q \in S
  <2>1. (p..q) \subseteq (p..n)
    OBVIOUS
  <2> QED
    BY <1>1, <2>1, FS_Subset DEF FiniteSubsetsOf
<1>3. T \subseteq FiniteSubsetsOf(p..n) /\ T # {}
  BY <1>2
<1>4. PICK t \in T : \A u \in T : ~(<<u, t>> \in StrictSubsetOrdering(p..n))
  <2> HIDE DEF T
  <2> QED
    BY <1>3, WFMin, FS_StrictSubsetOrderingWellFounded
<1>5. PICK q \in S : t = p..q
  OBVIOUS
<1>6. ASSUME NEW r \in S, r < q
      PROVE  FALSE
  <2>1. (p..r) \subseteq (p..q) /\ (p..r) # (p..q)
    <3>1. q \in p..q /\ q \notin p..r
      BY <1>6
    <3> QED
      BY <1>6, <3>1
  <2>2. (p..r) \in T
    OBVIOUS
  <2>3. <<p..r, p..q>> \in StrictSubsetOrdering(p..n)
    BY <2>1 DEF StrictSubsetOrdering
  <2> QED
    BY <1>4, <1>5, <2>2, <2>3
<1> QED
  BY <1>6

\* A sequence over a set is one over every larger set, and grows by what is put
\* behind it.
LEMMA SeqGrows ==
  ASSUME NEW S, NEW s \in Seq(S), NEW e
  PROVE  /\ Append(s, e) \in Seq(S \cup {e})
         /\ Len(Append(s, e)) = Len(s) + 1
         /\ \A k \in 1..Len(s) : Append(s, e)[k] = s[k]
         /\ Append(s, e)[Len(s) + 1] = e
<1>1. s \in Seq(S \cup {e})
  OBVIOUS
<1> QED
  BY <1>1

LEMMA FrontShrinks ==
  ASSUME NEW S, NEW s \in Seq(S), s # <<>>
  PROVE  /\ Len(s) \in Nat /\ Len(s) > 0
         /\ Front(s) \in Seq(S)
         /\ Len(Front(s)) = Len(s) - 1
         /\ \A k \in 1..(Len(s) - 1) : Front(s)[k] = s[k]
         /\ Last(s) \in S /\ Last(s) = s[Len(s)]
<1>1. Len(s) \in Nat /\ Len(s) > 0
  OBVIOUS
<1>2. Front(s) \in Seq(S) /\ Len(Front(s)) = Len(s) - 1
  <2>1. \A k \in 1..(Len(s) - 1) : s[k] \in S
    BY <1>1
  <2>2. SubSeq(s, 1, Len(s) - 1) \in Seq(S) /\ Len(SubSeq(s, 1, Len(s) - 1)) = Len(s) - 1
    <3> DEFINE n == Len(s) - 1
    <3>1. n \in Int /\ 0 <= n /\ 1 \in Int /\ \A k \in 1..n : s[k] \in S
      BY <1>1, <2>1
    <3> HIDE DEF n
    <3>2. SubSeq(s, 1, n) \in Seq(S) /\ Len(SubSeq(s, 1, n)) = IF 1 <= n THEN n - 1 + 1 ELSE 0
      BY <3>1, SubSeqProperties
    <3>3. SubSeq(s, 1, n) \in Seq(S) /\ Len(SubSeq(s, 1, n)) = n
      BY <3>1, <3>2
    <3> QED
      BY <3>3 DEF n
  <2> QED
    BY <2>2 DEF Front
<1>3. ASSUME NEW k \in 1..(Len(s) - 1)
      PROVE  Front(s)[k] = s[k]
  BY <1>1, <1>3 DEF Front
<1>4. Last(s) \in S /\ Last(s) = s[Len(s)]
  BY <1>1 DEF Last
<1> QED
  BY <1>1, <1>2, <1>3, <1>4

LEMMA ConcatType ==
  ASSUME NEW S, NEW s \in Seq(S), NEW t \in Seq(S)
  PROVE  s \o t \in Seq(S)
OBVIOUS

-----------------------------------------------------------------------------
(***************************************************************************)
(* Lemmas about what is read from the pattern: it begins and ends inside.  *)
(***************************************************************************)
\* Something is read at p, which may be the end of the pattern.
Inside(p) == p \in Nat /\ p <= Len(str)

LEMMA SeesInside ==
  ASSUME str \in Seq(Nat), NEW p \in Nat, ~EmptyAt(p)
  PROVE  Inside(p) /\ Inside(p + 1)
BY DEF EmptyAt, Inside

LEMMA SeenInside ==
  ASSUME str \in Seq(Nat), NEW p \in Nat, NEW c, Sees(p, c)
  PROVE  Inside(p) /\ Inside(p + 1)
BY SeesInside DEF Sees

LEMMA NumberEndInside ==
  ASSUME str \in Seq(Nat), NEW p, Inside(p)
  PROVE  Inside(NumberEnd(p)) /\ p <= NumberEnd(p)
<1> DEFINE S == { q \in p..Len(str) : q < Len(str) => ~IsDigit(Symbol(q)) }
<1>1. Len(str) \in S
  BY DEF Inside
<1>2. PICK q \in S : \A r \in S : q <= r
  <2>1. S \in SUBSET (p..Len(str)) /\ S # {}
    BY <1>1
  <2>2. p \in Nat /\ Len(str) \in Nat
    BY DEF Inside
  <2> HIDE DEF S
  <2> QED
    BY <2>1, <2>2, FirstPosition
<1>3. ASSUME NEW k \in p..(q - 1)
      PROVE  IsDigit(Symbol(k))
  <2>1. k \notin S
    BY <1>2, <1>3
  <2> QED
    BY <1>2, <1>3, <2>1 DEF Inside
<1>4. \E r \in p..Len(str) :
        /\ \A k \in p..(r - 1) : IsDigit(Symbol(k))
        /\ r < Len(str) => ~IsDigit(Symbol(r))
  BY <1>2, <1>3
<1>5. NumberEnd(p) \in p..Len(str)
  BY <1>4 DEF NumberEnd
<1> QED
  BY <1>5 DEF Inside

LEMMA ModeInside ==
  ASSUME str \in Seq(Nat), NEW p, Inside(p)
  PROVE  Inside(ModeAt(p).pos) /\ p <= ModeAt(p).pos
<1>1. CASE EmptyAt(p)
  BY <1>1 DEF ModeAt, Sees, Inside
<1>2. CASE ~EmptyAt(p)
  BY <1>2, SeesInside DEF ModeAt, Inside
<1> QED
  BY <1>1, <1>2

\* A sequence of at most one error.
ErrorsInside(errs) == errs \in Seq(Positions)

LEMMA OneError ==
  ASSUME NEW p, Inside(p), str \in Seq(Nat)
  PROVE  ErrorsInside(<<p>>) /\ ErrorsInside(<<>>)
BY DEF Inside, ErrorsInside, Positions

\* What is parsed at p ends at or after it, with errors inside the pattern.
Forward(parsed, p) ==
  Inside(parsed.pos) /\ p <= parsed.pos /\ ErrorsInside(parsed.error)

LEMMA RepetitionForward ==
  ASSUME str \in Seq(Nat), NEW min, NEW max, NEW p, Inside(p)
  PROVE  Forward(Repetition(min, max, p), p) /\ Forward(Broken(min, max, p), p)
<1>1. Inside(ModeAt(p).pos) /\ p <= ModeAt(p).pos
  BY ModeInside
<1>2. ErrorsInside(<<p>>) /\ ErrorsInside(<<>>)
  BY OneError
<1>3. p <= p
  BY DEF Inside
<1> QED
  BY <1>1, <1>2, <1>3 DEF Repetition, Broken, Forward

LEMMA BracesForward ==
  ASSUME str \in Seq(Nat), NEW p, Inside(p)
  PROVE  Forward(Braces(p), p)
<1> DEFINE min       == Number(p)
           after_min == NumberEnd(p)
           p_max     == after_min + 1
           max       == CASE ~Sees(after_min, ",") -> min
                          [] Sees(after_min, ",") /\ NumberEnd(p_max) > p_max -> Number(p_max)
                          [] OTHER -> SizeMax
           after_max == IF Sees(after_min, ",") THEN NumberEnd(p_max) ELSE after_min
<1>1. Inside(after_min) /\ p <= after_min
  BY NumberEndInside
<1>2. Inside(after_max) /\ p <= after_max
  <2>1. CASE Sees(after_min, ",")
    <3> HIDE DEF after_min
    <3>0. after_min \in Nat
      BY <1>1 DEF Inside
    <3>1. Inside(p_max)
      BY <2>1, <3>0, SeenInside
    <3>2. Inside(NumberEnd(p_max)) /\ p_max <= NumberEnd(p_max)
      <4> HIDE DEF p_max
      <4> QED
        BY <3>1, NumberEndInside
    <3>3. after_max = NumberEnd(p_max)
      BY <2>1
    <3>4. p <= NumberEnd(p_max)
      <4>1. p <= p_max
        BY <1>1, <3>0 DEF Inside
      <4> HIDE DEF p_max
      <4> QED
        BY <3>1, <3>2, <4>1 DEF Inside
    <3> QED
      BY <3>2, <3>3, <3>4
  <2> QED
    BY <1>1, <2>1
<1>3. Braces(p) = CASE EmptyAt(after_min) -> Broken(min, 1, after_min)
                    [] ~EmptyAt(after_min) /\ Sees(after_max, "}") -> Repetition(min, max, after_max + 1)
                    [] OTHER -> Broken(min, max, after_max)
  BY DEF Braces
<1> HIDE DEF min, max, after_min, after_max
<1>4. CASE EmptyAt(after_min)
  <2>1. Forward(Broken(min, 1, after_min), after_min)
    BY <1>1, RepetitionForward
  <2> QED
    BY <1>1, <1>3, <1>4, <2>1 DEF Forward, Inside
<1>5. CASE ~EmptyAt(after_min) /\ Sees(after_max, "}")
  <2>1. Inside(after_max + 1) /\ p <= after_max + 1
    <3>1. after_max \in Nat
      BY <1>2 DEF Inside
    <3>2. Inside(after_max + 1)
      BY <1>5, <3>1, SeenInside
    <3> QED
      BY <1>2, <3>1, <3>2 DEF Inside
  <2>2. Forward(Repetition(min, max, after_max + 1), after_max + 1)
    BY <2>1, RepetitionForward
  <2>3. Braces(p) = Repetition(min, max, after_max + 1)
    BY <1>3, <1>5
  <2> QED
    BY <2>1, <2>2, <2>3 DEF Forward, Inside
<1>6. CASE ~EmptyAt(after_min) /\ ~Sees(after_max, "}")
  <2>1. Forward(Broken(min, max, after_max), after_max)
    BY <1>2, RepetitionForward
  <2>2. Braces(p) = Broken(min, max, after_max)
    BY <1>3, <1>6
  <2> QED
    BY <1>2, <2>1, <2>2 DEF Forward, Inside
<1> QED
  BY <1>4, <1>5, <1>6

LEMMA SequenceArms ==
  ASSUME NEW p
  PROVE  ParseSequence(p) \in { OneOrMore(p + 1), AnyNumber(p + 1), AtMostOne(p + 1),
                                Braces(p + 1), NotRepeated(p) }
BY DEF ParseSequence

LEMMA SequenceForward ==
  ASSUME str \in Seq(Nat), NEW p, Inside(p)
  PROVE  Forward(ParseSequence(p), p)
<1>1. CASE EmptyAt(p)
  <2>1. ParseSequence(p) = NotRepeated(p)
    BY <1>1 DEF ParseSequence, Sees
  <2>2. ErrorsInside(<<>>)
    BY OneError
  <2> QED
    BY <2>1, <2>2 DEF NotRepeated, Forward, Inside
<1>2. CASE ~EmptyAt(p)
  <2>1. Inside(p + 1)
    BY <1>2, SeesInside DEF Inside
  <2>2. /\ Forward(OneOrMore(p + 1), p + 1)
        /\ Forward(AnyNumber(p + 1), p + 1)
        /\ Forward(AtMostOne(p + 1), p + 1)
    BY <2>1, RepetitionForward DEF OneOrMore, AnyNumber, AtMostOne
  <2>3. Forward(Braces(p + 1), p + 1)
    BY <2>1, BracesForward
  <2>4. ErrorsInside(<<>>)
    BY OneError
  <2>5. ParseSequence(p) \in { OneOrMore(p + 1), AnyNumber(p + 1), AtMostOne(p + 1),
                               Braces(p + 1), NotRepeated(p) }
    BY SequenceArms
  <2>6. \A parsed : Forward(parsed, p + 1) => Forward(parsed, p)
    BY DEF Forward, Inside
  <2>7. Forward(NotRepeated(p), p)
    BY <2>4 DEF NotRepeated, Forward, Inside
  <2> QED
    BY <2>2, <2>3, <2>5, <2>6, <2>7
<1> QED
  BY <1>1, <1>2

LEMMA EscapeForward ==
  ASSUME str \in Seq(Nat), NEW p, Inside(p)
  PROVE  Forward(ParseEscapeSequence(p), p)
<1>1. \A q : Inside(q) => \A el : Forward(Escaped(el, q), q) /\ Forward(NoEscape(q), q)
  BY OneError DEF Escaped, NoEscape, Forward, Inside
<1>2. CASE EmptyAt(p)
  BY <1>1, <1>2 DEF ParseEscapeSequence
<1>3. CASE ~EmptyAt(p)
  <2>1. Inside(p + 1)
    BY <1>3, SeesInside DEF Inside
  <2>2. \A count \in Nat : Forward(HexEscape(p + 1, count), p + 1)
    <3> TAKE count \in Nat
    <3> DEFINE digits == SubSeq(str, p + 1 + 1, p + 1 + count)
               code   == SpecificSymbol(HexCode(digits))
    <3>1. \/ HexEscape(p + 1, count) = NoEscape(p + 1)
          \/ /\ ~(Len(str) - (p + 1) < count)
             /\ HexEscape(p + 1, count) = Escaped(code, p + 1 + count)
      BY DEF HexEscape
    <3> HIDE DEF code
    <3>2. CASE HexEscape(p + 1, count) = NoEscape(p + 1)
      BY <1>1, <2>1, <3>2
    <3>3. CASE /\ ~(Len(str) - (p + 1) < count)
               /\ HexEscape(p + 1, count) = Escaped(code, p + 1 + count)
      <4>1. Inside(p + 1 + count) /\ p + 1 <= p + 1 + count
        BY <2>1, <3>3 DEF Inside
      <4>2. Forward(Escaped(code, p + 1 + count), p + 1 + count)
        BY <1>1, <4>1
      <4> QED
        BY <2>1, <3>3, <4>1, <4>2 DEF Forward, Inside
    <3> QED
      BY <3>1, <3>2, <3>3
  <2> DEFINE c == Symbol(p)
             is(lower, upper) == c \in {C[lower], C[upper]}
  <2>3. \/ ParseEscapeSequence(p) = Escaped(SpecificSymbol(c), p + 1)
        \/ ParseEscapeSequence(p) = Escaped(DigitClass(c), p + 1)
        \/ ParseEscapeSequence(p) = Escaped(WordCharacterClass(c), p + 1)
        \/ ParseEscapeSequence(p) = Escaped(SpaceClass(c), p + 1)
        \/ ParseEscapeSequence(p) = HexEscape(p + 1, 2)
        \/ ParseEscapeSequence(p) = HexEscape(p + 1, 4)
        \/ ParseEscapeSequence(p) = Escaped(BackReference(Digit(c)), p + 1)
        \/ ParseEscapeSequence(p) = NoEscape(p + 1)
    BY <1>3 DEF ParseEscapeSequence
  <2>4. Forward(ParseEscapeSequence(p), p + 1)
    BY <1>1, <2>1, <2>2, <2>3
  <2> QED
    BY <2>4 DEF Forward, Inside
<1> QED
  BY <1>2, <1>3

-----------------------------------------------------------------------------
(***************************************************************************)
(* The inductive invariant.                                                *)
(***************************************************************************)
IsFrame(f) == f = [for |-> f.for, chain |-> f.chain, info |-> f.info]

\* A stack of frames, of which only the first is that of the whole pattern.
IsStack(s) ==
  /\ \E S : s \in Seq(S)
  /\ \A k \in 1..Len(s) : IsFrame(s[k]) /\ (s[k].for = "Parse" <=> k = 1)

ParserTypeInv ==
  /\ str \in Seq(Nat)
  /\ Inside(pos)
  /\ next_group_index \in Nat
  /\ ErrorsInside(errors)
  /\ pc \in {"idle", "chain", "one_of", "returned", "done"}

\* The depth counts the ParseChain calls that still run; the one that has returned
\* is not among them any more, so that another can be entered at the same place.
StackInv ==
  /\ IsStack(stack)
  /\ Len(stack) <= pos + 1
  /\ pc = "idle" => stack = <<>> /\ pos = 0 /\ errors = <<>>
  /\ pc \in {"chain", "one_of"} => stack # <<>>
  /\ pc = "returned" => /\ Len(stack) <= pos
                        /\ stack = <<>> <=> returned.for = "Parse"

ParserInv == ParserTypeInv /\ StackInv

LEMMA StackGrows ==
  ASSUME NEW s, IsStack(s), s # <<>>, NEW f, IsFrame(f), f.for # "Parse"
  PROVE  /\ IsStack(Append(s, f))
         /\ Append(s, f) # <<>>
         /\ Len(s) \in Nat
         /\ Len(Append(s, f)) = Len(s) + 1
<1>1. PICK S : s \in Seq(S)
  BY DEF IsStack
<1>2. Len(s) \in Nat /\ Len(s) > 0
  BY <1>1
<1>3. Append(s, f) \in Seq(S \cup {f})
  BY <1>1, SeqGrows
<1>4. /\ Len(Append(s, f)) = Len(s) + 1
      /\ \A k \in 1..Len(s) : Append(s, f)[k] = s[k]
      /\ Append(s, f)[Len(s) + 1] = f
  BY <1>1, SeqGrows
<1>5. ASSUME NEW k \in 1..Len(Append(s, f))
      PROVE  IsFrame(Append(s, f)[k]) /\ (Append(s, f)[k].for = "Parse" <=> k = 1)
  <2>1. CASE k \in 1..Len(s)
    BY <1>4, <2>1 DEF IsStack
  <2>2. CASE k = Len(s) + 1
    BY <1>2, <1>4, <2>2
  <2> QED
    BY <1>2, <1>4, <2>1, <2>2
<1>6. Append(s, f) # <<>>
  BY <1>2, <1>3, <1>4
<1>7. IsStack(Append(s, f))
  BY <1>3, <1>5 DEF IsStack
<1> QED
  BY <1>2, <1>4, <1>6, <1>7

LEMMA StackShrinks ==
  ASSUME NEW s, IsStack(s), s # <<>>
  PROVE  /\ IsStack(Front(s))
         /\ Len(s) \in Nat
         /\ Len(Front(s)) = Len(s) - 1
         /\ Front(s) = <<>> <=> Last(s).for = "Parse"
         /\ IsFrame(Last(s))
<1>1. PICK S : s \in Seq(S)
  BY DEF IsStack
<1>2. /\ Len(s) \in Nat /\ Len(s) > 0
      /\ Front(s) \in Seq(S)
      /\ Len(Front(s)) = Len(s) - 1
      /\ \A k \in 1..(Len(s) - 1) : Front(s)[k] = s[k]
      /\ Last(s) = s[Len(s)]
  BY <1>1, FrontShrinks
<1>3. IsStack(Front(s))
  BY <1>2 DEF IsStack
<1>4. IsFrame(Last(s)) /\ (Last(s).for = "Parse" <=> Len(s) = 1)
  BY <1>2 DEF IsStack
<1>5. Front(s) = <<>> <=> Len(s) = 1
  <2>1. Front(s) = <<>> <=> Len(Front(s)) = 0
    BY <1>2
  <2> QED
    BY <1>2, <2>1
<1> QED
  BY <1>2, <1>3, <1>4, <1>5

\* Another chain in the frame on top.
LEMMA TopReplaced ==
  ASSUME NEW s, IsStack(s), s # <<>>, NEW chain
  PROVE  LET t == Append(Front(s), [Last(s) EXCEPT !.chain = chain])
         IN IsStack(t) /\ t # <<>> /\ Len(t) = Len(s) /\ Len(s) \in Nat
<1> DEFINE f == [Last(s) EXCEPT !.chain = chain]
           t == Append(Front(s), f)
<1>1. /\ IsStack(Front(s))
      /\ Len(s) \in Nat
      /\ Len(Front(s)) = Len(s) - 1
      /\ Front(s) = <<>> <=> Last(s).for = "Parse"
      /\ IsFrame(Last(s))
  BY StackShrinks
<1>2. IsFrame(f) /\ f.for = Last(s).for
  <2>1. PICK for, info, old : Last(s) = [for |-> for, chain |-> old, info |-> info]
    BY <1>1 DEF IsFrame
  <2>2. f = [for |-> for, chain |-> chain, info |-> info]
    BY <2>1
  <2> QED
    BY <2>1, <2>2 DEF IsFrame
<1> HIDE DEF f
<1>3. PICK S : Front(s) \in Seq(S)
  BY <1>1 DEF IsStack
<1>4. t \in Seq(S \cup {f})
  BY <1>3, SeqGrows
<1>5. /\ Len(t) = Len(Front(s)) + 1
      /\ \A k \in 1..Len(Front(s)) : t[k] = Front(s)[k]
      /\ t[Len(Front(s)) + 1] = f
  BY <1>3, SeqGrows
<1> HIDE DEF t
<1>6. ASSUME NEW k \in 1..Len(t)
      PROVE  IsFrame(t[k]) /\ (t[k].for = "Parse" <=> k = 1)
  <2>1. CASE k \in 1..Len(Front(s))
    BY <1>1, <1>5, <2>1 DEF IsStack
  <2>2. CASE k = Len(s)
    <3>1. Front(s) = <<>> <=> Len(s) = 1
      <4>1. Front(s) = <<>> <=> Len(Front(s)) = 0
        BY <1>3
      <4> QED
        BY <1>1, <4>1
    <3> QED
      BY <1>1, <1>2, <1>5, <2>2, <3>1
  <2> QED
    BY <1>1, <1>5, <2>1, <2>2
<1>7. t # <<>>
  BY <1>1, <1>3, <1>4, <1>5
<1>8. IsStack(t)
  BY <1>4, <1>6 DEF IsStack
<1> QED
  BY <1>1, <1>5, <1>7, <1>8 DEF t, f

-----------------------------------------------------------------------------
(***************************************************************************)
(* The ways a step ends keep the invariant.                                *)
(***************************************************************************)
LEMMA EnterStep ==
  ASSUME ParserInv, stack # <<>>, NEW p, Inside(p), NEW errs, ErrorsInside(errs),
         NEW frame, IsFrame(frame), frame.for # "Parse", Len(stack) <= p,
         next_group_index' \in Nat, EnterChain(p, errs, frame)
  PROVE  ParserInv'
<1>1. ParserTypeInv'
  BY DEF ParserInv, ParserTypeInv, EnterChain, Inside, ErrorsInside, Positions
<1>2. stack' = Append(stack, frame)
  BY DEF EnterChain
<1>3. IsStack(stack') /\ stack' # <<>> /\ Len(stack) \in Nat /\ Len(stack') = Len(stack) + 1
  BY <1>2, StackGrows DEF ParserInv, StackInv
<1>4. pc' = "chain" /\ pos' = p /\ Len(stack') <= pos' + 1
  BY <1>3 DEF EnterChain, Inside
<1>5. StackInv'
  BY <1>3, <1>4 DEF StackInv, IsStack, IsFrame
<1> QED
  BY <1>1, <1>5 DEF ParserInv

LEMMA ReturnStep ==
  ASSUME ParserInv, stack # <<>>, NEW p, Inside(p), NEW errs, ErrorsInside(errs),
         NEW chain, Len(stack) <= p + 1, ReturnChain(p, errs, chain)
  PROVE  ParserInv'
<1>1. ParserTypeInv'
  BY DEF ParserInv, ParserTypeInv, ReturnChain, Inside, ErrorsInside, Positions
<1>2. stack' = Front(stack) /\ returned' = [Last(stack) EXCEPT !.chain = chain]
  BY DEF ReturnChain, Caller, Callers
<1>3. /\ IsStack(Front(stack))
      /\ Len(stack) \in Nat
      /\ Len(Front(stack)) = Len(stack) - 1
      /\ Front(stack) = <<>> <=> Last(stack).for = "Parse"
      /\ IsFrame(Last(stack))
  BY StackShrinks DEF ParserInv, StackInv
<1>4. returned'.for = Last(stack).for
  <2>1. PICK for, info, old : Last(stack) = [for |-> for, chain |-> old, info |-> info]
    BY <1>3 DEF IsFrame
  <2> QED
    BY <1>2, <2>1
<1>5. pc' = "returned" /\ pos' = p
  BY DEF ReturnChain
<1>6. IsStack(stack)'
  BY <1>2, <1>3 DEF IsStack, IsFrame
<1>7. Len(stack') <= pos' /\ Len(stack') <= pos' + 1
  BY <1>2, <1>3, <1>5 DEF Inside
<1>8. stack' = <<>> <=> returned'.for = "Parse"
  BY <1>2, <1>3, <1>4
<1>9. StackInv'
  BY <1>5, <1>6, <1>7, <1>8 DEF StackInv
<1> QED
  BY <1>1, <1>9 DEF ParserInv

LEMMA PushStep ==
  ASSUME ParserInv, stack # <<>>, NEW el, NEW p, Inside(p), pos <= p,
         NEW errs, ErrorsInside(errs), PushElement(el, p, errs)
  PROVE  ParserInv'
<1> DEFINE seq == ParseSequence(p)
<1>1. Forward(seq, p)
  BY SequenceForward DEF ParserInv, ParserTypeInv
<1>2. /\ pc' = "chain" /\ pos' = seq.pos /\ errors' = errs \o seq.error
      /\ str' = str /\ next_group_index' = next_group_index
  BY DEF PushElement
<1>3. PICK chain : stack' = Append(Front(stack), [Last(stack) EXCEPT !.chain = chain])
  BY DEF PushElement, Caller, Callers
<1> HIDE DEF seq
<1>4. Inside(seq.pos) /\ p <= seq.pos /\ ErrorsInside(errs \o seq.error)
  BY <1>1, ConcatType DEF Forward, ErrorsInside
<1>5. ParserTypeInv'
  BY <1>2, <1>4 DEF ParserInv, ParserTypeInv, Inside, ErrorsInside, Positions
<1>6. IsStack(stack') /\ stack' # <<>> /\ Len(stack') = Len(stack) /\ Len(stack) \in Nat
  BY <1>3, TopReplaced DEF ParserInv, StackInv
<1>7. Len(stack') <= pos' + 1
  BY <1>2, <1>4, <1>6 DEF ParserInv, ParserTypeInv, StackInv, Inside
<1>8. StackInv'
  BY <1>2, <1>6, <1>7 DEF StackInv, IsStack, IsFrame
<1> QED
  BY <1>5, <1>8 DEF ParserInv

\* The next item of a class.
LEMMA ItemStep ==
  ASSUME ParserInv, pc = "one_of", NEW class, NEW p, Inside(p), pos <= p,
         NEW errs, ErrorsInside(errs), NextItem(class, p, errs)
  PROVE  ParserInv'
<1>1. ParserTypeInv'
  BY DEF ParserInv, ParserTypeInv, NextItem, Inside, ErrorsInside, Positions
<1>2. stack' = stack /\ pc' = pc /\ pos' = p
  BY DEF NextItem
<1>3. Len(stack') <= pos' + 1
  <2>1. Len(stack) \in Nat
    BY DEF ParserInv, StackInv, IsStack
  <2> QED
    BY <1>2, <2>1 DEF ParserInv, ParserTypeInv, StackInv, Inside
<1>4. StackInv'
  BY <1>2, <1>3 DEF ParserInv, StackInv, IsStack, IsFrame
<1> QED
  BY <1>1, <1>4 DEF ParserInv

\* One more error.
LEMMA ErrorAppended ==
  ASSUME str \in Seq(Nat), NEW errs, ErrorsInside(errs), NEW p, Inside(p)
  PROVE  ErrorsInside(Append(errs, p))
BY DEF ErrorsInside, Positions, Inside

LEMMA FailStep ==
  ASSUME ParserInv, stack # <<>>, NEW p, Inside(p), pos <= p, Fail(p)
  PROVE  ParserInv'
<1>1. ErrorsInside(Append(errors, p))
  BY ErrorAppended DEF ParserInv, ParserTypeInv
<1>2. Len(stack) <= p + 1
  <2>1. Len(stack) \in Nat
    BY DEF ParserInv, StackInv, IsStack
  <2> QED
    BY <2>1 DEF ParserInv, ParserTypeInv, StackInv, Inside
<1>3. PICK chain : ReturnChain(p, Append(errors, p), chain)
  BY DEF Fail
<1> QED
  BY <1>1, <1>2, <1>3, ReturnStep

-----------------------------------------------------------------------------
(***************************************************************************)
(* The actions keep it.                                                    *)
(***************************************************************************)
\* What holds while a chain or a class is parsed.
LEMMA Parsing ==
  ASSUME ParserInv
  PROVE  /\ str \in Seq(Nat) /\ Inside(pos) /\ pos \in Nat /\ ErrorsInside(errors)
         /\ Len(str) \in Nat /\ Len(stack) \in Nat /\ Len(stack) <= pos + 1
         /\ pc \in {"chain", "one_of"} => stack # <<>>
BY DEF ParserInv, ParserTypeInv, StackInv, IsStack, Inside

LEMMA ChainSees ==
  ASSUME ParserInv, NEW c, InChain(c)
  PROVE  stack # <<>> /\ Inside(pos) /\ Inside(pos + 1)
BY Parsing, SeenInside DEF InChain

LEMMA SimpleElementStep ==
  ASSUME ParserInv, SimpleElement
  PROVE  ParserInv'
<1>1. PICK c, el : InChain(c) /\ PushElement(el, pos + 1, errors)
  BY DEF SimpleElement
<1>2. stack # <<>> /\ Inside(pos + 1) /\ pos <= pos + 1
  BY <1>1, ChainSees, Parsing
<1> QED
  BY <1>1, <1>2, Parsing, PushStep

LEMMA LiteralSymbolStep ==
  ASSUME ParserInv, LiteralSymbol
  PROVE  ParserInv'
<1>1. PICK el : pc = "chain" /\ ~EmptyAt(pos) /\ PushElement(el, pos + 1, errors)
  BY DEF LiteralSymbol
<1>2. stack # <<>> /\ Inside(pos + 1) /\ pos <= pos + 1
  BY <1>1, SeesInside, Parsing
<1> QED
  BY <1>1, <1>2, Parsing, PushStep

LEMMA EscapeSequenceStep ==
  ASSUME ParserInv, EscapeSequence
  PROVE  ParserInv'
<1> DEFINE escape == ParseEscapeSequence(pos + 1)
<1>1. stack # <<>> /\ Inside(pos + 1)
  BY ChainSees DEF EscapeSequence
<1>2. Forward(escape, pos + 1)
  BY <1>1, Parsing, EscapeForward
<1>3. PushElement(escape.el, escape.pos, errors \o escape.error)
  BY DEF EscapeSequence
<1> HIDE DEF escape
<1>4. Inside(escape.pos) /\ pos <= escape.pos /\ ErrorsInside(errors \o escape.error)
  <2>1. pos \in Nat /\ Inside(escape.pos) /\ pos + 1 <= escape.pos
    BY <1>2, Parsing DEF Forward
  <2>2. pos <= escape.pos
    BY <2>1 DEF Inside
  <2>3. ErrorsInside(errors \o escape.error)
    BY <1>2, Parsing, ConcatType DEF Forward, ErrorsInside
  <2> QED
    BY <2>1, <2>2, <2>3
<1> QED
  BY <1>1, <1>3, <1>4, PushStep

LEMMA EndOfChainStep ==
  ASSUME ParserInv, EndOfChain
  PROVE  ParserInv'
<1>1. PICK chain : pc = "chain" /\ ReturnChain(pos, errors, chain)
  BY DEF EndOfChain
<1> QED
  BY <1>1, Parsing, ReturnStep

(***************************************************************************)
(* Classes.                                                                *)
(***************************************************************************)
LEMMA OpenClassStep ==
  ASSUME ParserInv, OpenClass
  PROVE  ParserInv'
<1>1. InChain("[") /\ stack # <<>> /\ Inside(pos + 1)
  BY ChainSees DEF OpenClass
<1>2. Inside(pos') /\ pos <= pos'
  <2>1. CASE Sees(pos + 1, "^")
    <3>1. Inside(pos + 1 + 1)
      BY <2>1, Parsing, SeenInside
    <3> QED
      BY <2>1, <3>1, Parsing DEF OpenClass, Inside
  <2>2. CASE ~Sees(pos + 1, "^")
    BY <1>1, <2>2, Parsing DEF OpenClass, Inside
  <2> QED
    BY <2>1, <2>2
<1>3. /\ pc' = "one_of" /\ str' = str /\ next_group_index' = next_group_index
      /\ errors' = errors /\ stack' = stack
  BY DEF OpenClass
<1>4. ParserTypeInv'
  BY <1>2, <1>3 DEF ParserInv, ParserTypeInv, Inside, ErrorsInside, Positions
<1>5. Len(stack') <= pos' + 1
  BY <1>2, <1>3, Parsing DEF Inside
<1>6. StackInv'
  BY <1>1, <1>3, <1>5 DEF ParserInv, StackInv, IsStack, IsFrame
<1> QED
  BY <1>4, <1>6 DEF ParserInv

LEMMA CloseClassStep ==
  ASSUME ParserInv, CloseClass
  PROVE  ParserInv'
<1>1. stack # <<>> /\ pos <= pos
  BY Parsing DEF CloseClass
<1>2. CASE EmptyAt(pos) /\ PushElement(one_of, pos, Append(errors, pos))
  BY <1>1, <1>2, Parsing, ErrorAppended, PushStep
<1>3. CASE Sees(pos, "]") /\ PushElement(one_of, pos + 1, errors)
  <2>1. Inside(pos + 1) /\ pos <= pos + 1
    BY <1>3, Parsing, SeenInside
  <2> QED
    BY <1>1, <1>3, <2>1, Parsing, PushStep
<1> QED
  BY <1>2, <1>3 DEF CloseClass

\* A text that is seen ends inside the pattern.
LEMMA TextInside ==
  ASSUME str \in Seq(Nat), NEW p \in Nat, NEW text, Len(text) \in Nat, SeesText(p, text)
  PROVE  Inside(p + Len(text)) /\ p <= p + Len(text)
BY DEF SeesText, IsPrefixAt, Inside

LEMMA CodesLength ==
  ASSUME NEW strings, NEW n \in Nat, DOMAIN strings = 1..n
  PROVE  Len(Codes(strings)) = n
BY DEF Codes

LEMMA WordClassLength == Len(WordClass) = 8
<1> DEFINE strings == <<"[", ":", "w", "o", "r", "d", ":", "]">>
<1>1. DOMAIN strings = 1..8
  OBVIOUS
<1>2. WordClass = Codes(strings)
  BY DEF WordClass
<1> HIDE DEF strings
<1> QED
  BY <1>1, <1>2, CodesLength

LEMMA ClassWordStep ==
  ASSUME ParserInv, ClassWord
  PROVE  ParserInv'
<1>1. PICK p, class : /\ p \in {pos, pos + 1} /\ SeesText(p, WordClass)
                      /\ NextItem(class, p + Len(WordClass), errors)
  BY DEF ClassWord
<1>2. Inside(p + Len(WordClass)) /\ pos <= p + Len(WordClass)
  <2>1. p \in Nat /\ pos <= p /\ Len(WordClass) \in Nat
    BY <1>1, Parsing, WordClassLength
  <2>2. Inside(p + Len(WordClass)) /\ p <= p + Len(WordClass)
    BY <1>1, <2>1, Parsing, TextInside
  <2> QED
    BY <2>1, <2>2, Parsing DEF Inside
<1> QED
  BY <1>1, <1>2, Parsing, ItemStep DEF ClassWord

LEMMA SymbolOrRangeStep ==
  ASSUME ParserInv, pc = "one_of", NEW c, NEW p, Inside(p), pos <= p,
         NEW errs, ErrorsInside(errs), SymbolOrRange(c, p, errs)
  PROVE  ParserInv'
<1>1. str \in Seq(Nat) /\ p \in Nat /\ pos \in Nat /\ stack # <<>>
  BY Parsing DEF Inside
<1>2. CASE EmptyAt(p)
  <2>1. PushElement(one_of, p, Append(errs, p))
    BY <1>2 DEF SymbolOrRange, Sees
  <2> QED
    BY <1>1, <2>1, ErrorAppended, PushStep
<1>3. CASE Sees(p, "-")
  <2>1. Inside(p + 1) /\ ~EmptyAt(p)
    BY <1>1, <1>3, SeenInside DEF Sees
  <2>2. pos <= p + 1 /\ p + 1 \in Nat
    BY <1>1
  <2>3. CASE EmptyAt(p + 1)
    <3>1. PushElement(one_of, p + 1, Append(errs, p + 1))
      BY <1>3, <2>1, <2>3 DEF SymbolOrRange
    <3> QED
      BY <1>1, <2>1, <2>2, <3>1, ErrorAppended, PushStep
  <2>4. CASE ~EmptyAt(p + 1)
    <3>1. PICK class, e : /\ e \in {Append(errs, p + 1), errs}
                          /\ NextItem(class, p + 2, e)
      BY <1>3, <2>1, <2>4 DEF SymbolOrRange
    <3>2. Inside(p + 1 + 1)
      BY <2>2, <2>4, <1>1, SeesInside
    <3>3. Inside(p + 2) /\ pos <= p + 2
      BY <1>1, <3>2 DEF Inside
    <3> QED
      BY <1>1, <2>1, <3>1, <3>3, ErrorAppended, ItemStep
  <2> QED
    BY <2>3, <2>4
<1>4. CASE ~EmptyAt(p) /\ ~Sees(p, "-")
  <2>1. PICK class : NextItem(class, p, errs)
    BY <1>4 DEF SymbolOrRange
  <2> QED
    BY <2>1, ItemStep
<1> QED
  BY <1>2, <1>3, <1>4

LEMMA ClassSymbolStep ==
  ASSUME ParserInv, ClassSymbol
  PROVE  ParserInv'
<1>1. PICK c : SymbolOrRange(c, pos + 1, errors)
  BY DEF ClassSymbol
<1>2. pc = "one_of" /\ Inside(pos + 1) /\ pos <= pos + 1
  BY Parsing, SeesInside DEF ClassSymbol, AtItem
<1> QED
  BY <1>1, <1>2, Parsing, SymbolOrRangeStep

LEMMA ClassEscapeStep ==
  ASSUME ParserInv, ClassEscape
  PROVE  ParserInv'
<1> DEFINE escape == ParseEscapeSequence(pos + 1)
           el     == escape.el
           errs   == errors \o escape.error
<1>1. pc = "one_of" /\ Inside(pos + 1)
  BY Parsing, SeenInside DEF ClassEscape, AtItem
<1>2. Forward(escape, pos + 1)
  BY <1>1, Parsing, EscapeForward
<1>3. PICK c, class, errs2 :
        /\ errs2 \in {errs, Append(errs, escape.pos)}
        /\ SymbolOrRange(c, escape.pos, errs2) \/ NextItem(class, escape.pos, errs2)
  <2>1. CASE el.kind = "SpecificSymbol"
    <3>1. SymbolOrRange(el.code, escape.pos, errs)
      BY <2>1 DEF ClassEscape
    <3> QED
      BY <3>1
  <2>2. CASE el.kind = "OneOf"
    <3>1. PICK class : NextItem(class, escape.pos, errs)
      BY <2>2 DEF ClassEscape
    <3> QED
      BY <3>1
  <2>3. CASE el.kind # "SpecificSymbol" /\ el.kind # "OneOf"
    <3>1. SymbolOrRange(C["\\"], escape.pos, Append(errs, escape.pos))
      BY <2>3 DEF ClassEscape
    <3> QED
      BY <3>1
  <2> QED
    BY <2>1, <2>2, <2>3
<1> HIDE DEF escape
<1>4. Inside(escape.pos) /\ pos <= escape.pos /\ ErrorsInside(errs)
  <2>1. pos \in Nat /\ Inside(escape.pos) /\ pos + 1 <= escape.pos
    BY <1>2, Parsing DEF Forward
  <2>2. pos <= escape.pos
    BY <2>1 DEF Inside
  <2>3. ErrorsInside(errs)
    BY <1>2, Parsing, ConcatType DEF Forward, ErrorsInside
  <2> QED
    BY <2>1, <2>2, <2>3
<1> HIDE DEF errs
<1>5. ErrorsInside(errs2)
  BY <1>3, <1>4, Parsing, ErrorAppended
<1> QED
  BY <1>1, <1>3, <1>4, <1>5, SymbolOrRangeStep, ItemStep

(***************************************************************************)
(* Brackets that open.                                                     *)
(***************************************************************************)
LEMMA FrameMade ==
  ASSUME NEW for, NEW info
  PROVE  IsFrame(ChainFrame(for, info)) /\ ChainFrame(for, info).for = for
BY DEF IsFrame, ChainFrame

\* A chain is entered with a frame for it, behind what has been read.
LEMMA OpenStep ==
  ASSUME ParserInv, stack # <<>>, NEW p, Inside(p), Len(stack) <= p,
         NEW errs, ErrorsInside(errs), NEW for, for # "Parse", NEW info,
         next_group_index' \in Nat, EnterChain(p, errs, ChainFrame(for, info))
  PROVE  ParserInv'
BY FrameMade, EnterStep

LEMMA OpenGroupStep ==
  ASSUME ParserInv, OpenGroup
  PROVE  ParserInv'
<1>1. stack # <<>> /\ Inside(pos + 1) /\ Len(stack) <= pos + 1
  BY ChainSees, Parsing DEF OpenGroup
<1>2. next_group_index' \in Nat
  BY DEF OpenGroup, ParserInv, ParserTypeInv
<1>3. PICK info : EnterChain(pos + 1, errors, ChainFrame("Group", info))
  BY DEF OpenGroup
<1> QED
  BY <1>1, <1>2, <1>3, Parsing, OpenStep

LEMMA OpenAlternativeStep ==
  ASSUME ParserInv, OpenAlternative
  PROVE  ParserInv'
<1>1. stack # <<>> /\ Inside(pos + 1) /\ Len(stack) <= pos + 1
  BY ChainSees, Parsing DEF OpenAlternative
<1>2. next_group_index' \in Nat
  BY DEF OpenAlternative, ParserInv, ParserTypeInv
<1>3. EnterChain(pos + 1, errors, ChainFrame("|", NoInfo))
  BY DEF OpenAlternative
<1> QED
  BY <1>1, <1>2, <1>3, Parsing, OpenStep

LEMMA OpenNothingStep ==
  ASSUME ParserInv, OpenNothing
  PROVE  ParserInv'
<1>1. stack # <<>> /\ Inside(pos + 1)
  BY ChainSees DEF OpenNothing
<1>2. CASE Fail(pos + 1)
  BY <1>1, <1>2, Parsing, FailStep
<1>3. CASE Sees(pos + 1, "?") /\ Fail(pos + 2)
  <2>1. Inside(pos + 1 + 1)
    BY <1>3, Parsing, SeenInside
  <2>2. Inside(pos + 2) /\ pos <= pos + 2
    BY <2>1, Parsing DEF Inside
  <2> QED
    BY <1>1, <1>3, <2>2, FailStep
<1> QED
  BY <1>2, <1>3 DEF OpenNothing

\* Something follows "(?".
LEMMA QuestionInside ==
  ASSUME ParserInv, AtQuestion
  PROVE  /\ stack # <<>>
         /\ Inside(pos + 2) /\ Inside(pos + 3)
         /\ Len(stack) <= pos + 2 /\ Len(stack) <= pos + 3
         /\ pos <= pos + 2 /\ pos <= pos + 3
<1>1. stack # <<>> /\ ~EmptyAt(pos + 2)
  BY ChainSees DEF AtQuestion
<1>2. Inside(pos + 2) /\ Inside(pos + 2 + 1)
  BY <1>1, Parsing, SeesInside
<1>3. Inside(pos + 3)
  BY <1>2, Parsing DEF Inside
<1> QED
  BY <1>1, <1>2, <1>3, Parsing

LEMMA OpenNonCapturingGroupStep ==
  ASSUME ParserInv, OpenNonCapturingGroup
  PROVE  ParserInv'
<1>1. next_group_index' \in Nat
  BY DEF OpenNonCapturingGroup, ParserInv, ParserTypeInv
<1>2. EnterChain(pos + 3, errors, ChainFrame("NonCapturingGroup", NoInfo)) /\ AtQuestion
  BY DEF OpenNonCapturingGroup
<1> QED
  BY <1>1, <1>2, QuestionInside, Parsing, OpenStep

LEMMA OpenAtomicGroupStep ==
  ASSUME ParserInv, OpenAtomicGroup
  PROVE  ParserInv'
<1>1. next_group_index' \in Nat
  BY DEF OpenAtomicGroup, ParserInv, ParserTypeInv
<1>2. EnterChain(pos + 3, errors, ChainFrame("AtomicGroup", NoInfo)) /\ AtQuestion
  BY DEF OpenAtomicGroup
<1> QED
  BY <1>1, <1>2, QuestionInside, Parsing, OpenStep

LEMMA ParseSubroutineCallStep ==
  ASSUME ParserInv, ParseSubroutineCall
  PROVE  ParserInv'
<1>1. AtQuestion
  BY DEF ParseSubroutineCall
<1>2. CASE Sees(pos + 3, ")")
  <2>1. PICK el : PushElement(el, pos + 4, errors)
    BY <1>2 DEF ParseSubroutineCall
  <2>2. Inside(pos + 3 + 1)
    BY <1>2, Parsing, SeenInside
  <2>3. Inside(pos + 4) /\ pos <= pos + 4
    BY <2>2, Parsing DEF Inside
  <2> QED
    BY <1>1, <2>1, <2>3, QuestionInside, Parsing, PushStep
<1>3. CASE ~Sees(pos + 3, ")")
  <2>1. Fail(pos + 3)
    BY <1>3 DEF ParseSubroutineCall
  <2> QED
    BY <1>1, <2>1, QuestionInside, FailStep
<1> QED
  BY <1>2, <1>3

LEMMA LookParsedStep ==
  ASSUME ParserInv, stack # <<>>, NEW for, NEW look, NEW p, Inside(p), pos <= p,
         Len(stack) <= p, NEW errs, ErrorsInside(errs), LookParsed(for, look, p, errs)
  PROVE  ParserInv'
<1>1. CASE for = "Look"
  <2>1. PushElement(look, p, errs)
    BY <1>1 DEF LookParsed
  <2> QED
    BY <2>1, PushStep
<1>2. CASE for # "Look"
  <2>1. PICK info : EnterChain(p, errs, ChainFrame("ConditionalElement", info))
    BY <1>2 DEF LookParsed
  <2>2. next_group_index' \in Nat
    BY <1>2 DEF LookParsed, ParserInv, ParserTypeInv
  <2> QED
    BY <2>1, <2>2, OpenStep
<1> QED
  BY <1>1, <1>2

LEMMA ParseLookStep ==
  ASSUME ParserInv, stack # <<>>, NEW for, for # "Parse", NEW p, Inside(p), pos <= p,
         Len(stack) <= p, ParseLook(for, p)
  PROVE  ParserInv'
<1> DEFINE forward == ~Sees(p, "<")
           q       == IF forward THEN p ELSE p + 1
<1>1. Inside(q) /\ pos <= q /\ Len(stack) <= q
  <2>1. CASE Sees(p, "<")
    <3>1. p \in Nat /\ Inside(p + 1)
      BY <2>1, Parsing, SeenInside DEF Inside
    <3> QED
      BY <2>1, <3>1, Parsing
  <2>2. CASE ~Sees(p, "<")
    BY <2>2
  <2> QED
    BY <2>1, <2>2
<1>2. CASE Sees(q, "=") \/ Sees(q, "!")
  <2>1. PICK info : EnterChain(q + 1, errors, ChainFrame(for, info))
    BY <1>2 DEF ParseLook
  <2>2. next_group_index' \in Nat
    BY <1>2 DEF ParseLook, ParserInv, ParserTypeInv
  <2> HIDE DEF q
  <2>3. q \in Nat /\ Inside(q + 1) /\ Len(stack) <= q + 1
    BY <1>1, <1>2, Parsing, SeenInside DEF Inside
  <2> QED
    BY <2>1, <2>2, <2>3, Parsing, OpenStep
<1>3. CASE ~(Sees(q, "=") \/ Sees(q, "!"))
  <2>1. PICK look : LookParsed(for, look, q, Append(errors, q))
    BY <1>3 DEF ParseLook
  <2> HIDE DEF q
  <2>2. ErrorsInside(Append(errors, q))
    BY <1>1, Parsing, ErrorAppended
  <2> QED
    BY <1>1, <2>1, <2>2, LookParsedStep
<1> QED
  BY <1>2, <1>3

LEMMA OpenLookStep ==
  ASSUME ParserInv, OpenLook
  PROVE  ParserInv'
<1>1. AtQuestion /\ ParseLook("Look", pos + 2)
  BY DEF OpenLook
<1> QED
  BY <1>1, QuestionInside, ParseLookStep

LEMMA OpenConditionalElementStep ==
  ASSUME ParserInv, OpenConditionalElement
  PROVE  ParserInv'
<1> DEFINE strings == <<"(", "?">>
<1>1. AtQuestion /\ ParseLook("Condition", pos + 4) /\ SeesText(pos + 2, Codes(strings))
  BY DEF OpenConditionalElement, AtCondition
<1>2. DOMAIN strings = 1..2
  OBVIOUS
<1> HIDE DEF strings
<1>3. Len(Codes(strings)) = 2
  BY <1>2, CodesLength
<1>4. Inside(pos + 2 + Len(Codes(strings)))
  <2>1. pos + 2 \in Nat /\ Len(Codes(strings)) \in Nat
    BY <1>3, Parsing
  <2> QED
    BY <1>1, <2>1, Parsing, TextInside
<1>5. Inside(pos + 4) /\ pos <= pos + 4 /\ Len(stack) <= pos + 4
  BY <1>3, <1>4, Parsing DEF Inside
<1> QED
  BY <1>1, <1>5, QuestionInside, ParseLookStep

-----------------------------------------------------------------------------
(***************************************************************************)
(* A chain has returned.                                                   *)
(***************************************************************************)
LEMMA ReturnedInside ==
  ASSUME ParserInv, NEW for, ReturnedTo(for), for # "Parse"
  PROVE  /\ stack # <<>> /\ Len(stack) <= pos /\ pos <= pos
         /\ Len(stack) <= pos + 1 /\ pos <= pos + 1
BY Parsing DEF ReturnedTo, ParserInv, StackInv

LEMMA CloseStep ==
  ASSUME ParserInv, NEW for, ReturnedTo(for), for # "Parse", NEW el, Close(el)
  PROVE  ParserInv'
<1>1. CASE Sees(pos, ")")
  <2>1. PushElement(el, pos + 1, errors)
    BY <1>1 DEF Close
  <2>2. Inside(pos + 1)
    BY <1>1, Parsing, SeenInside
  <2> QED
    BY <2>1, <2>2, ReturnedInside, Parsing, PushStep
<1>2. CASE ~Sees(pos, ")")
  <2>1. Fail(pos)
    BY <1>2 DEF Close
  <2> QED
    BY <2>1, ReturnedInside, Parsing, FailStep
<1> QED
  BY <1>1, <1>2

LEMMA CloseLookStep ==
  ASSUME ParserInv, CloseLook
  PROVE  ParserInv'
<1>1. PICK for \in {"Look", "Condition"} : ReturnedTo(for)
  BY DEF CloseLook
<1>2. stack # <<>> /\ Len(stack) <= pos /\ Len(stack) <= pos + 1 /\ pos <= pos + 1 /\ pos <= pos
  BY <1>1, ReturnedInside
<1>3. CASE Sees(pos, ")")
  <2>1. PICK look : LookParsed(returned.for, look, pos + 1, errors)
    BY <1>3 DEF CloseLook
  <2>2. Inside(pos + 1)
    BY <1>3, Parsing, SeenInside
  <2> QED
    BY <1>2, <2>1, <2>2, Parsing, LookParsedStep
<1>4. CASE ~Sees(pos, ")")
  <2>1. PICK look : LookParsed(returned.for, look, pos, Append(errors, pos))
    BY <1>4 DEF CloseLook
  <2>2. ErrorsInside(Append(errors, pos))
    BY Parsing, ErrorAppended
  <2> QED
    BY <1>2, <2>1, <2>2, Parsing, LookParsedStep
<1> QED
  BY <1>3, <1>4

LEMMA CloseConditionalElementStep ==
  ASSUME ParserInv, CloseConditionalElement
  PROVE  ParserInv'
<1>1. stack # <<>> /\ pos <= pos + 1 /\ pos <= pos
  BY ReturnedInside DEF CloseConditionalElement
<1>2. CASE ~Sees(pos, ")")
  <2>1. Fail(pos)
    BY <1>2 DEF CloseConditionalElement
  <2> QED
    BY <1>1, <2>1, Parsing, FailStep
<1>3. CASE Sees(pos, ")")
  <2>1. Inside(pos + 1)
    BY <1>3, Parsing, SeenInside
  <2>2. PICK el : PushElement(el, pos + 1, errors) \/ Fail(pos + 1)
    <3> DEFINE two == IsAlternatives(returned.chain) /\ Len(returned.chain[1].el.alternatives) = 2
    <3>1. CASE two
      BY <1>3, <3>1 DEF CloseConditionalElement
    <3>2. CASE ~two
      BY <1>3, <3>2 DEF CloseConditionalElement
    <3> QED
      BY <3>1, <3>2
  <2> QED
    BY <1>1, <2>1, <2>2, Parsing, PushStep, FailStep
<1> QED
  BY <1>2, <1>3

LEMMA CloseAlternativeStep ==
  ASSUME ParserInv, CloseAlternative
  PROVE  ParserInv'
<1>1. PICK chain : ReturnedTo("|") /\ ReturnChain(pos, errors, chain)
  BY DEF CloseAlternative
<1> QED
  BY <1>1, ReturnedInside, Parsing, ReturnStep

LEMMA ParseResultStep ==
  ASSUME ParserInv, ParseResult
  PROVE  ParserInv'
<1>1. /\ pc' = "done" /\ str' = str /\ pos' = pos /\ errors' = errors /\ stack' = stack
      /\ next_group_index' = next_group_index
  BY DEF ParseResult
<1>2. ParserTypeInv'
  BY <1>1 DEF ParserInv, ParserTypeInv, Inside, ErrorsInside, Positions
<1>3. StackInv'
  BY <1>1 DEF ParserInv, StackInv, IsStack, IsFrame
<1> QED
  BY <1>2, <1>3 DEF ParserInv

LEMMA StartStep ==
  ASSUME ParserInv, Start
  PROVE  ParserInv'
<1>1. PICK text \in PatternTexts : Parse(text)
  BY DEF Start
<1>2. pos = 0 /\ errors = <<>>
  BY DEF Start, ParserInv, StackInv
<1>3. /\ str' \in Seq(Nat) /\ pos' = 0 /\ errors' = <<>> /\ next_group_index' = 1
      /\ pc' = "chain" /\ stack' = <<ChainFrame("Parse", NoInfo)>>
  BY <1>1, <1>2, PatternTextsAssumption DEF Parse
<1>4. ParserTypeInv'
  BY <1>3 DEF ParserTypeInv, Inside, ErrorsInside, Positions
<1>5. IsStack(<<ChainFrame("Parse", NoInfo)>>)
  <2> DEFINE f == ChainFrame("Parse", NoInfo)
  <2>1. IsFrame(f) /\ f.for = "Parse"
    BY FrameMade
  <2> DEFINE s == <<f>>
  <2> HIDE DEF f
  <2>2. s \in Seq({f}) /\ Len(s) = 1 /\ s[1] = f
    OBVIOUS
  <2> HIDE DEF s
  <2>3. IsStack(s)
    BY <2>1, <2>2 DEF IsStack
  <2> QED
    BY <2>3 DEF s, f
<1>6. StackInv'
  BY <1>3, <1>5 DEF StackInv, IsStack, IsFrame
<1> QED
  BY <1>4, <1>6 DEF ParserInv

LEMMA StutterStep ==
  ASSUME ParserInv, UNCHANGED vars
  PROVE  ParserInv'
<1>1. ParserTypeInv'
  BY DEF vars, ParserInv, ParserTypeInv, Inside, ErrorsInside, Positions
<1>2. StackInv'
  BY DEF vars, ParserInv, StackInv, IsStack, IsFrame
<1> QED
  BY <1>1, <1>2 DEF ParserInv

LEMMA ParserInit ==
  ASSUME Init
  PROVE  ParserInv
<1>1. ParserTypeInv
  BY DEF Init, ParserTypeInv, Inside, ErrorsInside, Positions
<1>2. StackInv
  BY DEF Init, StackInv, IsStack
<1> QED
  BY <1>1, <1>2 DEF ParserInv

LEMMA ParserNext ==
  ASSUME ParserInv, [Next]_vars
  PROVE  ParserInv'
<1>1. CASE Start
  BY <1>1, StartStep
<1>2. CASE EndOfChain
  BY <1>2, EndOfChainStep
<1>3. CASE SimpleElement \/ LiteralSymbol \/ EscapeSequence
  BY <1>3, SimpleElementStep, LiteralSymbolStep, EscapeSequenceStep
<1>4. CASE OpenClass \/ ClassWord \/ ClassSymbol \/ ClassEscape \/ CloseClass
  BY <1>4, OpenClassStep, ClassWordStep, ClassSymbolStep, ClassEscapeStep, CloseClassStep
<1>5. CASE OpenGroup \/ OpenNothing \/ ParseSubroutineCall \/ OpenNonCapturingGroup
           \/ OpenAtomicGroup \/ OpenConditionalElement \/ OpenLook \/ OpenAlternative
  BY <1>5, OpenGroupStep, OpenNothingStep, ParseSubroutineCallStep,
     OpenNonCapturingGroupStep, OpenAtomicGroupStep, OpenConditionalElementStep,
     OpenLookStep, OpenAlternativeStep
<1>6. CASE CloseGroup
  <2>1. PICK el : ReturnedTo("Group") /\ Close(el)
    BY <1>6 DEF CloseGroup
  <2> QED
    BY <2>1, CloseStep
<1>7. CASE CloseNonCapturingGroup
  <2>1. PICK el : ReturnedTo("NonCapturingGroup") /\ Close(el)
    BY <1>7 DEF CloseNonCapturingGroup
  <2> QED
    BY <2>1, CloseStep
<1>8. CASE CloseAtomicGroup
  <2>1. PICK el : ReturnedTo("AtomicGroup") /\ Close(el)
    BY <1>8 DEF CloseAtomicGroup
  <2> QED
    BY <2>1, CloseStep
<1>9. CASE CloseLook \/ CloseConditionalElement \/ CloseAlternative \/ ParseResult
  BY <1>9, CloseLookStep, CloseConditionalElementStep, CloseAlternativeStep,
     ParseResultStep
<1>10. CASE Returned \/ UNCHANGED vars
  BY <1>10, StutterStep DEF Returned
<1> QED
  BY <1>1, <1>2, <1>3, <1>4, <1>5, <1>6, <1>7, <1>8, <1>9, <1>10 DEF Next, ParseStep

-----------------------------------------------------------------------------
(***************************************************************************)
(* The theorems.                                                           *)
(***************************************************************************)
\* The invariant that the two theorems rest on.
THEOREM ParserInvariant == Spec => []ParserInv
<1>1. Init => ParserInv
  BY ParserInit
<1>2. ParserInv /\ [Next]_vars => ParserInv'
  BY ParserNext
<1> QED
  BY <1>1, <1>2, PTL DEF Spec

\* Whatever the pattern is, the parser reads nothing behind its end, reports errors
\* at positions in it, and finds the caller of every ParseChain that returns:
\* str_.front() and remove_prefix of Parser.cpp are never out of range.
THEOREM TypeCorrect == Spec => []TypeOK
<1>1. ParserInv => TypeOK
  BY DEF ParserInv, ParserTypeInv, StackInv, TypeOK, Inside, ErrorsInside, Positions
<1> QED
  BY <1>1, ParserInvariant, PTL

\* Whatever the pattern is, no more calls of ParseChain are nested than symbols have
\* been read, plus one: the recursion is bounded by the length of the pattern.
THEOREM DepthIsBounded == Spec => []DepthBounded
<1>1. ParserInv => DepthBounded
  BY DEF ParserInv, StackInv, DepthBounded
<1> QED
  BY <1>1, ParserInvariant, PTL
=============================================================================
