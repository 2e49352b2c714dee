--------------------------- MODULE RegexSemantics ---------------------------
(***************************************************************************)
(* What a regular expression means: a reference definition, over the       *)
(* syntax tree, that knows no graph, no State and no stack.  From a        *)
(* configuration c = [pos, groups] an element leads to the sequence of the *)
(* configurations after it, the preferred ones first.  A chain's first     *)
(* result is the match.                                                    *)
(***************************************************************************)
EXTENDS RegexTree

\* The elements a subroutine call stands for; 0 is the whole expression.
Called(chain, index) ==
  IF index = 0 THEN chain
  ELSE (CHOOSE x \in ElementsIn(chain, <<>>) :
          x[2].el.kind = "Group" /\ x[2].el.index = index)[2].el.elements

GroupsIn(chain) ==
  { x[2].el.index : x \in { y \in ElementsIn(chain, <<>>) : y[2].el.kind = "Group" } }

Unset == [at |-> -1, size |-> 0]

RECURSIVE ChainResults(_, _, _, _)
RECURSIVE RepeatResults(_, _, _, _)
RECURSIVE ElResults(_, _, _)
RECURSIVE Possessed(_, _, _, _)

\* q = [chain, str, multiline]: the whole expression and the subject.
ChainResults(q, chain, k, c) ==
  IF k > Len(chain) THEN <<c>>
  ELSE LET rs == RepeatResults(q, chain[k], 0, c)
       IN FlattenSeq([j \in DOMAIN rs |-> ChainResults(q, chain, k + 1, rs[j])])

RepeatResults(q, e, n, c) ==
  IF e.mode = "Possessive" /\ ~(e.min_elements = 1 /\ e.max_elements = 1)
  THEN Possessed(q, e, n, c)
  ELSE LET once == IF n < e.max_elements THEN ElResults(q, e.el, c) ELSE <<>>
           more == FlattenSeq([j \in DOMAIN once |-> RepeatResults(q, e, n + 1, once[j])])
           stop == IF n >= e.min_elements THEN <<c>> ELSE <<>>
       IN IF e.mode = "Lazy" THEN stop \o more ELSE more \o stop

\* As many first choices as possible, and no way back.
Possessed(q, e, n, c) ==
  LET once == IF n < e.max_elements THEN ElResults(q, e.el, c) ELSE <<>>
  IN IF once # <<>> THEN Possessed(q, e, n + 1, once[1])
     ELSE IF n >= e.min_elements THEN <<c>> ELSE <<>>

Where(cond, c) == IF cond THEN <<c>> ELSE <<>>

LookHolds(q, el, c) ==
  LET found ==
        IF el.forward THEN ChainResults(q, el.elements, 1, c) # <<>>
        ELSE \E p \in 0..c.pos :
               \E r \in ToSet(ChainResults(q, el.elements, 1, [c EXCEPT !.pos = p])) :
                 r.pos = c.pos
  IN found = el.positive

ElResults(q, el, c) ==
  LET sym     == ExtractCodePoint(q.str, c.pos)
      next    == [c EXCEPT !.pos = sym.pos]
      inside(r) == [r EXCEPT !.groups[el.index] = [at |-> c.pos, size |-> r.pos - c.pos]]
  IN CASE el.kind = "AnySymbol" -> Where(sym.ok, next)
       [] el.kind = "SpecificSymbol" -> Where(sym.ok /\ sym.code = el.code, next)
       [] el.kind = "OneOf" ->
            Where(/\ sym.ok
                  /\ el.inverse_flag #
                       (\/ sym.code \in el.variants
                        \/ \E r \in ToSet(el.ranges) : sym.code \in r[1]..r[2]), next)
       [] el.kind = "Group" ->
            LET rs == ChainResults(q, el.elements, 1, inside(c))
            IN [j \in DOMAIN rs |-> inside(rs[j])]
       [] el.kind = "NonCapturingGroup" -> ChainResults(q, el.elements, 1, c)
       [] el.kind = "AtomicGroup" ->
            LET rs == ChainResults(q, el.elements, 1, c) IN SubSeq(rs, 1, IF rs = <<>> THEN 0 ELSE 1)
       [] el.kind = "Alternatives" ->
            FlattenSeq([j \in DOMAIN el.alternatives |->
                          ChainResults(q, el.alternatives[j], 1, c)])
       [] el.kind = "BackReference" ->
            LET v == c.groups[el.index]
                s == SubSeq(q.str, v.at + 1, v.at + v.size)
            IN Where(IsPrefixAt(s, q.str, c.pos), [c EXCEPT !.pos = @ + v.size])
       [] el.kind = "Look" -> Where(LookHolds(q, el, c), c)
       [] el.kind = "LineStartAssertion" ->
            Where(c.pos = 0 \/ (q.multiline /\ q.str[c.pos] = 10), c)
       [] el.kind = "LineEndAssertion" ->
            Where(c.pos = Len(q.str) \/ (q.multiline /\ q.str[c.pos + 1] = 10), c)
       [] el.kind = "ConditionalElement" ->
            ChainResults(q, el.alternatives.alternatives[IF LookHolds(q, el.look, c) THEN 1 ELSE 2],
                         1, c)
       [] el.kind = "SubroutineCall" ->
            \* A call has its own inner groups: unset when it begins, forgotten when it ends.
            LET body  == Called(q.chain, el.index)
                inner == GroupsIn(body)
                own   == [c EXCEPT !.groups = [g \in DOMAIN @ |-> IF g \in inner THEN Unset ELSE @[g]]]
                rs    == ChainResults(q, body, 1, own)
            IN [j \in DOMAIN rs |->
                  [rs[j] EXCEPT !.groups =
                     [g \in DOMAIN @ |-> IF g \in inner THEN c.groups[g] ELSE @[g]]]]

(***************************************************************************)
(* The first position from start_pos on where the expression matches.      *)
(***************************************************************************)
MatchesFrom(q, p) ==
  ChainResults(q, q.chain, 1, [pos |-> p, groups |-> [g \in GroupsIn(q.chain) |-> Unset]])

SearchResult(q, start_pos) ==
  LET starts == { p \in start_pos..(Len(q.str) - 1) : MatchesFrom(q, p) # <<>> }
  IN IF starts = {} THEN [found |-> FALSE]
     ELSE LET p == Min(starts)
              r == MatchesFrom(q, p)[1]
          IN [found |-> TRUE, begin |-> p, end |-> r.pos, groups |-> r.groups]
=============================================================================
