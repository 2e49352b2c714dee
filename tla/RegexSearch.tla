---------------------------- MODULE RegexSearch ----------------------------
(***************************************************************************)
(* What a search promises, whoever carries it out: a query is answered     *)
(* once, and the answer is the one the meaning of the expression gives.    *)
(***************************************************************************)
EXTENDS RegexSemantics

VARIABLES
  query,    \* NoQuery, or [chain, multiline, str, start_pos, asked]
  reply     \* Pending, or the outcome of the query

NoQuery == [chain |-> <<>>]
Pending == [found |-> FALSE, pending |-> TRUE]

\* The text matched, and that of the groups somebody asks for.  A group that
\* took no part reads as the empty text at the end of the string.
Outcome(q) ==
  LET r == SearchResult(q, q.start_pos)
      shown(v) == IF v = Unset THEN [at |-> Len(q.str), size |-> 0] ELSE v
  IN IF ~r.found THEN [found |-> FALSE]
     ELSE [found |-> TRUE, at |-> r.begin, size |-> r.end - r.begin,
           groups |-> [g \in q.asked |-> shown(r.groups[g])]]

Init == query = NoQuery /\ reply = Pending

Ask ==
  /\ query = NoQuery
  /\ query' # NoQuery
  /\ UNCHANGED reply

Answer ==
  /\ query # NoQuery
  /\ reply = Pending
  /\ reply' # Pending
  /\ reply' = Outcome(query)
  /\ UNCHANGED query

Spec == Init /\ [][Ask \/ Answer]_<<query, reply>>
=============================================================================
