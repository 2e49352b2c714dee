-------------------------- MODULE OptimizerProofs --------------------------
(***************************************************************************)
(* Theorems about RegexGraphOptimizer, for every set of graphs it may be   *)
(* given: the graph stays a graph, no node escapes a walk, and the lengths *)
(* of loops are right.                                                     *)
(***************************************************************************)
EXTENDS RegexGraphOptimizer, GraphLemmas, SequenceTheorems

-----------------------------------------------------------------------------
(***************************************************************************)
(* Sequences and sets of pointers.                                         *)
(***************************************************************************)
LEMMA ConcatSet ==
  ASSUME NEW S, NEW s \in Seq(S), NEW t \in Seq(S)
  PROVE  /\ s \o t \in Seq(S)
         /\ ToSet(s \o t) = ToSet(s) \cup ToSet(t)
<1>1. s \o t \in Seq(S) /\ Len(s \o t) = Len(s) + Len(t)
  OBVIOUS
<1>2. \A k \in DOMAIN (s \o t) : (s \o t)[k] \in ToSet(s) \cup ToSet(t)
  <2> TAKE k \in DOMAIN (s \o t)
  <2>1. k \in 1..(Len(s) + Len(t))
    BY <1>1
  <2>2. CASE k <= Len(s)
    BY <2>1, <2>2 DEF ToSet
  <2>3. CASE k > Len(s)
    <3>1. k - Len(s) \in DOMAIN t /\ (s \o t)[k] = t[k - Len(s)]
      BY <2>1, <2>3
    <3> QED
      BY <3>1 DEF ToSet
  <2> QED
    BY <2>1, <2>2, <2>3
<1>3. \A k \in DOMAIN s : k \in DOMAIN (s \o t) /\ (s \o t)[k] = s[k]
  BY <1>1
<1>4. \A k \in DOMAIN t : Len(s) + k \in DOMAIN (s \o t) /\ (s \o t)[Len(s) + k] = t[k]
  BY <1>1
<1>5. ToSet(s \o t) \subseteq ToSet(s) \cup ToSet(t)
  BY <1>2 DEF ToSet
<1>6. ToSet(s) \subseteq ToSet(s \o t)
  BY <1>3 DEF ToSet
<1>7. ToSet(t) \subseteq ToSet(s \o t)
  BY <1>4 DEF ToSet
<1> QED
  BY <1>1, <1>5, <1>6, <1>7

\* What is to be visited, as a set.
LEMMA ToVisitSet ==
  ASSUME NEW S, NEW ps \in Seq(S), NEW seen
  PROVE  /\ ToVisit(ps, seen) \in Seq(S \ (seen \cup {nullptr}))
         /\ ToSet(ToVisit(ps, seen)) = ToSet(ps) \ (seen \cup {nullptr})
<1> DEFINE N == Len(ps)
           skip == seen \cup {nullptr}
           V == Seq(S \ skip)
           part(k) == IF ps[k] \in skip THEN <<>> ELSE <<ps[k]>>
           step == [k \in 1..N |-> [v \in V |-> v \o part(k)]]
           F[k \in 0..N] == IF k = 0 THEN <<>> ELSE F[k - 1] \o part(k)
           Ok(k) == F[k] \in V /\ ToSet(F[k]) = { ps[j] : j \in 1..k } \ skip
           Bad == { k \in 0..N : ~Ok(k) }
<1>1. N \in Nat /\ \A k \in 1..N : part(k) \in V
  <2>1. N \in Nat /\ \A k \in 1..N : ps[k] \in S
    OBVIOUS
  <2>2. \A x \in S : x \notin skip => <<x>> \in V
    OBVIOUS
  <2>3. <<>> \in V
    OBVIOUS
  <2> HIDE DEF N, V, skip
  <2> QED
    BY <2>1, <2>2, <2>3
<1>2. step \in [1..N -> [V -> V]]
  <2> HIDE DEF part
  <2> QED
    BY <1>1
<1>3. \E f : f = [k \in 0..N |-> IF k = 0 THEN <<>> ELSE f[k - 1] \o part(k)]
  <2>1. <<>> \in V
    OBVIOUS
  <2>2. PICK f \in [0..N -> V] : Recurs(f, N, <<>>, step)
    <3>1. IsSteps(step, N, V)
      BY <1>1, <1>2 DEF IsSteps
    <3> HIDE DEF step, V, N, F, part
    <3> QED
      BY <2>1, <3>1, RecursionExists
  <2>3. \A k \in 0..N : k # 0 => f[k] = f[k - 1] \o part(k)
    <3> TAKE k \in 0..N
    <3> HIDE DEF part, V, N, F, Bad
    <3>1. k # 0 => k \in 1..N /\ k - 1 \in 0..N
      BY <1>1
    <3>2. k # 0 => k \in 1..N /\ f[k - 1] \in V
      BY <3>1, <2>2
    <3> QED
      BY <3>1, <3>2, <2>2 DEF Recurs
  <2>4. f = [k \in 0..N |-> IF k = 0 THEN <<>> ELSE f[k - 1] \o part(k)]
    <3> HIDE DEF step, part, V, N, F
    <3> QED
      BY <2>2, <2>3 DEF Recurs
  <2> QED
    BY <2>4
<1>4. F = [k \in 0..N |-> IF k = 0 THEN <<>> ELSE F[k - 1] \o part(k)]
  <2> HIDE DEF part, N
  <2> QED
    BY <1>3
<1>5. ToVisit(ps, seen) = F[N]
  BY DEF ToVisit
<1> HIDE DEF F
<1>6. Bad = {}
  <2> SUFFICES ASSUME Bad # {}
               PROVE  FALSE
    OBVIOUS
  <2>1. PICK m \in Bad : \A k \in Bad : m <= k
    <3>1. Bad \subseteq Nat
      OBVIOUS
    <3> HIDE DEF Bad
    <3> QED
      BY <3>1, Smallest
  <2>2. m # 0
    <3>1. F[0] = <<>>
      BY <1>1, <1>4
    <3>2. ToSet(<<>>) = {} /\ { ps[j] : j \in 1..0 } = {}
      BY DEF ToSet
    <3>3. Ok(0)
      BY <3>1, <3>2
    <3> QED
      BY <3>3
  <2>3. m \in 1..N /\ m - 1 \in 0..N /\ ~(m <= m - 1)
    BY <1>1, <2>2
  <2>4. Ok(m - 1)
    BY <2>1, <2>3
  <2>5. F[m] = F[m - 1] \o part(m)
    <3> HIDE DEF part, Bad, Ok, N
    <3>1. m \in 0..N /\ m # 0
      BY <2>3, <1>1
    <3> QED
      BY <1>4, <3>1
  <2>6. part(m) \in V /\ ToSet(part(m)) = {ps[m]} \ skip
    BY <1>1, <2>3 DEF ToSet
  <2>7. F[m] \in V /\ ToSet(F[m]) = ToSet(F[m - 1]) \cup ToSet(part(m))
    <3>1. F[m - 1] \in Seq(S \ skip) /\ part(m) \in Seq(S \ skip)
      BY <2>4, <2>6
    <3> HIDE DEF part, Bad, Ok, skip
    <3>2. /\ F[m - 1] \o part(m) \in Seq(S \ skip)
          /\ ToSet(F[m - 1] \o part(m)) = ToSet(F[m - 1]) \cup ToSet(part(m))
      BY <3>1, ConcatSet
    <3> QED
      BY <2>5, <3>2
  <2>8. { ps[j] : j \in 1..m } = { ps[j] : j \in 1..(m - 1) } \cup {ps[m]}
    <3>1. 1..m = 1..(m - 1) \cup {m}
      BY <2>3
    <3> QED
      BY <3>1
  <2>9. Ok(m)
    <3> HIDE DEF part
    <3> QED
      BY <2>4, <2>6, <2>7, <2>8
  <2> QED
    BY <2>1, <2>9
<1>7. Ok(N)
  <2>1. N \in 0..N /\ N \notin Bad
    <3> HIDE DEF Bad
    <3> QED
      BY <1>1, <1>6
  <2> QED
    BY <2>1
<1> QED
  BY <1>5, <1>7 DEF ToSet

-----------------------------------------------------------------------------
(***************************************************************************)
(* Text.  The optimizer converts one code point, or two of them.           *)
(***************************************************************************)
LEMMA FlattenOne ==
  ASSUME NEW a
  PROVE  FlattenSeq(<<a>>) = a
<1> DEFINE s == <<a>>
           F[i \in 1..Len(s)] == IF i = 1 THEN s[i] ELSE F[i - 1] \o s[i]
<1>1. F = [i \in 1..Len(s) |-> IF i = 1 THEN s[i] ELSE F[i - 1] \o s[i]]
  <2> DEFINE f == [i \in 1..1 |-> a]
  <2>1. f = [i \in 1..Len(s) |-> IF i = 1 THEN s[i] ELSE f[i - 1] \o s[i]]
    OBVIOUS
  <2> HIDE DEF f
  <2> QED
    BY <2>1
<1>2. Len(s) = 1 /\ s[1] = a
  OBVIOUS
<1>3. FlattenSeq(s) = F[Len(s)]
  BY <1>2 DEF FlattenSeq
<1> HIDE DEF F
<1>4. F[1] = a
  BY <1>1, <1>2
<1> QED
  BY <1>2, <1>3, <1>4

LEMMA FlattenTwo ==
  ASSUME NEW a, NEW b
  PROVE  FlattenSeq(<<a, b>>) = a \o b
<1> DEFINE s == <<a, b>>
           F[i \in 1..Len(s)] == IF i = 1 THEN s[i] ELSE F[i - 1] \o s[i]
<1>2. Len(s) = 2 /\ s[1] = a /\ s[2] = b
  OBVIOUS
<1>1. F = [i \in 1..Len(s) |-> IF i = 1 THEN s[i] ELSE F[i - 1] \o s[i]]
  <2> DEFINE f == [i \in 1..2 |-> IF i = 1 THEN a ELSE a \o b]
  <2>1. f[1] = a /\ f[2] = a \o b
    OBVIOUS
  <2>2. \A i \in 1..2 : f[i] = IF i = 1 THEN s[i] ELSE f[i - 1] \o s[i]
    <3> HIDE DEF f
    <3>1. \A i \in 1..2 : i = 1 \/ (i = 2 /\ i - 1 = 1)
      OBVIOUS
    <3> QED
      BY <1>2, <2>1, <3>1
  <2>3. f = [i \in 1..Len(s) |-> IF i = 1 THEN s[i] ELSE f[i - 1] \o s[i]]
    <3>1. f = [i \in 1..2 |-> f[i]]
      OBVIOUS
    <3> HIDE DEF f
    <3> QED
      BY <1>2, <2>2, <3>1
  <2> HIDE DEF f
  <2> QED
    BY <2>3
<1>3. FlattenSeq(s) = F[Len(s)]
  BY <1>2 DEF FlattenSeq
<1> HIDE DEF F
<1>4. F[1] = a
  BY <1>1, <1>2
<1>5. F[2] = F[1] \o s[2]
  <2>1. 2 \in 1..Len(s) /\ 2 # 1 /\ 2 - 1 = 1
    BY <1>2
  <2> HIDE DEF s
  <2> QED
    BY <1>1, <2>1
<1> QED
  BY <1>2, <1>3, <1>4, <1>5

LEMMA FlattenNone == FlattenSeq(<<>>) = <<>>
BY DEF FlattenSeq

LEMMA MinOfPositions ==
  ASSUME NEW S, S \subseteq 1..2, S # {}
  PROVE  Min(S) \in S /\ \A k \in S : Min(S) <= k
<1>1. \E m \in S : \A k \in S : m <= k
  <2>1. S \subseteq Nat
    OBVIOUS
  <2> QED
    BY <2>1, Smallest
<1> QED
  BY <1>1 DEF Min

LEMMA ShortText ==
  ASSUME NEW c \in Nat, NEW d \in Nat
  PROVE  /\ SubSeq(<<c>>, 1, 0) = <<>> /\ SubSeq(<<c>>, 1, 1) = <<c>>
         /\ SubSeq(<<c, d>>, 1, 0) = <<>> /\ SubSeq(<<c, d>>, 1, 1) = <<c>>
         /\ SubSeq(<<c, d>>, 1, 2) = <<c, d>>
<1>1. SubSeq(<<c>>, 1, 0) = <<>> /\ SubSeq(<<c, d>>, 1, 0) = <<>>
  OBVIOUS
<1>2. SubSeq(<<c>>, 1, 1) = <<c>>
  <2>1. <<c>> \in Seq(Nat) /\ Len(<<c>>) = 1
    OBVIOUS
  <2> QED
    BY <2>1, SubSeqFull
<1>3. SubSeq(<<c, d>>, 1, 2) = <<c, d>>
  <2>1. <<c, d>> \in Seq(Nat) /\ Len(<<c, d>>) = 2
    OBVIOUS
  <2> QED
    BY <2>1, SubSeqFull
<1>4. SubSeq(<<c, d>>, 1, 1) = <<c>>
  <2> DEFINE s == SubSeq(<<c, d>>, 1, 1)
  <2>1. s \in Seq(Nat) /\ Len(s) = 1 /\ s[1] = c
    OBVIOUS
  <2> HIDE DEF s
  <2>2. s = <<c>>
    BY <2>1
  <2> QED
    BY <2>2 DEF s
<1> QED
  BY <1>1, <1>2, <1>3, <1>4

\* What becomes of the text of a buffer.
LEMMA TextAsBytes ==
  ASSUME NEW c \in Nat, NEW d \in Nat, NEW text, text \in {<<>>, <<c>>, <<c, d>>}
  PROVE  (IF \E k \in DOMAIN text : ~ValidCode(text[k]) THEN <<>>
          ELSE FlattenSeq([k \in DOMAIN text |-> Utf8(text[k])])) \in Seq(Byte)
<1>1. <<>> \in Seq(Byte)
  OBVIOUS
<1>2. (\A k \in DOMAIN text : ValidCode(text[k]))
        => FlattenSeq([k \in DOMAIN text |-> Utf8(text[k])]) \in Seq(Byte)
  <2> SUFFICES ASSUME \A k \in DOMAIN text : ValidCode(text[k])
               PROVE  FlattenSeq([k \in DOMAIN text |-> Utf8(text[k])]) \in Seq(Byte)
    OBVIOUS
  <2>1. CASE text = <<>>
    <3>1. [k \in DOMAIN text |-> Utf8(text[k])] = <<>>
      BY <2>1
    <3> QED
      BY <1>1, <3>1, FlattenNone
  <2>2. CASE text = <<c>>
    <3>1. [k \in DOMAIN text |-> Utf8(text[k])] = <<Utf8(c)>>
      BY <2>2
    <3>2. ValidCode(c)
      BY <2>2
    <3>3. Utf8(c) \in Seq(Byte)
      BY <3>2, Utf8Bytes
    <3> QED
      BY <3>1, <3>3, FlattenOne
  <2>3. CASE text = <<c, d>>
    <3>1. [k \in DOMAIN text |-> Utf8(text[k])] = <<Utf8(c), Utf8(d)>>
      BY <2>3
    <3>2. ValidCode(c) /\ ValidCode(d)
      <4>1. 1 \in DOMAIN text /\ 2 \in DOMAIN text /\ text[1] = c /\ text[2] = d
        BY <2>3
      <4> QED
        BY <4>1
    <3>3. Utf8(c) \o Utf8(d) \in Seq(Byte)
      <4>1. Utf8(c) \in Seq(Byte) /\ Utf8(d) \in Seq(Byte)
        BY <3>2, Utf8Bytes
      <4> QED
        BY <4>1
    <3> QED
      BY <3>1, <3>3, FlattenTwo
  <2> QED
    BY <2>1, <2>2, <2>3
<1> QED
  BY <1>1, <1>2

\* The text of a buffer of one or two codes, up to the first zero.
LEMMA Utf32OfOne ==
  ASSUME NEW c \in Nat
  PROVE  /\ Utf32ToUtf8(<<c>>) \in Seq(Byte)
         /\ ValidCode(c) /\ c # 0 => Utf32ToUtf8(<<c>>) = Utf8(c)
<1> DEFINE codes == <<c>>
           zeros == { k \in DOMAIN codes : codes[k] = 0 }
           text  == SubSeq(codes, 1, IF zeros = {} THEN Len(codes) ELSE Min(zeros) - 1)
<1>1. DOMAIN codes = {1} /\ Len(codes) = 1 /\ codes[1] = c
  OBVIOUS
<1>2. Utf32ToUtf8(<<c>>) = IF \E k \in DOMAIN text : ~ValidCode(text[k]) THEN <<>>
                           ELSE FlattenSeq([k \in DOMAIN text |-> Utf8(text[k])])
  BY DEF Utf32ToUtf8
<1>3. c # 0 => text = <<c>>
  BY <1>1, ShortText
<1>4. c = 0 => text = <<>>
  <2> SUFFICES ASSUME c = 0
               PROVE  text = <<>>
    OBVIOUS
  <2>1. {1} \subseteq 1..2 /\ {1} # {}
    OBVIOUS
  <2>2. zeros = {1} /\ Min({1}) = 1
    BY <1>1, <2>1, MinOfPositions
  <2> QED
    BY <2>2, ShortText
<1> HIDE DEF text
<1>5. Utf32ToUtf8(<<c>>) \in Seq(Byte)
  <2>1. text \in {<<>>, <<c>>, <<c, c>>}
    BY <1>3, <1>4
  <2> QED
    BY <1>2, <2>1, TextAsBytes
<1>6. ASSUME ValidCode(c), c # 0
      PROVE  Utf32ToUtf8(<<c>>) = Utf8(c)
  <2>1. [k \in DOMAIN <<c>> |-> Utf8(<<c>>[k])] = <<Utf8(c)>>
    OBVIOUS
  <2>2. ~ \E k \in DOMAIN text : ~ValidCode(text[k])
    BY <1>1, <1>3, <1>6
  <2> QED
    BY <1>2, <1>3, <1>6, <2>1, <2>2, FlattenOne
<1> QED
  BY <1>5, <1>6

LEMMA Utf32OfTwo ==
  ASSUME NEW c \in Nat, NEW d \in Nat
  PROVE  Utf32ToUtf8(<<c, d>>) \in Seq(Byte)
<1> DEFINE codes == <<c, d>>
           zeros == { k \in DOMAIN codes : codes[k] = 0 }
           text  == SubSeq(codes, 1, IF zeros = {} THEN Len(codes) ELSE Min(zeros) - 1)
<1>1. DOMAIN codes = 1..2 /\ Len(codes) = 2
  OBVIOUS
<1>2. text \in {<<>>, <<c>>, <<c, d>>}
  <2>1. CASE zeros = {}
    BY <1>1, <2>1, ShortText
  <2>2. CASE zeros # {}
    <3>1. zeros \subseteq 1..2 /\ Min(zeros) \in zeros
      BY <1>1, <2>2, MinOfPositions
    <3>2. Min(zeros) \in 1..2
      BY <3>1
    <3> HIDE DEF zeros
    <3>3. Min(zeros) - 1 = 0 \/ Min(zeros) - 1 = 1
      BY <3>2
    <3> QED
      BY <2>2, <3>3, ShortText
  <2> QED
    BY <2>1, <2>2
<1>3. Utf32ToUtf8(<<c, d>>) = IF \E k \in DOMAIN text : ~ValidCode(text[k]) THEN <<>>
                              ELSE FlattenSeq([k \in DOMAIN text |-> Utf8(text[k])])
  BY DEF Utf32ToUtf8
<1> HIDE DEF text
<1> QED
  BY <1>2, <1>3, TextAsBytes
-----------------------------------------------------------------------------
(***************************************************************************)
(* Nodes and pointers.                                                     *)
(***************************************************************************)
PtrOf(g) == DOMAIN g.node \cup {nullptr}

LEMMA NewPointer ==
  ASSUME NEW p \in Seq(Int), NEW k \in Int
  PROVE  /\ New(p, k) \in Seq(Int)
         /\ New(p, k) # nullptr /\ New(p, k) # p
         /\ Last(New(p, k)) = -(20 + k)
         /\ Front(New(p, k)) = p
<1> DEFINE q == Append(p, -(20 + k))
<1>1. -(20 + k) \in Int
  OBVIOUS
<1>2. q \in Seq(Int) /\ Len(q) = Len(p) + 1 /\ q[Len(q)] = -(20 + k)
  <2> HIDE DEF q
  <2>1. q = Append(p, -(20 + k))
    BY DEF q
  <2> QED
    BY <1>1, <2>1
<1>3. SubSeq(q, 1, Len(q) - 1) = p
  <2> DEFINE s == SubSeq(q, 1, Len(q) - 1)
  <2>1. s \in Seq(Int) /\ Len(s) = Len(p) /\ \A i \in 1..Len(p) : s[i] = p[i]
    <3>1. \A i \in 1..Len(p) : q[i] = p[i] /\ q[i] \in Int
      BY <1>1
    <3> HIDE DEF q
    <3> QED
      BY <1>2, <3>1
  <2> HIDE DEF s
  <2>2. s = p
    BY <2>1, SeqEqual
  <2> QED
    BY <2>2 DEF s
<1>4. q # nullptr /\ q # p
  <2> HIDE DEF q
  <2> QED
    BY <1>2 DEF nullptr
<1> QED
  BY <1>2, <1>3, <1>4 DEF New, Last, Front

LEMMA NewInjective ==
  ASSUME NEW p \in Seq(Int), NEW j \in Int, NEW k \in Int, New(p, j) = New(p, k)
  PROVE  j = k
<1>1. -(20 + j) = -(20 + k)
  BY NewPointer
<1> QED
  BY <1>1

LEMMA OverFacts ==
  ASSUME NEW p, NEW n, NEW f
  PROVE  /\ DOMAIN Over(NodeAt(p, n), f) = {p} \cup DOMAIN f
         /\ Over(NodeAt(p, n), f)[p] = n
         /\ \A q \in DOMAIN f : q # p => Over(NodeAt(p, n), f)[q] = f[q]
BY DEF Over, NodeAt

LEMMA StringOK ==
  ASSUME NEW s \in Seq(Byte), NEW Ptr, Ptr \subseteq Seq(Int), NEW next \in Ptr, NEW Ids
  PROVE  /\ NodeOK(StringNode(s, next), Ptr, Ids)
         /\ StringNode(s, next) \in SimpleNodes
         /\ StringNode(s, next).kind = "String" /\ StringNode(s, next).next = next
<1> DEFINE n == StringNode(s, next)
<1>1. n.kind = "String" /\ n.str = s /\ n.next = next
  BY DEF StringNode
<1>2. n \in SimpleNodes
  BY DEF StringNode, SimpleNodes
<1> HIDE DEF n
<1>3. NodeOK(n, Ptr, Ids)
  BY <1>1 DEF NodeOK, Kinds, NextKinds, GroupKinds, LookKinds, CounterKinds, CountedKinds,
              LoopKinds
<1> QED
  BY <1>1, <1>2, <1>3 DEF n

\* A copy that ends where it is: all but its successor is as before.
LEMMA CutOffOK ==
  ASSUME NEW n \in SimpleNodes, NEW Ptr, nullptr \in Ptr, NEW Ids
  PROVE  /\ CutOff(n) \in SimpleNodes
         /\ CutOff(n).kind = n.kind /\ CutOff(n).next = nullptr
         /\ n.kind \in SimpleKinds
         /\ n.kind = "SpecificSymbol" => CutOff(n).code = n.code
         /\ n.kind = "String" => CutOff(n).str = n.str
         /\ n.kind = "OneOf" => /\ CutOff(n).variants = n.variants
                                /\ CutOff(n).ranges = n.ranges
                                /\ CutOff(n).inverse_flag = n.inverse_flag
         /\ NodeOK(CutOff(n), Ptr, Ids)
<1> DEFINE c == CutOff(n)
<1>0. nullptr \in Seq(Int)
  BY DEF nullptr
<1>1. CASE n \in [kind : {"SpecificSymbol"}, code : Nat, next : Seq(Int)]
  <2>1. c = [kind |-> "SpecificSymbol", code |-> n.code, next |-> nullptr]
    BY <1>1 DEF CutOff
  <2>2. c.kind = n.kind /\ n.kind = "SpecificSymbol" /\ c.code = n.code /\ c.next = nullptr
        /\ n.code \in Nat
    BY <1>1, <2>1
  <2>3. c \in SimpleNodes
    BY <1>0, <2>1, <2>2 DEF SimpleNodes
  <2> HIDE DEF c
  <2>4. NodeOK(c, Ptr, Ids)
    BY <2>2 DEF NodeOK, Kinds, NextKinds, GroupKinds, LookKinds, CounterKinds, CountedKinds,
                LoopKinds
  <2> QED
    BY <2>2, <2>3, <2>4 DEF c, SimpleKinds
<1>2. CASE n \in [kind : {"String"}, str : Seq(Byte), next : Seq(Int)]
  <2>1. c = [kind |-> "String", str |-> n.str, next |-> nullptr]
    BY <1>2 DEF CutOff
  <2>2. c.kind = n.kind /\ n.kind = "String" /\ c.str = n.str /\ c.next = nullptr
        /\ n.str \in Seq(Byte)
    BY <1>2, <2>1
  <2>3. c \in SimpleNodes
    BY <1>0, <2>1, <2>2 DEF SimpleNodes
  <2> HIDE DEF c
  <2>4. NodeOK(c, Ptr, Ids)
    BY <2>2 DEF NodeOK, Kinds, NextKinds, GroupKinds, LookKinds, CounterKinds, CountedKinds,
                LoopKinds
  <2> QED
    BY <2>2, <2>3, <2>4 DEF c, SimpleKinds
<1>3. CASE n \in [kind : {"OneOf"}, variants : SUBSET Nat, ranges : Seq(Nat \X Nat),
                  inverse_flag : BOOLEAN, next : Seq(Int)]
  <2>1. c = [kind |-> "OneOf", variants |-> n.variants, ranges |-> n.ranges,
             inverse_flag |-> n.inverse_flag, next |-> nullptr]
    BY <1>3 DEF CutOff
  <2>2. /\ c.kind = n.kind /\ n.kind = "OneOf" /\ c.next = nullptr
        /\ c.variants = n.variants /\ c.ranges = n.ranges /\ c.inverse_flag = n.inverse_flag
        /\ n.variants \subseteq Nat /\ n.ranges \in Seq(Nat \X Nat)
        /\ n.inverse_flag \in BOOLEAN
    BY <1>3, <2>1
  <2>3. c \in SimpleNodes
    BY <1>0, <2>1, <2>2 DEF SimpleNodes
  <2> HIDE DEF c
  <2>4. NodeOK(c, Ptr, Ids)
    BY <2>2 DEF NodeOK, Kinds, NextKinds, GroupKinds, LookKinds, CounterKinds, CountedKinds,
                LoopKinds
  <2> QED
    BY <2>2, <2>3, <2>4 DEF c, SimpleKinds
<1> QED
  BY <1>1, <1>2, <1>3 DEF SimpleNodes

-----------------------------------------------------------------------------
(***************************************************************************)
(* The forms of what an optimization writes.                               *)
(***************************************************************************)
Joins(g, p, nodes) ==
  /\ IsText(g, p) /\ IsText(g, g.node[p].next)
  /\ \E s \in Seq(Byte) :
       nodes = NodeAt(p, StringNode(s, g.node[g.node[p].next].next))

Splits(g, p, nodes) ==
  LET branches == g.node[p].next
  IN /\ g.node[p].kind = "Alternatives" /\ branches # <<>>
     /\ \A j \in DOMAIN branches : IsText(g, branches[j])
     /\ \E s \in Seq(Byte) : \E parts, rests :
          /\ nodes = Over(NodeAt(p, StringNode(s, New(p, 0))),
                          Over(NodeAt(New(p, 0), [kind |-> "Alternatives", next |-> parts]),
                               rests))
          /\ DOMAIN rests \subseteq { New(p, j) : j \in DOMAIN branches }
          /\ parts = [j \in DOMAIN branches |->
                        IF New(p, j) \in DOMAIN rests THEN New(p, j)
                        ELSE g.node[branches[j]].next]
          /\ \A j \in DOMAIN branches : New(p, j) \in DOMAIN rests =>
               \E t \in Seq(Byte) : rests[New(p, j)] = StringNode(t, g.node[branches[j]].next)

Keeps(g, p, nodes) ==
  LET first  == g.node[p].next[1]
      second == g.node[p].next[2]
  IN /\ g.node[p].kind = "Alternatives" /\ Len(g.node[p].next) = 2
     /\ KindAt(g, first) \in SimpleKinds
     /\ nodes = Over(NodeAt(p, [kind |-> "AlternativesPossessive",
                                path0_element |-> New(p, 1),
                                path0_next |-> g.node[first].next, path1_next |-> second]),
                     NodeAt(New(p, 1), CutOff(g.node[first])))

Rolls(g, p, nodes) ==
  /\ IsSimpleLoop(g, p)
  /\ nodes = Over(NodeAt(p, [kind |-> "SingleRollbackPointSequence",
                             next |-> g.node[p].next[2], sequence_element |-> New(p, 1)]),
                  LoopElement(g, p))

Measures(g, p, nodes) ==
  /\ IsSimpleLoop(g, p)
  /\ \E length \in ElementLength(g, g.node[p].next[1]) :
       nodes = Over(NodeAt(p, [kind |-> "FixedLengthElementSequence",
                               next |-> g.node[p].next[2], sequence_element |-> New(p, 1),
                               min_elements |-> 0, max_elements |-> SizeMax,
                               element_length |-> length]),
                    LoopElement(g, p))

Forms(g, p, nodes) ==
  nodes = Unchanged \/ Joins(g, p, nodes) \/ Splits(g, p, nodes) \/ Keeps(g, p, nodes)
    \/ Rolls(g, p, nodes) \/ Measures(g, p, nodes)

LEMMA TextBytes ==
  ASSUME NEW g, GraphOK(g), NEW p, p \in PtrOf(g), IsText(g, p)
  PROVE  /\ p \in DOMAIN g.node
         /\ g.node[p].kind \in SimpleKinds
         /\ g.node[p].next \in PtrOf(g)
         /\ TextOf(g.node[p]) \in Seq(Byte)
         /\ g.node[p].kind = "SpecificSymbol" => g.node[p].code \in Nat
         /\ g.node[p].kind = "String" => g.node[p].str \in Seq(Byte)
<1>1. p \in DOMAIN g.node /\ g.node[p].kind \in {"SpecificSymbol", "String"}
  BY DEF IsText, KindAt, PtrOf
<1>2. NodeOK(g.node[p], PtrOf(g), g.used_sequence_counters)
  BY <1>1 DEF GraphOK, PtrOf
<1>3. /\ g.node[p].next \in PtrOf(g)
      /\ g.node[p].kind = "SpecificSymbol" => g.node[p].code \in Nat
      /\ g.node[p].kind = "String" => g.node[p].str \in Seq(Byte)
  BY <1>1, <1>2 DEF NodeOK, NextKinds
<1>4. TextOf(g.node[p]) \in Seq(Byte)
  BY <1>1, <1>3, Utf32OfOne DEF TextOf
<1> QED
  BY <1>1, <1>3, <1>4 DEF SimpleKinds

LEMMA CombiningForm ==
  ASSUME NEW g, GraphOK(g), NEW p \in DOMAIN g.node
  PROVE  SymbolsCombining(g, p) = Unchanged \/ Joins(g, p, SymbolsCombining(g, p))
<1> DEFINE n    == g.node[p]
           tail == g.node[n.next]
           s    == IF n.kind = "SpecificSymbol" /\ tail.kind = "SpecificSymbol"
                   THEN Utf32ToUtf8(<<n.code, tail.code>>)
                   ELSE TextOf(n) \o TextOf(tail)
<1>1. CASE ~(IsText(g, p) /\ IsText(g, n.next))
  BY <1>1 DEF SymbolsCombining
<1>2. CASE IsText(g, p) /\ IsText(g, n.next)
  <2>1. p \in PtrOf(g)
    BY DEF PtrOf
  <2>2. /\ n.next \in PtrOf(g) /\ TextOf(n) \in Seq(Byte)
        /\ n.kind = "SpecificSymbol" => n.code \in Nat
    BY <1>2, <2>1, TextBytes
  <2>3. /\ TextOf(tail) \in Seq(Byte)
        /\ tail.kind = "SpecificSymbol" => tail.code \in Nat
    BY <1>2, <2>2, TextBytes
  <2>4. s \in Seq(Byte)
    <3>1. TextOf(n) \o TextOf(tail) \in Seq(Byte)
      <4> HIDE DEF n, tail
      <4> QED
        BY <2>2, <2>3
    <3>2. n.kind = "SpecificSymbol" /\ tail.kind = "SpecificSymbol" =>
            Utf32ToUtf8(<<n.code, tail.code>>) \in Seq(Byte)
      <4> HIDE DEF n, tail
      <4> QED
        BY <2>2, <2>3, Utf32OfTwo
    <3> QED
      BY <3>1, <3>2
  <2>5. SymbolsCombining(g, p) = NodeAt(p, StringNode(s, tail.next))
    BY <1>2 DEF SymbolsCombining
  <2> HIDE DEF s
  <2> QED
    BY <1>2, <2>4, <2>5 DEF Joins
<1> QED
  BY <1>1, <1>2

LEMMA BytesOfPart ==
  ASSUME NEW s \in Seq(Byte), NEW m \in Nat, NEW n \in Nat, m >= 1, n <= Len(s)
  PROVE  SubSeq(s, m, n) \in Seq(Byte)
<1>1. \A i \in m..n : s[i] \in Byte
  <2> TAKE i \in m..n
  <2>1. i \in 1..Len(s)
    OBVIOUS
  <2> QED
    BY <2>1, ElementOfSeq
<1> QED
  BY <1>1, SubSeqProperties

LEMMA CommonPrefix ==
  ASSUME NEW N \in Nat \ {0}, NEW strings \in [1..N -> Seq(Byte)]
  PROVE  /\ CommonPrefixLength(strings) \in Nat
         /\ \A j \in 1..N : CommonPrefixLength(strings) <= Len(strings[j])
<1> DEFINE T == { n \in 0..Len(strings[1]) :
                    \A s \in ToSet(strings) :
                      n <= Len(s) /\ SubSeq(s, 1, n) = SubSeq(strings[1], 1, n) }
<1>1. strings[1] \in Seq(Byte) /\ Len(strings[1]) \in Nat
  OBVIOUS
<1>2. ToSet(strings) = { strings[j] : j \in 1..N } /\ ToSet(strings) \subseteq Seq(Byte)
  BY DEF ToSet
<1>3. 0 \in T
  <2>1. \A s \in ToSet(strings) : 0 <= Len(s) /\ SubSeq(s, 1, 0) = SubSeq(strings[1], 1, 0)
    <3> TAKE s \in ToSet(strings)
    <3>1. SubSeq(s, 1, 0) = <<>> /\ SubSeq(strings[1], 1, 0) = <<>>
      BY SubSeqEmpty
    <3>2. Len(s) \in Nat
      BY <1>2, LenProperties
    <3> QED
      BY <3>1, <3>2
  <2> QED
    BY <1>1, <2>1
<1>4. T \subseteq 0..Len(strings[1]) /\ T # {}
  BY <1>3
<1>5. CommonPrefixLength(strings) = Max(T)
  BY DEF CommonPrefixLength
<1>6. Max(T) \in T
  <2> HIDE DEF T
  <2> QED
    BY <1>1, <1>4, Largest
<1>7. Max(T) \in Nat /\ \A s \in ToSet(strings) : Max(T) <= Len(s)
  BY <1>1, <1>6
<1> HIDE DEF T
<1> QED
  BY <1>2, <1>5, <1>7

LEMMA UniteForm ==
  ASSUME NEW g, GraphOK(g), Shaped(g), NEW p \in DOMAIN g.node
  PROVE  AlternativeStartUnite(g, p) = Unchanged \/ Splits(g, p, AlternativeStartUnite(g, p))
<1> DEFINE branches == g.node[p].next
           strings  == [j \in DOMAIN branches |-> StartString(g, branches[j])]
           cut      == CommonPrefixLength(strings)
           whole(j) == Len(strings[j]) = cut
           parts    == [j \in DOMAIN branches |->
                          IF whole(j) THEN g.node[branches[j]].next ELSE New(p, j)]
           rests    == [q \in { New(p, j) : j \in { m \in DOMAIN branches : ~whole(m) } } |->
                          LET j == CHOOSE m \in DOMAIN branches : q = New(p, m)
                          IN StringNode(SubSeq(strings[j], cut + 1, Len(strings[j])),
                                        g.node[branches[j]].next)]
           first    == SubSeq(strings[1], 1, cut)
           N        == Len(branches)
<1>1. CASE g.node[p].kind # "Alternatives" \/ branches = <<>>
  BY <1>1 DEF AlternativeStartUnite
<1>2. CASE cut = 0
  BY <1>2 DEF AlternativeStartUnite
<1>3. CASE g.node[p].kind = "Alternatives" /\ branches # <<>> /\ cut # 0
  <2>1. branches \in Seq(PtrOf(g)) /\ p \in Seq(Int)
    BY <1>3 DEF GraphOK, NodeOK, PtrOf, Shaped
  <2>2. N \in Nat \ {0} /\ DOMAIN branches = 1..N /\ \A j \in 1..N : branches[j] \in PtrOf(g)
    <3> HIDE DEF branches
    <3> QED
      BY <1>3, <2>1
  <2>3. strings \in [1..N -> Seq(Byte)]
    <3>1. \A j \in 1..N : StartString(g, branches[j]) \in Seq(Byte)
      <4> TAKE j \in 1..N
      <4>1. <<>> \in Seq(Byte)
        OBVIOUS
      <4>2. IsText(g, branches[j]) => TextOf(g.node[branches[j]]) \in Seq(Byte)
        <5>1. branches[j] \in PtrOf(g)
          BY <2>2
        <5> QED
          BY <5>1, TextBytes
      <4> QED
        BY <4>1, <4>2 DEF StartString
    <3> QED
      BY <2>2, <3>1
  <2>4. cut \in Nat /\ \A j \in 1..N : cut <= Len(strings[j])
    <3> HIDE DEF strings, N
    <3> QED
      BY <2>2, <2>3, CommonPrefix
  <2>5. \A j \in DOMAIN branches : IsText(g, branches[j])
    <3> TAKE j \in DOMAIN branches
    <3>1. Len(strings[j]) # 0
      <4>1. strings[j] \in Seq(Byte) /\ cut <= Len(strings[j]) /\ cut \in Nat
        BY <2>2, <2>3, <2>4
      <4> HIDE DEF strings, cut
      <4> QED
        BY <1>3, <4>1
    <3>2. strings[j] = StartString(g, branches[j])
      OBVIOUS
    <3>3. Len(<<>>) = 0
      OBVIOUS
    <3> HIDE DEF strings
    <3> QED
      BY <3>1, <3>2, <3>3 DEF StartString
  <2>6. first \in Seq(Byte)
    <3>0. 1 \in 1..N
      BY <2>2
    <3>1. strings[1] \in Seq(Byte) /\ cut \in Nat /\ cut <= Len(strings[1])
      <4> HIDE DEF strings, cut, N
      <4> QED
        BY <2>3, <2>4, <3>0
    <3> HIDE DEF strings, cut
    <3> QED
      BY <3>1, BytesOfPart
  <2>7. AlternativeStartUnite(g, p) =
          Over(NodeAt(p, StringNode(first, New(p, 0))),
               Over(NodeAt(New(p, 0), [kind |-> "Alternatives", next |-> parts]), rests))
    BY <1>3 DEF AlternativeStartUnite
  <2>8. DOMAIN rests = { New(p, j) : j \in { m \in DOMAIN branches : ~whole(m) } }
    OBVIOUS
  <2>9. \A j \in DOMAIN branches : New(p, j) \in DOMAIN rests <=> ~whole(j)
    <3> HIDE DEF rests, strings, cut, branches
    <3> TAKE j \in DOMAIN branches
    <3>1. \A m \in DOMAIN branches : m \in Int
      BY <2>2
    <3>2. \A m \in DOMAIN branches : New(p, j) = New(p, m) => j = m
      BY <2>1, <3>1, NewInjective
    <3> QED
      BY <2>8, <3>2
  <2>10. \A j \in DOMAIN branches : New(p, j) \in DOMAIN rests =>
           \E t \in Seq(Byte) : rests[New(p, j)] = StringNode(t, g.node[branches[j]].next)
    <3> SUFFICES ASSUME NEW j \in DOMAIN branches, New(p, j) \in DOMAIN rests
                 PROVE  \E t \in Seq(Byte) :
                          rests[New(p, j)] = StringNode(t, g.node[branches[j]].next)
      OBVIOUS
    <3> DEFINE m == CHOOSE k \in DOMAIN branches : New(p, j) = New(p, k)
               t == SubSeq(strings[m], cut + 1, Len(strings[m]))
    <3>1. rests[New(p, j)] = StringNode(t, g.node[branches[m]].next)
      OBVIOUS
    <3>2. m = j
      <4>1. m \in DOMAIN branches /\ New(p, j) = New(p, m)
        <5> HIDE DEF branches
        <5> QED
          OBVIOUS
      <4>2. m \in Int /\ j \in Int
        <5> HIDE DEF m
        <5> QED
          BY <2>2, <4>1
      <4> HIDE DEF m
      <4> QED
        BY <2>1, <4>1, <4>2, NewInjective
    <3>3. t \in Seq(Byte)
      <4>1. strings[j] \in Seq(Byte) /\ cut \in Nat /\ cut <= Len(strings[j])
        BY <2>2, <2>3, <2>4
      <4>2. cut + 1 \in Nat /\ cut + 1 >= 1 /\ Len(strings[j]) \in Nat
        <5> HIDE DEF strings, cut
        <5> QED
          BY <4>1
      <4>3. SubSeq(strings[j], cut + 1, Len(strings[j])) \in Seq(Byte)
        <5> HIDE DEF strings, cut
        <5> QED
          BY <4>1, <4>2, BytesOfPart
      <4> HIDE DEF m, strings, cut
      <4> QED
        BY <3>2, <4>3
    <3> HIDE DEF m, t, rests, branches
    <3> QED
      BY <3>1, <3>2, <3>3
  <2>11. parts = [j \in DOMAIN branches |->
                    IF New(p, j) \in DOMAIN rests THEN New(p, j) ELSE g.node[branches[j]].next]
    <3> HIDE DEF rests, strings, cut, branches
    <3> QED
      BY <2>9
  <2>12. DOMAIN rests \subseteq { New(p, j) : j \in DOMAIN branches }
    <3> HIDE DEF rests, strings, cut, branches
    <3> QED
      BY <2>8
  <2> HIDE DEF rests, strings, cut, parts, first
  <2> QED
    BY <1>3, <2>5, <2>6, <2>7, <2>10, <2>11, <2>12 DEF Splits
<1> QED
  BY <1>1, <1>2, <1>3

LEMMA PossessificationForm ==
  ASSUME NEW g, NEW p
  PROVE  \/ AlternativesPossessification(g, p) = Unchanged
         \/ Keeps(g, p, AlternativesPossessification(g, p))
<1> DEFINE first  == g.node[p].next[1]
           second == g.node[p].next[2]
<1>1. CASE g.node[p].kind # "Alternatives" \/ Len(g.node[p].next) # 2
  BY <1>1 DEF AlternativesPossessification
<1>2. CASE ~CanBeSeparated(g, first, second)
  BY <1>2 DEF AlternativesPossessification
<1>3. CASE /\ g.node[p].kind = "Alternatives" /\ Len(g.node[p].next) = 2
           /\ CanBeSeparated(g, first, second)
  BY <1>3 DEF AlternativesPossessification, Keeps, CanBeSeparated
<1> QED
  BY <1>1, <1>2, <1>3

LEMMA RollbackForm ==
  ASSUME NEW g, NEW p
  PROVE  \/ SequenceWithSingleRollbackPoint(g, p) = Unchanged
         \/ Rolls(g, p, SequenceWithSingleRollbackPoint(g, p))
BY DEF SequenceWithSingleRollbackPoint, Rolls

LEMMA FixedLengthForm ==
  ASSUME NEW g, NEW p
  PROVE  \/ FixedLengthElementSequence(g, p) = Unchanged
         \/ Measures(g, p, FixedLengthElementSequence(g, p))
<1> DEFINE lengths == ElementLength(g, g.node[p].next[1])
           length  == CHOOSE l \in lengths : TRUE
<1>1. CASE ~IsSimpleLoop(g, p) \/ lengths = {}
  BY <1>1 DEF FixedLengthElementSequence
<1>2. CASE IsSimpleLoop(g, p) /\ lengths # {}
  <2>1. length \in lengths
    <3> HIDE DEF lengths
    <3> QED
      BY <1>2
  <2>2. FixedLengthElementSequence(g, p) =
          Over(NodeAt(p, [kind |-> "FixedLengthElementSequence",
                          next |-> g.node[p].next[2], sequence_element |-> New(p, 1),
                          min_elements |-> 0, max_elements |-> SizeMax,
                          element_length |-> length]),
               LoopElement(g, p))
    BY <1>2 DEF FixedLengthElementSequence
  <2> HIDE DEF length
  <2> QED
    BY <1>2, <2>1, <2>2 DEF Measures
<1> QED
  BY <1>1, <1>2

\* Every optimization of every pass has one of the forms.
LEMMA EveryForm ==
  ASSUME NEW g, GraphOK(g), Shaped(g), NEW p \in DOMAIN g.node, NEW k \in DOMAIN Passes
  PROVE  Forms(g, p, Optimization(g, p, Passes[k]))
<1> DEFINE nodes == Optimization(g, p, Passes[k])
<1>1. k \in 1..9
  BY DEF Passes
<1>2. CASE k \in {1, 3, 5}
  <2>1. nodes = SymbolsCombining(g, p)
    BY <1>2 DEF Passes, Optimization
  <2> HIDE DEF nodes
  <2>2. Forms(g, p, nodes)
    BY <2>1, CombiningForm DEF Forms
  <2> QED
    BY <2>2 DEF nodes
<1>3. CASE k \in {2, 4, 6}
  <2>1. nodes = AlternativeStartUnite(g, p)
    BY <1>3 DEF Passes, Optimization
  <2> HIDE DEF nodes
  <2>2. Forms(g, p, nodes)
    BY <2>1, UniteForm DEF Forms
  <2> QED
    BY <2>2 DEF nodes
<1>4. CASE k = 7
  <2>1. nodes = AlternativesPossessification(g, p)
    BY <1>4 DEF Passes, Optimization
  <2> HIDE DEF nodes
  <2>2. Forms(g, p, nodes)
    BY <2>1, PossessificationForm DEF Forms
  <2> QED
    BY <2>2 DEF nodes
<1>5. CASE k = 8
  <2>1. nodes = SequenceWithSingleRollbackPoint(g, p)
    BY <1>5 DEF Passes, Optimization
  <2> HIDE DEF nodes
  <2>2. Forms(g, p, nodes)
    BY <2>1, RollbackForm DEF Forms
  <2> QED
    BY <2>2 DEF nodes
<1>6. CASE k = 9
  <2>1. nodes = FixedLengthElementSequence(g, p)
    BY <1>6 DEF Passes, Optimization
  <2> HIDE DEF nodes
  <2>2. Forms(g, p, nodes)
    BY <2>1, FixedLengthForm DEF Forms
  <2> QED
    BY <2>2 DEF nodes
<1> QED
  BY <1>1, <1>2, <1>3, <1>4, <1>5, <1>6
-----------------------------------------------------------------------------
(***************************************************************************)
(* What is written fits in the graph.                                      *)
(***************************************************************************)
\* The node at p, which is a choice no more, and new nodes if it was one; their
\* pointers lead to nodes.
Writes(g, p, nodes) ==
  /\ IsFiniteSet(DOMAIN nodes)
  /\ DOMAIN nodes # {} => p \in DOMAIN nodes /\ nodes[p].kind # "Alternatives"
  /\ \A q \in DOMAIN nodes :
       /\ q = p \/ (g.node[p].kind = "Alternatives" /\ \E k \in Nat : q = New(p, k))
       /\ NodeOK(nodes[q], PtrOf(g) \cup DOMAIN nodes, g.used_sequence_counters)
       /\ nodes[q].kind \in SimpleKinds => nodes[q] \in SimpleNodes

\* All pointers of the graph are sequences, the new ones too.
LEMMA PointersAreSequences ==
  ASSUME NEW g, Shaped(g)
  PROVE  PtrOf(g) \subseteq Seq(Int)
<1>1. nullptr \in Seq(Int)
  BY DEF nullptr
<1> QED
  BY <1>1 DEF PtrOf, Shaped

LEMMA JoinsWrites ==
  ASSUME NEW g, GraphOK(g), Shaped(g), NEW p \in DOMAIN g.node, NEW nodes, Joins(g, p, nodes)
  PROVE  Writes(g, p, nodes)
<1> DEFINE next == g.node[g.node[p].next].next
<1>1. p \in PtrOf(g)
  BY DEF PtrOf
<1>2. next \in PtrOf(g)
  <2>1. g.node[p].next \in PtrOf(g)
    BY <1>1, TextBytes DEF Joins
  <2> QED
    BY <2>1, TextBytes DEF Joins
<1>3. PICK s \in Seq(Byte) : nodes = NodeAt(p, StringNode(s, next))
  BY DEF Joins
<1>4. DOMAIN nodes = {p} /\ nodes[p] = StringNode(s, next)
  BY <1>3 DEF NodeAt
<1> DEFINE Ptr == PtrOf(g) \cup DOMAIN nodes
<1>5. Ptr \subseteq Seq(Int) /\ next \in Ptr
  BY <1>2, <1>4, PointersAreSequences DEF Shaped
<1> HIDE DEF next, Ptr
<1>6. /\ NodeOK(nodes[p], Ptr, g.used_sequence_counters)
      /\ nodes[p] \in SimpleNodes /\ nodes[p].kind = "String"
  <2> DEFINE n == StringNode(s, next)
  <2>1. /\ NodeOK(n, Ptr, g.used_sequence_counters)
        /\ n \in SimpleNodes /\ n.kind = "String"
    BY <1>5, StringOK
  <2> HIDE DEF n
  <2>2. nodes[p] = n
    BY <1>4 DEF n
  <2> QED
    BY <2>1, <2>2
<1>7. IsFiniteSet(DOMAIN nodes)
  BY <1>4, FS_Singleton
<1> QED
  BY <1>4, <1>6, <1>7 DEF Writes, Ptr

\* Two nodes: what the choice becomes, and a copy of its first branch.
LEMMA CopyWrites ==
  ASSUME NEW g, GraphOK(g), Shaped(g), NEW p \in DOMAIN g.node,
         g.node[p].kind = "Alternatives", Len(g.node[p].next) = 2,
         KindAt(g, g.node[p].next[1]) \in SimpleKinds
  PROVE  LET first == g.node[p].next[1] IN
         /\ first \in DOMAIN g.node
         /\ g.node[p].next[2] \in PtrOf(g)
         /\ g.node[first] \in SimpleNodes
         /\ g.node[first].next \in PtrOf(g)
         /\ p \in Seq(Int) /\ New(p, 1) \in Seq(Int) /\ New(p, 1) # p
<1> DEFINE first == g.node[p].next[1]
<1>1. g.node[p].next \in Seq(PtrOf(g)) /\ p \in Seq(Int)
  BY DEF GraphOK, NodeOK, PtrOf, Shaped
<1>2. first \in PtrOf(g) /\ g.node[p].next[2] \in PtrOf(g)
  BY <1>1
<1> HIDE DEF first
<1>3. first \in DOMAIN g.node /\ g.node[first].kind \in SimpleKinds
  <2>1. "nullptr" \notin SimpleKinds
    BY DEF SimpleKinds
  <2> QED
    BY <1>2, <2>1 DEF KindAt, PtrOf, first
<1>4. g.node[first] \in SimpleNodes
  BY <1>3 DEF Shaped
<1>5. g.node[first].next \in PtrOf(g)
  BY <1>3 DEF GraphOK, NodeOK, PtrOf, SimpleKinds, NextKinds
<1>6. New(p, 1) \in Seq(Int) /\ New(p, 1) # p
  BY <1>1, NewPointer
<1> QED
  BY <1>1, <1>2, <1>3, <1>4, <1>5, <1>6 DEF first

LEMMA TwoWrites ==
  ASSUME NEW g, GraphOK(g), Shaped(g), NEW p \in DOMAIN g.node,
         g.node[p].kind = "Alternatives", Len(g.node[p].next) = 2,
         KindAt(g, g.node[p].next[1]) \in SimpleKinds,
         NEW n, NEW nodes,
         nodes = Over(NodeAt(p, n), NodeAt(New(p, 1), CutOff(g.node[g.node[p].next[1]]))),
         NodeOK(n, PtrOf(g) \cup {New(p, 1)}, g.used_sequence_counters),
         n.kind \notin SimpleKinds, n.kind # "Alternatives"
  PROVE  /\ Writes(g, p, nodes)
         /\ DOMAIN nodes = {p, New(p, 1)}
         /\ nodes[p] = n /\ nodes[New(p, 1)] = CutOff(g.node[g.node[p].next[1]])
<1> DEFINE copy == CutOff(g.node[g.node[p].next[1]])
<1>1. /\ g.node[g.node[p].next[1]] \in SimpleNodes
      /\ p \in Seq(Int) /\ New(p, 1) \in Seq(Int) /\ New(p, 1) # p
  BY CopyWrites
<1>2. DOMAIN nodes = {p, New(p, 1)} /\ nodes[p] = n /\ nodes[New(p, 1)] = copy
  <2> HIDE DEF copy
  <2>1. nodes = Over(NodeAt(p, n), NodeAt(New(p, 1), copy))
    BY DEF copy
  <2> QED
    BY <1>1, <2>1 DEF Over, NodeAt
<1>3. PtrOf(g) \cup {New(p, 1)} = PtrOf(g) \cup DOMAIN nodes /\ nullptr \in PtrOf(g)
  BY <1>2 DEF PtrOf
<1>4. copy \in SimpleNodes /\ NodeOK(copy, PtrOf(g) \cup DOMAIN nodes, g.used_sequence_counters)
  BY <1>1, <1>3, CutOffOK
<1>5. IsFiniteSet(DOMAIN nodes)
  <2>1. DOMAIN nodes = {p} \cup {New(p, 1)}
    BY <1>2
  <2>2. IsFiniteSet({p}) /\ IsFiniteSet({New(p, 1)})
    BY FS_Singleton
  <2>3. IsFiniteSet({p} \cup {New(p, 1)})
    BY <2>2, FS_Union
  <2> QED
    BY <2>1, <2>3
<1> HIDE DEF copy
<1>6. Writes(g, p, nodes)
  <2>1. 1 \in Nat
    OBVIOUS
  <2> QED
    BY <1>2, <1>3, <1>4, <1>5, <2>1 DEF Writes
<1> QED
  BY <1>2, <1>6 DEF copy

LEMMA KeepsWrites ==
  ASSUME NEW g, GraphOK(g), Shaped(g), NEW p \in DOMAIN g.node, NEW nodes, Keeps(g, p, nodes)
  PROVE  Writes(g, p, nodes)
<1> DEFINE first  == g.node[p].next[1]
           second == g.node[p].next[2]
           n == [kind |-> "AlternativesPossessive", path0_element |-> New(p, 1),
                 path0_next |-> g.node[first].next, path1_next |-> second]
           Ptr == PtrOf(g) \cup {New(p, 1)}
<1>1. /\ g.node[p].kind = "Alternatives" /\ Len(g.node[p].next) = 2
      /\ KindAt(g, first) \in SimpleKinds
      /\ nodes = Over(NodeAt(p, n), NodeAt(New(p, 1), CutOff(g.node[first])))
  BY DEF Keeps
<1>2. second \in Ptr /\ g.node[first].next \in Ptr /\ New(p, 1) \in Ptr
  BY <1>1, CopyWrites
<1>3. /\ n.kind = "AlternativesPossessive" /\ n.path0_element \in Ptr
      /\ n.path0_next \in Ptr /\ n.path1_next \in Ptr
  BY <1>2
<1> HIDE DEF n, first
<1>4. NodeOK(n, Ptr, g.used_sequence_counters)
  BY <1>3 DEF NodeOK, Kinds, NextKinds, GroupKinds, LookKinds, CounterKinds, CountedKinds,
              LoopKinds
<1>5. n.kind \notin SimpleKinds /\ n.kind # "Alternatives"
  BY <1>3 DEF SimpleKinds
<1> QED
  BY <1>1, <1>4, <1>5, TwoWrites DEF first

LEMMA RollsWrites ==
  ASSUME NEW g, GraphOK(g), Shaped(g), NEW p \in DOMAIN g.node, NEW nodes, Rolls(g, p, nodes)
  PROVE  Writes(g, p, nodes)
<1> DEFINE n == [kind |-> "SingleRollbackPointSequence", next |-> g.node[p].next[2],
                 sequence_element |-> New(p, 1)]
           Ptr == PtrOf(g) \cup {New(p, 1)}
<1>1. /\ g.node[p].kind = "Alternatives" /\ Len(g.node[p].next) = 2
      /\ KindAt(g, g.node[p].next[1]) \in SimpleKinds
      /\ nodes = Over(NodeAt(p, n), NodeAt(New(p, 1), CutOff(g.node[g.node[p].next[1]])))
  BY DEF Rolls, IsSimpleLoop, LoopElement
<1>2. g.node[p].next[2] \in Ptr /\ New(p, 1) \in Ptr
  BY <1>1, CopyWrites
<1>3. /\ n.kind = "SingleRollbackPointSequence" /\ n.next \in Ptr
      /\ n.sequence_element \in Ptr
  BY <1>2
<1> HIDE DEF n
<1>4. NodeOK(n, Ptr, g.used_sequence_counters)
  BY <1>3 DEF NodeOK, Kinds, NextKinds, GroupKinds, LookKinds, CounterKinds, CountedKinds,
              LoopKinds
<1>5. n.kind \notin SimpleKinds /\ n.kind # "Alternatives"
  BY <1>3 DEF SimpleKinds
<1> QED
  BY <1>1, <1>4, <1>5, TwoWrites
\* The lengths of elements are numbers.
LEMMA LengthsAreNumbers ==
  ASSUME NEW g, GraphOK(g), Shaped(g), NEW p \in PtrOf(g)
  PROVE  ElementLength(g, p) \subseteq Nat
<1>0. \A c \in Nat : Len(Utf32ToUtf8(<<c>>)) \in Nat
  <2> TAKE c \in Nat
  <2>1. Utf32ToUtf8(<<c>>) \in Seq(Byte)
    BY Utf32OfOne
  <2> QED
    BY <2>1, LenProperties
<1>1. CASE KindAt(g, p) \in {"SpecificSymbol", "String"}
  <2>1. TextOf(g.node[p]) \in Seq(Byte)
    BY <1>1, TextBytes DEF IsText
  <2>2. Len(TextOf(g.node[p])) \in Nat
    BY <2>1, LenProperties
  <2> QED
    BY <1>1, <2>2 DEF ElementLength
<1>2. CASE KindAt(g, p) = "OneOf"
  <2> DEFINE n == g.node[p]
             codes == n.variants \cup UNION { {r[1], r[2]} : r \in ToSet(n.ranges) }
             sizes == { Len(Utf32ToUtf8(<<c>>)) : c \in codes }
  <2>1. p \in DOMAIN g.node /\ n.kind = "OneOf"
    BY <1>2 DEF KindAt, PtrOf
  <2>2. n.variants \subseteq Nat /\ n.ranges \in Seq(Nat \X Nat)
    BY <2>1 DEF GraphOK, NodeOK
  <2>3. \A r \in ToSet(n.ranges) : r[1] \in Nat /\ r[2] \in Nat
    <3> HIDE DEF n
    <3> TAKE r \in ToSet(n.ranges)
    <3>1. r \in Nat \X Nat
      BY <2>2 DEF ToSet
    <3> QED
      BY <3>1
  <2>4. codes \subseteq Nat
    <3> HIDE DEF n
    <3> QED
      BY <2>2, <2>3
  <2>5. sizes \subseteq Nat
    <3> HIDE DEF codes
    <3> QED
      BY <1>0, <2>4
  <2>6. ElementLength(g, p) = GetOneOfLength(n)
    BY <1>2 DEF ElementLength
  <2>7. GetOneOfLength(n) = IF Cardinality(sizes) = 1 THEN sizes ELSE {}
    BY DEF GetOneOfLength
  <2> HIDE DEF sizes
  <2> QED
    BY <2>5, <2>6, <2>7
<1>3. CASE KindAt(g, p) \notin {"SpecificSymbol", "String", "OneOf"}
  BY <1>3 DEF ElementLength
<1> QED
  BY <1>1, <1>2, <1>3

LEMMA MeasuresWrites ==
  ASSUME NEW g, GraphOK(g), Shaped(g), NEW p \in DOMAIN g.node, NEW nodes,
         Measures(g, p, nodes)
  PROVE  Writes(g, p, nodes)
<1>1. PICK length \in ElementLength(g, g.node[p].next[1]) :
        nodes = Over(NodeAt(p, [kind |-> "FixedLengthElementSequence",
                                next |-> g.node[p].next[2], sequence_element |-> New(p, 1),
                                min_elements |-> 0, max_elements |-> SizeMax,
                                element_length |-> length]),
                     LoopElement(g, p))
  BY DEF Measures
<1> DEFINE n == [kind |-> "FixedLengthElementSequence",
                 next |-> g.node[p].next[2], sequence_element |-> New(p, 1),
                 min_elements |-> 0, max_elements |-> SizeMax, element_length |-> length]
           Ptr == PtrOf(g) \cup {New(p, 1)}
<1>2. /\ g.node[p].kind = "Alternatives" /\ Len(g.node[p].next) = 2
      /\ KindAt(g, g.node[p].next[1]) \in SimpleKinds
      /\ nodes = Over(NodeAt(p, n), NodeAt(New(p, 1), CutOff(g.node[g.node[p].next[1]])))
  BY <1>1 DEF Measures, IsSimpleLoop, LoopElement
<1>3. g.node[p].next[2] \in Ptr /\ New(p, 1) \in Ptr /\ g.node[p].next[1] \in PtrOf(g)
  BY <1>2, CopyWrites DEF PtrOf
<1>4. length \in Nat
  BY <1>3, LengthsAreNumbers
<1>5. 0 \in 0..SizeMax /\ SizeMax \in 0..SizeMax
  BY SizeMaxAssumption
<1>6. /\ n.kind = "FixedLengthElementSequence" /\ n.next \in Ptr /\ n.sequence_element \in Ptr
      /\ n.min_elements \in 0..SizeMax /\ n.max_elements \in 0..SizeMax
      /\ n.element_length \in Nat
  BY <1>3, <1>4, <1>5
<1> HIDE DEF n
<1>7. NodeOK(n, Ptr, g.used_sequence_counters)
  BY <1>6 DEF NodeOK, Kinds, NextKinds, GroupKinds, LookKinds, CounterKinds, CountedKinds,
              LoopKinds
<1>8. n.kind \notin SimpleKinds /\ n.kind # "Alternatives"
  BY <1>6 DEF SimpleKinds
<1> QED
  BY <1>2, <1>7, <1>8, TwoWrites

\* The nodes that are written when alternatives begin with the same bytes.
SplitNodes(g, p, nodes, R, parts) ==
  LET branches == g.node[p].next
  IN /\ DOMAIN nodes = {p, New(p, 0)} \cup R
     /\ p \notin R /\ New(p, 0) \notin R /\ p # New(p, 0)
     /\ \A q \in R : \E j \in DOMAIN branches : q = New(p, j)
     /\ \E s \in Seq(Byte) : nodes[p] = StringNode(s, New(p, 0))
     /\ nodes[New(p, 0)] = [kind |-> "Alternatives", next |-> parts]
     /\ parts = [j \in DOMAIN branches |->
                   IF New(p, j) \in R THEN New(p, j) ELSE g.node[branches[j]].next]
     /\ \A j \in DOMAIN branches : New(p, j) \in R =>
          \E t \in Seq(Byte) : nodes[New(p, j)] = StringNode(t, g.node[branches[j]].next)

LEMMA ChoiceBranches ==
  ASSUME NEW g, GraphOK(g), Shaped(g), NEW p \in DOMAIN g.node,
         g.node[p].kind = "Alternatives"
  PROVE  LET branches == g.node[p].next IN
         /\ p \in Seq(Int) /\ branches \in Seq(PtrOf(g))
         /\ Len(branches) \in Nat /\ DOMAIN branches = 1..Len(branches)
         /\ \A j \in 1..Len(branches) : branches[j] \in PtrOf(g)
<1> DEFINE branches == g.node[p].next
<1>1. branches \in Seq(PtrOf(g)) /\ p \in Seq(Int)
  BY DEF GraphOK, NodeOK, PtrOf, Shaped
<1> HIDE DEF branches
<1>2. /\ Len(branches) \in Nat /\ DOMAIN branches = 1..Len(branches)
      /\ \A j \in 1..Len(branches) : branches[j] \in PtrOf(g)
  BY <1>1
<1> QED
  BY <1>1, <1>2 DEF branches

LEMMA SplitsNodes ==
  ASSUME NEW g, GraphOK(g), Shaped(g), NEW p \in DOMAIN g.node, NEW nodes, Splits(g, p, nodes)
  PROVE  \E R, parts : SplitNodes(g, p, nodes, R, parts)
<1> DEFINE branches == g.node[p].next
           N        == Len(branches)
<1>1. PICK s, parts, rests :
        /\ s \in Seq(Byte)
        /\ nodes = Over(NodeAt(p, StringNode(s, New(p, 0))),
                        Over(NodeAt(New(p, 0), [kind |-> "Alternatives", next |-> parts]),
                             rests))
        /\ DOMAIN rests \subseteq { New(p, j) : j \in DOMAIN branches }
        /\ parts = [j \in DOMAIN branches |->
                      IF New(p, j) \in DOMAIN rests THEN New(p, j)
                      ELSE g.node[branches[j]].next]
        /\ \A j \in DOMAIN branches : New(p, j) \in DOMAIN rests =>
             \E t \in Seq(Byte) : rests[New(p, j)] = StringNode(t, g.node[branches[j]].next)
  BY DEF Splits
<1> DEFINE choice == [kind |-> "Alternatives", next |-> parts]
           start  == StringNode(s, New(p, 0))
<1>2. p \in Seq(Int) /\ N \in Nat /\ DOMAIN branches = 1..N
  BY ChoiceBranches DEF Splits
<1>3. \A j \in 1..N : New(p, j) # p /\ New(p, j) # New(p, 0)
  <2> TAKE j \in 1..N
  <2>1. j \in Int /\ 0 \in Int /\ j # 0
    OBVIOUS
  <2> QED
    BY <1>2, <2>1, NewPointer, NewInjective
<1>4. New(p, 0) # p
  <2>1. 0 \in Int
    OBVIOUS
  <2> HIDE DEF branches, N
  <2> QED
    BY <1>2, <2>1, NewPointer
<1>5. \A q \in DOMAIN rests : \E j \in DOMAIN branches : q = New(p, j)
  BY <1>1
<1>6. p \notin DOMAIN rests /\ New(p, 0) \notin DOMAIN rests
  <2> HIDE DEF branches, N
  <2> QED
    BY <1>2, <1>3, <1>5
<1>7. /\ DOMAIN nodes = {p, New(p, 0)} \cup DOMAIN rests
      /\ nodes[p] = start /\ nodes[New(p, 0)] = choice
      /\ \A q \in DOMAIN rests : nodes[q] = rests[q]
  <2> HIDE DEF start, choice
  <2>1. nodes = Over(NodeAt(p, start), Over(NodeAt(New(p, 0), choice), rests))
    BY <1>1 DEF start, choice
  <2> QED
    BY <1>4, <1>6, <2>1 DEF Over, NodeAt
<1>8. \A j \in DOMAIN branches : New(p, j) \in DOMAIN rests =>
        \E t \in Seq(Byte) : nodes[New(p, j)] = StringNode(t, g.node[branches[j]].next)
  <2> HIDE DEF branches, N
  <2> QED
    BY <1>1, <1>7
<1>9. SplitNodes(g, p, nodes, DOMAIN rests, parts)
  BY <1>1, <1>4, <1>5, <1>6, <1>7, <1>8 DEF SplitNodes
<1> QED
  BY <1>9

LEMMA SplitsWrites ==
  ASSUME NEW g, GraphOK(g), Shaped(g), NEW p \in DOMAIN g.node, NEW nodes, Splits(g, p, nodes)
  PROVE  Writes(g, p, nodes)
<1>1. PICK R, parts : SplitNodes(g, p, nodes, R, parts)
  BY SplitsNodes
<1> DEFINE branches == g.node[p].next
           N        == Len(branches)
           choice   == [kind |-> "Alternatives", next |-> parts]
           Ptr      == PtrOf(g) \cup DOMAIN nodes
<1>2. g.node[p].kind = "Alternatives"
  BY DEF Splits
<1>3. /\ p \in Seq(Int) /\ N \in Nat /\ DOMAIN branches = 1..N
      /\ \A j \in 1..N : branches[j] \in PtrOf(g)
  BY <1>2, ChoiceBranches
<1>4. \A j \in 1..N : g.node[branches[j]].next \in PtrOf(g)
  <2> TAKE j \in 1..N
  <2>1. branches[j] \in PtrOf(g) /\ IsText(g, branches[j])
    BY <1>3 DEF Splits
  <2> QED
    BY <2>1, TextBytes
<1>5. /\ DOMAIN nodes = {p, New(p, 0)} \cup R
      /\ \A q \in R : \E j \in 1..N : q = New(p, j)
      /\ nodes[New(p, 0)] = choice
  BY <1>1, <1>3 DEF SplitNodes
<1>6. DOMAIN nodes \subseteq Seq(Int)
  <2>1. \A j \in 0..N : New(p, j) \in Seq(Int)
    <3> TAKE j \in 0..N
    <3>1. j \in Int
      OBVIOUS
    <3> QED
      BY <1>3, <3>1, NewPointer
  <2>2. 0 \in 0..N /\ \A j \in 1..N : j \in 0..N
    BY <1>3
  <2> HIDE DEF N, branches
  <2> QED
    BY <1>3, <1>5, <2>1, <2>2
<1>7. Ptr \subseteq Seq(Int) /\ nullptr \in Ptr /\ New(p, 0) \in Ptr
  <2>1. New(p, 0) \in DOMAIN nodes
    BY <1>5
  <2> QED
    BY <1>6, <2>1, PointersAreSequences DEF PtrOf
<1>8. PICK s \in Seq(Byte) : nodes[p] = StringNode(s, New(p, 0))
  BY <1>1 DEF SplitNodes
<1> DEFINE start == StringNode(s, New(p, 0))
<1>9. /\ NodeOK(start, Ptr, g.used_sequence_counters) /\ start \in SimpleNodes
      /\ start.kind = "String"
  <2> HIDE DEF Ptr
  <2> QED
    BY <1>7, StringOK
<1>10. parts \in Seq(Ptr)
  <2>1. parts = [j \in 1..N |-> IF New(p, j) \in R THEN New(p, j) ELSE g.node[branches[j]].next]
    BY <1>1, <1>3 DEF SplitNodes
  <2> HIDE DEF branches, N
  <2>2. \A j \in 1..N : parts[j] \in Ptr
    BY <1>4, <1>5, <2>1
  <2>3. parts \in [1..N -> Ptr]
    BY <2>1, <2>2
  <2> HIDE DEF Ptr
  <2> QED
    BY <1>3, <2>3
<1>11. NodeOK(choice, Ptr, g.used_sequence_counters) /\ choice.kind = "Alternatives"
  <2>1. choice.kind = "Alternatives" /\ choice.next = parts
    OBVIOUS
  <2> HIDE DEF choice
  <2> QED
    BY <1>10, <2>1 DEF NodeOK, Kinds, NextKinds, GroupKinds, LookKinds, CounterKinds,
                       CountedKinds, LoopKinds
<1>12. \A q \in R :
         /\ \E k \in Nat : q = New(p, k)
         /\ NodeOK(nodes[q], Ptr, g.used_sequence_counters) /\ nodes[q] \in SimpleNodes
  <2> TAKE q \in R
  <2>1. PICK j \in 1..N : q = New(p, j)
    BY <1>5
  <2> DEFINE next == g.node[branches[j]].next
  <2>2. PICK t \in Seq(Byte) : nodes[q] = StringNode(t, next)
    BY <1>1, <1>3, <2>1 DEF SplitNodes
  <2>3. next \in Ptr /\ j \in Nat
    BY <1>4
  <2> DEFINE n == StringNode(t, next)
  <2>4. NodeOK(n, Ptr, g.used_sequence_counters) /\ n \in SimpleNodes
    <3> HIDE DEF Ptr, next
    <3> QED
      BY <1>7, <2>3, StringOK
  <2> HIDE DEF n, Ptr, branches, N
  <2>5. nodes[q] = n
    BY <2>2 DEF n
  <2> QED
    BY <2>1, <2>3, <2>4, <2>5
<1>13. IsFiniteSet(DOMAIN nodes)
  <2> DEFINE T == { New(p, j) : j \in 1..N }
             f == [j \in 1..N |-> New(p, j)]
  <2>1. IsFiniteSet(T)
    <3>1. IsFiniteSet(1..N)
      BY <1>3, FS_Interval
    <3>2. f \in Surjection(1..N, T)
      BY DEF Surjection
    <3> HIDE DEF N, T, f
    <3> QED
      BY <3>1, <3>2, FS_Surjection
  <2>2. R \subseteq T
    <3> HIDE DEF N
    <3> QED
      BY <1>5
  <2>3. IsFiniteSet(R)
    <3> HIDE DEF T
    <3> QED
      BY <2>1, <2>2, FS_Subset
  <2>4. IsFiniteSet({p}) /\ IsFiniteSet({New(p, 0)})
    BY FS_Singleton
  <2>5. IsFiniteSet({p} \cup {New(p, 0)})
    BY <2>4, FS_Union
  <2>6. IsFiniteSet(({p} \cup {New(p, 0)}) \cup R)
    BY <2>3, <2>5, FS_Union
  <2>7. DOMAIN nodes = ({p} \cup {New(p, 0)}) \cup R
    BY <1>5
  <2> QED
    BY <2>6, <2>7
<1> HIDE DEF start, choice, Ptr, branches, N
<1>14. "Alternatives" \notin SimpleKinds /\ 0 \in Nat
  BY DEF SimpleKinds
<1>15. nodes[p] = start
  BY <1>8 DEF start
<1> QED
  BY <1>2, <1>5, <1>9, <1>11, <1>12, <1>13, <1>14, <1>15 DEF Writes, Ptr

LEMMA FormsWrite ==
  ASSUME NEW g, GraphOK(g), Shaped(g), NEW p \in DOMAIN g.node, NEW nodes, Forms(g, p, nodes)
  PROVE  Writes(g, p, nodes)
<1>1. nodes = Unchanged => Writes(g, p, nodes)
  <2>1. DOMAIN Unchanged = {}
    BY DEF Unchanged
  <2> QED
    BY <2>1, FS_EmptySet DEF Writes
<1> QED
  BY <1>1, JoinsWrites, SplitsWrites, KeepsWrites, RollsWrites, MeasuresWrites
  DEF Forms

-----------------------------------------------------------------------------
(***************************************************************************)
(* A graph that is written to stays a graph.                               *)
(***************************************************************************)
Merged(g, nodes) == [g EXCEPT !.node = Over(nodes, @)]

\* Pointers made by New come from a node that was rewritten: no choice any more,
\* so that it makes no more of them.
Fresh(g) ==
  \A x \in DOMAIN g.node : Last(x) <= -20 =>
    /\ Front(x) \in DOMAIN g.node
    /\ g.node[Front(x)].kind # "Alternatives"

LEMMA MergedFacts ==
  ASSUME NEW g, Shaped(g), NEW nodes
  PROVE  LET h == Merged(g, nodes) IN
         /\ h = [f \in {"root", "node", "group_count", "used_sequence_counters"} |-> h[f]]
         /\ h.root = g.root /\ h.group_count = g.group_count
         /\ h.used_sequence_counters = g.used_sequence_counters
         /\ DOMAIN h.node = DOMAIN nodes \cup DOMAIN g.node
         /\ \A q \in DOMAIN nodes : h.node[q] = nodes[q]
         /\ \A q \in DOMAIN g.node : q \notin DOMAIN nodes => h.node[q] = g.node[q]
<1> DEFINE names == {"root", "node", "group_count", "used_sequence_counters"}
           h == Merged(g, nodes)
<1>1. DOMAIN g = names
  <2>1. DOMAIN [f \in names |-> g[f]] = names
    OBVIOUS
  <2>2. g = [f \in names |-> g[f]]
    BY DEF Shaped
  <2> HIDE DEF names
  <2> QED
    BY <2>1, <2>2
<1>2. h = [f \in names |-> h[f]]
  BY <1>1 DEF Merged
<1>3. /\ h.root = g.root /\ h.group_count = g.group_count
      /\ h.used_sequence_counters = g.used_sequence_counters
      /\ h.node = Over(nodes, g.node)
  BY <1>1 DEF Merged
<1> HIDE DEF h
<1>4. /\ DOMAIN h.node = DOMAIN nodes \cup DOMAIN g.node
      /\ \A q \in DOMAIN nodes : h.node[q] = nodes[q]
      /\ \A q \in DOMAIN g.node : q \notin DOMAIN nodes => h.node[q] = g.node[q]
  BY <1>3 DEF Over
<1> QED
  BY <1>2, <1>3, <1>4 DEF h

LEMMA MergedFunction ==
  ASSUME NEW g, Shaped(g), NEW nodes
  PROVE  Merged(g, nodes).node
           = [q \in DOMAIN Merged(g, nodes).node |-> Merged(g, nodes).node[q]]
<1> DEFINE f == Over(nodes, g.node)
<1>1. f = [q \in DOMAIN f |-> f[q]]
  BY DEF Over
<1> HIDE DEF f
<1>2. Merged(g, nodes).node = f
  <2>1. g = [x \in {"root", "node", "group_count", "used_sequence_counters"} |-> g[x]]
    BY DEF Shaped
  <2> QED
    BY <2>1 DEF Merged, f
<1> QED
  BY <1>1, <1>2

LEMMA NodeOKWider ==
  ASSUME NEW n, NEW Ptr, NEW Wider, Ptr \subseteq Wider, NEW Ids, NodeOK(n, Ptr, Ids)
  PROVE  NodeOK(n, Wider, Ids)
<1>1. n.kind = "Alternatives" => n.next \in Seq(Wider)
  BY SeqMonotonic DEF NodeOK
<1> QED
  BY <1>1 DEF NodeOK

LEMMA WriteKeepsGraph ==
  ASSUME NEW g, GraphOK(g), Shaped(g), NEW p \in DOMAIN g.node, NEW nodes, Writes(g, p, nodes)
  PROVE  GraphOK(Merged(g, nodes)) /\ Shaped(Merged(g, nodes))
<1> DEFINE h == Merged(g, nodes)
           Ids == g.used_sequence_counters
<1>0. h.node = [q \in DOMAIN h.node |-> h.node[q]]
  BY MergedFunction
<1>1. /\ h = [f \in {"root", "node", "group_count", "used_sequence_counters"} |-> h[f]]
      /\ h.root = g.root /\ h.group_count = g.group_count
      /\ h.used_sequence_counters = Ids
      /\ DOMAIN h.node = DOMAIN nodes \cup DOMAIN g.node
      /\ \A q \in DOMAIN nodes : h.node[q] = nodes[q]
      /\ \A q \in DOMAIN g.node : q \notin DOMAIN nodes => h.node[q] = g.node[q]
  BY MergedFacts
<1> HIDE DEF h
<1>2. PtrOf(h) = PtrOf(g) \cup DOMAIN nodes
  BY <1>1 DEF PtrOf
<1>3. \A q \in DOMAIN nodes : q \in Seq(Int) /\ q # nullptr
  <2> TAKE q \in DOMAIN nodes
  <2>1. p \in Seq(Int) /\ p # nullptr
    BY DEF Shaped, GraphOK
  <2>2. CASE q = p
    BY <2>1, <2>2
  <2>3. CASE q # p
    <3>1. PICK k \in Nat : q = New(p, k)
      BY <2>3 DEF Writes
    <3>2. k \in Int
      OBVIOUS
    <3> QED
      BY <2>1, <3>1, <3>2, NewPointer
  <2> QED
    BY <2>2, <2>3
<1>4. \A q \in DOMAIN h.node : NodeOK(h.node[q], PtrOf(h), Ids)
  <2> TAKE q \in DOMAIN h.node
  <2>1. CASE q \in DOMAIN nodes
    BY <1>1, <1>2, <2>1 DEF Writes
  <2>2. CASE q \notin DOMAIN nodes
    <3>1. q \in DOMAIN g.node /\ h.node[q] = g.node[q]
      BY <1>1, <2>2
    <3>2. NodeOK(g.node[q], PtrOf(g), Ids)
      BY <3>1 DEF GraphOK, PtrOf
    <3>3. PtrOf(g) \subseteq PtrOf(h)
      BY <1>2
    <3> QED
      BY <3>1, <3>2, <3>3, NodeOKWider
  <2> QED
    BY <2>1, <2>2
<1>5. GraphOK(h)
  <2>1. nullptr \notin DOMAIN h.node
    BY <1>1, <1>3 DEF GraphOK
  <2>2. h.root \in PtrOf(h)
    BY <1>1, <1>2 DEF GraphOK, PtrOf
  <2>3. h.group_count \in Nat
    BY <1>1 DEF GraphOK
  <2> QED
    BY <1>1, <1>4, <2>1, <2>2, <2>3 DEF GraphOK, PtrOf
<1>6. Shaped(h)
  <2>1. IsFiniteSet(DOMAIN h.node)
    <3>1. IsFiniteSet(DOMAIN nodes) /\ IsFiniteSet(DOMAIN g.node)
      BY DEF Shaped, Writes
    <3>2. IsFiniteSet(DOMAIN nodes \cup DOMAIN g.node)
      BY <3>1, FS_Union
    <3> QED
      BY <1>1, <3>2
  <2>2. DOMAIN h.node \subseteq Seq(Int)
    BY <1>1, <1>3 DEF Shaped
  <2>3. \A q \in DOMAIN h.node : h.node[q].kind \in SimpleKinds => h.node[q] \in SimpleNodes
    BY <1>1 DEF Shaped, Writes
  <2> QED
    BY <1>0, <1>1, <2>1, <2>2, <2>3 DEF Shaped
<1> QED
  BY <1>5, <1>6 DEF h

\* What is written at a new pointer was not there before.
LEMMA WritesNew ==
  ASSUME NEW g, GraphOK(g), Shaped(g), Fresh(g), NEW p \in DOMAIN g.node, NEW nodes,
         Writes(g, p, nodes), NEW q \in DOMAIN nodes, q # p
  PROVE  /\ q \notin DOMAIN g.node
         /\ Front(q) = p /\ Last(q) <= -20
<1>1. PICK k \in Nat : q = New(p, k)
  BY DEF Writes
<1>2. g.node[p].kind = "Alternatives"
  BY DEF Writes
<1>3. Front(q) = p /\ Last(q) = -(20 + k)
  <2>1. p \in Seq(Int) /\ k \in Int
    BY DEF Shaped
  <2> QED
    BY <1>1, <2>1, NewPointer
<1>4. Last(q) <= -20
  <2>1. -(20 + k) <= -20
    OBVIOUS
  <2> QED
    BY <1>3, <2>1
<1> QED
  BY <1>2, <1>3, <1>4 DEF Fresh

LEMMA WriteKeepsFresh ==
  ASSUME NEW g, GraphOK(g), Shaped(g), Fresh(g), NEW p \in DOMAIN g.node, NEW nodes,
         Writes(g, p, nodes)
  PROVE  Fresh(Merged(g, nodes))
<1> DEFINE h == Merged(g, nodes)
<1>1. /\ DOMAIN h.node = DOMAIN nodes \cup DOMAIN g.node
      /\ \A q \in DOMAIN nodes : h.node[q] = nodes[q]
      /\ \A q \in DOMAIN g.node : q \notin DOMAIN nodes => h.node[q] = g.node[q]
  BY MergedFacts
<1> HIDE DEF h
<1> SUFFICES ASSUME NEW x \in DOMAIN h.node, Last(x) <= -20
             PROVE  Front(x) \in DOMAIN h.node /\ h.node[Front(x)].kind # "Alternatives"
  BY DEF Fresh, h
<1>2. DOMAIN nodes # {} => p \in DOMAIN nodes /\ nodes[p].kind # "Alternatives"
  BY DEF Writes
<1>3. CASE x \in DOMAIN g.node
  <2>1. Front(x) \in DOMAIN g.node /\ g.node[Front(x)].kind # "Alternatives"
    BY <1>3 DEF Fresh
  <2>2. CASE Front(x) = p
    BY <1>1, <1>2, <2>1, <2>2
  <2>3. CASE Front(x) # p
    BY <1>1, <2>1, <2>3, WritesNew
  <2> QED
    BY <2>2, <2>3
<1>4. CASE x \notin DOMAIN g.node
  <2>1. x \in DOMAIN nodes /\ x # p
    BY <1>1, <1>4
  <2>2. Front(x) = p
    BY <2>1, WritesNew
  <2> QED
    BY <1>1, <1>2, <2>1, <2>2
<1> QED
  BY <1>3, <1>4

\* Where the walk goes from a node: everywhere the node leads to.
LeadsTo(n) == ContinuationsOf(n) \cup SubgraphsOf(n) \cup SubroutinesOf(n)

LEMMA SuccessorsLead ==
  ASSUME NEW n, NEW Ptr, NEW Ids, NodeOK(n, Ptr, Ids)
  PROVE  Successors(n) \in Seq(Ptr) /\ ToSet(Successors(n)) = LeadsTo(n)
<1>1. /\ \A a : ToSet(<<a>>) = {a}
      /\ \A a, b : ToSet(<<a, b>>) = {a, b}
      /\ \A a, b, c : ToSet(<<a, b, c>>) = {a, b, c}
      /\ ToSet(<<>>) = {}
  <2>1. \A a, b : ToSet(<<a, b>>) = {a, b}
    <3> TAKE a, b
    <3>1. DOMAIN <<a, b>> = {1, 2} /\ <<a, b>>[1] = a /\ <<a, b>>[2] = b
      OBVIOUS
    <3> QED
      BY <3>1 DEF ToSet
  <2>2. \A a, b, c : ToSet(<<a, b, c>>) = {a, b, c}
    <3> TAKE a, b, c
    <3>1. /\ DOMAIN <<a, b, c>> = {1, 2, 3}
          /\ <<a, b, c>>[1] = a /\ <<a, b, c>>[2] = b /\ <<a, b, c>>[3] = c
      OBVIOUS
    <3> QED
      BY <3>1 DEF ToSet
  <2>3. (\A a : ToSet(<<a>>) = {a}) /\ ToSet(<<>>) = {}
    BY DEF ToSet
  <2> QED
    BY <2>1, <2>2, <2>3
<1>2. CASE n.kind = "Alternatives"
  BY <1>2 DEF Successors, LeadsTo, ContinuationsOf, SubgraphsOf, SubroutinesOf, LookKinds,
              LoopKinds, NodeOK
<1>3. CASE n.kind = "AlternativesPossessive"
  <2>1. Successors(n) = <<n.path0_element, n.path0_next, n.path1_next>>
    BY <1>3 DEF Successors, LookKinds, LoopKinds
  <2>2. LeadsTo(n) = {n.path0_element, n.path0_next, n.path1_next}
    BY <1>3 DEF LeadsTo, ContinuationsOf, SubgraphsOf, SubroutinesOf, LookKinds, LoopKinds
  <2>3. n.path0_element \in Ptr /\ n.path0_next \in Ptr /\ n.path1_next \in Ptr
    BY <1>3 DEF NodeOK
  <2> QED
    BY <1>1, <2>1, <2>2, <2>3
<1>4. CASE n.kind \in LookKinds
  <2>1. Successors(n) = <<n.look_graph, n.next>>
    BY <1>4 DEF Successors, LookKinds, LoopKinds
  <2>2. LeadsTo(n) = {n.look_graph, n.next}
    BY <1>4 DEF LeadsTo, ContinuationsOf, SubgraphsOf, SubroutinesOf, LookKinds, LoopKinds
  <2>3. n.look_graph \in Ptr /\ n.next \in Ptr
    BY <1>4 DEF NodeOK, LookKinds, NextKinds
  <2> QED
    BY <1>1, <2>1, <2>2, <2>3
<1>5. CASE n.kind = "ConditionalElement"
  <2>1. Successors(n) = <<n.condition_node, n.next_true, n.next_false>>
    BY <1>5 DEF Successors, LookKinds, LoopKinds
  <2>2. LeadsTo(n) = {n.condition_node, n.next_true, n.next_false}
    BY <1>5 DEF LeadsTo, ContinuationsOf, SubgraphsOf, SubroutinesOf, LookKinds, LoopKinds
  <2>3. n.condition_node \in Ptr /\ n.next_true \in Ptr /\ n.next_false \in Ptr
    BY <1>5 DEF NodeOK
  <2> QED
    BY <1>1, <2>1, <2>2, <2>3
<1>6. CASE n.kind = "SequenceCounter"
  <2>1. Successors(n) = <<n.next_iteration, n.next_sequence_end>>
    BY <1>6 DEF Successors, LookKinds, LoopKinds
  <2>2. LeadsTo(n) = {n.next_iteration, n.next_sequence_end}
    BY <1>6 DEF LeadsTo, ContinuationsOf, SubgraphsOf, SubroutinesOf, LookKinds, LoopKinds
  <2>3. n.next_iteration \in Ptr /\ n.next_sequence_end \in Ptr
    BY <1>6 DEF NodeOK
  <2> QED
    BY <1>1, <2>1, <2>2, <2>3
<1>7. CASE n.kind \in LoopKinds
  <2>1. Successors(n) = <<n.sequence_element, n.next>>
    BY <1>7 DEF Successors, LookKinds, LoopKinds
  <2>2. LeadsTo(n) = {n.sequence_element, n.next}
    BY <1>7 DEF LeadsTo, ContinuationsOf, SubgraphsOf, SubroutinesOf, LookKinds, LoopKinds
  <2>3. n.sequence_element \in Ptr /\ n.next \in Ptr
    BY <1>7 DEF NodeOK, LoopKinds, NextKinds
  <2> QED
    BY <1>1, <2>1, <2>2, <2>3
<1>8. CASE n.kind = "AtomicGroup"
  <2>1. Successors(n) = <<n.group_element, n.next>>
    BY <1>8 DEF Successors, LookKinds, LoopKinds
  <2>2. LeadsTo(n) = {n.group_element, n.next}
    BY <1>8 DEF LeadsTo, ContinuationsOf, SubgraphsOf, SubroutinesOf, LookKinds, LoopKinds
  <2>3. n.group_element \in Ptr /\ n.next \in Ptr
    BY <1>8 DEF NodeOK, NextKinds
  <2> QED
    BY <1>1, <2>1, <2>2, <2>3
<1>9. CASE n.kind = "SubroutineEnter"
  <2>1. Successors(n) = <<n.subroutine_node, n.next>>
    BY <1>9 DEF Successors, LookKinds, LoopKinds
  <2>2. LeadsTo(n) = {n.subroutine_node, n.next}
    BY <1>9 DEF LeadsTo, ContinuationsOf, SubgraphsOf, SubroutinesOf, LookKinds, LoopKinds
  <2>3. n.subroutine_node \in Ptr /\ n.next \in Ptr
    BY <1>9 DEF NodeOK, NextKinds
  <2> QED
    BY <1>1, <2>1, <2>2, <2>3
<1>10. CASE n.kind = "SubroutineLeave"
  <2>1. Successors(n) = <<>>
    BY <1>10 DEF Successors, LookKinds, LoopKinds
  <2>2. LeadsTo(n) = {}
    BY <1>10 DEF LeadsTo, ContinuationsOf, SubgraphsOf, SubroutinesOf, LookKinds, LoopKinds
  <2> QED
    BY <1>1, <2>1, <2>2
<1>11. CASE n.kind \notin {"Alternatives", "AlternativesPossessive", "ConditionalElement",
                           "SequenceCounter", "AtomicGroup", "SubroutineEnter",
                           "SubroutineLeave"} \cup LookKinds \cup LoopKinds
  <2>1. Successors(n) = <<n.next>>
    BY <1>11 DEF Successors, LookKinds, LoopKinds
  <2>2. LeadsTo(n) = {n.next}
    BY <1>11 DEF LeadsTo, ContinuationsOf, SubgraphsOf, SubroutinesOf
  <2>3. n.next \in Ptr
    BY <1>11 DEF NodeOK, Kinds
  <2> QED
    BY <1>1, <2>1, <2>2, <2>3
<1> QED
  BY <1>2, <1>3, <1>4, <1>5, <1>6, <1>7, <1>8, <1>9, <1>10, <1>11

-----------------------------------------------------------------------------
(***************************************************************************)
(* The walk.                                                               *)
(***************************************************************************)
\* What the walk still has to visit it has not visited, and whatever a visited
\* node leads to is visited or will be.
Walked ==
  LET known == visited \cup ToSet(agenda) \cup {nullptr}
  IN /\ visited \cap ToSet(agenda) = {}
     /\ graph.root \in known
     /\ \A q \in visited : LeadsTo(graph.node[q]) \subseteq known

OptimizerInv == OptimizerTypeOK /\ Shaped(graph) /\ Fresh(graph) /\ Walked

LEMMA PassNumbers ==
  Len(Passes) = 9 /\ DOMAIN Passes = 1..9
BY DEF Passes

LEMMA ToSetOfOne ==
  ASSUME NEW a
  PROVE  ToSet(<<a>>) = {a}
BY DEF ToSet

LEMMA SeqOfOne ==
  ASSUME NEW S, NEW a \in S
  PROVE  <<a>> \in Seq(S)
OBVIOUS

\* A walk begins at the root, knowing nothing.
LEMMA WalkBegins ==
  ASSUME NEW g, GraphOK(g), Shaped(g), Fresh(g), NEW k, k \in 0..10, WalkFrom(g, k), graph' = g
  PROVE  OptimizerInv'
<1>1. pass' = k /\ changed' = FALSE /\ visited' = {} /\ agenda' = ToVisit(<<g.root>>, {})
  BY DEF WalkFrom
<1>2. <<g.root>> \in Seq(PtrOf(g)) /\ ToSet(<<g.root>>) = {g.root}
  BY ToSetOfOne DEF GraphOK, PtrOf
<1>3. /\ agenda' \in Seq(PtrOf(g) \ ({} \cup {nullptr}))
      /\ ToSet(agenda') = {g.root} \ ({} \cup {nullptr})
  <2> DEFINE none == {}
             ps   == <<g.root>>
  <2>1. ps \in Seq(PtrOf(g)) /\ ToSet(ps) = {g.root} /\ agenda' = ToVisit(ps, none)
    BY <1>1, <1>2
  <2> HIDE DEF none, ps
  <2>2. /\ agenda' \in Seq(PtrOf(g) \ (none \cup {nullptr}))
        /\ ToSet(agenda') = ToSet(ps) \ (none \cup {nullptr})
    BY <2>1, ToVisitSet
  <2> QED
    BY <2>1, <2>2 DEF none
<1>4. agenda' \in Seq(DOMAIN g.node)
  <2>1. PtrOf(g) \ ({} \cup {nullptr}) \subseteq DOMAIN g.node
    BY DEF PtrOf
  <2> QED
    BY <1>3, <2>1, SeqMonotonic
<1>5. OptimizerTypeOK'
  <2>1. pass' \in 0..(Len(Passes) + 1)
    BY <1>1, PassNumbers
  <2>2. changed' \in BOOLEAN /\ visited' \subseteq DOMAIN g.node
    BY <1>1
  <2> QED
    BY <1>4, <2>1, <2>2 DEF OptimizerTypeOK
<1>6. Walked'
  BY <1>1, <1>3 DEF Walked
<1> QED
  BY <1>5, <1>6 DEF OptimizerInv

LEMMA InitOptimizer ==
  OptimizerInit => OptimizerInv
<1> SUFFICES ASSUME OptimizerInit
             PROVE  OptimizerInv
  OBVIOUS
<1>1. /\ graph = NoGraph /\ pass = 0 /\ changed = FALSE /\ visited = {} /\ agenda = <<>>
      /\ DOMAIN graph.node = {} /\ graph.root = nullptr /\ graph.group_count = 0
  BY DEF OptimizerInit, NoGraph
<1>2. GraphOK(graph) /\ Fresh(graph)
  BY <1>1 DEF GraphOK, Fresh
<1>3. Shaped(graph)
  <2>1. graph = [f \in {"root", "node", "group_count", "used_sequence_counters"} |-> graph[f]]
    BY <1>1 DEF NoGraph
  <2>2. graph.node = [p \in DOMAIN graph.node |-> graph.node[p]]
    <3>1. \A s \in Seq({}) : s = [k \in DOMAIN s |-> s[k]]
      OBVIOUS
    <3>2. graph.node \in Seq({})
      BY <1>1, EmptySeq DEF NoGraph
    <3> QED
      BY <3>1, <3>2
  <2> QED
    BY <1>1, <2>1, <2>2, FS_EmptySet DEF Shaped
<1>4. OptimizerTypeOK
  <2>1. pass \in 0..(Len(Passes) + 1)
    BY <1>1, PassNumbers
  <2>2. agenda \in Seq(DOMAIN graph.node)
    BY <1>1, EmptySeq
  <2>3. changed \in BOOLEAN /\ visited \subseteq DOMAIN graph.node
    BY <1>1
  <2> QED
    BY <1>2, <2>1, <2>2, <2>3 DEF OptimizerTypeOK
<1>5. Walked
  BY <1>1 DEF Walked
<1> QED
  BY <1>2, <1>3, <1>4, <1>5 DEF OptimizerInv

LEMMA CallStep ==
  ASSUME NEW g \in SourceGraphs, OptimizeRegexGraph(g)
  PROVE  OptimizerInv'
<1>1. SourceOK(g)
  BY SourceGraphsAssumption
<1>2. GraphOK(g) /\ Shaped(g)
  BY <1>1 DEF SourceOK
<1>3. Fresh(g)
  <2>1. \A x \in DOMAIN g.node : ~(Last(x) <= -20)
    <3> TAKE x \in DOMAIN g.node
    <3>1. x \in Seq(Int) /\ x # <<>>
      BY <1>2 DEF Shaped, GraphOK, nullptr
    <3>2. Last(x) \in Int /\ Last(x) > -20
      BY <1>1, <3>1 DEF SourceOK, Last
    <3> QED
      BY <3>2
  <2> QED
    BY <2>1 DEF Fresh
<1>4. WalkFrom(g, 1) /\ graph' = g /\ 1 \in 0..10
  BY DEF OptimizeRegexGraph
<1> QED
  BY <1>2, <1>3, <1>4, WalkBegins

\* The node at hand, and what the optimization of the pass writes.
LEMMA VisitWrites ==
  ASSUME OptimizerInv, Optimizing, agenda # <<>>
  PROVE  LET p     == Head(agenda)
             nodes == Optimization(graph, p, Passes[pass])
         IN /\ p \in DOMAIN graph.node /\ p \notin visited
            /\ Tail(agenda) \in Seq(DOMAIN graph.node)
            /\ ToSet(agenda) = {p} \cup ToSet(Tail(agenda))
            /\ Writes(graph, p, nodes)
            /\ GraphOK(Merged(graph, nodes)) /\ Shaped(Merged(graph, nodes))
            /\ Fresh(Merged(graph, nodes))
            /\ \A q \in DOMAIN graph.node : q # p => q \notin DOMAIN nodes
<1> DEFINE p     == Head(agenda)
           nodes == Optimization(graph, p, Passes[pass])
<1>1. agenda \in Seq(DOMAIN graph.node) /\ GraphOK(graph) /\ Shaped(graph) /\ Fresh(graph)
  BY DEF OptimizerInv, OptimizerTypeOK
<1>2. p \in DOMAIN graph.node /\ Tail(agenda) \in Seq(DOMAIN graph.node)
  BY <1>1
<1>3. agenda = <<p>> \o Tail(agenda)
  BY <1>1
<1>4. ToSet(agenda) = {p} \cup ToSet(Tail(agenda))
  <2> HIDE DEF p
  <2>1. <<p>> \in Seq(DOMAIN graph.node)
    BY <1>2, SeqOfOne
  <2>2. ToSet(<<p>> \o Tail(agenda)) = ToSet(<<p>>) \cup ToSet(Tail(agenda))
    BY <1>2, <2>1, ConcatSet
  <2>3. ToSet(<<p>>) = {p}
    BY ToSetOfOne
  <2> QED
    BY <1>3, <2>2, <2>3
<1> HIDE DEF p
<1>5. p \notin visited
  BY <1>4 DEF OptimizerInv, Walked
<1>6. Forms(graph, p, nodes)
  <2>1. pass \in DOMAIN Passes
    BY DEF Optimizing
  <2> QED
    BY <1>1, <1>2, <2>1, EveryForm DEF Forms
<1> HIDE DEF nodes
<1>7. Writes(graph, p, nodes)
  BY <1>1, <1>2, <1>6, FormsWrite
<1>8. GraphOK(Merged(graph, nodes)) /\ Shaped(Merged(graph, nodes))
  BY <1>1, <1>2, <1>7, WriteKeepsGraph
<1>9. Fresh(Merged(graph, nodes))
  BY <1>1, <1>2, <1>7, WriteKeepsFresh
<1>10. \A q \in DOMAIN graph.node : q # p => q \notin DOMAIN nodes
  BY <1>1, <1>2, <1>7, WritesNew
<1> QED
  BY <1>2, <1>4, <1>5, <1>7, <1>8, <1>9, <1>10 DEF p, nodes

LEMMA VisitStep ==
  ASSUME OptimizerInv, VisitNode
  PROVE  OptimizerInv'
<1> DEFINE p     == Head(agenda)
           nodes == Optimization(graph, p, Passes[pass])
           h     == Merged(graph, nodes)
           seen  == visited \cup {p}
           rest  == Tail(agenda)
           to    == Successors(h.node[p]) \o rest
<1>1. Optimizing /\ agenda # <<>>
  BY DEF VisitNode
<1>2. /\ p \in DOMAIN graph.node /\ p \notin visited
      /\ rest \in Seq(DOMAIN graph.node)
      /\ ToSet(agenda) = {p} \cup ToSet(rest)
      /\ Writes(graph, p, nodes)
      /\ GraphOK(h) /\ Shaped(h) /\ Fresh(h)
      /\ \A q \in DOMAIN graph.node : q # p => q \notin DOMAIN nodes
  BY <1>1, VisitWrites
<1>3. graph' = h
  BY DEF VisitNode, Merged
<1>4. /\ pass' = pass /\ changed' = (changed \/ nodes # Unchanged) /\ visited' = seen
      /\ agenda' = ToVisit(Successors(graph'.node[p]) \o rest, seen)
  BY DEF VisitNode
<1>5. agenda' = ToVisit(to, seen)
  BY <1>3, <1>4
<1>6. /\ h.root = graph.root
      /\ DOMAIN h.node = DOMAIN nodes \cup DOMAIN graph.node
      /\ \A q \in DOMAIN graph.node : q \notin DOMAIN nodes => h.node[q] = graph.node[q]
  <2>1. Shaped(graph)
    BY DEF OptimizerInv
  <2> HIDE DEF nodes
  <2> QED
    BY <2>1, MergedFacts
<1> HIDE DEF nodes, p, h
<1>7. p \in DOMAIN h.node
  BY <1>2, <1>6
<1>8. NodeOK(h.node[p], PtrOf(h), h.used_sequence_counters)
  BY <1>2, <1>7 DEF GraphOK, PtrOf
<1>9. /\ Successors(h.node[p]) \in Seq(PtrOf(h))
      /\ ToSet(Successors(h.node[p])) = LeadsTo(h.node[p])
  BY <1>8, SuccessorsLead
<1>10. rest \in Seq(PtrOf(h))
  <2>1. DOMAIN graph.node \subseteq PtrOf(h)
    BY <1>6 DEF PtrOf
  <2> HIDE DEF rest
  <2> QED
    BY <1>2, <2>1, SeqMonotonic
<1>11. to \in Seq(PtrOf(h)) /\ ToSet(to) = LeadsTo(h.node[p]) \cup ToSet(rest)
  <2> HIDE DEF rest
  <2> QED
    BY <1>9, <1>10, ConcatSet
<1> HIDE DEF to, rest
<1>12. /\ agenda' \in Seq(PtrOf(h) \ (seen \cup {nullptr}))
       /\ ToSet(agenda') = (LeadsTo(h.node[p]) \cup ToSet(rest)) \ (seen \cup {nullptr})
  BY <1>5, <1>11, ToVisitSet
<1>13. agenda' \in Seq(DOMAIN h.node)
  <2>1. PtrOf(h) \ (seen \cup {nullptr}) \subseteq DOMAIN h.node
    BY DEF PtrOf
  <2> QED
    BY <1>12, <2>1, SeqMonotonic
<1>14. visited \subseteq DOMAIN graph.node /\ pass \in 0..10
  BY PassNumbers DEF OptimizerInv, OptimizerTypeOK
<1>15. OptimizerTypeOK'
  <2>1. visited' \subseteq DOMAIN h.node
    BY <1>4, <1>6, <1>7, <1>14
  <2>2. changed' \in BOOLEAN
    BY <1>4 DEF OptimizerInv, OptimizerTypeOK
  <2> QED
    BY <1>2, <1>3, <1>4, <1>13, <1>14, <2>1, <2>2, PassNumbers DEF OptimizerTypeOK
<1>16. Walked'
  <2> DEFINE known == seen \cup ToSet(agenda') \cup {nullptr}
  <2>1. /\ visited \cup ToSet(agenda) \cup {nullptr} \subseteq known
        /\ LeadsTo(h.node[p]) \subseteq known
    BY <1>2, <1>12
  <2>2. seen \cap ToSet(agenda') = {}
    BY <1>12
  <2>3. h.root \in known
    BY <1>6, <2>1 DEF OptimizerInv, Walked
  <2>4. \A q \in visited : LeadsTo(h.node[q]) \subseteq known
    <3> TAKE q \in visited
    <3>1. h.node[q] = graph.node[q]
      BY <1>2, <1>6, <1>14
    <3>2. LeadsTo(graph.node[q]) \subseteq visited \cup ToSet(agenda) \cup {nullptr}
      BY DEF OptimizerInv, Walked
    <3> QED
      BY <2>1, <3>1, <3>2
  <2>5. \A q \in seen : LeadsTo(h.node[q]) \subseteq known
    BY <2>1, <2>4
  <2> QED
    BY <1>3, <1>4, <2>2, <2>3, <2>5 DEF Walked
<1> QED
  BY <1>2, <1>3, <1>15, <1>16 DEF OptimizerInv

LEMMA OptimizerStep ==
  ASSUME OptimizerInv, [OptimizerNext]_optimizerVars
  PROVE  OptimizerInv'
<1>1. GraphOK(graph) /\ Shaped(graph) /\ Fresh(graph)
  BY DEF OptimizerInv, OptimizerTypeOK
<1>2. ASSUME NEW g \in SourceGraphs, OptimizeRegexGraph(g)
      PROVE  OptimizerInv'
  BY <1>2, CallStep
<1>3. CASE VisitNode
  BY <1>3, VisitStep
<1>4. CASE WalkAgain
  <2>1. pass \in 0..10 /\ WalkFrom(graph, pass) /\ graph' = graph
    BY <1>4, PassNumbers DEF WalkAgain, Optimizing
  <2> QED
    BY <1>1, <2>1, WalkBegins
<1>5. CASE NextPass
  <2>1. pass + 1 \in 0..10 /\ WalkFrom(graph, pass + 1) /\ graph' = graph
    BY <1>5, PassNumbers DEF NextPass, Optimizing
  <2> QED
    BY <1>1, <2>1, WalkBegins
<1>6. CASE UNCHANGED optimizerVars
  BY <1>6 DEF optimizerVars, OptimizerInv, OptimizerTypeOK, Walked
<1> QED
  BY <1>2, <1>3, <1>4, <1>5, <1>6 DEF OptimizerNext, Optimize, OptimizerReturned

\* Every rewriting leaves a graph: its pointers lead to nodes and its fields
\* have their types, whatever graphs the optimizer is given.
THEOREM OptimizerTypeCorrect == OptimizerSpec => []OptimizerTypeOK
<1>1. OptimizerInv /\ [OptimizerNext]_optimizerVars => OptimizerInv'
  BY OptimizerStep
<1>2. OptimizerInv => OptimizerTypeOK
  BY DEF OptimizerInv
<1> QED
  BY InitOptimizer, <1>1, <1>2, PTL DEF OptimizerSpec

\* What is reached from the root is in every set that has the root and that
\* no node of it leads out of.
LEMMA ReachedLeast ==
  ASSUME NEW g, Shaped(g), NEW T,
         g.root \in T \cup {nullptr},
         \A q \in T : LeadsTo(g.node[q]) \subseteq T \cup {nullptr}
  PROVE  ReachedFrom(g, {g.root}, LeadsTo) \subseteq T
<1> DEFINE N == Cardinality(DOMAIN g.node)
           V == SUBSET (T \ {nullptr})
           start == {g.root} \ {nullptr}
           more(S) == (UNION { {q} \cup LeadsTo(g.node[q]) : q \in S }) \ {nullptr}
           step == [k \in 1..N |-> [S \in V |-> more(S)]]
           F[k \in 0..N] == IF k = 0 THEN start ELSE more(F[k - 1])
<1>1. N \in Nat
  BY FS_CardinalityType DEF Shaped
<1>2. start \in V /\ \A S \in V : more(S) \in V
  OBVIOUS
<1>3. IsSteps(step, N, V)
  <2> HIDE DEF more, V, N
  <2> QED
    BY <1>1, <1>2 DEF IsSteps
<1>4. \A k \in 1..N : \A S \in V : step[k][S] = more(S)
  <2> HIDE DEF more, V, N
  <2> QED
    OBVIOUS
<1> HIDE DEF step, V, N, more, start
<1>5. \E f : f = [k \in 0..N |-> IF k = 0 THEN start ELSE more(f[k - 1])]
  <2>1. PICK f \in [0..N -> V] : Recurs(f, N, start, step)
    BY <1>2, <1>3, RecursionExists
  <2>2. \A k \in 0..N : k # 0 => f[k] = more(f[k - 1])
    <3> TAKE k \in 0..N
    <3>1. k # 0 => k \in 1..N /\ k - 1 \in 0..N
      BY <1>1
    <3>2. k # 0 => k \in 1..N /\ f[k - 1] \in V
      BY <3>1, <2>1
    <3> QED
      BY <1>4, <3>1, <3>2, <2>1 DEF Recurs
  <2>3. f = [k \in 0..N |-> IF k = 0 THEN start ELSE more(f[k - 1])]
    BY <2>1, <2>2 DEF Recurs
  <2> QED
    BY <2>3
<1>6. F = [k \in 0..N |-> IF k = 0 THEN start ELSE more(F[k - 1])]
  BY <1>5
<1>7. ReachedFrom(g, {g.root}, LeadsTo) = F[N]
  BY DEF ReachedFrom, N, more, start
<1> HIDE DEF F
<1>8. F[N] \in V
  <2> DEFINE G == { n \in 0..N : F[n] \in V }
  <2>1. 0 \in G
    BY <1>1, <1>2, <1>6
  <2>2. \A n \in 1..N : n - 1 \in G => n \in G
    BY <1>1, <1>2, <1>6
  <2> HIDE DEF G
  <2>3. 0..N \subseteq G
    BY <1>1, <2>1, <2>2, StepByStep
  <2> QED
    BY <1>1, <2>3 DEF G
<1> QED
  BY <1>7, <1>8 DEF V

\* No node escapes a walk: whatever the matcher can get to when the walk is
\* over has been visited, nodes made on the way included.
THEOREM WalksReachAll == OptimizerSpec => []WalkReachesAll
<1>1. OptimizerInv /\ [OptimizerNext]_optimizerVars => OptimizerInv'
  BY OptimizerStep
<1>2. OptimizerInv => WalkReachesAll
  <2> SUFFICES ASSUME OptimizerInv, agenda = <<>>
               PROVE  ReachedFrom(graph, {graph.root}, LeadsTo) \subseteq visited
    BY DEF WalkReachesAll, LeadsTo
  <2>1. ToSet(agenda) = {}
    BY DEF ToSet
  <2>2. /\ graph.root \in visited \cup {nullptr}
        /\ \A q \in visited : LeadsTo(graph.node[q]) \subseteq visited \cup {nullptr}
    BY <2>1 DEF OptimizerInv, Walked
  <2>3. Shaped(graph)
    BY DEF OptimizerInv
  <2> QED
    BY <2>2, <2>3, ReachedLeast
<1> QED
  BY InitOptimizer, <1>1, <1>2, PTL DEF OptimizerSpec

-----------------------------------------------------------------------------
(***************************************************************************)
(* The lengths of loops.                                                   *)
(***************************************************************************)
\* The codes of a class.
CodesOf(n) == n.variants \cup UNION { {r[1], r[2]} : r \in ToSet(n.ranges) }
Plain(c)   == ValidCode(c) /\ c # 0

\* The length of a simple node's text, or of each of its symbols.
HasLength(n, length) ==
  /\ n.kind \in SimpleKinds
  /\ n.kind = "SpecificSymbol" => Len(Utf8(n.code)) = length
  /\ n.kind = "String" => Len(n.str) = length
  /\ n.kind = "OneOf" => ~n.inverse_flag /\ \A c \in CodesOf(n) : Len(Utf8(c)) = length

\* What the optimizer measures is the length.
LEMMA MeasuredLength ==
  ASSUME NEW g, GraphOK(g), Shaped(g), PlainSymbols(g), NEW p \in DOMAIN g.node,
         g.node[p].kind \in SimpleKinds, NEW length \in ElementLength(g, p)
  PROVE  HasLength(g.node[p], length)
<1> DEFINE n == g.node[p]
<1>1. p # nullptr /\ KindAt(g, p) = n.kind
  BY DEF GraphOK, KindAt
<1>2. n \in SimpleNodes
  BY DEF Shaped
<1>3. \A c \in Nat : Plain(c) => Utf32ToUtf8(<<c>>) = Utf8(c)
  BY Utf32OfOne DEF Plain
<1>4. CASE n.kind = "SpecificSymbol"
  <2>1. n.code \in Nat
    BY <1>4 DEF GraphOK, NodeOK
  <2>2. Plain(n.code)
    BY <1>4 DEF PlainSymbols, Plain
  <2>3. length = Len(Utf8(n.code))
    BY <1>1, <1>3, <1>4, <2>1, <2>2 DEF ElementLength, TextOf
  <2> QED
    BY <1>4, <2>3 DEF HasLength, SimpleKinds
<1>5. CASE n.kind = "String"
  <2>1. length = Len(n.str)
    BY <1>1, <1>5 DEF ElementLength, TextOf
  <2> QED
    BY <1>5, <2>1 DEF HasLength, SimpleKinds
<1>6. CASE n.kind = "OneOf"
  <2> DEFINE sizes == { Len(Utf32ToUtf8(<<c>>)) : c \in CodesOf(n) }
  <2>1. ~n.inverse_flag /\ \A c \in CodesOf(n) : Plain(c)
    BY <1>6 DEF PlainSymbols, Plain, CodesOf
  <2>2. CodesOf(n) \subseteq Nat
    <3>1. n.variants \subseteq Nat /\ n.ranges \in Seq(Nat \X Nat)
      BY <1>6 DEF GraphOK, NodeOK
    <3> HIDE DEF n
    <3>2. \A r \in ToSet(n.ranges) : r[1] \in Nat /\ r[2] \in Nat
      <4> TAKE r \in ToSet(n.ranges)
      <4>1. r \in Nat \X Nat
        BY <3>1 DEF ToSet
      <4> QED
        BY <4>1
    <3> QED
      BY <3>1, <3>2 DEF CodesOf
  <2>3. \A c \in CodesOf(n) : Utf32ToUtf8(<<c>>) = Utf8(c) /\ Len(Utf8(c)) \in 0..4
    <3> HIDE DEF n
    <3> TAKE c \in CodesOf(n)
    <3>1. c \in Nat /\ c \in Int /\ Plain(c)
      BY <2>1, <2>2
    <3>2. Len(Utf8(c)) \in 1..4
      BY <3>1, Utf8Length
    <3> QED
      BY <1>3, <3>1, <3>2
  <2>4. length \in sizes /\ Cardinality(sizes) = 1
    BY <1>1, <1>6 DEF ElementLength, GetOneOfLength, CodesOf
  <2>5. sizes \subseteq 0..4
    BY <2>3
  <2>6. IsFiniteSet(sizes)
    <3>1. IsFiniteSet(0..4)
      <4>1. 0 \in Int /\ 4 \in Int
        OBVIOUS
      <4> QED
        BY <4>1, FS_Interval
    <3> HIDE DEF sizes
    <3> QED
      BY <2>5, <3>1, FS_Subset
  <2>7. \A l \in sizes : l = length
    <3> HIDE DEF sizes
    <3>1. \E l : sizes = {l}
      BY <2>4, <2>6, FS_Singleton
    <3> QED
      BY <2>4, <3>1
  <2>8. \A c \in CodesOf(n) : Len(Utf8(c)) = length
    <3> TAKE c \in CodesOf(n)
    <3>1. Len(Utf32ToUtf8(<<c>>)) \in sizes
      OBVIOUS
    <3> HIDE DEF sizes
    <3> QED
      BY <2>3, <2>7, <3>1
  <2> QED
    BY <1>6, <2>1, <2>8 DEF HasLength, SimpleKinds
<1> QED
  BY <1>4, <1>5, <1>6 DEF SimpleKinds

\* What is written is text that is left to read, a choice that possesses or a
\* loop, and copies of simple nodes; and a loop's length is its copy's.
LEMMA WrittenLoops ==
  ASSUME NEW g, GraphOK(g), Shaped(g), PlainSymbols(g), NEW p \in DOMAIN g.node, NEW nodes,
         Forms(g, p, nodes)
  PROVE  \A q \in DOMAIN nodes :
           /\ nodes[q].kind \in {"SpecificSymbol", "OneOf"} =>
                \E r \in DOMAIN g.node :
                  g.node[r] \in SimpleNodes /\ nodes[q] = CutOff(g.node[r])
           /\ nodes[q].kind = "FixedLengthElementSequence" =>
                /\ nodes[q].sequence_element \in DOMAIN nodes
                /\ nodes[nodes[q].sequence_element].next = nullptr
                /\ HasLength(nodes[nodes[q].sequence_element], nodes[q].element_length)
<1> DEFINE first == g.node[p].next[1]
           second == g.node[p].next[2]
           copy == CutOff(g.node[first])
           Copied(n) == \E r \in DOMAIN g.node : g.node[r] \in SimpleNodes /\ n = CutOff(g.node[r])
           Symbol(n) == n.kind \in {"SpecificSymbol", "OneOf"}
           Loop(n)   == n.kind = "FixedLengthElementSequence"
<1>1. ASSUME nodes = Unchanged
      PROVE  DOMAIN nodes = {}
  BY <1>1 DEF Unchanged
<1>2. ASSUME Joins(g, p, nodes)
      PROVE  \A q \in DOMAIN nodes : nodes[q].kind = "String"
  BY <1>2 DEF Joins, NodeAt, StringNode
<1>3. ASSUME Splits(g, p, nodes)
      PROVE  \A q \in DOMAIN nodes : nodes[q].kind \in {"String", "Alternatives"}
  <2>1. PICK R, parts : SplitNodes(g, p, nodes, R, parts)
    BY <1>3, SplitsNodes
  <2>2. nodes[p].kind = "String" /\ nodes[New(p, 0)].kind = "Alternatives"
    BY <2>1 DEF SplitNodes, StringNode
  <2>3. \A q \in R : nodes[q].kind = "String"
    BY <2>1 DEF SplitNodes, StringNode
  <2>4. DOMAIN nodes = {p, New(p, 0)} \cup R
    BY <2>1 DEF SplitNodes
  <2> QED
    BY <2>2, <2>3, <2>4
<1>4. ASSUME g.node[p].kind = "Alternatives", Len(g.node[p].next) = 2,
             KindAt(g, first) \in SimpleKinds
      PROVE  /\ first \in DOMAIN g.node /\ g.node[first] \in SimpleNodes /\ New(p, 1) # p
             /\ copy.next = nullptr /\ copy.kind \in SimpleKinds
  <2>1. first \in DOMAIN g.node /\ g.node[first] \in SimpleNodes /\ New(p, 1) # p
    BY <1>4, CopyWrites
  <2> HIDE DEF first
  <2>2. copy.next = nullptr /\ copy.kind \in SimpleKinds
    <3> DEFINE Ptr == {nullptr}
               Ids == {}
               n == g.node[first]
    <3>1. nullptr \in Ptr
      OBVIOUS
    <3> HIDE DEF Ptr, Ids, n
    <3>2. CutOff(n).kind = n.kind /\ CutOff(n).next = nullptr /\ n.kind \in SimpleKinds
      BY <2>1, <3>1, CutOffOK DEF n
    <3> QED
      BY <3>2 DEF n
  <2> QED
    BY <2>1, <2>2
<1>5. ASSUME Keeps(g, p, nodes)
      PROVE  /\ DOMAIN nodes = {p, New(p, 1)} /\ nodes[p].kind = "AlternativesPossessive"
             /\ nodes[New(p, 1)] = copy /\ Copied(copy) /\ copy.kind \in SimpleKinds
  <2> DEFINE n == [kind |-> "AlternativesPossessive", path0_element |-> New(p, 1),
                   path0_next |-> g.node[first].next, path1_next |-> second]
  <2>1. nodes = Over(NodeAt(p, n), NodeAt(New(p, 1), copy))
    BY <1>5 DEF Keeps
  <2>2. first \in DOMAIN g.node /\ g.node[first] \in SimpleNodes /\ New(p, 1) # p
        /\ copy.kind \in SimpleKinds
    BY <1>4, <1>5 DEF Keeps
  <2>3. n.kind = "AlternativesPossessive"
    OBVIOUS
  <2> HIDE DEF n, first, second
  <2>4. DOMAIN nodes = {p, New(p, 1)} /\ nodes[p] = n /\ nodes[New(p, 1)] = copy
    <3> HIDE DEF copy
    <3> QED
      BY <2>1, <2>2 DEF Over, NodeAt
  <2> QED
    BY <2>2, <2>3, <2>4
<1>6. ASSUME Rolls(g, p, nodes)
      PROVE  /\ DOMAIN nodes = {p, New(p, 1)} /\ nodes[p].kind = "SingleRollbackPointSequence"
             /\ nodes[New(p, 1)] = copy /\ Copied(copy) /\ copy.kind \in SimpleKinds
  <2> DEFINE n == [kind |-> "SingleRollbackPointSequence", next |-> second,
                   sequence_element |-> New(p, 1)]
  <2>1. nodes = Over(NodeAt(p, n), NodeAt(New(p, 1), copy))
    BY <1>6 DEF Rolls, LoopElement
  <2>2. first \in DOMAIN g.node /\ g.node[first] \in SimpleNodes /\ New(p, 1) # p
        /\ copy.kind \in SimpleKinds
    BY <1>4, <1>6 DEF Rolls, IsSimpleLoop
  <2>3. n.kind = "SingleRollbackPointSequence"
    OBVIOUS
  <2> HIDE DEF n, first, second
  <2>4. DOMAIN nodes = {p, New(p, 1)} /\ nodes[p] = n /\ nodes[New(p, 1)] = copy
    <3> HIDE DEF copy
    <3> QED
      BY <2>1, <2>2 DEF Over, NodeAt
  <2> QED
    BY <2>2, <2>3, <2>4
<1>7. ASSUME Measures(g, p, nodes)
      PROVE  /\ DOMAIN nodes = {p, New(p, 1)} /\ nodes[p].kind = "FixedLengthElementSequence"
             /\ nodes[p].sequence_element = New(p, 1)
             /\ nodes[New(p, 1)] = copy /\ Copied(copy) /\ copy.kind \in SimpleKinds
             /\ copy.next = nullptr /\ HasLength(copy, nodes[p].element_length)
  <2>1. PICK length \in ElementLength(g, first) :
          nodes = Over(NodeAt(p, [kind |-> "FixedLengthElementSequence",
                                  next |-> second, sequence_element |-> New(p, 1),
                                  min_elements |-> 0, max_elements |-> SizeMax,
                                  element_length |-> length]),
                       NodeAt(New(p, 1), copy))
    BY <1>7 DEF Measures, LoopElement
  <2> DEFINE n == [kind |-> "FixedLengthElementSequence",
                   next |-> second, sequence_element |-> New(p, 1),
                   min_elements |-> 0, max_elements |-> SizeMax, element_length |-> length]
  <2>2. first \in DOMAIN g.node /\ g.node[first] \in SimpleNodes /\ New(p, 1) # p
        /\ copy.kind \in SimpleKinds /\ copy.next = nullptr
    BY <1>4, <1>7 DEF Measures, IsSimpleLoop
  <2>3. /\ n.kind = "FixedLengthElementSequence" /\ n.sequence_element = New(p, 1)
        /\ n.element_length = length
    OBVIOUS
  <2>4. nodes = Over(NodeAt(p, n), NodeAt(New(p, 1), copy))
    BY <2>1
  <2> HIDE DEF n, first, second
  <2>5. DOMAIN nodes = {p, New(p, 1)} /\ nodes[p] = n /\ nodes[New(p, 1)] = copy
    <3> HIDE DEF copy
    <3> QED
      BY <2>2, <2>4 DEF Over, NodeAt
  <2>6. HasLength(g.node[first], length)
    <3>1. g.node[first].kind \in SimpleKinds
      BY <1>4, <1>7, <2>2 DEF Measures, IsSimpleLoop, KindAt, GraphOK, first
    <3> QED
      BY <2>2, <3>1, MeasuredLength
  <2>7. HasLength(copy, length)
    <3> DEFINE Ptr == {nullptr}
               Ids == {}
               m == g.node[first]
    <3>1. nullptr \in Ptr
      OBVIOUS
    <3> HIDE DEF Ptr, Ids, m
    <3>2. /\ CutOff(m).kind = m.kind
          /\ m.kind = "SpecificSymbol" => CutOff(m).code = m.code
          /\ m.kind = "String" => CutOff(m).str = m.str
          /\ m.kind = "OneOf" => /\ CutOff(m).variants = m.variants
                                 /\ CutOff(m).ranges = m.ranges
                                 /\ CutOff(m).inverse_flag = m.inverse_flag
      BY <2>2, <3>1, CutOffOK DEF m
    <3>3. HasLength(CutOff(m), length)
      BY <2>6, <3>2 DEF HasLength, CodesOf, m
    <3> QED
      BY <3>3 DEF m
  <2> QED
    BY <2>2, <2>3, <2>5, <2>7
<1> HIDE DEF copy, first, second
<1> SUFFICES ASSUME NEW q \in DOMAIN nodes
             PROVE  /\ Symbol(nodes[q]) => Copied(nodes[q])
                    /\ Loop(nodes[q]) =>
                         /\ nodes[q].sequence_element \in DOMAIN nodes
                         /\ nodes[nodes[q].sequence_element].next = nullptr
                         /\ HasLength(nodes[nodes[q].sequence_element], nodes[q].element_length)
  OBVIOUS
<1>8. "FixedLengthElementSequence" \notin SimpleKinds
  BY DEF SimpleKinds
<1>9. CASE nodes = Unchanged \/ Joins(g, p, nodes) \/ Splits(g, p, nodes)
  <2>1. nodes[q].kind \in {"String", "Alternatives"}
    BY <1>1, <1>2, <1>3, <1>9
  <2> QED
    BY <2>1
<1>10. CASE Keeps(g, p, nodes) \/ Rolls(g, p, nodes)
  <2> HIDE DEF Copied
  <2> QED
    BY <1>5, <1>6, <1>8, <1>10
<1>11. CASE Measures(g, p, nodes)
  <2> HIDE DEF Copied
  <2> QED
    BY <1>7, <1>8, <1>11
<1> QED
  BY <1>9, <1>10, <1>11 DEF Forms

\* A loop with a length and its element are not written again: the element
\* ends where it is, and what is written is a choice, or a text that is followed
\* by another.
LEMMA LoopsStay ==
  ASSUME NEW g, GraphOK(g), Shaped(g), Fresh(g), LoopsExact(g), NEW p \in DOMAIN g.node,
         NEW nodes, Forms(g, p, nodes), NEW r \in DOMAIN g.node,
         g.node[r].kind = "FixedLengthElementSequence"
  PROVE  /\ g.node[r].sequence_element \in DOMAIN g.node
         /\ r \notin DOMAIN nodes /\ g.node[r].sequence_element \notin DOMAIN nodes
         /\ g.node[g.node[r].sequence_element].next = nullptr
         /\ HasLength(g.node[g.node[r].sequence_element], g.node[r].element_length)
<1> DEFINE e == g.node[r].sequence_element
<1>1. /\ e # nullptr /\ g.node[e].kind \in SimpleKinds /\ g.node[e].next = nullptr
      /\ HasLength(g.node[e], g.node[r].element_length)
  BY DEF LoopsExact, HasLength, SimpleKinds, CodesOf
<1>2. e \in DOMAIN g.node
  BY <1>1 DEF GraphOK, NodeOK, LoopKinds
<1> HIDE DEF e
<1>3. Writes(g, p, nodes)
  BY FormsWrite
<1>4. \A q \in DOMAIN g.node : q # p => q \notin DOMAIN nodes
  BY <1>3, WritesNew
<1>5. ASSUME p \in DOMAIN nodes
      PROVE  g.node[p].kind = "Alternatives" \/ (IsText(g, p) /\ IsText(g, g.node[p].next))
  <2>1. nodes # Unchanged
    BY <1>5 DEF Unchanged
  <2> QED
    BY <2>1 DEF Forms, Joins, Splits, Keeps, Rolls, Measures, IsSimpleLoop
<1>6. p \in DOMAIN nodes => p # r /\ p # e
  <2> SUFFICES ASSUME p \in DOMAIN nodes
               PROVE  p # r /\ p # e
    OBVIOUS
  <2>1. CASE g.node[p].kind = "Alternatives"
    BY <1>1, <2>1 DEF SimpleKinds
  <2>2. CASE IsText(g, p) /\ IsText(g, g.node[p].next)
    <3>1. g.node[p].next # nullptr
      BY <2>2 DEF IsText, KindAt
    <3>2. g.node[p].kind \in {"SpecificSymbol", "String"}
      BY <2>2 DEF IsText, KindAt, GraphOK
    <3> QED
      BY <1>1, <3>1, <3>2
  <2> QED
    BY <1>5, <2>1, <2>2
<1> QED
  BY <1>1, <1>2, <1>4, <1>6 DEF e

LEMMA PlainCopy ==
  ASSUME NEW n \in SimpleNodes, NEW c, c = CutOff(n)
  PROVE  /\ c.kind = n.kind
         /\ n.kind = "SpecificSymbol" => c.code = n.code
         /\ n.kind = "OneOf" => CodesOf(c) = CodesOf(n) /\ c.inverse_flag = n.inverse_flag
<1> DEFINE Ptr == {nullptr}
           Ids == {}
<1>1. nullptr \in Ptr
  OBVIOUS
<1> HIDE DEF Ptr, Ids
<1>2. /\ CutOff(n).kind = n.kind
      /\ n.kind = "SpecificSymbol" => CutOff(n).code = n.code
      /\ n.kind = "OneOf" => /\ CutOff(n).variants = n.variants
                             /\ CutOff(n).ranges = n.ranges
                             /\ CutOff(n).inverse_flag = n.inverse_flag
  BY <1>1, CutOffOK
<1> QED
  BY <1>2 DEF CodesOf

\* The lengths of loops stay right whatever is written.
LEMMA WriteKeepsLengths ==
  ASSUME NEW g, GraphOK(g), Shaped(g), Fresh(g), PlainSymbols(g), LoopsExact(g),
         NEW p \in DOMAIN g.node, NEW nodes, Forms(g, p, nodes)
  PROVE  PlainSymbols(Merged(g, nodes)) /\ LoopsExact(Merged(g, nodes))
<1> DEFINE h == Merged(g, nodes)
<1>1. /\ DOMAIN h.node = DOMAIN nodes \cup DOMAIN g.node
      /\ \A q \in DOMAIN nodes : h.node[q] = nodes[q]
      /\ \A q \in DOMAIN g.node : q \notin DOMAIN nodes => h.node[q] = g.node[q]
  BY MergedFacts
<1> HIDE DEF h
<1>2. \A q \in DOMAIN nodes :
        /\ nodes[q].kind \in {"SpecificSymbol", "OneOf"} =>
             \E r \in DOMAIN g.node : g.node[r] \in SimpleNodes /\ nodes[q] = CutOff(g.node[r])
        /\ nodes[q].kind = "FixedLengthElementSequence" =>
             /\ nodes[q].sequence_element \in DOMAIN nodes
             /\ nodes[nodes[q].sequence_element].next = nullptr
             /\ HasLength(nodes[nodes[q].sequence_element], nodes[q].element_length)
  BY WrittenLoops
<1>3. \A q \in DOMAIN g.node :
        /\ g.node[q].kind = "SpecificSymbol" => Plain(g.node[q].code)
        /\ g.node[q].kind = "OneOf" =>
             ~g.node[q].inverse_flag /\ \A c \in CodesOf(g.node[q]) : Plain(c)
  BY DEF PlainSymbols, Plain, CodesOf
<1>4. \A q \in DOMAIN h.node :
        /\ h.node[q].kind = "SpecificSymbol" => Plain(h.node[q].code)
        /\ h.node[q].kind = "OneOf" =>
             ~h.node[q].inverse_flag /\ \A c \in CodesOf(h.node[q]) : Plain(c)
  <2> TAKE q \in DOMAIN h.node
  <2>1. CASE q \notin DOMAIN nodes
    BY <1>1, <1>3, <2>1
  <2>2. CASE q \in DOMAIN nodes /\ h.node[q].kind \in {"SpecificSymbol", "OneOf"}
    <3>1. PICK r \in DOMAIN g.node :
            g.node[r] \in SimpleNodes /\ h.node[q] = CutOff(g.node[r])
      BY <1>1, <1>2, <2>2
    <3>2. /\ h.node[q].kind = g.node[r].kind
          /\ g.node[r].kind = "SpecificSymbol" => h.node[q].code = g.node[r].code
          /\ g.node[r].kind = "OneOf" => /\ CodesOf(h.node[q]) = CodesOf(g.node[r])
                                         /\ h.node[q].inverse_flag = g.node[r].inverse_flag
      BY <3>1, PlainCopy
    <3> QED
      BY <1>3, <3>2
  <2> QED
    BY <2>1, <2>2
<1>5. PlainSymbols(h)
  BY <1>4 DEF PlainSymbols, Plain, CodesOf
<1>6. \A q \in DOMAIN h.node : h.node[q].kind = "FixedLengthElementSequence" =>
        /\ h.node[q].sequence_element \in DOMAIN h.node
        /\ h.node[h.node[q].sequence_element].next = nullptr
        /\ HasLength(h.node[h.node[q].sequence_element], h.node[q].element_length)
  <2> SUFFICES ASSUME NEW q \in DOMAIN h.node, h.node[q].kind = "FixedLengthElementSequence"
               PROVE  /\ h.node[q].sequence_element \in DOMAIN h.node
                      /\ h.node[h.node[q].sequence_element].next = nullptr
                      /\ HasLength(h.node[h.node[q].sequence_element], h.node[q].element_length)
    OBVIOUS
  <2>1. CASE q \in DOMAIN nodes
    BY <1>1, <1>2, <2>1
  <2>2. CASE q \notin DOMAIN nodes
    <3>1. q \in DOMAIN g.node /\ h.node[q] = g.node[q]
      BY <1>1, <2>2
    <3> DEFINE e == g.node[q].sequence_element
    <3>2. /\ e \in DOMAIN g.node /\ e \notin DOMAIN nodes /\ g.node[e].next = nullptr
          /\ HasLength(g.node[e], g.node[q].element_length)
      BY <3>1, LoopsStay
    <3> HIDE DEF e
    <3>3. e \in DOMAIN h.node /\ h.node[e] = g.node[e]
      BY <1>1, <3>2
    <3> QED
      BY <3>1, <3>2, <3>3 DEF e
  <2> QED
    BY <2>1, <2>2
<1>7. nullptr \notin DOMAIN h.node
  <2>1. Writes(g, p, nodes)
    BY FormsWrite
  <2>2. GraphOK(h)
    BY <2>1, WriteKeepsGraph DEF h
  <2> QED
    BY <2>2 DEF GraphOK
<1>8. LoopsExact(h)
  <2> SUFFICES ASSUME NEW q \in DOMAIN h.node, h.node[q].kind = "FixedLengthElementSequence"
               PROVE  LET n       == h.node[q]
                          element == h.node[n.sequence_element]
                      IN /\ n.sequence_element # nullptr
                         /\ element.kind \in {"SpecificSymbol", "String", "OneOf"}
                         /\ element.next = nullptr
                         /\ element.kind = "SpecificSymbol" =>
                              Len(Utf8(element.code)) = n.element_length
                         /\ element.kind = "String" => Len(element.str) = n.element_length
                         /\ element.kind = "OneOf" =>
                              /\ ~element.inverse_flag
                              /\ \A c \in CodesOf(element) : Len(Utf8(c)) = n.element_length
    BY DEF LoopsExact, CodesOf
  <2> QED
    BY <1>6, <1>7 DEF HasLength, SimpleKinds
<1> QED
  BY <1>5, <1>8 DEF h

\* What the walk keeps about the lengths.
LengthsInv == PlainSymbols(source) => PlainSymbols(graph) /\ LoopsExact(graph)

LEMMA LengthsStep ==
  ASSUME OptimizerInv, LengthsInv, [OptimizerNext]_optimizerVars
  PROVE  LengthsInv'
<1>1. ASSUME NEW g \in SourceGraphs, OptimizeRegexGraph(g)
      PROVE  LengthsInv'
  <2>1. source' = g /\ graph' = g
    BY <1>1 DEF OptimizeRegexGraph
  <2>2. LoopsExact(g)
    <3>1. SourceOK(g)
      BY SourceGraphsAssumption
    <3> QED
      BY <3>1 DEF SourceOK, LoopsExact
  <2> QED
    BY <2>1, <2>2 DEF LengthsInv
<1>2. CASE VisitNode
  <2> DEFINE p     == Head(agenda)
             nodes == Optimization(graph, p, Passes[pass])
  <2>1. Optimizing /\ agenda # <<>> /\ source' = source /\ graph' = Merged(graph, nodes)
    BY <1>2 DEF VisitNode, Merged
  <2>2. p \in DOMAIN graph.node
    BY <2>1, VisitWrites
  <2>3. GraphOK(graph) /\ Shaped(graph) /\ Fresh(graph) /\ pass \in DOMAIN Passes
    BY <2>1 DEF OptimizerInv, OptimizerTypeOK, Optimizing
  <2>4. Forms(graph, p, nodes)
    <3> HIDE DEF p
    <3> QED
      BY <2>2, <2>3, EveryForm
  <2> HIDE DEF nodes, p
  <2>5. PlainSymbols(graph) /\ LoopsExact(graph) =>
          PlainSymbols(Merged(graph, nodes)) /\ LoopsExact(Merged(graph, nodes))
    BY <2>2, <2>3, <2>4, WriteKeepsLengths
  <2> QED
    BY <2>1, <2>5 DEF LengthsInv
<1>3. CASE WalkAgain \/ NextPass
  BY <1>3 DEF WalkAgain, NextPass, LengthsInv
<1>4. CASE UNCHANGED optimizerVars
  BY <1>4 DEF optimizerVars, LengthsInv
<1> QED
  BY <1>1, <1>2, <1>3, <1>4 DEF OptimizerNext, Optimize, OptimizerReturned

\* A loop that steps back by multiplication has a single element of exactly the
\* length it multiplies with, if the symbols of the expression are characters
\* and no class is inverted.
THEOREM LoopLengthsRight ==
  OptimizerSpec => [](PlainSymbols(source) => LoopLengthsExact)
<1>1. OptimizerInit => LengthsInv
  BY DEF OptimizerInit, NoGraph, LengthsInv, PlainSymbols, LoopsExact
<1>2. OptimizerInv /\ [OptimizerNext]_optimizerVars => OptimizerInv'
  BY OptimizerStep
<1>3. OptimizerInv /\ LengthsInv /\ [OptimizerNext]_optimizerVars => LengthsInv'
  BY LengthsStep
<1>4. LengthsInv => (PlainSymbols(source) => LoopLengthsExact)
  BY DEF LengthsInv, LoopLengthsExact
<1> QED
  BY InitOptimizer, <1>1, <1>2, <1>3, <1>4, PTL DEF OptimizerSpec


=============================================================================
