---------------------------- MODULE GraphLemmas ----------------------------
(***************************************************************************)
(* Lemmas the theorems about the matchers and the optimizer share: about   *)
(* sequences, recursion over numbers, characters, and graphs.              *)
(***************************************************************************)
EXTENDS RegexGraph, TLAPS, WellFoundedInduction, FiniteSetTheorems

-----------------------------------------------------------------------------
(***************************************************************************)
(* Stacks.                                                                 *)
(***************************************************************************)
\* The last element and the rest of a sequence that is not empty.
LEMMA LastAndFront ==
  ASSUME NEW S, NEW s \in Seq(S), s # <<>>
  PROVE  Last(s) \in S /\ Front(s) \in Seq(S)
BY DEF Last, Front

\* A stack with one more frame.
LEMMA PushedStack ==
  ASSUME NEW F, NEW stk \in Seq(F), NEW f \in F
  PROVE  /\ Len(stk) \in Nat
         /\ DOMAIN stk = 1..Len(stk)
         /\ DOMAIN Append(stk, f) = 1..(Len(stk) + 1)
         /\ Len(Append(stk, f)) = Len(stk) + 1
         /\ \A k \in 1..Len(stk) : Append(stk, f)[k] = stk[k]
         /\ Append(stk, f)[Len(stk) + 1] = f
OBVIOUS

\* The frames below the one on top.
LEMMA PoppedStack ==
  ASSUME NEW F, NEW stk \in Seq(F), stk # <<>>
  PROVE  /\ Len(stk) \in Nat \ {0}
         /\ DOMAIN stk = 1..Len(stk)
         /\ Front(stk) \in Seq(F)
         /\ DOMAIN Front(stk) = 1..(Len(stk) - 1)
         /\ Len(Front(stk)) = Len(stk) - 1
         /\ \A k \in 1..(Len(stk) - 1) : Front(stk)[k] = stk[k]
         /\ Last(stk) = stk[Len(stk)]
<1>1. Len(stk) \in Nat \ {0} /\ DOMAIN stk = 1..Len(stk)
  OBVIOUS
<1>2. Front(stk) = SubSeq(stk, 1, Len(stk) - 1) /\ Last(stk) = stk[Len(stk)]
  BY DEF Front, Last
<1>3. /\ SubSeq(stk, 1, Len(stk) - 1) \in Seq(F)
      /\ Len(SubSeq(stk, 1, Len(stk) - 1)) = Len(stk) - 1
      /\ \A k \in 1..(Len(stk) - 1) : SubSeq(stk, 1, Len(stk) - 1)[k] = stk[k]
  BY <1>1
<1> QED
  BY <1>1, <1>2, <1>3

-----------------------------------------------------------------------------
(***************************************************************************)
(* Smallest and largest numbers, and recursion over 0..N.                  *)
(***************************************************************************)
LEMMA Smallest ==
  ASSUME NEW S, S \subseteq Nat, S # {}
  PROVE  \E m \in S : \A n \in S : m <= n
<1>1. PICK m \in S : \A n \in S : ~(<<n, m>> \in OpToRel(<, Nat))
  BY WFMin, NatLessThanWellFounded
<1>2. \A n \in S : ~(n < m)
  BY <1>1 DEF OpToRel
<1> QED
  BY <1>2

LEMMA Largest ==
  ASSUME NEW n \in Nat, NEW S, S \subseteq 0..n, S # {}
  PROVE  Max(S) \in S /\ \A x \in S : x <= Max(S)
<1> DEFINE T == { n - x : x \in S }
<1>1. T \subseteq Nat /\ T # {}
  <2>1. \A x \in S : n - x \in Nat
    OBVIOUS
  <2> QED
    BY <2>1
<1>2. PICK m \in T : \A t \in T : m <= t
  <2> HIDE DEF T
  <2> QED
    BY <1>1, Smallest
<1>3. PICK y \in S : m = n - y
  OBVIOUS
<1>4. \A x \in S : y >= x
  <2> TAKE x \in S
  <2>1. n - x \in T /\ x \in Int /\ y \in Int
    OBVIOUS
  <2> QED
    BY <1>2, <1>3, <2>1
<1> QED
  BY <1>4 DEF Max

\* f begins with first, and goes on with what step makes of the value before.
IsSteps(step, N, V) == N \in Nat /\ step \in [1..N -> [V -> V]]

Recurs(f, N, first, step) ==
  /\ f[0] = first
  /\ \A n \in 1..N : f[n] = step[n][f[n - 1]]

\* What is defined step by step is defined.
LEMMA RecursionExists ==
  ASSUME NEW N, NEW V, NEW first \in V, NEW step, IsSteps(step, N, V)
  PROVE  \E f \in [0..N -> V] : Recurs(f, N, first, step)
<1> DEFINE Undone == { k \in 0..N : \A f \in [0..k -> V] : ~Recurs(f, k, first, step) }
<1>1. N \in Nat /\ step \in [1..N -> [V -> V]]
  BY DEF IsSteps
<1>2. Undone = {}
  <2> SUFFICES ASSUME Undone # {}
               PROVE  FALSE
    OBVIOUS
  <2>1. PICK m \in Undone : \A k \in Undone : m <= k
    <3>1. Undone \subseteq Nat
      OBVIOUS
    <3> HIDE DEF Undone
    <3> QED
      BY <3>1, Smallest
  <2>2. m # 0
    <3> DEFINE f == [n \in 0..0 |-> first]
    <3>1. Recurs(f, 0, first, step) /\ f \in [0..0 -> V]
      BY DEF Recurs
    <3> QED
      BY <3>1
  <2>3. m \in 1..N /\ m - 1 \in 0..N /\ ~(m <= m - 1)
    BY <1>1, <2>2
  <2>4. m - 1 \notin Undone
    <3> HIDE DEF Undone
    <3> QED
      BY <2>1, <2>3
  <2>5. PICK f \in [0..(m - 1) -> V] : Recurs(f, m - 1, first, step)
    BY <2>3, <2>4
  <2> DEFINE h == [n \in 0..m |-> IF n = m THEN step[m][f[m - 1]] ELSE f[n]]
  <2>6. /\ f[m - 1] \in V /\ step[m][f[m - 1]] \in V
        /\ \A n \in 0..(m - 1) : h[n] = f[n]
        /\ h[m] = step[m][f[m - 1]]
    BY <1>1, <2>3
  <2>7. h \in [0..m -> V]
    BY <2>3, <2>6
  <2>8. \A n \in 1..m : h[n] = step[n][h[n - 1]]
    <3> TAKE n \in 1..m
    <3>1. n - 1 \in 0..(m - 1) /\ h[n - 1] = f[n - 1]
      BY <2>3, <2>6
    <3>2. n # m => n \in 1..(m - 1) /\ h[n] = f[n] /\ f[n] = step[n][f[n - 1]]
      BY <2>3, <2>5, <2>6 DEF Recurs
    <3> QED
      BY <2>6, <3>1, <3>2
  <2>9. h[0] = first
    BY <2>3, <2>5, <2>6 DEF Recurs
  <2>10. Recurs(h, m, first, step)
    BY <2>8, <2>9 DEF Recurs
  <2> QED
    BY <2>7, <2>10
<1>3. N \in 0..N
  BY <1>1
<1>4. N \notin Undone
  <2> HIDE DEF Undone
  <2> QED
    BY <1>2
<1> QED
  BY <1>3, <1>4

\* Induction over 0..N.
LEMMA StepByStep ==
  ASSUME NEW N \in Nat, NEW G, 0 \in G, \A n \in 1..N : n - 1 \in G => n \in G
  PROVE  0..N \subseteq G
<1> DEFINE Bad == (0..N) \ G
<1>1. Bad = {}
  <2> SUFFICES ASSUME Bad # {}
               PROVE  FALSE
    OBVIOUS
  <2>1. PICK m \in Bad : \A n \in Bad : m <= n
    <3>1. Bad \subseteq Nat
      OBVIOUS
    <3> HIDE DEF Bad
    <3> QED
      BY <3>1, Smallest
  <2>2. m \in 1..N /\ m - 1 \in 0..N /\ ~(m <= m - 1)
    OBVIOUS
  <2>3. m - 1 \in G
    BY <2>1, <2>2
  <2> QED
    BY <2>2, <2>3
<1> QED
  BY <1>1

\* f begins with first, grows by more, and has come to an end.
Grows(f, N, first, more) ==
  /\ f[0] = first
  /\ \A k \in 1..N : k - 1 \in 0..N /\ f[k] = more[f[k - 1]]
  /\ first \subseteq f[N] /\ more[f[N]] = f[N]

\* What grows within a finite set comes to an end.
LEMMA GrowsToAnEnd ==
  ASSUME NEW D, IsFiniteSet(D), NEW first \in SUBSET D, NEW more \in [SUBSET D -> SUBSET D],
         \A S \in SUBSET D : S \subseteq more[S]
  PROVE  /\ Cardinality(D) \in Nat
         /\ \E f \in [0..Cardinality(D) -> SUBSET D] : Grows(f, Cardinality(D), first, more)
<1> DEFINE N    == Cardinality(D)
           V    == SUBSET D
           step == [k \in 1..N |-> more]
<1>1. N \in Nat
  BY FS_CardinalityType
<1>2. IsSteps(step, N, V) /\ \A k \in 1..N : step[k] = more
  BY <1>1 DEF IsSteps
<1> HIDE DEF step, V
<1>3. PICK f \in [0..N -> V] : Recurs(f, N, first, step)
  <2> HIDE DEF N
  <2> QED
    BY <1>1, <1>2, RecursionExists DEF V
<1>4. f[0] = first /\ \A k \in 1..N : k - 1 \in 0..N /\ f[k] = more[f[k - 1]]
  <2> HIDE DEF N
  <2> QED
    BY <1>1, <1>2, <1>3 DEF Recurs
<1>5. \A k \in 0..N : f[k] \in SUBSET D /\ IsFiniteSet(f[k]) /\ Cardinality(f[k]) \in Nat
  <2> TAKE k \in 0..N
  <2>1. f[k] \in SUBSET D
    BY <1>3 DEF V
  <2> QED
    BY <2>1, FS_Subset, FS_CardinalityType
<1> DEFINE Ended(k) == more[f[k]] = f[k]
           G == { k \in 0..N : first \subseteq f[k] /\ (Ended(k) \/ Cardinality(f[k]) >= k) }
<1>6. N \in 0..N /\ 0 \in 0..N
  <2> HIDE DEF N
  <2> QED
    BY <1>1
<1>7. 0 \in G
  BY <1>4, <1>5, <1>6
<1>8. \A k \in 1..N : k - 1 \in G => k \in G
  <2> SUFFICES ASSUME NEW k \in 1..N, k - 1 \in G
               PROVE  k \in G
    OBVIOUS
  <2>1. f[k] = more[f[k - 1]] /\ first \subseteq f[k - 1]
    BY <1>4
  <2>2. k \in 0..N /\ k \in Int /\ k - 1 \in 0..N
    BY <1>1
  <2>3. f[k - 1] \subseteq f[k]
    BY <1>5, <2>1, <2>2
  <2>4. CASE Ended(k - 1)
    BY <2>1, <2>2, <2>4
  <2>5. CASE ~Ended(k - 1)
    <3>1. Cardinality(f[k - 1]) >= k - 1
      BY <2>5
    <3>2. Cardinality(f[k - 1]) < Cardinality(f[k])
      <4>1. f[k - 1] # f[k]
        BY <2>1, <2>5
      <4> QED
        BY <1>5, <2>2, <2>3, <4>1, FS_Subset
    <3>3. Cardinality(f[k]) >= k
      BY <1>5, <2>2, <3>1, <3>2
    <3> QED
      BY <2>1, <2>2, <2>3, <3>3
  <2> QED
    BY <2>4, <2>5
<1> HIDE DEF G
<1>9. 0..N \subseteq G
  <2> HIDE DEF N
  <2> QED
    BY <1>1, <1>7, <1>8, StepByStep
<1>10. first \subseteq f[N] /\ (Ended(N) \/ Cardinality(f[N]) >= N)
  BY <1>6, <1>9 DEF G
<1>11. Ended(N)
  <2> SUFFICES ASSUME Cardinality(f[N]) >= N
               PROVE  Ended(N)
    BY <1>10
  <2>1. f[N] = D
    <3> SUFFICES ASSUME f[N] # D
                 PROVE  FALSE
      OBVIOUS
    <3>1. f[N] \subseteq D /\ Cardinality(f[N]) \in Nat
      BY <1>5, <1>6
    <3>2. Cardinality(f[N]) < N
      BY <1>1, <3>1, FS_Subset
    <3> HIDE DEF N
    <3> QED
      BY <1>1, <3>1, <3>2
  <2> QED
    BY <2>1
<1> QED
  BY <1>1, <1>3, <1>4, <1>10, <1>11 DEF V, Grows

-----------------------------------------------------------------------------
(***************************************************************************)
(* Characters.                                                             *)
(***************************************************************************)
\* A lead byte announces one to four bytes.
LEMMA LengthByLeadBound ==
  ASSUME NEW b
  PROVE  LengthByLead(b) \in 1..4
<1>1. LengthByLead(b) = 1 \/ LengthByLead(b) = 2 \/ LengthByLead(b) = 3 \/ LengthByLead(b) = 4
  BY SMT DEF LengthByLead
<1> QED
  BY <1>1

LEMMA Utf8Length ==
  ASSUME NEW c \in Int
  PROVE  /\ Len(Utf8(c)) \in 1..4
         /\ \A d \in Int : c <= d => Len(Utf8(c)) <= Len(Utf8(d))
<1>1. ASSUME NEW d \in Int
      PROVE  Len(Utf8(d)) = IF d < 128 THEN 1 ELSE IF d < 2048 THEN 2
                            ELSE IF d < 65536 THEN 3 ELSE 4
  <2>1. CASE d < 128
    <3>1. Utf8(d) = <<d>>
      BY <2>1, SMT DEF Utf8
    <3> QED
      BY <2>1, <3>1, SMT
  <2>2. CASE 128 <= d /\ d < 2048
    <3>1. Utf8(d) = <<192 + (d \div 64), 128 + (d % 64)>>
      BY <2>2, SMT DEF Utf8
    <3> QED
      BY <2>2, <3>1, SMT
  <2>3. CASE 2048 <= d /\ d < 65536
    <3>1. Utf8(d) = <<224 + (d \div 4096), 128 + ((d \div 64) % 64), 128 + (d % 64)>>
      BY <2>3, SMT DEF Utf8
    <3> QED
      BY <2>3, <3>1, SMT
  <2>4. CASE 65536 <= d
    <3>1. Utf8(d) = <<240 + (d \div 262144), 128 + ((d \div 4096) % 64),
                      128 + ((d \div 64) % 64), 128 + (d % 64)>>
      BY <2>4, SMT DEF Utf8
    <3> QED
      BY <2>4, <3>1, SMT
  <2> QED
    BY <2>1, <2>2, <2>3, <2>4, SMT
<1>2. ASSUME NEW d \in Int, c <= d
      PROVE  Len(Utf8(c)) <= Len(Utf8(d))
  <2> DEFINE m == Len(Utf8(c))
             n == Len(Utf8(d))
  <2>1. m = IF c < 128 THEN 1 ELSE IF c < 2048 THEN 2 ELSE IF c < 65536 THEN 3 ELSE 4
    BY <1>1, SMT
  <2>2. n = IF d < 128 THEN 1 ELSE IF d < 2048 THEN 2 ELSE IF d < 65536 THEN 3 ELSE 4
    BY <1>1, SMT
  <2> HIDE DEF m, n
  <2>3. m <= n
    BY <1>2, <2>1, <2>2, SMT
  <2> QED
    BY <2>3 DEF m, n
<1>3. Len(Utf8(c)) \in 1..4
  BY <1>1, SMT
<1> QED
  BY <1>2, <1>3

LEMMA Utf8Bytes ==
  ASSUME NEW c \in Nat, ValidCode(c)
  PROVE  Utf8(c) \in Seq(Byte)
<1>1. c \in Int /\ 0 <= c /\ c <= 1114111
  BY SMT DEF ValidCode
<1>2. \A d \in Int : 128 + (d % 64) \in Byte
  BY SMT DEF Byte
<1>3. CASE c < 128
  <2>1. Utf8(c) = <<c>> /\ c \in Byte
    BY <1>1, <1>3, SMT DEF Utf8, Byte
  <2> QED
    BY <2>1
<1>4. CASE c >= 128 /\ c < 2048
  <2>1. 192 + (c \div 64) \in Byte
    BY <1>1, <1>4, SMT DEF Byte
  <2> QED
    BY <1>1, <1>2, <1>4, <2>1, SMT DEF Utf8
<1>5. CASE c >= 2048 /\ c < 65536
  <2>1. 224 + (c \div 4096) \in Byte /\ c \div 64 \in Int
    BY <1>1, <1>5, SMT DEF Byte
  <2> QED
    BY <1>1, <1>2, <1>5, <2>1, SMT DEF Utf8
<1>6. CASE c >= 65536
  <2>1. 240 + (c \div 262144) \in Byte /\ c \div 4096 \in Int /\ c \div 64 \in Int
    BY <1>1, <1>6, SMT DEF Byte
  <2> QED
    BY <1>1, <1>2, <1>6, <2>1, SMT DEF Utf8
<1> QED
  BY <1>1, <1>3, <1>4, <1>5, <1>6, SMT

-----------------------------------------------------------------------------
(***************************************************************************)
(* What nesting and pairing say of a node.                                 *)
(***************************************************************************)
PointersOf(g)  == DOMAIN g.node \cup {nullptr}
Restores(g)    == { p \in DOMAIN g.node : g.node[p].kind = "StateRestore" }
SavingCalls(g) == { p \in DOMAIN g.node :
                      g.node[p].kind = "SubroutineEnter" /\ g.node[p].next \in Restores(g) }

\* The graphs the theorems about calls are about: those GraphBuilder and the
\* optimizer make.
Orderly(g) == WellNested(g) /\ SavesPaired(g) /\ LoopsExact(g)

LEMMA NestedNode ==
  ASSUME NEW g, WellNested(g), NEW p \in DOMAIN g.node
  PROVE  /\ SubgraphsOf(g.node[p]) \cap BodyNodes(g) = {}
         /\ SubroutinesOf(g.node[p]) \subseteq BodyNodes(g)
         /\ g.node[p].kind = "SubroutineLeave" => p \in BodyNodes(g)
         /\ \A q \in ContinuationsOf(g.node[p]) : q \in BodyNodes(g) <=> p \in BodyNodes(g)
BY DEF WellNested

LEMMA NestedGraph ==
  ASSUME NEW g, WellNested(g)
  PROVE  BodyNodes(g) \subseteq DOMAIN g.node /\ g.root \notin BodyNodes(g)
BY DEF WellNested

LEMMA PairedNode ==
  ASSUME NEW g, SavesPaired(g), NEW p \in DOMAIN g.node
  PROVE  LET n     == g.node[p]
             leads == ContinuationsOf(n) \cup SubgraphsOf(n) \cup SubroutinesOf(n)
         IN /\ p \notin SavingCalls(g) => leads \cap Restores(g) = {}
            /\ n.kind # "StateSave" => leads \cap SavingCalls(g) = {}
            /\ n.kind = "StateSave" =>
                 /\ n.next \in SavingCalls(g)
                 /\ LET restore == g.node[g.node[n.next].next]
                    IN /\ restore.groups_to_restore = n.groups_to_save
                       /\ restore.sequence_counters_to_restore
                            = n.sequence_counters_to_save
            /\ p \in SavingCalls(g) =>
                 n.subroutine_node \notin Restores(g) \cup SavingCalls(g)
BY DEF SavesPaired, Restores, SavingCalls

LEMMA PairedRoot ==
  ASSUME NEW g, SavesPaired(g)
  PROVE  g.root \notin Restores(g) \cup SavingCalls(g)
BY DEF SavesPaired, Restores, SavingCalls

\* Nodes that neither save nor call.
LEMMA OrdinaryNode ==
  ASSUME NEW g, NEW p
  PROVE  /\ p \notin DOMAIN g.node => p \notin Restores(g) \cup SavingCalls(g)
         /\ g.node[p].kind \notin {"SubroutineEnter", "StateRestore"}
              => p \notin Restores(g) \cup SavingCalls(g)
         /\ Restores(g) \cap SavingCalls(g) = {}
BY DEF Restores, SavingCalls

-----------------------------------------------------------------------------
(***************************************************************************)
(* What is stored before it is read.                                       *)
(***************************************************************************)
\* What of X has been stored wherever the match is at p.
StoredAt(g, X, p) ==
  { x \in X : StoredFirst(g, x) /\ p \notin Unstored(g, x) \cup {nullptr} }

\* A node lets its continuation rely on what it stores, and on what it could rely on
\* itself.
LEMMA StoredNext ==
  ASSUME NEW g, NEW X, NEW p \in DOMAIN g.node, p # nullptr,
         NEW q \in ContinuationsOf(g.node[p])
  PROVE  StoredAt(g, X, q) \subseteq StoredAt(g, X, p) \cup (StoredBy(g.node[p]) \cap X)
<1> SUFFICES ASSUME NEW x \in StoredAt(g, X, q), x \notin StoredBy(g.node[p])
             PROVE  p \notin Unstored(g, x)
  BY DEF StoredAt
<1>1. StoredFirst(g, x) /\ q \notin Unstored(g, x) \cup {nullptr}
  BY DEF StoredAt
<1> QED
  BY <1>1 DEF StoredFirst

\* Nothing is relied on where a graph of its own, a subroutine or the whole begins.
LEMMA StoredEntry ==
  ASSUME NEW g, NEW X
  PROVE  /\ StoredAt(g, X, g.root) = {}
         /\ \A p \in DOMAIN g.node :
              \A q \in SubgraphsOf(g.node[p]) \cup SubroutinesOf(g.node[p]) :
                StoredAt(g, X, q) = {}
<1>1. \A x : StoredFirst(g, x) => Entries(g) \subseteq Unstored(g, x) \cup {nullptr}
  BY DEF StoredFirst
<1>2. \A q \in Entries(g) : StoredAt(g, X, q) = {}
  BY <1>1 DEF StoredAt
<1>3. g.root \in Entries(g)
  BY DEF Entries
<1>4. ASSUME NEW p \in DOMAIN g.node,
             NEW q \in SubgraphsOf(g.node[p]) \cup SubroutinesOf(g.node[p])
      PROVE  q \in Entries(g)
  BY <1>4 DEF Entries
<1> QED
  BY <1>2, <1>3, <1>4

\* What a node reads has been stored.
LEMMA StoredWhereRead ==
  ASSUME NEW g, StoresFirst(g), NEW p \in DOMAIN g.node, p # nullptr, NEW X
  PROVE  ReadBy(g.node[p]) \cap X \subseteq StoredAt(g, X, p)
<1> SUFFICES ASSUME NEW x \in ReadBy(g.node[p]) \cap X
             PROVE  x \in StoredAt(g, X, p)
  OBVIOUS
<1>1. StoredFirst(g, x)
  BY DEF StoresFirst
<1>2. p \notin Unstored(g, x)
  BY <1>1 DEF StoredFirst
<1> QED
  BY <1>1, <1>2 DEF StoredAt
=============================================================================
