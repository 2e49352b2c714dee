---------------------------- MODULE MatcherCalls ----------------------------
(***************************************************************************)
(* Theorems about the subroutine calls of Matcher: whatever the calls, the *)
(* saves and the graphs of their own that are nested in each other, and    *)
(* however often the match goes back, State::saved_state never dangles,    *)
(* StateRestore finds its own save, what a subgraph or the expression has  *)
(* called has returned when it has matched, every GroupEnd finds the begin *)
(* of its group, and no State points outside the string.  They hold for    *)
(* every graph whose calls are nested and whose saves are paired, the last *)
(* two where every way to the end of a group passes its start, which is    *)
(* how graphs are built.                                                   *)
(***************************************************************************)
EXTENDS MatcherProofs

-----------------------------------------------------------------------------
(***************************************************************************)
(* The inductive invariant.  Everything between a function that waits for  *)
(* a graph of its own and the end of that graph is one segment.  A segment *)
(* has a base: the calls that were open and the save that was linked when  *)
(* it began, and the position of the waiting frame in the stack, 0 for the *)
(* outermost.  Calls opened in the segment are closed in it, so that base  *)
(* and State agree again at its end.                                       *)
(*                                                                         *)
(* No frame of an AtomicGroup keeps the State it began with, so the        *)
(* invariant says that there are levels: lev[k] has the calls and the save *)
(* the function of frame k began with, and the base of its segment.        *)
(*                                                                         *)
(* A group that has begun stays so, up to where its save is put back: the  *)
(* save a State links to has what the State has not, and all a graph of    *)
(* its own began with is there when it ends.                               *)
(***************************************************************************)
\* s, a State, a level or a base, has the same calls and saves as t.
SameCalls(s, t) ==
  /\ s.subroutines_return_stack = t.subroutines_return_stack
  /\ s.saved_state = t.saved_state

\* The groups that are kept, those that have begun in s, at or before the place where
\* it is, and those a StateSave puts aside.
KeptGroups     == {"group"} \X (1..(GroupSlots - 1))
Begun(s)       == { x \in KeptGroups : s.groups[x[2]].at \in 0..s.pos }
SavedGroups(n) == {"group"} \X n.groups_to_save
BegunAt(g, p)  == StoredAt(g, KeptGroups, p)

\* t is not before s, and has begun all groups that s has but for X.
Keeps(t, s, X) == 0..s.pos \subseteq 0..t.pos /\ Begun(s) \ X \subseteq Begun(t)

\* t is a State, a level or a base one comes to from s.
Follows(t, s) == SameCalls(t, s) /\ Keeps(t, s, {})

\* The level of a function that begins with s in the segment of b, and the base of the
\* segment that begins with s above frame k - 1.
LevelOf(s, b) ==
  [pos |-> s.pos, groups |-> s.groups, saved_state |-> s.saved_state,
   subroutines_return_stack |-> s.subroutines_return_stack, base |-> b]

BaseOf(s, k) ==
  [pos |-> s.pos, groups |-> s.groups, saved_state |-> s.saved_state,
   subroutines_return_stack |-> s.subroutines_return_stack, at |-> k]

\* The calls that are open in s but were not when the segment of b began.
OpenIn(s, b) == (Len(b.subroutines_return_stack) + 1) .. Len(s.subroutines_return_stack)

\* r is the first n elements of the return stack of s.
Starts(r, n, s) ==
  /\ Len(r) = n
  /\ n <= Len(s.subroutines_return_stack)
  /\ \A m \in 1..n : r[m] = s.subroutines_return_stack[m]

\* The match is at p with the State s.  It is in a subroutine's body just when
\* the segment has a call open, and only the first call came from outside one.
CallsNested(g, p, s, b) ==
  LET returns == s.subroutines_return_stack
      before  == b.subroutines_return_stack
  IN /\ Starts(before, Len(before), s)
     /\ \A j \in OpenIn(s, b) :
          /\ returns[j] \notin SavingCalls(g)
          /\ returns[j] \in BodyNodes(g) <=> j > Len(before) + 1
     /\ p \in BodyNodes(g) <=> Len(returns) > Len(before)

\* One of the first d frames, in the segment of b, is the StateSave before a call
\* that returns to p, made with the first n calls of s open; s links to it, and has
\* begun all groups that had begun there and are not put aside.
LinksTo(g, stk, d, s, b, n, p) ==
  LET k == s.saved_state
  IN /\ k \in (b.at + 1) .. d
     /\ stk[k].kind = "StateSave"
     /\ g.node[g.node[stk[k].node].next].next = p
     /\ Starts(stk[k].state.subroutines_return_stack, n, s)
     /\ Keeps(s, stk[k].state, SavedGroups(g.node[stk[k].node]))

\* The call that returns to p has nothing to restore, and s all that p relies on.
ReturnsSafely(g, p, s) == p \notin Restores(g) /\ BegunAt(g, p) \subseteq Begun(s)

\* The last call of the segment that has to restore something has its save linked;
\* without one, the save is linked that was when the segment began.
LinksInnermost(g, stk, d, s, b) ==
  LET returns == s.subroutines_return_stack
  IN \/ /\ \A j \in OpenIn(s, b) : ReturnsSafely(g, returns[j], s)
        /\ s.saved_state = b.saved_state
        /\ Keeps(s, b, {})
     \/ \E j \in OpenIn(s, b) :
          /\ returns[j] \in Restores(g)
          /\ \A m \in (j + 1) .. Len(returns) : ReturnsSafely(g, returns[m], s)
          /\ LinksTo(g, stk, d, s, b, j - 1, returns[j])

\* All that is true at p.  Between a StateSave and its call, and between the
\* return and the StateRestore, the save belongs to no open call.
InOrder(g, stk, d, p, s, b) ==
  LET all == Len(s.subroutines_return_stack)
  IN /\ s.subroutines_return_stack \in Seq(PointersOf(g))
     /\ CallsNested(g, p, s, b)
     /\ p \in Restores(g) => LinksTo(g, stk, d, s, b, all, p)
     /\ p \in SavingCalls(g) => LinksTo(g, stk, d, s, b, all, g.node[p].next)
     /\ p \notin Restores(g) \cup SavingCalls(g) =>
          LinksInnermost(g, stk, d, s, b) /\ BegunAt(g, p) \subseteq Begun(s)

\* The function of frame f goes on from the State with which the graph of its own ends,
\* not from its copy.
GoesOnFromEnd(f) == f.kind \notin LookKinds \cup {"ConditionalElement"}

\* The State the function of frame f began with: a loop with a fixed element length
\* moves the one it keeps.
Origins(f) ==
  IF f.kind = "FixedLengthElementSequence" THEN {[f.state EXCEPT !.pos = f.str_initial]}
                                           ELSE StatesBefore(f)

\* b is the base of the segment that has frame d of the stack, or begins above it.
IsBase(g, stk, lev, d, b) ==
  /\ b.at \in 0..d
  /\ b.subroutines_return_stack \in Seq(PointersOf(g))
  /\ \A j \in (b.at + 1) .. d : ~WaitsForSubgraph(stk[j]) /\ lev[j].base = b
  /\ IF b.at = 0 THEN b.subroutines_return_stack = <<>> /\ b.saved_state = 0
                 ELSE /\ WaitsForSubgraph(stk[b.at])
                      /\ SameCalls(b, lev[b.at])
                      /\ GoesOnFromEnd(stk[b.at]) => Follows(b, lev[b.at])
  /\ \/ b.saved_state = 0
     \/ b.saved_state \in 1 .. (b.at - 1) /\ stk[b.saved_state].kind = "StateSave"

\* Frame k of the stack.
FrameInOrder(g, stk, lev, k) ==
  LET f == stk[k]
  IN /\ IsBase(g, stk, lev, k - 1, lev[k].base)
     /\ InOrder(g, stk, k - 1, f.node, lev[k], lev[k].base)
     /\ \A s \in StatesBefore(f) : SameCalls(s, lev[k])
     /\ \A s \in Origins(f) : Follows(s, lev[k])
     /\ \A s \in StatesAfter(f) : Follows(s, lev[k].base)

\* The stack is in order, and b is the base of the segment on top.
Segments(g, stk, lev, b) ==
  /\ \A k \in DOMAIN stk : FrameInOrder(g, stk, lev, k)
  /\ IsBase(g, stk, lev, Len(stk), b)

\* The match is at p, with the State s and the frames stk; at the States of S the
\* segment has ended.
Standing(g, stk, p, s, S) ==
  \E lev, b :
    /\ Segments(g, stk, lev, b)
    /\ InOrder(g, stk, Len(stk), p, s, b)
    /\ \A t \in S : Follows(t, b)

Ended(g, stk, S) ==
  \E lev, b : Segments(g, stk, lev, b) /\ \A t \in S : Follows(t, b)

\* A loop that scans goes on from the State of its element even when that has
\* failed.
CallsInOrder ==
  /\ pc \notin {"match", "return"} => stack = <<>>
  /\ pc = "match" => Standing(graph, stack, node, state, {})
  /\ pc = "return" =>
       /\ Ended(graph, stack, {})
       /\ answer \/ (stack # <<>> /\ Scanning(Caller)) => Ended(graph, stack, {state})

-----------------------------------------------------------------------------
(***************************************************************************)
(* One State coming after another.                                         *)
(***************************************************************************)
LEMMA FollowsItself ==
  ASSUME NEW s
  PROVE  Follows(s, s)
BY DEF Follows, SameCalls, Keeps

LEMMA FollowsOn ==
  ASSUME NEW s, NEW t, NEW u, Follows(t, s), Follows(u, t)
  PROVE  Follows(u, s)
BY DEF Follows, SameCalls, Keeps

\* The same values, whatever else the record has.
LEMMA FollowsAlike ==
  ASSUME NEW s, NEW t, SameCalls(t, s), t.groups = s.groups, t.pos = s.pos
  PROVE  Follows(t, s) /\ Follows(s, t)
BY DEF Follows, SameCalls, Keeps, Begun

LEMMA LevelAgrees ==
  ASSUME NEW s, NEW b
  PROVE  /\ Follows(LevelOf(s, b), s) /\ Follows(s, LevelOf(s, b))
         /\ LevelOf(s, b).base = b
<1> DEFINE l == LevelOf(s, b)
<1>1. SameCalls(l, s) /\ l.groups = s.groups /\ l.pos = s.pos /\ l.base = b
  BY DEF LevelOf, SameCalls
<1> HIDE DEF l
<1>2. Follows(l, s) /\ Follows(s, l)
  BY <1>1, FollowsAlike DEF SameCalls
<1> QED
  BY <1>1, <1>2 DEF l

LEMMA BaseAgrees ==
  ASSUME NEW s, NEW k
  PROVE  /\ Follows(BaseOf(s, k), s) /\ Follows(s, BaseOf(s, k))
         /\ BaseOf(s, k).at = k
         /\ BaseOf(s, k).saved_state = s.saved_state
         /\ BaseOf(s, k).subroutines_return_stack = s.subroutines_return_stack
<1> DEFINE c == BaseOf(s, k)
<1>1. /\ SameCalls(c, s) /\ c.groups = s.groups /\ c.pos = s.pos /\ c.at = k
      /\ c.saved_state = s.saved_state
      /\ c.subroutines_return_stack = s.subroutines_return_stack
  BY DEF BaseOf, SameCalls
<1> HIDE DEF c
<1>2. Follows(c, s) /\ Follows(s, c)
  BY <1>1, FollowsAlike DEF SameCalls
<1> QED
  BY <1>1, <1>2 DEF c

LEMMA KeepsOn ==
  ASSUME NEW s, NEW t, NEW u, NEW X, Keeps(t, s, X), Keeps(u, t, {})
  PROVE  Keeps(u, s, X)
BY DEF Keeps

-----------------------------------------------------------------------------
(***************************************************************************)
(* What is true at a node depends on the frames below alone, and stays true *)
(* on the way to the next node.                                            *)
(***************************************************************************)
LEMMA InOrderBelow ==
  ASSUME NEW g, NEW stk, NEW stk2, NEW d \in Nat, NEW e \in Nat, d <= e,
         \A k \in 1..d : stk2[k] = stk[k],
         NEW p, NEW s, NEW b, b.at \in Nat, InOrder(g, stk, d, p, s, b)
  PROVE  InOrder(g, stk2, e, p, s, b)
<1>1. ASSUME NEW n, NEW q, LinksTo(g, stk, d, s, b, n, q)
      PROVE  LinksTo(g, stk2, e, s, b, n, q)
  <2>1. s.saved_state \in 1..d /\ s.saved_state \in (b.at + 1)..e
    BY <1>1 DEF LinksTo
  <2> QED
    BY <1>1, <2>1 DEF LinksTo
<1>2. LinksInnermost(g, stk, d, s, b) => LinksInnermost(g, stk2, e, s, b)
  BY <1>1 DEF LinksInnermost
<1> QED
  BY <1>1, <1>2 DEF InOrder

LEMMA IsBaseBelow ==
  ASSUME NEW g, NEW stk, NEW stk2, NEW lev, NEW lev2, NEW d \in Nat,
         \A k \in 1..d : stk2[k] = stk[k] /\ lev2[k] = lev[k],
         NEW b, IsBase(g, stk, lev, d, b)
  PROVE  IsBase(g, stk2, lev2, d, b)
<1>1. b.at \in 0..d
  BY DEF IsBase
<1>2. \A j \in (b.at + 1)..d : j \in 1..d
  BY <1>1
<1>3. b.at # 0 => b.at \in 1..d
  BY <1>1
<1>4. b.saved_state \in 1..(b.at - 1) => b.saved_state \in 1..d
  BY <1>1
<1> QED
  BY <1>1, <1>2, <1>3, <1>4 DEF IsBase

LEMMA FrameInOrderBelow ==
  ASSUME NEW g, NEW stk, NEW stk2, NEW lev, NEW lev2, NEW k \in Nat \ {0},
         \A m \in 1..k : stk2[m] = stk[m] /\ lev2[m] = lev[m],
         FrameInOrder(g, stk, lev, k)
  PROVE  FrameInOrder(g, stk2, lev2, k)
<1>1. stk2[k] = stk[k] /\ lev2[k] = lev[k] /\ k - 1 \in Nat
  OBVIOUS
<1>2. \A m \in 1..(k - 1) : stk2[m] = stk[m] /\ lev2[m] = lev[m]
  OBVIOUS
<1>3. IsBase(g, stk, lev, k - 1, lev[k].base)
  BY DEF FrameInOrder
<1>4. lev[k].base.at \in Nat
  BY <1>1, <1>3 DEF IsBase
<1>5. IsBase(g, stk2, lev2, k - 1, lev2[k].base)
  BY <1>1, <1>2, <1>3, IsBaseBelow
<1>6. InOrder(g, stk2, k - 1, stk2[k].node, lev2[k], lev2[k].base)
  BY <1>1, <1>2, <1>4, InOrderBelow DEF FrameInOrder
<1> QED
  BY <1>1, <1>5, <1>6 DEF FrameInOrder

\* The next node of a segment, from a node that neither saves nor calls, when what
\* the node stores has been stored.
LEMMA ContinuationInOrder ==
  ASSUME NEW g, WellNested(g), SavesPaired(g), NEW stk, NEW d, NEW b, NEW s,
         NEW p \in DOMAIN g.node, p # nullptr,
         g.node[p].kind \notin {"SubroutineEnter", "StateSave", "StateRestore"},
         InOrder(g, stk, d, p, s, b), NEW q \in ContinuationsOf(g.node[p]),
         StoredBy(g.node[p]) \cap KeptGroups \subseteq Begun(s)
  PROVE  InOrder(g, stk, d, q, s, b)
<1>1. p \notin Restores(g) \cup SavingCalls(g)
  BY OrdinaryNode
<1>2. q \notin Restores(g) \cup SavingCalls(g)
  BY <1>1, PairedNode
<1>3. q \in BodyNodes(g) <=> p \in BodyNodes(g)
  BY NestedNode
<1>4. BegunAt(g, p) \subseteq Begun(s) => BegunAt(g, q) \subseteq Begun(s)
  BY StoredNext DEF BegunAt
<1> QED
  BY <1>1, <1>2, <1>3, <1>4 DEF InOrder, CallsNested

\* All that is true stays true at a State that one comes to.
LEMMA FollowingLinks ==
  ASSUME NEW g, NEW stk, NEW d, NEW s, NEW t, NEW b, Follows(t, s)
  PROVE  /\ \A n, q : LinksTo(g, stk, d, s, b, n, q) => LinksTo(g, stk, d, t, b, n, q)
         /\ \A q : ReturnsSafely(g, q, s) => ReturnsSafely(g, q, t)
         /\ LinksInnermost(g, stk, d, s, b) => LinksInnermost(g, stk, d, t, b)
<1>1. /\ t.subroutines_return_stack = s.subroutines_return_stack
      /\ t.saved_state = s.saved_state
      /\ Begun(s) \subseteq Begun(t)
      /\ Keeps(t, s, {})
  BY DEF Follows, SameCalls, Keeps
<1>2. \A X, u : Keeps(s, u, X) => Keeps(t, u, X)
  BY <1>1, KeepsOn
<1>3. \A q : ReturnsSafely(g, q, s) => ReturnsSafely(g, q, t)
  BY <1>1 DEF ReturnsSafely
<1>4. \A n, q : LinksTo(g, stk, d, s, b, n, q) => LinksTo(g, stk, d, t, b, n, q)
  BY <1>1, <1>2 DEF LinksTo, Starts
<1>5. OpenIn(t, b) = OpenIn(s, b)
  BY <1>1 DEF OpenIn
<1>6. LinksInnermost(g, stk, d, s, b) => LinksInnermost(g, stk, d, t, b)
  BY <1>1, <1>2, <1>3, <1>4, <1>5 DEF LinksInnermost
<1> QED
  BY <1>3, <1>4, <1>6

LEMMA FollowsInOrder ==
  ASSUME NEW g, NEW stk, NEW d, NEW p, NEW s, NEW t, NEW b,
         Follows(t, s), InOrder(g, stk, d, p, s, b)
  PROVE  InOrder(g, stk, d, p, t, b)
<1>1. /\ t.subroutines_return_stack = s.subroutines_return_stack
      /\ t.saved_state = s.saved_state
      /\ Begun(s) \subseteq Begun(t)
  BY DEF Follows, SameCalls, Keeps
<1>2. CallsNested(g, p, t, b) <=> CallsNested(g, p, s, b)
  BY <1>1 DEF CallsNested, Starts, OpenIn
<1>3. /\ \A n, q : LinksTo(g, stk, d, s, b, n, q) => LinksTo(g, stk, d, t, b, n, q)
      /\ LinksInnermost(g, stk, d, s, b) => LinksInnermost(g, stk, d, t, b)
  BY FollowingLinks
<1> QED
  BY <1>1, <1>2, <1>3 DEF InOrder

\* A graph of its own, and the whole, begin with no call of their own open.
LEMMA BeginInOrder ==
  ASSUME NEW g, NEW stk, NEW d \in Nat, NEW q, NEW s, NEW b,
         q \notin BodyNodes(g), q \notin Restores(g) \cup SavingCalls(g),
         BegunAt(g, q) = {}, b.subroutines_return_stack \in Seq(PointersOf(g)),
         Follows(s, b)
  PROVE  InOrder(g, stk, d, q, s, b)
<1>1. OpenIn(s, b) = {} /\ s.subroutines_return_stack \in Seq(PointersOf(g))
  BY DEF OpenIn, Follows, SameCalls
<1>2. CallsNested(g, q, s, b)
  BY <1>1 DEF CallsNested, Starts, Follows, SameCalls
<1>3. LinksInnermost(g, stk, d, s, b)
  BY <1>1 DEF LinksInnermost, Follows, SameCalls
<1> QED
  BY <1>1, <1>2, <1>3 DEF InOrder

\* Outside the bodies of subroutines, at a node that neither saves nor calls, the
\* segment has no call open: its calls and saves are those it began with, and no group
\* is lost.
LEMMA EndInOrder ==
  ASSUME NEW g, NEW stk, NEW d, NEW p, NEW s, NEW b,
         b.subroutines_return_stack \in Seq(PointersOf(g)),
         p \notin BodyNodes(g), p \notin Restores(g) \cup SavingCalls(g),
         InOrder(g, stk, d, p, s, b)
  PROVE  Follows(s, b)
<1> DEFINE before == b.subroutines_return_stack
           returns == s.subroutines_return_stack
<1>1. /\ returns \in Seq(PointersOf(g))
      /\ Len(before) <= Len(returns)
      /\ ~(Len(returns) > Len(before))
      /\ \A m \in 1..Len(before) : before[m] = returns[m]
  BY DEF InOrder, CallsNested, Starts
<1>2. Len(before) = Len(returns)
  BY <1>1
<1>3. before = returns
  BY <1>1, <1>2
<1>4. OpenIn(s, b) = {}
  BY <1>1, <1>2 DEF OpenIn
<1>5. s.saved_state = b.saved_state /\ Keeps(s, b, {})
  BY <1>4 DEF InOrder, LinksInnermost
<1> QED
  BY <1>3, <1>5 DEF Follows, SameCalls

-----------------------------------------------------------------------------
(***************************************************************************)
(* The frames: putting one on the stack, and taking it off.                *)
(***************************************************************************)
\* A frame that goes on with the segment, or begins one of its own.
LEMMA PushSegments ==
  ASSUME NEW g, NEW stk, Len(stk) \in Nat, DOMAIN stk = 1..Len(stk), NEW lev, NEW b,
         Segments(g, stk, lev, b),
         NEW stk2, DOMAIN stk2 = 1..(Len(stk) + 1), Len(stk2) = Len(stk) + 1,
         \A k \in 1..Len(stk) : stk2[k] = stk[k],
         NEW f, stk2[Len(stk) + 1] = f,
         NEW s, InOrder(g, stk, Len(stk), f.node, s, b),
         \A t \in StatesBefore(f) : SameCalls(t, s),
         \A t \in Origins(f) : Follows(t, s),
         \A t \in StatesAfter(f) : Follows(t, b),
         NEW u, SameCalls(u, s), GoesOnFromEnd(f) => Follows(u, s)
  PROVE  \E lev2 :
           /\ ~WaitsForSubgraph(f) => Segments(g, stk2, lev2, b)
           /\ WaitsForSubgraph(f) /\ LinksInnermost(g, stk, Len(stk), s, b) =>
                Segments(g, stk2, lev2, BaseOf(u, Len(stk) + 1))
<1> DEFINE n == Len(stk)
           level == LevelOf(s, b)
           lev2 == [k \in 1..(n + 1) |-> IF k <= n THEN lev[k] ELSE level]
           inner == BaseOf(u, n + 1)
<1>1. /\ n \in Nat
      /\ \A k \in 1..n : lev2[k] = lev[k]
      /\ lev2[n + 1] = level
  OBVIOUS
<1>2. Follows(level, s) /\ Follows(s, level) /\ level.base = b
  BY LevelAgrees
<1>3. /\ SameCalls(inner, level) /\ inner.at = n + 1
      /\ GoesOnFromEnd(f) => Follows(inner, level)
      /\ inner.subroutines_return_stack = s.subroutines_return_stack
      /\ inner.saved_state = s.saved_state
  <2>1. /\ Follows(inner, u) /\ inner.at = n + 1
        /\ inner.subroutines_return_stack = u.subroutines_return_stack
        /\ inner.saved_state = u.saved_state
    BY BaseAgrees
  <2> HIDE DEF inner, level
  <2>2. GoesOnFromEnd(f) => Follows(inner, level)
    BY <1>2, <2>1, FollowsOn
  <2> QED
    BY <1>2, <2>1, <2>2 DEF SameCalls, Follows
<1> HIDE DEF lev2, level, inner
<1>4. IsBase(g, stk, lev, n, b) /\ b.at \in 0..n
  BY DEF Segments, IsBase
<1>5. IsBase(g, stk2, lev2, n, b)
  BY <1>1, <1>4, IsBaseBelow
<1>6. \A k \in 1..n : FrameInOrder(g, stk2, lev2, k)
  <2> TAKE k \in 1..n
  <2>1. FrameInOrder(g, stk, lev, k)
    BY DEF Segments
  <2>2. k \in Nat \ {0} /\ \A m \in 1..k : stk2[m] = stk[m] /\ lev2[m] = lev[m]
    BY <1>1
  <2> QED
    BY <2>1, <2>2, FrameInOrderBelow
<1>7. FrameInOrder(g, stk2, lev2, n + 1)
  <2>1. InOrder(g, stk2, n, f.node, s, b)
    BY <1>1, <1>4, InOrderBelow
  <2>2. InOrder(g, stk2, n, f.node, level, b)
    BY <1>2, <2>1, FollowsInOrder
  <2>3. (n + 1) - 1 = n
    BY <1>1
  <2>4. \A t \in StatesBefore(f) : SameCalls(t, level)
    BY <1>2 DEF SameCalls, Follows
  <2>5. \A t \in Origins(f) : Follows(t, level)
    BY <1>2, FollowsOn
  <2> QED
    BY <1>1, <1>2, <1>5, <2>2, <2>3, <2>4, <2>5 DEF FrameInOrder
<1>8. \A k \in DOMAIN stk2 : FrameInOrder(g, stk2, lev2, k)
  <2> TAKE k \in DOMAIN stk2
  <2>1. k \in 1..n \/ k = n + 1
    BY <1>1
  <2> QED
    BY <1>6, <1>7, <2>1
<1>9. CASE ~WaitsForSubgraph(f)
  <2>1. \A j \in (b.at + 1)..(n + 1) : j \in (b.at + 1)..n \/ j = n + 1
    BY <1>1, <1>4
  <2>2. IsBase(g, stk2, lev2, n + 1, b)
    BY <1>1, <1>2, <1>4, <1>5, <1>9, <2>1 DEF IsBase
  <2> QED
    BY <1>8, <1>9, <2>2 DEF Segments
<1>10. CASE WaitsForSubgraph(f)
  <2> SUFFICES ASSUME LinksInnermost(g, stk, n, s, b)
               PROVE  Segments(g, stk2, lev2, inner)
    BY <1>10 DEF inner
  <2>1. s.subroutines_return_stack \in Seq(PointersOf(g))
    BY DEF InOrder
  <2>2. s.saved_state = 0 \/ (s.saved_state \in 1..n /\ stk2[s.saved_state].kind = "StateSave")
    <3>1. CASE s.saved_state = b.saved_state
      BY <1>1, <1>4, <1>5, <3>1 DEF IsBase
    <3>2. CASE s.saved_state # b.saved_state
      <4>0. PICK m, q : LinksTo(g, stk, n, s, b, m, q)
        BY <3>2 DEF LinksInnermost
      <4>1. s.saved_state \in (b.at + 1)..n /\ stk[s.saved_state].kind = "StateSave"
        BY <4>0 DEF LinksTo
      <4>2. s.saved_state \in 1..n
        BY <1>1, <1>4, <4>1
      <4> QED
        BY <4>1, <4>2
    <3> QED
      BY <3>1, <3>2
  <2>3. (inner.at + 1)..(n + 1) = {} /\ inner.at # 0 /\ inner.at - 1 = n /\ inner.at \in 0..(n + 1)
    BY <1>1, <1>3
  <2>4. IsBase(g, stk2, lev2, n + 1, inner)
    BY <1>1, <1>3, <1>10, <2>1, <2>2, <2>3 DEF IsBase
  <2> QED
    BY <1>8, <2>4 DEF Segments
<1> QED
  BY <1>9, <1>10 DEF inner

LEMMA StandingContinues ==
  ASSUME NEW g, WellNested(g), SavesPaired(g), NEW stk, NEW S, NEW s, NEW t, Follows(t, s),
         NEW p \in DOMAIN g.node, p # nullptr,
         g.node[p].kind \notin {"SubroutineEnter", "StateSave", "StateRestore"},
         StoredBy(g.node[p]) \cap KeptGroups \subseteq Begun(t),
         Standing(g, stk, p, s, S), NEW q \in ContinuationsOf(g.node[p])
  PROVE  Standing(g, stk, q, t, S)
<1>1. PICK lev, b : /\ Segments(g, stk, lev, b)
                    /\ InOrder(g, stk, Len(stk), p, s, b)
                    /\ \A u \in S : Follows(u, b)
  BY DEF Standing
<1>2. InOrder(g, stk, Len(stk), p, t, b)
  BY <1>1, FollowsInOrder
<1>3. InOrder(g, stk, Len(stk), q, t, b)
  BY <1>2, ContinuationInOrder
<1> QED
  BY <1>1, <1>3 DEF Standing

\* The frame of a function that has called MatchNode for all that follows.
LEMMA PushContinuing ==
  ASSUME NEW g, NEW F, NEW stk \in Seq(F), NEW f \in F, NEW s, NEW S,
         Standing(g, stk, f.node, s, S), ~WaitsForSubgraph(f),
         \A t \in StatesBefore(f) : SameCalls(t, s),
         \A t \in Origins(f) : Follows(t, s), StatesAfter(f) \subseteq S
  PROVE  Standing(g, Append(stk, f), f.node, s, S)
<1> DEFINE stk2 == Append(stk, f)
           n == Len(stk)
<1>1. PICK lev, b : /\ Segments(g, stk, lev, b)
                    /\ InOrder(g, stk, n, f.node, s, b)
                    /\ \A t \in S : Follows(t, b)
  BY DEF Standing
<1>2. /\ n \in Nat
      /\ DOMAIN stk = 1..n
      /\ DOMAIN stk2 = 1..(n + 1)
      /\ Len(stk2) = n + 1
      /\ \A k \in 1..n : stk2[k] = stk[k]
      /\ stk2[n + 1] = f
  BY PushedStack
<1>3. b.at \in Nat
  BY <1>1, <1>2 DEF Segments, IsBase
<1> HIDE DEF stk2
<1>4. PICK lev2 : Segments(g, stk2, lev2, b)
  <2>1. SameCalls(s, s) /\ Follows(s, s) /\ \A t \in StatesAfter(f) : Follows(t, b)
    BY <1>1, FollowsItself DEF SameCalls
  <2> QED
    BY <1>1, <1>2, <2>1, PushSegments
<1>5. InOrder(g, stk2, n + 1, f.node, s, b)
  BY <1>1, <1>2, <1>3, InOrderBelow
<1>6. Standing(g, stk2, f.node, s, S)
  BY <1>1, <1>2, <1>4, <1>5 DEF Standing
<1> QED
  BY <1>6 DEF stk2

\* The frame of a function that has called MatchNode for a graph of its own.
LEMMA PushWaiting ==
  ASSUME NEW g, WellNested(g), SavesPaired(g),
         NEW F, NEW stk \in Seq(F), NEW f \in F, NEW s, NEW S,
         Standing(g, stk, f.node, s, S), WaitsForSubgraph(f),
         \A t \in StatesBefore(f) : SameCalls(t, s),
         \A t \in Origins(f) : Follows(t, s), StatesAfter(f) \subseteq S,
         f.node \in DOMAIN g.node,
         g.node[f.node].kind \notin {"SubroutineEnter", "StateSave", "StateRestore"},
         NEW q \in SubgraphsOf(g.node[f.node]),
         NEW t, SameCalls(t, s), GoesOnFromEnd(f) => Follows(t, s)
  PROVE  Standing(g, Append(stk, f), q, t, {})
<1> DEFINE stk2 == Append(stk, f)
           n == Len(stk)
           inner == BaseOf(t, n + 1)
<1>1. PICK lev, b : /\ Segments(g, stk, lev, b)
                    /\ InOrder(g, stk, n, f.node, s, b)
                    /\ \A u \in S : Follows(u, b)
  BY DEF Standing
<1>2. /\ n \in Nat
      /\ DOMAIN stk = 1..n
      /\ DOMAIN stk2 = 1..(n + 1)
      /\ Len(stk2) = n + 1
      /\ \A k \in 1..n : stk2[k] = stk[k]
      /\ stk2[n + 1] = f
  BY PushedStack
<1>3. f.node \notin Restores(g) \cup SavingCalls(g)
  BY OrdinaryNode
<1>4. LinksInnermost(g, stk, n, s, b) /\ s.subroutines_return_stack \in Seq(PointersOf(g))
  BY <1>1, <1>3 DEF InOrder
<1> HIDE DEF stk2
<1>5. PICK lev2 : Segments(g, stk2, lev2, inner)
  <2>1. \A u \in StatesAfter(f) : Follows(u, b)
    BY <1>1
  <2> QED
    BY <1>1, <1>2, <1>4, <2>1, PushSegments
<1>6. /\ q \notin BodyNodes(g) /\ q \notin Restores(g) \cup SavingCalls(g)
      /\ BegunAt(g, q) = {}
  BY <1>3, NestedNode, PairedNode, StoredEntry DEF BegunAt
<1>7. /\ Follows(t, inner)
      /\ inner.subroutines_return_stack = s.subroutines_return_stack
  BY BaseAgrees DEF SameCalls
<1> HIDE DEF inner
<1>8. InOrder(g, stk2, n + 1, q, t, inner)
  BY <1>2, <1>4, <1>6, <1>7, BeginInOrder
<1>9. Standing(g, stk2, q, t, {})
  BY <1>2, <1>5, <1>8 DEF Standing
<1> QED
  BY <1>9 DEF stk2

LEMMA PopSegments ==
  ASSUME NEW g, NEW F, NEW stk \in Seq(F), stk # <<>>, NEW lev, NEW b,
         Segments(g, stk, lev, b)
  PROVE  LET n == Len(stk)
         IN /\ Segments(g, Front(stk), lev, lev[n].base)
            /\ InOrder(g, Front(stk), n - 1, Last(stk).node, lev[n], lev[n].base)
            /\ \A s \in StatesBefore(Last(stk)) : SameCalls(s, lev[n])
            /\ \A s \in Origins(Last(stk)) : Follows(s, lev[n])
            /\ \A s \in StatesAfter(Last(stk)) : Follows(s, lev[n].base)
            /\ IF WaitsForSubgraph(Last(stk))
               THEN /\ SameCalls(b, lev[n])
                    /\ GoesOnFromEnd(Last(stk)) => Follows(b, lev[n])
               ELSE lev[n].base = b
<1> DEFINE n == Len(stk)
           rest == Front(stk)
           f == Last(stk)
<1>1. /\ n \in Nat \ {0}
      /\ DOMAIN stk = 1..n
      /\ DOMAIN rest = 1..(n - 1)
      /\ Len(rest) = n - 1
      /\ \A k \in 1..(n - 1) : rest[k] = stk[k]
      /\ f = stk[n]
  BY PoppedStack
<1> HIDE DEF n, rest, f
<1>2. FrameInOrder(g, stk, lev, n)
  BY <1>1 DEF Segments
<1>3. /\ IsBase(g, stk, lev, n - 1, lev[n].base)
      /\ InOrder(g, stk, n - 1, f.node, lev[n], lev[n].base)
      /\ \A s \in StatesBefore(f) : SameCalls(s, lev[n])
      /\ \A s \in Origins(f) : Follows(s, lev[n])
      /\ \A s \in StatesAfter(f) : Follows(s, lev[n].base)
  BY <1>1, <1>2 DEF FrameInOrder
<1>4. n - 1 \in Nat /\ lev[n].base.at \in Nat
  BY <1>1, <1>3 DEF IsBase
<1>5. IsBase(g, rest, lev, n - 1, lev[n].base)
  BY <1>1, <1>3, <1>4, IsBaseBelow
<1>6. InOrder(g, rest, n - 1, f.node, lev[n], lev[n].base)
  BY <1>1, <1>3, <1>4, InOrderBelow
<1>7. \A k \in DOMAIN rest : FrameInOrder(g, rest, lev, k)
  <2> TAKE k \in DOMAIN rest
  <2>1. /\ k \in Nat \ {0}
        /\ k \in DOMAIN stk
        /\ \A m \in 1..k : rest[m] = stk[m] /\ lev[m] = lev[m]
    BY <1>1
  <2>2. FrameInOrder(g, stk, lev, k)
    BY <2>1 DEF Segments
  <2> QED
    BY <2>1, <2>2, FrameInOrderBelow
<1>8. IF WaitsForSubgraph(f)
      THEN SameCalls(b, lev[n]) /\ (GoesOnFromEnd(f) => Follows(b, lev[n]))
      ELSE lev[n].base = b
  <2>1. /\ b.at \in 0..n
        /\ \A j \in (b.at + 1)..n : ~WaitsForSubgraph(stk[j]) /\ lev[j].base = b
        /\ b.at # 0 => /\ WaitsForSubgraph(stk[b.at])
                       /\ SameCalls(b, lev[b.at])
                       /\ GoesOnFromEnd(stk[b.at]) => Follows(b, lev[b.at])
    BY DEF Segments, IsBase, n
  <2>2. b.at = n \/ n \in (b.at + 1)..n
    BY <1>1, <2>1
  <2> QED
    BY <1>1, <2>1, <2>2
<1>9. Segments(g, rest, lev, lev[n].base)
  BY <1>1, <1>5, <1>7 DEF Segments
<1> QED
  BY <1>3, <1>6, <1>8, <1>9 DEF n, rest, f

\* The function of a frame that has called MatchNode for all that follows: its
\* segment goes on, and what has ended in it stays so.
LEMMA PopContinuing ==
  ASSUME NEW g, NEW F, NEW stk \in Seq(F), stk # <<>>, NEW S,
         Ended(g, stk, S), ~WaitsForSubgraph(Last(stk))
  PROVE  /\ Ended(g, Front(stk), S \cup StatesAfter(Last(stk)))
         /\ \A s \in Origins(Last(stk)) :
              Standing(g, Front(stk), Last(stk).node, s, S \cup StatesAfter(Last(stk)))
<1> DEFINE rest == Front(stk)
           f == Last(stk)
<1>1. PICK lev, b : Segments(g, stk, lev, b) /\ \A t \in S : Follows(t, b)
  BY DEF Ended
<1> DEFINE level == lev[Len(stk)]
<1>2. /\ Segments(g, rest, lev, level.base)
      /\ InOrder(g, rest, Len(stk) - 1, f.node, level, level.base)
      /\ \A s \in Origins(f) : Follows(s, level)
      /\ \A t \in StatesAfter(f) : Follows(t, level.base)
      /\ level.base = b
  BY <1>1, PopSegments
<1>3. Len(rest) = Len(stk) - 1
  BY PoppedStack
<1> HIDE DEF rest, f, level
<1>4. Ended(g, rest, S \cup StatesAfter(f))
  BY <1>1, <1>2 DEF Ended
<1>5. ASSUME NEW s \in Origins(f)
      PROVE  Standing(g, rest, f.node, s, S \cup StatesAfter(f))
  <2>1. InOrder(g, rest, Len(rest), f.node, s, b)
    BY <1>2, <1>3, <1>5, FollowsInOrder
  <2> QED
    BY <1>1, <1>2, <2>1 DEF Standing
<1> QED
  BY <1>4, <1>5 DEF rest, f

\* The function of a frame that has waited for a graph of its own: from the State
\* it began with, and from one with which that graph has ended and that it goes on
\* from, it is still at its node.
LEMMA PopWaiting ==
  ASSUME NEW g, NEW F, NEW stk \in Seq(F), stk # <<>>, NEW S,
         Ended(g, stk, S), WaitsForSubgraph(Last(stk))
  PROVE  /\ Ended(g, Front(stk), StatesAfter(Last(stk)))
         /\ \A s \in Origins(Last(stk)) :
              Standing(g, Front(stk), Last(stk).node, s, StatesAfter(Last(stk)))
         /\ GoesOnFromEnd(Last(stk)) =>
              \A s \in S : Standing(g, Front(stk), Last(stk).node, s, StatesAfter(Last(stk)))
         /\ \A s \in S, t \in Origins(Last(stk)) : SameCalls(s, t)
<1> DEFINE rest == Front(stk)
           f == Last(stk)
<1>1. PICK lev, b : Segments(g, stk, lev, b) /\ \A t \in S : Follows(t, b)
  BY DEF Ended
<1> DEFINE level == lev[Len(stk)]
<1>2. /\ Segments(g, rest, lev, level.base)
      /\ InOrder(g, rest, Len(stk) - 1, f.node, level, level.base)
      /\ \A s \in Origins(f) : Follows(s, level)
      /\ \A t \in StatesAfter(f) : Follows(t, level.base)
      /\ SameCalls(b, level)
      /\ GoesOnFromEnd(f) => Follows(b, level)
  BY <1>1, PopSegments
<1>3. Len(rest) = Len(stk) - 1
  BY PoppedStack
<1> HIDE DEF rest, f, level
<1>4. Ended(g, rest, StatesAfter(f))
  BY <1>2 DEF Ended
<1>5. ASSUME NEW s, Follows(s, level)
      PROVE  Standing(g, rest, f.node, s, StatesAfter(f))
  <2>1. InOrder(g, rest, Len(rest), f.node, s, level.base)
    BY <1>2, <1>3, <1>5, FollowsInOrder
  <2> QED
    BY <1>2, <2>1 DEF Standing
<1>6. GoesOnFromEnd(f) => \A s \in S : Follows(s, level)
  BY <1>1, <1>2, FollowsOn
<1>7. \A s \in S, t \in Origins(f) : SameCalls(s, t)
  BY <1>1, <1>2 DEF Follows, SameCalls
<1> QED
  BY <1>2, <1>4, <1>5, <1>6, <1>7 DEF rest, f

\* Where the match stands it can end: what has ended stays so, and outside the
\* bodies of subroutines the State it stands at is one more.
LEMMA StandingEnds ==
  ASSUME NEW g, NEW stk, NEW p, NEW s, NEW S, Standing(g, stk, p, s, S)
  PROVE  /\ Ended(g, stk, S)
         /\ p \notin BodyNodes(g) \cup Restores(g) \cup SavingCalls(g)
              => Ended(g, stk, S \cup {s})
<1>1. PICK lev, b : /\ Segments(g, stk, lev, b)
                    /\ InOrder(g, stk, Len(stk), p, s, b)
                    /\ \A t \in S : Follows(t, b)
  BY DEF Standing
<1>2. Ended(g, stk, S)
  BY <1>1 DEF Ended
<1>3. ASSUME p \notin BodyNodes(g) \cup Restores(g) \cup SavingCalls(g)
      PROVE  Ended(g, stk, S \cup {s})
  <2>1. Follows(s, b)
    BY <1>1, <1>3, EndInOrder DEF Segments, IsBase
  <2> QED
    BY <1>1, <2>1 DEF Ended
<1> QED
  BY <1>2, <1>3

-----------------------------------------------------------------------------
(***************************************************************************)
(* The matcher's steps: entering MatchNode, leaving it, and returning to a *)
(* frame.                                                                  *)
(***************************************************************************)
\* The matcher runs, on a graph this is about.
Walking == Placed /\ Orderly(graph) /\ CallsInOrder

LEMMA WalkingFacts ==
  ASSUME Walking
  PROVE  /\ Running
         /\ Positions
         /\ WellNested(graph)
         /\ SavesPaired(graph)
         /\ stack \in Seq(Frame)
         /\ state \in StateType
BY PlacedRuns, RunningTypes DEF Walking, Placed, Orderly

\* What leaves the calls and the saves alone.
LEMMA SameCallsUpdates ==
  ASSUME NEW s \in StateType
  PROVE  /\ \A p : SameCalls([s EXCEPT !.pos = p], s)
         /\ \A g, v : SameCalls(WithGroup(s, g, v), s)
         /\ \A id, k : SameCalls(WithCounter(s, id, k), s)
BY DEF StateType, SameCalls, WithGroup, WithCounter

\* A match goes on where it is or after it, and no group is lost.
LEMMA FollowsUpdates ==
  ASSUME NEW s \in StateType
  PROVE  /\ \A p \in Nat : s.pos <= p => Follows([s EXCEPT !.pos = p], s)
         /\ \A id, k : Follows(WithCounter(s, id, k), s)
         /\ \A g : Follows(WithGroup(s, g, View(s.pos, 0)), s)
         /\ \A g, v : v.at = s.groups[g].at => Follows(WithGroup(s, g, v), s)
<1>1. s.pos \in Nat /\ s.groups \in [Slots -> ViewType]
  BY StateFields
<1>2. ASSUME NEW p \in Nat, s.pos <= p
      PROVE  Follows([s EXCEPT !.pos = p], s)
  <2> DEFINE t == [s EXCEPT !.pos = p]
  <2>1. t.pos = p /\ t.groups = s.groups /\ SameCalls(t, s)
    BY SameCallsUpdates DEF StateType
  <2> HIDE DEF t
  <2>2. 0..s.pos \subseteq 0..t.pos
    BY <1>1, <1>2, <2>1
  <2>3. Begun(s) \subseteq Begun(t)
    BY <2>1, <2>2 DEF Begun
  <2> QED
    BY <2>1, <2>2, <2>3 DEF Follows, Keeps, t
<1>3. ASSUME NEW id, NEW k
      PROVE  Follows(WithCounter(s, id, k), s)
  <2> DEFINE t == WithCounter(s, id, k)
  <2>1. t.pos = s.pos /\ t.groups = s.groups /\ SameCalls(t, s)
    BY SameCallsUpdates DEF StateType, WithCounter
  <2> HIDE DEF t
  <2> QED
    BY <2>1, FollowsAlike DEF t
<1>4. ASSUME NEW g, NEW v, v.at = s.groups[g].at \/ v.at = s.pos
      PROVE  Follows(WithGroup(s, g, v), s)
  <2> DEFINE t == WithGroup(s, g, v)
  <2>1. t.pos = s.pos /\ t.groups = [s.groups EXCEPT ![g] = v] /\ SameCalls(t, s)
    BY SameCallsUpdates DEF StateType, WithGroup
  <2> HIDE DEF t
  <2>2. ASSUME NEW x \in Begun(s)
        PROVE  x \in Begun(t)
    <3>1. x \in KeptGroups /\ s.groups[x[2]].at \in 0..s.pos /\ x[2] \in Slots
      BY DEF Begun, KeptGroups, Slots
    <3>2. t.groups[x[2]] = IF x[2] = g THEN v ELSE s.groups[x[2]]
      BY <1>1, <2>1, <3>1
    <3>3. s.pos \in 0..s.pos
      BY <1>1
    <3> QED
      BY <1>4, <2>1, <3>1, <3>2, <3>3 DEF Begun
  <2>3. Begun(s) \subseteq Begun(t)
    BY <2>2
  <2> QED
    BY <2>1, <2>3 DEF Follows, Keeps, t
<1>5. \A g : View(s.pos, 0).at = s.pos
  BY DEF View
<1> QED
  BY <1>2, <1>3, <1>4, <1>5

LEMMA EndedLess ==
  ASSUME NEW g, NEW stk, NEW S, NEW T, T \subseteq S, Ended(g, stk, S)
  PROVE  Ended(g, stk, T)
BY DEF Ended

LEMMA StandingLess ==
  ASSUME NEW g, NEW stk, NEW p, NEW s, NEW S, NEW T, T \subseteq S, Standing(g, stk, p, s, S)
  PROVE  Standing(g, stk, p, s, T)
BY DEF Standing

LEMMA StandingFollows ==
  ASSUME NEW g, NEW stk, NEW p, NEW s, NEW S, Standing(g, stk, p, s, S),
         NEW t, Follows(t, s)
  PROVE  Standing(g, stk, p, t, S)
BY FollowsInOrder DEF Standing

LEMMA EnterCalls ==
  ASSUME Walking, NEW p, NEW s, NEW stk, Enter(p, s, stk),
         NEW S, Standing(graph, stk, p, s, S)
  PROVE  CallsInOrder'
<1>1. /\ input' = input /\ pc' = "match" /\ node' = p /\ state' = s /\ stack' = stk
  BY DEF Enter
<1>2. graph' = graph
  BY <1>1 DEF graph
<1>3. Standing(graph, stk, p, s, {})
  BY StandingLess
<1> QED
  BY <1>1, <1>2, <1>3 DEF CallsInOrder

\* A loop that scans below has to get a State of its segment.
LEMMA LeaveCalls ==
  ASSUME Walking, NEW a, NEW s, NEW stk, Leave(a, s, stk),
         NEW S, Ended(graph, stk, S),
         a \/ (stk # <<>> /\ Scanning(Last(stk))) => s \in S
  PROVE  CallsInOrder'
<1>1. /\ input' = input /\ pc' = "return" /\ answer' = a /\ state' = s /\ stack' = stk
  BY DEF Leave
<1>2. graph' = graph
  BY <1>1 DEF graph
<1>3. Ended(graph, stk, {}) /\ (s \in S => Ended(graph, stk, {s}))
  BY EndedLess
<1>4. Caller' = Last(stk)
  BY <1>1 DEF Caller
<1>5. Scanning(Caller)' <=> Scanning(Last(stk))
  BY <1>4 DEF Scanning
<1> QED
  BY <1>1, <1>2, <1>3, <1>5 DEF CallsInOrder

\* The kinds of nodes that neither save nor call, and begin no group.
OrdinaryKinds == Kinds \ {"SubroutineEnter", "StateSave", "StateRestore", "GroupStart"}

LEMMA OrdinaryStores ==
  ASSUME Walking, NEW p \in DOMAIN graph.node
  PROVE  /\ p # nullptr
         /\ graph.node[p].kind # "GroupStart" => StoredBy(graph.node[p]) \cap KeptGroups = {}
<1>1. p # nullptr
  BY WalkingFacts, RunningTypes DEF GraphOK
<1> SUFFICES ASSUME graph.node[p].kind # "GroupStart", NEW x \in StoredBy(graph.node[p])
             PROVE  x \notin KeptGroups
  BY <1>1
<1>2. x[1] = "counter"
  BY DEF StoredBy
<1> QED
  BY <1>2 DEF KeptGroups

\* The function of node p goes on in its own segment ...
LEMMA GoesOn ==
  ASSUME Walking, NEW stk, NEW p \in DOMAIN graph.node, graph.node[p].kind \in OrdinaryKinds,
         NEW s, NEW S, Standing(graph, stk, p, s, S),
         NEW q \in ContinuationsOf(graph.node[p]), NEW t, Follows(t, s), Enter(q, t, stk)
  PROVE  CallsInOrder'
<1>1. Standing(graph, stk, q, t, S)
  BY WalkingFacts, OrdinaryStores, StandingContinues DEF OrdinaryKinds
<1> QED
  BY <1>1, EnterCalls

\* The State a frame keeps has the calls its function began with.
LEMMA OriginsCalls ==
  ASSUME NEW f \in Frame, NEW s, \A t \in Origins(f) : Follows(t, s)
  PROVE  \A t \in StatesBefore(f) : SameCalls(t, s)
<1>1. CASE f.kind = "FixedLengthElementSequence"
  <2>1. f.state \in StateType /\ StatesBefore(f) = {f.state}
    BY <1>1, FrameStates DEF KeepingKinds, StatesBefore
  <2>2. SameCalls([f.state EXCEPT !.pos = f.str_initial], s)
    BY <1>1 DEF Origins, Follows
  <2>3. SameCalls([f.state EXCEPT !.pos = f.str_initial], f.state)
    BY <2>1, SameCallsUpdates
  <2> QED
    BY <2>1, <2>2, <2>3 DEF SameCalls
<1>2. CASE f.kind # "FixedLengthElementSequence"
  BY <1>2 DEF Origins, Follows
<1> QED
  BY <1>1, <1>2

\* ... keeping a frame to come back to ...
LEMMA GoesOnKeeping ==
  ASSUME Walking, NEW stk \in Seq(Frame), NEW f \in Frame, ~WaitsForSubgraph(f),
         graph.node[f.node].kind \in OrdinaryKinds,
         NEW s, NEW S, Standing(graph, stk, f.node, s, S),
         \A t \in Origins(f) : Follows(t, s), StatesAfter(f) \subseteq S,
         NEW q \in ContinuationsOf(graph.node[f.node]), NEW t, Follows(t, s),
         Enter(q, t, Append(stk, f))
  PROVE  CallsInOrder'
<1>1. Standing(graph, Append(stk, f), f.node, s, S)
  BY OriginsCalls, PushContinuing
<1>2. f.node \in DOMAIN graph.node
  BY FrameFields
<1> QED
  BY <1>1, <1>2, GoesOn

\* ... or asks about a graph of its own first, aside ...
LEMMA AsksAside ==
  ASSUME Walking, NEW stk \in Seq(Frame), NEW f \in Frame, WaitsForSubgraph(f),
         graph.node[f.node].kind \in OrdinaryKinds,
         NEW s, NEW S, Standing(graph, stk, f.node, s, S),
         \A t \in Origins(f) : Follows(t, s), StatesAfter(f) \subseteq S,
         NEW q \in SubgraphsOf(graph.node[f.node]),
         NEW t, SameCalls(t, s), GoesOnFromEnd(f) => Follows(t, s),
         Enter(q, t, Append(stk, f))
  PROVE  CallsInOrder'
<1>1. f.node \in DOMAIN graph.node
  BY FrameFields
<1>2. Standing(graph, Append(stk, f), q, t, {})
  BY <1>1, WalkingFacts, OriginsCalls, PushWaiting DEF OrdinaryKinds
<1> QED
  BY <1>2, EnterCalls

\* ... or on its own State.
LEMMA GoesInto ==
  ASSUME Walking, NEW stk \in Seq(Frame), NEW f \in Frame, WaitsForSubgraph(f),
         graph.node[f.node].kind \in OrdinaryKinds,
         NEW s, NEW S, Standing(graph, stk, f.node, s, S),
         \A t \in Origins(f) : Follows(t, s), StatesAfter(f) \subseteq S,
         NEW q \in SubgraphsOf(graph.node[f.node]), NEW t, Follows(t, s),
         Enter(q, t, Append(stk, f))
  PROVE  CallsInOrder'
<1>1. SameCalls(t, s)
  BY DEF Follows
<1> QED
  BY <1>1, AsksAside

\* The node the match is at.
LEMMA HereStands ==
  ASSUME Walking, NEW kind, At(kind)
  PROVE  /\ node \in DOMAIN graph.node
         /\ Here = graph.node[node]
         /\ Here.kind = kind
         /\ kind \in Kinds
         /\ NodeOK(Here, Pointers, Counters)
         /\ Standing(graph, stack, node, state, {})
<1>1. /\ node \in DOMAIN graph.node
      /\ Here.kind = kind
      /\ NodeOK(Here, Pointers, Counters)
  BY WalkingFacts, HereFields
<1> QED
  BY <1>1 DEF Walking, CallsInOrder, At, Here, NodeOK

LEMMA SettledTop ==
  ASSUME NEW F, NEW stk \in Seq(F), stk # <<>>, Settled(stk)
  PROVE  ~Scanning(Last(stk))
<1>1. Len(stk) \in DOMAIN stk /\ Last(stk) = stk[Len(stk)]
  BY DEF Last
<1> QED
  BY <1>1 DEF Settled

\* A node has failed.
LEMMA FailsHere ==
  ASSUME Walking, NEW kind, At(kind), kind \in OrdinaryKinds,
         NEW s, Follows(s, state), Leave(FALSE, s, stack)
  PROVE  CallsInOrder'
<1>1. Standing(graph, stack, node, state, {})
  BY HereStands
<1>2. CASE Settled(stack)
  <2>1. stack # <<>> => ~Scanning(Last(stack))
    BY <1>2, WalkingFacts, SettledTop
  <2> QED
    BY <1>1, <2>1, StandingEnds, LeaveCalls
<1>3. CASE ~Settled(stack)
  <2>1. stack # <<>> /\ InElement(Caller)
    BY <1>3, WalkingFacts DEF Positions, Walking, Placed
  <2>2. Caller \in Frame
    BY <2>1, WalkingFacts, LastAndFront DEF Caller
  <2>3. /\ Caller.node \in DOMAIN graph.node
        /\ graph.node[Caller.node].kind = "FixedLengthElementSequence"
    BY <2>1, <2>2, FrameFields DEF InElement, Scanning
  <2>4. node = graph.node[Caller.node].sequence_element
    BY <2>1 DEF InElement, At
  <2>5. node \in SubgraphsOf(graph.node[Caller.node])
    BY <2>3, <2>4 DEF SubgraphsOf, LookKinds, LoopKinds
  <2>6. node \notin BodyNodes(graph)
    BY <2>3, <2>5, WalkingFacts, NestedNode
  <2>7. node \notin Restores(graph) \cup SavingCalls(graph)
    BY HereStands, OrdinaryNode DEF OrdinaryKinds
  <2>8. Ended(graph, stack, {state})
    BY <1>1, <2>6, <2>7, StandingEnds
  <2>9. Ended(graph, stack, {s})
    BY <2>8, FollowsOn DEF Ended
  <2> QED
    BY <2>9, LeaveCalls
<1> QED
  BY <1>2, <1>3

\* The frames below the one that is returned to: none of them scans.
LEMMA BelowSettled ==
  ASSUME Walking, NEW kind, BackIn(kind)
  PROVE  Callers # <<>> => ~Scanning(Last(Callers))
<1>1. stack \in Seq(Frame) /\ stack # <<>>
  BY WalkingFacts DEF BackIn
<1>2. Settled(Callers)
  <2>1. CASE Settled(stack)
    BY <1>1, <2>1, PoppedStack DEF Settled, Callers
  <2>2. CASE ~Settled(stack)
    BY <2>2, WalkingFacts DEF Positions, Walking, Placed
  <2> QED
    BY <2>1, <2>2
<1>3. Callers \in Seq(Frame)
  BY <1>1, PoppedStack DEF Callers
<1> QED
  BY <1>2, <1>3, SettledTop

\* Where the function of the frame on top can go on.
LEMMA BackContinuing ==
  ASSUME Walking, NEW kind, BackIn(kind), ~WaitsForSubgraph(Caller),
         NEW S, S = IF answer THEN {state} \cup StatesAfter(Caller) ELSE StatesAfter(Caller)
  PROVE  /\ Ended(graph, Callers, S)
         /\ \A s \in Origins(Caller) : Standing(graph, Callers, Caller.node, s, S)
<1>1. stack \in Seq(Frame) /\ stack # <<>> /\ pc = "return"
  BY WalkingFacts DEF BackIn
<1>2. Ended(graph, stack, IF answer THEN {state} ELSE {})
  BY <1>1 DEF Walking, CallsInOrder
<1> DEFINE T == IF answer THEN {state} ELSE {}
<1>3. S = T \cup StatesAfter(Caller)
  OBVIOUS
<1> HIDE DEF T
<1>4. Ended(graph, stack, T)
  BY <1>2 DEF T
<1> QED
  BY <1>1, <1>3, <1>4, PopContinuing DEF Caller, Callers

LEMMA BackWaiting ==
  ASSUME Walking, NEW kind, BackIn(kind), WaitsForSubgraph(Caller)
  PROVE  /\ Ended(graph, Callers, StatesAfter(Caller))
         /\ \A s \in Origins(Caller) :
              Standing(graph, Callers, Caller.node, s, StatesAfter(Caller))
         /\ GoesOnFromEnd(Caller) /\ (answer \/ Scanning(Caller)) =>
              /\ Standing(graph, Callers, Caller.node, state, StatesAfter(Caller))
              /\ \A s \in Origins(Caller) : SameCalls(state, s)
<1>1. stack \in Seq(Frame) /\ stack # <<>> /\ pc = "return"
  BY WalkingFacts DEF BackIn
<1>2. /\ Ended(graph, stack, {})
      /\ answer \/ Scanning(Caller) => Ended(graph, stack, {state})
  BY <1>1 DEF Walking, CallsInOrder
<1> QED
  BY <1>1, <1>2, PopWaiting DEF Caller, Callers

\* A function has returned what the frame above it has answered.
LEMMA LeavesCaller ==
  ASSUME Walking, NEW kind, BackIn(kind), NEW a, NEW s, NEW S, Ended(graph, Callers, S),
         a => s \in S, Leave(a, s, Callers)
  PROVE  CallsInOrder'
BY BelowSettled, LeaveCalls

-----------------------------------------------------------------------------
(***************************************************************************)
(* Nodes that go on or fail, and leave no frame.                           *)
(***************************************************************************)
LEMMA MatchNullptrCalls ==
  ASSUME Walking, MatchNullptr
  PROVE  CallsInOrder'
<1>1. Standing(graph, stack, nullptr, state, {})
  BY DEF Walking, CallsInOrder, MatchNullptr
<1>2. nullptr \notin DOMAIN graph.node
  BY WalkingFacts, RunningTypes DEF GraphOK
<1>3. nullptr \notin BodyNodes(graph) \cup Restores(graph) \cup SavingCalls(graph)
  BY <1>2, WalkingFacts, NestedGraph, OrdinaryNode
<1>4. Ended(graph, stack, {state})
  BY <1>1, <1>3, StandingEnds
<1> QED
  BY <1>4, LeaveCalls DEF MatchNullptr

\* The node and the kinds that have "next" and no graph of their own to wait for.
LEMMA NextCalls ==
  ASSUME Walking, NEW kind, At(kind), kind \in NextKinds \cap OrdinaryKinds,
         NEW s, Follows(s, state),
         Enter(Here.next, s, stack) \/ Leave(FALSE, s, stack)
  PROVE  CallsInOrder'
<1>1. /\ node \in DOMAIN graph.node
      /\ Here = graph.node[node]
      /\ Here.kind = kind
      /\ Standing(graph, stack, node, state, {})
  BY HereStands
<1>2. Here.next \in ContinuationsOf(Here)
  BY <1>1 DEF ContinuationsOf, NextKinds
<1>3. CASE Enter(Here.next, s, stack)
  BY <1>1, <1>2, <1>3, GoesOn
<1>4. CASE Leave(FALSE, s, stack)
  BY <1>4, FailsHere
<1> QED
  BY <1>3, <1>4

LEMMA ExtractedCalls ==
  ASSUME Walking
  PROVE  Follows(Extracted(ExtractCodePoint(str, state.pos)), state)
<1> DEFINE c == ExtractCodePoint(str, state.pos)
<1>1. CASE c.ok
  <2>1. str \in Seq(Byte) /\ state.pos \in Nat
    BY WalkingFacts, RunningTypes, StateFields
  <2>2. /\ c.code \in Int
        /\ c.pos = state.pos + Len(Utf8(c.code))
    BY <1>1, <2>1, ExtractedLength
  <2>3. Len(Utf8(c.code)) \in Nat
    BY <2>2 DEF Utf8
  <2>4. c.pos \in Nat /\ state.pos <= c.pos
    BY <2>1, <2>2, <2>3
  <2>5. Extracted(c) = [state EXCEPT !.pos = c.pos]
    BY <1>1 DEF Extracted, Moved
  <2> HIDE DEF c
  <2>6. Follows([state EXCEPT !.pos = c.pos], state)
    BY <2>4, WalkingFacts, FollowsUpdates
  <2> QED
    BY <2>5, <2>6 DEF c
<1>2. CASE ~c.ok
  BY <1>2, FollowsItself DEF Extracted
<1> QED
  BY <1>1, <1>2

LEMMA MatchSymbolCalls ==
  ASSUME Walking, MatchAnySymbol \/ MatchSpecificSymbol \/ MatchOneOf
  PROVE  CallsInOrder'
<1> DEFINE s == Extracted(ExtractCodePoint(str, state.pos))
<1>1. Follows(s, state)
  BY ExtractedCalls
<1>2. /\ Enter(Here.next, s, stack) \/ Leave(FALSE, s, stack)
      /\ At("AnySymbol") \/ At("SpecificSymbol") \/ At("OneOf")
  BY DEF MatchAnySymbol, MatchSpecificSymbol, MatchOneOf, EnterIf
<1> HIDE DEF s
<1> QED
  BY <1>1, <1>2, NextCalls DEF NextKinds, OrdinaryKinds, Kinds

LEMMA MatchStringCalls ==
  ASSUME Walking, MatchString
  PROVE  CallsInOrder'
<1> DEFINE moved == Moved(state.pos + Len(Here.str))
<1>1. At("String") => Follows(moved, state) /\ Follows(state, state)
  <2> SUFFICES ASSUME At("String")
               PROVE  Follows(moved, state) /\ Follows(state, state)
    OBVIOUS
  <2>1. state.pos \in Nat /\ Len(Here.str) \in Nat
    BY WalkingFacts, HereFields, StateFields DEF NodeOK
  <2> DEFINE p == state.pos + Len(Here.str)
  <2>2. p \in Nat /\ state.pos <= p
    BY <2>1
  <2> HIDE DEF p
  <2>3. Follows([state EXCEPT !.pos = p], state)
    BY <2>2, WalkingFacts, FollowsUpdates
  <2> QED
    BY <2>3, FollowsItself DEF Moved, p
<1>2. /\ At("String")
      /\ Enter(Here.next, moved, stack) \/ Leave(FALSE, state, stack)
  BY DEF MatchString
<1> HIDE DEF moved
<1> QED
  BY <1>1, <1>2, NextCalls DEF NextKinds, OrdinaryKinds, Kinds

LEMMA MatchAssertionCalls ==
  ASSUME Walking, MatchStringStartAssertion \/ MatchStringEndAssertion
  PROVE  CallsInOrder'
<1>1. Follows(state, state)
  BY FollowsItself
<1>2. /\ At("StringStartAssertion") \/ At("StringEndAssertion")
      /\ Enter(Here.next, state, stack) \/ Leave(FALSE, state, stack)
  BY DEF MatchStringStartAssertion, MatchStringEndAssertion, EnterIf
<1> QED
  BY <1>1, <1>2, NextCalls DEF NextKinds, OrdinaryKinds, Kinds

\* A group begins: it is the one thing a node stores that others rely on.
LEMMA MatchGroupStartCalls ==
  ASSUME Walking, MatchGroupStart
  PROVE  CallsInOrder'
<1> DEFINE s == IF GroupIsKept(Here) THEN WithGroup(state, Here.index, View(state.pos, 0))
                                     ELSE state
<1>1. At("GroupStart") /\ Enter(Here.next, s, stack)
  BY DEF MatchGroupStart
<1>2. /\ node \in DOMAIN graph.node
      /\ Here = graph.node[node]
      /\ Here.kind = "GroupStart"
      /\ Standing(graph, stack, node, state, {})
  BY <1>1, HereStands
<1>3. Follows(s, state)
  BY WalkingFacts, FollowsUpdates, FollowsItself
<1>4. Here.next \in ContinuationsOf(Here) /\ node # nullptr
  BY <1>2, OrdinaryStores DEF ContinuationsOf
<1>5. StoredBy(Here) \cap KeptGroups \subseteq Begun(s)
  <2> SUFFICES ASSUME <<"group", Here.index>> \in KeptGroups
               PROVE  <<"group", Here.index>> \in Begun(s)
    BY <1>2 DEF StoredBy
  <2>1. Here.index \in 1..(GroupSlots - 1)
    BY DEF KeptGroups
  <2>2. s = WithGroup(state, Here.index, View(state.pos, 0)) /\ Here.index \in Slots
    BY <2>1 DEF GroupIsKept, Slots
  <2>3. state.pos \in Nat /\ state.groups \in [Slots -> ViewType]
    BY WalkingFacts, StateFields
  <2>4. s.pos = state.pos /\ s.groups[Here.index].at = state.pos
    BY <2>2, <2>3, WalkingFacts DEF WithGroup, StateType, View
  <2>5. s.groups[Here.index].at \in 0..s.pos
    BY <2>3, <2>4
  <2> QED
    BY <2>5 DEF Begun
<1> HIDE DEF s
<1>6. Here.kind \notin {"SubroutineEnter", "StateSave", "StateRestore"}
  BY <1>2
<1>7. Standing(graph, stack, Here.next, s, {})
  BY <1>2, <1>3, <1>4, <1>5, <1>6, WalkingFacts, StandingContinues
<1> QED
  BY <1>1, <1>7, EnterCalls

LEMMA MatchGroupEndCalls ==
  ASSUME Walking, MatchGroupEnd
  PROVE  CallsInOrder'
<1>1. PICK s : Follows(s, state) /\ Enter(Here.next, s, stack)
  <2> DEFINE begin == state.groups[Here.index].at
             v     == View(begin, Wrap(state.pos - begin))
             s     == IF GroupIsKept(Here) THEN WithGroup(state, Here.index, v) ELSE state
  <2>1. Enter(Here.next, s, stack)
    BY DEF MatchGroupEnd
  <2>2. v.at = state.groups[Here.index].at
    BY DEF View
  <2> HIDE DEF v
  <2>3. Follows(s, state)
    BY <2>2, WalkingFacts, FollowsUpdates, FollowsItself
  <2> QED
    BY <2>1, <2>3
<1>2. At("GroupEnd")
  BY DEF MatchGroupEnd
<1> QED
  BY <1>1, <1>2, NextCalls DEF NextKinds, OrdinaryKinds, Kinds

LEMMA MatchBackReferenceCalls ==
  ASSUME Walking, MatchBackReference
  PROVE  CallsInOrder'
<1> DEFINE size == state.groups[Here.index].size
           p    == state.pos + size
<1>1. /\ At("BackReference")
      /\ \/ GroupIsKept(Here) /\ Enter(Here.next, Moved(p), stack)
         \/ Leave(FALSE, state, stack)
  BY DEF MatchBackReference
<1>2. CASE GroupIsKept(Here) /\ Enter(Here.next, Moved(p), stack)
  <2>1. Here.index \in Slots
    BY <1>2 DEF GroupIsKept, Slots
  <2>2. state.pos \in Nat /\ size \in Nat
    BY <2>1, WalkingFacts, StateFields, SizeMaxAssumption DEF ViewType
  <2>3. p \in Nat /\ state.pos <= p
    BY <2>2
  <2> HIDE DEF p
  <2>4. Follows(Moved(p), state)
    BY <2>3, WalkingFacts, FollowsUpdates DEF Moved
  <2> QED
    BY <1>1, <1>2, <2>4, NextCalls DEF NextKinds, OrdinaryKinds, Kinds
<1>3. CASE Leave(FALSE, state, stack)
  <2>1. Follows(state, state)
    BY FollowsItself
  <2> QED
    BY <1>1, <1>3, <2>1, NextCalls DEF NextKinds, OrdinaryKinds, Kinds
<1> QED
  BY <1>1, <1>2, <1>3

LEMMA MatchSequenceCounterResetCalls ==
  ASSUME Walking, MatchSequenceCounterReset
  PROVE  CallsInOrder'
<1> DEFINE s == WithCounter(state, Here.id, 0)
<1>1. Follows(s, state)
  BY WalkingFacts, FollowsUpdates
<1>2. At("SequenceCounterReset") /\ Enter(Here.next, s, stack)
  BY DEF MatchSequenceCounterReset
<1> HIDE DEF s
<1> QED
  BY <1>1, <1>2, NextCalls DEF NextKinds, OrdinaryKinds, Kinds

-----------------------------------------------------------------------------
(***************************************************************************)
(* Choice.                                                                 *)
(***************************************************************************)
LEMMA TryAlternativeCalls ==
  ASSUME Walking, NEW p \in NodesOf("Alternatives"), NEW k \in Nat \ {0},
         NEW s \in StateType, NEW stk \in Seq(Frame), NEW S, Standing(graph, stk, p, s, S),
         TryAlternative(p, k, s, stk), stk # <<>> => ~Scanning(Last(stk))
  PROVE  CallsInOrder'
<1> DEFINE f == [kind |-> "Alternatives", node |-> p, tried |-> k, state |-> s]
<1>1. p \in DOMAIN graph.node /\ graph.node[p].kind = "Alternatives"
  BY DEF NodesOf
<1>2. CASE k <= Len(graph.node[p].next)
  <2>1. /\ f \in Frame /\ f.node = p
        /\ ~WaitsForSubgraph(f)
        /\ Origins(f) = {s} /\ StatesAfter(f) = {}
    BY DEF Frame, WaitsForSubgraph, LookKinds, Origins, StatesBefore, StatesAfter
  <2>2. graph.node[p].next[k] \in ContinuationsOf(graph.node[p])
    <3>1. graph.node[p].next \in Seq(Pointers)
      BY <1>1, WalkingFacts, NodeFields DEF NodeOK
    <3>2. k \in DOMAIN graph.node[p].next
      BY <1>2, <3>1
    <3> QED
      BY <1>1, <3>2 DEF ContinuationsOf, ToSet
  <2>3. Enter(graph.node[p].next[k], s, Append(stk, f))
    BY <1>2 DEF TryAlternative
  <2>4. Follows(s, s)
    BY FollowsItself
  <2> HIDE DEF f
  <2> QED
    BY <1>1, <2>1, <2>2, <2>3, <2>4, GoesOnKeeping DEF OrdinaryKinds, Kinds
<1>3. CASE ~(k <= Len(graph.node[p].next))
  BY <1>3, StandingEnds, LeaveCalls DEF TryAlternative
<1> QED
  BY <1>2, <1>3

LEMMA AlternativesCalls ==
  ASSUME Walking, MatchAlternatives \/ BackInAlternatives
  PROVE  CallsInOrder'
<1>1. CASE MatchAlternatives
  <2>1. At("Alternatives") /\ TryAlternative(node, 1, state, stack)
    BY <1>1 DEF MatchAlternatives
  <2>2. node \in NodesOf("Alternatives") /\ Standing(graph, stack, node, state, {})
    BY <2>1, HereStands DEF NodesOf
  <2>3. Settled(stack)
    BY <2>1, HereSettled DEF Walking
  <2>4. /\ stack \in Seq(Frame) /\ state \in StateType
        /\ stack # <<>> => ~Scanning(Last(stack))
    BY <2>3, WalkingFacts, SettledTop
  <2>5. 1 \in Nat \ {0}
    OBVIOUS
  <2> QED
    BY <2>1, <2>2, <2>4, <2>5, TryAlternativeCalls
<1>2. CASE BackInAlternatives
  <2>1. BackIn("Alternatives")
    BY <1>2 DEF BackInAlternatives
  <2>2. /\ Callers \in Seq(Frame)
        /\ Caller.state \in StateType
        /\ Caller.tried + 1 \in Nat \ {0}
        /\ Caller.node \in NodesOf("Alternatives")
    BY <2>1, WalkingFacts, CallerType, CallerNode, FrameStates DEF KeepingKinds
  <2>3. /\ ~WaitsForSubgraph(Caller)
        /\ Origins(Caller) = {Caller.state} /\ StatesAfter(Caller) = {}
    BY <2>1 DEF BackIn, WaitsForSubgraph, LookKinds, Origins, StatesBefore, StatesAfter
  <2>4. CASE answer
    <3>1. Leave(TRUE, state, Callers)
      BY <1>2, <2>4 DEF BackInAlternatives
    <3> QED
      BY <2>1, <2>3, <2>4, <3>1, BackContinuing, LeavesCaller
  <2>5. CASE ~answer
    <3>1. TryAlternative(Caller.node, Caller.tried + 1, Caller.state, Callers)
      BY <1>2, <2>5 DEF BackInAlternatives
    <3>2. Standing(graph, Callers, Caller.node, Caller.state, {})
      BY <2>1, <2>3, <2>5, BackContinuing
    <3> QED
      BY <2>1, <2>2, <3>1, <3>2, BelowSettled, TryAlternativeCalls
  <2> QED
    BY <2>4, <2>5
<1> QED
  BY <1>1, <1>2

LEMMA AlternativesPossessiveCalls ==
  ASSUME Walking, MatchAlternativesPossessive \/ BackInAlternativesPossessive
  PROVE  CallsInOrder'
<1>0. Follows(state, state) /\ Follows(Caller.state_copy, Caller.state_copy)
  BY FollowsItself
<1>1. CASE MatchAlternativesPossessive
  <2> DEFINE f == [kind |-> "AlternativesPossessive", node |-> node, state_copy |-> state]
  <2>1. At("AlternativesPossessive")
    BY <1>1 DEF MatchAlternativesPossessive
  <2>2. /\ node \in NodesOf("AlternativesPossessive")
        /\ Here = graph.node[node]
        /\ Here.kind = "AlternativesPossessive"
        /\ Standing(graph, stack, node, state, {})
    BY <2>1, HereStands DEF NodesOf
  <2>3. /\ f \in Frame /\ f.node = node
        /\ WaitsForSubgraph(f)
        /\ Origins(f) = {state} /\ StatesAfter(f) = {}
    BY <2>2, WalkingFacts DEF Frame, WaitsForSubgraph, Origins, StatesBefore, StatesAfter
  <2>4. Here.path0_element \in SubgraphsOf(Here)
    BY <2>2 DEF SubgraphsOf, LookKinds, LoopKinds
  <2>5. Enter(Here.path0_element, state, Append(stack, f))
    BY <1>1 DEF MatchAlternativesPossessive
  <2> HIDE DEF f
  <2> QED
    BY <1>0, <2>2, <2>3, <2>4, <2>5, WalkingFacts, GoesInto DEF OrdinaryKinds, Kinds
<1>2. CASE BackInAlternativesPossessive
  <2> DEFINE n == graph.node[Caller.node]
  <2>1. BackIn("AlternativesPossessive")
    BY <1>2 DEF BackInAlternativesPossessive
  <2>2. Caller.node \in DOMAIN graph.node /\ n.kind = "AlternativesPossessive"
    BY <2>1, WalkingFacts, CallerNode
  <2>3. /\ WaitsForSubgraph(Caller) /\ GoesOnFromEnd(Caller)
        /\ Origins(Caller) = {Caller.state_copy} /\ StatesAfter(Caller) = {}
    BY <2>1 DEF BackIn, WaitsForSubgraph, GoesOnFromEnd, LookKinds, Origins, StatesBefore,
                StatesAfter
  <2>4. n.path0_next \in ContinuationsOf(n) /\ n.path1_next \in ContinuationsOf(n)
    BY <2>2 DEF ContinuationsOf
  <2>5. /\ Standing(graph, Callers, Caller.node, Caller.state_copy, {})
        /\ answer => Standing(graph, Callers, Caller.node, state, {})
    BY <2>1, <2>3, BackWaiting
  <2>6. IF answer THEN Enter(n.path0_next, state, Callers)
                  ELSE Enter(n.path1_next, Caller.state_copy, Callers)
    BY <1>2 DEF BackInAlternativesPossessive
  <2> HIDE DEF n
  <2> QED
    BY <1>0, <2>2, <2>4, <2>5, <2>6, GoesOn DEF OrdinaryKinds, Kinds, n
<1> QED
  BY <1>1, <1>2

-----------------------------------------------------------------------------
(***************************************************************************)
(* Assertions.                                                             *)
(***************************************************************************)
LEMMA EnterLookCalls ==
  ASSUME Walking, At("LookAhead") \/ At("LookBehind"), NEW t, SameCalls(t, state), EnterLook(t)
  PROVE  CallsInOrder'
<1> DEFINE f == [kind |-> Here.kind, node |-> node, state |-> state]
<1>1. Follows(state, state)
  BY FollowsItself
<1>2. PICK kind \in LookKinds : At(kind)
  BY DEF LookKinds
<1>3. /\ node \in NodesOf(kind)
      /\ Here = graph.node[node]
      /\ Here.kind = kind
      /\ Standing(graph, stack, node, state, {})
  BY <1>2, HereStands DEF NodesOf
<1>4. /\ f \in Frame /\ f.node = node
      /\ WaitsForSubgraph(f) /\ ~GoesOnFromEnd(f)
      /\ Origins(f) = {state} /\ StatesAfter(f) = {}
  BY <1>3, WalkingFacts
     DEF Frame, KeepsState, LookKinds, WaitsForSubgraph, GoesOnFromEnd, Origins, StatesBefore, StatesAfter
<1>5. Here.look_graph \in SubgraphsOf(Here)
  BY <1>3 DEF SubgraphsOf, LookKinds, LoopKinds
<1>6. Enter(Here.look_graph, t, Append(stack, f))
  BY DEF EnterLook
<1> HIDE DEF f
<1>7. Here.kind \in OrdinaryKinds
  BY <1>3 DEF LookKinds, OrdinaryKinds, Kinds, NextKinds
<1> QED
  BY <1>1, <1>3, <1>4, <1>5, <1>6, <1>7, WalkingFacts, AsksAside

LEMMA LookCalls ==
  ASSUME Walking, MatchLookAhead \/ MatchLookBehind \/ BackInLook
  PROVE  CallsInOrder'
<1>1. /\ SameCalls(state, state) /\ Follows(state, state)
      /\ \A p : SameCalls(Moved(p), state)
  BY WalkingFacts, FollowsItself, SameCallsUpdates DEF Moved, SameCalls
<1>2. CASE MatchLookAhead
  BY <1>1, <1>2, EnterLookCalls DEF MatchLookAhead
<1>3. CASE MatchLookBehind
  <2>1. At("LookBehind")
    BY <1>3 DEF MatchLookBehind
  <2>2. \/ Enter(Here.next, state, stack)
        \/ Leave(FALSE, state, stack)
        \/ EnterLook(Moved(state.pos - Here.size))
    BY <1>3 DEF MatchLookBehind, EnterIf
  <2> QED
    BY <1>1, <2>1, <2>2, NextCalls, EnterLookCalls DEF NextKinds, OrdinaryKinds, Kinds
<1>4. CASE BackInLook
  <2> DEFINE n == graph.node[Caller.node]
  <2>1. PICK kind \in LookKinds : BackIn(kind)
    BY <1>4 DEF BackInLook, LookKinds
  <2>2. Caller.node \in DOMAIN graph.node /\ n.kind = kind
    BY <2>1, WalkingFacts, CallerNode
  <2>3. /\ WaitsForSubgraph(Caller)
        /\ Origins(Caller) = {Caller.state} /\ StatesAfter(Caller) = {}
    BY <2>1 DEF BackIn, LookKinds, WaitsForSubgraph, Origins, StatesBefore, StatesAfter
  <2>4. n.next \in ContinuationsOf(n) /\ n.kind \in OrdinaryKinds
    BY <2>2 DEF ContinuationsOf, LookKinds, OrdinaryKinds, Kinds, NextKinds
  <2>5. Standing(graph, Callers, Caller.node, Caller.state, {}) /\ Ended(graph, Callers, {})
    BY <2>1, <2>3, BackWaiting
  <2>6. Enter(n.next, Caller.state, Callers) \/ Leave(FALSE, Caller.state, Callers)
    BY <1>4 DEF BackInLook
  <2>7. Follows(Caller.state, Caller.state)
    BY FollowsItself
  <2> HIDE DEF n
  <2> QED
    BY <2>1, <2>2, <2>4, <2>5, <2>6, <2>7, GoesOn, LeavesCaller DEF n
<1> QED
  BY <1>2, <1>3, <1>4

LEMMA ConditionalElementCalls ==
  ASSUME Walking, MatchConditionalElement \/ BackInConditionalElement
  PROVE  CallsInOrder'
<1>0. Follows(state, state) /\ Follows(Caller.state, Caller.state)
  BY FollowsItself
<1>1. CASE MatchConditionalElement
  <2> DEFINE f == [kind |-> "ConditionalElement", node |-> node, state |-> state]
  <2>1. At("ConditionalElement")
    BY <1>1 DEF MatchConditionalElement
  <2>2. /\ node \in NodesOf("ConditionalElement")
        /\ Here = graph.node[node]
        /\ Here.kind = "ConditionalElement"
        /\ Standing(graph, stack, node, state, {})
    BY <2>1, HereStands DEF NodesOf
  <2>3. /\ f \in Frame /\ f.node = node
        /\ WaitsForSubgraph(f)
        /\ Origins(f) = {state} /\ StatesAfter(f) = {}
    BY <2>2, WalkingFacts
       DEF Frame, KeepsState, WaitsForSubgraph, Origins, StatesBefore, StatesAfter
  <2>4. Here.condition_node \in SubgraphsOf(Here)
    BY <2>2 DEF SubgraphsOf, LookKinds, LoopKinds
  <2>5. Enter(Here.condition_node, state, Append(stack, f))
    BY <1>1 DEF MatchConditionalElement
  <2> HIDE DEF f
  <2> QED
    BY <1>0, <2>2, <2>3, <2>4, <2>5, WalkingFacts, GoesInto DEF OrdinaryKinds, Kinds
<1>2. CASE BackInConditionalElement
  <2> DEFINE n == graph.node[Caller.node]
  <2>1. BackIn("ConditionalElement")
    BY <1>2 DEF BackInConditionalElement
  <2>2. Caller.node \in DOMAIN graph.node /\ n.kind = "ConditionalElement"
    BY <2>1, WalkingFacts, CallerNode
  <2>3. /\ WaitsForSubgraph(Caller)
        /\ Origins(Caller) = {Caller.state} /\ StatesAfter(Caller) = {}
    BY <2>1 DEF BackIn, WaitsForSubgraph, Origins, StatesBefore, StatesAfter
  <2>4. n.next_true \in ContinuationsOf(n) /\ n.next_false \in ContinuationsOf(n)
    BY <2>2 DEF ContinuationsOf
  <2>5. Standing(graph, Callers, Caller.node, Caller.state, {})
    BY <2>1, <2>3, BackWaiting
  <2>6. \/ Enter(n.next_true, Caller.state, Callers)
        \/ Enter(n.next_false, Caller.state, Callers)
    BY <1>2 DEF BackInConditionalElement
  <2> HIDE DEF n
  <2> QED
    BY <1>0, <2>2, <2>4, <2>5, <2>6, GoesOn DEF OrdinaryKinds, Kinds, n
<1> QED
  BY <1>1, <1>2

-----------------------------------------------------------------------------
(***************************************************************************)
(* Sequences.                                                              *)
(***************************************************************************)
LEMMA SequenceCounterCalls ==
  ASSUME Walking, MatchSequenceCounter \/ BackInSequenceCounter
  PROVE  CallsInOrder'
<1>1. CASE MatchSequenceCounter
  <2> DEFINE counted == WithCounter(state, Here.id, state.sequence_counters[Here.id] + 1)
             f == [kind |-> "SequenceCounter", node |-> node, state |-> counted]
             first == IF Here.greedy THEN Here.next_iteration ELSE Here.next_sequence_end
  <2>1. At("SequenceCounter")
    BY <1>1 DEF MatchSequenceCounter
  <2>2. /\ node \in NodesOf("SequenceCounter")
        /\ Here = graph.node[node]
        /\ Here.kind = "SequenceCounter"
        /\ NodeOK(Here, Pointers, Counters)
        /\ Standing(graph, stack, node, state, {})
    BY <2>1, HereStands DEF NodesOf
  <2>3. \/ Enter(Here.next_iteration, counted, stack)
        \/ Enter(Here.next_sequence_end, counted, stack)
        \/ Enter(first, counted, Append(stack, f))
    BY <1>1 DEF MatchSequenceCounter
  <2>4. Follows(counted, state) /\ Follows(counted, counted)
    BY WalkingFacts, FollowsUpdates, FollowsItself
  <2>5. /\ Here.next_iteration \in ContinuationsOf(Here)
        /\ Here.next_sequence_end \in ContinuationsOf(Here)
        /\ first \in ContinuationsOf(Here)
    BY <2>2 DEF ContinuationsOf
  <2>6. counted \in StateType
    <3>1. Here.id \in Counters
      BY <2>2 DEF NodeOK, CounterKinds
    <3>2. state.sequence_counters[Here.id] + 1 \in Nat
      BY <3>1, WalkingFacts, StateFields
    <3> QED
      BY <3>1, <3>2, WalkingFacts, StateUpdates
  <2> HIDE DEF counted, first
  <2>7. /\ f \in Frame /\ f.node = node
        /\ ~WaitsForSubgraph(f)
        /\ Origins(f) = {counted} /\ StatesAfter(f) = {}
    BY <2>2, <2>6
       DEF Frame, KeepsState, LookKinds, WaitsForSubgraph, Origins, StatesBefore, StatesAfter
  <2> HIDE DEF f
  <2>8. Here.kind \in OrdinaryKinds
    BY <2>2 DEF OrdinaryKinds, Kinds
  <2>9. CASE Enter(first, counted, Append(stack, f))
    BY <2>2, <2>4, <2>5, <2>7, <2>8, <2>9, WalkingFacts, GoesOnKeeping
  <2> QED
    BY <2>2, <2>3, <2>4, <2>5, <2>8, <2>9, GoesOn DEF NodesOf
<1>2. CASE BackInSequenceCounter
  <2> DEFINE n == graph.node[Caller.node]
  <2>1. BackIn("SequenceCounter")
    BY <1>2 DEF BackInSequenceCounter
  <2>2. Caller.node \in DOMAIN graph.node /\ n.kind = "SequenceCounter"
    BY <2>1, WalkingFacts, CallerNode
  <2>3. /\ ~WaitsForSubgraph(Caller)
        /\ Origins(Caller) = {Caller.state} /\ StatesAfter(Caller) = {}
    BY <2>1 DEF BackIn, WaitsForSubgraph, LookKinds, Origins, StatesBefore, StatesAfter
  <2>4. n.next_iteration \in ContinuationsOf(n) /\ n.next_sequence_end \in ContinuationsOf(n)
    BY <2>2 DEF ContinuationsOf
  <2>5. CASE answer
    <3>1. Leave(TRUE, state, Callers)
      BY <1>2, <2>5 DEF BackInSequenceCounter
    <3> QED
      BY <2>1, <2>3, <2>5, <3>1, BackContinuing, LeavesCaller
  <2>6. CASE ~answer
    <3>1. Standing(graph, Callers, Caller.node, Caller.state, {})
      BY <2>1, <2>3, <2>6, BackContinuing
    <3>2. \/ Enter(n.next_iteration, Caller.state, Callers)
          \/ Enter(n.next_sequence_end, Caller.state, Callers)
      BY <1>2, <2>6 DEF BackInSequenceCounter
    <3>3. Follows(Caller.state, Caller.state)
      BY FollowsItself
    <3> HIDE DEF n
    <3> QED
      BY <2>2, <2>4, <3>1, <3>2, <3>3, GoesOn DEF OrdinaryKinds, Kinds, n
  <2> QED
    BY <2>5, <2>6
<1> QED
  BY <1>1, <1>2

LEMMA PossessiveLoopCalls ==
  ASSUME Walking, NEW p \in NodesOf("PossessiveSequence"), NEW done \in Nat,
         NEW s \in StateType, NEW stk \in Seq(Frame), Standing(graph, stk, p, s, {}),
         PossessiveLoop(p, done, s, stk)
  PROVE  CallsInOrder'
<1> DEFINE n == graph.node[p]
           f == [kind |-> "PossessiveSequence", node |-> p, done |-> done, state |-> s]
<1>1. p \in DOMAIN graph.node /\ n.kind = "PossessiveSequence" /\ n.kind \in OrdinaryKinds
  BY DEF NodesOf, OrdinaryKinds, Kinds, NextKinds
<1>2. /\ f \in Frame /\ f.node = p
      /\ WaitsForSubgraph(f)
      /\ Origins(f) = {s} /\ StatesAfter(f) = {}
  BY DEF Frame, WaitsForSubgraph, Origins, StatesBefore, StatesAfter
<1>3. n.sequence_element \in SubgraphsOf(n) /\ n.next \in ContinuationsOf(n)
  BY <1>1 DEF SubgraphsOf, ContinuationsOf, LookKinds, LoopKinds
<1>4. Enter(n.sequence_element, s, Append(stk, f)) \/ Enter(n.next, s, stk)
  BY DEF PossessiveLoop
<1>5. Follows(s, s)
  BY FollowsItself
<1> HIDE DEF f
<1>6. CASE Enter(n.sequence_element, s, Append(stk, f))
  BY <1>1, <1>2, <1>3, <1>5, <1>6, GoesInto
<1> QED
  BY <1>1, <1>3, <1>4, <1>5, <1>6, GoesOn

LEMMA PossessiveSequenceCalls ==
  ASSUME Walking, MatchPossessiveSequence \/ BackInPossessiveSequence
  PROVE  CallsInOrder'
<1>1. CASE MatchPossessiveSequence
  <2>1. At("PossessiveSequence") /\ PossessiveLoop(node, 0, state, stack)
    BY <1>1 DEF MatchPossessiveSequence
  <2>2. node \in NodesOf("PossessiveSequence") /\ Standing(graph, stack, node, state, {})
    BY <2>1, HereStands DEF NodesOf
  <2> QED
    BY <2>1, <2>2, WalkingFacts, PossessiveLoopCalls
<1>2. CASE BackInPossessiveSequence
  <2> DEFINE n == graph.node[Caller.node]
  <2>1. BackIn("PossessiveSequence")
    BY <1>2 DEF BackInPossessiveSequence
  <2>2. /\ Callers \in Seq(Frame)
        /\ Caller.done + 1 \in Nat
        /\ Caller.node \in NodesOf("PossessiveSequence")
        /\ Caller.node \in DOMAIN graph.node
        /\ n.kind = "PossessiveSequence"
    BY <2>1, WalkingFacts, CallerType, CallerNode, FrameStates
  <2>3. /\ WaitsForSubgraph(Caller) /\ GoesOnFromEnd(Caller)
        /\ Origins(Caller) = {Caller.state} /\ StatesAfter(Caller) = {}
    BY <2>1 DEF BackIn, WaitsForSubgraph, GoesOnFromEnd, LookKinds, Origins, StatesBefore,
                StatesAfter
  <2>4. /\ Ended(graph, Callers, {})
        /\ Standing(graph, Callers, Caller.node, Caller.state, {})
        /\ answer => Standing(graph, Callers, Caller.node, state, {})
    BY <2>1, <2>3, BackWaiting
  <2>5. n.next \in ContinuationsOf(n) /\ n.kind \in OrdinaryKinds
    BY <2>2 DEF ContinuationsOf, OrdinaryKinds, Kinds, NextKinds
  <2>6. CASE answer
    BY <1>2, <2>2, <2>4, <2>6, WalkingFacts, PossessiveLoopCalls DEF BackInPossessiveSequence
  <2>7. CASE ~answer
    <3>1. Leave(FALSE, Caller.state, Callers) \/ Enter(n.next, Caller.state, Callers)
      BY <1>2, <2>7 DEF BackInPossessiveSequence
    <3>2. Follows(Caller.state, Caller.state)
      BY FollowsItself
    <3> HIDE DEF n
    <3> QED
      BY <2>1, <2>2, <2>4, <2>5, <3>1, <3>2, GoesOn, LeavesCaller DEF n
  <2> QED
    BY <2>6, <2>7
<1> QED
  BY <1>1, <1>2

\* The tail is tried: all that follows, with what has ended before in next_states.
LEMMA RollbackTailCalls ==
  ASSUME Walking, NEW p \in NodesOf("SingleRollbackPointSequence"), NEW s \in StateType,
         NEW S \in SUBSET StateType, NEW stk \in Seq(Frame), Standing(graph, stk, p, s, S),
         RollbackTail(p, s, S, stk)
  PROVE  CallsInOrder'
<1> DEFINE n == graph.node[p]
           f == RollbackFrame(p, TRUE, s, S)
<1>1. n.kind = "SingleRollbackPointSequence" /\ n.kind \in OrdinaryKinds
  BY DEF NodesOf, OrdinaryKinds, Kinds, NextKinds
<1>2. /\ f \in Frame /\ f.node = p
      /\ ~WaitsForSubgraph(f)
      /\ Origins(f) = {s} /\ StatesAfter(f) = S
  BY DEF RollbackFrame, Frame, WaitsForSubgraph, LookKinds, Origins, StatesBefore, StatesAfter
<1>3. n.next \in ContinuationsOf(n)
  BY <1>1 DEF ContinuationsOf
<1>4. Enter(n.next, s, Append(stk, f))
  BY DEF RollbackTail
<1>5. Follows(s, s)
  BY FollowsItself
<1> HIDE DEF f
<1> QED
  BY <1>1, <1>2, <1>3, <1>4, <1>5, GoesOnKeeping

LEMMA SingleRollbackPointSequenceCalls ==
  ASSUME Walking, MatchSingleRollbackPointSequence \/ BackInSingleRollbackPointSequence
  PROVE  CallsInOrder'
<1>1. CASE MatchSingleRollbackPointSequence
  <2>1. /\ At("SingleRollbackPointSequence")
        /\ RollbackTail(node, state, {}, stack)
    BY <1>1 DEF MatchSingleRollbackPointSequence
  <2>2. /\ node \in NodesOf("SingleRollbackPointSequence")
        /\ Standing(graph, stack, node, state, {})
    BY <2>1, HereStands DEF NodesOf
  <2>3. {} \in SUBSET StateType
    OBVIOUS
  <2> QED
    BY <2>1, <2>2, <2>3, WalkingFacts, RollbackTailCalls
<1>2. CASE BackInSingleRollbackPointSequence
  <2> DEFINE n == graph.node[Caller.node]
             p == Caller.node
  <2>1. BackIn("SingleRollbackPointSequence")
    BY <1>2 DEF BackInSingleRollbackPointSequence
  <2>2. /\ Callers \in Seq(Frame)
        /\ p \in NodesOf("SingleRollbackPointSequence")
        /\ n.kind = "SingleRollbackPointSequence"
        /\ Caller.state_copy \in StateType
        /\ Caller.next_states \in SUBSET StateType
    BY <2>1, WalkingFacts, CallerType, CallerNode, FrameStates
  <2>3. /\ WaitsForSubgraph(Caller) <=> ~Caller.in_tail
        /\ GoesOnFromEnd(Caller)
        /\ Origins(Caller) = {Caller.state_copy}
        /\ StatesAfter(Caller) = Caller.next_states
    BY <2>1 DEF BackIn, WaitsForSubgraph, GoesOnFromEnd, LookKinds, Origins, StatesBefore,
                StatesAfter
  <2>4. CASE Caller.in_tail
    <3> DEFINE states == IF answer THEN {state} ELSE Caller.next_states
               S == IF answer THEN {state} \cup StatesAfter(Caller) ELSE StatesAfter(Caller)
               f == RollbackFrame(p, FALSE, Caller.state_copy, states)
    <3>1. Standing(graph, Callers, p, Caller.state_copy, S)
      BY <2>1, <2>3, <2>4, BackContinuing
    <3>2. states \in SUBSET StateType /\ states \subseteq S
      BY <2>2, <2>3, WalkingFacts
    <3>3. Enter(n.sequence_element, Caller.state_copy, Append(Callers, f))
      BY <1>2, <2>4 DEF BackInSingleRollbackPointSequence
    <3> HIDE DEF states, S
    <3>4. /\ f \in Frame /\ f.node = p
          /\ WaitsForSubgraph(f)
          /\ Origins(f) = {Caller.state_copy} /\ StatesAfter(f) = states
      BY <2>2, <3>2 DEF RollbackFrame, Frame, WaitsForSubgraph, Origins, StatesBefore, StatesAfter
    <3>5. n.sequence_element \in SubgraphsOf(n) /\ n.kind \in OrdinaryKinds
      BY <2>2 DEF SubgraphsOf, LookKinds, LoopKinds, OrdinaryKinds, Kinds, NextKinds
    <3>6. Follows(Caller.state_copy, Caller.state_copy)
      BY FollowsItself
    <3> HIDE DEF f, p
    <3> QED
      BY <2>2, <3>1, <3>2, <3>3, <3>4, <3>5, <3>6, GoesInto DEF p
  <2>5. CASE ~Caller.in_tail /\ answer
    <3>1. RollbackTail(p, state, Caller.next_states, Callers)
      BY <1>2, <2>5 DEF BackInSingleRollbackPointSequence
    <3>2. Standing(graph, Callers, p, state, Caller.next_states)
      BY <2>1, <2>3, <2>5, BackWaiting
    <3> HIDE DEF p
    <3> QED
      BY <2>2, <3>1, <3>2, WalkingFacts, RollbackTailCalls DEF p
  <2>6. CASE ~Caller.in_tail /\ ~answer
    <3>1. Ended(graph, Callers, Caller.next_states)
      BY <2>1, <2>3, <2>6, BackWaiting
    <3>2. CASE Caller.next_states # {}
      <4>1. PICK s \in Caller.next_states : Leave(TRUE, s, Callers)
        <5>1. (CHOOSE s \in Caller.next_states : TRUE) \in Caller.next_states
          BY <3>2
        <5>2. Leave(TRUE, CHOOSE s \in Caller.next_states : TRUE, Callers)
          BY <1>2, <2>6, <3>2 DEF BackInSingleRollbackPointSequence
        <5> QED
          BY <5>1, <5>2
      <4> QED
        BY <2>1, <3>1, <4>1, LeavesCaller
    <3>3. CASE Caller.next_states = {}
      <4>1. Leave(FALSE, state, Callers)
        BY <1>2, <2>6, <3>3 DEF BackInSingleRollbackPointSequence
      <4> QED
        BY <2>1, <3>1, <4>1, LeavesCaller
    <3> QED
      BY <3>2, <3>3
  <2> QED
    BY <2>4, <2>5, <2>6
<1> QED
  BY <1>1, <1>2

\* The State a loop with a fixed element length moves, where the loop began.
LoopOrigin(s, str_initial) == [s EXCEPT !.pos = str_initial]

LEMMA LoopMoves ==
  ASSUME Walking, NEW p \in NodesOf("FixedLengthElementSequence"), NEW b \in Nat,
         NEW count \in Nat, NEW s \in StateType
  PROVE  Follows([s EXCEPT !.pos = AtElement(p, b, count)], LoopOrigin(s, b))
<1> DEFINE o == LoopOrigin(s, b)
           c == AtElement(p, b, count)
<1>1. o \in StateType /\ o.pos = b
  BY StateUpdates DEF LoopOrigin, StateType
<1>2. c \in Nat /\ b <= c
  <2>1. graph.node[p].element_length \in Nat
    BY WalkingFacts, NodeFields DEF NodesOf, NodeOK
  <2>2. count * graph.node[p].element_length \in Nat
    BY <2>1
  <2> QED
    BY <2>2 DEF AtElement
<1>3. [s EXCEPT !.pos = c] = [o EXCEPT !.pos = c]
  BY DEF LoopOrigin, StateType
<1> HIDE DEF o, c
<1>4. Follows([o EXCEPT !.pos = c], o)
  BY <1>1, <1>2, FollowsUpdates
<1> QED
  BY <1>3, <1>4 DEF o, c

LEMMA TryTailCalls ==
  ASSUME Walking, NEW p \in NodesOf("FixedLengthElementSequence"),
         NEW str_initial \in Nat, NEW count \in Nat, count >= graph.node[p].min_elements,
         NEW s \in StateType, NEW stk \in Seq(Frame),
         Standing(graph, stk, p, LoopOrigin(s, str_initial), {}),
         TryTail(p, str_initial, count, s, stk)
  PROVE  CallsInOrder'
<1> DEFINE n == graph.node[p]
           f == LoopFrame(p, FALSE, str_initial, count, s)
           o == LoopOrigin(s, str_initial)
           t == [s EXCEPT !.pos = AtElement(p, str_initial, count)]
<1>1. n.kind = "FixedLengthElementSequence" /\ n.kind \in OrdinaryKinds
  BY DEF NodesOf, OrdinaryKinds, Kinds, NextKinds
<1>2. /\ f \in Frame /\ f.node = p
      /\ ~WaitsForSubgraph(f)
      /\ Origins(f) = {o} /\ StatesAfter(f) = {}
  BY DEF LoopFrame, LoopFrames, LoopOrigin, Frame, WaitsForSubgraph, LookKinds, Origins,
         StatesAfter
<1>3. n.next \in ContinuationsOf(n)
  BY <1>1 DEF ContinuationsOf
<1>4. Enter(n.next, t, Append(stk, f))
  BY DEF TryTail
<1>5. Follows(o, o) /\ Follows(t, o) /\ Standing(graph, stk, p, o, {})
  BY FollowsItself, LoopMoves
<1> HIDE DEF f, o, t
<1> QED
  BY <1>1, <1>2, <1>3, <1>4, <1>5, GoesOnKeeping

LEMMA EndScanCalls ==
  ASSUME Walking, NEW p \in NodesOf("FixedLengthElementSequence"),
         NEW str_initial \in Nat, NEW count \in Nat,
         NEW s \in StateType, NEW stk \in Seq(Frame),
         Standing(graph, stk, p, LoopOrigin(s, str_initial), {}),
         EndScan(p, str_initial, count, s, stk), stk # <<>> => ~Scanning(Last(stk))
  PROVE  CallsInOrder'
<1>1. CASE count < graph.node[p].min_elements
  <2>1. Leave(FALSE, s, stk)
    BY <1>1 DEF EndScan
  <2>2. Ended(graph, stk, {})
    BY StandingEnds
  <2> QED
    BY <2>1, <2>2, LeaveCalls
<1>2. CASE ~(count < graph.node[p].min_elements)
  <2>1. count >= graph.node[p].min_elements
    <3>1. graph.node[p].min_elements \in Nat
      BY WalkingFacts, LoopNode
    <3> QED
      BY <1>2, <3>1
  <2>2. TryTail(p, str_initial, count, s, stk)
    BY <1>2 DEF EndScan
  <2> QED
    BY <2>1, <2>2, TryTailCalls
<1> QED
  BY <1>1, <1>2

LEMMA ScanElementCalls ==
  ASSUME Walking, NEW p \in NodesOf("FixedLengthElementSequence"),
         NEW str_initial \in Nat, NEW count \in Nat,
         NEW s \in StateType, NEW stk \in Seq(Frame),
         Standing(graph, stk, p, LoopOrigin(s, str_initial), {}),
         ScanElement(p, str_initial, count, s, stk), stk # <<>> => ~Scanning(Last(stk))
  PROVE  CallsInOrder'
<1> DEFINE n == graph.node[p]
           f == LoopFrame(p, TRUE, str_initial, count, s)
           o == LoopOrigin(s, str_initial)
           t == [s EXCEPT !.pos = AtElement(p, str_initial, count)]
<1>1. n.kind = "FixedLengthElementSequence" /\ n.kind \in OrdinaryKinds
  BY DEF NodesOf, OrdinaryKinds, Kinds, NextKinds
<1>2. /\ f \in Frame /\ f.node = p
      /\ WaitsForSubgraph(f)
      /\ Origins(f) = {o} /\ StatesAfter(f) = {}
  BY DEF LoopFrame, LoopFrames, LoopOrigin, Frame, WaitsForSubgraph, Origins, StatesAfter
<1>3. n.sequence_element \in SubgraphsOf(n)
  BY <1>1 DEF SubgraphsOf, LookKinds, LoopKinds
<1>4. Enter(n.sequence_element, t, Append(stk, f)) \/ EndScan(p, str_initial, count, s, stk)
  BY DEF ScanElement
<1>5. Follows(o, o) /\ Follows(t, o) /\ Standing(graph, stk, p, o, {})
  BY FollowsItself, LoopMoves
<1> HIDE DEF f, o, t
<1>6. CASE Enter(n.sequence_element, t, Append(stk, f))
  BY <1>1, <1>2, <1>3, <1>5, <1>6, GoesInto
<1> QED
  BY <1>4, <1>6, EndScanCalls

LEMMA StepBackCalls ==
  ASSUME Walking, NEW p \in NodesOf("FixedLengthElementSequence"),
         NEW str_initial \in Nat, NEW count \in Nat, count >= graph.node[p].min_elements,
         NEW s \in StateType, NEW stk \in Seq(Frame),
         Standing(graph, stk, p, LoopOrigin(s, str_initial), {}),
         StepBack(p, str_initial, count, s, stk), stk # <<>> => ~Scanning(Last(stk))
  PROVE  CallsInOrder'
<1> DEFINE least == graph.node[p].min_elements
<1>1. CASE count = least
  BY <1>1, StandingEnds, LeaveCalls DEF StepBack
<1>2. CASE count # least
  <2>1. count - 1 \in Nat /\ count - 1 >= least
    BY <1>2, WalkingFacts, LoopNode
  <2> QED
    BY <1>2, <2>1, TryTailCalls DEF StepBack
<1> QED
  BY <1>1, <1>2

LEMMA FixedLengthElementSequenceCalls ==
  ASSUME Walking, MatchFixedLengthElementSequence \/ BackInFixedLengthElementSequence
  PROVE  CallsInOrder'
<1>1. CASE MatchFixedLengthElementSequence
  <2>1. At("FixedLengthElementSequence") /\ ScanElement(node, state.pos, 0, state, stack)
    BY <1>1 DEF MatchFixedLengthElementSequence
  <2>2. /\ node \in NodesOf("FixedLengthElementSequence")
        /\ Standing(graph, stack, node, state, {})
    BY <2>1, HereStands DEF NodesOf
  <2>3. state.pos \in Nat
    BY WalkingFacts, StateFields
  <2>4. Settled(stack)
    BY <2>1, HereSettled DEF Walking
  <2>5. LoopOrigin(state, state.pos) = state
    BY WalkingFacts DEF LoopOrigin, StateType
  <2>6. Standing(graph, stack, node, LoopOrigin(state, state.pos), {})
    BY <2>2, <2>5
  <2> QED
    BY <2>1, <2>2, <2>3, <2>4, <2>6, WalkingFacts, SettledTop, ScanElementCalls
<1>2. CASE BackInFixedLengthElementSequence
  <2> DEFINE p == Caller.node
             b == Caller.str_initial
             o == LoopOrigin(Caller.state, b)
             least == graph.node[p].min_elements
  <2>1. BackIn("FixedLengthElementSequence")
    BY <1>2 DEF BackInFixedLengthElementSequence
  <2>2. /\ Callers \in Seq(Frame)
        /\ Caller.state \in StateType
        /\ p \in NodesOf("FixedLengthElementSequence")
    BY <2>1, WalkingFacts, CallerType, CallerNode, FrameStates DEF KeepingKinds
  <2>3. /\ b \in Nat
        /\ Caller.count \in Nat
        /\ Caller.scanning \/ Caller.count >= least
    BY <2>1, WalkingFacts, CallerType, LoopFrameFields
  <2>4. /\ WaitsForSubgraph(Caller) <=> Caller.scanning
        /\ Scanning(Caller) <=> Caller.scanning
        /\ GoesOnFromEnd(Caller)
        /\ Origins(Caller) = {o} /\ StatesAfter(Caller) = {}
    BY <2>1 DEF BackIn, Scanning, WaitsForSubgraph, GoesOnFromEnd, LookKinds, LoopOrigin,
                Origins, StatesAfter
  <2>5. Callers # <<>> => ~Scanning(Last(Callers))
    BY <2>1, BelowSettled
  <2>6. CASE Caller.scanning
    <3> DEFINE u == LoopOrigin(state, b)
    <3>1. Standing(graph, Callers, p, o, {}) /\ SameCalls(state, o)
      BY <2>1, <2>4, <2>6, BackWaiting
    <3>2. state.groups = Caller.state.groups
      <4>1. stack \in Seq(Frame) /\ stack # <<>> /\ ~Settled(stack)
        <5>1. stack \in Seq(Frame) /\ stack # <<>>
          BY <2>1, WalkingFacts DEF BackIn
        <5>2. Scanning(Last(stack))
          BY <2>4, <2>6 DEF Caller
        <5> QED
          BY <5>1, <5>2, SettledTop
      <4>2. InElement(Caller)
        BY <4>1, WalkingFacts DEF Positions, Walking, Placed
      <4> QED
        BY <4>2 DEF InElement
    <3>3. Follows(u, o)
      <4>1. /\ u.groups = o.groups /\ u.pos = o.pos /\ SameCalls(u, state)
        BY <2>2, <3>2, WalkingFacts, SameCallsUpdates DEF LoopOrigin, StateType
      <4>2. SameCalls(u, o)
        BY <3>1, <4>1 DEF SameCalls
      <4> HIDE DEF u, o
      <4> QED
        BY <4>1, <4>2, FollowsAlike
    <3>4. Standing(graph, Callers, p, u, {})
      BY <3>1, <3>3, StandingFollows
    <3>5. \/ ScanElement(p, b, Caller.count + 1, state, Callers)
          \/ EndScan(p, b, Caller.count, state, Callers)
      BY <1>2, <2>6 DEF BackInFixedLengthElementSequence
    <3>6. Caller.count + 1 \in Nat
      BY <2>3
    <3> HIDE DEF p, b, least
    <3> QED
      BY <2>2, <2>3, <2>5, <3>4, <3>5, <3>6, WalkingFacts, ScanElementCalls, EndScanCalls
  <2>7. CASE ~Caller.scanning /\ answer
    <3>1. Leave(TRUE, state, Callers)
      BY <1>2, <2>7 DEF BackInFixedLengthElementSequence
    <3> QED
      BY <2>1, <2>4, <2>7, <3>1, BackContinuing, LeavesCaller
  <2>8. CASE ~Caller.scanning /\ ~answer
    <3>1. StepBack(p, b, Caller.count, Caller.state, Callers)
      BY <1>2, <2>8 DEF BackInFixedLengthElementSequence
    <3>2. Standing(graph, Callers, p, LoopOrigin(Caller.state, b), {})
      BY <2>1, <2>4, <2>8, BackContinuing
    <3> QED
      BY <2>2, <2>3, <2>5, <2>8, <3>1, <3>2, StepBackCalls
  <2> QED
    BY <2>6, <2>7, <2>8
<1> QED
  BY <1>1, <1>2

LEMMA AtomicGroupCalls ==
  ASSUME Walking, MatchAtomicGroup \/ BackInAtomicGroup
  PROVE  CallsInOrder'
<1>0. Follows(state, state)
  BY FollowsItself
<1>1. CASE MatchAtomicGroup
  <2> DEFINE f == [kind |-> "AtomicGroup", node |-> node]
  <2>1. At("AtomicGroup")
    BY <1>1 DEF MatchAtomicGroup
  <2>2. /\ node \in NodesOf("AtomicGroup")
        /\ Here = graph.node[node]
        /\ Here.kind = "AtomicGroup"
        /\ Standing(graph, stack, node, state, {})
    BY <2>1, HereStands DEF NodesOf
  <2>3. /\ f \in Frame /\ f.node = node
        /\ WaitsForSubgraph(f)
        /\ Origins(f) = {} /\ StatesAfter(f) = {}
    BY <2>2 DEF Frame, WaitsForSubgraph, Origins, StatesBefore, StatesAfter
  <2>4. Here.group_element \in SubgraphsOf(Here)
    BY <2>2 DEF SubgraphsOf, LookKinds, LoopKinds
  <2>5. Enter(Here.group_element, state, Append(stack, f))
    BY <1>1 DEF MatchAtomicGroup
  <2>6. Here.kind \in OrdinaryKinds
    BY <2>2 DEF OrdinaryKinds, Kinds, NextKinds
  <2> HIDE DEF f
  <2> QED
    BY <1>0, <2>2, <2>3, <2>4, <2>5, <2>6, WalkingFacts, GoesInto
<1>2. CASE BackInAtomicGroup
  <2> DEFINE n == graph.node[Caller.node]
  <2>1. BackIn("AtomicGroup")
    BY <1>2 DEF BackInAtomicGroup
  <2>2. Caller.node \in DOMAIN graph.node /\ n.kind = "AtomicGroup"
    BY <2>1, WalkingFacts, CallerNode
  <2>3. WaitsForSubgraph(Caller) /\ GoesOnFromEnd(Caller) /\ StatesAfter(Caller) = {}
    BY <2>1 DEF BackIn, WaitsForSubgraph, GoesOnFromEnd, LookKinds, StatesAfter
  <2>4. n.next \in ContinuationsOf(n) /\ n.kind \in OrdinaryKinds
    BY <2>2 DEF ContinuationsOf, OrdinaryKinds, Kinds, NextKinds
  <2>5. /\ Ended(graph, Callers, {})
        /\ answer => Standing(graph, Callers, Caller.node, state, {})
    BY <2>1, <2>3, BackWaiting
  <2>6. IF answer THEN Enter(n.next, state, Callers) ELSE Leave(FALSE, state, Callers)
    BY <1>2 DEF BackInAtomicGroup
  <2> HIDE DEF n
  <2> QED
    BY <1>0, <2>1, <2>2, <2>4, <2>5, <2>6, GoesOn, LeavesCaller DEF n
<1> QED
  BY <1>1, <1>2

-----------------------------------------------------------------------------
(***************************************************************************)
(* Subroutine calls.                                                       *)
(***************************************************************************)
\* A call: one more return address, of the code the call is in.
LEMMA CalledInOrder ==
  ASSUME NEW g, WellNested(g), SavesPaired(g), NEW stk, NEW d, NEW p \in DOMAIN g.node, p # nullptr,
         g.node[p].kind = "SubroutineEnter", g.node[p].next \in PointersOf(g), NEW s, NEW b,
         b.subroutines_return_stack \in Seq(PointersOf(g)), InOrder(g, stk, d, p, s, b),
         NEW t, t.subroutines_return_stack = Append(s.subroutines_return_stack, g.node[p].next),
         t.saved_state = s.saved_state, t.groups = s.groups, t.pos = s.pos
  PROVE  InOrder(g, stk, d, g.node[p].subroutine_node, t, b)
<1> DEFINE q       == g.node[p].subroutine_node
           back    == g.node[p].next
           before  == b.subroutines_return_stack
           returns == s.subroutines_return_stack
           longer  == t.subroutines_return_stack
<1>1. /\ returns \in Seq(PointersOf(g))
      /\ before \in Seq(PointersOf(g))
      /\ CallsNested(g, p, s, b)
  BY DEF InOrder
<1>2. /\ longer \in Seq(PointersOf(g))
      /\ Len(longer) = Len(returns) + 1
      /\ longer[Len(returns) + 1] = back
      /\ \A m \in 1..Len(returns) : longer[m] = returns[m]
  BY <1>1
<1>3. /\ Len(before) <= Len(returns)
      /\ \A m \in 1..Len(before) : before[m] = returns[m]
      /\ \A j \in (Len(before) + 1)..Len(returns) :
           /\ returns[j] \notin SavingCalls(g)
           /\ returns[j] \in BodyNodes(g) <=> j > Len(before) + 1
      /\ p \in BodyNodes(g) <=> Len(returns) > Len(before)
  BY <1>1 DEF CallsNested, Starts, OpenIn
<1>4. /\ q \in BodyNodes(g)
      /\ back \in BodyNodes(g) <=> p \in BodyNodes(g)
  BY NestedNode DEF SubroutinesOf, ContinuationsOf
<1>5. /\ back \notin SavingCalls(g)
      /\ back \in Restores(g) <=> p \in SavingCalls(g)
      /\ q \notin Restores(g) \cup SavingCalls(g)
  <2>1. /\ back \in ContinuationsOf(g.node[p]) \cup SubgraphsOf(g.node[p])
                      \cup SubroutinesOf(g.node[p])
        /\ q \in ContinuationsOf(g.node[p]) \cup SubgraphsOf(g.node[p])
                   \cup SubroutinesOf(g.node[p])
    BY DEF SubroutinesOf, ContinuationsOf
  <2>2. /\ back \notin SavingCalls(g) /\ q \notin SavingCalls(g)
        /\ p \notin SavingCalls(g) => back \notin Restores(g) /\ q \notin Restores(g)
        /\ p \in SavingCalls(g) => q \notin Restores(g)
    BY <2>1, PairedNode
  <2> QED
    BY <2>2 DEF SavingCalls
<1>6. OpenIn(t, b) = (Len(before) + 1)..(Len(returns) + 1)
  BY <1>2 DEF OpenIn
<1>0. /\ Begun(t) = Begun(s)
      /\ \A u, X : Keeps(s, u, X) => Keeps(t, u, X)
      /\ \A r : ReturnsSafely(g, r, s) => ReturnsSafely(g, r, t)
      /\ BegunAt(g, q) = {}
  <2>1. Begun(t) = Begun(s)
    BY DEF Begun
  <2>2. BegunAt(g, q) = {}
    BY StoredEntry DEF BegunAt, SubroutinesOf
  <2> QED
    BY <2>1, <2>2 DEF Keeps, ReturnsSafely
<1> HIDE DEF q, back, before, returns, longer
<1>7. Len(before) \in Nat /\ Len(returns) \in Nat
  BY <1>1
<1>8. \A j \in (Len(before) + 1)..(Len(returns) + 1) :
        j \in (Len(before) + 1)..Len(returns) \/ j = Len(returns) + 1
  BY <1>7
<1>9. CallsNested(g, q, t, b)
  <2>1. \A m \in 1..Len(before) : before[m] = longer[m]
    <3>1. \A m \in 1..Len(before) : m \in 1..Len(returns)
      BY <1>3, <1>7
    <3> QED
      BY <1>2, <1>3, <3>1
  <2>2. Len(before) <= Len(longer) /\ Len(longer) > Len(before)
    BY <1>2, <1>3, <1>7
  <2>3. Starts(before, Len(before), t)
    BY <2>1, <2>2 DEF Starts, longer
  <2>4. ASSUME NEW j \in (Len(before) + 1)..(Len(returns) + 1)
        PROVE  /\ longer[j] \notin SavingCalls(g)
               /\ longer[j] \in BodyNodes(g) <=> j > Len(before) + 1
    <3>1. CASE j \in (Len(before) + 1)..Len(returns)
      <4>1. longer[j] = returns[j]
        BY <1>2, <1>7, <3>1
      <4> QED
        BY <1>3, <3>1, <4>1
    <3>2. CASE j = Len(returns) + 1
      <4>1. longer[j] = back
        BY <1>2, <3>2
      <4>2. j > Len(before) + 1 <=> Len(returns) > Len(before)
        BY <1>7, <3>2
      <4> QED
        BY <1>3, <1>4, <1>5, <4>1, <4>2
    <3> QED
      BY <1>8, <3>1, <3>2
  <2>5. q \in BodyNodes(g) <=> Len(longer) > Len(before)
    BY <1>4, <2>2
  <2> QED
    BY <1>6, <2>3, <2>4, <2>5 DEF CallsNested, before, longer
<1>10. ASSUME NEW n \in 0..Len(returns), NEW r, LinksTo(g, stk, d, s, b, n, r)
       PROVE  LinksTo(g, stk, d, t, b, n, r)
  BY <1>0, <1>2, <1>7, <1>10 DEF LinksTo, Starts, longer, returns
<1>11. LinksInnermost(g, stk, d, t, b)
  <2>1. CASE p \in SavingCalls(g)
    <3>1. p \notin Restores(g)
      BY <2>1, OrdinaryNode
    <3>2. LinksTo(g, stk, d, s, b, Len(returns), back)
      BY <2>1 DEF InOrder, returns, back
    <3>3. LinksTo(g, stk, d, t, b, (Len(returns) + 1) - 1, back)
      BY <1>7, <1>10, <3>2
    <3>4. /\ Len(returns) + 1 \in OpenIn(t, b)
          /\ ((Len(returns) + 1) + 1)..Len(longer) = {}
      BY <1>2, <1>3, <1>6, <1>7
    <3> QED
      BY <1>2, <1>5, <2>1, <3>3, <3>4 DEF LinksInnermost, longer
  <2>2. CASE p \notin SavingCalls(g)
    <3>1. p \notin Restores(g)
      BY OrdinaryNode DEF Restores
    <3>2. LinksInnermost(g, stk, d, s, b) /\ BegunAt(g, p) \subseteq Begun(s)
      BY <2>2, <3>1 DEF InOrder
    <3>0. ReturnsSafely(g, back, t)
      <4>1. BegunAt(g, back) \subseteq BegunAt(g, p) \cup StoredBy(g.node[p])
        BY StoredNext DEF BegunAt, ContinuationsOf, back
      <4>2. StoredBy(g.node[p]) = {}
        BY DEF StoredBy
      <4> QED
        BY <1>0, <1>5, <2>2, <3>2, <4>1, <4>2 DEF ReturnsSafely
    <3>3. CASE /\ \A j \in OpenIn(s, b) : ReturnsSafely(g, returns[j], s)
               /\ s.saved_state = b.saved_state
               /\ Keeps(s, b, {})
      <4>1. \A j \in OpenIn(t, b) : ReturnsSafely(g, longer[j], t)
        BY <1>0, <1>2, <1>6, <1>7, <1>8, <3>0, <3>3 DEF OpenIn, before, returns
      <4> QED
        BY <1>0, <3>3, <4>1 DEF LinksInnermost, longer
    <3>4. CASE \E j \in OpenIn(s, b) :
                 /\ returns[j] \in Restores(g)
                 /\ \A m \in (j + 1)..Len(returns) : ReturnsSafely(g, returns[m], s)
                 /\ LinksTo(g, stk, d, s, b, j - 1, returns[j])
      <4>1. PICK j \in OpenIn(s, b) :
                 /\ returns[j] \in Restores(g)
                 /\ \A m \in (j + 1)..Len(returns) : ReturnsSafely(g, returns[m], s)
                 /\ LinksTo(g, stk, d, s, b, j - 1, returns[j])
        BY <3>4
      <4>2. j \in (Len(before) + 1)..Len(returns)
        BY <4>1 DEF OpenIn, before, returns
      <4>3. j \in OpenIn(t, b) /\ longer[j] = returns[j] /\ j - 1 \in 0..Len(returns)
        BY <1>2, <1>6, <1>7, <4>2
      <4>4. LinksTo(g, stk, d, t, b, j - 1, longer[j])
        BY <1>10, <4>1, <4>3
      <4>5. \A m \in (j + 1)..Len(longer) : ReturnsSafely(g, longer[m], t)
        <5>1. \A m \in (j + 1)..Len(longer) :
                m \in (j + 1)..Len(returns) \/ m = Len(returns) + 1
          <6> DEFINE all == Len(returns)
          <6>1. all \in Nat /\ j \in Nat /\ Len(longer) = all + 1
            BY <1>2, <1>7, <4>2
          <6> HIDE DEF all
          <6>2. \A m \in (j + 1)..(all + 1) : m \in (j + 1)..all \/ m = all + 1
            BY <6>1
          <6> QED
            BY <6>1, <6>2 DEF all
        <5> QED
          BY <1>0, <1>2, <1>7, <3>0, <4>1, <4>2, <5>1
      <4> QED
        BY <4>1, <4>3, <4>4, <4>5 DEF LinksInnermost, longer
    <3> QED
      BY <3>2, <3>3, <3>4 DEF LinksInnermost, returns
  <2> QED
    BY <2>1, <2>2
<1> QED
  BY <1>0, <1>2, <1>5, <1>9, <1>11 DEF InOrder, q, longer

\* A return: to the code the last call is in, with one return address less.
LEMMA ReturnedInOrder ==
  ASSUME NEW g, WellNested(g), NEW stk, NEW d, NEW p \in BodyNodes(g),
         p \notin Restores(g) \cup SavingCalls(g), NEW s, NEW b,
         b.subroutines_return_stack \in Seq(PointersOf(g)), InOrder(g, stk, d, p, s, b),
         NEW t, t.subroutines_return_stack = Front(s.subroutines_return_stack),
         t.saved_state = s.saved_state, t.groups = s.groups, t.pos = s.pos
  PROVE  /\ s.subroutines_return_stack # <<>>
         /\ InOrder(g, stk, d, Last(s.subroutines_return_stack), t, b)
<1> DEFINE before  == b.subroutines_return_stack
           returns == s.subroutines_return_stack
           fewer   == t.subroutines_return_stack
           all     == Len(returns)
           q       == Last(returns)
<1>1. /\ returns \in Seq(PointersOf(g))
      /\ before \in Seq(PointersOf(g))
      /\ CallsNested(g, p, s, b)
      /\ LinksInnermost(g, stk, d, s, b)
  BY DEF InOrder
<1>2. /\ \A m \in 1..Len(before) : before[m] = returns[m]
      /\ \A j \in (Len(before) + 1)..all :
           /\ returns[j] \notin SavingCalls(g)
           /\ returns[j] \in BodyNodes(g) <=> j > Len(before) + 1
      /\ all > Len(before)
  BY <1>1 DEF CallsNested, Starts, OpenIn
<1>3. Len(before) \in Nat /\ all \in Nat \ {0} /\ returns # <<>>
  BY <1>1, <1>2
<1>4. /\ fewer \in Seq(PointersOf(g))
      /\ Len(fewer) = all - 1
      /\ \A m \in 1..(all - 1) : fewer[m] = returns[m]
      /\ q = returns[all]
  BY <1>1, <1>3, PoppedStack
<1>5. OpenIn(s, b) = (Len(before) + 1)..all /\ OpenIn(t, b) = (Len(before) + 1)..(all - 1)
  BY <1>4 DEF OpenIn
<1>0. /\ Begun(t) = Begun(s)
      /\ \A u, X : Keeps(s, u, X) => Keeps(t, u, X)
      /\ \A r : ReturnsSafely(g, r, s) => ReturnsSafely(g, r, t)
  <2>1. Begun(t) = Begun(s)
    BY DEF Begun
  <2> QED
    BY <2>1 DEF Keeps, ReturnsSafely
<1> HIDE DEF before, returns, fewer, all, q
<1>6. /\ all \in (Len(before) + 1)..all
      /\ \A j \in (Len(before) + 1)..(all - 1) : j \in (Len(before) + 1)..all /\ j \in 1..(all - 1)
      /\ \A m \in 1..Len(before) : m \in 1..(all - 1)
  BY <1>2, <1>3
<1>7. q \notin SavingCalls(g) /\ (q \in BodyNodes(g) <=> all - 1 > Len(before))
  BY <1>2, <1>3, <1>4, <1>6
<1>8. CallsNested(g, q, t, b)
  BY <1>2, <1>3, <1>4, <1>5, <1>6, <1>7 DEF CallsNested, Starts, before, fewer
<1>9. ASSUME NEW n \in 0..(all - 1), NEW r, LinksTo(g, stk, d, s, b, n, r)
      PROVE  LinksTo(g, stk, d, t, b, n, r)
  BY <1>0, <1>3, <1>4, <1>9 DEF LinksTo, Starts, fewer, returns
<1>10. CASE q \in Restores(g)
  <2>0. ~ReturnsSafely(g, returns[all], s)
    BY <1>4, <1>10 DEF ReturnsSafely
  <2>1. PICK j \in OpenIn(s, b) :
          /\ returns[j] \in Restores(g)
          /\ \A m \in (j + 1)..all : ReturnsSafely(g, returns[m], s)
          /\ LinksTo(g, stk, d, s, b, j - 1, returns[j])
    BY <1>1, <1>5, <1>6, <2>0 DEF LinksInnermost, returns, all
  <2>2. j = all
    <3>1. j \in (Len(before) + 1)..all
      BY <1>5, <2>1
    <3>2. all \notin (j + 1)..all
      BY <2>0, <2>1
    <3> QED
      BY <1>3, <3>1, <3>2
  <2>3. LinksTo(g, stk, d, t, b, all - 1, q)
    BY <1>3, <1>4, <1>9, <2>1, <2>2
  <2> QED
    BY <1>3, <1>4, <1>7, <1>8, <1>10, <2>3 DEF InOrder, fewer, returns, q
<1>11. CASE q \notin Restores(g)
  <2>1. LinksInnermost(g, stk, d, t, b) /\ BegunAt(g, q) \subseteq Begun(t)
    <3>1. CASE /\ \A j \in OpenIn(s, b) : ReturnsSafely(g, returns[j], s)
               /\ s.saved_state = b.saved_state
               /\ Keeps(s, b, {})
      <4>1. \A j \in OpenIn(t, b) : ReturnsSafely(g, fewer[j], t)
        BY <1>0, <1>4, <1>5, <1>6, <3>1
      <4>2. BegunAt(g, q) \subseteq Begun(t)
        BY <1>0, <1>4, <1>5, <1>6, <3>1 DEF ReturnsSafely
      <4> QED
        BY <1>0, <3>1, <4>1, <4>2 DEF LinksInnermost, fewer
    <3>2. CASE \E j \in OpenIn(s, b) :
                 /\ returns[j] \in Restores(g)
                 /\ \A m \in (j + 1)..all : ReturnsSafely(g, returns[m], s)
                 /\ LinksTo(g, stk, d, s, b, j - 1, returns[j])
      <4>1. PICK j \in OpenIn(s, b) :
                 /\ returns[j] \in Restores(g)
                 /\ \A m \in (j + 1)..all : ReturnsSafely(g, returns[m], s)
                 /\ LinksTo(g, stk, d, s, b, j - 1, returns[j])
        BY <3>2
      <4>2. j \in (Len(before) + 1)..all /\ j # all
        BY <1>4, <1>5, <1>11, <4>1
      <4>3. /\ j \in (Len(before) + 1)..(all - 1)
            /\ j - 1 \in 0..(all - 1)
            /\ \A m \in (j + 1)..(all - 1) : m \in (j + 1)..all /\ m \in 1..(all - 1)
        BY <1>3, <4>2
      <4>4. j \in OpenIn(t, b) /\ fewer[j] = returns[j]
        BY <1>4, <1>5, <1>6, <4>3
      <4>5. LinksTo(g, stk, d, t, b, j - 1, fewer[j])
        BY <1>9, <4>1, <4>3, <4>4
      <4>6. \A m \in (j + 1)..Len(fewer) : ReturnsSafely(g, fewer[m], t)
        BY <1>0, <1>4, <4>1, <4>3
      <4>7. BegunAt(g, q) \subseteq Begun(t)
        <5>1. all \in (j + 1)..all
          BY <1>3, <4>2
        <5> QED
          BY <1>0, <1>4, <4>1, <5>1 DEF ReturnsSafely
      <4> QED
        BY <4>1, <4>4, <4>5, <4>6, <4>7 DEF LinksInnermost, fewer
    <3> QED
      BY <1>1, <3>1, <3>2 DEF LinksInnermost, returns, all
  <2> QED
    BY <1>3, <1>4, <1>7, <1>8, <1>11, <2>1 DEF InOrder, fewer, returns, q
<1> QED
  BY <1>3, <1>10, <1>11 DEF q, returns

LEMMA SubroutineEnterCalls ==
  ASSUME Walking, MatchSubroutineEnter
  PROVE  CallsInOrder'
<1> DEFINE t == [state EXCEPT !.subroutines_return_stack
                                = Append(state.subroutines_return_stack, Here.next)]
<1>1. At("SubroutineEnter") /\ Enter(Here.subroutine_node, t, stack)
  BY DEF MatchSubroutineEnter
<1>2. /\ node \in DOMAIN graph.node
      /\ Here = graph.node[node]
      /\ Here.kind = "SubroutineEnter"
      /\ Here.next \in PointersOf(graph)
      /\ node # nullptr
      /\ Standing(graph, stack, node, state, {})
  BY <1>1, HereStands, OrdinaryStores DEF NodeOK, NextKinds, Pointers, PointersOf
<1>3. /\ t.subroutines_return_stack = Append(state.subroutines_return_stack, Here.next)
      /\ t.saved_state = state.saved_state
      /\ t.groups = state.groups /\ t.pos = state.pos
  BY WalkingFacts DEF StateType
<1> HIDE DEF t
<1>4. PICK lev, b : Segments(graph, stack, lev, b)
                    /\ InOrder(graph, stack, Len(stack), node, state, b)
  BY <1>2 DEF Standing
<1>5. b.subroutines_return_stack \in Seq(PointersOf(graph))
  BY <1>4 DEF Segments, IsBase
<1>6. InOrder(graph, stack, Len(stack), Here.subroutine_node, t, b)
  BY <1>2, <1>3, <1>4, <1>5, WalkingFacts, CalledInOrder
<1>7. Standing(graph, stack, Here.subroutine_node, t, {})
  BY <1>4, <1>6 DEF Standing
<1> QED
  BY <1>1, <1>7, EnterCalls

\* In a subroutine's body a call is open, so that there is somewhere to return to.
LEMMA SubroutineLeaveCalls ==
  ASSUME Walking, MatchSubroutineLeave
  PROVE  CallsInOrder'
<1> DEFINE t == [state EXCEPT !.subroutines_return_stack
                                = Front(state.subroutines_return_stack)]
<1>1. At("SubroutineLeave")
  BY DEF MatchSubroutineLeave
<1>2. /\ node \in DOMAIN graph.node
      /\ Here = graph.node[node]
      /\ Here.kind = "SubroutineLeave"
      /\ Standing(graph, stack, node, state, {})
  BY <1>1, HereStands
<1>3. node \in BodyNodes(graph) /\ node \notin Restores(graph) \cup SavingCalls(graph)
  BY <1>2, WalkingFacts, NestedNode, OrdinaryNode
<1>4. /\ t.subroutines_return_stack = Front(state.subroutines_return_stack)
      /\ t.saved_state = state.saved_state
      /\ t.groups = state.groups /\ t.pos = state.pos
  BY WalkingFacts DEF StateType
<1>5. PICK lev, b : Segments(graph, stack, lev, b)
                    /\ InOrder(graph, stack, Len(stack), node, state, b)
  BY <1>2 DEF Standing
<1>6. b.subroutines_return_stack \in Seq(PointersOf(graph))
  BY <1>5 DEF Segments, IsBase
<1> HIDE DEF t
<1>7. /\ state.subroutines_return_stack # <<>>
      /\ InOrder(graph, stack, Len(stack), Last(state.subroutines_return_stack), t, b)
  BY <1>3, <1>4, <1>5, <1>6, WalkingFacts, ReturnedInOrder
<1>8. Standing(graph, stack, Last(state.subroutines_return_stack), t, {})
  BY <1>5, <1>7 DEF Standing
<1>9. Enter(Last(state.subroutines_return_stack), t, stack)
  BY <1>7 DEF MatchSubroutineLeave, t
<1> QED
  BY <1>8, <1>9, EnterCalls

\* What a save and a restore do to the groups.
LEMMA SaveKeeps ==
  ASSUME NEW s \in StateType, NEW n, NEW link
  PROVE  Keeps(WithSave(s, n, link), s, SavedGroups(n))
<1> DEFINE t == WithSave(s, n, link)
<1>1. s.groups \in [Slots -> ViewType]
  BY StateFields
<1>2. /\ t.pos = s.pos
      /\ t.groups = Overlay(s.groups, [g \in Slots |-> NoView], n.groups_to_save)
  BY DEF WithSave, StateType
<1> HIDE DEF t
<1>3. ASSUME NEW x \in Begun(s) \ SavedGroups(n)
      PROVE  x \in Begun(t)
  <2>1. PICK g \in 1..(GroupSlots - 1) : x = <<"group", g>>
    BY <1>3 DEF Begun, KeptGroups
  <2>2. /\ g \in Slots /\ g \notin n.groups_to_save
        /\ x \in KeptGroups /\ s.groups[g].at \in 0..s.pos
    BY <1>3, <2>1 DEF Begun, SavedGroups, Slots
  <2>3. t.groups[g] = s.groups[g]
    BY <1>1, <1>2, <2>2 DEF Overlay
  <2> QED
    BY <1>2, <2>1, <2>2, <2>3 DEF Begun
<1>4. Begun(s) \ SavedGroups(n) \subseteq Begun(t)
  BY <1>3
<1> QED
  BY <1>2, <1>4 DEF Keeps, t

LEMMA RestoreKeeps ==
  ASSUME NEW s \in StateType, NEW n, NEW saved \in StateType,
         Keeps(s, saved, SavedGroups(n))
  PROVE  Keeps(WithRestored(s, n, saved), saved, {})
<1> DEFINE t == WithRestored(s, n, saved)
<1>1. s.groups \in [Slots -> ViewType]
  BY StateFields
<1>2. /\ t.pos = s.pos
      /\ t.groups = Overlay(s.groups, saved.groups, n.groups_to_save)
  BY DEF WithRestored, StateType
<1>3. 0..saved.pos \subseteq 0..s.pos /\ Begun(saved) \ SavedGroups(n) \subseteq Begun(s)
  BY DEF Keeps
<1> HIDE DEF t
<1>4. ASSUME NEW x \in Begun(saved)
      PROVE  x \in Begun(t)
  <2>1. PICK g \in 1..(GroupSlots - 1) : x = <<"group", g>>
    BY DEF Begun, KeptGroups
  <2>2. g \in Slots /\ x \in KeptGroups /\ saved.groups[g].at \in 0..s.pos
    BY <1>3, <2>1 DEF Begun, Slots
  <2>3. t.groups[g] = IF g \in n.groups_to_save THEN saved.groups[g] ELSE s.groups[g]
    BY <1>1, <1>2, <2>2 DEF Overlay
  <2>4. CASE g \in n.groups_to_save
    BY <1>2, <2>1, <2>2, <2>3, <2>4 DEF Begun
  <2>5. CASE g \notin n.groups_to_save
    <3>1. x \in Begun(s)
      BY <1>3, <2>1, <2>5 DEF SavedGroups
    <3>2. s.groups[g].at \in 0..s.pos
      BY <2>1, <3>1 DEF Begun
    <3> QED
      BY <1>2, <2>1, <2>2, <2>3, <2>5, <3>2 DEF Begun
  <2> QED
    BY <2>4, <2>5
<1>5. Begun(saved) \subseteq Begun(t)
  BY <1>4
<1> QED
  BY <1>2, <1>3, <1>5 DEF Keeps, t

\* A save: the State that goes on links to the frame that is put on the stack.
LEMMA StateSaveCalls ==
  ASSUME Walking, MatchStateSave
  PROVE  CallsInOrder'
<1> DEFINE n    == Len(stack)
           f    == [kind |-> "StateSave", node |-> node, state |-> state]
           t    == WithSave(state, Here, n + 1)
           stk2 == Append(stack, f)
           q    == Here.next
<1>1. At("StateSave") /\ Enter(q, t, stk2)
  BY DEF MatchStateSave
<1>2. /\ node \in NodesOf("StateSave")
      /\ node \in DOMAIN graph.node
      /\ Here = graph.node[node]
      /\ Here.kind = "StateSave"
      /\ Standing(graph, stack, node, state, {})
  BY <1>1, HereStands DEF NodesOf
<1>3. /\ f \in Frame /\ f.node = node /\ f.kind = "StateSave" /\ f.state = state
      /\ ~WaitsForSubgraph(f)
      /\ Origins(f) = {state} /\ StatesAfter(f) = {}
  BY <1>2, WalkingFacts
     DEF Frame, KeepsState, LookKinds, WaitsForSubgraph, Origins, StatesBefore, StatesAfter
<1>4. /\ t.subroutines_return_stack = state.subroutines_return_stack
      /\ t.saved_state = n + 1
  BY WalkingFacts DEF WithSave, StateType
<1>0. Keeps(t, state, SavedGroups(Here))
  BY WalkingFacts, SaveKeeps
<1> HIDE DEF f, t, q
<1>5. /\ n \in Nat
      /\ Len(stk2) = n + 1
      /\ stk2[n + 1] = f
  BY <1>3, WalkingFacts, PushedStack
<1>6. Standing(graph, stk2, node, state, {})
  <2>1. \A s \in Origins(f) : Follows(s, state)
    BY <1>3, FollowsItself
  <2> QED
    BY <1>2, <1>3, <2>1, WalkingFacts, OriginsCalls, PushContinuing
<1> HIDE DEF n, stk2
<1>7. PICK lev, b : Segments(graph, stk2, lev, b)
                    /\ InOrder(graph, stk2, n + 1, node, state, b)
  BY <1>5, <1>6 DEF Standing
<1>8. b.at \in 0..n
  <2>1. b.at \in 0..(n + 1) /\ (b.at # 0 => WaitsForSubgraph(stk2[b.at]))
    BY <1>5, <1>7 DEF Segments, IsBase
  <2>2. b.at # n + 1
    BY <1>3, <1>5, <2>1
  <2> QED
    BY <1>5, <2>1, <2>2
<1>9. /\ q \in SavingCalls(graph)
      /\ q \notin Restores(graph)
      /\ q \in BodyNodes(graph) <=> node \in BodyNodes(graph)
  <2>1. q \in SavingCalls(graph)
    BY <1>2, WalkingFacts, PairedNode DEF q
  <2>2. q \in ContinuationsOf(Here)
    BY <1>2 DEF ContinuationsOf, q
  <2> QED
    BY <1>2, <2>1, <2>2, WalkingFacts, NestedNode, OrdinaryNode
<1>10. /\ t.subroutines_return_stack \in Seq(PointersOf(graph))
       /\ CallsNested(graph, node, state, b)
  BY <1>4, <1>7 DEF InOrder
<1>11. CallsNested(graph, q, t, b)
  BY <1>4, <1>9, <1>10 DEF CallsNested, Starts, OpenIn
<1>12. LinksTo(graph, stk2, n + 1, t, b, Len(t.subroutines_return_stack), graph.node[q].next)
  <2>1. t.saved_state \in (b.at + 1)..(n + 1)
    BY <1>4, <1>5, <1>8
  <2>2. graph.node[stk2[n + 1].node].next = q
    BY <1>2, <1>3, <1>5 DEF q
  <2>3. Starts(state.subroutines_return_stack, Len(t.subroutines_return_stack), t)
    BY <1>4, <1>10 DEF Starts
  <2>4. Keeps(t, stk2[n + 1].state, SavedGroups(graph.node[stk2[n + 1].node]))
    BY <1>0, <1>2, <1>3, <1>5
  <2> QED
    BY <1>3, <1>4, <1>5, <2>1, <2>2, <2>3, <2>4 DEF LinksTo
<1>13. InOrder(graph, stk2, n + 1, q, t, b)
  BY <1>9, <1>10, <1>11, <1>12 DEF InOrder
<1>14. Standing(graph, stk2, q, t, {})
  BY <1>5, <1>7, <1>13 DEF Standing
<1> QED
  BY <1>1, <1>14, EnterCalls

LEMMA BackInStateSaveCalls ==
  ASSUME Walking, BackInStateSave
  PROVE  CallsInOrder'
<1>1. BackIn("StateSave") /\ Leave(answer, state, Callers)
  BY DEF BackInStateSave
<1>2. ~WaitsForSubgraph(Caller)
  BY <1>1 DEF BackIn, WaitsForSubgraph, LookKinds
<1> DEFINE S == IF answer THEN {state} \cup StatesAfter(Caller) ELSE StatesAfter(Caller)
<1>3. Ended(graph, Callers, S)
  BY <1>1, <1>2, BackContinuing
<1>4. answer => state \in S
  OBVIOUS
<1> HIDE DEF S
<1> QED
  BY <1>1, <1>3, <1>4, LeavesCaller

\* Where StateRestore finds its save.
LEMMA RestoreFinds ==
  ASSUME Walking, At("StateRestore"), NEW lev, NEW b,
         Segments(graph, stack, lev, b),
         InOrder(graph, stack, Len(stack), node, state, b)
  PROVE  LET k == state.saved_state
         IN /\ k \in (b.at + 1)..Len(stack)
            /\ k \in DOMAIN stack
            /\ stack[k].kind = "StateSave"
            /\ graph.node[graph.node[stack[k].node].next].next = node
            /\ stack[k].state.subroutines_return_stack = state.subroutines_return_stack
            /\ InOrder(graph, stack, k - 1, stack[k].node, stack[k].state, b)
            /\ Keeps(state, stack[k].state, SavedGroups(graph.node[stack[k].node]))
<1> DEFINE k == state.saved_state
           returns == state.subroutines_return_stack
<1>1. node \in Restores(graph)
  BY HereStands DEF Restores
<1>2. /\ LinksTo(graph, stack, Len(stack), state, b, Len(returns), node)
      /\ returns \in Seq(PointersOf(graph))
  BY <1>1 DEF InOrder
<1>3. b.at \in 0..Len(stack) /\ \A j \in (b.at + 1)..Len(stack) : lev[j].base = b
  BY DEF Segments, IsBase
<1>4. /\ k \in (b.at + 1)..Len(stack)
      /\ stack[k].kind = "StateSave"
      /\ graph.node[graph.node[stack[k].node].next].next = node
      /\ Starts(stack[k].state.subroutines_return_stack, Len(returns), state)
      /\ Keeps(state, stack[k].state, SavedGroups(graph.node[stack[k].node]))
  BY <1>2 DEF LinksTo
<1>5. k \in DOMAIN stack
  BY <1>3, <1>4, WalkingFacts
<1>6. FrameInOrder(graph, stack, lev, k) /\ lev[k].base = b
  BY <1>3, <1>4, <1>5 DEF Segments
<1>7. stack[k].state \in Origins(stack[k])
  BY <1>4 DEF Origins, StatesBefore
<1>8. InOrder(graph, stack, k - 1, stack[k].node, stack[k].state, b)
  BY <1>6, <1>7, FollowsInOrder DEF FrameInOrder
<1>9. stack[k].state.subroutines_return_stack = returns
  <2> DEFINE kept == stack[k].state.subroutines_return_stack
  <2>1. kept \in Seq(PointersOf(graph))
    BY <1>8 DEF InOrder
  <2>2. Len(kept) = Len(returns) /\ \A m \in 1..Len(returns) : kept[m] = returns[m]
    BY <1>4 DEF Starts
  <2>3. returns \in Seq(PointersOf(graph))
    BY <1>2
  <2> HIDE DEF returns, k, kept
  <2>4. kept = returns
    BY <2>1, <2>2, <2>3
  <2> QED
    BY <2>4 DEF kept
<1> QED
  BY <1>4, <1>5, <1>8, <1>9

LEMMA StateRestoreCalls ==
  ASSUME Walking, MatchStateRestore
  PROVE  CallsInOrder'
<1> DEFINE k     == state.saved_state
           n     == Len(stack)
           saved == stack[k].state
           t     == WithRestored(state, graph.node[stack[k].node], saved)
           q     == Here.next
<1>1. At("StateRestore") /\ Enter(q, t, stack)
  BY DEF MatchStateRestore
<1>2. /\ node \in DOMAIN graph.node
      /\ Here = graph.node[node]
      /\ Here.kind = "StateRestore"
      /\ Standing(graph, stack, node, state, {})
  BY <1>1, HereStands
<1>3. /\ t.subroutines_return_stack = state.subroutines_return_stack
      /\ t.saved_state = saved.saved_state
  BY WalkingFacts DEF WithRestored, StateType
<1>4. PICK lev, b : Segments(graph, stack, lev, b)
                    /\ InOrder(graph, stack, n, node, state, b)
  BY <1>2 DEF Standing
<1>5. /\ k \in (b.at + 1)..n
      /\ k \in DOMAIN stack
      /\ stack[k].kind = "StateSave"
      /\ saved.subroutines_return_stack = state.subroutines_return_stack
      /\ InOrder(graph, stack, k - 1, stack[k].node, saved, b)
      /\ Keeps(state, saved, SavedGroups(graph.node[stack[k].node]))
      /\ graph.node[graph.node[stack[k].node].next].next = node
  BY <1>1, <1>4, RestoreFinds
<1>6. Follows(t, saved)
  <2>1. saved \in StateType
    BY <1>5, WalkingFacts, FrameStates DEF KeepingKinds
  <2>2. Keeps(t, saved, {})
    BY <1>5, <2>1, WalkingFacts, RestoreKeeps
  <2> HIDE DEF t, saved
  <2> QED
    BY <1>3, <1>5, <2>2 DEF Follows, SameCalls
<1> HIDE DEF t, saved
<1>7. b.at \in Nat /\ n \in Nat /\ k - 1 \in Nat /\ k - 1 <= n
  <2>1. b.at \in 0..n /\ n \in Nat
    BY <1>4, WalkingFacts DEF Segments, IsBase
  <2> QED
    BY <1>5, <2>1
<1>8. InOrder(graph, stack, n, stack[k].node, t, b)
  <2>1. InOrder(graph, stack, k - 1, stack[k].node, t, b)
    BY <1>5, <1>6, FollowsInOrder
  <2> HIDE DEF k, n
  <2> QED
    BY <1>7, <2>1, InOrderBelow
<1>9. /\ stack[k].node \notin Restores(graph) \cup SavingCalls(graph)
      /\ stack[k].node \in DOMAIN graph.node
      /\ graph.node[stack[k].node].kind = "StateSave"
  <2>1. stack[k] \in Frame
    BY <1>5, WalkingFacts
  <2>2. /\ stack[k].node \in DOMAIN graph.node
        /\ graph.node[stack[k].node].kind = "StateSave"
    BY <1>5, <2>1, FrameFields
  <2> QED
    BY <2>2, OrdinaryNode
<1>10. /\ LinksInnermost(graph, stack, n, t, b)
       /\ t.subroutines_return_stack \in Seq(PointersOf(graph))
       /\ BegunAt(graph, stack[k].node) \subseteq Begun(t)
  BY <1>8, <1>9 DEF InOrder
<1>15. BegunAt(graph, q) \subseteq Begun(t)
  <2> DEFINE p == stack[k].node
             c == graph.node[p].next
  <2>1. /\ p \in DOMAIN graph.node /\ graph.node[p].kind = "StateSave"
        /\ graph.node[c].next = node
    BY <1>5, <1>9
  <2> HIDE DEF p
  <2>2. c \in DOMAIN graph.node /\ graph.node[c].kind = "SubroutineEnter"
    <3>1. c \in SavingCalls(graph)
      BY <2>1, WalkingFacts, PairedNode
    <3> QED
      BY <3>1 DEF SavingCalls
  <2>3. /\ c \in ContinuationsOf(graph.node[p])
        /\ node \in ContinuationsOf(graph.node[c])
        /\ q \in ContinuationsOf(graph.node[node])
    BY <1>2, <2>1, <2>2 DEF ContinuationsOf
  <2> HIDE DEF c, q
  <2>4. \A r \in {p, c, node} : /\ r \in DOMAIN graph.node /\ r # nullptr
                               /\ StoredBy(graph.node[r]) \cap KeptGroups = {}
    BY <1>2, <2>1, <2>2, OrdinaryStores
  <2>5. \A r \in {p, c, node} : \A v \in ContinuationsOf(graph.node[r]) :
           BegunAt(graph, v) \subseteq BegunAt(graph, r)
    BY <2>4, StoredNext DEF BegunAt
  <2>6. BegunAt(graph, p) \subseteq Begun(t)
    BY <1>10 DEF p
  <2> QED
    BY <2>3, <2>5, <2>6
<1>11. /\ q \notin Restores(graph) \cup SavingCalls(graph)
       /\ q \in BodyNodes(graph) <=> node \in BodyNodes(graph)
  <2>1. q \in ContinuationsOf(Here)
    BY <1>2 DEF ContinuationsOf
  <2>2. node \notin SavingCalls(graph)
    BY <1>2 DEF SavingCalls
  <2> QED
    BY <1>2, <2>1, <2>2, WalkingFacts, NestedNode, PairedNode
<1>12. CallsNested(graph, q, t, b)
  <2>1. CallsNested(graph, node, state, b)
    BY <1>4 DEF InOrder
  <2> HIDE DEF q
  <2> QED
    BY <1>3, <1>11, <2>1 DEF CallsNested, Starts, OpenIn
<1>13. InOrder(graph, stack, n, q, t, b)
  BY <1>10, <1>11, <1>12, <1>15 DEF InOrder
<1>14. Standing(graph, stack, q, t, {})
  BY <1>4, <1>13 DEF Standing
<1> QED
  BY <1>1, <1>14, EnterCalls

-----------------------------------------------------------------------------
(***************************************************************************)
(* Match, and the invariant.                                               *)
(***************************************************************************)
LEMMA StartAttemptCalls ==
  ASSUME TypeOK, Positions, Orderly(graph), StartAttempt
  PROVE  CallsInOrder'
<1> DEFINE s == FreshState(i)
           b == BaseOf(s, 0)
<1>1. /\ input' = input /\ pc' = "match" /\ node' = graph.root /\ state' = s
      /\ stack' = <<>>
  BY DEF StartAttempt, Positions
<1>2. /\ s.subroutines_return_stack = <<>> /\ s.saved_state = 0
      /\ b.subroutines_return_stack = <<>> /\ b.saved_state = 0 /\ b.at = 0
      /\ Follows(s, b)
  BY BaseAgrees DEF FreshState
<1> HIDE DEF b, s
<1>3. <<>> \in Seq(PointersOf(graph)) /\ Len(<<>>) = 0 /\ DOMAIN <<>> = {}
  OBVIOUS
<1>4. Segments(graph, <<>>, <<>>, b)
  BY <1>2, <1>3 DEF Segments, IsBase
<1>5. /\ graph.root \notin BodyNodes(graph) \cup Restores(graph) \cup SavingCalls(graph)
      /\ BegunAt(graph, graph.root) = {}
  BY NestedGraph, PairedRoot, StoredEntry DEF Orderly, BegunAt
<1>6. InOrder(graph, <<>>, Len(<<>>), graph.root, s, b)
  BY <1>2, <1>3, <1>5, BeginInOrder
<1>7. Standing(graph, <<>>, graph.root, s, {})
  BY <1>4, <1>6 DEF Standing
<1>8. graph' = graph
  BY <1>1 DEF graph
<1> QED
  BY <1>1, <1>7, <1>8 DEF CallsInOrder

LEMMA VisitNodeCalls ==
  ASSUME Walking, VisitNode
  PROVE  CallsInOrder'
BY MatchNullptrCalls, MatchSymbolCalls, MatchStringCalls, MatchAssertionCalls, MatchGroupStartCalls, MatchGroupEndCalls,
   MatchBackReferenceCalls, AlternativesCalls, AlternativesPossessiveCalls, LookCalls,
   ConditionalElementCalls, MatchSequenceCounterResetCalls, SequenceCounterCalls,
   PossessiveSequenceCalls, SingleRollbackPointSequenceCalls,
   FixedLengthElementSequenceCalls, AtomicGroupCalls, SubroutineEnterCalls,
   SubroutineLeaveCalls, StateSaveCalls, StateRestoreCalls
   DEF VisitNode

LEMMA ReturnToFrameCalls ==
  ASSUME Walking, ReturnToFrame
  PROVE  CallsInOrder'
BY AlternativesCalls, AlternativesPossessiveCalls, LookCalls, ConditionalElementCalls,
   SequenceCounterCalls, PossessiveSequenceCalls, SingleRollbackPointSequenceCalls,
   FixedLengthElementSequenceCalls, AtomicGroupCalls, BackInStateSaveCalls
   DEF ReturnToFrame

LEMMA StepCalls ==
  ASSUME TypeOK, LoopsExact(graph) => Positions, Orderly(graph) => CallsInOrder, [Next]_vars
  PROVE  (Orderly(graph) => CallsInOrder)'
<1>1. CASE \E c \in Inputs : Call(c)
  BY <1>1 DEF Call, CallsInOrder, TypeOK
<1>2. CASE Run
  <2> SUFFICES ASSUME Orderly(graph)'
               PROVE  CallsInOrder'
    OBVIOUS
  <2>1. UNCHANGED input
    BY <1>2, RunArguments
  <2>2. Orderly(graph) /\ Positions /\ CallsInOrder
    BY <2>1 DEF graph, Orderly
  <2>3. VisitNode \/ ReturnToFrame => Walking
    BY <1>2, <2>2, RunArguments DEF Walking, Placed, Orderly
  <2>4. CASE Search
    BY <2>2, <2>4, StartAttemptCalls
       DEF Positions, Search, SearchExhausted, AttemptMatched, AttemptFailed, CallsInOrder
  <2> QED
    BY <1>2, <2>3, <2>4, VisitNodeCalls, ReturnToFrameCalls DEF Run
<1>3. CASE UNCHANGED vars
  BY <1>3 DEF vars, CallsInOrder, Caller, Scanning, graph
<1> QED
  BY <1>1, <1>2, <1>3 DEF Next, Returned

-----------------------------------------------------------------------------
(***************************************************************************)
(* In the words of Matcher.                                                *)
(***************************************************************************)
\* A State at one of the first d frames links to none above.
LEMMA InOrderLive ==
  ASSUME stack \in Seq(Frame), NEW lev, NEW d \in 0..Len(stack), NEW p, NEW s, NEW b,
         IsBase(graph, stack, lev, d, b), InOrder(graph, stack, d, p, s, b)
  PROVE  s.saved_state = 0 \/ (s.saved_state <= d /\ s.saved_state \in LiveSaves)
<1>1. b.at \in 0..d
  BY DEF IsBase
<1>2. CASE s.saved_state = b.saved_state
  <2>1. CASE b.saved_state \in 1..(b.at - 1) /\ stack[b.saved_state].kind = "StateSave"
    <3>1. b.saved_state \in 1..Len(stack) /\ b.saved_state <= d
      BY <1>1, <2>1
    <3> QED
      BY <1>2, <2>1, <3>1 DEF LiveSaves
  <2> QED
    BY <1>2, <2>1 DEF IsBase
<1>3. CASE s.saved_state # b.saved_state
  <2>0. PICK n, q : LinksTo(graph, stack, d, s, b, n, q)
    BY <1>3 DEF InOrder, LinksInnermost
  <2>1. s.saved_state \in (b.at + 1)..d /\ stack[s.saved_state].kind = "StateSave"
    BY <2>0 DEF LinksTo
  <2>2. s.saved_state \in 1..Len(stack) /\ s.saved_state <= d
    BY <1>1, <2>1
  <2> QED
    BY <2>1, <2>2 DEF LiveSaves
<1> QED
  BY <1>2, <1>3

\* The base of the segment on top begins above the last frame that waits.
LEMMA BaseIsOuter ==
  ASSUME stack \in Seq(Frame), NEW lev, NEW b, IsBase(graph, stack, lev, Len(stack), b)
  PROVE  Outer = IF b.at = 0 THEN 0 ELSE b.at - 1
<1> DEFINE waiting == { k \in DOMAIN stack : WaitsForSubgraph(stack[k]) }
<1>1. /\ b.at \in 0..Len(stack)
      /\ \A j \in (b.at + 1)..Len(stack) : ~WaitsForSubgraph(stack[j])
      /\ b.at # 0 => WaitsForSubgraph(stack[b.at])
  BY DEF IsBase
<1>2. \A k \in waiting : k \in Nat /\ k <= b.at
  <2> TAKE k \in waiting
  <2>1. k \in 1..Len(stack) /\ k \notin (b.at + 1)..Len(stack)
    BY <1>1
  <2> QED
    BY <1>1, <2>1
<1>3. CASE b.at = 0
  <2>1. waiting = {}
    <3> SUFFICES ASSUME NEW k \in waiting
                 PROVE  FALSE
      OBVIOUS
    <3> QED
      BY <1>2, <1>3
  <2> QED
    BY <1>3, <2>1 DEF Outer
<1>4. CASE b.at # 0
  <2>1. b.at \in waiting
    BY <1>1, <1>4
  <2> HIDE DEF waiting
  <2>2. Max(waiting) = b.at
    BY <1>1, <1>2, <2>1 DEF Max
  <2>3. Outer = IF waiting = {} THEN 0 ELSE Max(waiting) - 1
    BY DEF Outer, waiting
  <2> QED
    BY <1>4, <2>1, <2>2, <2>3
<1> QED
  BY <1>3, <1>4

LEMMA EndedLive ==
  ASSUME TypeOK, NEW s, pc = "return", Ended(graph, stack, {s})
  PROVE  s.saved_state = 0 \/ (s.saved_state <= Outer /\ s.saved_state \in LiveSaves)
<1>1. stack \in Seq(Frame)
  BY DEF TypeOK
<1>2. PICK lev, b : Segments(graph, stack, lev, b) /\ SameCalls(s, b)
  BY DEF Ended, Follows
<1>3. Outer = IF b.at = 0 THEN 0 ELSE b.at - 1
  BY <1>1, <1>2, BaseIsOuter DEF Segments
<1>4. /\ b.at \in 0..Len(stack)
      /\ b.at = 0 => b.saved_state = 0
      /\ \/ b.saved_state = 0
         \/ b.saved_state \in 1..(b.at - 1) /\ stack[b.saved_state].kind = "StateSave"
  BY <1>2 DEF Segments, IsBase
<1>5. s.saved_state = b.saved_state
  BY <1>2 DEF SameCalls
<1>6. CASE b.saved_state # 0
  <2>1. b.saved_state \in 1..Len(stack) /\ b.saved_state <= Outer
    BY <1>1, <1>3, <1>4, <1>6
  <2> QED
    BY <1>1, <1>4, <1>5, <1>6, <2>1 DEF LiveSaves
<1> QED
  BY <1>5, <1>6

LEMMA SavedStateIsLive ==
  ASSUME TypeOK, CallsInOrder
  PROVE  SavedStateLive
<1>0. CASE pc \notin {"match", "return"}
  BY <1>0 DEF CallsInOrder, SavedStateLive
<1> SUFFICES ASSUME pc \in {"match", "return"}
             PROVE  SavedStateLive
  BY <1>0
<1> DEFINE live(k, depth) == k = 0 \/ (k <= depth /\ k \in LiveSaves)
<1>1. stack \in Seq(Frame) /\ Len(stack) \in 0..Len(stack)
  BY DEF TypeOK
<1>2. pc = "match" => live(state.saved_state, Len(stack))
  <2> SUFFICES ASSUME pc = "match"
               PROVE  live(state.saved_state, Len(stack))
    OBVIOUS
  <2>1. PICK lev, b : /\ Segments(graph, stack, lev, b)
                      /\ InOrder(graph, stack, Len(stack), node, state, b)
    BY DEF CallsInOrder, Standing
  <2> QED
    BY <1>1, <2>1, InOrderLive DEF Segments
<1>3. pc = "return" /\ answer => live(state.saved_state, Outer)
  BY EndedLive DEF CallsInOrder
<1>4. PICK lev, b : Segments(graph, stack, lev, b)
  BY DEF CallsInOrder, Standing, Ended
<1>5. ASSUME NEW k \in DOMAIN stack, NEW s \in StatesIn(stack[k])
      PROVE  live(s.saved_state, k - 1)
  <2>1. k - 1 \in 0..Len(stack)
    BY <1>1
  <2>2. FrameInOrder(graph, stack, lev, k)
    BY <1>4 DEF Segments
  <2>3. /\ IsBase(graph, stack, lev, k - 1, lev[k].base)
        /\ InOrder(graph, stack, k - 1, stack[k].node, lev[k], lev[k].base)
    BY <2>2 DEF FrameInOrder
  <2>4. CASE s \in StatesBefore(stack[k])
    <3>1. s.saved_state = lev[k].saved_state
      BY <2>2, <2>4 DEF FrameInOrder, SameCalls
    <3> QED
      BY <1>1, <2>1, <2>3, <3>1, InOrderLive
  <2>5. CASE s \in StatesAfter(stack[k])
    <3>1. s.saved_state = lev[k].base.saved_state
      BY <2>2, <2>5 DEF FrameInOrder, Follows, SameCalls
    <3>2. /\ lev[k].base.at \in 0..(k - 1)
          /\ \/ lev[k].base.saved_state = 0
             \/ /\ lev[k].base.saved_state \in 1..(lev[k].base.at - 1)
                /\ stack[lev[k].base.saved_state].kind = "StateSave"
      BY <2>3 DEF IsBase
    <3> DEFINE saved == lev[k].base.saved_state
    <3>3. saved # 0 => saved \in 1..Len(stack) /\ saved <= k - 1
      BY <2>1, <3>2
    <3> QED
      BY <1>1, <3>1, <3>2, <3>3 DEF LiveSaves
  <2> QED
    BY <2>4, <2>5 DEF StatesIn
<1> QED
  BY <1>2, <1>3, <1>5 DEF SavedStateLive

LEMMA RestoreFindsItsOwn ==
  ASSUME TypeOK, LoopsExact(graph) => Positions, Orderly(graph), CallsInOrder
  PROVE  RestoresItsOwnSave
<1> SUFFICES ASSUME At("StateRestore")
             PROVE  RestoresItsOwnSave
  BY DEF RestoresItsOwnSave
<1> DEFINE k    == state.saved_state
           save == graph.node[stack[k].node]
<1>1. Walking
  BY DEF Walking, Placed, Orderly, At
<1>2. /\ node \in DOMAIN graph.node
      /\ Here = graph.node[node]
      /\ Standing(graph, stack, node, state, {})
  BY <1>1, HereStands
<1>3. PICK lev, b : /\ Segments(graph, stack, lev, b)
                    /\ InOrder(graph, stack, Len(stack), node, state, b)
  BY <1>2 DEF Standing
<1>4. /\ k \in DOMAIN stack
      /\ stack[k].kind = "StateSave"
      /\ graph.node[save.next].next = node
      /\ stack[k].state.subroutines_return_stack = state.subroutines_return_stack
  BY <1>1, <1>3, RestoreFinds
<1>5. stack[k].node \in DOMAIN graph.node /\ save.kind = "StateSave"
  BY <1>1, <1>4, WalkingFacts, FrameFields
<1>6. /\ Here.groups_to_restore = save.groups_to_save
      /\ Here.sequence_counters_to_restore = save.sequence_counters_to_save
  <2> DEFINE q == stack[k].node
  <2>1. /\ SavesPaired(graph)
        /\ q \in DOMAIN graph.node /\ graph.node[q].kind = "StateSave"
        /\ graph.node[graph.node[q].next].next = node
    BY <1>1, <1>4, <1>5, WalkingFacts
  <2> HIDE DEF k, q
  <2>2. /\ graph.node[node].groups_to_restore = graph.node[q].groups_to_save
        /\ graph.node[node].sequence_counters_to_restore
             = graph.node[q].sequence_counters_to_save
    BY <2>1, PairedNode
  <2> QED
    BY <1>2, <2>2 DEF q
<1> QED
  BY <1>4, <1>6 DEF RestoresItsOwnSave, LiveSaves

LEMMA EndedBalanced ==
  ASSUME TypeOK, CallsInOrder
  PROVE  CallsBalanced
<1> SUFFICES ASSUME pc = "return", answer
             PROVE  CallsBalanced
  BY DEF CallsBalanced
<1>1. stack \in Seq(Frame)
  BY DEF TypeOK
<1>2. PICK lev, b : Segments(graph, stack, lev, b) /\ SameCalls(state, b)
  BY DEF CallsInOrder, Ended, Follows
<1>3. CASE stack = <<>>
  <2>1. b.at = 0
    BY <1>2, <1>3 DEF Segments, IsBase
  <2>2. b.subroutines_return_stack = <<>> /\ b.saved_state = 0
    BY <1>2, <2>1 DEF Segments, IsBase
  <2> QED
    BY <1>2, <1>3, <2>2 DEF SameCalls, CallsBalanced
<1>4. CASE stack # <<>>
  <2> SUFFICES ASSUME WaitsForSubgraph(Caller), NEW s \in StatesBefore(Caller)
               PROVE  SameCalls(state, s)
    BY <1>4 DEF CallsBalanced, SameCalls
  <2>1. SameCalls(s, lev[Len(stack)]) /\ SameCalls(b, lev[Len(stack)])
    BY <1>1, <1>2, <1>4, PopSegments DEF Caller
  <2> QED
    BY <1>2, <2>1 DEF SameCalls
<1> QED
  BY <1>3, <1>4

LEMMA CallsStayInOrder ==
  Spec => [](TypeOK /\ (LoopsExact(graph) => Positions) /\ (Orderly(graph) => CallsInOrder))
<1>1. Init => (LoopsExact(graph) => Positions) /\ (Orderly(graph) => CallsInOrder)
  BY DEF Init, Positions, CallsInOrder
<1>2. TypeOK /\ (LoopsExact(graph) => Positions) /\ [Next]_vars
        => (LoopsExact(graph) => Positions)'
  BY StepPosition
<1>3. TypeOK /\ (LoopsExact(graph) => Positions) /\ (Orderly(graph) => CallsInOrder)
        /\ [Next]_vars => (Orderly(graph) => CallsInOrder)'
  BY StepCalls
<1> QED
  BY <1>1, <1>2, <1>3, TypeCorrect, PTL DEF Spec

\* On a graph whose calls are nested and whose saves are paired, no State, the one
\* matched or one kept to go back to, ever links to the local of a StateSave
\* function that has returned, or that will have when the State is used.
THEOREM SavesLive == Spec => [](Orderly(graph) => SavedStateLive)
<1>1. TypeOK /\ (Orderly(graph) => CallsInOrder) => (Orderly(graph) => SavedStateLive)
  BY SavedStateIsLive
<1> QED
  BY <1>1, CallsStayInOrder, PTL

\* On such a graph StateRestore puts back what the StateSave before its own call
\* has saved, when as many calls were open as are now: no save of a call in
\* between, and none of an attempt that was given up.
THEOREM RestoresOwn == Spec => [](Orderly(graph) => RestoresItsOwnSave)
<1>1. /\ TypeOK
      /\ LoopsExact(graph) => Positions
      /\ Orderly(graph) => CallsInOrder
      => (Orderly(graph) => RestoresItsOwnSave)
  BY RestoreFindsItsOwn
<1> QED
  BY <1>1, CallsStayInOrder, PTL

\* On such a graph all calls that the contents of a look, a condition or a
\* possessive or atomic construct has made have returned, and put back what they
\* saved, when the contents has matched; so have all when the expression has.
THEOREM Balanced == Spec => [](Orderly(graph) => CallsBalanced)
<1>1. TypeOK /\ (Orderly(graph) => CallsInOrder) => (Orderly(graph) => CallsBalanced)
  BY EndedBalanced
<1> QED
  BY <1>1, CallsStayInOrder, PTL

-----------------------------------------------------------------------------
(***************************************************************************)
(* Where a group ends it has begun.                                        *)
(***************************************************************************)
LEMMA EndFindsStart ==
  ASSUME TypeOK, LoopsExact(graph) => Positions, Orderly(graph), CallsInOrder,
         StoresFirst(graph)
  PROVE  GroupEndFindsStart
<1> SUFFICES ASSUME At("GroupEnd"), GroupIsKept(Here)
             PROVE  state.groups[Here.index].at \in 0..state.pos
  BY DEF GroupEndFindsStart
<1> DEFINE x == <<"group", Here.index>>
<1>1. Walking
  BY DEF Walking, Placed, Orderly, At
<1>2. /\ node \in DOMAIN graph.node
      /\ Here = graph.node[node]
      /\ Here.kind = "GroupEnd"
      /\ Standing(graph, stack, node, state, {})
  BY <1>1, HereStands
<1>3. PICK lev, b : InOrder(graph, stack, Len(stack), node, state, b)
  BY <1>2 DEF Standing
<1>4. BegunAt(graph, node) \subseteq Begun(state)
  BY <1>2, <1>3, OrdinaryNode DEF InOrder
<1>5. x \in ReadBy(graph.node[node]) \cap KeptGroups
  BY <1>2 DEF ReadBy, KeptGroups, GroupIsKept
<1>6. ReadBy(graph.node[node]) \cap KeptGroups \subseteq BegunAt(graph, node)
  BY <1>1, <1>2, OrdinaryStores, StoredWhereRead DEF BegunAt
<1>7. x \in Begun(state)
  BY <1>4, <1>5, <1>6
<1> QED
  BY <1>7 DEF Begun

\* On a graph whose calls are nested, whose saves are paired, and where every way to
\* the end of a group goes through its beginning, every group that ends has begun, at
\* or before where it ends, whatever calls and returns there were in between.
THEOREM GroupEndsFindStarts ==
  Spec => [](Orderly(graph) /\ StoresFirst(graph) => GroupEndFindsStart)
<1>1. /\ TypeOK
      /\ LoopsExact(graph) => Positions
      /\ Orderly(graph) => CallsInOrder
      => (Orderly(graph) /\ StoresFirst(graph) => GroupEndFindsStart)
  BY EndFindsStart
<1> QED
  BY <1>1, CallsStayInOrder, PTL

-----------------------------------------------------------------------------
(***************************************************************************)
(* The groups of every State are in the string.                            *)
(***************************************************************************)
\* A group, the groups of a State, and those of all States the frames keep.
InStringView(v)   == v = NoView \/ (v.at >= 0 /\ v.size >= 0 /\ v.at + v.size <= Len(str))
GroupsInString(s) == \A g \in Slots : InStringView(s.groups[g])
StackInString(stk) ==
  \A k \in DOMAIN stk : \A s \in StatesIn(stk[k]) : GroupsInString(s)

Views == pc \in {"match", "return"} => GroupsInString(state) /\ StackInString(stack)

\* The matcher runs, and its groups have been in the string so far.
Viewing == Running /\ InString(state) /\ Views

LEMMA ViewingFacts ==
  ASSUME Viewing
  PROVE  /\ GroupsInString(state)
         /\ StackInString(stack)
         /\ state \in StateType
         /\ stack \in Seq(Frame)
         /\ InString(state)
BY RunningTypes DEF Viewing, Views, Running

LEMMA EnterViews ==
  ASSUME NEW p, NEW s, NEW stk, Enter(p, s, stk), GroupsInString(s), StackInString(stk)
  PROVE  Views'
BY DEF Enter, Views, GroupsInString, StackInString, InStringView, str

LEMMA LeaveViews ==
  ASSUME NEW a, NEW s, NEW stk, Leave(a, s, stk), GroupsInString(s), StackInString(stk)
  PROVE  Views'
BY DEF Leave, Views, GroupsInString, StackInString, InStringView, str

LEMMA PushViews ==
  ASSUME NEW stk \in Seq(Frame), NEW f, StackInString(stk),
         \A s \in StatesIn(f) : GroupsInString(s)
  PROVE  StackInString(Append(stk, f))
BY DEF StackInString

LEMMA PopViews ==
  ASSUME Viewing, NEW kind, BackIn(kind)
  PROVE  /\ StackInString(Callers)
         /\ \A s \in StatesIn(Caller) : GroupsInString(s)
<1>1. stack \in Seq(Frame) /\ stack # <<>>
  BY ViewingFacts DEF BackIn
<1> QED
  BY <1>1, ViewingFacts DEF StackInString, Callers, Caller, Front, Last

\* What leaves the groups of a State alone.
LEMMA GroupsStay ==
  ASSUME NEW s \in StateType, GroupsInString(s)
  PROVE  /\ \A p : GroupsInString([s EXCEPT !.pos = p])
         /\ \A id, n : GroupsInString(WithCounter(s, id, n))
         /\ \A r : GroupsInString([s EXCEPT !.subroutines_return_stack = r])
BY DEF GroupsInString, WithCounter, StateType

LEMMA KeptState ==
  ASSUME NEW f, f.kind \in KeepingKinds
  PROVE  StatesIn(f) = {f.state}
BY DEF StatesIn, StatesBefore, StatesAfter, KeepingKinds

\* Nodes that go on without a frame, and change no group.
LEMMA PlainViews ==
  ASSUME Viewing,
         \/ MatchNullptr \/ MatchAnySymbol \/ MatchSpecificSymbol \/ MatchOneOf \/ MatchString
         \/ MatchStringStartAssertion \/ MatchStringEndAssertion \/ MatchBackReference
         \/ MatchSequenceCounterReset \/ MatchSubroutineEnter \/ MatchSubroutineLeave
  PROVE  Views'
<1>1. /\ GroupsInString(state)
      /\ StackInString(stack)
      /\ \A p : GroupsInString(Moved(p))
      /\ \A c : GroupsInString(Extracted(c))
      /\ GroupsInString(WithCounter(state, Here.id, 0))
      /\ \A r : GroupsInString([state EXCEPT !.subroutines_return_stack = r])
  BY ViewingFacts, GroupsStay DEF Moved, Extracted
<1>2. \E p, s : (Enter(p, s, stack) \/ Leave(FALSE, s, stack) \/ Leave(TRUE, s, stack))
                /\ GroupsInString(s)
  <2>1. CASE MatchNullptr
    BY <1>1, <2>1 DEF MatchNullptr
  <2>2. CASE MatchAnySymbol \/ MatchSpecificSymbol \/ MatchOneOf
    BY <1>1, <2>2 DEF MatchAnySymbol, MatchSpecificSymbol, MatchOneOf, EnterIf
  <2>3. CASE MatchString \/ MatchBackReference
    BY <1>1, <2>3 DEF MatchString, MatchBackReference
  <2>4. CASE MatchStringStartAssertion \/ MatchStringEndAssertion
    BY <1>1, <2>4 DEF MatchStringStartAssertion, MatchStringEndAssertion, EnterIf
  <2>5. CASE MatchSequenceCounterReset
    BY <1>1, <2>5 DEF MatchSequenceCounterReset
  <2>6. CASE MatchSubroutineEnter
    BY <1>1, <2>6 DEF MatchSubroutineEnter
  <2>7. CASE MatchSubroutineLeave
    BY <1>1, <2>7 DEF MatchSubroutineLeave
  <2> QED
    BY <2>1, <2>2, <2>3, <2>4, <2>5, <2>6, <2>7
<1> QED
  BY <1>1, <1>2, EnterViews, LeaveViews

\* A group begins where the State is.
LEMMA MatchGroupStartViews ==
  ASSUME Viewing, MatchGroupStart
  PROVE  Views'
<1>1. /\ state \in StateType /\ InString(state)
      /\ GroupsInString(state) /\ StackInString(stack)
  BY ViewingFacts
<1>2. InStringView(View(state.pos, 0))
  BY <1>1, StateFields DEF InStringView, View, InString
<1>3. GroupsInString(WithGroup(state, Here.index, View(state.pos, 0)))
  BY <1>1, <1>2 DEF GroupsInString, WithGroup, StateType
<1> QED
  BY <1>1, <1>3, EnterViews DEF MatchGroupStart

\* A group ends where the State is, and has begun at or before that.
LEMMA MatchGroupEndViews ==
  ASSUME Viewing, MatchGroupEnd, GroupEndFindsStart
  PROVE  Views'
<1> DEFINE begin == state.groups[Here.index].at
           size  == Wrap(state.pos - begin)
<1>1. /\ state \in StateType /\ InString(state)
      /\ GroupsInString(state) /\ StackInString(stack)
  BY ViewingFacts
<1>2. CASE GroupIsKept(Here)
  <2>1. begin \in 0..state.pos
    BY <1>2 DEF GroupEndFindsStart, MatchGroupEnd
  <2>2. begin \in Nat /\ state.pos \in Nat /\ begin <= state.pos
    BY <1>1, <2>1, StateFields
  <2> HIDE DEF begin
  <2>3. size \in Nat /\ size <= state.pos - begin
    BY <2>2, SizeMaxAssumption DEF Wrap
  <2> HIDE DEF size
  <2>4. Len(str) \in Int /\ begin + size <= Len(str)
    BY <1>1, <2>2, <2>3, RunningTypes DEF Viewing, InString
  <2>5. InStringView(View(begin, size))
    BY <2>2, <2>3, <2>4 DEF InStringView, View
  <2>6. GroupsInString(WithGroup(state, Here.index, View(begin, size)))
    BY <1>1, <2>5 DEF GroupsInString, WithGroup, StateType
  <2> QED
    BY <1>1, <1>2, <2>6, EnterViews DEF MatchGroupEnd, begin, size
<1>3. CASE ~GroupIsKept(Here)
  BY <1>1, <1>3, EnterViews DEF MatchGroupEnd
<1> QED
  BY <1>2, <1>3

LEMMA OverlayInString ==
  ASSUME NEW f \in [Slots -> ViewType], NEW h, NEW S,
         \A g \in Slots : InStringView(f[g]) /\ InStringView(h[g])
  PROVE  \A g \in Slots : InStringView(Overlay(f, h, S)[g])
BY DEF Overlay

\* What a save puts aside, and what it puts back.
LEMMA StateSaveViews ==
  ASSUME Viewing, MatchStateSave \/ BackInStateSave
  PROVE  Views'
<1>1. CASE MatchStateSave
  <2> DEFINE f == [kind |-> "StateSave", node |-> node, state |-> state]
             t == WithSave(state, Here, Len(stack) + 1)
             empty == [g \in Slots |-> NoView]
  <2>1. /\ GroupsInString(state) /\ StackInString(stack)
        /\ state \in StateType /\ stack \in Seq(Frame)
    BY ViewingFacts
  <2>2. StatesIn(f) = {state}
    BY KeptState DEF KeepingKinds
  <2>3. t.groups = Overlay(state.groups, empty, Here.groups_to_save)
    BY <2>1 DEF WithSave, StateType
  <2>4. \A g \in Slots : InStringView(state.groups[g]) /\ InStringView(empty[g])
    BY <2>1 DEF GroupsInString, InStringView
  <2>5. Enter(Here.next, t, Append(stack, f))
    BY <1>1 DEF MatchStateSave
  <2> HIDE DEF f, t, empty
  <2>6. GroupsInString(t)
    BY <2>1, <2>3, <2>4, StateFields, OverlayInString DEF GroupsInString
  <2>7. StackInString(Append(stack, f))
    BY <2>1, <2>2, PushViews
  <2> QED
    BY <2>5, <2>6, <2>7, EnterViews
<1>2. CASE BackInStateSave
  <2>1. BackIn("StateSave") /\ Leave(answer, state, Callers)
    BY <1>2 DEF BackInStateSave
  <2> QED
    BY <2>1, ViewingFacts, PopViews, LeaveViews
<1> QED
  BY <1>1, <1>2

LEMMA MatchStateRestoreViews ==
  ASSUME Viewing, MatchStateRestore
  PROVE  Views'
<1> DEFINE k == state.saved_state
           saved == stack[k].state
           t == WithRestored(state, graph.node[stack[k].node], saved)
<1>1. /\ GroupsInString(state) /\ StackInString(stack)
      /\ state \in StateType /\ stack \in Seq(Frame)
  BY ViewingFacts
<1>2. k \in DOMAIN stack /\ stack[k].kind = "StateSave"
  BY DEF MatchStateRestore, LiveSaves
<1>3. saved \in StatesIn(stack[k])
  BY <1>2, KeptState DEF KeepingKinds
<1>4. \A g \in Slots : InStringView(state.groups[g]) /\ InStringView(saved.groups[g])
  BY <1>1, <1>2, <1>3 DEF StackInString, GroupsInString
<1>5. t.groups = Overlay(state.groups, saved.groups,
                         graph.node[stack[k].node].groups_to_save)
  BY <1>1 DEF WithRestored, StateType
<1>6. Enter(Here.next, t, stack)
  BY DEF MatchStateRestore
<1> HIDE DEF k, saved, t
<1>7. GroupsInString(t)
  BY <1>1, <1>4, <1>5, StateFields, OverlayInString DEF GroupsInString
<1> QED
  BY <1>1, <1>6, <1>7, EnterViews

\* The functions whose frames keep the State they began with, and nothing else.
LEMMA PushKeptViews ==
  ASSUME NEW stk \in Seq(Frame), NEW f, f.kind \in KeepingKinds,
         StackInString(stk), GroupsInString(f.state)
  PROVE  StackInString(Append(stk, f))
BY KeptState, PushViews

LEMMA PopKeptViews ==
  ASSUME Viewing, NEW kind \in KeepingKinds, BackIn(kind)
  PROVE  /\ StackInString(Callers)
         /\ GroupsInString(Caller.state)
         /\ Callers \in Seq(Frame)
         /\ Caller \in Frame
         /\ Caller.state \in StateType
<1>1. Caller \in Frame /\ Callers \in Seq(Frame) /\ Caller.kind = kind
  BY CallerType DEF Viewing
<1> QED
  BY <1>1, PopViews, KeptState, FrameStates

LEMMA TryAlternativeViews ==
  ASSUME NEW p, NEW k, NEW s, NEW stk \in Seq(Frame), TryAlternative(p, k, s, stk),
         GroupsInString(s), StackInString(stk)
  PROVE  Views'
<1> DEFINE f == [kind |-> "Alternatives", node |-> p, tried |-> k, state |-> s]
<1>1. StackInString(Append(stk, f))
  BY PushKeptViews DEF KeepingKinds
<1>2. \/ Enter(graph.node[p].next[k], s, Append(stk, f))
      \/ Leave(FALSE, s, stk)
  BY DEF TryAlternative
<1> HIDE DEF f
<1> QED
  BY <1>1, <1>2, EnterViews, LeaveViews

LEMMA AlternativesViews ==
  ASSUME Viewing, MatchAlternatives \/ BackInAlternatives
  PROVE  Views'
<1>1. CASE MatchAlternatives
  BY <1>1, ViewingFacts, TryAlternativeViews DEF MatchAlternatives
<1>2. CASE BackInAlternatives
  <2>1. BackIn("Alternatives")
    BY <1>2 DEF BackInAlternatives
  <2>2. /\ GroupsInString(state) /\ GroupsInString(Caller.state)
        /\ StackInString(Callers) /\ Callers \in Seq(Frame)
    BY <2>1, ViewingFacts, PopKeptViews DEF KeepingKinds
  <2>3. \/ Leave(TRUE, state, Callers)
        \/ TryAlternative(Caller.node, Caller.tried + 1, Caller.state, Callers)
    BY <1>2 DEF BackInAlternatives
  <2> QED
    BY <2>2, <2>3, LeaveViews, TryAlternativeViews
<1> QED
  BY <1>1, <1>2

LEMMA AlternativesPossessiveViews ==
  ASSUME Viewing, MatchAlternativesPossessive \/ BackInAlternativesPossessive
  PROVE  Views'
<1>1. CASE MatchAlternativesPossessive
  <2> DEFINE f == [kind |-> "AlternativesPossessive", node |-> node, state_copy |-> state]
  <2>1. StatesIn(f) = {state}
    BY DEF StatesIn, StatesBefore, StatesAfter
  <2>2. Enter(Here.path0_element, state, Append(stack, f))
    BY <1>1 DEF MatchAlternativesPossessive
  <2> HIDE DEF f
  <2>3. StackInString(Append(stack, f))
    BY <2>1, ViewingFacts, PushViews
  <2> QED
    BY <2>2, <2>3, ViewingFacts, EnterViews
<1>2. CASE BackInAlternativesPossessive
  <2>1. BackIn("AlternativesPossessive") /\ Caller.kind = "AlternativesPossessive"
    BY <1>2 DEF BackInAlternativesPossessive, BackIn
  <2>2. Caller.state_copy \in StatesIn(Caller)
    BY <2>1 DEF StatesIn, StatesBefore
  <2>3. /\ GroupsInString(state) /\ GroupsInString(Caller.state_copy)
        /\ StackInString(Callers)
    BY <2>1, <2>2, ViewingFacts, PopViews
  <2> QED
    BY <1>2, <2>3, EnterViews DEF BackInAlternativesPossessive
<1> QED
  BY <1>1, <1>2

LEMMA LookViews ==
  ASSUME Viewing, MatchLookAhead \/ MatchLookBehind \/ BackInLook
  PROVE  Views'
<1> DEFINE f == [kind |-> Here.kind, node |-> node, state |-> state]
<1>1. /\ GroupsInString(state) /\ StackInString(stack)
      /\ state \in StateType /\ stack \in Seq(Frame)
      /\ \A p : GroupsInString(Moved(p))
  BY ViewingFacts, GroupsStay DEF Moved
<1>2. CASE MatchLookAhead \/ MatchLookBehind
  <2>1. Here.kind \in KeepingKinds
    BY <1>2 DEF MatchLookAhead, MatchLookBehind, At, KeepingKinds
  <2>2. f.kind = Here.kind /\ f.state = state
    OBVIOUS
  <2>3. \/ Enter(Here.next, state, stack)
        \/ Leave(FALSE, state, stack)
        \/ \E p : Enter(Here.look_graph, Moved(p), Append(stack, f))
        \/ Enter(Here.look_graph, state, Append(stack, f))
    BY <1>2 DEF MatchLookAhead, MatchLookBehind, EnterLook, EnterIf
  <2> HIDE DEF f
  <2>4. StackInString(Append(stack, f))
    BY <1>1, <2>1, <2>2, PushKeptViews
  <2> QED
    BY <1>1, <2>3, <2>4, EnterViews, LeaveViews
<1>3. CASE BackInLook
  <2>1. StackInString(Callers) /\ GroupsInString(Caller.state)
    BY <1>3, PopKeptViews DEF BackInLook, KeepingKinds
  <2> QED
    BY <1>3, <2>1, EnterViews, LeaveViews DEF BackInLook
<1> QED
  BY <1>2, <1>3

LEMMA ConditionalElementViews ==
  ASSUME Viewing, MatchConditionalElement \/ BackInConditionalElement
  PROVE  Views'
<1>1. CASE MatchConditionalElement
  <2> DEFINE f == [kind |-> "ConditionalElement", node |-> node, state |-> state]
  <2>1. f.kind \in KeepingKinds /\ f.state = state
    BY DEF KeepingKinds
  <2>2. Enter(Here.condition_node, state, Append(stack, f))
    BY <1>1 DEF MatchConditionalElement
  <2> HIDE DEF f
  <2>3. StackInString(Append(stack, f))
    BY <2>1, ViewingFacts, PushKeptViews
  <2> QED
    BY <2>2, <2>3, ViewingFacts, EnterViews
<1>2. CASE BackInConditionalElement
  <2>1. StackInString(Callers) /\ GroupsInString(Caller.state)
    BY <1>2, PopKeptViews DEF BackInConditionalElement, KeepingKinds
  <2> QED
    BY <1>2, <2>1, EnterViews DEF BackInConditionalElement
<1> QED
  BY <1>1, <1>2

LEMMA SequenceCounterViews ==
  ASSUME Viewing, MatchSequenceCounter \/ BackInSequenceCounter
  PROVE  Views'
<1>1. CASE MatchSequenceCounter
  <2> DEFINE counted == WithCounter(state, Here.id, state.sequence_counters[Here.id] + 1)
             f == [kind |-> "SequenceCounter", node |-> node, state |-> counted]
  <2>1. GroupsInString(counted)
    BY ViewingFacts, GroupsStay
  <2>2. f.kind \in KeepingKinds /\ f.state = counted
    BY DEF KeepingKinds
  <2>3. \/ \E p : Enter(p, counted, stack)
        \/ \E p : Enter(p, counted, Append(stack, f))
    BY <1>1 DEF MatchSequenceCounter
  <2> HIDE DEF counted, f
  <2>4. StackInString(Append(stack, f))
    BY <2>1, <2>2, ViewingFacts, PushKeptViews
  <2> QED
    BY <2>1, <2>3, <2>4, ViewingFacts, EnterViews
<1>2. CASE BackInSequenceCounter
  <2>1. StackInString(Callers) /\ GroupsInString(Caller.state) /\ GroupsInString(state)
    BY <1>2, ViewingFacts, PopKeptViews DEF BackInSequenceCounter, KeepingKinds
  <2> QED
    BY <1>2, <2>1, EnterViews, LeaveViews DEF BackInSequenceCounter
<1> QED
  BY <1>1, <1>2

LEMMA PossessiveLoopViews ==
  ASSUME NEW p, NEW done, NEW s, NEW stk \in Seq(Frame), PossessiveLoop(p, done, s, stk),
         GroupsInString(s), StackInString(stk)
  PROVE  Views'
<1> DEFINE f == [kind |-> "PossessiveSequence", node |-> p, done |-> done, state |-> s]
<1>1. StackInString(Append(stk, f))
  BY PushKeptViews DEF KeepingKinds
<1>2. \/ \E q : Enter(q, s, Append(stk, f))
      \/ \E q : Enter(q, s, stk)
  BY DEF PossessiveLoop
<1> HIDE DEF f
<1> QED
  BY <1>1, <1>2, EnterViews

LEMMA PossessiveSequenceViews ==
  ASSUME Viewing, MatchPossessiveSequence \/ BackInPossessiveSequence
  PROVE  Views'
<1>1. CASE MatchPossessiveSequence
  BY <1>1, ViewingFacts, PossessiveLoopViews DEF MatchPossessiveSequence
<1>2. CASE BackInPossessiveSequence
  <2>1. BackIn("PossessiveSequence")
    BY <1>2 DEF BackInPossessiveSequence
  <2>2. /\ GroupsInString(state) /\ GroupsInString(Caller.state)
        /\ StackInString(Callers) /\ Callers \in Seq(Frame)
    BY <2>1, ViewingFacts, PopKeptViews DEF KeepingKinds
  <2>3. \/ PossessiveLoop(Caller.node, Caller.done + 1, state, Callers)
        \/ Leave(FALSE, Caller.state, Callers)
        \/ \E q : Enter(q, Caller.state, Callers)
    BY <1>2 DEF BackInPossessiveSequence
  <2> QED
    BY <2>2, <2>3, EnterViews, LeaveViews, PossessiveLoopViews
<1> QED
  BY <1>1, <1>2

LEMMA RollbackViews ==
  ASSUME NEW p, NEW in_tail, NEW s, NEW next_states, NEW stk \in Seq(Frame),
         StackInString(stk), GroupsInString(s), \A t \in next_states : GroupsInString(t)
  PROVE  StackInString(Append(stk, RollbackFrame(p, in_tail, s, next_states)))
<1> DEFINE f == RollbackFrame(p, in_tail, s, next_states)
<1>1. StatesIn(f) = {s} \cup next_states
  BY DEF RollbackFrame, StatesIn, StatesBefore, StatesAfter
<1> HIDE DEF f
<1>2. StackInString(Append(stk, f))
  BY <1>1, PushViews
<1> QED
  BY <1>2 DEF f

LEMMA SingleRollbackPointSequenceViews ==
  ASSUME Viewing, MatchSingleRollbackPointSequence \/ BackInSingleRollbackPointSequence
  PROVE  Views'
<1>1. CASE MatchSingleRollbackPointSequence
  <2>1. StackInString(Append(stack, RollbackFrame(node, TRUE, state, {})))
    BY ViewingFacts, RollbackViews
  <2> QED
    BY <1>1, <2>1, ViewingFacts, EnterViews
       DEF MatchSingleRollbackPointSequence, RollbackTail
<1>2. CASE BackInSingleRollbackPointSequence
  <2>1. BackIn("SingleRollbackPointSequence")
    BY <1>2 DEF BackInSingleRollbackPointSequence
  <2>2. Caller.kind = "SingleRollbackPointSequence" /\ Callers \in Seq(Frame)
    BY <2>1, CallerType DEF Viewing
  <2>3. StatesIn(Caller) = {Caller.state_copy} \cup Caller.next_states
    BY <2>2 DEF StatesIn, StatesBefore, StatesAfter
  <2>4. /\ GroupsInString(state) /\ GroupsInString(Caller.state_copy)
        /\ \A t \in Caller.next_states : GroupsInString(t)
        /\ StackInString(Callers)
    BY <2>1, <2>3, ViewingFacts, PopViews
  <2>5. CASE Caller.in_tail
    <3> DEFINE kept == IF answer THEN {state} ELSE Caller.next_states
    <3>1. \A t \in kept : GroupsInString(t)
      BY <2>4
    <3>2. Enter(graph.node[Caller.node].sequence_element, Caller.state_copy,
                Append(Callers, RollbackFrame(Caller.node, FALSE, Caller.state_copy, kept)))
      BY <1>2, <2>5 DEF BackInSingleRollbackPointSequence
    <3> HIDE DEF kept
    <3>3. StackInString(Append(Callers,
                          RollbackFrame(Caller.node, FALSE, Caller.state_copy, kept)))
      BY <2>2, <2>4, <3>1, RollbackViews
    <3> QED
      BY <2>4, <3>2, <3>3, EnterViews
  <2>6. CASE ~Caller.in_tail
    <3>1. StackInString(Append(Callers,
                          RollbackFrame(Caller.node, TRUE, state, Caller.next_states)))
      BY <2>2, <2>4, RollbackViews
    <3>2. Caller.next_states # {} =>
            (CHOOSE s \in Caller.next_states : TRUE) \in Caller.next_states
      OBVIOUS
    <3>3. \/ RollbackTail(Caller.node, state, Caller.next_states, Callers)
          \/ /\ Caller.next_states # {}
             /\ Leave(TRUE, CHOOSE s \in Caller.next_states : TRUE, Callers)
          \/ Leave(FALSE, state, Callers)
      BY <1>2, <2>6 DEF BackInSingleRollbackPointSequence
    <3> QED
      BY <2>4, <3>1, <3>2, <3>3, EnterViews, LeaveViews DEF RollbackTail
  <2> QED
    BY <2>5, <2>6
<1> QED
  BY <1>1, <1>2

\* The loop of fixed length moves its State, and nothing else of it.
LEMMA LoopViews ==
  ASSUME NEW p, NEW b, NEW n, NEW s \in StateType, NEW stk \in Seq(Frame),
         GroupsInString(s), StackInString(stk),
         \/ ScanElement(p, b, n, s, stk)
         \/ EndScan(p, b, n, s, stk)
         \/ StepBack(p, b, n, s, stk)
  PROVE  Views'
<1>1. \A m : GroupsInString([s EXCEPT !.pos = AtElement(p, b, m)])
  BY GroupsStay
<1>2. ASSUME NEW scanning, NEW m
      PROVE  StackInString(Append(stk, LoopFrame(p, scanning, b, m, s)))
  <2> DEFINE f == LoopFrame(p, scanning, b, m, s)
  <2>1. f.kind \in KeepingKinds /\ f.state = s
    BY DEF LoopFrame, KeepingKinds
  <2> HIDE DEF f
  <2>2. StackInString(Append(stk, f))
    BY <2>1, PushKeptViews
  <2> QED
    BY <2>2 DEF f
<1>3. \/ Leave(FALSE, s, stk)
      \/ \E q, scanning, m :
           Enter(q, [s EXCEPT !.pos = AtElement(p, b, m)],
                 Append(stk, LoopFrame(p, scanning, b, m, s)))
  BY DEF ScanElement, EndScan, StepBack, TryTail
<1> QED
  BY <1>1, <1>2, <1>3, EnterViews, LeaveViews

LEMMA FixedLengthElementSequenceViews ==
  ASSUME Viewing, MatchFixedLengthElementSequence \/ BackInFixedLengthElementSequence
  PROVE  Views'
<1>1. CASE MatchFixedLengthElementSequence
  BY <1>1, ViewingFacts, LoopViews DEF MatchFixedLengthElementSequence
<1>2. CASE BackInFixedLengthElementSequence
  <2>1. BackIn("FixedLengthElementSequence")
    BY <1>2 DEF BackInFixedLengthElementSequence
  <2>2. /\ GroupsInString(state) /\ state \in StateType
        /\ GroupsInString(Caller.state) /\ Caller.state \in StateType
        /\ StackInString(Callers) /\ Callers \in Seq(Frame)
    BY <2>1, ViewingFacts, PopKeptViews DEF KeepingKinds
  <2>3. \/ Leave(TRUE, state, Callers)
        \/ \E p, b, n, s : /\ s \in {state, Caller.state}
                           /\ \/ ScanElement(p, b, n, s, Callers)
                              \/ EndScan(p, b, n, s, Callers)
                              \/ StepBack(p, b, n, s, Callers)
    BY <1>2 DEF BackInFixedLengthElementSequence
  <2> QED
    BY <2>2, <2>3, LeaveViews, LoopViews
<1> QED
  BY <1>1, <1>2

LEMMA AtomicGroupViews ==
  ASSUME Viewing, MatchAtomicGroup \/ BackInAtomicGroup
  PROVE  Views'
<1>1. CASE MatchAtomicGroup
  <2> DEFINE f == [kind |-> "AtomicGroup", node |-> node]
  <2>1. StatesIn(f) = {}
    BY DEF StatesIn, StatesBefore, StatesAfter
  <2>2. Enter(Here.group_element, state, Append(stack, f))
    BY <1>1 DEF MatchAtomicGroup
  <2> HIDE DEF f
  <2>3. StackInString(Append(stack, f))
    BY <2>1, ViewingFacts, PushViews
  <2> QED
    BY <2>2, <2>3, ViewingFacts, EnterViews
<1>2. CASE BackInAtomicGroup
  <2>1. StackInString(Callers) /\ GroupsInString(state)
    BY <1>2, ViewingFacts, PopViews DEF BackInAtomicGroup
  <2> QED
    BY <1>2, <2>1, EnterViews, LeaveViews DEF BackInAtomicGroup
<1> QED
  BY <1>1, <1>2

LEMMA VisitNodeViews ==
  ASSUME Viewing, GroupEndFindsStart, VisitNode
  PROVE  Views'
BY PlainViews, MatchGroupStartViews, MatchGroupEndViews, AlternativesViews,
   AlternativesPossessiveViews, LookViews, ConditionalElementViews, SequenceCounterViews,
   PossessiveSequenceViews, SingleRollbackPointSequenceViews,
   FixedLengthElementSequenceViews, AtomicGroupViews, StateSaveViews, MatchStateRestoreViews
   DEF VisitNode

LEMMA ReturnToFrameViews ==
  ASSUME Viewing, ReturnToFrame
  PROVE  Views'
BY AlternativesViews, AlternativesPossessiveViews, LookViews, ConditionalElementViews,
   SequenceCounterViews, PossessiveSequenceViews, SingleRollbackPointSequenceViews,
   FixedLengthElementSequenceViews, AtomicGroupViews, StateSaveViews
   DEF ReturnToFrame

LEMMA StartAttemptViews ==
  ASSUME Positions, StartAttempt
  PROVE  Views'
<1>1. input' = input /\ state' = FreshState(i) /\ stack' = <<>>
  BY DEF StartAttempt, Positions
<1>2. GroupsInString(FreshState(i))
  BY DEF GroupsInString, InStringView, FreshState
<1>3. StackInString(<<>>)
  BY DEF StackInString
<1> QED
  BY <1>1, <1>2, <1>3 DEF Views, GroupsInString, StackInString, InStringView, str

\* The groups of a graph where every group that ends has begun.
Viewable(g) == Orderly(g) /\ StoresFirst(g)

LEMMA StepViews ==
  ASSUME TypeOK, LoopsExact(graph) => Positions, Orderly(graph) => CallsInOrder,
         Viewable(graph) => Views, [Next]_vars
  PROVE  (Viewable(graph) => Views)'
<1>1. CASE \E c \in Inputs : Call(c)
  BY <1>1 DEF Call, Views
<1>2. CASE Run
  <2> SUFFICES ASSUME Viewable(graph)'
               PROVE  Views'
    OBVIOUS
  <2>1. UNCHANGED input
    BY <1>2, RunArguments
  <2>2. Viewable(graph)
    BY <2>1 DEF graph
  <2>3. Positions /\ Views /\ GroupEndFindsStart
    BY <2>2, EndFindsStart DEF Viewable, Orderly
  <2>4. VisitNode \/ ReturnToFrame => Viewing
    BY <1>2, <2>3, RunArguments DEF Viewing, Running, Positions
  <2>5. CASE Search
    BY <2>3, <2>5, StartAttemptViews
       DEF Search, SearchExhausted, AttemptMatched, AttemptFailed, Views
  <2> QED
    BY <1>2, <2>3, <2>4, <2>5, VisitNodeViews, ReturnToFrameViews DEF Run
<1>3. CASE UNCHANGED vars
  BY <1>3 DEF vars, Views, GroupsInString, StackInString, InStringView, graph, str
<1> QED
  BY <1>1, <1>2, <1>3 DEF Next, Returned

LEMMA ViewsMean ==
  ASSUME TypeOK, Positions, Views
  PROVE  StatesInString
<1>1. PositionsInString
  BY PositionsMean
<1>2. ASSUME pc \in {"match", "return"}, NEW s \in StatesInUse
      PROVE  GroupsInString(s)
  BY <1>2 DEF StatesInUse, Views, StackInString
<1>3. ViewsInString
  BY <1>2 DEF ViewsInString, GroupsInString, InStringView
<1> QED
  BY <1>1, <1>3 DEF StatesInString

\* On such a graph no State points outside the string: not the one matched and none
\* that is gone back to, neither with the rest it has to match nor with one of its groups.
THEOREM StatesStayInString ==
  Spec => [](Orderly(graph) /\ StoresFirst(graph) => StatesInString)
<1>1. Init => (Viewable(graph) => Views)
  BY DEF Init, Views
<1>2. TypeOK /\ (LoopsExact(graph) => Positions) /\ (Orderly(graph) => CallsInOrder)
        /\ (Viewable(graph) => Views) /\ [Next]_vars => (Viewable(graph) => Views)'
  BY StepViews
<1>3. TypeOK /\ (LoopsExact(graph) => Positions) /\ (Viewable(graph) => Views)
        => (Orderly(graph) /\ StoresFirst(graph) => StatesInString)
  BY ViewsMean DEF Viewable, Orderly
<1> QED
  BY <1>1, <1>2, <1>3, CallsStayInOrder, PTL DEF Spec

=============================================================================
