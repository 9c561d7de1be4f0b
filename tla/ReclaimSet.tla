----------------------------- MODULE ReclaimSet -----------------------------
(***************************************************************************)
(* The B-tree behind pgalloc.reclaimSet (pkg/sentry/pgalloc/reclaim_set.go,*)
(* generated from pkg/segment). A node holds up to 2*minDegree-1 ranges    *)
(* (keys) and, if it has children, one more child than keys; every node    *)
(* records its parent and its index in the parent's children.             *)
(*                                                                         *)
(* Go's fixed arrays with nrSegments become sequences of the live entries  *)
(* (keys[i] is keys[i+1] here); pointers become node identifiers, with the *)
(* embedded s.root fixed as Root. Values are omitted: reclaimSetValue is   *)
(* an empty struct, reclaimSetFunctions.Merge always succeeds and Split    *)
(* returns empty values. trackGaps is 0, so every maxGap update is dead    *)
(* code and is left out. A node that no pointer reaches any more is free.  *)
(*                                                                         *)
(* Each method is an operator from the node table to the new table (and    *)
(* the iterator it returns); each public method is one atomic step, since  *)
(* the Set is thread-compatible and its caller serialises calls.          *)
(***************************************************************************)
EXTENDS Integers, Sequences, FiniteSets

CONSTANTS
  MinDegree,     \* reclaimminDegree (10 in the build)
  MinKey,        \* reclaimSetFunctions.MinKey, scaled down
  MaxKey,        \* reclaimSetFunctions.MaxKey, scaled down
  NodeCap,       \* node identifiers available
  MaxLen,        \* longest range a caller passes
  Ops            \* the public methods the caller uses

ASSUME MinDegree >= 3

LOCAL Seqs == INSTANCE SequencesExt

VARIABLES
  nodes,  \* the B-tree: node id -> node
  call    \* the last method call and its arguments (history, read by no action)

MaxDegree == 2 * MinDegree
Ids == 0..(NodeCap - 1)
Root == 0
Nil == -1

Start(r) == r[1]
End(r) == r[2]
Ranges == {<<s, e>> \in (MinKey..MaxKey) \X (MinKey..MaxKey) : s < e}
(* The ranges callers pass to the methods. *)
Inputs == {r \in Ranges : r[2] - r[1] <= MaxLen}
CanSplitAt(r, k) == Start(r) < k /\ k < End(r)

FreeNode == [live |-> FALSE, keys |-> <<>>, children |-> <<>>,
             parent |-> Nil, pidx |-> 0, hasChildren |-> FALSE]

(* Iterators and gap iterators: a node and an index; node Nil is terminal. *)
It(n, i) == [node |-> n, index |-> i]
Terminal == It(Nil, 0)
Ok(it) == it.node # Nil

Nr(N, n) == Len(N[n].keys)
Key(N, seg) == N[seg.node].keys[seg.index + 1]
Child(N, n, i) == N[n].children[i + 1]

-----------------------------------------------------------------------------
(* Navigation: node.firstSegment/lastSegment, prevSibling/nextSibling,     *)
(* segmentBeforePosition/AfterPosition and the iterator methods.           *)

RECURSIVE firstSegment(_, _)
firstSegment(N, n) ==
  IF N[n].hasChildren THEN firstSegment(N, Child(N, n, 0)) ELSE It(n, 0)

RECURSIVE lastSegment(_, _)
lastSegment(N, n) ==
  IF N[n].hasChildren THEN lastSegment(N, Child(N, n, Nr(N, n))) ELSE It(n, Nr(N, n) - 1)

prevSibling(N, n) ==
  IF N[n].parent = Nil \/ N[n].pidx = 0 THEN Nil
  ELSE Child(N, N[n].parent, N[n].pidx - 1)

nextSibling(N, n) ==
  IF N[n].parent = Nil \/ N[n].pidx = Nr(N, N[n].parent) THEN Nil
  ELSE Child(N, N[n].parent, N[n].pidx + 1)

RECURSIVE segmentBeforePosition(_, _, _)
segmentBeforePosition(N, n, i) ==
  IF i # 0 THEN It(n, i - 1)
  ELSE IF N[n].parent = Nil THEN Terminal
  ELSE segmentBeforePosition(N, N[n].parent, N[n].pidx)

RECURSIVE segmentAfterPosition(_, _, _)
segmentAfterPosition(N, n, i) ==
  IF i # Nr(N, n) THEN It(n, i)
  ELSE IF N[n].parent = Nil THEN Terminal
  ELSE segmentAfterPosition(N, N[n].parent, N[n].pidx)

PrevSegment(N, seg) ==
  CASE N[seg.node].hasChildren -> lastSegment(N, Child(N, seg.node, seg.index))
    [] seg.index > 0 -> It(seg.node, seg.index - 1)
    [] N[seg.node].parent = Nil -> Terminal
    [] OTHER -> segmentBeforePosition(N, N[seg.node].parent, N[seg.node].pidx)

NextSegment(N, seg) ==
  CASE N[seg.node].hasChildren -> firstSegment(N, Child(N, seg.node, seg.index + 1))
    [] seg.index < Nr(N, seg.node) - 1 -> It(seg.node, seg.index + 1)
    [] N[seg.node].parent = Nil -> Terminal
    [] OTHER -> segmentAfterPosition(N, N[seg.node].parent, N[seg.node].pidx)

(* seg.PrevGap / seg.NextGap: an internal segment's gaps live in the      *)
(* neighbouring leaf.                                                      *)
PrevGap(N, seg) ==
  IF N[seg.node].hasChildren
    THEN LET l == lastSegment(N, Child(N, seg.node, seg.index)) IN It(l.node, l.index + 1)
    ELSE It(seg.node, seg.index)

NextGap(N, seg) ==
  IF N[seg.node].hasChildren
    THEN firstSegment(N, Child(N, seg.node, seg.index + 1))
    ELSE It(seg.node, seg.index + 1)

GapPrevSegment(N, gap) == segmentBeforePosition(N, gap.node, gap.index)
GapNextSegment(N, gap) == segmentAfterPosition(N, gap.node, gap.index)

GapNextGap(N, gap) ==
  LET seg == GapNextSegment(N, gap) IN IF Ok(seg) THEN NextGap(N, seg) ELSE Terminal

(* s.Remove(x).NextGap() and .PrevSegment(), on a [t, gap] result. *)
NextGapOf(rm) == [t |-> rm.t, gap |-> GapNextGap(rm.t, rm.gap)]
PrevSegmentOf(rm) == [t |-> rm.t, it |-> GapPrevSegment(rm.t, rm.gap)]

GapStart(N, gap) ==
  LET ps == GapPrevSegment(N, gap) IN IF Ok(ps) THEN End(Key(N, ps)) ELSE MinKey

GapEnd(N, gap) ==
  LET ns == GapNextSegment(N, gap) IN IF Ok(ns) THEN Start(Key(N, ns)) ELSE MaxKey

(* Set.Find: binary search in each node, descending through the child at  *)
(* the insertion point.                                                    *)
RECURSIVE FindIn(_, _, _, _, _), FindInInclusiveEnd(_, _, _, _, _)
FindInInclusiveEnd(N, n, key, lower, upper) ==
  IF lower < upper
    THEN LET i == lower + (upper - lower) \div 2
             r == N[n].keys[i + 1]
         IN IF key <= End(r)
              THEN IF key >= Start(r) THEN [seg |-> It(n, i), gap |-> Terminal]
                   ELSE FindIn(N, n, key, lower, i)
              ELSE FindIn(N, n, key, i + 1, upper)
    ELSE IF ~N[n].hasChildren THEN [seg |-> Terminal, gap |-> It(n, lower)]
    ELSE FindIn(N, Child(N, n, lower), key, 0, Nr(N, Child(N, n, lower)))

FindIn(N, n, key, lower, upper) ==
  IF lower < upper
    THEN LET i == lower + (upper - lower) \div 2
             r == N[n].keys[i + 1]
         IN IF key < End(r)
              THEN IF key >= Start(r) THEN [seg |-> It(n, i), gap |-> Terminal]
                   ELSE FindIn(N, n, key, lower, i)
              ELSE FindIn(N, n, key, i + 1, upper)
    ELSE IF ~N[n].hasChildren THEN [seg |-> Terminal, gap |-> It(n, lower)]
    ELSE FindIn(N, Child(N, n, lower), key, 0, Nr(N, Child(N, n, lower)))

Find(N, key) == FindIn(N, Root, key, 0, Nr(N, Root))
FindSegment(N, key) == Find(N, key).seg
FindGap(N, key) == Find(N, key).gap

LowerBoundSegment(N, min) ==
  LET f == Find(N, min) IN IF Ok(f.seg) THEN f.seg ELSE GapNextSegment(N, f.gap)

FirstSegment(N) == IF Nr(N, Root) = 0 THEN Terminal ELSE firstSegment(N, Root)
LastSegment(N) == IF Nr(N, Root) = 0 THEN Terminal ELSE lastSegment(N, Root)

(* FirstGap and LastGap: descend the outermost children to a leaf. *)
RECURSIVE FirstGapFrom(_, _), LastGapFrom(_, _)
FirstGapFrom(N, n) == IF N[n].hasChildren THEN FirstGapFrom(N, Child(N, n, 0)) ELSE It(n, 0)
LastGapFrom(N, n) ==
  IF N[n].hasChildren THEN LastGapFrom(N, Child(N, n, Nr(N, n))) ELSE It(n, Nr(N, n))

FirstGap(N) == FirstGapFrom(N, Root)
LastGap(N) == LastGapFrom(N, Root)

UpperBoundSegment(N, max) ==
  LET f == Find(N, max) IN IF Ok(f.seg) THEN f.seg ELSE GapPrevSegment(N, f.gap)

LowerBoundGap(N, min) ==
  LET f == Find(N, min) IN IF Ok(f.gap) THEN f.gap ELSE NextGap(N, f.seg)

(* Mutant: the gap after the segment holding max instead of before it. *)
UpperBoundGapNext(N, max) ==
  LET f == Find(N, max) IN IF Ok(f.gap) THEN f.gap ELSE NextGap(N, f.seg)

UpperBoundGap(N, max) ==
  LET f == Find(N, max) IN IF Ok(f.gap) THEN f.gap ELSE PrevGap(N, f.seg)

(* gap.PrevGap: the gap before the segment before it. *)
GapPrevGap(N, gap) ==
  LET seg == GapPrevSegment(N, gap) IN IF Ok(seg) THEN PrevGap(N, seg) ELSE Terminal

(* seg.PrevNonEmpty / NextNonEmpty: the neighbouring gap if it is not     *)
(* empty, else the adjacent segment.                                       *)
PrevNonEmpty(N, seg) ==
  LET gap == PrevGap(N, seg)
  IN IF GapStart(N, gap) # GapEnd(N, gap) THEN [seg |-> Terminal, gap |-> gap]
     ELSE [seg |-> GapPrevSegment(N, gap), gap |-> Terminal]

NextNonEmpty(N, seg) ==
  LET gap == NextGap(N, seg)
  IN IF GapStart(N, gap) # GapEnd(N, gap) THEN [seg |-> Terminal, gap |-> gap]
     ELSE [seg |-> GapNextSegment(N, gap), gap |-> Terminal]

-----------------------------------------------------------------------------
(* Mutation helpers. *)

(* seg.SetRangeUnchecked *)
SetRangeUnchecked(N, seg, r) == [N EXCEPT ![seg.node].keys[seg.index + 1] = r]

(* The lowest free identifier other than those in X: the new node. *)
Alloc(N, X) ==
  CHOOSE x \in Ids : ~N[x].live /\ x \notin X /\ \A y \in Ids : (~N[y].live /\ y \notin X) => x <= y

NewNode(keys, children, parent, pidx, hc) ==
  [live |-> TRUE, keys |-> keys, children |-> children, parent |-> parent,
   pidx |-> pidx, hasChildren |-> hc]

(* for i in lo..hi-1: p.children[i].parent = p; p.children[i].parentIndex = i *)
Relink(N, p, lo, hi) ==
  LET cs == N[p].children
      at(x) == {i \in lo..(hi - 1) : i < Len(cs) /\ cs[i + 1] = x}
  IN [x \in Ids |-> IF at(x) # {}
                      THEN [N[x] EXCEPT !.parent = p, !.pidx = CHOOSE i \in at(x) : TRUE]
                      ELSE N[x]]

(* The same loop when only parentIndex is rewritten. *)
Reindex(N, p, lo, hi) ==
  LET cs == N[p].children
      at(x) == {i \in lo..(hi - 1) : i < Len(cs) /\ cs[i + 1] = x}
  IN [x \in Ids |-> IF at(x) # {} THEN [N[x] EXCEPT !.pidx = CHOOSE i \in at(x) : TRUE]
                    ELSE N[x]]

-----------------------------------------------------------------------------
(* node.rebalanceBeforeInsert, the root case: n's keys and children are   *)
(* split between two new children, n keeps the middle key.                *)
RootSplit(N, n, gap) ==
  LET left == Alloc(N, {})
      right == Alloc(N, {left})
      ks == N[n].keys
      cs == N[n].children
      hc == N[n].hasChildren
      M0 == [N EXCEPT
               ![left] = NewNode(SubSeq(ks, 1, MinDegree - 1),
                                 IF hc THEN SubSeq(cs, 1, MinDegree) ELSE <<>>, n, 0, hc),
               ![right] = NewNode(SubSeq(ks, MinDegree + 1, Len(ks)),
                                  IF hc THEN SubSeq(cs, MinDegree + 1, Len(cs)) ELSE <<>>, n, 1, hc),
               ![n] = [@ EXCEPT !.keys = <<ks[MinDegree]>>, !.children = <<left, right>>,
                                !.hasChildren = TRUE]]
      M == IF hc THEN Relink(Relink(M0, left, 0, MinDegree), right, 0, MinDegree) ELSE M0
  IN [t |-> M,
      gap |-> CASE gap.node # n -> gap
                [] gap.index < MinDegree -> It(left, gap.index)
                [] OTHER -> It(right, gap.index - MinDegree)]

(* node.rebalanceBeforeInsert, the non-root case: the middle key moves up *)
(* into the parent and the upper half moves to a new right sibling.       *)
NodeSplitNoReindex(N, n, gap) ==
  LET p == N[n].parent
      pi == N[n].pidx
      sib == Alloc(N, {})
      ks == N[n].keys
      cs == N[n].children
      hc == N[n].hasChildren
      M0 == [N EXCEPT
               ![p].keys = Seqs!InsertAt(@, pi + 1, ks[MinDegree]),
               ![p].children = Seqs!InsertAt(@, pi + 2, sib),
               ![sib] = NewNode(SubSeq(ks, MinDegree + 1, Len(ks)),
                                IF hc THEN SubSeq(cs, MinDegree + 1, Len(cs)) ELSE <<>>, p, pi + 1, hc),
               ![n].keys = SubSeq(ks, 1, MinDegree - 1),
               ![n].children = IF hc THEN SubSeq(cs, 1, MinDegree) ELSE <<>>]
      M1 == M0
      M == IF hc THEN Relink(M1, sib, 0, MinDegree) ELSE M1
  IN [t |-> M,
      gap |-> CASE gap.node # n -> gap
                [] gap.index < MinDegree -> gap
                [] OTHER -> It(sib, gap.index - MinDegree)]

NodeSplitWrongMedian(N, n, gap) ==
  LET p == N[n].parent
      pi == N[n].pidx
      sib == Alloc(N, {})
      ks == N[n].keys
      cs == N[n].children
      hc == N[n].hasChildren
      M0 == [N EXCEPT
               ![p].keys = Seqs!InsertAt(@, pi + 1, ks[MinDegree + 1]),
               ![p].children = Seqs!InsertAt(@, pi + 2, sib),
               ![sib] = NewNode(SubSeq(ks, MinDegree + 1, Len(ks)),
                                IF hc THEN SubSeq(cs, MinDegree + 1, Len(cs)) ELSE <<>>, p, pi + 1, hc),
               ![n].keys = SubSeq(ks, 1, MinDegree - 1),
               ![n].children = IF hc THEN SubSeq(cs, 1, MinDegree) ELSE <<>>]
      M1 == Reindex(M0, p, pi + 2, Len(M0[p].children))
      M == IF hc THEN Relink(M1, sib, 0, MinDegree) ELSE M1
  IN [t |-> M,
      gap |-> CASE gap.node # n -> gap
                [] gap.index < MinDegree -> gap
                [] OTHER -> It(sib, gap.index - MinDegree)]

NodeSplit(N, n, gap) ==
  LET p == N[n].parent
      pi == N[n].pidx
      sib == Alloc(N, {})
      ks == N[n].keys
      cs == N[n].children
      hc == N[n].hasChildren
      M0 == [N EXCEPT
               ![p].keys = Seqs!InsertAt(@, pi + 1, ks[MinDegree]),
               ![p].children = Seqs!InsertAt(@, pi + 2, sib),
               ![sib] = NewNode(SubSeq(ks, MinDegree + 1, Len(ks)),
                                IF hc THEN SubSeq(cs, MinDegree + 1, Len(cs)) ELSE <<>>, p, pi + 1, hc),
               ![n].keys = SubSeq(ks, 1, MinDegree - 1),
               ![n].children = IF hc THEN SubSeq(cs, 1, MinDegree) ELSE <<>>]
      M1 == Reindex(M0, p, pi + 2, Len(M0[p].children))
      M == IF hc THEN Relink(M1, sib, 0, MinDegree) ELSE M1
  IN [t |-> M,
      gap |-> CASE gap.node # n -> gap
                [] gap.index < MinDegree -> gap
                [] OTHER -> It(sib, gap.index - MinDegree)]

(* Split full node n once its ancestors are no longer full ("up" is the   *)
(* tree and gap after the ancestors' rebalance).                          *)
SplitFull(up, n) ==
  IF up.t[n].parent = Nil THEN RootSplit(up.t, n, up.gap) ELSE NodeSplit(up.t, n, up.gap)

RECURSIVE rebalanceBeforeInsert(_, _, _)
rebalanceBeforeInsert(N, n, gap) ==
  IF Nr(N, n) < MaxDegree - 1 THEN [t |-> N, gap |-> gap]
  ELSE SplitFull(IF N[n].parent # Nil THEN rebalanceBeforeInsert(N, N[n].parent, gap)
                 ELSE [t |-> N, gap |-> gap], n)

(* The copy loop and assignment after rebalanceBeforeInsert ("rb"). *)
InsertAtGap(rb, r) ==
  [t |-> [rb.t EXCEPT ![rb.gap.node].keys = Seqs!InsertAt(@, rb.gap.index + 1, r)],
   it |-> It(rb.gap.node, rb.gap.index)]

InsertWithoutMergingUnchecked(N, gap, r) ==
  InsertAtGap(rebalanceBeforeInsert(N, gap.node, gap), r)

-----------------------------------------------------------------------------
(* node.rebalanceAfterRemove: a deficient non-root node n borrows from a  *)
(* sibling with keys to spare, or is merged with one.                     *)

(* Borrow the previous sibling's last key through the parent. *)
RotateFromPrev(N, n, sib, gap) ==
  LET p == N[n].parent
      pi == N[n].pidx
      sk == N[sib].keys
      sc == N[sib].children
      hc == N[n].hasChildren
      M0 == [N EXCEPT
               ![n].keys = <<N[p].keys[pi]>> \o @,
               ![p].keys[pi] = sk[Len(sk)],
               ![sib].keys = SubSeq(sk, 1, Len(sk) - 1),
               ![n].children = IF hc THEN <<sc[Len(sc)]>> \o @ ELSE @,
               ![sib].children = IF hc THEN SubSeq(sc, 1, Len(sc) - 1) ELSE @]
      M == IF hc THEN Reindex(Relink(M0, n, 0, 1), n, 1, Len(M0[n].children)) ELSE M0
  IN [t |-> M,
      gap |-> CASE gap.node = sib /\ gap.index = Len(sk) - 1 -> It(n, 0)
                [] gap.node = n -> It(n, gap.index + 1)
                [] OTHER -> gap]

(* Borrow the next sibling's first key through the parent. *)
RotateFromNext(N, n, sib, gap) ==
  LET p == N[n].parent
      pi == N[n].pidx
      sk == N[sib].keys
      sc == N[sib].children
      hc == N[n].hasChildren
      M0 == [N EXCEPT
               ![n].keys = @ \o <<N[p].keys[pi + 1]>>,
               ![p].keys[pi + 1] = sk[1],
               ![sib].keys = Tail(sk),
               ![n].children = IF hc THEN @ \o <<sc[1]>> ELSE @,
               ![sib].children = IF hc THEN Tail(sc) ELSE @]
      M == IF hc THEN Reindex(Relink(M0, n, Nr(N, n) + 1, Nr(N, n) + 2), sib, 0, Len(sk))
           ELSE M0
  IN [t |-> M,
      gap |-> CASE gap.node = sib /\ gap.index = 0 -> It(n, Nr(N, n) + 1)
                [] gap.node = sib -> It(sib, gap.index - 1)
                [] OTHER -> gap]

(* The parent is the root with one key: pull both children into it. *)
CollapseRoot(N, p, gap) ==
  LET left == Child(N, p, 0)
      right == Child(N, p, 1)
      lk == N[left].keys
      hc == N[left].hasChildren
      M0 == [N EXCEPT
               ![p] = [@ EXCEPT !.keys = lk \o <<N[p].keys[1]>> \o N[right].keys,
                                !.hasChildren = hc,
                                !.children = IF hc THEN N[left].children \o N[right].children
                                             ELSE <<>>],
               ![left] = FreeNode,
               ![right] = FreeNode]
      M == IF hc THEN Relink(M0, p, 0, Len(M0[p].children)) ELSE M0
  IN [t |-> M,
      gap |-> CASE gap.node = left -> It(p, gap.index)
                [] gap.node = right -> It(p, gap.index + Len(lk) + 1)
                [] OTHER -> gap]

(* Merge n with a sibling and the key between them into the left one. *)
MergeSiblings(N, n, gap) ==
  LET p == N[n].parent
      left == IF N[n].pidx > 0 THEN prevSibling(N, n) ELSE n
      right == IF N[n].pidx > 0 THEN n ELSE nextSibling(N, n)
      li == N[left].pidx
      ln == Nr(N, left)
      rn == Nr(N, right)
      hc == N[left].hasChildren
      g == IF gap.node = right THEN It(left, gap.index + ln + 1) ELSE gap
      M0 == [N EXCEPT
               ![left].keys = @ \o <<N[p].keys[li + 1]>> \o N[right].keys,
               ![left].children = IF hc THEN @ \o N[right].children ELSE @,
               ![p].keys = Seqs!RemoveAt(@, li + 1),
               ![p].children = Seqs!RemoveAt(@, li + 2),
               ![right] = FreeNode]
      M1 == IF hc THEN Relink(M0, left, ln + 1, ln + rn + 2) ELSE M0
  IN [t |-> Reindex(M1, p, 0, Nr(N, p)), gap |-> g]

RECURSIVE rebalanceAfterRemove(_, _, _), RebalanceParent(_, _)
(* After a sibling merge ("m"), the parent may be deficient in turn. *)
RebalanceParent(m, p) == rebalanceAfterRemove(m.t, p, m.gap)

rebalanceAfterRemove(N, n, gap) ==
  LET ps == prevSibling(N, n)
      ns == nextSibling(N, n)
  IN CASE Nr(N, n) >= MinDegree - 1 \/ N[n].parent = Nil -> [t |-> N, gap |-> gap]
       [] ps # Nil /\ Nr(N, ps) >= MinDegree -> RotateFromPrev(N, n, ps, gap)
       [] ns # Nil /\ Nr(N, ns) >= MinDegree -> RotateFromNext(N, n, ns, gap)
       [] Nr(N, N[n].parent) = 1 -> CollapseRoot(N, N[n].parent, gap)
       [] OTHER -> RebalanceParent(MergeSiblings(N, n, gap), N[n].parent)

(* Set.Remove: an internal segment takes its predecessor's range, and the *)
(* predecessor ("victim", in a leaf) is removed; a leaf segment is cut out *)
(* of its node, which is then rebalanced.                                  *)
RECURSIVE Remove(_, _), RemoveVictim(_, _, _), RemoveVictimStaleGap(_, _, _)
(* The gap left where the victim was, handed back as is. *)
RemoveVictimStaleGap(N, seg, victim) ==
  Remove(SetRangeUnchecked(N, seg, Key(N, victim)), victim)

RemoveVictim(N, seg, victim) ==
  NextGapOf(Remove(SetRangeUnchecked(N, seg, Key(N, victim)), victim))

Remove(N, seg) ==
  IF N[seg.node].hasChildren
    THEN RemoveVictim(N, seg, PrevSegment(N, seg))
    ELSE rebalanceAfterRemove([N EXCEPT ![seg.node].keys = Seqs!RemoveAt(@, seg.index + 1)],
                              seg.node, It(seg.node, seg.index))

(* Set.Insert between prev and next, the gap's neighbours: extend prev,   *)
(* then absorb next; or extend next; or insert a new segment.             *)
InsertBetweenNoSecondMerge(N, gap, r, prev, next) ==
  LET joinPrev == Ok(prev) /\ End(Key(N, prev)) = Start(r)
      joinNext == Ok(next) /\ Start(Key(N, next)) = End(r)
  IN CASE joinPrev -> [t |-> SetRangeUnchecked(N, prev, <<Start(Key(N, prev)), End(r)>>), it |-> prev]
       [] joinNext -> [t |-> SetRangeUnchecked(N, next, <<Start(r), End(Key(N, next))>>), it |-> next]
       [] OTHER -> InsertWithoutMergingUnchecked(N, gap, r)

InsertBetween(N, gap, r, prev, next) ==
  LET joinPrev == Ok(prev) /\ End(Key(N, prev)) = Start(r)
      joinNext == Ok(next) /\ Start(Key(N, next)) = End(r)
  IN CASE joinPrev /\ joinNext ->
            PrevSegmentOf(Remove(SetRangeUnchecked(N, prev, <<Start(Key(N, prev)), End(Key(N, next))>>), next))
       [] joinPrev -> [t |-> SetRangeUnchecked(N, prev, <<Start(Key(N, prev)), End(r)>>), it |-> prev]
       [] joinNext -> [t |-> SetRangeUnchecked(N, next, <<Start(r), End(Key(N, next))>>), it |-> next]
       [] OTHER -> InsertWithoutMergingUnchecked(N, gap, r)

Insert(N, gap, r) == InsertBetween(N, gap, r, GapPrevSegment(N, gap), GapNextSegment(N, gap))

-----------------------------------------------------------------------------
(* SplitUnchecked: shorten seg to end at split and insert [split, end2)   *)
(* into the gap after it; "seg2" is the inserted segment.                  *)
SplitResult(seg2) ==
  [t |-> seg2.t, first |-> PrevSegment(seg2.t, seg2.it), second |-> seg2.it]

SplitShortened(M, seg, split, end2) ==
  SplitResult(InsertWithoutMergingUnchecked(M, NextGap(M, seg), <<split, end2>>))

SplitUnchecked(N, seg, split) ==
  SplitShortened(SetRangeUnchecked(N, seg, <<Start(Key(N, seg)), split>>), seg, split, End(Key(N, seg)))

(* Isolate: split at r.Start, keeping the second half, then at r.End,     *)
(* keeping the first; "a" is the tree and segment after the first step.    *)
IsolateEndKeepsSecond(a, r) ==
  IF CanSplitAt(Key(a.t, a.it), End(r))
    THEN LET s == SplitUnchecked(a.t, a.it, End(r)) IN [t |-> s.t, it |-> s.second]
    ELSE a

IsolateEnd(a, r) ==
  IF CanSplitAt(Key(a.t, a.it), End(r))
    THEN LET s == SplitUnchecked(a.t, a.it, End(r)) IN [t |-> s.t, it |-> s.first]
    ELSE a

IsolateStart(s) == [t |-> s.t, it |-> s.second]

Isolate(N, seg, r) ==
  IsolateEnd(IF CanSplitAt(Key(N, seg), Start(r)) THEN IsolateStart(SplitUnchecked(N, seg, Start(r)))
             ELSE [t |-> N, it |-> seg], r)

(* MergeUnchecked: merge second into first if they touch. *)
MergeUnchecked(N, first, second) ==
  IF End(Key(N, first)) = Start(Key(N, second))
    THEN PrevSegmentOf(Remove(SetRangeUnchecked(N, first, <<Start(Key(N, first)), End(Key(N, second))>>), second))
    ELSE [t |-> N, it |-> Terminal]

(* The loop of MergeAll and MergeRange, over segments starting below lim; *)
(* "m" is MergeUnchecked's result.                                         *)
RECURSIVE MergeLoop(_, _, _, _), MergeNext(_, _, _, _)
MergeNext(N, next, m, lim) ==
  IF Ok(m.it) THEN MergeLoop(m.t, m.it, NextSegment(m.t, m.it), lim)
  ELSE MergeLoop(N, next, NextSegment(N, next), lim)

MergeLoop(N, seg, next, lim) ==
  IF Ok(next) /\ Start(Key(N, next)) < lim THEN MergeNext(N, next, MergeUnchecked(N, seg, next), lim)
  ELSE N

(* The loop of RemoveRange: Isolate and Remove each segment that starts   *)
(* before r.End; "rm" is the tree and gap after a Remove.                 *)
RemoveIsolated(iso) == Remove(iso.t, iso.it)

RECURSIVE RemoveRangeLoop(_, _), RemoveRangeAt(_, _, _)
RemoveRangeAt(N, seg, r) ==
  IF Ok(seg) /\ Start(Key(N, seg)) < End(r)
    THEN RemoveRangeLoop(RemoveIsolated(Isolate(N, seg, r)), r)
    ELSE N

RemoveRangeLoop(rm, r) == RemoveRangeAt(rm.t, GapNextSegment(rm.t, rm.gap), r)

(* The loop of ApplyContiguous; the callback may only touch the value,    *)
(* which is empty, so it changes nothing. "iso" is the isolated segment.   *)
RECURSIVE ApplyLoop(_, _, _), ApplyIsolated(_, _), ApplyGap(_, _, _)
ApplyGap(T, gap, r) ==
  CASE GapStart(T, gap) # GapEnd(T, gap) -> T
    [] ~Ok(GapNextSegment(T, gap)) -> T
    [] OTHER -> ApplyLoop(T, GapNextSegment(T, gap), r)

ApplyIsolated(iso, r) ==
  IF End(Key(iso.t, iso.it)) >= End(r) THEN iso.t ELSE ApplyGap(iso.t, NextGap(iso.t, iso.it), r)

ApplyLoop(N, seg, r) == ApplyIsolated(Isolate(N, seg, r), r)

-----------------------------------------------------------------------------
(* The public methods, as functions of the node table. *)

(* Add and AddWithoutMerging: find the gap holding r.Start; give up if    *)
(* there is none or r runs past it.                                        *)
Fits(N, r) ==
  LET gap == FindGap(N, Start(r)) IN Ok(gap) /\ End(r) <= GapEnd(N, gap)

Add(N, r) ==
  IF Fits(N, r) THEN Insert(N, FindGap(N, Start(r)), r).t ELSE N

AddWithoutMerging(N, r) ==
  IF Fits(N, r) THEN InsertWithoutMergingUnchecked(N, FindGap(N, Start(r)), r).t ELSE N

RemoveRange(N, r) ==
  LET f == Find(N, Start(r))
  IN IF Ok(f.seg) THEN RemoveRangeLoop(RemoveIsolated(Isolate(N, f.seg, r)), r)
     ELSE RemoveRangeAt(N, GapNextSegment(N, f.gap), r)

MergeAll(N) ==
  LET seg == FirstSegment(N)
  IN IF Ok(seg) THEN MergeLoop(N, seg, NextSegment(N, seg), MaxKey + 1) ELSE N

MergeRange(N, r) ==
  LET seg == LowerBoundSegment(N, Start(r))
  IN IF Ok(seg) THEN MergeLoop(N, seg, NextSegment(N, seg), End(r)) ELSE N

(* MergeAdjacent: the segment at r.Start with its predecessor, then the   *)
(* one at r.End-1 with its successor; Merge's neighbour check always      *)
(* holds for these pairs.                                                  *)
MergeWithPrev(N, first) ==
  IF Ok(first) /\ Ok(PrevSegment(N, first)) THEN MergeUnchecked(N, PrevSegment(N, first), first).t
  ELSE N

MergeWithNext(M, last) ==
  IF Ok(last) /\ Ok(NextSegment(M, last)) THEN MergeUnchecked(M, last, NextSegment(M, last)).t
  ELSE M

MergeAdjacentEnd(M, r) == MergeWithNext(M, FindSegment(M, End(r) - 1))

MergeAdjacent(N, r) == MergeAdjacentEnd(MergeWithPrev(N, FindSegment(N, Start(r))), r)

SplitAtNoCheck(N, k) ==
  LET seg == FindSegment(N, k)
  IN IF Ok(seg) THEN SplitUnchecked(N, seg, k).t ELSE N

SplitAt(N, k) ==
  LET seg == FindSegment(N, k)
  IN IF Ok(seg) /\ CanSplitAt(Key(N, seg), k) THEN SplitUnchecked(N, seg, k).t ELSE N

ApplyContiguous(N, r) ==
  LET seg == FindSegment(N, Start(r)) IN IF Ok(seg) THEN ApplyLoop(N, seg, r) ELSE N

(* The read-only queries. IsEmptyRange looks at the gap holding r.Start; *)
(* SpanRange and Span add up lengths over a walk of the segments.         *)
Length(r) == End(r) - Start(r)

IsEmptyRangeStrict(N, r) ==
  \/ Length(r) = 0
  \/ LET gap == FindGap(N, Start(r)) IN Ok(gap) /\ End(r) < GapEnd(N, gap)

IsEmptyRange(N, r) ==
  \/ Length(r) = 0
  \/ LET gap == FindGap(N, Start(r)) IN Ok(gap) /\ End(r) <= GapEnd(N, gap)
Intersect(a, b) ==
  <<IF Start(a) > Start(b) THEN Start(a) ELSE Start(b), IF End(a) < End(b) THEN End(a) ELSE End(b)>>

RECURSIVE SpanFrom(_, _, _)
SpanFrom(N, seg, r) ==
  IF Ok(seg) /\ Start(Key(N, seg)) < End(r)
    THEN Length(Intersect(Key(N, seg), r)) + SpanFrom(N, NextSegment(N, seg), r)
    ELSE 0

SpanRange(N, r) == IF Length(r) = 0 THEN 0 ELSE SpanFrom(N, LowerBoundSegment(N, Start(r)), r)
Span(N) == SpanFrom(N, FirstSegment(N), <<MinKey, MaxKey>>)

RemoveAll(N) == [x \in Ids |-> IF x = Root THEN [FreeNode EXCEPT !.live = TRUE] ELSE FreeNode]

-----------------------------------------------------------------------------
(* The checked mutators: each tests its precondition and panics when it   *)
(* fails. A panic ends the sentry, so the model gives such a call no step *)
(* (the ...Ok operators are the checks, the Call actions below guard on   *)
(* them).                                                                  *)

(* gap.Range().IsSupersetOf(r) *)
GapHolds(N, gap, r) == GapStart(N, gap) <= Start(r) /\ End(r) <= GapEnd(N, gap)

InsertWithoutMergingOk(N, gap, r) == Length(r) > 0 /\ GapHolds(N, gap, r)

MergeOk(N, first, second) == NextSegment(N, first) = second

SplitOk(N, seg, split) == CanSplitAt(Key(N, seg), split)

(* SetRange: r is non-empty and stays clear of both neighbours. *)
SetRangeOk(N, seg, r) ==
  /\ Length(r) > 0
  /\ Ok(PrevSegment(N, seg)) => Start(r) >= End(Key(N, PrevSegment(N, seg)))
  /\ Ok(NextSegment(N, seg)) => End(r) <= Start(Key(N, NextSegment(N, seg)))

SetStartUnchecked(N, seg, start) == SetRangeUnchecked(N, seg, <<start, End(Key(N, seg))>>)
SetStartOk(N, seg, start) ==
  /\ start < End(Key(N, seg))
  /\ Ok(PrevSegment(N, seg)) => start >= End(Key(N, PrevSegment(N, seg)))

SetEndUnchecked(N, seg, end) == SetRangeUnchecked(N, seg, <<Start(Key(N, seg)), end>>)
SetEndOk(N, seg, end) ==
  /\ end > Start(Key(N, seg))
  /\ Ok(NextSegment(N, seg)) => end <= Start(Key(N, NextSegment(N, seg)))

(* saveRoot: ExportSortedSlices, the segments from FirstSegment on by      *)
(* NextSegment (the three slices kept as one sequence of ranges; values   *)
(* are empty).                                                             *)
RECURSIVE ExportFrom(_, _, _)
ExportFrom(N, seg, fuel) ==
  IF Ok(seg) /\ fuel > 0 THEN <<Key(N, seg)>> \o ExportFrom(N, NextSegment(N, seg), fuel - 1)
  ELSE <<>>

ExportSortedSlices(N) == ExportFrom(N, FirstSegment(N), NodeCap * MaxDegree)

(* loadRoot: ImportSortedSlices into a fresh set. Each range must fit the *)
(* gap that follows the previously inserted segment, else an error (and   *)
(* loadRoot panics). InsertWithoutMerging invalidates every iterator, so  *)
(* the next gap is taken from the segment it returns.                     *)
RECURSIVE ImportLoop(_, _, _, _)
ImportLoopStaleGap(N, gap, sds, i) ==
  IF i > Len(sds) THEN [t |-> N, err |-> FALSE]
  ELSE IF ~GapHolds(N, gap, sds[i]) THEN [t |-> N, err |-> TRUE]
  ELSE ImportLoop(InsertWithoutMergingUnchecked(N, gap, sds[i]).t, gap, sds, i + 1)

ImportLoop(N, gap, sds, i) ==
  IF i > Len(sds) THEN [t |-> N, err |-> FALSE]
  ELSE IF ~GapHolds(N, gap, sds[i]) THEN [t |-> N, err |-> TRUE]
  ELSE LET ins == InsertWithoutMergingUnchecked(N, gap, sds[i])
       IN ImportLoop(ins.t, NextGap(ins.t, ins.it), sds, i + 1)

ImportSortedSlices(N, sds) ==
  IF Nr(N, Root) # 0 THEN [t |-> N, err |-> TRUE] ELSE ImportLoop(N, FirstGap(N), sds, 1)

EmptySet == RemoveAll([x \in Ids |-> FreeNode])

-----------------------------------------------------------------------------
(* The caller's steps: one public method call each, with its arguments.   *)

Init == nodes = EmptySet /\ call = [op |-> "none"]

(* Each step records the call it made, for the refinement mapping; an      *)
(* iterator argument is recorded as the range it points at.               *)
Called(op, r) == call' = [op |-> op, r |-> r]
CallAdd(r) == "Add" \in Ops /\ nodes' = Add(nodes, r) /\ Called("Add", r)
CallAddWithoutMerging(r) ==
  "AddWithoutMerging" \in Ops /\ nodes' = AddWithoutMerging(nodes, r) /\ Called("AddWithoutMerging", r)
CallRemove(k) ==
  /\ "Remove" \in Ops
  /\ Ok(FindSegment(nodes, k))
  /\ nodes' = Remove(nodes, FindSegment(nodes, k)).t
  /\ call' = [op |-> "Remove", k |-> k]
CallRemoveRange(r) == "RemoveRange" \in Ops /\ nodes' = RemoveRange(nodes, r) /\ Called("RemoveRange", r)
CallRemoveAll == "RemoveAll" \in Ops /\ nodes' = RemoveAll(nodes) /\ call' = [op |-> "RemoveAll"]
CallMergeAll == "MergeAll" \in Ops /\ nodes' = MergeAll(nodes) /\ call' = [op |-> "MergeAll"]
CallMergeRange(r) == "MergeRange" \in Ops /\ nodes' = MergeRange(nodes, r) /\ Called("MergeRange", r)
CallMergeAdjacent(r) ==
  "MergeAdjacent" \in Ops /\ nodes' = MergeAdjacent(nodes, r) /\ Called("MergeAdjacent", r)
CallSplitAt(k) == "SplitAt" \in Ops /\ nodes' = SplitAt(nodes, k) /\ call' = [op |-> "SplitAt", k |-> k]
CallApplyContiguous(r) ==
  "ApplyContiguous" \in Ops /\ nodes' = ApplyContiguous(nodes, r) /\ Called("ApplyContiguous", r)
(* The iterators a caller can hold: every segment, and every gap (gaps   *)
(* live in leaves).                                                        *)
SegIts == {It(x, i) : x \in {y \in Ids : nodes[y].live}, i \in 0..(MaxDegree - 2)} \cap
            {it \in [node : Ids, index : Nat] : it.index < Nr(nodes, it.node)}
GapIts == {It(x, i) : x \in {y \in Ids : nodes[y].live /\ ~nodes[y].hasChildren}, i \in 0..(MaxDegree - 1)} \cap
            {it \in [node : Ids, index : Nat] : it.index <= Nr(nodes, it.node)}

CallInsertWithoutMerging(gap, r) ==
  /\ "InsertWithoutMerging" \in Ops /\ InsertWithoutMergingOk(nodes, gap, r)
  /\ nodes' = InsertWithoutMergingUnchecked(nodes, gap, r).t
  /\ call' = [op |-> "InsertWithoutMerging", gap |-> <<GapStart(nodes, gap), GapEnd(nodes, gap)>>, r |-> r]
CallMerge(first, second) ==
  /\ "Merge" \in Ops /\ MergeOk(nodes, first, second)
  /\ nodes' = MergeUnchecked(nodes, first, second).t
  /\ call' = [op |-> "Merge", first |-> Key(nodes, first), second |-> Key(nodes, second)]
(* A call on segment iterator seg with key argument x. *)
CalledAt(op, seg, x) == call' = [op |-> op, seg |-> Key(nodes, seg), k |-> x]
CallSplit(seg, k) ==
  /\ "Split" \in Ops /\ SplitOk(nodes, seg, k)
  /\ nodes' = SplitUnchecked(nodes, seg, k).t
  /\ CalledAt("Split", seg, k)
CallSetRange(seg, r) ==
  /\ "SetRange" \in Ops /\ SetRangeOk(nodes, seg, r)
  /\ nodes' = SetRangeUnchecked(nodes, seg, r)
  /\ call' = [op |-> "SetRange", seg |-> Key(nodes, seg), r |-> r]
CallSetStart(seg, x) ==
  /\ "SetStart" \in Ops /\ SetStartOk(nodes, seg, x)
  /\ nodes' = SetStartUnchecked(nodes, seg, x)
  /\ CalledAt("SetStart", seg, x)
CallSetEnd(seg, x) ==
  /\ "SetEnd" \in Ops /\ SetEndOk(nodes, seg, x)
  /\ nodes' = SetEndUnchecked(nodes, seg, x)
  /\ CalledAt("SetEnd", seg, x)
(* A checkpoint and restore: saveRoot on this set, loadRoot into a fresh one. *)
CallSaveRestore ==
  LET imp == ImportSortedSlices(EmptySet, ExportSortedSlices(nodes))
  IN "SaveRestore" \in Ops /\ ~imp.err /\ nodes' = imp.t /\ call' = [op |-> "SaveRestore"]

Next ==
  \/ \E r \in Inputs :
       \/ CallAdd(r) \/ CallAddWithoutMerging(r) \/ CallRemoveRange(r)
       \/ CallMergeRange(r) \/ CallMergeAdjacent(r) \/ CallApplyContiguous(r)
  \/ \E k \in MinKey..(MaxKey - 1) : CallRemove(k) \/ CallSplitAt(k)
  \/ \E gap \in GapIts, r \in Inputs : CallInsertWithoutMerging(gap, r)
  \/ \E seg \in SegIts :
       \/ \E r \in Inputs : CallSetRange(seg, r)
       \/ \E second \in SegIts : CallMerge(seg, second)
       \/ \E x \in MinKey..MaxKey : CallSplit(seg, x) \/ CallSetStart(seg, x) \/ CallSetEnd(seg, x)
  \/ CallRemoveAll \/ CallMergeAll \/ CallSaveRestore

vars == <<nodes, call>>

Spec == Init /\ [][Next]_vars

-----------------------------------------------------------------------------
(* The ranges in key order: an in-order walk of the tree (bounded by the  *)
(* number of nodes, so a malformed tree cannot make it run forever).       *)
RECURSIVE Walk(_, _, _)
Walk(N, n, fuel) ==
  IF ~N[n].hasChildren \/ fuel = 0 THEN N[n].keys
  ELSE LET w[i \in 0..Nr(N, n)] ==
             IF i = 0 THEN Walk(N, Child(N, n, 0), fuel - 1)
             ELSE w[i - 1] \o <<N[n].keys[i]>> \o Walk(N, Child(N, n, i), fuel - 1)
       IN w[Nr(N, n)]

InOrder(N) == Walk(N, Root, NodeCap)
(* The ranges the tree holds: the keys of its live nodes (BTreeOK checks  *)
(* that every live node hangs below the root).                            *)
SegsOf(N) == UNION {{N[x].keys[i] : i \in DOMAIN N[x].keys} : x \in {y \in Ids : N[y].live}}
Segs == SegsOf(nodes)

Live == {x \in Ids : nodes[x].live}

RECURSIVE Depth(_, _, _)
Depth(N, n, fuel) ==
  IF N[n].parent = Nil \/ fuel = 0 THEN <<n, 0>>
  ELSE LET d == Depth(N, N[n].parent, fuel - 1) IN <<d[1], d[2] + 1>>

(* The abstract set this tree stands for. *)
Abs == INSTANCE SegmentSet WITH segs <- Segs

-----------------------------------------------------------------------------
NodeRec == [live : BOOLEAN, keys : Seq(Ranges), children : Seq(Ids),
            parent : Ids \cup {Nil}, pidx : Nat, hasChildren : BOOLEAN]

TypeOK == nodes \in [Ids -> NodeRec] /\ call \in Abs!Calls \cup {Abs!NoCall}

(* The B-tree invariants the generated code relies on: node sizes within  *)
(* [minDegree-1, 2*minDegree-1] except at the root, child lists one longer *)
(* than key lists, parent and parentIndex pointing back at the slot that  *)
(* holds the node, every node's ancestor chain ending at the root, and    *)
(* every leaf at the same depth.                                           *)
BTreeOK ==
  /\ nodes[Root].live /\ nodes[Root].parent = Nil
  /\ nodes[Root].hasChildren => Nr(nodes, Root) > 0
  /\ \A n \in Live :
       /\ Nr(nodes, n) <= MaxDegree - 1
       /\ n # Root => Nr(nodes, n) >= MinDegree - 1
       /\ Depth(nodes, n, NodeCap)[1] = Root
       /\ IF nodes[n].hasChildren
            THEN /\ Len(nodes[n].children) = Nr(nodes, n) + 1
                 /\ \A i \in 0..Nr(nodes, n) :
                      LET c == Child(nodes, n, i)
                      IN c \in Live /\ nodes[c].parent = n /\ nodes[c].pidx = i
            ELSE nodes[n].children = <<>>
  /\ \A n, m \in Live :
       (~nodes[n].hasChildren /\ ~nodes[m].hasChildren)
         => Depth(nodes, n, NodeCap)[2] = Depth(nodes, m, NodeCap)[2]

(* In key order the ranges are non-empty and disjoint. *)
Sorted ==
  LET s == InOrder(nodes)
  IN \A i \in 1..(Len(s) - 1) : End(s[i]) <= Start(s[i + 1])

(* Find, the lookup every method starts from, returns the segment holding *)
(* the key if there is one and otherwise a gap whose range holds it.       *)
FindAgrees ==
  \A k \in MinKey..(MaxKey - 1) :
    LET f == Find(nodes, k)
    IN IF \E t \in Segs : Start(t) <= k /\ k < End(t)
         THEN Ok(f.seg) /\ Start(Key(nodes, f.seg)) <= k /\ k < End(Key(nodes, f.seg))
         ELSE Ok(f.gap) /\ GapStart(nodes, f.gap) <= k /\ k < GapEnd(nodes, f.gap)

(* The queries agree with the set and with each other: SpanRange(r) is   *)
(* the number of keys of r in some segment, Span the number of keys in    *)
(* any, and IsEmptyRange(r), which only inspects the gap at r.Start, holds *)
(* exactly when SpanRange(r) = 0, as its doc comment promises.            *)
QueriesAgree ==
  LET held(a, b) == Cardinality({k \in a..(b - 1) : \E t \in Segs : Start(t) <= k /\ k < End(t)})
  IN /\ Span(nodes) = held(MinKey, MaxKey)
     /\ \A r \in Ranges : /\ SpanRange(nodes, r) = held(Start(r), End(r))
                          /\ IsEmptyRange(nodes, r) = (SpanRange(nodes, r) = 0)

(* The ranges an iterator or gap iterator stands for; a terminal one is   *)
(* <<>>.                                                                   *)
SegRange(N, it) == IF Ok(it) THEN Key(N, it) ELSE <<>>
GapRange(N, gap) == IF Ok(gap) THEN <<GapStart(N, gap), GapEnd(N, gap)>> ELSE <<>>

(* Walk the gaps from gap with step, collecting their ranges. *)
RECURSIVE GapWalk(_, _, _, _)
GapWalk(N, gap, Step(_, _), fuel) ==
  IF ~Ok(gap) \/ fuel = 0 THEN <<>>
  ELSE <<GapRange(N, gap)>> \o GapWalk(N, Step(N, gap), Step, fuel - 1)

(* Iteration agrees with the set of ranges sorted by key: walking the gaps *)
(* from FirstGap forwards, or from LastGap backwards through each gap's    *)
(* predecessor, meets every gap (the empty ones between touching segments *)
(* included) in order; LastSegment is the highest segment; for every key   *)
(* the bound searches return the last segment starting at or below it,   *)
(* the first gap ending above it and the last gap starting at or below   *)
(* it; and PrevNonEmpty and NextNonEmpty of the segment holding a key      *)
(* return the touching neighbour or else the non-empty gap. These walks    *)
(* climb through parents at node boundaries, where the tree shape matters. *)
IteratorsAgree ==
  LET n == Cardinality(Segs)
      ref == [i \in 1..n |-> CHOOSE t \in Segs :
                               Cardinality({u \in Segs : Start(u) < Start(t)}) = i - 1]
      gaps == [i \in 1..(n + 1) |-> <<IF i = 1 THEN MinKey ELSE End(ref[i - 1]),
                                      IF i = n + 1 THEN MaxKey ELSE Start(ref[i])>>]
      LastOf(Q, P(_)) == LET is == {i \in DOMAIN Q : P(Q[i])} IN
                         IF is = {} THEN <<>> ELSE Q[CHOOSE i \in is : \A j \in is : j <= i]
      FirstOf(Q, P(_)) == LET is == {i \in DOMAIN Q : P(Q[i])} IN
                          IF is = {} THEN <<>> ELSE Q[CHOOSE i \in is : \A j \in is : i <= j]
  IN /\ GapWalk(nodes, FirstGap(nodes), GapNextGap, n + 2) = gaps
     /\ GapWalk(nodes, LastGap(nodes), GapPrevGap, n + 2) = Seqs!Reverse(gaps)
     /\ SegRange(nodes, LastSegment(nodes)) = IF n = 0 THEN <<>> ELSE ref[n]
     /\ \A k \in MinKey..(MaxKey - 1) :
          /\ SegRange(nodes, UpperBoundSegment(nodes, k)) = LastOf(ref, LAMBDA t : Start(t) <= k)
          /\ GapRange(nodes, LowerBoundGap(nodes, k)) = FirstOf(gaps, LAMBDA g : End(g) > k)
          /\ GapRange(nodes, UpperBoundGap(nodes, k)) = LastOf(gaps, LAMBDA g : Start(g) <= k)
          /\ LET seg == FindSegment(nodes, k)
                 t == Key(nodes, seg)
                 pg == FirstOf(gaps, LAMBDA g : End(g) = Start(t))
                 ng == FirstOf(gaps, LAMBDA g : Start(g) = End(t))
                 pn == PrevNonEmpty(nodes, seg)
                 nn == NextNonEmpty(nodes, seg)
             IN Ok(seg) =>
                  /\ IF Start(pg) < End(pg)
                       THEN GapRange(nodes, pn.gap) = pg /\ ~Ok(pn.seg)
                       ELSE SegRange(nodes, pn.seg) = LastOf(ref, LAMBDA u : End(u) = Start(t))
                            /\ ~Ok(pn.gap)
                  /\ IF Start(ng) < End(ng)
                       THEN GapRange(nodes, nn.gap) = ng /\ ~Ok(nn.seg)
                       ELSE SegRange(nodes, nn.seg) = FirstOf(ref, LAMBDA u : Start(u) = End(t))
                            /\ ~Ok(nn.gap)

(* A checkpoint of the set restores: loadRoot(saveRoot()) into a fresh   *)
(* set never fails (ImportSortedSlices' superset check holds for every    *)
(* range, which needs each next gap taken from the segment                *)
(* InsertWithoutMerging returns, not the invalidated one) and holds the    *)
(* same ranges in the same order.                                          *)
RestoreRoundTrip ==
  LET imp == ImportSortedSlices(EmptySet, ExportSortedSlices(nodes))
  IN ~imp.err /\ InOrder(imp.t) = InOrder(nodes)

(* Mergeable neighbours are merged: from any reachable tree with no two  *)
(* touching segments, Add, Remove, RemoveRange, MergeRange and           *)
(* MergeAdjacent leave none; and MergeAll leaves none from any tree,     *)
(* including those AddWithoutMerging and SplitAt produce.                  *)
Unmerged(N) == Abs!Joints(SegsOf(N))

NeighboursMerged ==
  /\ Unmerged(MergeAll(nodes)) = {}
  /\ Unmerged(nodes) = {} =>
       /\ \A r \in Ranges : /\ Unmerged(Add(nodes, r)) = {}
                           /\ Unmerged(RemoveRange(nodes, r)) = {}
                           /\ Unmerged(MergeRange(nodes, r)) = {}
                           /\ Unmerged(MergeAdjacent(nodes, r)) = {}
       /\ \A k \in MinKey..(MaxKey - 1) :
            Ok(FindSegment(nodes, k)) => Unmerged(Remove(nodes, FindSegment(nodes, k)).t) = {}

(* The tree implements the abstract segment set: every method call changes *)
(* the set of ranges exactly as SegmentSet says.                          *)
AbsSpec == Abs!Spec

=============================================================================
