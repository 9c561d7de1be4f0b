----------------------------- MODULE SegmentSet -----------------------------
(***************************************************************************)
(* What a segment set (pkg/segment, instantiated as pgalloc.reclaimSet)    *)
(* promises its callers: a set of non-empty, pairwise disjoint half-open   *)
(* ranges of keys, and the effect of each mutating method on that set, as  *)
(* its doc comment states it. Values are left out: reclaimSetValue is an   *)
(* empty struct and its Merge always succeeds. The B-tree that implements  *)
(* it is ReclaimSet.                                                       *)
(***************************************************************************)
EXTENDS Naturals, FiniteSets

CONSTANTS MinKey, MaxKey

VARIABLES
  segs,  \* the ranges the set holds
  call   \* the method call that made the last change, with its arguments

Start(r) == r[1]
End(r) == r[2]
Ranges == {<<s, e>> \in (MinKey..MaxKey) \X (MinKey..MaxKey) : s < e}
Overlaps(r, t) == Start(r) < End(t) /\ Start(t) < End(r)
Contains(t, k) == Start(t) <= k /\ k < End(t)
CanSplitAt(t, k) == Start(t) < k /\ k < End(t)

(* Keys where one segment ends and the next one starts. *)
Joints(S) == {End(t) : t \in S} \cap {Start(u) : u \in S}

(* Merge every adjacent pair whose shared boundary is in X. *)
JoinAt(S, X) ==
  LET cut == Joints(S) \cap X
      firsts == {Start(t) : t \in S} \ cut
      EndFrom(s) == CHOOSE e \in {End(t) : t \in S} \ cut :
                      /\ e > s
                      /\ \A f \in {End(t) : t \in S} \ cut : f > s => e <= f
  IN {<<s, EndFrom(s)>> : s \in firsts}

(* Split the segment that strictly contains k, if any. *)
CutAt(S, k) ==
  LET hit == {t \in S : CanSplitAt(t, k)}
  IN (S \ hit) \cup {<<Start(t), k>> : t \in hit} \cup {<<k, End(t)>> : t \in hit}

(* Every key of [a, b) lies in some segment. *)
Covered(S, a, b) == \A x \in a..(b - 1) : \E t \in S : Contains(t, x)

(* Each method's effect, as a function of the set S it is called on. *)
FreeIn(S, r) == \A t \in S : ~Overlaps(r, t)

(* Add: insert r if it overlaps nothing, merged with the segments that     *)
(* end where it starts and start where it ends.                            *)
AddTo(S, r) == IF FreeIn(S, r) THEN JoinAt(S \cup {r}, {Start(r), End(r)}) ELSE S

AddWithoutMergingTo(S, r) == IF FreeIn(S, r) THEN S \cup {r} ELSE S

(* Remove the segment that contains key k (found with FindSegment). *)
RemoveFrom(S, k) == {t \in S : ~Contains(t, k)}

(* RemoveRange: every key of r leaves the set; what lies outside r stays. *)
RemoveRangeFrom(S, r) ==
  {t \in S : ~Overlaps(t, r)}
  \cup {<<Start(t), Start(r)>> : t \in {u \in S : Overlaps(u, r) /\ Start(u) < Start(r)}}
  \cup {<<End(r), End(t)>> : t \in {u \in S : Overlaps(u, r) /\ End(r) < End(u)}}

(* SetRange, SetStart, SetEnd: segment t takes the range r, when r       *)
(* overlaps none of the others.                                            *)
SetRangeIn(S, t, r) == IF FreeIn(S \ {t}, r) THEN (S \ {t}) \cup {r} ELSE S

(* MergeAll merges at every joint, MergeRange at the joints strictly      *)
(* inside r, MergeAdjacent at r.Start's segment start and r.End-1's        *)
(* segment end (MergeRangeCut and MergeAdjacentCut below).                 *)

(* ApplyContiguous: isolate r within the run of adjacent segments that     *)
(* starts at the segment holding r.Start; the callback leaves the set as   *)
(* it is.                                                                  *)
ApplyContiguousTo(S, r) ==
  LET s1 == CutAt(S, Start(r))
      reach == \E t \in s1 : CanSplitAt(t, End(r)) /\ Covered(s1, Start(r), Start(t) + 1)
  IN IF reach THEN CutAt(s1, End(r)) ELSE s1

-----------------------------------------------------------------------------
(* The boundaries each merging method removes, for a call with range r:  *)
(* MergeRange those strictly inside r, MergeAdjacent the start of the     *)
(* segment holding r.Start and the end of the one holding r.End-1.        *)
MergeRangeCut(S, r) == Joints(S) \cap {x \in MinKey..MaxKey : Start(r) < x /\ x < End(r)}
MergeAdjacentCut(S, r) ==
  Joints(S) \cap ({Start(t) : t \in {u \in S : Contains(u, Start(r))}}
                  \cup {End(t) : t \in {u \in S : Contains(u, End(r) - 1)}})

(* The maximal gaps of S, the ranges a gap iterator stands for. *)
Gaps(S) ==
  {g \in Ranges : /\ FreeIn(S, g)
                  /\ Start(g) = MinKey \/ \E t \in S : End(t) = Start(g)
                  /\ End(g) = MaxKey \/ \E t \in S : Start(t) = End(g)}

(* The segment after t in key order, if any. *)
Successors(S, t) == {u \in S : Start(t) < Start(u) /\ \A v \in S : Start(t) < Start(v) => Start(u) <= Start(v)}

(* A method call: its name and its arguments. An iterator argument is the *)
(* range of the segment or gap it points at.                              *)
Keys == MinKey..MaxKey
Calls ==
  [op : {"Add", "AddWithoutMerging", "RemoveRange", "MergeRange", "MergeAdjacent",
         "ApplyContiguous"}, r : Ranges]
  \cup [op : {"Remove", "SplitAt"}, k : Keys]
  \cup [op : {"InsertWithoutMerging"}, gap : Ranges, r : Ranges]
  \cup [op : {"Merge"}, first : Ranges, second : Ranges]
  \cup [op : {"Split", "SetStart", "SetEnd"}, seg : Ranges, k : Keys]
  \cup [op : {"SetRange"}, seg : Ranges, r : Ranges]
  \cup [op : {"RemoveAll", "MergeAll", "SaveRestore"}]
NoCall == [op |-> "none"]

Init == segs = {} /\ call = NoCall

(* Each method, for the call c it is given: its precondition (what the    *)
(* code panics on, or the iterator it is handed being valid) and its       *)
(* effect on the set.                                                      *)
Add(c) == segs' = AddTo(segs, c.r)
AddWithoutMerging(c) == segs' = AddWithoutMergingTo(segs, c.r)
Remove(c) == (\E t \in segs : Contains(t, c.k)) /\ segs' = RemoveFrom(segs, c.k)
RemoveRange(c) == segs' = RemoveRangeFrom(segs, c.r)
RemoveAll(c) == segs' = {}
MergeAll(c) == segs' = JoinAt(segs, Joints(segs))
MergeRange(c) == segs' = JoinAt(segs, MergeRangeCut(segs, c.r))
MergeAdjacent(c) == segs' = JoinAt(segs, MergeAdjacentCut(segs, c.r))
SplitAt(c) == segs' = CutAt(segs, c.k)
ApplyContiguous(c) == segs' = ApplyContiguousTo(segs, c.r)
InsertWithoutMerging(c) ==
  /\ c.gap \in Gaps(segs) /\ Start(c.gap) <= Start(c.r) /\ End(c.r) <= End(c.gap)
  /\ segs' = segs \cup {c.r}
(* Merge joins the two only when they touch (MergeUnchecked). *)
Merge(c) ==
  /\ c.first \in segs /\ c.second \in Successors(segs, c.first)
  /\ segs' = IF End(c.first) = Start(c.second)
               THEN (segs \ {c.first, c.second}) \cup {<<Start(c.first), End(c.second)>>}
               ELSE segs
Split(c) ==
  /\ c.seg \in segs /\ CanSplitAt(c.seg, c.k)
  /\ segs' = (segs \ {c.seg}) \cup {<<Start(c.seg), c.k>>, <<c.k, End(c.seg)>>}
SetRangeTo(c, r) ==
  /\ r \in Ranges /\ c.seg \in segs /\ FreeIn(segs \ {c.seg}, r)
  /\ segs' = (segs \ {c.seg}) \cup {r}
SetRange(c) == SetRangeTo(c, c.r)
SetStart(c) == SetRangeTo(c, <<c.k, End(c.seg)>>)
SetEnd(c) == SetRangeTo(c, <<Start(c.seg), c.k>>)
(* saveRoot and loadRoot hand back the same set. *)
SaveRestore(c) == segs' = segs

Next ==
  LET c == call' IN
  /\ c \in Calls
  /\ \/ c.op = "Add" /\ Add(c)
     \/ c.op = "AddWithoutMerging" /\ AddWithoutMerging(c)
     \/ c.op = "Remove" /\ Remove(c)
     \/ c.op = "RemoveRange" /\ RemoveRange(c)
     \/ c.op = "RemoveAll" /\ RemoveAll(c)
     \/ c.op = "MergeAll" /\ MergeAll(c)
     \/ c.op = "MergeRange" /\ MergeRange(c)
     \/ c.op = "MergeAdjacent" /\ MergeAdjacent(c)
     \/ c.op = "SplitAt" /\ SplitAt(c)
     \/ c.op = "ApplyContiguous" /\ ApplyContiguous(c)
     \/ c.op = "InsertWithoutMerging" /\ InsertWithoutMerging(c)
     \/ c.op = "Merge" /\ Merge(c)
     \/ c.op = "Split" /\ Split(c)
     \/ c.op = "SetRange" /\ SetRange(c)
     \/ c.op = "SetStart" /\ SetStart(c)
     \/ c.op = "SetEnd" /\ SetEnd(c)
     \/ c.op = "SaveRestore" /\ SaveRestore(c)

Spec == Init /\ [][Next]_<<segs, call>>

(* The set's own invariant: non-empty, disjoint ranges. *)
Disjoint ==
  /\ segs \subseteq Ranges
  /\ \A t, u \in segs : t # u => ~Overlaps(t, u)

=============================================================================
