----------------------------- MODULE MmapLayout -----------------------------
(***************************************************************************)
(* The amd64 mmap layout of a new address space (pkg/sentry/arch/arch.go): *)
(* Context64.NewMmapLayout and MmapLayout.Valid.                           *)
(* The code computes in hostarch.Addr, a uint64 that wraps; TLC's integers *)
(* are 32-bit, so a uint64 is four 16-bit limbs, least significant first,  *)
(* and every +, -, / and comparison below works limb-wise modulo 2^64.     *)
(* The model is one call NewMmapLayout(min, max, r). The random draws     *)
(* rand.Int63n(n) are a choice among the lowest, a middle and the highest  *)
(* value it can return.                                                    *)
(***************************************************************************)
EXTENDS Integers

CONSTANTS
  MinIn,      \* the platform's MinUserAddress values tried, as U64
  MaxIn,      \* the platform's MaxUserAddress values tried, as U64
  StackIn     \* RLIMIT_STACK soft limits (limits.Stack's Cur) tried, as U64

VARIABLE
  result  \* NewMmapLayout's outcome, [kind |-> "none"] before the call
vars == <<result>>

---------------------------------------------------------------------------
(* uint64 as four base-2^16 limbs. *)
Base == 65536
Limbs == 0..3
U64 == [Limbs -> 0..Base - 1]

FromNat(n) == [i \in Limbs |-> CASE i = 0 -> n % Base
                                 [] i = 1 -> (n \div Base) % Base
                                 [] OTHER -> 0]
Pow2(k) == [i \in Limbs |-> IF i = k \div 16 THEN 2^(k % 16) ELSE 0]
Zero == FromNat(0)

\* Carry into limb i of a + b; carry[4] is the carry out of the top limb.
AddCarry(a, b) ==
  LET c[i \in 0..4] == IF i = 0 THEN 0 ELSE (a[i-1] + b[i-1] + c[i-1]) \div Base
  IN c
AddU(a, b) == LET c == AddCarry(a, b) IN [i \in Limbs |-> (a[i] + b[i] + c[i]) % Base]
AddOverflows(a, b) == AddCarry(a, b)[4] = 1

\* Borrow into limb i of a - b; borrow[4] = 1 exactly when a < b.
SubBorrow(a, b) ==
  LET w[i \in 0..4] == IF i = 0 THEN 0 ELSE IF a[i-1] - b[i-1] - w[i-1] < 0 THEN 1 ELSE 0
  IN w
SubU(a, b) == LET w == SubBorrow(a, b) IN [i \in Limbs |-> (a[i] - b[i] - w[i]) % Base]
LtU(a, b) == SubBorrow(a, b)[4] = 1
LeU(a, b) == ~LtU(b, a)

\* Long division by a small divisor d, top limb first: r[j] is the
\* remainder after the j most significant limbs.
DivSmall(a, d) ==
  LET r[j \in 0..4] == IF j = 0 THEN 0 ELSE (r[j-1] * Base + a[4-j]) % d
  IN [i \in Limbs |-> (r[3-i] * Base + a[i]) \div d]
MulSmall(a, m) ==
  LET c[i \in 0..4] == IF i = 0 THEN 0 ELSE (a[i-1] * m + c[i-1]) \div Base
  IN [i \in Limbs |-> (a[i] * m + c[i]) % Base]

---------------------------------------------------------------------------
(* hostarch.Addr helpers and limits.Infinity (outside this tree). *)
PageSize == 4096
RoundDown(a) == [a EXCEPT ![0] = @ - (@ % PageSize)]
\* RoundUp: x + PageSize - 1 rounded down, ok = FALSE when that wraps.
RoundUp(a) == [val |-> RoundDown(AddU(a, FromNat(PageSize - 1))),
               ok  |-> ~AddOverflows(a, FromNat(PageSize - 1))]
AddLength(a, len) == [val |-> AddU(a, len), ok |-> ~AddOverflows(a, len)]
Infinity == [i \in Limbs |-> Base - 1]

---------------------------------------------------------------------------
(* The layout constants, built as the source writes them. *)
maxAddr64 == SubU(Pow2(47), FromNat(PageSize))
maxStackRand64 == Pow2(34)
maxMmapRand64 == Pow2(40)
minGap64 == AddU(Pow2(27), maxStackRand64)
preferredTopDownAllocMin == [Zero EXCEPT ![2] = 32384]  \* 0x7e80_0000_0000
preferredAllocationGap == Pow2(37)
preferredTopDownBaseMin == AddU(preferredTopDownAllocMin, preferredAllocationGap)
minMmapRand64 == Pow2(38)

MmapBottomUp == "BottomUp"
MmapTopDown == "TopDown"

\* The values rand.Int63n(n) may return that the model tries: 0, n/2, n-1.
Picks == {"low", "mid", "high"}
Int63n(n, pick) == CASE pick = "low" -> Zero
                     [] pick = "mid" -> DivSmall(n, 2)
                     [] pick = "high" -> SubU(n, FromNat(1))

mmapRand(max, pick) == RoundDown(Int63n(max, pick))

Valid(m) ==
  /\ LeU(m.MinAddr, m.MaxAddr)
  /\ LeU(m.MinAddr, m.BottomUpBase) /\ LeU(m.BottomUpBase, m.MaxAddr)
  /\ LeU(m.MinAddr, m.TopDownBase) /\ LeU(m.TopDownBase, m.MaxAddr)

\* Context64.NewMmapLayout: a result record of kind "einval", "panic" (the
\* final sanity check failed; the layout that failed it is kept) or "ok".
NewMmapLayout(min0, max0, stackCur, pick) ==
  LET ru     == RoundUp(min0)
      min    == ru.val
      max    == RoundDown(IF LtU(maxAddr64, max0) THEN maxAddr64 ELSE max0)
      maxGap == MulSmall(DivSmall(max, 6), 5)
      gap1   == IF LtU(stackCur, minGap64) THEN minGap64 ELSE stackCur
      gap    == IF LtU(maxGap, gap1) THEN maxGap ELSE gap1
      dir    == IF stackCur = Infinity THEN MmapBottomUp ELSE MmapTopDown
      topDownMin == SubU(SubU(max, gap), maxMmapRand64)
      maxAdjust  == SubU(maxMmapRand64, minMmapRand64)
      needAdjust == SubU(preferredTopDownBaseMin, topDownMin)
      maxRand == IF LtU(topDownMin, preferredTopDownBaseMin) /\ LeU(needAdjust, maxAdjust)
                 THEN SubU(maxMmapRand64, needAdjust) ELSE maxMmapRand64
      rnd == mmapRand(maxRand, pick)
      l == [MinAddr |-> min, MaxAddr |-> max,
            BottomUpBase |-> RoundDown(AddU(DivSmall(max, 3), rnd)),
            TopDownBase |-> RoundDown(SubU(SubU(max, gap), rnd)),
            DefaultDirection |-> dir, MaxStackRand |-> maxRand]
  IN CASE ~ru.ok          -> [kind |-> "einval"]
       [] LtU(max, min)   -> [kind |-> "einval"]
       [] ~Valid(l)       -> [kind |-> "panic", layout |-> l]
       [] OTHER           -> [kind |-> "ok", layout |-> l]

---------------------------------------------------------------------------
Init == result = [kind |-> "none"]

\* The MM is created: NewMmapLayout with the platform's bounds and the
\* task's stack limit.
NewLayout ==
  /\ result.kind = "none"
  /\ \E min \in MinIn, max \in MaxIn, cur \in StackIn, pick \in Picks :
       result' = NewMmapLayout(min, max, cur, pick)

Next == NewLayout

Spec == Init /\ [][Next]_vars

---------------------------------------------------------------------------
TypeOK == result.kind \in {"none", "einval", "panic", "ok"}

(* NewMmapLayout either fails with EINVAL or returns a layout: its         *)
(* interface comment promises a layout with MinAddr >= min and             *)
(* MaxAddr <= max, and the spec keeps panics for broken invariants, never *)
(* for a platform's bounds or a task's RLIMIT_STACK. The code's final     *)
(* `if !l.Valid() { panic }` must therefore never fire.                   *)
LayoutNeverPanics == result.kind # "panic"
=============================================================================
