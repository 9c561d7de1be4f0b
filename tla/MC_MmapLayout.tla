--------------------------- MODULE MC_MmapLayout ---------------------------
(* MmapLayout instantiated with platform bounds from a full 47-bit address *)
(* space down to one page, and stack limits from Linux's default 8 MiB to  *)
(* RLIMIT_INFINITY.                                                        *)
EXTENDS MmapLayout

\* MinUserAddress: none, an unaligned one, and one whose RoundUp wraps.
MCMinIn == {Zero, FromNat(4097), Infinity}
\* MaxUserAddress: above the 47-bit user limit, 8 TB, 4 TB, 1 TB, 256 GB
\* (a 39-bit guest physical space halved) and a single page.
MCMaxIn == {Infinity, Pow2(43), Pow2(42), Pow2(40), Pow2(38), FromNat(4096)}
\* RLIMIT_STACK Cur: 8 MiB, 512 GB (a gap for which shrinking maxRand fits),
\* 64 TB, RLIM_INFINITY.
MCStackIn == {Pow2(23), Pow2(39), Pow2(46), Infinity}

\* The limb arithmetic agrees with the integers where both are defined.
Small == {0, 1, 4095, 4097, 65535, 65536, 1000000, 1073741823}
ASSUME \A x, y \in Small :
         /\ AddU(FromNat(x), FromNat(y)) = FromNat(x + y)
         /\ x >= y => SubU(FromNat(x), FromNat(y)) = FromNat(x - y)
         /\ LtU(FromNat(x), FromNat(y)) = (x < y)
         /\ y \in 1..6 => DivSmall(FromNat(x), y) = FromNat(x \div y)
         /\ y \in 1..6 => MulSmall(FromNat(x), y) = FromNat(x * y)
\* ... and wraps modulo 2^64.
ASSUME /\ SubU(Zero, FromNat(1)) = Infinity
       /\ AddU(Infinity, FromNat(1)) = Zero /\ AddOverflows(Infinity, FromNat(1))
       /\ MulSmall(DivSmall(Pow2(47), 2), 2) = Pow2(47)
=============================================================================
