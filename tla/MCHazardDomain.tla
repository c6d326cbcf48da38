--------------------------- MODULE MCHazardDomain ---------------------------
(***************************************************************************)
(* TLC instances of HazardDomain.                                          *)
(***************************************************************************)
EXTENDS HazardDomain, TLC

CONSTANTS t1, t2, t3, a, b, c, d

TwoThreads   == {t1, t2}
ThreeThreads == {t1, t2, t3}
OnePtr       == {a}
TwoPtrs      == {a, b}
ThreePtrs    == {a, b, c}
FourPtrs     == {a, b, c, d}

\* Threads are alike, and so are buffers.
ThreadPtrSymmetry == Permutations(ThreeThreads) \cup Permutations(FourPtrs)
=============================================================================
