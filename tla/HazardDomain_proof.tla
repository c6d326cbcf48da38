------------------------- MODULE HazardDomain_proof -------------------------
(***************************************************************************)
(* Proofs about HazardDomain, for any threads, slots, batch and buffers:   *)
(* who owns a slot, that Acquire always finds one, where every buffer is,  *)
(* and that no buffer is reclaimed under its guard.                        *)
(***************************************************************************)
EXTENDS HazardDomain, SequenceTheorems, FiniteSetTheorems, FunctionTheorems, TLAPS

(***************************************************************************)
(* The inductive invariant.                                                *)
(***************************************************************************)
Scanning == {"scan_use", "scan_hz", "sort"}

\* A buffer is somewhere: the first half of OnePlaceEach.
MadeInv ==
    /\ IsFiniteSet(made)
    /\ made = live \cup Pending \cup Waiting \cup Elems(remaining) \cup Elems(pool)

\* What a thread's control point says of its locals, and who holds the mutex.
ControlInv ==
    /\ count = Len(list)
    /\ mu = None \/ pc[mu] # "sort" => remaining = <<>>
    /\ \A t \in Threads :
           /\ pc[t] \in Scanning <=> mu = t
           /\ arg[t] # None <=> pc[t] = "retire"
           /\ pc[t] = "acquire" => slot[t] = None /\ idx[t] >= 1
           /\ pc[t] = "release" => slot[t] # None
           /\ pc[t] = "scan_use" => idx[t] \in 1 .. Slots + 1
           /\ pc[t] = "scan_hz" => idx[t] \in 1 .. Slots
           /\ pc[t] = "sort" => idx[t] \in 1 .. Len(list) + 1

\* What a guard protects is in its slot until it is cleared or released.
CoverInv ==
    \A t \in Threads :
        /\ pc[t] = "release" => hz[slot[t]] = None
        /\ covered[t] # None => slot[t] # None /\ hz[slot[t]] = covered[t]

\* The Scan in progress has a retired pointer that is protected in its set, or
\* has not come to the slot yet.  A pointer that is protected only now is
\* live, and not in the list of this Scan.
ScanSees ==
    mu # None =>
        \A t \in Threads :
            covered[t] \in Waiting =>
                \/ covered[t] \in hazardSet
                \/ pc[mu] \in {"scan_use", "scan_hz"} /\ idx[mu] <= slot[t]

\* A sequence without repetitions from position m on.
DistinctFrom(m, s) == \A i, j \in m .. Len(s) : s[i] = s[j] => i = j

\* The five places are disjoint.
Apart ==
    /\ live \cap Pending = {} /\ live \cap Waiting = {}
    /\ live \cap Elems(remaining) = {} /\ live \cap Elems(pool) = {}
    /\ Pending \cap Waiting = {} /\ Pending \cap Elems(remaining) = {}
    /\ Pending \cap Elems(pool) = {}
    /\ Waiting \cap Elems(remaining) = {} /\ Waiting \cap Elems(pool) = {}
    /\ Elems(remaining) \cap Elems(pool) = {}

\* None of them has a pointer twice.
NoRepeats ==
    /\ \A s, t \in Threads : arg[s] = arg[t] /\ arg[s] # None => s = t
    /\ DistinctFrom(Scanned + 1, list)
    /\ DistinctFrom(1, remaining) /\ DistinctFrom(1, pool)

\* The set of hazards has one pointer per slot at most, and what the Scan
\* keeps is in it.
HazardBound ==
    /\ IsFiniteSet(hazardSet)
    /\ Elems(remaining) \subseteq hazardSet
    /\ mu # None =>
           /\ pc[mu] \in {"scan_use", "scan_hz"} => Cardinality(hazardSet) <= idx[mu] - 1
           /\ Cardinality(hazardSet) <= Slots

(***************************************************************************)
(* The steps.                                                              *)
(***************************************************************************)
Step(t) ==
    \/ Acquire(t) \/ AcquireSlot(t) \/ AcquireNext(t) \/ AcquirePanics(t)
    \/ \E p \in made : Protect(t, p)
    \/ Clear(t) \/ Release(t) \/ ReleaseSlot(t)
    \/ AllocPooled(t)
    \/ \E p \in Ptrs : AllocNew(t, p)
    \/ \E p \in Ptrs : Free(t, p)
    \/ Retire(t)
    \/ CallScan(t) \/ ScanLock(t) \/ ScanUse(t) \/ ScanHz(t) \/ ScanSlotsDone(t)
    \/ KeepNode(t) \/ ReclaimNode(t) \/ ScanUnlock(t)

LEMMA NextStep == [Next]_vars => UNCHANGED vars \/ (~ crashed /\ \E t \in Threads : Step(t))
BY DEF Next, Guard, PoolOp, Scan, Step

(***************************************************************************)
(* Sequences.                                                              *)
(***************************************************************************)
LEMMA DropLast ==
    ASSUME NEW S, NEW s \in Seq(S), s # <<>>
    PROVE  /\ Len(s) \in Nat /\ Len(s) >= 1
           /\ s[Len(s)] \in S /\ SubSeq(s, 1, Len(s) - 1) \in Seq(S)
           /\ Len(SubSeq(s, 1, Len(s) - 1)) = Len(s) - 1
           /\ \A i \in 1 .. Len(s) - 1 : SubSeq(s, 1, Len(s) - 1)[i] = s[i]
<1>1. Len(s) \in Nat /\ Len(s) >= 1
  BY LenProperties, EmptySeq
<1>2. \A i \in 1 .. Len(s) : s[i] \in S
  BY ElementOfSeq
<1> DEFINE n == Len(s) - 1
<1>3. n \in Int /\ 1 \in Int /\ n >= 0 /\ \A i \in 1 .. n : s[i] \in S
  BY <1>1, <1>2
<1>4. /\ SubSeq(s, 1, n) \in Seq(S)
      /\ Len(SubSeq(s, 1, n)) = IF 1 <= n THEN n - 1 + 1 ELSE 0
      /\ \A i \in 1 .. n - 1 + 1 : SubSeq(s, 1, n)[i] = s[1 + i - 1]
  BY <1>3, SubSeqProperties
<1> HIDE DEF n
<1>5. /\ Len(SubSeq(s, 1, n)) = n
      /\ \A i \in 1 .. n : SubSeq(s, 1, n)[i] = s[i]
  BY <1>3, <1>4
<1> QED
  BY <1>1, <1>2, <1>4, <1>5 DEF n

LEMMA AppendLast ==
    ASSUME NEW S, NEW s \in Seq(S), NEW e \in S
    PROVE  /\ Append(s, e) \in Seq(S) /\ Len(s) \in Nat /\ Len(Append(s, e)) = Len(s) + 1
           /\ \A i \in 1 .. Len(s) : Append(s, e)[i] = s[i]
           /\ Append(s, e)[Len(s) + 1] = e
BY AppendProperties, LenProperties

(***************************************************************************)
(* Types and control points.                                               *)
(***************************************************************************)
LEMMA TypeStep == TypeOK /\ ControlInv /\ MadeInv /\ [Next]_vars => TypeOK'
<1> SUFFICES ASSUME TypeOK, ControlInv, MadeInv, [Next]_vars PROVE TypeOK'
  OBVIOUS
<1> USE DEF TypeOK, Goto, GotoAt, guardVars, poolVars, scanVars
<1>1. CASE UNCHANGED vars
  BY <1>1 DEF vars
<1>2. ASSUME NEW t \in Threads, Step(t) PROVE TypeOK'
  <2>1. CASE Acquire(t)
    BY <2>1 DEF Acquire
  <2>2. CASE AcquireSlot(t)
    <3>1. idx[t] \in 1 .. Slots
      BY <2>2, SlotsAssumption DEF AcquireSlot, ControlInv
    <3> QED
      BY <2>2, <3>1 DEF AcquireSlot
  <2>3. CASE AcquireNext(t)
    BY <2>3 DEF AcquireNext
  <2>4. CASE AcquirePanics(t)
    BY <2>4 DEF AcquirePanics
  <2>5. CASE \E p \in made : Protect(t, p)
    BY <2>5 DEF Protect
  <2>6. CASE Clear(t)
    BY <2>6 DEF Clear
  <2>7. CASE Release(t)
    BY <2>7 DEF Release
  <2>8. CASE ReleaseSlot(t)
    BY <2>8 DEF ReleaseSlot
  <2>9. CASE AllocPooled(t)
    <3>1. /\ pool[Len(pool)] \in Ptrs /\ pool' \in Seq(Ptrs)
          /\ Len(pool) \in 1 .. Len(pool)
      BY <2>9, DropLast DEF AllocPooled
    <3>2. pool[Len(pool)] \in made
      BY <3>1 DEF MadeInv, Elems
    <3> QED
      BY <2>9, <3>1, <3>2 DEF AllocPooled
  <2>10. CASE \E p \in Ptrs : AllocNew(t, p)
    BY <2>10 DEF AllocNew
  <2>11. CASE \E p \in Ptrs : Free(t, p)
    BY <2>11 DEF Free
  <2>12. CASE Retire(t)
    <3>1. arg[t] \in Ptrs
      BY <2>12 DEF Retire, ControlInv
    <3>2. list' \in Seq(Ptrs)
      BY <2>12, <3>1, AppendLast DEF Retire
    <3>3. count' \in Nat /\ pc' \in [Threads -> {"idle", "acquire", "release", "retire", "scan",
                           "scan_use", "scan_hz", "sort"}]
      BY <2>12 DEF Retire
    <3> QED
      BY <2>12, <3>2, <3>3 DEF Retire
  <2>13. CASE CallScan(t)
    BY <2>13 DEF CallScan
  <2>14. CASE ScanLock(t)
    BY <2>14 DEF ScanLock
  <2>15. CASE ScanUse(t)
    <3>1. /\ UNCHANGED <<hz, inUse, list, remaining, pool, count, mu, hazardSet, made, live, crashed,
                         slot, prev, arg, covered>>
          /\ idx[t] + 1 \in Nat
      BY <2>15 DEF ScanUse
    <3>2. CASE inUse[idx[t]]
      BY <2>15, <3>1, <3>2 DEF ScanUse
    <3>3. CASE ~ inUse[idx[t]]
      BY <2>15, <3>1, <3>3 DEF ScanUse
    <3> QED
      BY <3>2, <3>3
  <2>16. CASE ScanHz(t)
    <3>1. idx[t] \in 1 .. Slots
      BY <2>16, SlotsAssumption DEF ScanHz, ControlInv
    <3>2. hz[idx[t]] \in Ptrs \cup {None} /\ idx[t] + 1 \in Nat
      BY <3>1
    <3> QED
      BY <2>16, <3>1, <3>2 DEF ScanHz
  <2>17. CASE ScanSlotsDone(t)
    BY <2>17 DEF ScanSlotsDone
  <2>18. CASE KeepNode(t)
    <3>1. list[idx[t]] \in Ptrs /\ idx[t] + 1 \in Nat
      BY <2>18, ElementOfSeq, LenProperties DEF KeepNode, ControlInv
    <3>2. remaining' \in Seq(Ptrs)
      BY <2>18, <3>1, AppendLast DEF KeepNode
    <3> QED
      BY <2>18, <3>1, <3>2 DEF KeepNode
  <2>19. CASE ReclaimNode(t)
    <3>1. list[idx[t]] \in Ptrs /\ idx[t] + 1 \in Nat
      BY <2>19, ElementOfSeq, LenProperties DEF ReclaimNode, ControlInv
    <3>2. pool' \in Seq(Ptrs)
      BY <2>19, <3>1, AppendLast DEF ReclaimNode
    <3> QED
      BY <2>19, <3>1, <3>2 DEF ReclaimNode
  <2>20. CASE ScanUnlock(t)
    BY <2>20 DEF ScanUnlock
  <2> QED
    BY <1>2, <2>1, <2>2, <2>3, <2>4, <2>5, <2>6, <2>7, <2>8, <2>9, <2>10, <2>11,
       <2>12, <2>13, <2>14, <2>15, <2>16, <2>17, <2>18, <2>19, <2>20 DEF Step
<1> QED
  BY <1>1, <1>2, NextStep

LEMMA ControlStep == TypeOK /\ ControlInv /\ [Next]_vars => ControlInv'
<1> SUFFICES ASSUME TypeOK, ControlInv, [Next]_vars PROVE ControlInv'
  OBVIOUS
<1> USE SlotsAssumption, NoneAssumption, LenProperties DEF TypeOK, ControlInv, Scanning, Goto, GotoAt, guardVars, poolVars, scanVars
<1>1. CASE UNCHANGED vars
  BY <1>1 DEF vars
<1>2. ASSUME NEW t \in Threads, Step(t) PROVE ControlInv'
  <2>1. CASE Acquire(t)
    BY <2>1 DEF Acquire
  <2>2. CASE AcquireSlot(t)
    BY <2>2, ZenonT(30) DEF AcquireSlot
  <2>3. CASE AcquireNext(t)
    BY <2>3 DEF AcquireNext
  <2>4. CASE AcquirePanics(t)
    BY <2>4 DEF AcquirePanics
  <2>5. CASE \E p \in made : Protect(t, p)
    BY <2>5 DEF Protect
  <2>6. CASE Clear(t)
    BY <2>6 DEF Clear
  <2>7. CASE Release(t)
    BY <2>7 DEF Release
  <2>8. CASE ReleaseSlot(t)
    BY <2>8, SMTT(30) DEF ReleaseSlot
  <2>9. CASE AllocPooled(t)
    BY <2>9 DEF AllocPooled
  <2>10. CASE \E p \in Ptrs : AllocNew(t, p)
    BY <2>10 DEF AllocNew
  <2>11. CASE \E p \in Ptrs : Free(t, p)
    <3>1. PICK p \in Ptrs : Free(t, p)
      BY <2>11
    <3>2. p # None
      BY NoneAssumption
    <3> QED
      BY <3>1, <3>2 DEF Free
  <2>12. CASE Retire(t)
    BY <2>12 DEF Retire
  <2>13. CASE CallScan(t)
    BY <2>13 DEF CallScan
  <2>14. CASE ScanLock(t)
    BY <2>14 DEF ScanLock
  <2>15. CASE ScanUse(t)
    BY <2>15 DEF ScanUse
  <2>16. CASE ScanHz(t)
    BY <2>16 DEF ScanHz
  <2>17. CASE ScanSlotsDone(t)
    BY <2>17 DEF ScanSlotsDone
  <2>18. CASE KeepNode(t)
    BY <2>18 DEF KeepNode
  <2>19. CASE ReclaimNode(t)
    BY <2>19, SMTT(30) DEF ReclaimNode
  <2>20. CASE ScanUnlock(t)
    BY <2>20 DEF ScanUnlock
  <2> QED
    BY <1>2, <2>1, <2>2, <2>3, <2>4, <2>5, <2>6, <2>7, <2>8, <2>9, <2>10, <2>11,
       <2>12, <2>13, <2>14, <2>15, <2>16, <2>17, <2>18, <2>19, <2>20 DEF Step
<1> QED
  BY <1>1, <1>2, NextStep

(***************************************************************************)
(* Slots and what they protect.                                            *)
(***************************************************************************)

\* Only a guard's own operations touch its slot.
LEMMA OthersGuards ==
    ASSUME TypeOK, NEW t \in Threads, PoolOp(t) \/ Retire(t) \/ Scan(t)
    PROVE  /\ UNCHANGED guardVars
           /\ \A s \in Threads : /\ pc'[s] \in {"acquire", "release"} => pc'[s] = pc[s]
                                 /\ pc'[s] = "acquire" => idx'[s] = idx[s]
<1> USE DEF TypeOK, Goto, GotoAt
<1>1. CASE PoolOp(t) \/ Retire(t)
  BY <1>1 DEF PoolOp, AllocPooled, AllocNew, Free, Retire
<1>2. CASE CallScan(t) \/ ScanLock(t) \/ ScanUse(t) \/ ScanHz(t) \/ ScanSlotsDone(t)
  BY <1>2 DEF CallScan, ScanLock, ScanUse, ScanHz, ScanSlotsDone
<1>3. CASE KeepNode(t) \/ ReclaimNode(t) \/ ScanUnlock(t)
  BY <1>3 DEF KeepNode, ReclaimNode, ScanUnlock
<1> QED
  BY <1>1, <1>2, <1>3 DEF Scan

LEMMA SlotsStep == TypeOK /\ ControlInv /\ CoverInv /\ SlotsOwned /\ [Next]_vars => SlotsOwned'
<1> SUFFICES ASSUME TypeOK, ControlInv, CoverInv, SlotsOwned, [Next]_vars PROVE SlotsOwned'
  OBVIOUS
<1>1. CASE UNCHANGED guardVars
  BY <1>1 DEF guardVars, SlotsOwned
<1>2. ASSUME NEW t \in Threads, Guard(t) PROVE SlotsOwned'
  <2> USE SlotsAssumption, NoneAssumption
      DEF TypeOK, ControlInv, CoverInv, SlotsOwned, Goto, GotoAt, guardVars
  <2>1. CASE Acquire(t) \/ AcquireNext(t) \/ AcquirePanics(t)
    BY <2>1 DEF Acquire, AcquireNext, AcquirePanics
  <2>2. CASE AcquireSlot(t)
    BY <2>2 DEF AcquireSlot
  <2>3. CASE \E p \in made : Protect(t, p)
    BY <2>3 DEF Protect
  <2>4. CASE Clear(t)
    BY <2>4 DEF Clear
  <2>5. CASE Release(t)
    BY <2>5 DEF Release
  <2>6. CASE ReleaseSlot(t)
    BY <2>6 DEF ReleaseSlot
  <2> QED
    BY <1>2, <2>1, <2>2, <2>3, <2>4, <2>5, <2>6 DEF Guard
<1> QED
  BY <1>1, <1>2, OthersGuards DEF Next, vars, guardVars

LEMMA CoverStep == TypeOK /\ ControlInv /\ SlotsOwned /\ CoverInv /\ [Next]_vars => CoverInv'
<1> SUFFICES ASSUME TypeOK, ControlInv, SlotsOwned, CoverInv, [Next]_vars PROVE CoverInv'
  OBVIOUS
<1>1. CASE UNCHANGED vars
  BY <1>1 DEF vars, CoverInv
<1>2. ASSUME NEW t \in Threads, Guard(t) PROVE CoverInv'
  <2> USE SlotsAssumption, NoneAssumption
      DEF TypeOK, ControlInv, CoverInv, SlotsOwned, Goto, GotoAt, guardVars
  <2>1. CASE Acquire(t) \/ AcquireNext(t) \/ AcquirePanics(t)
    BY <2>1 DEF Acquire, AcquireNext, AcquirePanics
  <2>2. CASE AcquireSlot(t)
    BY <2>2 DEF AcquireSlot
  <2>3. CASE \E p \in made : Protect(t, p)
    BY <2>3 DEF Protect
  <2>4. CASE Clear(t)
    BY <2>4 DEF Clear
  <2>5. CASE Release(t)
    BY <2>5 DEF Release
  <2>6. CASE ReleaseSlot(t)
    BY <2>6 DEF ReleaseSlot
  <2> QED
    BY <1>2, <2>1, <2>2, <2>3, <2>4, <2>5, <2>6 DEF Guard
<1>3. ASSUME NEW t \in Threads, PoolOp(t) \/ Retire(t) \/ Scan(t) PROVE CoverInv'
  BY <1>3, OthersGuards DEF CoverInv, guardVars
<1> QED
  BY <1>1, <1>2, <1>3 DEF Next

(***************************************************************************)
(* What the Scan in progress sees.                                         *)
(***************************************************************************)

\* The Scan in progress, if there is one, stands where it stood.
ScanStill ==
    /\ UNCHANGED <<list, mu, hazardSet, remaining>>
    /\ mu # None => pc'[mu] = pc[mu] /\ idx'[mu] = idx[mu]

LEMMA GuardStill ==
    ASSUME TypeOK, ControlInv, NEW t \in Threads, Guard(t)
    PROVE  ScanStill /\ UNCHANGED <<list, count, arg, pool, made, live>>
<1> USE DEF ScanStill, TypeOK, ControlInv, Scanning, Goto, GotoAt, guardVars, poolVars, scanVars
<1>1. CASE Acquire(t) \/ AcquireSlot(t) \/ AcquireNext(t) \/ AcquirePanics(t)
  BY <1>1, NoneAssumption, ZenonT(30) DEF Acquire, AcquireSlot, AcquireNext, AcquirePanics
<1>2. CASE \E p \in made : Protect(t, p)
  BY <1>2, NoneAssumption DEF Protect
<1>3. CASE Clear(t)
  BY <1>3, NoneAssumption DEF Clear
<1>4. CASE Release(t) \/ ReleaseSlot(t)
  BY <1>4, NoneAssumption DEF Release, ReleaseSlot
<1> QED
  BY <1>1, <1>2, <1>3, <1>4 DEF Guard

LEMMA PoolStill ==
    ASSUME TypeOK, ControlInv, NEW t \in Threads, PoolOp(t) \/ CallScan(t)
    PROVE  ScanStill /\ UNCHANGED <<guardVars, list, count>>
<1> USE DEF ScanStill, TypeOK, ControlInv, Scanning, Goto, GotoAt, poolVars, scanVars
<1>1. CASE AllocPooled(t)
  BY <1>1, NoneAssumption DEF AllocPooled
<1>2. CASE \E p \in Ptrs : AllocNew(t, p) \/ Free(t, p)
  BY <1>2, NoneAssumption DEF AllocNew, Free
<1>3. CASE CallScan(t)
  BY <1>3, NoneAssumption DEF CallScan
<1> QED
  BY <1>1, <1>2, <1>3 DEF PoolOp

LEMMA WaitingStill ==
    ASSUME ScanStill
    PROVE  Scanned' = Scanned /\ Waiting' = Waiting
BY DEF ScanStill, Scanned, Waiting

LEMMA ScannedType ==
    ASSUME TypeOK, ControlInv
    PROVE  /\ Scanned \in Nat /\ Scanned <= Len(list) /\ Len(list) \in Nat
           /\ Waiting \subseteq Ptrs
           /\ mu # None => mu \in Threads /\ pc[mu] \in Scanning
<1>1. Len(list) \in Nat /\ \A i \in 1 .. Len(list) : list[i] \in Ptrs
  BY ElementOfSeq, LenProperties DEF TypeOK
<1>2. mu # None => mu \in Threads /\ pc[mu] \in Scanning
  BY DEF TypeOK, ControlInv
<1>3. Scanned \in Nat /\ Scanned <= Len(list)
  BY <1>1, <1>2 DEF TypeOK, ControlInv, Scanned
<1> QED
  BY <1>1, <1>2, <1>3 DEF Waiting

\* What a guard newly protects is live, or not protected in earnest.
LEMMA CoveredNew ==
    ASSUME TypeOK, ControlInv, CoverInv, NEW t \in Threads, Guard(t), NEW s \in Threads
    PROVE  \/ covered'[s] = None
           \/ covered'[s] \in live
           \/ covered'[s] = covered[s] /\ slot'[s] = slot[s]
<1> USE DEF TypeOK, ControlInv, CoverInv, Goto, GotoAt, guardVars
<1>1. CASE Acquire(t) \/ AcquireNext(t) \/ AcquirePanics(t)
  BY <1>1 DEF Acquire, AcquireNext, AcquirePanics
<1>2. CASE AcquireSlot(t)
  BY <1>2 DEF AcquireSlot
<1>3. CASE \E p \in made : Protect(t, p)
  BY <1>3 DEF Protect
<1>4. CASE Clear(t)
  BY <1>4 DEF Clear
<1>5. CASE Release(t)
  BY <1>5 DEF Release
<1>6. CASE ReleaseSlot(t)
  BY <1>6 DEF ReleaseSlot
<1> QED
  BY <1>1, <1>2, <1>3, <1>4, <1>5, <1>6 DEF Guard

LEMMA ScanSeesStep ==
    TypeOK /\ ControlInv /\ CoverInv /\ SlotsOwned /\ Apart /\ ScanSees /\ [Next]_vars => ScanSees'
<1> SUFFICES ASSUME TypeOK, ControlInv, CoverInv, SlotsOwned, Apart, ScanSees, [Next]_vars
             PROVE  ScanSees'
  OBVIOUS
<1>0. Scanned \in Nat /\ Waiting \subseteq Ptrs /\ live \cap Waiting = {}
  BY ScannedType DEF Apart
<1>1. CASE UNCHANGED vars
  BY <1>1 DEF vars, ScanSees, Waiting, Scanned
<1>2. ASSUME NEW t \in Threads, Guard(t) PROVE ScanSees'
  <2>1. ScanStill /\ Waiting' = Waiting
    BY <1>2, GuardStill, WaitingStill
  <2>2. SUFFICES ASSUME mu # None, NEW s \in Threads, covered'[s] \in Waiting
                 PROVE  \/ covered'[s] \in hazardSet
                        \/ pc[mu] \in {"scan_use", "scan_hz"} /\ idx[mu] <= slot'[s]
    BY <2>1 DEF ScanSees, ScanStill
  <2>3. covered'[s] # None /\ covered'[s] \notin live
    BY <1>0, <2>2, NoneAssumption
  <2>4. covered'[s] = covered[s] /\ slot'[s] = slot[s]
    BY <1>2, <2>3, CoveredNew
  <2> QED
    BY <2>2, <2>4 DEF ScanSees
<1>3. ASSUME NEW t \in Threads, PoolOp(t) \/ CallScan(t) PROVE ScanSees'
  <2>1. ScanStill /\ Waiting' = Waiting /\ UNCHANGED <<covered, slot>>
    BY <1>3, PoolStill, WaitingStill DEF guardVars
  <2> QED
    BY <2>1 DEF ScanSees, ScanStill
<1>4. ASSUME NEW t \in Threads, Retire(t) PROVE ScanSees'
  BY <1>4 DEF Retire, ScanSees
<1>5. ASSUME NEW t \in Threads, ScanLock(t) PROVE ScanSees'
  <2>1. mu' = t /\ pc'[t] = "scan_use" /\ idx'[t] = 1 /\ list' = list /\ UNCHANGED <<covered, slot>>
    BY <1>5 DEF ScanLock, TypeOK, Goto, GotoAt, guardVars
  <2>2. Waiting' \subseteq Ptrs
    BY <2>1, ElementOfSeq DEF Waiting, Scanned, TypeOK
  <2>3. ASSUME NEW s \in Threads, covered'[s] \in Waiting' PROVE 1 <= slot'[s]
    BY <2>1, <2>2, <2>3, NoneAssumption DEF CoverInv, TypeOK
  <2> QED
    BY <2>1, <2>3 DEF ScanSees
<1>6. ASSUME NEW t \in Threads, ScanUse(t) PROVE ScanSees'
  <2>1. mu = t /\ mu' = t /\ pc[t] = "scan_use" /\ pc'[t] \in {"scan_use", "scan_hz"}
    BY <1>6 DEF ScanUse, TypeOK, ControlInv, Scanning, Goto, GotoAt, scanVars
  <2>2. Waiting' = Waiting /\ UNCHANGED <<covered, slot, inUse, hazardSet>>
    BY <1>6, <2>1 DEF ScanUse, Waiting, Scanned, scanVars, guardVars
  <2>3. \/ idx'[t] = idx[t]
        \/ idx'[t] = idx[t] + 1 /\ ~ inUse[idx[t]] /\ idx[t] \in 1 .. Slots
    BY <1>6 DEF ScanUse, Goto, GotoAt, TypeOK, ControlInv
  <2>4. ASSUME NEW s \in Threads, covered[s] \in Waiting, covered[s] \notin hazardSet
        PROVE  idx'[t] <= slot[s]
    <3>1. slot[s] \in 1 .. Slots /\ idx[t] <= slot[s]
      BY <1>0, <2>1, <2>4, NoneAssumption DEF ScanSees, CoverInv, TypeOK
    <3>2. inUse[slot[s]]
      BY <3>1 DEF SlotsOwned
    <3> QED
      BY <2>3, <3>1, <3>2, SlotsAssumption DEF TypeOK
  <2> QED
    BY <2>1, <2>2, <2>4 DEF ScanSees
<1>7. ASSUME NEW t \in Threads, ScanHz(t) PROVE ScanSees'
  <2>1. mu = t /\ mu' = t /\ pc[t] = "scan_hz" /\ pc'[t] = "scan_use" /\ idx'[t] = idx[t] + 1
    BY <1>7 DEF ScanHz, TypeOK, ControlInv, Scanning, Goto, GotoAt
  <2>2. Waiting' = Waiting /\ UNCHANGED <<covered, slot>>
    BY <1>7, <2>1 DEF ScanHz, Waiting, Scanned, guardVars
  <2>3. hazardSet' = hazardSet \cup ({hz[idx[t]]} \ {None})
    BY <1>7 DEF ScanHz
  <2>4. ASSUME NEW s \in Threads, covered[s] \in Waiting, covered[s] \notin hazardSet'
        PROVE  idx[t] + 1 <= slot[s]
    <3>1. slot[s] \in 1 .. Slots /\ idx[t] <= slot[s] /\ hz[slot[s]] = covered[s] /\ covered[s] # None
      BY <1>0, <2>1, <2>3, <2>4, NoneAssumption DEF ScanSees, CoverInv, TypeOK
    <3> QED
      BY <2>3, <2>4, <3>1, SlotsAssumption DEF TypeOK
  <2> QED
    BY <2>1, <2>2, <2>4 DEF ScanSees
<1>8. ASSUME NEW t \in Threads, ScanSlotsDone(t) PROVE ScanSees'
  <2>1. mu = t /\ mu' = t /\ pc[t] = "scan_use" /\ pc'[t] = "sort" /\ idx'[t] = 1 /\ idx[t] > Slots
    BY <1>8 DEF ScanSlotsDone, TypeOK, ControlInv, Scanning, Goto, GotoAt, scanVars
  <2>2. Waiting' = Waiting /\ UNCHANGED <<covered, slot, hazardSet>>
    BY <1>8, <2>1 DEF ScanSlotsDone, Waiting, Scanned, guardVars, scanVars
  <2>3. ASSUME NEW s \in Threads, covered[s] \in Waiting, covered[s] \notin hazardSet PROVE FALSE
    <3>1. slot[s] \in 1 .. Slots /\ idx[t] <= slot[s]
      BY <1>0, <2>1, <2>3, NoneAssumption DEF ScanSees, CoverInv, TypeOK
    <3> QED
      BY <2>1, <3>1, SlotsAssumption DEF TypeOK
  <2> QED
    BY <2>1, <2>2, <2>3 DEF ScanSees
<1>9. ASSUME NEW t \in Threads, KeepNode(t) \/ ReclaimNode(t) PROVE ScanSees'
  <2>1. mu = t /\ mu' = t /\ pc[t] = "sort" /\ pc'[t] = "sort" /\ idx'[t] = idx[t] + 1
    BY <1>9 DEF KeepNode, ReclaimNode, TypeOK, ControlInv, Scanning, Goto, GotoAt, scanVars
  <2>2. UNCHANGED <<list, covered, slot, hazardSet>>
    BY <1>9 DEF KeepNode, ReclaimNode, guardVars, scanVars
  <2>3. Waiting' \subseteq Waiting
    BY <2>1, <2>2, NoneAssumption, LenProperties DEF Waiting, Scanned, TypeOK
  <2> QED
    BY <2>1, <2>2, <2>3 DEF ScanSees
<1>10. ASSUME NEW t \in Threads, ScanUnlock(t) PROVE ScanSees'
  BY <1>10 DEF ScanUnlock, ScanSees
<1> QED
  BY <1>1, <1>2, <1>3, <1>4, <1>5, <1>6, <1>7, <1>8, <1>9, <1>10 DEF Next, Scan

LEMMA ProtectedStep ==
    TypeOK /\ ControlInv /\ CoverInv /\ Apart /\ ScanSees /\ ProtectedNotReclaimed /\ [Next]_vars
        => ProtectedNotReclaimed'
<1> SUFFICES ASSUME TypeOK, ControlInv, CoverInv, Apart, ScanSees, ProtectedNotReclaimed, [Next]_vars
             PROVE  ProtectedNotReclaimed'
  OBVIOUS
<1>0. Elems(pool) \subseteq Ptrs /\ live \cap Elems(pool) = {}
  BY ElementOfSeq DEF Elems, TypeOK, Apart
<1>1. CASE UNCHANGED <<pool, covered>>
  BY <1>1 DEF ProtectedNotReclaimed, Elems
<1>2. ASSUME NEW t \in Threads, Guard(t) PROVE ProtectedNotReclaimed'
  <2>1. Elems(pool)' = Elems(pool)
    BY <1>2, GuardStill DEF Elems
  <2>2. ASSUME NEW s \in Threads PROVE covered'[s] \notin Elems(pool)
    BY <1>0, <1>2, CoveredNew, NoneAssumption DEF ProtectedNotReclaimed
  <2> QED
    BY <2>1, <2>2 DEF ProtectedNotReclaimed
<1>3. ASSUME NEW t \in Threads, AllocPooled(t) PROVE ProtectedNotReclaimed'
  <2>1. covered' = covered /\ pool # <<>> /\ pool' = SubSeq(pool, 1, Len(pool) - 1)
    BY <1>3 DEF AllocPooled, guardVars
  <2>2. Elems(pool)' \subseteq Elems(pool)
    BY <2>1, DropLast DEF Elems, TypeOK
  <2> QED
    BY <2>1, <2>2 DEF ProtectedNotReclaimed
<1>4. ASSUME NEW t \in Threads, ReclaimNode(t) PROVE ProtectedNotReclaimed'
  <2> DEFINE p == list[idx[t]]
  <2>1. /\ mu = t /\ pc[t] = "sort" /\ idx[t] \in 1 .. Len(list) /\ p \notin hazardSet
        /\ pool' = Append(pool, p) /\ covered' = covered /\ mu # None
    BY <1>4, NoneAssumption, LenProperties
       DEF ReclaimNode, guardVars, TypeOK, ControlInv, Scanning
  <2>2. p \in Waiting /\ p \in Ptrs
    BY <2>1, ElementOfSeq, LenProperties DEF Waiting, Scanned, TypeOK
  <2>3. \A s \in Threads : covered[s] # p
    BY <2>1, <2>2 DEF ScanSees
  <2>4. Elems(pool)' \subseteq Elems(pool) \cup {p}
    <3> HIDE DEF p
    <3> QED
      BY <2>1, <2>2, AppendLast DEF Elems, TypeOK
  <2> QED
    BY <2>1, <2>3, <2>4 DEF ProtectedNotReclaimed
<1>5. ASSUME NEW t \in Threads, PoolOp(t) \/ Retire(t) \/ Scan(t),
             ~ AllocPooled(t), ~ ReclaimNode(t)
      PROVE  UNCHANGED <<pool, covered>>
  BY <1>5 DEF PoolOp, Retire, Scan, AllocNew, Free, CallScan, ScanLock, ScanUse, ScanHz,
              ScanSlotsDone, KeepNode, ScanUnlock, guardVars, poolVars, Goto, GotoAt
<1> QED
  BY <1>1, <1>2, <1>3, <1>4, <1>5 DEF Next, vars

(***************************************************************************)
(* Where the buffers are.  An action leaves the five places alone or takes *)
(* one buffer from one of them to another.                                 *)
(***************************************************************************)
LEMMA ElemsDrop ==
    ASSUME NEW s \in Seq(Ptrs), s # <<>>, DistinctFrom(1, s), NEW r, r = SubSeq(s, 1, Len(s) - 1)
    PROVE  /\ s[Len(s)] \in Elems(s) /\ Elems(r) = Elems(s) \ {s[Len(s)]}
           /\ DistinctFrom(1, r)
<1> DEFINE n == Len(s)
<1>1. /\ n \in Nat /\ n >= 1 /\ Len(r) = n - 1
      /\ \A i \in 1 .. n - 1 : r[i] = s[i]
  BY DropLast
<1>2. \A i, j \in 1 .. n : s[i] = s[j] => i = j
  BY DEF DistinctFrom
<1> HIDE DEF n
<1>3. ASSUME NEW i \in 1 .. n - 1
      PROVE  i \in 1 .. n /\ n \in 1 .. n /\ i # n /\ r[i] = s[i]
  BY <1>1
<1>4. s[n] \in Elems(s)
  BY <1>1 DEF Elems, n
<1>5. ASSUME NEW x \in Elems(r) PROVE x \in Elems(s) \ {s[n]}
  <2>1. PICK i \in 1 .. n - 1 : x = r[i]
    BY <1>1 DEF Elems
  <2>2. s[i] # s[n]
    BY <1>2, <1>3
  <2> QED
    BY <1>3, <2>1, <2>2 DEF Elems, n
<1>6. ASSUME NEW x \in Elems(s) \ {s[n]} PROVE x \in Elems(r)
  <2>1. PICK i \in 1 .. n : x = s[i]
    BY DEF Elems, n
  <2>2. i \in 1 .. n - 1
    BY <1>1, <2>1
  <2> QED
    BY <1>1, <2>1, <2>2 DEF Elems
<1>7. DistinctFrom(1, r)
  <2>1. ASSUME NEW i \in 1 .. n - 1, NEW j \in 1 .. n - 1, r[i] = r[j]
        PROVE  i = j
    BY <1>2, <1>3, <2>1
  <2> QED
    BY <1>1, <2>1 DEF DistinctFrom
<1> QED
  BY <1>4, <1>5, <1>6, <1>7 DEF n

LEMMA ElemsAdd ==
    ASSUME NEW s \in Seq(Ptrs), NEW p \in Ptrs, NEW r, r = Append(s, p)
    PROVE  /\ Elems(r) = Elems(s) \cup {p}
           /\ DistinctFrom(1, s) /\ p \notin Elems(s) => DistinctFrom(1, r)
<1> DEFINE n == Len(s)
<1>1. /\ n \in Nat /\ Len(r) = n + 1 /\ r[n + 1] = p
      /\ \A i \in 1 .. n : r[i] = s[i]
  BY AppendLast
<1> HIDE DEF n
<1>2. \A i \in 1 .. n + 1 : i \in 1 .. n \/ i = n + 1
  BY <1>1
<1>3. n + 1 \in 1 .. n + 1 /\ \A i \in 1 .. n : i \in 1 .. n + 1
  BY <1>1
<1>4. Elems(r) = Elems(s) \cup {p}
  <2>1. ASSUME NEW x \in Elems(r) PROVE x \in Elems(s) \cup {p}
    <3>1. PICK i \in 1 .. n + 1 : x = r[i]
      BY <1>1 DEF Elems
    <3> QED
      BY <1>1, <1>2, <3>1 DEF Elems, n
  <2>2. ASSUME NEW x \in Elems(s) PROVE x \in Elems(r)
    <3>1. PICK i \in 1 .. n : x = s[i]
      BY DEF Elems, n
    <3> QED
      BY <1>1, <1>3, <3>1 DEF Elems
  <2>3. p \in Elems(r)
    BY <1>1, <1>3 DEF Elems
  <2> QED
    BY <2>1, <2>2, <2>3
<1>5. ASSUME DistinctFrom(1, s), p \notin Elems(s), NEW i \in 1 .. n + 1, NEW j \in 1 .. n + 1,
             r[i] = r[j]
      PROVE  i = j
  <2>1. \A k \in 1 .. n : s[k] # p
    BY <1>5 DEF Elems, n
  <2>2. \A k, m \in 1 .. n : s[k] = s[m] => k = m
    BY <1>5 DEF DistinctFrom, n
  <2> QED
    BY <1>1, <1>2, <1>5, <2>1, <2>2
<1> QED
  BY <1>1, <1>4, <1>5 DEF DistinctFrom

\* The five places.
Places == <<live, Pending, Waiting, Elems(remaining), Elems(pool)>>

LEMMA OthersPlaces ==
    ASSUME TypeOK, ControlInv, NEW t \in Threads,
           \/ Guard(t) \/ CallScan(t) \/ ScanLock(t)
           \/ ScanUse(t) \/ ScanHz(t) \/ ScanSlotsDone(t)
    PROVE  UNCHANGED <<made, arg, pool, remaining, list, Scanned, Places>>
<1> USE DEF TypeOK, ControlInv, Scanning, Goto, GotoAt, poolVars, scanVars
<1>1. CASE Guard(t)
  BY <1>1, GuardStill, WaitingStill DEF Places, Pending, ScanStill, Elems
<1>2. CASE CallScan(t)
  <2>1. ScanStill /\ UNCHANGED <<made, arg, pool, live>>
    BY <1>2, PoolStill DEF CallScan
  <2> QED
    BY <2>1, WaitingStill DEF Places, Pending, ScanStill, Elems
<1>3. CASE ScanLock(t) \/ ScanUse(t) \/ ScanHz(t) \/ ScanSlotsDone(t)
  <2>1. UNCHANGED <<made, arg, pool, live, list, remaining>>
    BY <1>3 DEF ScanLock, ScanUse, ScanHz, ScanSlotsDone
  <2>2. Scanned = 0
    BY <1>3, NoneAssumption DEF Scanned, ScanLock, ScanUse, ScanHz, ScanSlotsDone
  <2>3. Scanned' = 0
    BY <1>3, NoneAssumption DEF Scanned, ScanLock, ScanUse, ScanHz, ScanSlotsDone
  <2> QED
    BY <2>1, <2>2, <2>3 DEF Places, Pending, Waiting, Elems
<1> QED
  BY <1>1, <1>2, <1>3

LEMMA AllocPooledMoves ==
    ASSUME TypeOK, ControlInv, NoRepeats, NEW t \in Threads, AllocPooled(t)
    PROVE  /\ UNCHANGED <<made, arg, remaining, list, Scanned, Waiting, Pending>>
           /\ DistinctFrom(1, pool)'
           /\ \E p \in Elems(pool) : live' = live \cup {p} /\ Elems(pool)' = Elems(pool) \ {p}
<1>1. /\ UNCHANGED <<made, arg, remaining, list, Scanned, Waiting, Pending>>
  <2>1. ScanStill
    BY PoolStill DEF PoolOp
  <2> QED
    BY <2>1, WaitingStill DEF AllocPooled, Pending, ScanStill
<1>2. /\ pool \in Seq(Ptrs) /\ pool # <<>> /\ pool' = SubSeq(pool, 1, Len(pool) - 1)
      /\ live' = live \cup {pool[Len(pool)]} /\ DistinctFrom(1, pool)
  BY DEF AllocPooled, TypeOK, NoRepeats
<1>3. /\ pool[Len(pool)] \in Elems(pool) /\ Elems(pool') = Elems(pool) \ {pool[Len(pool)]}
      /\ DistinctFrom(1, pool')
  BY <1>2, ElemsDrop
<1>4. Elems(pool)' = Elems(pool') /\ DistinctFrom(1, pool)' = DistinctFrom(1, pool')
  BY DEF Elems, DistinctFrom
<1> QED
  BY <1>1, <1>2, <1>3, <1>4

LEMMA AllocNewMoves ==
    ASSUME TypeOK, ControlInv, NEW t \in Threads, NEW p \in Ptrs, AllocNew(t, p)
    PROVE  /\ UNCHANGED <<arg, pool, remaining, list, Scanned, Pending, Waiting>>
           /\ p \notin made /\ made' = made \cup {p} /\ live' = live \cup {p}
<1>1. ScanStill
  BY PoolStill DEF PoolOp
<1> QED
  BY <1>1, WaitingStill DEF AllocNew, Pending, ScanStill

LEMMA FreeMoves ==
    ASSUME TypeOK, ControlInv, NEW t \in Threads, NEW p \in Ptrs, Free(t, p)
    PROVE  /\ UNCHANGED <<made, pool, remaining, list, Scanned, Waiting>>
           /\ p \in live /\ live' = live \ {p} /\ Pending' = Pending \cup {p}
           /\ arg' = [arg EXCEPT ![t] = p] /\ arg[t] = None
<1>1. ScanStill
  BY PoolStill DEF PoolOp
<1>2. arg[t] = None /\ arg' = [arg EXCEPT ![t] = p] /\ p # None
  BY NoneAssumption DEF Free, ControlInv
<1>3. Pending' = Pending \cup {p}
  BY <1>2 DEF Pending, TypeOK
<1> QED
  BY <1>1, <1>2, <1>3, WaitingStill DEF Free, ScanStill

LEMMA RetireMoves ==
    ASSUME TypeOK, ControlInv, NoRepeats, Apart, NEW t \in Threads, Retire(t)
    PROVE  /\ UNCHANGED <<made, pool, live, remaining, Scanned>>
           /\ \A i \in Threads \ {t} : arg'[i] = arg[i]
           /\ arg'[t] = None
           /\ DistinctFrom(Scanned + 1, list)'
           /\ \E p \in Pending : Pending' = Pending \ {p} /\ Waiting' = Waiting \cup {p}
<1>1. /\ mu = None /\ mu' = None /\ list' = Append(list, arg[t])
      /\ arg' = [arg EXCEPT ![t] = None] /\ UNCHANGED <<made, pool, live, remaining>>
  BY DEF Retire, poolVars
<1>2. arg[t] # None /\ arg[t] \in Pending /\ arg[t] \in Ptrs
  BY DEF Retire, ControlInv, TypeOK, Pending
<1>3. Scanned = 0 /\ Scanned' = 0
  BY <1>1 DEF Scanned
<1>4. Waiting = Elems(list) /\ Waiting' = Elems(list')
  BY <1>3 DEF Waiting, Elems
<1>5. DistinctFrom(1, list) /\ arg[t] \notin Elems(list)
  BY <1>2, <1>3, <1>4 DEF NoRepeats, Apart
<1>6. Elems(list') = Elems(list) \cup {arg[t]} /\ DistinctFrom(1, list')
  BY <1>1, <1>2, <1>5, ElemsAdd DEF TypeOK
<1>7. Pending' = Pending \ {arg[t]}
  BY <1>1, <1>2 DEF Pending, TypeOK, NoRepeats
<1>8. DistinctFrom(Scanned + 1, list)' = DistinctFrom(Scanned' + 1, list')
  BY DEF DistinctFrom
<1>9. DistinctFrom(Scanned + 1, list)'
  BY <1>3, <1>6, <1>8
<1> QED
  BY <1>1, <1>2, <1>3, <1>4, <1>6, <1>7, <1>9 DEF TypeOK

LEMMA NodeMoves ==
    ASSUME TypeOK, ControlInv, NoRepeats, NEW t \in Threads, KeepNode(t) \/ ReclaimNode(t)
    PROVE  /\ UNCHANGED <<made, arg, live, list, Pending>>
           /\ mu = t /\ mu # None /\ pc[t] = "sort" /\ idx[t] \in 1 .. Len(list)
           /\ list[idx[t]] \in Ptrs /\ list[idx[t]] \in Waiting
           /\ Waiting' = Waiting \ {list[idx[t]]}
           /\ DistinctFrom(Scanned + 1, list)'
<1>1. /\ mu = t /\ mu # None /\ pc[t] = "sort" /\ idx[t] \in 1 .. Len(list)
      /\ mu' = t /\ pc'[t] = "sort" /\ idx'[t] = idx[t] + 1
      /\ UNCHANGED <<made, arg, live, list>>
  BY NoneAssumption, LenProperties
     DEF KeepNode, ReclaimNode, TypeOK, ControlInv, Scanning, Goto, GotoAt, scanVars, poolVars
<1>2. Scanned = idx[t] - 1 /\ Scanned' = idx[t]
  BY <1>1, LenProperties DEF Scanned, TypeOK
<1>3. Len(list) \in Nat /\ list[idx[t]] \in Ptrs
  BY <1>1, ElementOfSeq, LenProperties DEF TypeOK
<1>4. /\ Waiting = {list[i] : i \in idx[t] .. Len(list)}
      /\ Waiting' = {list[i] : i \in idx[t] + 1 .. Len(list)}
  BY <1>1, <1>2, <1>3 DEF Waiting
<1>5. \A i, j \in idx[t] .. Len(list) : list[i] = list[j] => i = j
  BY <1>1, <1>2, <1>3 DEF NoRepeats, DistinctFrom
<1>6. list[idx[t]] \in Waiting /\ Waiting' = Waiting \ {list[idx[t]]}
  BY <1>1, <1>3, <1>4, <1>5
<1>7. DistinctFrom(Scanned + 1, list)'
  BY <1>1, <1>2, <1>3, <1>5 DEF DistinctFrom
<1> QED
  BY <1>1, <1>3, <1>6, <1>7 DEF Pending

LEMMA UnlockMoves ==
    ASSUME TypeOK, ControlInv, NoRepeats, NEW t \in Threads, ScanUnlock(t)
    PROVE  /\ UNCHANGED <<made, arg, pool, live, Pending>>
           /\ Waiting = {} /\ Waiting' = Elems(remaining) /\ Elems(remaining)' = {}
           /\ DistinctFrom(Scanned + 1, list)' /\ DistinctFrom(1, remaining)'
<1>1. /\ mu = t /\ mu # None /\ pc[t] = "sort" /\ idx[t] = Len(list) + 1
      /\ mu' = None /\ list' = remaining /\ remaining' = <<>>
      /\ UNCHANGED <<made, arg, pool, live>>
  BY NoneAssumption, LenProperties
     DEF ScanUnlock, TypeOK, ControlInv, Scanning, poolVars
<1>2. Scanned = Len(list) /\ Scanned' = 0 /\ Len(list) \in Nat
  BY <1>1, LenProperties DEF Scanned, TypeOK
<1>3. Waiting = {}
  BY <1>2 DEF Waiting
<1>4. Waiting' = Elems(remaining)
  BY <1>1, <1>2 DEF Waiting, Elems
<1>5. Elems(remaining)' = {} /\ DistinctFrom(1, remaining)'
  BY <1>1, EmptySeq DEF Elems, DistinctFrom
<1>6. DistinctFrom(Scanned + 1, list)'
  BY <1>1, <1>2 DEF NoRepeats, DistinctFrom
<1> QED
  BY <1>1, <1>3, <1>4, <1>5, <1>6 DEF Pending

LEMMA PlacesStep ==
    TypeOK /\ ControlInv /\ MadeInv /\ Apart /\ NoRepeats /\ [Next]_vars
        => MadeInv' /\ Apart' /\ NoRepeats'
<1> SUFFICES ASSUME TypeOK, ControlInv, MadeInv, Apart, NoRepeats, [Next]_vars
             PROVE  MadeInv' /\ Apart' /\ NoRepeats'
  OBVIOUS
<1>1. CASE UNCHANGED <<made, arg, pool, remaining, list, Scanned, Places>>
  BY <1>1 DEF Places, MadeInv, Apart, NoRepeats, DistinctFrom
<1>2. UNCHANGED vars => UNCHANGED <<made, arg, pool, remaining, list, Scanned, Places>>
  BY DEF vars, Places, Pending, Waiting, Elems, Scanned
<1>3. ASSUME NEW t \in Threads, AllocPooled(t) PROVE MadeInv' /\ Apart' /\ NoRepeats'
  <2>1. /\ UNCHANGED <<made, arg, remaining, list, Scanned, Waiting, Pending>>
        /\ DistinctFrom(1, pool)'
    BY <1>3, AllocPooledMoves
  <2>2. PICK p \in Elems(pool) : live' = live \cup {p} /\ Elems(pool)' = Elems(pool) \ {p}
    BY <1>3, AllocPooledMoves
  <2>3. Elems(remaining)' = Elems(remaining) /\ DistinctFrom(1, remaining)' = DistinctFrom(1, remaining)
    BY <2>1 DEF Elems, DistinctFrom
  <2>4. NoRepeats'
    BY <2>1, <2>3 DEF NoRepeats, DistinctFrom
  <2> QED
    BY <2>1, <2>2, <2>3, <2>4 DEF MadeInv, Apart
<1>4. ASSUME NEW t \in Threads, NEW p \in Ptrs, AllocNew(t, p)
      PROVE  MadeInv' /\ Apart' /\ NoRepeats'
  <2>1. /\ UNCHANGED <<arg, pool, remaining, list, Scanned, Pending, Waiting>>
        /\ p \notin made /\ made' = made \cup {p} /\ live' = live \cup {p}
    BY <1>4, AllocNewMoves
  <2>2. Elems(remaining)' = Elems(remaining) /\ Elems(pool)' = Elems(pool)
    BY <2>1 DEF Elems
  <2>3. NoRepeats'
    BY <2>1 DEF NoRepeats, DistinctFrom
  <2>4. IsFiniteSet(made')
    BY <2>1, FS_AddElement DEF MadeInv
  <2> QED
    BY <2>1, <2>2, <2>3, <2>4 DEF MadeInv, Apart
<1>5. ASSUME NEW t \in Threads, NEW p \in Ptrs, Free(t, p)
      PROVE  MadeInv' /\ Apart' /\ NoRepeats'
  <2>1. /\ UNCHANGED <<made, pool, remaining, list, Scanned, Waiting>>
        /\ p \in live /\ live' = live \ {p} /\ Pending' = Pending \cup {p}
        /\ arg' = [arg EXCEPT ![t] = p] /\ arg[t] = None
    BY <1>5, FreeMoves
  <2>2. Elems(remaining)' = Elems(remaining) /\ Elems(pool)' = Elems(pool)
    BY <2>1 DEF Elems
  <2>3. \A i \in Threads : arg[i] # p
    BY <2>1, NoneAssumption DEF Apart, Pending
  <2>4. NoRepeats'
    BY <2>1, <2>3 DEF NoRepeats, DistinctFrom, TypeOK
  <2> QED
    BY <2>1, <2>2, <2>4 DEF MadeInv, Apart
<1>6. ASSUME NEW t \in Threads, Retire(t) PROVE MadeInv' /\ Apart' /\ NoRepeats'
  <2>1. /\ UNCHANGED <<made, pool, live, remaining, Scanned>>
        /\ \A i \in Threads \ {t} : arg'[i] = arg[i]
        /\ arg'[t] = None
        /\ DistinctFrom(Scanned + 1, list)'
    BY <1>6, RetireMoves
  <2>2. PICK p \in Pending : Pending' = Pending \ {p} /\ Waiting' = Waiting \cup {p}
    BY <1>6, RetireMoves
  <2>3. Elems(remaining)' = Elems(remaining) /\ Elems(pool)' = Elems(pool)
    BY <2>1 DEF Elems
  <2>4. NoRepeats'
    BY <2>1 DEF NoRepeats, DistinctFrom
  <2> QED
    BY <2>1, <2>2, <2>3, <2>4 DEF MadeInv, Apart
<1>7. ASSUME NEW t \in Threads, KeepNode(t) PROVE MadeInv' /\ Apart' /\ NoRepeats'
  <2> DEFINE p == list[idx[t]]
  <2>1. /\ UNCHANGED <<made, arg, live, list, Pending>>
        /\ p \in Ptrs /\ p \in Waiting /\ Waiting' = Waiting \ {p}
        /\ DistinctFrom(Scanned + 1, list)'
    BY <1>7, NodeMoves
  <2>2. remaining' = Append(remaining, p) /\ pool' = pool /\ remaining \in Seq(Ptrs)
    BY <1>7 DEF KeepNode, poolVars, TypeOK
  <2> HIDE DEF p
  <2>3. p \notin Elems(remaining)
    BY <2>1 DEF Apart
  <2>4. Elems(remaining') = Elems(remaining) \cup {p} /\ DistinctFrom(1, remaining')
    BY <2>1, <2>2, <2>3, ElemsAdd DEF NoRepeats
  <2>5. /\ Elems(remaining)' = Elems(remaining') /\ Elems(pool)' = Elems(pool)
        /\ DistinctFrom(1, remaining)' = DistinctFrom(1, remaining')
        /\ DistinctFrom(1, pool)' = DistinctFrom(1, pool)
    BY <2>2 DEF Elems, DistinctFrom
  <2>6. NoRepeats'
    BY <2>1, <2>4, <2>5 DEF NoRepeats
  <2> QED
    BY <2>1, <2>4, <2>5, <2>6 DEF MadeInv, Apart
<1>8. ASSUME NEW t \in Threads, ReclaimNode(t) PROVE MadeInv' /\ Apart' /\ NoRepeats'
  <2> DEFINE p == list[idx[t]]
  <2>1. /\ UNCHANGED <<made, arg, live, list, Pending>>
        /\ p \in Ptrs /\ p \in Waiting /\ Waiting' = Waiting \ {p}
        /\ DistinctFrom(Scanned + 1, list)'
    BY <1>8, NodeMoves
  <2>2. pool' = Append(pool, p) /\ remaining' = remaining /\ pool \in Seq(Ptrs)
    BY <1>8 DEF ReclaimNode, scanVars, TypeOK
  <2> HIDE DEF p
  <2>3. p \notin Elems(pool)
    BY <2>1 DEF Apart
  <2>4. Elems(pool') = Elems(pool) \cup {p} /\ DistinctFrom(1, pool')
    BY <2>1, <2>2, <2>3, ElemsAdd DEF NoRepeats
  <2>5. /\ Elems(pool)' = Elems(pool') /\ Elems(remaining)' = Elems(remaining)
        /\ DistinctFrom(1, pool)' = DistinctFrom(1, pool')
        /\ DistinctFrom(1, remaining)' = DistinctFrom(1, remaining)
    BY <2>2 DEF Elems, DistinctFrom
  <2>6. NoRepeats'
    BY <2>1, <2>4, <2>5 DEF NoRepeats
  <2> QED
    BY <2>1, <2>4, <2>5, <2>6 DEF MadeInv, Apart
<1>9. ASSUME NEW t \in Threads, ScanUnlock(t) PROVE MadeInv' /\ Apart' /\ NoRepeats'
  <2>1. /\ UNCHANGED <<made, arg, pool, live, Pending>>
        /\ Waiting = {} /\ Waiting' = Elems(remaining) /\ Elems(remaining)' = {}
        /\ DistinctFrom(Scanned + 1, list)' /\ DistinctFrom(1, remaining)'
    BY <1>9, UnlockMoves
  <2>2. Elems(pool)' = Elems(pool) /\ DistinctFrom(1, pool)' = DistinctFrom(1, pool)
    BY <2>1 DEF Elems, DistinctFrom
  <2>3. NoRepeats'
    BY <2>1, <2>2 DEF NoRepeats
  <2> QED
    BY <2>1, <2>2, <2>3 DEF MadeInv, Apart
<1> QED
  BY <1>1, <1>2, <1>3, <1>4, <1>5, <1>6, <1>7, <1>8, <1>9, OthersPlaces DEF Next, PoolOp, Scan

(***************************************************************************)
(* Counting.                                                               *)
(***************************************************************************)
LEMMA DistinctCount ==
    ASSUME NEW s \in Seq(Ptrs), NEW m \in Nat, m <= Len(s), DistinctFrom(m + 1, s),
           NEW T, T = {s[i] : i \in m + 1 .. Len(s)}
    PROVE  IsFiniteSet(T) /\ Cardinality(T) = Len(s) - m
<1> DEFINE I == m + 1 .. Len(s)
           f == [i \in I |-> s[i]]
<1>1. Len(s) \in Nat
  BY LenProperties
<1>2. IsFiniteSet(I) /\ Cardinality(I) = Len(s) - m
  <2>1. m + 1 \in Int /\ Len(s) \in Int /\ Len(s) - (m + 1) + 1 = Len(s) - m
    BY <1>1
  <2>2. IsFiniteSet(I) /\ Cardinality(I) = IF m + 1 > Len(s) THEN 0 ELSE Len(s) - (m + 1) + 1
    BY <2>1, FS_Interval
  <2>3. CASE m + 1 > Len(s)
    <3>1. Len(s) - m = 0
      BY <1>1, <2>3
    <3> QED
      BY <2>2, <2>3, <3>1
  <2>4. CASE ~ m + 1 > Len(s)
    BY <2>1, <2>2, <2>4
  <2> QED
    BY <2>3, <2>4
<1>3. f \in [I -> T] /\ (\A a, b \in I : f[a] = f[b] => a = b) /\ \A e \in T : \E a \in I : f[a] = e
  BY DEF DistinctFrom
<1>4. f \in Bijection(I, T)
  BY <1>3, Fun_IsBij
<1>5. ExistsBijection(I, T)
  BY <1>4, Fun_ExistsBij
<1> QED
  BY <1>2, <1>5, FS_Bijection

LEMMA PendingCount ==
    ASSUME TypeOK, NoRepeats
    PROVE  /\ IsFiniteSet(Pending)
           /\ Cardinality(Pending) = Cardinality({t \in Threads : arg[t] # None})
<1> DEFINE R == {t \in Threads : arg[t] # None}
           f == [t \in R |-> arg[t]]
<1>1. IsFiniteSet(R)
  BY ThreadsAssumption, FS_Subset
<1>2. /\ f \in [R -> Pending] /\ (\A a, b \in R : f[a] = f[b] => a = b)
      /\ \A e \in Pending : \E a \in R : f[a] = e
  BY DEF Pending, NoRepeats
<1>3. f \in Bijection(R, Pending)
  BY <1>2, Fun_IsBij
<1>4. ExistsBijection(R, Pending)
  BY <1>3, Fun_ExistsBij
<1> QED
  BY <1>1, <1>4, FS_Bijection

LEMMA DisjointCount ==
    ASSUME NEW S, NEW T, IsFiniteSet(S), IsFiniteSet(T), S \cap T = {}
    PROVE  IsFiniteSet(S \cup T) /\ Cardinality(S \cup T) = Cardinality(S) + Cardinality(T)
<1>1. Cardinality(S) \in Nat /\ Cardinality(T) \in Nat /\ Cardinality(S \cap T) = 0
  BY FS_CardinalityType, FS_EmptySet
<1>2. /\ IsFiniteSet(S \cup T)
      /\ Cardinality(S \cup T) = Cardinality(S) + Cardinality(T) - Cardinality(S \cap T)
  BY FS_Union
<1> QED
  BY <1>1, <1>2

LEMMA PlacesCounted ==
    ASSUME TypeOK, ControlInv, MadeInv, Apart, NoRepeats
    PROVE  OnePlaceEach
<1>1. Scanned \in Nat /\ Scanned <= Len(list) /\ list \in Seq(Ptrs)
  BY ScannedType DEF TypeOK
<1>2. IsFiniteSet(live)
  <2>1. live \subseteq made
    BY DEF TypeOK
  <2> QED
    BY <2>1, FS_Subset DEF MadeInv
<1>3. IsFiniteSet(Waiting) /\ Cardinality(Waiting) = Len(list) - Scanned
  BY <1>1, DistinctCount DEF NoRepeats, Waiting
<1>4. ASSUME NEW s \in Seq(Ptrs), DistinctFrom(1, s)
      PROVE  IsFiniteSet(Elems(s)) /\ Cardinality(Elems(s)) = Len(s)
  <2>1. 0 \in Nat /\ Len(s) \in Nat /\ 0 <= Len(s) /\ 0 + 1 = 1
    BY LenProperties
  <2>2. DistinctFrom(0 + 1, s) /\ Elems(s) = {s[i] : i \in 0 + 1 .. Len(s)}
    BY <1>4, <2>1 DEF Elems
  <2>3. IsFiniteSet(Elems(s)) /\ Cardinality(Elems(s)) = Len(s) - 0
    BY <2>1, <2>2, DistinctCount, Zenon
  <2> QED
    BY <2>1, <2>3
<1>5. /\ IsFiniteSet(Elems(remaining)) /\ Cardinality(Elems(remaining)) = Len(remaining)
      /\ IsFiniteSet(Elems(pool)) /\ Cardinality(Elems(pool)) = Len(pool)
  BY <1>4 DEF TypeOK, NoRepeats
<1>6. IsFiniteSet(Pending) /\ Cardinality(Pending) = Cardinality({t \in Threads : arg[t] # None})
  BY PendingCount
<1> DEFINE A == live \cup Pending
           B == A \cup Waiting
           C == B \cup Elems(remaining)
<1>7. IsFiniteSet(A) /\ Cardinality(A) = Cardinality(live) + Cardinality(Pending)
  BY <1>2, <1>6, DisjointCount DEF Apart
<1>8. A \cap Waiting = {}
  BY DEF Apart
<1>9. IsFiniteSet(B) /\ Cardinality(B) = Cardinality(A) + Cardinality(Waiting)
  BY <1>3, <1>7, <1>8, DisjointCount
<1>10. B \cap Elems(remaining) = {}
  BY DEF Apart
<1>11. IsFiniteSet(C) /\ Cardinality(C) = Cardinality(B) + Cardinality(Elems(remaining))
  BY <1>5, <1>9, <1>10, DisjointCount
<1>12. C \cap Elems(pool) = {}
  BY DEF Apart
<1>13. Cardinality(C \cup Elems(pool)) = Cardinality(C) + Cardinality(Elems(pool))
  BY <1>5, <1>11, <1>12, DisjointCount
<1>14. made = live \cup Pending \cup Waiting \cup Elems(remaining) \cup Elems(pool)
  BY DEF MadeInv
<1>15. made = C \cup Elems(pool)
  BY <1>14
<1> HIDE DEF A, B, C
<1>16. Cardinality(made) = Cardinality(live) + Cardinality({t \in Threads : arg[t] # None})
                           + (Len(list) - Scanned) + Len(remaining) + Len(pool)
  BY <1>3, <1>5, <1>6, <1>7, <1>9, <1>11, <1>13, <1>15
<1> QED
  BY <1>14, <1>16 DEF OnePlaceEach

(***************************************************************************)
(* What a Scan keeps.                                                      *)
(***************************************************************************)
LEMMA HazardBoundStep ==
    TypeOK /\ ControlInv /\ HazardBound /\ [Next]_vars => HazardBound'
<1> SUFFICES ASSUME TypeOK, ControlInv, HazardBound, [Next]_vars PROVE HazardBound'
  OBVIOUS
<1>1. CASE UNCHANGED vars
  BY <1>1 DEF vars, HazardBound, Elems
<1>2. ASSUME NEW t \in Threads, Guard(t) \/ PoolOp(t) \/ CallScan(t) PROVE HazardBound'
  <2>1. ScanStill
    BY <1>2, GuardStill, PoolStill
  <2> QED
    BY <2>1 DEF ScanStill, HazardBound, Elems
<1>3. ASSUME NEW t \in Threads, Retire(t) PROVE HazardBound'
  BY <1>3 DEF Retire, HazardBound, Elems
<1>4. ASSUME NEW t \in Threads, ScanLock(t) PROVE HazardBound'
  <2>1. hazardSet' = {} /\ remaining' = <<>> /\ mu' = t /\ idx'[t] = 1
    BY <1>4 DEF ScanLock, GotoAt, TypeOK
  <2>2. Elems(remaining)' = {}
    BY <2>1, EmptySeq DEF Elems
  <2> QED
    BY <2>1, <2>2, FS_EmptySet, SlotsAssumption DEF HazardBound
<1>5. ASSUME NEW t \in Threads, ScanUse(t) \/ ScanSlotsDone(t) PROVE HazardBound'
  <2>1. /\ mu = t /\ mu' = t /\ mu # None /\ pc[t] = "scan_use"
        /\ UNCHANGED <<hazardSet, remaining>>
    BY <1>5, NoneAssumption
       DEF ScanUse, ScanSlotsDone, TypeOK, ControlInv, Scanning, scanVars
  <2>2. pc'[t] = "sort" \/ idx'[t] = idx[t] \/ idx'[t] = idx[t] + 1
    BY <1>5 DEF ScanUse, ScanSlotsDone, TypeOK, Goto, GotoAt
  <2>3. Cardinality(hazardSet) \in Nat /\ idx[t] \in Nat
    BY FS_CardinalityType DEF HazardBound, TypeOK
  <2> QED
    BY <2>1, <2>2, <2>3 DEF HazardBound, Elems
<1>6. ASSUME NEW t \in Threads, ScanHz(t) PROVE HazardBound'
  <2>1. /\ mu = t /\ mu' = t /\ mu # None /\ pc[t] = "scan_hz" /\ idx'[t] = idx[t] + 1
        /\ idx[t] \in 1 .. Slots /\ remaining' = remaining
    BY <1>6, NoneAssumption DEF ScanHz, GotoAt, TypeOK, ControlInv, Scanning
  <2>2. hazardSet' = hazardSet \/ hazardSet' = hazardSet \cup {hz[idx[t]]}
    BY <1>6 DEF ScanHz
  <2>3. IsFiniteSet(hazardSet) /\ Cardinality(hazardSet) \in Nat
    BY FS_CardinalityType DEF HazardBound
  <2>4. IsFiniteSet(hazardSet') /\ Cardinality(hazardSet') <= Cardinality(hazardSet) + 1
        /\ Cardinality(hazardSet') \in Nat
    <3>1. CASE hazardSet' = hazardSet
      BY <2>3, <3>1
    <3>2. CASE hazardSet' = hazardSet \cup {hz[idx[t]]}
      <4>1. /\ IsFiniteSet(hazardSet')
            /\ \/ Cardinality(hazardSet') = Cardinality(hazardSet)
               \/ Cardinality(hazardSet') = Cardinality(hazardSet) + 1
        BY <2>3, <3>2, FS_AddElement
      <4> QED
        BY <2>3, <4>1
    <3> QED
      BY <2>2, <3>1, <3>2
  <2>5. Cardinality(hazardSet) <= idx[t] - 1
    BY <2>1 DEF HazardBound
  <2>6. Cardinality(hazardSet') <= idx'[t] - 1 /\ Cardinality(hazardSet') <= Slots
    BY <2>1, <2>3, <2>4, <2>5, SlotsAssumption
  <2>7. Elems(remaining)' \subseteq hazardSet'
    BY <2>1, <2>2 DEF HazardBound, Elems
  <2> QED
    BY <2>1, <2>4, <2>6, <2>7 DEF HazardBound
<1>7. ASSUME NEW t \in Threads, KeepNode(t) \/ ReclaimNode(t) PROVE HazardBound'
  <2>1. /\ mu = t /\ mu' = t /\ mu # None /\ pc'[t] = "sort" /\ hazardSet' = hazardSet
    BY <1>7, NoneAssumption
       DEF KeepNode, ReclaimNode, TypeOK, ControlInv, Scanning, Goto, GotoAt, scanVars
  <2>2. list[idx[t]] \in Ptrs
    BY <1>7, ElementOfSeq, LenProperties DEF KeepNode, ReclaimNode, TypeOK, ControlInv
  <2>3. \/ remaining' = remaining
        \/ remaining' = Append(remaining, list[idx[t]]) /\ list[idx[t]] \in hazardSet
    BY <1>7 DEF KeepNode, ReclaimNode, scanVars
  <2>4. Elems(remaining') \subseteq hazardSet
    <3>1. Elems(remaining) \subseteq hazardSet /\ remaining \in Seq(Ptrs)
      BY DEF HazardBound, TypeOK
    <3>2. ASSUME remaining' = Append(remaining, list[idx[t]])
          PROVE  Elems(remaining') = Elems(remaining) \cup {list[idx[t]]}
      BY <2>2, <3>1, <3>2, ElemsAdd
    <3> QED
      BY <2>3, <3>1, <3>2
  <2>5. Elems(remaining)' = Elems(remaining')
    BY DEF Elems
  <2> QED
    BY <2>1, <2>4, <2>5 DEF HazardBound
<1>8. ASSUME NEW t \in Threads, ScanUnlock(t) PROVE HazardBound'
  <2>1. hazardSet' = {} /\ remaining' = <<>> /\ mu' = None
    BY <1>8 DEF ScanUnlock
  <2>2. Elems(remaining)' = {}
    BY <2>1, EmptySeq DEF Elems
  <2> QED
    BY <2>1, <2>2, FS_EmptySet DEF HazardBound
<1> QED
  BY <1>1, <1>2, <1>3, <1>4, <1>5, <1>6, <1>7, <1>8 DEF Next, Scan

\* The threads in a Scan are finitely many, and Kept is what it says.
LEMMA BacklogNumbers ==
    /\ IsFiniteSet(Scanners) /\ Cardinality(Scanners) \in Nat
    /\ Kept \in Nat /\ Kept >= Slots /\ Kept >= Batch - 1
<1>1. Scanners \subseteq Threads
  BY DEF Scanners
<1>2. IsFiniteSet(Scanners)
  BY <1>1, ThreadsAssumption, FS_Subset
<1>3. Cardinality(Scanners) \in Nat
  BY <1>2, FS_CardinalityType
<1>4. Kept \in Nat /\ Kept >= Slots /\ Kept >= Batch - 1
  BY SlotsAssumption, BatchAssumption DEF Kept
<1> QED
  BY <1>2, <1>3, <1>4

LEMMA BacklogStep ==
    TypeOK /\ ControlInv /\ NoRepeats /\ HazardBound /\ BacklogBounded /\ [Next]_vars
        => BacklogBounded'
<1> SUFFICES ASSUME TypeOK, ControlInv, NoRepeats, HazardBound, BacklogBounded, [Next]_vars
             PROVE  BacklogBounded'
  OBVIOUS
<1>1. CASE UNCHANGED vars
  BY <1>1 DEF vars, BacklogBounded, Scanners
<1>2. ASSUME NEW t \in Threads, Guard(t) \/ PoolOp(t) PROVE BacklogBounded'
  <2>1. UNCHANGED <<list, count, mu>>
    BY <1>2, GuardStill, PoolStill DEF ScanStill
  <2>2. Scanners' = Scanners
    BY <1>2 DEF Scanners, TypeOK, Guard, PoolOp, Acquire, AcquireSlot, AcquireNext,
                AcquirePanics, Protect, Clear, Release, ReleaseSlot, AllocPooled, AllocNew,
                Free, Goto, GotoAt
  <2> QED
    BY <2>1, <2>2 DEF BacklogBounded
<1>3. ASSUME NEW t \in Threads, CallScan(t) PROVE BacklogBounded'
  <2>1. UNCHANGED <<list, count>> /\ Scanners' = Scanners \cup {t} /\ t \notin Scanners
    BY <1>3 DEF CallScan, Goto, scanVars, TypeOK, Scanners
  <2>2. Cardinality(Scanners') = Cardinality(Scanners) + 1
    BY <2>1, BacklogNumbers, FS_AddElement
  <2>3. Len(list) <= Kept + Cardinality(Scanners) /\ Len(list) \in Nat
    BY LenProperties DEF BacklogBounded, TypeOK
  <2> QED
    BY <2>1, <2>2, <2>3, BacklogNumbers DEF BacklogBounded
<1>4. ASSUME NEW t \in Threads, Retire(t) PROVE BacklogBounded'
  <2>1. arg[t] \in Ptrs
    BY <1>4 DEF Retire, ControlInv, TypeOK
  <2>2. /\ Len(list') = Len(list) + 1 /\ count' = count + 1
        /\ count = Len(list) /\ count \in Nat
        /\ Len(list) <= Kept + Cardinality(Scanners)
    BY <1>4, <2>1, AppendLast DEF Retire, TypeOK, BacklogBounded
  <2>3. CASE count' >= Batch
    <3>1. Scanners' = Scanners \cup {t} /\ t \notin Scanners
      BY <1>4, <2>3 DEF Retire, Goto, TypeOK, Scanners
    <3>2. Cardinality(Scanners') = Cardinality(Scanners) + 1
      BY <3>1, BacklogNumbers, FS_AddElement
    <3> QED
      BY <2>2, <3>2, BacklogNumbers DEF BacklogBounded
  <2>4. CASE count' < Batch
    <3>1. Scanners' = Scanners
      BY <1>4, <2>2, <2>4, BatchAssumption DEF Retire, Goto, TypeOK, Scanners
    <3>2. Len(list') <= Kept
      BY <2>2, <2>4, BacklogNumbers, BatchAssumption
    <3> QED
      BY <2>2, <3>1, <3>2, BacklogNumbers DEF BacklogBounded
  <2> QED
    BY <2>2, <2>3, <2>4, BatchAssumption
<1>5. ASSUME NEW t \in Threads,
             \/ ScanLock(t) \/ ScanUse(t) \/ ScanHz(t) \/ ScanSlotsDone(t)
             \/ KeepNode(t) \/ ReclaimNode(t)
      PROVE  BacklogBounded'
  <2>1. UNCHANGED <<list, count>>
    BY <1>5 DEF ScanLock, ScanUse, ScanHz, ScanSlotsDone, KeepNode, ReclaimNode, scanVars
  <2>2. Scanners' = Scanners
    BY <1>5 DEF ScanLock, ScanUse, ScanHz, ScanSlotsDone, KeepNode, ReclaimNode, Goto, GotoAt,
                TypeOK, Scanners
  <2> QED
    BY <2>1, <2>2 DEF BacklogBounded
<1>6. ASSUME NEW t \in Threads, ScanUnlock(t) PROVE BacklogBounded'
  <2>1. list' = remaining /\ count' = Len(remaining) /\ mu = t /\ mu # None
    BY <1>6, NoneAssumption DEF ScanUnlock, TypeOK, ControlInv, Scanning
  <2>2. remaining \in Seq(Ptrs) /\ Len(remaining) \in Nat /\ DistinctFrom(0 + 1, remaining)
    BY LenProperties DEF TypeOK, NoRepeats
  <2>3. Elems(remaining) = {remaining[i] : i \in 0 + 1 .. Len(remaining)}
    BY DEF Elems
  <2>4. Cardinality(Elems(remaining)) = Len(remaining) - 0
    BY <2>2, <2>3, DistinctCount
  <2>5. Cardinality(Elems(remaining)) <= Cardinality(hazardSet)
    BY FS_Subset DEF HazardBound
  <2>6. Cardinality(hazardSet) <= Slots /\ Cardinality(hazardSet) \in Nat
    BY <2>1, FS_CardinalityType DEF HazardBound
  <2>7. Len(remaining) <= Slots
    BY <2>2, <2>4, <2>5, <2>6, SlotsAssumption
  <2>8. Scanners' = Scanners \ {t}
    BY <1>6 DEF ScanUnlock, GotoAt, Goto, TypeOK, Scanners
  <2>9. Cardinality(Scanners') \in Nat
    BY <2>8, BacklogNumbers, FS_RemoveElement, FS_Subset, FS_CardinalityType
  <2> QED
    BY <2>1, <2>2, <2>7, <2>9, BacklogNumbers, SlotsAssumption DEF BacklogBounded
<1> QED
  BY <1>1, <1>2, <1>3, <1>4, <1>5, <1>6 DEF Next, Scan

(***************************************************************************)
(* There is always a slot.                                                 *)
(***************************************************************************)
LEMMA RoomKept ==
    ASSUME \A i \in 1 .. Slots + 1 : AtOrAfter(i)' \subseteq AtOrAfter(i), RoomAhead
    PROVE  RoomAhead'
<1> SUFFICES ASSUME Cardinality(Threads) <= Slots, NEW i \in 1 .. Slots + 1
             PROVE  Cardinality(AtOrAfter(i)') <= Slots + 1 - i
  BY DEF RoomAhead
<1>1. AtOrAfter(i) \subseteq Threads
  BY DEF AtOrAfter
<1>2. IsFiniteSet(AtOrAfter(i)) /\ Cardinality(AtOrAfter(i)) \in Nat
  BY <1>1, ThreadsAssumption, FS_Subset, FS_CardinalityType
<1>3. AtOrAfter(i)' \subseteq AtOrAfter(i)
  OBVIOUS
<1>4. IsFiniteSet(AtOrAfter(i)') /\ Cardinality(AtOrAfter(i)') <= Cardinality(AtOrAfter(i))
  BY <1>2, <1>3, FS_Subset
<1>5. Cardinality(AtOrAfter(i)') \in Nat
  BY <1>4, FS_CardinalityType
<1>6. Cardinality(AtOrAfter(i)) <= Slots + 1 - i
  BY DEF RoomAhead
<1> QED
  BY <1>2, <1>4, <1>5, <1>6, SlotsAssumption

LEMMA RoomStep ==
    TypeOK /\ ControlInv /\ SlotsOwned /\ RoomAhead /\ [Next]_vars => RoomAhead'
<1> SUFFICES ASSUME TypeOK, ControlInv, SlotsOwned, RoomAhead, [Next]_vars PROVE RoomAhead'
  OBVIOUS
<1> USE DEF TypeOK, ControlInv, Goto, GotoAt, guardVars
<1>1. CASE UNCHANGED vars
  BY <1>1 DEF vars, RoomAhead, AtOrAfter
<1>2. ASSUME NEW t \in Threads, Acquire(t) PROVE RoomAhead'
  <2>1. pc' = [pc EXCEPT ![t] = "acquire"] /\ idx' = [idx EXCEPT ![t] = 1] /\ slot' = slot
    BY <1>2 DEF Acquire
  <2>2. SUFFICES ASSUME Cardinality(Threads) <= Slots, NEW i \in 1 .. Slots + 1
                 PROVE  Cardinality(AtOrAfter(i)') <= Slots + 1 - i
    BY DEF RoomAhead
  <2>3. AtOrAfter(i)' \subseteq Threads
    BY DEF AtOrAfter
  <2>4. CASE i = 1
    <3>1. Cardinality(AtOrAfter(i)') <= Cardinality(Threads) /\ IsFiniteSet(AtOrAfter(i)')
      BY <2>3, ThreadsAssumption, FS_Subset
    <3>2. Cardinality(AtOrAfter(i)') \in Nat /\ Cardinality(Threads) \in Nat
      BY <3>1, ThreadsAssumption, FS_CardinalityType
    <3> QED
      BY <2>2, <2>4, <3>1, <3>2, SlotsAssumption
  <2>5. CASE i # 1
    <3>1. AtOrAfter(i)' = AtOrAfter(i)
      BY <1>2, <2>1, <2>5, SlotsAssumption DEF AtOrAfter, Acquire
    <3> QED
      BY <2>2, <3>1 DEF RoomAhead
  <2> QED
    BY <2>4, <2>5
<1>3. ASSUME NEW t \in Threads, AcquireNext(t) PROVE RoomAhead'
  <2> DEFINE k == idx[t]
  <2>1. /\ pc' = pc /\ idx' = [idx EXCEPT ![t] = k + 1] /\ slot' = slot
        /\ pc[t] = "acquire" /\ slot[t] = None /\ inUse[k] /\ k \in 1 .. Slots
    BY <1>3 DEF AcquireNext
  <2>2. PICK u \in Threads : slot[u] = k
    BY <2>1 DEF SlotsOwned
  <2>3. u # t /\ pc[u] # "acquire"
    BY <2>1, <2>2, NoneAssumption
  <2>4. SUFFICES ASSUME Cardinality(Threads) <= Slots, NEW i \in 1 .. Slots + 1
                 PROVE  Cardinality(AtOrAfter(i)') <= Slots + 1 - i
    BY DEF RoomAhead
  <2>5. CASE i # k + 1
    <3>1. AtOrAfter(i)' = AtOrAfter(i)
      BY <2>1, <2>5, SlotsAssumption DEF AtOrAfter
    <3> QED
      BY <2>4, <3>1 DEF RoomAhead
  <2>6. CASE i = k + 1
    <3> DEFINE A == AtOrAfter(k)
               B == AtOrAfter(i)'
    <3>1. B \cup {u} \subseteq A /\ u \notin B /\ A \subseteq Threads
      <4>1. A \subseteq Threads /\ u \in A
        BY <2>1, <2>2, NoneAssumption DEF AtOrAfter
      <4>2. u \notin B
        BY <2>1, <2>2, <2>3, <2>6 DEF AtOrAfter
      <4>3. ASSUME NEW s \in B PROVE s \in A
        <5>1. s \in Threads
          BY DEF AtOrAfter
        <5>2. CASE s = t
          BY <2>1, <5>1, <5>2 DEF AtOrAfter
        <5>3. CASE s # t
          BY <2>1, <2>6, <5>1, <5>3 DEF AtOrAfter
        <5> QED
          BY <5>2, <5>3
      <4> QED
        BY <4>1, <4>2, <4>3
    <3>2. Cardinality(A) <= Slots + 1 - k
      BY <2>1, <2>4, SlotsAssumption DEF RoomAhead
    <3> HIDE DEF A, B
    <3>3. IsFiniteSet(A)
      BY <3>1, ThreadsAssumption, FS_Subset
    <3>4. IsFiniteSet(B) /\ IsFiniteSet(B \cup {u}) /\ Cardinality(B \cup {u}) <= Cardinality(A)
      BY <3>1, <3>3, FS_Subset
    <3>5. Cardinality(B \cup {u}) = Cardinality(B) + 1
      BY <3>1, <3>4, FS_AddElement
    <3>6. Cardinality(A) \in Nat /\ Cardinality(B) \in Nat
      BY <3>3, <3>4, FS_CardinalityType
    <3>7. Cardinality(B) <= Slots + 1 - i
      BY <2>1, <2>6, <3>2, <3>4, <3>5, <3>6, SlotsAssumption, SMTT(30)
    <3> QED
      BY <3>7 DEF B
  <2> QED
    BY <2>5, <2>6
<1>4. ASSUME NEW t \in Threads,
             ~ Acquire(t), ~ AcquireNext(t),
             Guard(t) \/ PoolOp(t) \/ Retire(t) \/ Scan(t)
      PROVE  RoomAhead'
  <2>1. ASSUME NEW i \in 1 .. Slots + 1 PROVE AtOrAfter(i)' \subseteq AtOrAfter(i)
    <3> SUFFICES ASSUME NEW s \in Threads, s \in AtOrAfter(i)' PROVE s \in AtOrAfter(i)
      BY DEF AtOrAfter
    <3>1. CASE Guard(t)
      <4>1. /\ s # t => pc'[s] = pc[s] /\ idx'[s] = idx[s] /\ slot'[s] = slot[s]
            /\ slot'[t] # slot[t] => slot'[t] = None \/ (pc[t] = "acquire" /\ slot'[t] = idx[t])
            /\ pc'[t] = "acquire" => pc[t] = "acquire" /\ idx'[t] = idx[t]
        BY <1>4, <3>1 DEF Guard, AcquireSlot, AcquirePanics, Protect, Clear, Release, ReleaseSlot
      <4> QED
        BY <4>1 DEF AtOrAfter
    <3>2. CASE PoolOp(t) \/ Retire(t) \/ Scan(t)
      BY <3>2, OthersGuards DEF AtOrAfter
    <3> QED
      BY <1>4, <3>1, <3>2
  <2> QED
    BY <2>1, RoomKept
<1> QED
  BY <1>1, <1>2, <1>3, <1>4 DEF Next

LEMMA NoPanic ==
    TypeOK /\ RoomAhead /\ NeverExhausted /\ [Next]_vars => NeverExhausted'
<1> SUFFICES ASSUME TypeOK, RoomAhead, NeverExhausted, [Next]_vars, Cardinality(Threads) <= Slots
             PROVE  ~ crashed'
  BY DEF NeverExhausted
<1>1. ~ crashed
  BY DEF NeverExhausted
<1>2. ASSUME NEW t \in Threads, AcquirePanics(t) PROVE FALSE
  <2>1. t \in AtOrAfter(Slots + 1) /\ AtOrAfter(Slots + 1) \subseteq Threads
    BY <1>2, SlotsAssumption DEF AcquirePanics, AtOrAfter, TypeOK
  <2>2. Cardinality(AtOrAfter(Slots + 1)) <= 0
    BY SlotsAssumption DEF RoomAhead
  <2>3. IsFiniteSet(AtOrAfter(Slots + 1))
    BY <2>1, ThreadsAssumption, FS_Subset
  <2>4. Cardinality(AtOrAfter(Slots + 1)) = 0
    BY <2>2, <2>3, FS_CardinalityType
  <2> QED
    BY <2>1, <2>3, <2>4, FS_EmptySet
<1>3. ASSUME NEW t \in Threads, Step(t), ~ AcquirePanics(t) PROVE crashed' = crashed
  BY <1>3 DEF Step, Acquire, AcquireSlot, AcquireNext, Protect, Clear, Release, ReleaseSlot,
              AllocPooled, AllocNew, Free, Retire, CallScan, ScanLock, ScanUse, ScanHz,
              ScanSlotsDone, KeepNode, ReclaimNode, ScanUnlock
<1> QED
  BY <1>1, <1>2, <1>3, NextStep DEF vars

(***************************************************************************)
(* The theorems.                                                           *)
(***************************************************************************)
IInv ==
    /\ TypeOK /\ ControlInv /\ CoverInv
    /\ SlotsOwned /\ RoomAhead /\ NeverExhausted
    /\ MadeInv /\ Apart /\ NoRepeats
    /\ ScanSees /\ ProtectedNotReclaimed
    /\ HazardBound /\ BacklogBounded

LEMMA IInvInit == Init => IInv
<1> SUFFICES ASSUME Init PROVE IInv
  OBVIOUS
<1>1. TypeOK
  BY SlotsAssumption, EmptySeq DEF Init, TypeOK
<1>2. Len(list) = 0 /\ Len(remaining) = 0 /\ Len(pool) = 0 /\ Scanned = 0
  BY EmptySeq DEF Init, Scanned
<1>3. Elems(remaining) = {} /\ Elems(pool) = {} /\ Waiting = {} /\ Pending = {}
  BY <1>2 DEF Init, Elems, Waiting, Pending
<1>4. ControlInv /\ CoverInv /\ ScanSees /\ ProtectedNotReclaimed
  BY <1>2, <1>3, NoneAssumption
     DEF Init, ControlInv, Scanning, CoverInv, ScanSees, ProtectedNotReclaimed
<1>5. SlotsOwned /\ NeverExhausted
  BY NoneAssumption DEF Init, SlotsOwned, NeverExhausted
<1>6. RoomAhead
  <2>1. \A i \in 1 .. Slots + 1 : AtOrAfter(i) = {}
    BY DEF Init, AtOrAfter
  <2> QED
    BY <2>1, FS_EmptySet, SlotsAssumption DEF RoomAhead
<1>7. MadeInv /\ Apart /\ NoRepeats
  BY <1>2, <1>3, FS_EmptySet DEF Init, MadeInv, Apart, NoRepeats, DistinctFrom
<1>8. HazardBound /\ BacklogBounded
  BY <1>2, <1>3, FS_EmptySet, BacklogNumbers, SlotsAssumption
     DEF Init, HazardBound, BacklogBounded
<1> QED
  BY <1>1, <1>4, <1>5, <1>6, <1>7, <1>8 DEF IInv

LEMMA IInvStep == IInv /\ [Next]_vars => IInv'
BY TypeStep, ControlStep, CoverStep, SlotsStep, RoomStep, NoPanic, PlacesStep, ScanSeesStep,
   ProtectedStep, HazardBoundStep, BacklogStep DEF IInv

LEMMA IInvAlways == Spec => []IInv
BY IInvInit, IInvStep, PTL DEF Spec

\* Whatever the threads do, the variables keep their types: a thread's loop
\* index is a slot or a position, and every pointer in the list, in the set of
\* hazards and in the pool is a buffer (hazard.go:15-39 and 158-167).
THEOREM TypeCorrect == Spec => []TypeOK
BY IInvAlways, PTL DEF IInv

\* For any number of slots and threads, no slot has two owners, a free slot
\* protects nothing, and whoever searches has a slot ahead of it
\* (hazard.go:48-54 and 67-70).
THEOREM SlotsCorrect == Spec => []SlotInv
<1>1. IInv => SlotInv
  BY DEF IInv, SlotInv
<1> QED
  BY <1>1, IInvAlways, PTL

\* With no more threads than slots, Acquire's one pass over the slots finds a
\* free one and does not panic (hazard.go:48-54).
THEOREM AcquireSucceeds == Spec => []NeverExhausted
BY IInvAlways, PTL DEF IInv

\* No Scan gives back to the pool a pointer that was protected while it was
\* live, although it reads the slots one by one and without a lock while
\* guards protect, clear and release (hazard.go:84-115).
THEOREM ProtectedCorrect == Spec => []ProtectedNotReclaimed
BY IInvAlways, PTL DEF IInv

\* Every buffer made is in exactly one place: nothing leaks, and no buffer is
\* handed out twice (hazard.go:72-115 and 169-205).
THEOREM PlacesCorrect == Spec => []OnePlaceEach
<1>1. IInv => OnePlaceEach
  BY PlacesCounted DEF IInv
<1> QED
  BY <1>1, IInvAlways, PTL

\* However many threads retire and scan at once, the list holds at most what
\* a Retire leaves to the next one (Batch - 1) or a Scan to its successor (one
\* pointer per slot), and one pointer more for every thread in a Scan
\* (hazard.go:74-87 and 103-114).
THEOREM BacklogCorrect == Spec => []BacklogBounded
BY IInvAlways, PTL DEF IInv
=============================================================================
