---------------------------- MODULE HazardDomain ----------------------------
(***************************************************************************)
(* HazardDomain and HazardPool of internal/ringbuf/hazard.go: threads      *)
(* acquire a guard (one slot each), protect a pointer with it, and give    *)
(* pointers back with Free, which retires them; a Scan returns to the pool *)
(* the retired pointers that no slot protects.                             *)
(*                                                                         *)
(* A critical section that calls nothing is one action: the body of Retire *)
(* under retired.mu, Alloc and the reclaim callback under hp.mu.  Scan     *)
(* holds retired.mu while it reads the slots one by one and calls the      *)
(* callback for one node after the other.  The pool has one size class.    *)
(* globalSeq is left out: nothing reads the numbers it gives.              *)
(***************************************************************************)
EXTENDS Naturals, Sequences, FiniteSets

CONSTANTS Threads,
          Slots,        \* hazardPtrSlots
          Batch,        \* retireBatchSize
          Ptrs,         \* bound: the buffers there can be
          None          \* the nil pointer, no guard, no owner of the mutex

ASSUME ThreadsAssumption == IsFiniteSet(Threads)
ASSUME SlotsAssumption == Slots \in Nat \ {0}
ASSUME BatchAssumption == Batch \in Nat \ {0}
ASSUME NoneAssumption  == None \notin Ptrs /\ None \notin Threads /\ None \notin Nat

VARIABLES hz, inUse,    \* per slot, the pointer protected and whether it is taken
          list, count,  \* hd.retired
          mu,           \* the holder of hd.retired.mu while it scans
          hazardSet, remaining,  \* the locals of the Scan in progress
          pool, made,   \* hp.pools[size], and the buffers allocated so far
          crashed,      \* Acquire has panicked
          pc, idx,      \* per thread, next operation and loop index
          slot, prev,   \* per thread, its HazardGuard
          arg,          \* per thread, the pointer it is retiring
          live,         \* history: the pointers allocated and not yet freed
          covered       \* history: per thread, the pointer it protected while live

poolVars  == <<pool, made, live>>
guardVars == <<hz, inUse, slot, prev, covered>>
scanVars  == <<list, count, mu, hazardSet, remaining>>
vars == <<hz, inUse, list, count, mu, hazardSet, remaining, pool, made, crashed,
          pc, idx, slot, prev, arg, live, covered>>

Init ==
    /\ hz    = [s \in 1 .. Slots |-> None]
    /\ inUse = [s \in 1 .. Slots |-> FALSE]
    /\ list  = <<>> /\ count = 0
    /\ mu    = None
    /\ hazardSet = {} /\ remaining = <<>>
    /\ pool  = <<>> /\ made = {}
    /\ crashed = FALSE
    /\ pc    = [t \in Threads |-> "idle"]
    /\ idx   = [t \in Threads |-> 0]
    /\ slot  = [t \in Threads |-> None]
    /\ prev  = [t \in Threads |-> None]
    /\ arg   = [t \in Threads |-> None]
    /\ live  = {}
    /\ covered = [t \in Threads |-> None]

Goto(t, label) == pc' = [pc EXCEPT ![t] = label]
GotoAt(t, label, i) == Goto(t, label) /\ idx' = [idx EXCEPT ![t] = i]

(***************************************************************************)
(* Slips: definitions below, each with a mistake that would be easy to     *)
(* make in the code.  Nothing refers to them; put in the place of the      *)
(* definition they are named after, each makes a property fail.            *)
(***************************************************************************)

AcquireFromSecond(t) ==
    /\ pc[t] = "idle" /\ slot[t] = None
    /\ GotoAt(t, "acquire", 2)
    /\ UNCHANGED <<guardVars, scanVars, poolVars, crashed, arg>>

AcquireAs(t, s) ==
    /\ inUse' = [inUse EXCEPT ![idx[t]] = TRUE]
    /\ slot'  = [slot EXCEPT ![t] = s]
    /\ prev'  = [prev EXCEPT ![t] = None]
    /\ GotoAt(t, "idle", 0)
    /\ UNCHANGED <<hz, covered, scanVars, poolVars, crashed, arg>>

AcquireSlotBefore(t) ==
    pc[t] = "acquire" /\ idx[t] <= Slots /\ ~ inUse[idx[t]] /\ AcquireAs(t, idx[t] - 1)

AcquireUsedSlot(t) == pc[t] = "acquire" /\ idx[t] <= Slots /\ AcquireAs(t, idx[t])

ReleaseKeepsSlot(t) ==
    /\ pc[t] = "release"
    /\ slot' = [slot EXCEPT ![t] = None]
    /\ prev' = [prev EXCEPT ![t] = None]
    /\ Goto(t, "idle")
    /\ UNCHANGED <<hz, inUse, covered, scanVars, poolVars, crashed, idx, arg>>

\* count == retireBatchSize is enough when nobody else retires.
RetireScansOnceOnly(t) ==
    /\ pc[t] = "retire" /\ mu = None
    /\ list'  = Append(list, arg[t])
    /\ count' = count + 1
    /\ arg'   = [arg EXCEPT ![t] = None]
    /\ Goto(t, IF count' = Batch THEN "scan" ELSE "idle")
    /\ UNCHANGED <<guardVars, mu, hazardSet, remaining, poolVars, crashed, idx>>

ScanSkipsLastSlot(t) ==
    /\ pc[t] = "scan_use" /\ idx[t] >= Slots
    /\ GotoAt(t, "sort", 1)
    /\ UNCHANGED <<guardVars, scanVars, poolVars, crashed, arg>>

ScanKeepsList(t) ==
    /\ pc[t] = "sort" /\ idx[t] > Len(list)
    /\ count' = Len(remaining)
    /\ mu' = None
    /\ hazardSet' = {} /\ remaining' = <<>>
    /\ GotoAt(t, "idle", 0)
    /\ UNCHANGED <<guardVars, list, poolVars, crashed, arg>>

(***************************************************************************)
(* Guards.  A thread uses one guard at a time.                             *)
(***************************************************************************)

Acquire(t) ==
    /\ pc[t] = "idle" /\ slot[t] = None
    /\ GotoAt(t, "acquire", 1)
    /\ UNCHANGED <<guardVars, scanVars, poolVars, crashed, arg>>

AcquireSlot(t) ==
    /\ pc[t] = "acquire" /\ idx[t] <= Slots
    /\ ~ inUse[idx[t]]
    /\ inUse' = [inUse EXCEPT ![idx[t]] = TRUE]
    /\ slot'  = [slot EXCEPT ![t] = idx[t]]
    /\ prev'  = [prev EXCEPT ![t] = None]
    /\ GotoAt(t, "idle", 0)
    /\ UNCHANGED <<hz, covered, scanVars, poolVars, crashed, arg>>

AcquireNext(t) ==
    /\ pc[t] = "acquire" /\ idx[t] <= Slots
    /\ inUse[idx[t]]
    /\ GotoAt(t, "acquire", idx[t] + 1)
    /\ UNCHANGED <<guardVars, scanVars, poolVars, crashed, arg>>

\* A panic in a goroutine ends the program.
AcquirePanics(t) ==
    /\ pc[t] = "acquire" /\ idx[t] > Slots
    /\ crashed' = TRUE
    /\ UNCHANGED <<guardVars, scanVars, poolVars, pc, idx, arg>>

\* Only the owner of a guard writes its slot, so the load of the previous
\* pointer and the store of the new one are one action.  A pointer that is
\* already retired may be protected too, but that is no use.
Protect(t, p) ==
    /\ pc[t] = "idle" /\ slot[t] # None
    /\ prev' = [prev EXCEPT ![t] = hz[slot[t]]]
    /\ hz'   = [hz EXCEPT ![slot[t]] = p]
    /\ covered' = [covered EXCEPT ![t] = IF p \in live THEN p ELSE None]
    /\ UNCHANGED <<inUse, slot, scanVars, poolVars, crashed, pc, idx, arg>>

\* Clear puts the previous pointer back.
Clear(t) ==
    /\ pc[t] = "idle" /\ slot[t] # None
    /\ hz'   = [hz EXCEPT ![slot[t]] = prev[t]]
    /\ prev' = [prev EXCEPT ![t] = None]
    /\ covered' = [covered EXCEPT ![t] = IF prev[t] \in live THEN prev[t] ELSE None]
    /\ UNCHANGED <<inUse, slot, scanVars, poolVars, crashed, pc, idx, arg>>

Release(t) ==
    /\ pc[t] = "idle" /\ slot[t] # None
    /\ hz' = [hz EXCEPT ![slot[t]] = None]
    /\ covered' = [covered EXCEPT ![t] = None]
    /\ Goto(t, "release")
    /\ UNCHANGED <<inUse, slot, prev, scanVars, poolVars, crashed, idx, arg>>

ReleaseSlot(t) ==
    /\ pc[t] = "release"
    /\ inUse' = [inUse EXCEPT ![slot[t]] = FALSE]
    /\ slot'  = [slot EXCEPT ![t] = None]
    /\ prev'  = [prev EXCEPT ![t] = None]
    /\ Goto(t, "idle")
    /\ UNCHANGED <<hz, covered, scanVars, poolVars, crashed, idx, arg>>

(***************************************************************************)
(* The pool: Alloc takes the pointer freed last, or makes a new one.       *)
(***************************************************************************)

AllocPooled(t) ==
    /\ pc[t] = "idle" /\ pool # <<>>
    /\ live' = live \cup {pool[Len(pool)]}
    /\ pool' = SubSeq(pool, 1, Len(pool) - 1)
    /\ UNCHANGED <<guardVars, scanVars, made, crashed, pc, idx, arg>>

AllocNew(t, p) ==
    /\ pc[t] = "idle" /\ pool = <<>> /\ p \notin made
    /\ made' = made \cup {p}
    /\ live' = live \cup {p}
    /\ UNCHANGED <<guardVars, scanVars, pool, crashed, pc, idx, arg>>

\* Free(p) is Retire(p) with a callback; a pointer is freed once.
Free(t, p) ==
    /\ pc[t] = "idle" /\ p \in live
    /\ live' = live \ {p}
    /\ arg'  = [arg EXCEPT ![t] = p]
    /\ Goto(t, "retire")
    /\ UNCHANGED <<guardVars, scanVars, pool, made, crashed, idx>>

Retire(t) ==
    /\ pc[t] = "retire" /\ mu = None
    /\ list'  = Append(list, arg[t])
    /\ count' = count + 1
    /\ arg'   = [arg EXCEPT ![t] = None]
    /\ Goto(t, IF count' >= Batch THEN "scan" ELSE "idle")
    /\ UNCHANGED <<guardVars, mu, hazardSet, remaining, poolVars, crashed, idx>>

(***************************************************************************)
(* Scan.                                                                   *)
(***************************************************************************)

CallScan(t) ==
    /\ pc[t] = "idle"
    /\ Goto(t, "scan")
    /\ UNCHANGED <<guardVars, scanVars, poolVars, crashed, idx, arg>>

ScanLock(t) ==
    /\ pc[t] = "scan" /\ mu = None
    /\ mu' = t
    /\ hazardSet' = {} /\ remaining' = <<>>
    /\ GotoAt(t, "scan_use", 1)
    /\ UNCHANGED <<guardVars, list, count, poolVars, crashed, arg>>

ScanUse(t) ==
    /\ pc[t] = "scan_use" /\ idx[t] <= Slots
    /\ IF inUse[idx[t]] THEN Goto(t, "scan_hz") /\ UNCHANGED idx
                        ELSE GotoAt(t, "scan_use", idx[t] + 1)
    /\ UNCHANGED <<guardVars, scanVars, poolVars, crashed, arg>>

ScanHz(t) ==
    /\ pc[t] = "scan_hz"
    /\ hazardSet' = hazardSet \cup ({hz[idx[t]]} \ {None})
    /\ GotoAt(t, "scan_use", idx[t] + 1)
    /\ UNCHANGED <<guardVars, list, count, mu, remaining, poolVars, crashed, arg>>

ScanSlotsDone(t) ==
    /\ pc[t] = "scan_use" /\ idx[t] > Slots
    /\ GotoAt(t, "sort", 1)
    /\ UNCHANGED <<guardVars, scanVars, poolVars, crashed, arg>>

KeepNode(t) ==
    /\ pc[t] = "sort" /\ idx[t] <= Len(list)
    /\ list[idx[t]] \in hazardSet
    /\ remaining' = Append(remaining, list[idx[t]])
    /\ GotoAt(t, "sort", idx[t] + 1)
    /\ UNCHANGED <<guardVars, list, count, mu, hazardSet, poolVars, crashed, arg>>

ReclaimNode(t) ==
    /\ pc[t] = "sort" /\ idx[t] <= Len(list)
    /\ list[idx[t]] \notin hazardSet
    /\ pool' = Append(pool, list[idx[t]])
    /\ GotoAt(t, "sort", idx[t] + 1)
    /\ UNCHANGED <<guardVars, scanVars, made, live, crashed, arg>>

ScanUnlock(t) ==
    /\ pc[t] = "sort" /\ idx[t] > Len(list)
    /\ list'  = remaining
    /\ count' = Len(remaining)
    /\ mu' = None
    /\ hazardSet' = {} /\ remaining' = <<>>
    /\ GotoAt(t, "idle", 0)
    /\ UNCHANGED <<guardVars, poolVars, crashed, arg>>

Guard(t) ==
    \/ Acquire(t) \/ AcquireSlot(t) \/ AcquireNext(t) \/ AcquirePanics(t)
    \/ \E p \in made : Protect(t, p)
    \/ Clear(t)
    \/ Release(t) \/ ReleaseSlot(t)

PoolOp(t) ==
    \/ AllocPooled(t)
    \/ \E p \in Ptrs : AllocNew(t, p) \/ Free(t, p)

Scan(t) ==
    \/ CallScan(t) \/ ScanLock(t)
    \/ ScanUse(t) \/ ScanHz(t) \/ ScanSlotsDone(t)
    \/ KeepNode(t) \/ ReclaimNode(t) \/ ScanUnlock(t)

Next == ~ crashed /\ \E t \in Threads : Guard(t) \/ PoolOp(t) \/ Retire(t) \/ Scan(t)

Spec == Init /\ [][Next]_vars

-----------------------------------------------------------------------------
TypeOK ==
    /\ hz \in [1 .. Slots -> Ptrs \cup {None}]
    /\ inUse \in [1 .. Slots -> BOOLEAN]
    /\ list \in Seq(Ptrs) /\ remaining \in Seq(Ptrs) /\ pool \in Seq(Ptrs)
    /\ count \in Nat
    /\ mu \in Threads \cup {None}
    /\ hazardSet \subseteq Ptrs /\ made \subseteq Ptrs /\ live \subseteq made
    /\ crashed \in BOOLEAN
    /\ pc \in [Threads -> {"idle", "acquire", "release", "retire", "scan",
                           "scan_use", "scan_hz", "sort"}]
    /\ idx \in [Threads -> Nat]
    /\ slot \in [Threads -> 1 .. Slots \cup {None}]
    /\ prev \in [Threads -> Ptrs \cup {None}]
    /\ arg \in [Threads -> Ptrs \cup {None}]
    /\ covered \in [Threads -> Ptrs \cup {None}]

Elems(s) == {s[i] : i \in 1 .. Len(s)}

\* The point of the domain: a pointer that was protected while it was live
\* is not given to anyone else until it is cleared or released, however the
\* Scan that reads the slots one by one interleaves with the guards
\* (hazard.go:94-112).
ProtectedNotReclaimed == \A t \in Threads : covered[t] \notin Elems(pool)

\* The retired pointers: in the hands of Retire, or in the list and not yet
\* dealt with by the Scan that holds the mutex.
Scanned == IF mu # None /\ pc[mu] = "sort" THEN idx[mu] - 1 ELSE 0
Pending == {arg[t] : t \in Threads} \ {None}
Waiting == {list[i] : i \in Scanned + 1 .. Len(list)}

\* Every buffer made is in exactly one place, once: live, about to be retired,
\* retired, kept by the Scan in progress, or in the pool.  So nothing leaks
\* and nothing is handed out twice (hazard.go:103-114 and 187-205).
OnePlaceEach ==
    /\ made = live \cup Pending \cup Waiting \cup Elems(remaining) \cup Elems(pool)
    /\ Cardinality(made) = Cardinality(live) + Cardinality({t \in Threads : arg[t] # None})
                           + (Len(list) - Scanned) + Len(remaining) + Len(pool)

\* The threads in a Scan: they wait for the mutex or hold it.
Scanners == {t \in Threads : pc[t] \in {"scan", "scan_use", "scan_hz", "sort"}}

\* What a Retire may leave behind, or a Scan because slots protect it.
Kept == IF Batch - 1 >= Slots THEN Batch - 1 ELSE Slots

\* However many threads retire and scan at once, count is the length of the
\* list, and the list outgrows what one Retire or one Scan may leave there by
\* at most one pointer for every Scan that has yet to end (hazard.go:77-85
\* and 114-116).
BacklogBounded == count = Len(list) /\ Len(list) <= Kept + Cardinality(Scanners)

\* A guard's slot is taken, by nobody else, and while it is free it protects
\* nothing (hazard.go:67-70).
SlotsOwned ==
    /\ \A s, t \in Threads : s # t /\ slot[s] # None => slot[s] # slot[t]
    /\ \A i \in 1 .. Slots : /\ inUse[i] <=> \E t \in Threads : slot[t] = i
                             /\ ~ inUse[i] => hz[i] = None

\* With no more threads than slots, each with one guard, Acquire never
\* panics, although it looks at the slots one by one while others come and
\* go (hazard.go:48-54).
NeverExhausted == Cardinality(Threads) <= Slots => ~ crashed

\* The threads that are past slot i: they hold a slot after it or have got
\* as far as that in Acquire.
AtOrAfter(i) == {t \in Threads : \/ pc[t] = "acquire" /\ idx[t] >= i
                                 \/ slot[t] # None /\ slot[t] >= i}

\* What makes NeverExhausted inductive: there is room for everybody who has
\* come as far as slot i.
RoomAhead ==
    Cardinality(Threads) <= Slots =>
        \A i \in 1 .. Slots + 1 : Cardinality(AtOrAfter(i)) <= Slots + 1 - i

\* However searches, releases and scans interleave, no slot has two owners,
\* a free slot protects nothing, and there is room for those still searching
\* (hazard.go:48-54, 67-70).
SlotInv == SlotsOwned /\ RoomAhead
=============================================================================
