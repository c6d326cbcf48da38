------------------------- MODULE TaggedRing_proof -------------------------
(***************************************************************************)
(* Proofs about TaggedRing and, at the end, about VersionedRing, for any   *)
(* number of threads, any size from 2 on and any number of items.          *)
(***************************************************************************)
EXTENDS TaggedRing, SequenceTheorems, TLAPS

-----------------------------------------------------------------------------
(* Arithmetic of positions: a cell is reused every Size positions.         *)

LEMMA DivMod ==
    ASSUME NEW a \in Nat
    PROVE  /\ a \div Size \in Int
           /\ a % Size \in 0 .. Size - 1
           /\ a = (Size * (a \div Size)) + (a % Size)
<1>1. a \div Size \in Int /\ a % Size \in 0 .. Size - 1
  BY SizeAssumption, SMT
<1>2. a = (Size * (a \div Size)) + (a % Size)
  BY SizeAssumption, SMT
<1> QED
  BY <1>1, <1>2

LEMMA DivUnique ==
    ASSUME NEW q \in Int, NEW q1 \in Int,
           NEW r \in 0 .. Size - 1, NEW r1 \in 0 .. Size - 1,
           (Size * q) + r = (Size * q1) + r1
    PROVE  r = r1
<1>1. CASE q < q1
  <2>1. Size * (q1 - q) >= Size
    BY <1>1, SizeAssumption, SMT
  <2>2. Size * (q1 - q) = (Size * q1) - (Size * q)
    BY SizeAssumption, SMT
  <2> QED
    BY <2>1, <2>2, SizeAssumption, SMT
<1>2. CASE q > q1
  <2>1. Size * (q - q1) >= Size
    BY <1>2, SizeAssumption, SMT
  <2>2. Size * (q - q1) = (Size * q) - (Size * q1)
    BY SizeAssumption, SMT
  <2> QED
    BY <2>1, <2>2, SizeAssumption, SMT
<1>3. CASE q = q1
  BY <1>3, SizeAssumption, SMT
<1> QED
  BY <1>1, <1>2, <1>3

\* Two positions of one cell are at least Size apart.
LEMMA IdxGap ==
    ASSUME NEW a \in Nat, NEW b \in Nat, Idx(a) = Idx(b), a < b
    PROVE  b >= a + Size
<1> DEFINE x == a \div Size
           y == b \div Size
<1>1. x \in Int /\ y \in Int /\ a % Size \in Int
  BY DivMod
<1>2. a = (Size * x) + (a % Size) /\ b = (Size * y) + (a % Size)
  BY DivMod DEF Idx
<1> HIDE DEF x, y
<1>3. Size * (y - x) = (Size * y) - (Size * x)
  BY <1>1, SizeAssumption, SMT
<1>4. Size * (y - x) > 0
  BY <1>1, <1>2, <1>3, SizeAssumption, SMT
<1>5. y - x >= 1
  BY <1>1, <1>4, SizeAssumption, SMT
<1>6. Size * (y - x) >= Size
  BY <1>1, <1>5, SizeAssumption, SMT
<1> QED
  BY <1>1, <1>2, <1>3, <1>6, SizeAssumption, SMT

LEMMA IdxShift ==
    ASSUME NEW a \in Nat
    PROVE  Idx(a + Size) = Idx(a)
<1> DEFINE x == a \div Size
           y == (a + Size) \div Size
<1>1. /\ x \in Int /\ y \in Int
      /\ a % Size \in 0 .. Size - 1 /\ (a + Size) % Size \in 0 .. Size - 1
  BY DivMod, SizeAssumption
<1>2. a = (Size * x) + (a % Size)
  BY DivMod
<1>3. a + Size = (Size * y) + ((a + Size) % Size)
  BY DivMod, SizeAssumption
<1> HIDE DEF x, y
<1>4. Size * (x + 1) = (Size * x) + Size
  BY <1>1, SizeAssumption, SMT
<1>5. (Size * (x + 1)) + (a % Size) = (Size * y) + ((a + Size) % Size)
  BY <1>1, <1>2, <1>3, <1>4, SizeAssumption, SMT
<1> QED
  BY <1>1, <1>5, DivUnique DEF Idx

LEMMA IdxNext ==
    ASSUME NEW a \in Nat
    PROVE  Idx(a + 1) # Idx(a)
BY IdxGap, SizeAssumption

LEMMA IdxInitial ==
    ASSUME NEW i \in Cells
    PROVE  Idx(i) = i
BY SizeAssumption, SMT DEF Cells, Idx

LEMMA IdxType ==
    ASSUME NEW a \in Nat
    PROVE  Idx(a) \in Cells
BY DivMod DEF Idx, Cells

-----------------------------------------------------------------------------
(* Type correctness.                                                       *)

LEMMA TypeInit == Init => TypeOK
BY SizeAssumption, ThreadAssumption
   DEF Init, TypeOK, Cells, Threads, Refused, EnqLabels, DeqLabels

LEMMA TypeEnqueue ==
    ASSUME TypeOK, NEW p \in Producers, Enqueue(p)
    PROVE  TypeOK'
<1> USE ThreadAssumption, SizeAssumption
    DEF TypeOK, Threads, EnqLabels, DeqLabels
<1>0. p \in Threads /\ p \notin Consumers /\ Idx(pos[p]) \in Cells
  BY IdxType
<1>1. CASE EnqCall(p)
  <2>1. <<p, sent[p] + 1>> \in Items
    BY DEF Items
  <2> QED
    BY <1>0, <1>1, <2>1 DEF EnqCall
<1>2. CASE EnqSeesFree(p)
  BY <1>0, <1>2 DEF EnqSeesFree
<1>3. CASE EnqSeesFull(p)
  BY <1>0, <1>3 DEF EnqSeesFull, Refused
<1>4. CASE EnqSeesStale(p)
  BY <1>0, <1>4 DEF EnqSeesStale
<1>5. CASE EnqReload(p)
  BY <1>0, <1>5 DEF EnqReload
<1>6. CASE EnqClaim(p)
  BY <1>0, <1>6 DEF EnqClaim
<1>7. CASE EnqClaimFails(p)
  BY <1>0, <1>7 DEF EnqClaimFails
<1>8. CASE EnqWrite(p)
  BY <1>0, <1>8 DEF EnqWrite
<1>9. CASE EnqPublish(p)
  BY <1>0, <1>9 DEF EnqPublish, Returned
<1> QED
  BY <1>1, <1>2, <1>3, <1>4, <1>5, <1>6, <1>7, <1>8, <1>9 DEF Enqueue

LEMMA TypeDequeue ==
    ASSUME TypeOK, NEW c \in Consumers, Dequeue(c)
    PROVE  TypeOK'
<1> USE ThreadAssumption, SizeAssumption
    DEF TypeOK, Threads, EnqLabels, DeqLabels
<1>0. c \in Threads /\ c \notin Producers /\ Idx(pos[c]) \in Cells
  BY IdxType
<1>1. CASE DeqCall(c)
  BY <1>0, <1>1 DEF DeqCall
<1>2. CASE DeqSeesItem(c)
  BY <1>0, <1>2 DEF DeqSeesItem
<1>3. CASE DeqSeesEmpty(c)
  BY <1>0, <1>3 DEF DeqSeesEmpty, Refused
<1>4. CASE DeqSeesStale(c)
  BY <1>0, <1>4 DEF DeqSeesStale
<1>5. CASE DeqReload(c)
  BY <1>0, <1>5 DEF DeqReload
<1>6. CASE DeqClaim(c)
  BY <1>0, <1>6 DEF DeqClaim
<1>7. CASE DeqClaimFails(c)
  BY <1>0, <1>7 DEF DeqClaimFails
<1>8. CASE DeqRead(c)
  BY <1>0, <1>8 DEF DeqRead
<1>9. CASE DeqZero(c)
  BY <1>0, <1>9 DEF DeqZero
<1>10. CASE DeqRelease(c)
  BY <1>0, <1>10 DEF DeqRelease, Returned
<1> QED
  BY <1>1, <1>2, <1>3, <1>4, <1>5, <1>6, <1>7, <1>8, <1>9, <1>10 DEF Dequeue

LEMMA TypeStep == TypeOK /\ [Next]_vars => TypeOK'
<1> SUFFICES ASSUME TypeOK, [Next]_vars PROVE TypeOK'
  OBVIOUS
<1>1. CASE UNCHANGED vars
  BY <1>1 DEF vars, TypeOK
<1> QED
  BY <1>1, TypeEnqueue, TypeDequeue DEF Next

\* Every counter, cell and local variable keeps its type, a producer runs
\* only Enqueue and a consumer only Dequeue (tagged.go:44-89).
THEOREM TypeCorrect == Spec => []TypeOK
BY TypeInit, TypeStep, PTL DEF Spec
-----------------------------------------------------------------------------
(* The inductive invariant.                                                *)

LEMMA InvInit == Init => RingInv
<1> SUFFICES ASSUME Init PROVE RingInv
  OBVIOUS
<1>1. \A t \in Threads : ~ Filling(t) /\ ~ Draining(t) /\ pc[t] = "idle"
  BY DEF Init, Filling, Draining
<1>2. CellOK
  <2> SUFFICES ASSUME NEW i \in Cells PROVE CellFree(i, seq[i])
    BY DEF CellOK
  <2> QED
    BY IdxInitial, SizeAssumption DEF Init, CellFree, Cells
<1>3. (\A p \in Producers : ProducerOK(p)) /\ (\A c \in Consumers : ConsumerOK(c))
  BY <1>1 DEF ProducerOK, ConsumerOK, Threads, Filling, Draining, EnqLabels, DeqLabels
<1>4. OwnersOK
  BY <1>1 DEF OwnersOK, Threads
<1>5. Bounded
  BY SizeAssumption DEF Init, Bounded
<1> QED
  BY <1>2, <1>3, <1>4, <1>5 DEF RingInv

\* A thread that owns no cell, before and after, disturbs nothing if it
\* leaves the cells and the counters alone.
LEMMA QuietStep ==
    ASSUME TypeOK, RingInv, NEW t \in Threads,
           UNCHANGED <<enqPos, deqPos, seq, val, log>>,
           \A s \in Threads \ {t} :
               pc'[s] = pc[s] /\ pos'[s] = pos[s] /\ item'[s] = item[s],
           ~ Filling(t), ~ Filling(t)', ~ Draining(t), ~ Draining(t)',
           t \in Producers => ProducerOK(t)',
           t \in Consumers => ConsumerOK(t)'
    PROVE  RingInv'
<1>1. Bounded'
  BY DEF RingInv, Bounded
<1>2. CellOK'
  <2>1. \A p \in Producers : Filling(p) => Filling(p)' /\ pos'[p] = pos[p]
    BY DEF Filling, Threads
  <2>2. \A c \in Consumers : Draining(c) => Draining(c)' /\ pos'[c] = pos[c]
    BY DEF Draining, Threads
  <2>3. \A i \in Cells, n \in Int : CellFree(i, n) => CellFree(i, n)'
    BY <2>1 DEF CellFree
  <2>4. \A i \in Cells, n \in Int : CellFull(i, n) => CellFull(i, n)'
    BY <2>2 DEF CellFull
  <2> QED
    BY <2>3, <2>4 DEF RingInv, CellOK, TypeOK
<1>3. ASSUME NEW p \in Producers PROVE ProducerOK(p)'
  BY DEF RingInv, ProducerOK, Filling, Threads
<1>4. ASSUME NEW c \in Consumers PROVE ConsumerOK(c)'
  BY DEF RingInv, ConsumerOK, Draining, Threads
<1>5. OwnersOK'
  BY DEF RingInv, OwnersOK, Filling, Draining, Threads
<1> QED
  BY <1>1, <1>2, <1>3, <1>4, <1>5 DEF RingInv

\* The producer whose CompareAndSwap succeeds finds the cell free at pos.
LEMMA ClaimedIsFree ==
    ASSUME TypeOK, RingInv, NEW p \in Producers, pc[p] = "enq_cas", enqPos = pos[p]
    PROVE  CellFree(Idx(enqPos), enqPos) /\ seq[Idx(enqPos)] = enqPos
<1> DEFINE n == enqPos
           i == Idx(n)
<1>1. n \in Nat /\ deqPos \in Nat /\ i \in Cells /\ seq[i] \in Nat
  BY IdxType DEF TypeOK
<1>2. seq[i] >= n /\ deqPos <= n
  BY DEF RingInv, ProducerOK, Bounded
<1>3. CASE CellFree(i, seq[i])
  <2>1. seq[i] < n + Size /\ Idx(seq[i]) = Idx(n)
    BY <1>1, <1>2, <1>3, SizeAssumption DEF CellFree
  <2>2. seq[i] = n
    BY <1>1, <1>2, <2>1, IdxGap, SizeAssumption
  <2> QED
    BY <1>3, <2>2
<1>4. CASE CellFull(i, seq[i] - 1)
  <2>1. seq[i] - 1 \in Nat /\ Idx(seq[i] - 1) = Idx(n) /\ seq[i] - 1 < n
    BY <1>4 DEF CellFull
  <2>2. n >= seq[i] - 1 + Size
    BY <1>1, <2>1, IdxGap
  <2> QED
    BY <1>1, <1>2, <2>1, <2>2, SizeAssumption
<1> QED
  BY <1>1, <1>3, <1>4 DEF RingInv, CellOK

\* The consumer whose CompareAndSwap succeeds finds the cell full at pos.
LEMMA ClaimedIsFull ==
    ASSUME TypeOK, RingInv, NEW c \in Consumers, pc[c] = "deq_cas", deqPos = pos[c]
    PROVE  CellFull(Idx(deqPos), deqPos) /\ seq[Idx(deqPos)] = deqPos + 1
<1> DEFINE n == deqPos
           i == Idx(n)
<1>1. n \in Nat /\ enqPos \in Nat /\ i \in Cells /\ seq[i] \in Nat
  BY IdxType DEF TypeOK
<1>2. seq[i] >= n + 1 /\ enqPos <= n + Size
  BY DEF RingInv, ConsumerOK, Bounded
<1>3. CASE CellFree(i, seq[i])
  <2>1. seq[i] < n + Size /\ Idx(seq[i]) = Idx(n)
    BY <1>3 DEF CellFree
  <2>2. seq[i] >= n + Size
    BY <1>1, <1>2, <2>1, IdxGap
  <2> QED
    BY <1>1, <2>1, <2>2, SizeAssumption
<1>4. CASE CellFull(i, seq[i] - 1)
  <2>1. seq[i] - 1 \in Nat /\ Idx(seq[i] - 1) = Idx(n) /\ seq[i] - 1 < n + Size
    BY <1>1, <1>2, <1>4, SizeAssumption DEF CellFull
  <2>2. seq[i] - 1 = n
    BY <1>1, <1>2, <2>1, IdxGap, SizeAssumption
  <2> QED
    BY <1>1, <1>4, <2>2
<1> QED
  BY <1>1, <1>3, <1>4 DEF RingInv, CellOK

\* Whoever owns a cell owns it alone.
LEMMA SoleOwner ==
    ASSUME TypeOK, RingInv, NEW s \in Threads, NEW t \in Threads, s # t,
           (s \in Producers /\ Filling(s)) \/ (s \in Consumers /\ Draining(s)),
           (t \in Producers /\ Filling(t)) \/ (t \in Consumers /\ Draining(t))
    PROVE  Idx(pos[s]) # Idx(pos[t])
<1>0. pos[s] \in Nat /\ pos[t] \in Nat
  BY DEF TypeOK
<1>1. CASE s \in Producers /\ Filling(s) /\ t \in Producers /\ Filling(t)
  BY <1>0, <1>1 DEF RingInv, ProducerOK, OwnersOK
<1>2. CASE s \in Consumers /\ Draining(s) /\ t \in Consumers /\ Draining(t)
  <2>1. seq[Idx(pos[s])] = pos[s] + 1 /\ seq[Idx(pos[t])] = pos[t] + 1 /\ pos[s] # pos[t]
    BY <1>2 DEF RingInv, ConsumerOK, OwnersOK
  <2> QED
    BY <1>0, <2>1
<1>3. CASE s \in Producers /\ Filling(s) /\ t \in Consumers /\ Draining(t)
  <2>1. seq[Idx(pos[s])] = pos[s] /\ seq[Idx(pos[t])] = pos[t] + 1
    BY <1>3 DEF RingInv, ProducerOK, ConsumerOK
  <2> QED
    BY <1>0, <2>1, IdxNext
<1>4. CASE s \in Consumers /\ Draining(s) /\ t \in Producers /\ Filling(t)
  <2>1. seq[Idx(pos[t])] = pos[t] /\ seq[Idx(pos[s])] = pos[s] + 1
    BY <1>4 DEF RingInv, ProducerOK, ConsumerOK
  <2> QED
    BY <1>0, <2>1, IdxNext
<1> QED
  BY <1>1, <1>2, <1>3, <1>4

LEMMA InvEnqClaim ==
    ASSUME TypeOK, TypeOK', RingInv, NEW p \in Producers, EnqClaim(p)
    PROVE  RingInv'
<1> DEFINE n == enqPos
<1>0. /\ n \in Nat /\ deqPos \in Nat /\ Idx(n) \in Cells /\ n = pos[p] /\ p \in Threads
      /\ enqPos' = n + 1 /\ Len(log) = n /\ log \in Seq(Items)
      /\ p \notin Consumers /\ seq \in [Cells -> Nat]
      /\ pc[p] = "enq_cas" /\ pc'[p] = "enq_val"
      /\ UNCHANGED <<deqPos, seq, val, pos, item>>
      /\ \A m \in Nat : m < n => log'[m + 1] = log[m + 1]
      /\ log'[n + 1] = item[p]
  BY IdxType, ThreadAssumption, SMTT(30) DEF EnqClaim, TypeOK, Threads, EnqLabels
<1>1. CellFree(Idx(n), n) /\ seq[Idx(n)] = n
  BY <1>0, ClaimedIsFree
<1>2. Filling(p)' /\ ~ Filling(p)
  BY <1>0 DEF Filling
<1>3. \A s \in Threads \ {p} : pc'[s] = pc[s] /\ pos'[s] = pos[s] /\ item'[s] = item[s]
  BY DEF EnqClaim
<1>4. Bounded'
  BY <1>0, <1>1, SizeAssumption DEF RingInv, Bounded, CellFree
<1>5. CellOK'
  <2> SUFFICES ASSUME NEW i \in Cells
               PROVE  (CellFree(i, seq[i]) \/ CellFull(i, seq[i] - 1))'
    BY DEF CellOK
  <2>1. \A m \in Nat : Idx(m) = i /\ i # Idx(n) => m # n /\ m + Size # n
    BY IdxShift
  <2>2. CASE i = Idx(n)
    <3>1. CellFree(i, seq[i])'
      BY <1>0, <1>1, <1>2, <2>2, SizeAssumption DEF CellFree
    <3> QED
      BY <3>1
  <2>3. CASE i # Idx(n) /\ CellFree(i, seq[i])
    <3>1. seq[i] # n /\ seq[i] + Size # n /\ seq[i] \in Nat
      BY <2>1, <2>3 DEF CellFree
    <3>2. \A q \in Producers : Filling(q) => Filling(q)' /\ pos'[q] = pos[q]
      BY <1>2, <1>3 DEF Filling, Threads
    <3>3. enqPos' <= seq[i] + Size /\ (seq[i] < enqPos' => seq[i] < n)
      <4>1. n \in Nat /\ enqPos' = n + 1 /\ n <= seq[i] + Size
        BY <1>0, <2>3 DEF CellFree
      <4> HIDE DEF n
      <4> QED
        BY <3>1, <4>1, SizeAssumption
    <3>4. CellFree(i, seq[i])'
      BY <1>0, <2>3, <3>2, <3>3 DEF CellFree
    <3> QED
      BY <3>4
  <2>4. CASE i # Idx(n) /\ CellFull(i, seq[i] - 1)
    <3>1. seq[i] - 1 \in Nat /\ seq[i] - 1 < n /\ seq[i] - 1 + Size # n
      BY <2>1, <2>4 DEF CellFull
    <3>2. \A c \in Consumers : Draining(c) => Draining(c)' /\ pos'[c] = pos[c]
      BY <1>0, <1>3 DEF Draining, Threads
    <3>3. /\ seq[i] - 1 < enqPos' /\ enqPos' <= seq[i] - 1 + Size
          /\ log'[seq[i] - 1 + 1] = log[seq[i] - 1 + 1]
      <4>1. n \in Nat /\ enqPos' = n + 1 /\ n <= seq[i] - 1 + Size
        BY <1>0, <2>4 DEF CellFull
      <4>2. log'[seq[i] - 1 + 1] = log[seq[i] - 1 + 1]
        BY <1>0, <3>1
      <4> HIDE DEF n
      <4> QED
        BY <3>1, <4>1, <4>2, SizeAssumption
    <3>4. CellFull(i, seq[i] - 1)'
      BY <1>0, <2>4, <3>2, <3>3 DEF CellFull
    <3> QED
      BY <3>4
  <2> QED
    BY <2>2, <2>3, <2>4 DEF RingInv, CellOK
<1>6. ASSUME NEW q \in Producers PROVE ProducerOK(q)'
  <2>1. CASE q = p
    BY <1>0, <1>1, <2>1 DEF ProducerOK, CellFree, TypeOK
  <2>2. CASE q # p
    <3>1. pos[q] \in Nat /\ ProducerOK(q)
      BY DEF TypeOK, RingInv, Threads
    <3> QED
      BY <1>0, <1>3, <2>2, <3>1 DEF ProducerOK, Filling, Threads
  <2> QED
    BY <2>1, <2>2
<1>7. ASSUME NEW c \in Consumers PROVE ConsumerOK(c)'
  <2>1. pos[c] \in Nat /\ ConsumerOK(c) /\ deqPos <= n
    BY DEF TypeOK, RingInv, Bounded, Threads
  <2>2. pc'[c] = pc[c] /\ pos'[c] = pos[c] /\ item'[c] = item[c]
    BY <1>0, <1>3 DEF Threads
  <2>3. Draining(c) => log'[pos[c] + 1] = log[pos[c] + 1]
    BY <1>0, <2>1 DEF ConsumerOK
  <2> QED
    BY <1>0, <2>1, <2>2, <2>3 DEF ConsumerOK, Draining
<1>8. OwnersOK'
  <2>1. \A q \in Producers : Filling(q) => pos[q] < n
    BY <1>0 DEF RingInv, ProducerOK
  <2>2. \A q \in Producers \ {p} : (Filling(q) <=> Filling(q)') /\ pos'[q] = pos[q] /\ pos[q] \in Nat
    BY <1>3 DEF Filling, Threads, TypeOK
  <2>3. \A c \in Consumers : (Draining(c) <=> Draining(c)') /\ pos'[c] = pos[c]
    BY <1>0, <1>3 DEF Draining, Threads
  <2> QED
    BY <1>0, <1>2, <2>1, <2>2, <2>3 DEF RingInv, OwnersOK
<1> QED
  BY <1>4, <1>5, <1>6, <1>7, <1>8 DEF RingInv

LEMMA InvEnqWrite ==
    ASSUME TypeOK, TypeOK', RingInv, NEW p \in Producers, EnqWrite(p)
    PROVE  RingInv'
<1> DEFINE n == pos[p]
<1> USE DEF EnqWrite
<1>0. /\ n \in Nat /\ enqPos \in Nat /\ deqPos \in Nat /\ Idx(n) \in Cells /\ p \in Threads
      /\ p \notin Consumers /\ Filling(p) /\ Filling(p)'
      /\ seq[Idx(n)] = n /\ deqPos <= n /\ n < enqPos /\ item[p] = log[n + 1]
      /\ seq \in [Cells -> Nat]
      /\ val'[Idx(n)] = item[p]
      /\ \A j \in Cells \ {Idx(n)} : val'[j] = val[j]
  BY IdxType, ThreadAssumption DEF TypeOK, Threads, Filling, RingInv, ProducerOK
<1>1. \A s \in Threads \ {p} : pc'[s] = pc[s] /\ pos'[s] = pos[s] /\ item'[s] = item[s]
  OBVIOUS
<1>2. \A q \in Producers : (Filling(q) <=> Filling(q)') /\ pos'[q] = pos[q]
  BY <1>0, <1>1 DEF Filling, Threads
<1>3. \A c \in Consumers : (Draining(c) <=> Draining(c)') /\ pos'[c] = pos[c]
  BY <1>0, <1>1 DEF Draining, Threads
<1>4. Bounded'
  BY DEF RingInv, Bounded
<1>5. CellOK'
  <2> SUFFICES ASSUME NEW i \in Cells
               PROVE  (CellFree(i, seq[i]) \/ CellFull(i, seq[i] - 1))'
    BY DEF CellOK
  <2>1. CASE CellFree(i, seq[i])
    BY <1>0, <1>2, <2>1 DEF CellFree
  <2>2. CASE CellFull(i, seq[i] - 1)
    <3>1. i # Idx(n)
      BY <1>0, <2>2, IdxNext DEF CellFull
    <3> QED
      BY <1>0, <1>3, <2>2, <3>1 DEF CellFull
  <2> QED
    BY <2>1, <2>2 DEF RingInv, CellOK
<1>6. ASSUME NEW q \in Producers PROVE ProducerOK(q)'
  <2>1. CASE q = p
    BY <1>0, <2>1 DEF ProducerOK, TypeOK, RingInv, Filling
  <2>2. CASE q # p
    <3>1. pos[q] \in Nat /\ ProducerOK(q) /\ Idx(pos[q]) \in Cells
      BY IdxType DEF TypeOK, RingInv, Threads
    <3>2. Filling(q) => Idx(pos[q]) # Idx(n)
      BY <1>0, <2>2, SoleOwner DEF Threads
    <3> QED
      BY <1>0, <1>1, <2>2, <3>1, <3>2 DEF ProducerOK, Filling, Threads
  <2> QED
    BY <2>1, <2>2
<1>7. ASSUME NEW c \in Consumers PROVE ConsumerOK(c)'
  <2>1. pos[c] \in Nat /\ ConsumerOK(c) /\ Idx(pos[c]) \in Cells
    BY IdxType DEF TypeOK, RingInv, Threads
  <2>2. Draining(c) => Idx(pos[c]) # Idx(n)
    BY <1>0, SoleOwner DEF Threads
  <2> QED
    BY <1>0, <1>1, <2>1, <2>2 DEF ConsumerOK, Draining, Threads
<1>8. OwnersOK'
  BY <1>2, <1>3 DEF RingInv, OwnersOK
<1> QED
  BY <1>4, <1>5, <1>6, <1>7, <1>8 DEF RingInv

LEMMA InvEnqPublish ==
    ASSUME TypeOK, TypeOK', RingInv, NEW p \in Producers, EnqPublish(p)
    PROVE  RingInv'
<1> DEFINE n == pos[p]
<1> USE DEF EnqPublish
<1>0. /\ n \in Nat /\ enqPos \in Nat /\ deqPos \in Nat /\ Idx(n) \in Cells /\ p \in Threads
      /\ p \notin Consumers /\ Filling(p) /\ ~ Filling(p)' /\ pc'[p] = "idle"
      /\ seq[Idx(n)] = n /\ deqPos <= n /\ n < enqPos /\ val[Idx(n)] = log[n + 1]
      /\ enqPos <= deqPos + Size
      /\ seq \in [Cells -> Nat]
      /\ seq'[Idx(n)] = n + 1
      /\ \A j \in Cells \ {Idx(n)} : seq'[j] = seq[j]
  BY IdxType, ThreadAssumption
     DEF TypeOK, Threads, Filling, RingInv, ProducerOK, Bounded, EnqLabels
<1>1. \A s \in Threads \ {p} : pc'[s] = pc[s] /\ pos'[s] = pos[s] /\ item'[s] = item[s]
  OBVIOUS
<1>2. \A q \in Producers \ {p} : (Filling(q) <=> Filling(q)') /\ pos'[q] = pos[q]
  BY <1>0, <1>1 DEF Filling, Threads
<1>3. \A c \in Consumers : (Draining(c) <=> Draining(c)') /\ pos'[c] = pos[c]
  BY <1>0, <1>1 DEF Draining, Threads
<1>4. Bounded'
  BY DEF RingInv, Bounded
<1>5. CellOK'
  <2> SUFFICES ASSUME NEW i \in Cells
               PROVE  (CellFree(i, seq[i]) \/ CellFull(i, seq[i] - 1))'
    BY DEF CellOK
  <2>1. CASE i = Idx(n)
    <3>1. CellFull(i, n)'
      BY <1>0, <2>1, SizeAssumption DEF CellFull
    <3> QED
      BY <1>0, <2>1, <3>1
  <2>2. CASE i # Idx(n) /\ CellFree(i, seq[i])
    BY <1>0, <1>2, <2>2 DEF CellFree
  <2>3. CASE i # Idx(n) /\ CellFull(i, seq[i] - 1)
    BY <1>0, <1>3, <2>3 DEF CellFull
  <2> QED
    BY <2>1, <2>2, <2>3 DEF RingInv, CellOK
<1>6. ASSUME NEW q \in Producers PROVE ProducerOK(q)'
  <2>1. CASE q = p
    BY <1>0, <2>1 DEF ProducerOK, EnqLabels
  <2>2. CASE q # p
    <3>1. pos[q] \in Nat /\ ProducerOK(q) /\ Idx(pos[q]) \in Cells
      BY IdxType DEF TypeOK, RingInv, Threads
    <3>2. Filling(q) => Idx(pos[q]) # Idx(n)
      BY <1>0, <2>2, SoleOwner DEF Threads
    <3> QED
      BY <1>0, <1>1, <2>2, <3>1, <3>2 DEF ProducerOK, Filling, Threads
  <2> QED
    BY <2>1, <2>2
<1>7. ASSUME NEW c \in Consumers PROVE ConsumerOK(c)'
  <2>1. pos[c] \in Nat /\ ConsumerOK(c) /\ Idx(pos[c]) \in Cells
    BY IdxType DEF TypeOK, RingInv, Threads
  <2>2. Draining(c) => Idx(pos[c]) # Idx(n)
    BY <1>0, SoleOwner DEF Threads
  <2> QED
    BY <1>0, <1>1, <2>1, <2>2 DEF ConsumerOK, Draining, Threads
<1>8. OwnersOK'
  BY <1>0, <1>2, <1>3 DEF RingInv, OwnersOK
<1> QED
  BY <1>4, <1>5, <1>6, <1>7, <1>8 DEF RingInv

LEMMA InvDeqClaim ==
    ASSUME TypeOK, TypeOK', RingInv, NEW c \in Consumers, DeqClaim(c)
    PROVE  RingInv'
<1> DEFINE n == pos[c]
<1>0. /\ n \in Nat /\ enqPos \in Nat /\ Idx(n) \in Cells /\ n = deqPos /\ c \in Threads
      /\ deqPos' = n + 1 /\ c \notin Producers /\ seq \in [Cells -> Nat]
      /\ pc[c] = "deq_cas" /\ pc'[c] = "deq_val"
      /\ UNCHANGED <<enqPos, seq, val, pos, item, log>>
  BY IdxType, ThreadAssumption DEF DeqClaim, TypeOK, Threads
<1>1. CellFull(Idx(n), n) /\ seq[Idx(n)] = n + 1
  BY <1>0, ClaimedIsFull
<1>2. n < enqPos /\ enqPos <= n + Size /\ val[Idx(n)] = log[n + 1]
  BY <1>0, <1>1 DEF CellFull
<1>3. Draining(c)' /\ ~ Draining(c)
  BY <1>0 DEF Draining
<1>4. \A s \in Threads \ {c} : pc'[s] = pc[s]
  BY DEF DeqClaim
<1>5. \A d \in Consumers \ {c} : Draining(d) <=> Draining(d)'
  BY <1>4 DEF Draining, Threads
<1>6. \A q \in Producers : Filling(q) <=> Filling(q)'
  BY <1>0, <1>4 DEF Filling, Threads
<1>7. Bounded'
  BY <1>0, <1>2, SizeAssumption DEF Bounded
<1>8. CellOK'
  <2> SUFFICES ASSUME NEW i \in Cells
               PROVE  (CellFree(i, seq[i]) \/ CellFull(i, seq[i] - 1))'
    BY DEF CellOK
  <2>1. CASE CellFree(i, seq[i])
    <3>1. seq[i] # n /\ seq[i] \in Nat
      BY <1>0, <1>1, <2>1 DEF CellFree
    <3>2. deqPos' <= seq[i] /\ seq[i] < deqPos' + Size
      BY <1>0, <2>1, <3>1, SizeAssumption DEF CellFree
    <3>3. CellFree(i, seq[i])'
      BY <1>0, <1>6, <2>1, <3>2 DEF CellFree
    <3> QED
      BY <3>3
  <2>2. CASE CellFull(i, seq[i] - 1)
    <3>1. \A m \in Nat : m < deqPos' /\ m # n => m < deqPos
      BY <1>0
    <3>2. \A m \in Nat : m >= deqPos' => m >= deqPos
      BY <1>0
    <3>3. CellFull(i, seq[i] - 1)'
      BY <1>0, <1>3, <1>5, <2>2, <3>1, <3>2 DEF CellFull
    <3> QED
      BY <3>3
  <2> QED
    BY <2>1, <2>2 DEF RingInv, CellOK
<1>9. ASSUME NEW q \in Producers PROVE ProducerOK(q)'
  <2>1. pos[q] \in Nat /\ ProducerOK(q)
    BY DEF TypeOK, RingInv, Threads
  <2>2. pc'[q] = pc[q]
    BY <1>0, <1>4 DEF Threads
  <2>3. Filling(q) => deqPos' <= pos[q]
    <3>1. ASSUME Filling(q) PROVE pos[q] # n
      BY <1>0, <1>1, <2>1, <3>1 DEF ProducerOK
    <3> QED
      BY <1>0, <2>1, <3>1 DEF ProducerOK
  <2> QED
    BY <1>0, <2>1, <2>2, <2>3 DEF ProducerOK, Filling
<1>10. ASSUME NEW d \in Consumers PROVE ConsumerOK(d)'
  <2>1. pos[d] \in Nat /\ ConsumerOK(d)
    BY DEF TypeOK, RingInv, Threads
  <2>2. CASE d = c
    BY <1>0, <1>1, <1>2, <2>2 DEF ConsumerOK
  <2>3. CASE d # c
    <3>1. pc'[d] = pc[d]
      BY <1>4, <2>3 DEF Threads
    <3> QED
      BY <1>0, <2>1, <3>1 DEF ConsumerOK, Draining
  <2> QED
    BY <2>2, <2>3
<1>11. OwnersOK'
  <2>1. \A d \in Consumers : Draining(d) => pos[d] # n
    BY <1>0 DEF RingInv, ConsumerOK
  <2> QED
    BY <1>0, <1>3, <1>5, <1>6, <2>1 DEF RingInv, OwnersOK
<1> QED
  BY <1>7, <1>8, <1>9, <1>10, <1>11 DEF RingInv

LEMMA InvDeqRead ==
    ASSUME TypeOK, TypeOK', RingInv, NEW c \in Consumers, DeqRead(c)
    PROVE  RingInv'
<1>0. /\ c \in Threads /\ c \notin Producers
      /\ pc[c] = "deq_val" /\ pc'[c] = "deq_zero" /\ item'[c] = val[Idx(pos[c])]
      /\ UNCHANGED <<enqPos, deqPos, seq, val, pos, log>>
  BY ThreadAssumption DEF DeqRead, TypeOK, Threads
<1>1. \A s \in Threads \ {c} : pc'[s] = pc[s] /\ item'[s] = item[s]
  BY DEF DeqRead
<1>2. \A d \in Consumers : Draining(d) <=> Draining(d)'
  BY <1>0, <1>1 DEF Draining, Threads
<1>3. \A q \in Producers : Filling(q) <=> Filling(q)'
  BY <1>0, <1>1 DEF Filling, Threads
<1>4. Bounded'
  BY <1>0 DEF RingInv, Bounded
<1>5. CellOK'
  <2>1. \A i \in Cells, m \in Int : CellFree(i, m) => CellFree(i, m)'
    BY <1>0, <1>3 DEF CellFree
  <2>2. \A i \in Cells, m \in Int : CellFull(i, m) => CellFull(i, m)'
    BY <1>0, <1>2 DEF CellFull
  <2> QED
    BY <1>0, <2>1, <2>2 DEF RingInv, CellOK, TypeOK
<1>6. ASSUME NEW q \in Producers PROVE ProducerOK(q)'
  BY <1>0, <1>1 DEF RingInv, ProducerOK, Filling, Threads
<1>7. ASSUME NEW d \in Consumers PROVE ConsumerOK(d)'
  <2>1. CASE d = c
    BY <1>0, <2>1 DEF RingInv, ConsumerOK, Draining, DeqLabels
  <2>2. CASE d # c
    BY <1>0, <1>1, <2>2 DEF RingInv, ConsumerOK, Draining, Threads
  <2> QED
    BY <2>1, <2>2
<1>8. OwnersOK'
  BY <1>0, <1>2, <1>3 DEF RingInv, OwnersOK
<1> QED
  BY <1>4, <1>5, <1>6, <1>7, <1>8 DEF RingInv

LEMMA InvDeqZero ==
    ASSUME TypeOK, TypeOK', RingInv, NEW c \in Consumers, DeqZero(c)
    PROVE  RingInv'
<1> DEFINE n == pos[c]
<1>0. /\ n \in Nat /\ deqPos \in Nat /\ Idx(n) \in Cells /\ c \in Threads /\ c \notin Producers
      /\ pc[c] = "deq_zero" /\ pc'[c] = "deq_rel" /\ Draining(c)
      /\ seq[Idx(n)] = n + 1 /\ n < deqPos
      /\ UNCHANGED <<enqPos, deqPos, seq, pos, item, log>>
      /\ \A j \in Cells \ {Idx(n)} : val'[j] = val[j]
  BY IdxType, ThreadAssumption
     DEF DeqZero, TypeOK, Threads, RingInv, ConsumerOK, Draining
<1>1. \A s \in Threads \ {c} : pc'[s] = pc[s]
  BY DEF DeqZero
<1>2. \A d \in Consumers : Draining(d) <=> Draining(d)'
  BY <1>0, <1>1 DEF Draining, Threads
<1>3. \A q \in Producers : Filling(q) <=> Filling(q)'
  BY <1>0, <1>1 DEF Filling, Threads
<1>4. Bounded'
  BY <1>0 DEF RingInv, Bounded
<1>5. CellOK'
  <2> SUFFICES ASSUME NEW i \in Cells
               PROVE  (CellFree(i, seq[i]) \/ CellFull(i, seq[i] - 1))'
    BY DEF CellOK
  <2>1. CASE CellFree(i, seq[i])
    BY <1>0, <1>3, <2>1 DEF CellFree
  <2>2. CASE CellFull(i, seq[i] - 1)
    <3>1. i = Idx(n) => seq[i] - 1 = n
      BY <1>0
    <3>2. seq[i] - 1 >= deqPos => val'[i] = val[i]
      BY <1>0, <2>2, <3>1 DEF TypeOK
    <3> QED
      BY <1>0, <1>2, <2>2, <3>2 DEF CellFull
  <2> QED
    BY <2>1, <2>2 DEF RingInv, CellOK
<1>6. ASSUME NEW q \in Producers PROVE ProducerOK(q)'
  <2>1. pos[q] \in Nat /\ ProducerOK(q) /\ Idx(pos[q]) \in Cells /\ pc'[q] = pc[q]
    BY <1>0, <1>1, IdxType DEF TypeOK, RingInv, Threads
  <2>2. Filling(q) => Idx(pos[q]) # Idx(n)
    BY <1>0, SoleOwner DEF Threads
  <2> QED
    BY <1>0, <2>1, <2>2 DEF ProducerOK, Filling
<1>7. ASSUME NEW d \in Consumers PROVE ConsumerOK(d)'
  <2>1. pos[d] \in Nat /\ ConsumerOK(d) /\ Idx(pos[d]) \in Cells
    BY IdxType DEF TypeOK, RingInv, Threads
  <2>2. CASE d = c
    BY <1>0, <2>1, <2>2 DEF ConsumerOK, Draining
  <2>3. CASE d # c
    <3>1. Draining(d) => Idx(pos[d]) # Idx(n)
      BY <1>0, <2>3, SoleOwner DEF Threads
    <3>2. pc'[d] = pc[d]
      BY <1>1, <2>3 DEF Threads
    <3> QED
      BY <1>0, <2>1, <3>1, <3>2 DEF ConsumerOK, Draining
  <2> QED
    BY <2>2, <2>3
<1>8. OwnersOK'
  BY <1>0, <1>2, <1>3 DEF RingInv, OwnersOK
<1> QED
  BY <1>4, <1>5, <1>6, <1>7, <1>8 DEF RingInv

LEMMA InvDeqRelease ==
    ASSUME TypeOK, TypeOK', RingInv, NEW c \in Consumers, DeqRelease(c)
    PROVE  RingInv'
<1> DEFINE n == pos[c]
<1>0. /\ n \in Nat /\ deqPos \in Nat /\ enqPos \in Nat
      /\ Idx(n) \in Cells /\ c \in Threads /\ c \notin Producers
      /\ Draining(c) /\ ~ Draining(c)' /\ pc'[c] = "idle"
      /\ seq[Idx(n)] = n + 1 /\ n < deqPos /\ deqPos <= enqPos
      /\ seq \in [Cells -> Nat] /\ seq' \in [Cells -> Nat] /\ seq'[Idx(n)] = n + Size
      /\ \A j \in Cells \ {Idx(n)} : seq'[j] = seq[j]
      /\ UNCHANGED <<enqPos, deqPos, val, pos, log>>
  BY IdxType, ThreadAssumption
     DEF DeqRelease, TypeOK, Threads, RingInv, ConsumerOK, Draining, Bounded
<1>1. \A s \in Threads \ {c} : pc'[s] = pc[s] /\ item'[s] = item[s]
  BY DEF DeqRelease
<1>2. \A d \in Consumers \ {c} : Draining(d) <=> Draining(d)'
  BY <1>1 DEF Draining, Threads
<1>3. \A q \in Producers : Filling(q) <=> Filling(q)'
  BY <1>0, <1>1 DEF Filling, Threads
<1>4. Bounded'
  BY <1>0 DEF RingInv, Bounded
<1>5. CellOK'
  <2> SUFFICES ASSUME NEW i \in Cells
               PROVE  (CellFree(i, seq[i]) \/ CellFull(i, seq[i] - 1))'
    BY DEF CellOK
  <2>1. CASE i = Idx(n)
    <3>1. ~ CellFree(i, seq[i])
      BY <1>0, <2>1, IdxNext DEF CellFree
    <3>2. CellFull(i, n)
      BY <1>0, <2>1, <3>1 DEF RingInv, CellOK
    <3>3. enqPos <= n + Size
      BY <3>2 DEF CellFull
    <3>4. n + Size \in Nat /\ Idx(n + Size) = i
      BY <1>0, <2>1, IdxShift, SizeAssumption
    <3>5. CellFree(i, seq[i])'
      BY <1>0, <2>1, <3>3, <3>4, SizeAssumption DEF CellFree
    <3> QED
      BY <3>5
  <2>2. CASE i # Idx(n) /\ CellFree(i, seq[i])
    BY <1>0, <1>3, <2>2 DEF CellFree
  <2>3. CASE i # Idx(n) /\ CellFull(i, seq[i] - 1)
    <3>1. seq[i] - 1 # n
      BY <1>0, <2>3 DEF CellFull
    <3> QED
      BY <1>0, <1>2, <2>3, <3>1 DEF CellFull
  <2> QED
    BY <2>1, <2>2, <2>3 DEF RingInv, CellOK
<1>6. ASSUME NEW q \in Producers PROVE ProducerOK(q)'
  <2>1. /\ pos[q] \in Nat /\ ProducerOK(q) /\ Idx(pos[q]) \in Cells
        /\ pc'[q] = pc[q] /\ item'[q] = item[q]
    BY <1>0, <1>1, IdxType DEF TypeOK, RingInv, Threads
  <2>2. Filling(q) => Idx(pos[q]) # Idx(n)
    BY <1>0, SoleOwner DEF Threads
  <2>3. seq'[Idx(pos[q])] >= seq[Idx(pos[q])]
    BY <1>0, <2>1, SizeAssumption
  <2> QED
    BY <1>0, <2>1, <2>2, <2>3 DEF ProducerOK, Filling
<1>7. ASSUME NEW d \in Consumers PROVE ConsumerOK(d)'
  <2>1. CASE d = c
    BY <1>0, <2>1 DEF ConsumerOK, DeqLabels, Draining
  <2>2. CASE d # c
    <3>1. /\ pos[d] \in Nat /\ ConsumerOK(d) /\ Idx(pos[d]) \in Cells
          /\ pc'[d] = pc[d] /\ item'[d] = item[d]
      BY <1>1, <2>2, IdxType DEF TypeOK, RingInv, Threads
    <3>2. Draining(d) => Idx(pos[d]) # Idx(n)
      BY <1>0, <2>2, SoleOwner DEF Threads
    <3>3. seq'[Idx(pos[d])] >= seq[Idx(pos[d])]
      BY <1>0, <3>1, SizeAssumption
    <3> QED
      BY <1>0, <3>1, <3>2, <3>3 DEF ConsumerOK, Draining
  <2> QED
    BY <2>1, <2>2
<1>8. OwnersOK'
  BY <1>0, <1>2, <1>3 DEF RingInv, OwnersOK
<1> QED
  BY <1>4, <1>5, <1>6, <1>7, <1>8 DEF RingInv

\* The steps of Enqueue that only read what is shared.
LEMMA InvEnqQuiet ==
    ASSUME TypeOK, TypeOK', RingInv, NEW p \in Producers,
           \/ EnqCall(p) \/ EnqSeesFree(p) \/ EnqSeesFull(p)
           \/ EnqSeesStale(p) \/ EnqReload(p) \/ EnqClaimFails(p)
    PROVE  RingInv'
<1> USE DEF EnqCall, EnqSeesFree, EnqSeesFull, EnqSeesStale, EnqReload, EnqClaimFails
<1>1. /\ p \in Threads /\ p \notin Consumers /\ enqPos \in Nat /\ pos[p] \in Nat
      /\ pc[p] # "idle" => pos[p] <= enqPos
  BY ThreadAssumption DEF Threads, TypeOK, RingInv, ProducerOK
<1>2. UNCHANGED <<enqPos, deqPos, seq, val, log>>
  OBVIOUS
<1>3. \A s \in Threads \ {p} : pc'[s] = pc[s] /\ pos'[s] = pos[s] /\ item'[s] = item[s]
  BY DEF TypeOK
<1>4. ~ Filling(p) /\ ~ Filling(p)' /\ ~ Draining(p) /\ ~ Draining(p)'
  BY <1>1 DEF Filling, Draining, TypeOK
<1>5. ProducerOK(p)'
  <2>1. pos'[p] <= enqPos' /\ (pc'[p] = "enq_cas" => seq'[Idx(pos'[p])] = pos'[p])
    BY <1>1 DEF TypeOK
  <2>2. pos'[p] \in Nat
    BY <1>1 DEF TypeOK
  <2> QED
    BY <1>4, <2>1, <2>2 DEF ProducerOK, Filling
<1> QED
  BY <1>1, <1>2, <1>3, <1>4, <1>5, QuietStep

\* The steps of Dequeue that only read what is shared.
LEMMA InvDeqQuiet ==
    ASSUME TypeOK, TypeOK', RingInv, NEW c \in Consumers,
           \/ DeqCall(c) \/ DeqSeesItem(c) \/ DeqSeesEmpty(c)
           \/ DeqSeesStale(c) \/ DeqReload(c) \/ DeqClaimFails(c)
    PROVE  RingInv'
<1> USE DEF DeqCall, DeqSeesItem, DeqSeesEmpty, DeqSeesStale, DeqReload, DeqClaimFails
<1>1. /\ c \in Threads /\ c \notin Producers /\ deqPos \in Nat /\ pos[c] \in Nat
      /\ pc[c] # "idle" => pos[c] <= deqPos
  BY ThreadAssumption DEF Threads, TypeOK, RingInv, ConsumerOK
<1>2. UNCHANGED <<enqPos, deqPos, seq, val, log>>
  OBVIOUS
<1>3. \A s \in Threads \ {c} : pc'[s] = pc[s] /\ pos'[s] = pos[s] /\ item'[s] = item[s]
  BY DEF TypeOK
<1>4. ~ Filling(c) /\ ~ Filling(c)' /\ ~ Draining(c) /\ ~ Draining(c)'
  BY <1>1 DEF Filling, Draining, TypeOK
<1>5. ConsumerOK(c)'
  <2>1. pos'[c] <= deqPos' /\ (pc'[c] = "deq_cas" => seq'[Idx(pos'[c])] = pos'[c] + 1)
    BY <1>1 DEF TypeOK
  <2>2. pos'[c] \in Nat
    BY <1>1 DEF TypeOK
  <2> QED
    BY <1>4, <2>1, <2>2 DEF ConsumerOK, Draining
<1> QED
  BY <1>1, <1>2, <1>3, <1>4, <1>5, QuietStep

LEMMA InvStep == TypeOK /\ RingInv /\ [Next]_vars => RingInv'
<1> SUFFICES ASSUME TypeOK, RingInv, [Next]_vars PROVE RingInv'
  OBVIOUS
<1>1. TypeOK'
  BY TypeStep
<1>2. ASSUME NEW p \in Producers, Enqueue(p) PROVE RingInv'
  <2>1. CASE EnqClaim(p)
    BY <1>1, <2>1, InvEnqClaim
  <2>2. CASE EnqWrite(p)
    BY <1>1, <2>2, InvEnqWrite
  <2>3. CASE EnqPublish(p)
    BY <1>1, <2>3, InvEnqPublish
  <2> QED
    BY <1>1, <1>2, <2>1, <2>2, <2>3, InvEnqQuiet DEF Enqueue
<1>3. ASSUME NEW c \in Consumers, Dequeue(c) PROVE RingInv'
  <2>1. CASE DeqClaim(c)
    BY <1>1, <2>1, InvDeqClaim
  <2>2. CASE DeqRead(c)
    BY <1>1, <2>2, InvDeqRead
  <2>3. CASE DeqZero(c)
    BY <1>1, <2>3, InvDeqZero
  <2>4. CASE DeqRelease(c)
    BY <1>1, <2>4, InvDeqRelease
  <2> QED
    BY <1>1, <1>3, <2>1, <2>2, <2>3, <2>4, InvDeqQuiet DEF Dequeue
<1>4. CASE UNCHANGED vars
  BY <1>4 DEF vars, RingInv, Bounded, CellOK, CellFree, CellFull, ProducerOK, ConsumerOK,
              OwnersOK, Filling, Draining
<1> QED
  BY <1>2, <1>3, <1>4 DEF Next

\* Every cell is free or full for one position, and the owner of a position
\* finds its cell as the protocol of tagged.go:44-89 left it.
THEOREM RingInvariant == Spec => []RingInv
<1>1. Init => TypeOK /\ RingInv
  BY TypeInit, InvInit
<1>2. (TypeOK /\ RingInv) /\ [Next]_vars => (TypeOK /\ RingInv)'
  BY TypeStep, InvStep
<1> QED
  BY <1>1, <1>2, PTL DEF Spec

-----------------------------------------------------------------------------
(* What follows from it.                                                   *)

\* The plain accesses to cell.value (tagged.go:61, 84, 86) never race.
THEOREM RaceFree == Spec => []NoDataRace
<1>1. TypeOK /\ RingInv => NoDataRace
  <2> SUFFICES ASSUME TypeOK, RingInv, NEW s \in Threads, NEW t \in Threads,
                      s # t, Touching(s), Touching(t)
               PROVE  Idx(pos[s]) # Idx(pos[t])
    BY DEF NoDataRace
  <2>1. ASSUME NEW u \in Threads, Touching(u)
        PROVE  (u \in Producers /\ Filling(u)) \/ (u \in Consumers /\ Draining(u))
    BY <2>1 DEF Touching, TypeOK, Threads, Filling, Draining, EnqLabels, DeqLabels
  <2> QED
    BY <2>1, SoleOwner
<1> QED
  BY <1>1, TypeCorrect, RingInvariant, PTL

\* Position n is dequeued with the item that was enqueued at position n:
\* nothing is lost, repeated or reordered, and no unwritten value is read.
THEOREM FirstInFirstOut == Spec => []DequeuedInOrder
<1>1. TypeOK /\ RingInv => DequeuedInOrder
  <2> SUFFICES ASSUME TypeOK, RingInv, NEW c \in Consumers,
                      pc[c] \in {"deq_zero", "deq_rel"}
               PROVE  pos[c] < Len(log) /\ item[c] = log[pos[c] + 1]
    BY DEF DequeuedInOrder
  <2>1. /\ item[c] = log[pos[c] + 1] /\ pos[c] < deqPos /\ deqPos <= enqPos
        /\ Len(log) = enqPos /\ enqPos \in Nat /\ deqPos \in Nat /\ pos[c] \in Nat
    BY DEF TypeOK, RingInv, ConsumerOK, Draining, Bounded, Threads
  <2> QED
    BY <2>1
<1> QED
  BY <1>1, TypeCorrect, RingInvariant, PTL

\* Counters and sequences only go forward, so a cell whose sequence still
\* equals the position a thread read earlier has not been reused meanwhile.
THEOREM SequencesOnlyGrow == Spec => SequencesGrow
<1> DEFINE Grow == /\ enqPos' >= enqPos /\ deqPos' >= deqPos
                   /\ \A i \in Cells : seq'[i] >= seq[i]
<1>1. TypeOK /\ RingInv /\ [Next]_vars => [Grow]_vars
  <2> SUFFICES ASSUME TypeOK, RingInv, Next PROVE Grow
    OBVIOUS
  <2>0. /\ enqPos \in Nat /\ deqPos \in Nat /\ seq \in [Cells -> Nat] /\ pos \in [Threads -> Nat]
    BY DEF TypeOK
  <2>1. ASSUME NEW p \in Producers, Enqueue(p) PROVE Grow
    <3>1. CASE EnqClaim(p)
      BY <2>0, <3>1 DEF EnqClaim
    <3>2. CASE EnqPublish(p)
      <4>1. seq[Idx(pos[p])] = pos[p] /\ pos[p] \in Nat
        BY <2>0, <3>2 DEF EnqPublish, RingInv, ProducerOK, Filling, Threads
      <4> QED
        BY <2>0, <3>2, <4>1 DEF EnqPublish
    <3>3. CASE EnqWrite(p)
      BY <2>0, <3>3 DEF EnqWrite
    <3>4. CASE UNCHANGED <<enqPos, deqPos, seq>>
      BY <2>0, <3>4
    <3> QED
      BY <2>1, <3>1, <3>2, <3>3, <3>4
         DEF Enqueue, EnqCall, EnqSeesFree, EnqSeesFull, EnqSeesStale, EnqReload, EnqClaimFails
  <2>2. ASSUME NEW c \in Consumers, Dequeue(c) PROVE Grow
    <3>1. CASE DeqClaim(c)
      BY <2>0, <3>1 DEF DeqClaim
    <3>2. CASE DeqRelease(c)
      <4>1. seq[Idx(pos[c])] = pos[c] + 1 /\ pos[c] \in Nat
        BY <2>0, <3>2 DEF DeqRelease, RingInv, ConsumerOK, Draining, Threads
      <4> QED
        BY <2>0, <3>2, <4>1, SizeAssumption DEF DeqRelease
    <3>3. CASE UNCHANGED <<enqPos, deqPos, seq>>
      BY <2>0, <3>3
    <3> QED
      BY <2>2, <3>1, <3>2, <3>3
         DEF Dequeue, DeqCall, DeqSeesItem, DeqSeesEmpty, DeqSeesStale, DeqReload,
             DeqClaimFails, DeqRead, DeqZero
  <2> QED
    BY <2>1, <2>2 DEF Next
<1> QED
  BY <1>1, TypeCorrect, RingInvariant, PTL DEF Spec, SequencesGrow

-----------------------------------------------------------------------------
(***************************************************************************)
(* The ring implements the queue of MpmcQueue: every step of it is one of  *)
(* the queue, or a stutter.                                                *)
(***************************************************************************)

\* What the queue's variables stand for.
Contents == SubSeq(log, deqPos + 1, enqPos)
Calls    == [t \in Threads |-> CallOf(t)]
HeldAll  == [t \in Threads |-> HeldBy(t)]

\* Claiming the next position adds the item at the end.
LEMMA ContentsGrow ==
    ASSUME NEW S, NEW s \in Seq(S), NEW e \in S, NEW d \in Nat, d <= Len(s)
    PROVE  /\ SubSeq(Append(s, e), d + 1, Len(s) + 1) = Append(SubSeq(s, d + 1, Len(s)), e)
           /\ Len(SubSeq(s, d + 1, Len(s))) = Len(s) - d
<1> DEFINE L == Len(s)
           a == Append(s, e)
           q == SubSeq(s, d + 1, L)
           r == SubSeq(a, d + 1, L + 1)
<1>1. L \in Nat /\ d + 1 \in Int /\ L + 1 \in Int
  OBVIOUS
<1>2. /\ a \in Seq(S) /\ Len(a) = L + 1
      /\ \A i \in 1 .. L : a[i] = s[i]
      /\ a[L + 1] = e
  BY AppendProperties
<1>3. (\A i \in d + 1 .. L : s[i] \in S) /\ (\A i \in d + 1 .. L + 1 : a[i] \in S)
  <2>1. ASSUME NEW i \in 1 .. L PROVE s[i] \in S
    BY ElementOfSeq
  <2>2. ASSUME NEW i \in 1 .. L + 1 PROVE a[i] \in S
    BY <1>2, ElementOfSeq
  <2>3. d + 1 .. L \subseteq 1 .. L /\ d + 1 .. L + 1 \subseteq 1 .. L + 1
    BY <1>1
  <2> QED
    BY <2>1, <2>2, <2>3
<1> HIDE DEF L, a
<1>4. /\ q \in Seq(S) /\ Len(q) = IF d + 1 <= L THEN L - (d + 1) + 1 ELSE 0
      /\ \A i \in 1 .. L - (d + 1) + 1 : q[i] = s[(d + 1) + i - 1]
  BY <1>1, <1>3, SubSeqProperties
<1>5. /\ r \in Seq(S) /\ Len(r) = IF d + 1 <= L + 1 THEN (L + 1) - (d + 1) + 1 ELSE 0
      /\ \A i \in 1 .. (L + 1) - (d + 1) + 1 : r[i] = a[(d + 1) + i - 1]
  BY <1>1, <1>3, SubSeqProperties
<1> HIDE DEF q, r
<1>6. d <= L
  BY DEF L
<1>7. /\ Len(q) = L - d /\ \A i \in 1 .. L - d : q[i] = s[d + i]
  <2>1. Len(q) = L - d /\ L - (d + 1) + 1 = L - d
    BY <1>1, <1>4, <1>6
  <2>2. ASSUME NEW i \in 1 .. L - d PROVE q[i] = s[d + i]
    <3>1. i \in 1 .. L - (d + 1) + 1 /\ (d + 1) + i - 1 = d + i
      BY <1>1, <2>1
    <3>2. q[i] = s[(d + 1) + i - 1]
      BY <1>4, <3>1
    <3> QED
      BY <3>1, <3>2
  <2> QED
    BY <2>1, <2>2
<1>8. /\ Len(r) = (L - d) + 1 /\ \A i \in 1 .. (L - d) + 1 : r[i] = a[d + i]
  <2>1. Len(r) = (L - d) + 1 /\ (L + 1) - (d + 1) + 1 = (L - d) + 1
    BY <1>1, <1>5, <1>6
  <2>2. ASSUME NEW i \in 1 .. (L - d) + 1 PROVE r[i] = a[d + i]
    <3>1. i \in 1 .. (L + 1) - (d + 1) + 1 /\ (d + 1) + i - 1 = d + i
      BY <1>1, <2>1
    <3>2. r[i] = a[(d + 1) + i - 1]
      BY <1>5, <3>1
    <3> QED
      BY <3>1, <3>2
  <2> QED
    BY <2>1, <2>2
<1>9. /\ Append(q, e) \in Seq(S) /\ Len(Append(q, e)) = (L - d) + 1
      /\ \A i \in 1 .. L - d : Append(q, e)[i] = q[i]
      /\ Append(q, e)[(L - d) + 1] = e
  BY <1>4, <1>7, AppendProperties
<1>10. ASSUME NEW i \in 1 .. (L - d) + 1
       PROVE  r[i] = Append(q, e)[i]
  <2>1. CASE i = (L - d) + 1
    <3>1. d + i = L + 1
      BY <1>1, <1>6, <2>1
    <3> QED
      BY <1>2, <1>8, <1>9, <2>1, <3>1
  <2>2. CASE i # (L - d) + 1
    <3>1. i \in 1 .. L - d /\ d + i \in 1 .. L
      BY <1>1, <1>6, <2>2
    <3>2. r[i] = a[d + i] /\ a[d + i] = s[d + i]
      BY <1>2, <1>8, <3>1
    <3>3. Append(q, e)[i] = q[i] /\ q[i] = s[d + i]
      BY <1>7, <1>9, <3>1
    <3> QED
      BY <3>2, <3>3
  <2> QED
    BY <2>1, <2>2
<1>11. r = Append(q, e)
  BY <1>5, <1>8, <1>9, <1>10, SeqEqual
<1> QED
  BY <1>7, <1>11 DEF q, r, a, L

\* How many items the queue holds.
LEMMA ContentsLength ==
    ASSUME TypeOK, RingInv
    PROVE  Len(Contents) = enqPos - deqPos /\ (enqPos = deqPos => Contents = <<>>)
<1>1. /\ enqPos \in Nat /\ deqPos \in Nat /\ deqPos <= enqPos
      /\ log \in Seq(Items) /\ Len(log) = enqPos
  BY DEF TypeOK, RingInv, Bounded
<1>2. ASSUME NEW i \in deqPos + 1 .. enqPos PROVE log[i] \in Items
  <2>1. i \in 1 .. Len(log)
    BY <1>1
  <2> QED
    BY <1>1, <2>1, ElementOfSeq
<1>3. deqPos + 1 \in Int /\ enqPos \in Int
  BY <1>1
<1>4. Len(Contents) = IF deqPos + 1 <= enqPos THEN enqPos - (deqPos + 1) + 1 ELSE 0
  BY <1>2, <1>3, SubSeqProperties DEF Contents
<1>5. enqPos = deqPos => Contents = <<>>
  BY <1>1, <1>3, SubSeqEmpty DEF Contents
<1> QED
  BY <1>1, <1>4, <1>5

\* A step of one thread changes its own call and item only.
LEMMA OthersMapped ==
    ASSUME TypeOK, TypeOK', RingInv, NEW t \in Threads,
           \A s \in Threads \ {t} :
               pc'[s] = pc[s] /\ pos'[s] = pos[s] /\ item'[s] = item[s],
           \/ log' = log
           \/ \E e \in Items : log' = Append(log, e)
    PROVE  /\ Calls' = [Calls EXCEPT ![t] = CallOf(t)']
           /\ HeldAll' = [HeldAll EXCEPT ![t] = HeldBy(t)']
<1>1. ASSUME NEW s \in Threads \ {t} PROVE CallOf(s)' = CallOf(s)
  BY DEF CallOf, Draining
<1>2. ASSUME NEW s \in Threads \ {t} PROVE HeldBy(s)' = HeldBy(s)
  <2>1. Draining(s)' <=> Draining(s)
    BY DEF Draining
  <2>2. CASE s \in Consumers /\ Draining(s)
    <3>1. pos[s] < deqPos /\ deqPos <= enqPos
      BY <2>2 DEF RingInv, ConsumerOK, Bounded
    <3>2. pos[s] + 1 \in 1 .. Len(log) /\ log \in Seq(Items)
      BY <3>1 DEF TypeOK, Threads
    <3>3. log'[pos[s] + 1] = log[pos[s] + 1]
      BY <3>2, AppendProperties
    <3> QED
      BY <2>1, <2>2, <3>3 DEF HeldBy
  <2>3. CASE ~ (s \in Consumers /\ Draining(s))
    BY <2>1, <2>3 DEF HeldBy
  <2> QED
    BY <2>2, <2>3
<1>3. Calls' = [s \in Threads |-> CallOf(s)'] /\ HeldAll' = [s \in Threads |-> HeldBy(s)']
  BY DEF Calls, HeldAll
<1> QED
  BY <1>1, <1>2, <1>3 DEF Calls, HeldAll

\* A producer that sees its cell one lap behind: the ring is full, or a
\* consumer has taken an item and not given the cell back.
LEMMA FullIsAllowed ==
    ASSUME TypeOK, RingInv, NEW p \in Producers, pc[p] = "enq_seq",
           seq[Idx(pos[p])] < pos[p]
    PROVE  Len(Contents) = Size \/ \E c \in Consumers : CallOf(c) = "taken"
<1> DEFINE i == Idx(pos[p])
<1>1. /\ pos[p] \in Nat /\ pos[p] <= enqPos /\ i \in Cells /\ seq[i] \in Nat
      /\ enqPos \in Nat /\ deqPos \in Nat
      /\ deqPos <= enqPos /\ enqPos <= deqPos + Size
  BY IdxType DEF TypeOK, RingInv, ProducerOK, Bounded, Threads, EnqLabels
<1>2. CellFree(i, seq[i]) \/ CellFull(i, seq[i] - 1)
  BY <1>1 DEF RingInv, CellOK
<1>3. ASSUME NEW n \in Nat, Idx(n) = i, n < pos[p], n >= deqPos
      PROVE  Len(Contents) = Size
  <2>1. pos[p] >= n + Size
    BY <1>1, <1>3, IdxGap
  <2>2. enqPos - deqPos = Size
    BY <1>1, <1>3, <2>1, SizeAssumption
  <2> QED
    BY <2>2, ContentsLength
<1>4. CASE CellFree(i, seq[i])
  <2>1. Idx(seq[i]) = i /\ seq[i] >= deqPos
    BY <1>1, <1>4 DEF CellFree
  <2> QED
    BY <1>1, <1>3, <2>1
<1>5. CASE CellFull(i, seq[i] - 1)
  <2> DEFINE n == seq[i] - 1
  <2>1. /\ n \in Nat /\ Idx(n) = i /\ n < pos[p]
        /\ n < deqPos => \E c \in Consumers : Draining(c) /\ pos[c] = n
    BY <1>1, <1>5 DEF CellFull
  <2>2. CASE n < deqPos
    <3>1. PICK c \in Consumers : Draining(c)
      BY <2>1, <2>2
    <3>2. CallOf(c) = "taken"
      BY <3>1 DEF CallOf, Draining, EnqLabels
    <3> QED
      BY <3>2
  <2>3. CASE ~ (n < deqPos)
    <3>1. n >= deqPos
      BY <1>1, <2>1, <2>3
    <3> QED
      BY <1>3, <2>1, <3>1
  <2> QED
    BY <2>2, <2>3
<1> QED
  BY <1>2, <1>4, <1>5

\* A consumer that sees its cell not filled: the ring is empty, or a producer
\* has its position and has not published the item.
LEMMA EmptyIsAllowed ==
    ASSUME TypeOK, RingInv, NEW c \in Consumers, pc[c] = "deq_seq",
           seq[Idx(pos[c])] < pos[c] + 1
    PROVE  Contents = <<>> \/ \E p \in Producers : CallOf(p) = "accepted"
<1> DEFINE i == Idx(pos[c])
<1>1. /\ pos[c] \in Nat /\ pos[c] <= deqPos /\ i \in Cells /\ seq[i] \in Nat
      /\ enqPos \in Nat /\ deqPos \in Nat /\ deqPos <= enqPos
  BY IdxType DEF TypeOK, RingInv, ConsumerOK, Bounded, Threads, DeqLabels
<1>2. CellFree(i, seq[i]) \/ CellFull(i, seq[i] - 1)
  BY <1>1 DEF RingInv, CellOK
<1>3. CASE CellFree(i, seq[i])
  <2>1. seq[i] = deqPos
    BY <1>1, <1>3 DEF CellFree
  <2>2. CASE deqPos < enqPos
    <3>1. PICK p \in Producers : Filling(p)
      BY <1>3, <2>1, <2>2 DEF CellFree
    <3>2. CallOf(p) = "accepted"
      BY <3>1 DEF CallOf, Filling
    <3> QED
      BY <3>2
  <2>3. CASE ~ (deqPos < enqPos)
    <3>1. enqPos = deqPos
      BY <1>1, <2>3
    <3> QED
      BY <3>1, ContentsLength
  <2> QED
    BY <2>2, <2>3
<1>4. CASE CellFull(i, seq[i] - 1)
  <2> DEFINE n == seq[i] - 1
  <2>1. n \in Nat /\ Idx(n) = i /\ n < pos[c] /\ enqPos <= n + Size
    BY <1>1, <1>4 DEF CellFull
  <2>2. pos[c] >= n + Size
    BY <1>1, <2>1, IdxGap
  <2>3. enqPos = deqPos
    BY <1>1, <2>1, <2>2, SizeAssumption
  <2> QED
    BY <2>3, ContentsLength
<1> QED
  BY <1>2, <1>3, <1>4

\* Enqueue: the claim is the step that takes effect.
LEMMA EnqueueImplements ==
    ASSUME TypeOK, TypeOK', RingInv, NEW p \in Producers, Enqueue(p)
    PROVE  Queue!Next \/ UNCHANGED <<Contents, Calls, HeldAll, ret>>
<1> USE DEF EnqLabels
<1>1. /\ p \in Threads /\ p \notin Consumers /\ pc \in [Threads -> {"idle"} \cup EnqLabels \cup DeqLabels]
      /\ pos \in [Threads -> Nat] /\ item \in [Threads -> Items \cup {NoItem}]
      /\ sent \in [Producers -> Nat]
  BY ThreadAssumption DEF Threads, TypeOK
<1>2. ASSUME \A s \in Threads \ {p} : pc'[s] = pc[s] /\ pos'[s] = pos[s] /\ item'[s] = item[s],
             \/ log' = log
             \/ \E e \in Items : log' = Append(log, e)
      PROVE  /\ Calls' = [Calls EXCEPT ![p] = CallOf(p)']
             /\ HeldAll' = [HeldAll EXCEPT ![p] = item'[p]]
  <2>1. HeldBy(p)' = item'[p]
    BY <1>1 DEF HeldBy
  <2> QED
    BY <1>1, <1>2, <2>1, OthersMapped
<1>3. Calls[p] = CallOf(p) /\ HeldAll[p] = item[p] /\ DOMAIN Calls = Threads /\ DOMAIN HeldAll = Threads
  BY <1>1 DEF Calls, HeldAll, HeldBy
<1>4. ASSUME CallOf(p)' = CallOf(p), item' = item, UNCHANGED <<log, enqPos, deqPos, ret>>,
             \A s \in Threads \ {p} : pc'[s] = pc[s] /\ pos'[s] = pos[s]
      PROVE  UNCHANGED <<Contents, Calls, HeldAll, ret>>
  <2>1. /\ Calls' = [Calls EXCEPT ![p] = CallOf(p)]
        /\ HeldAll' = [HeldAll EXCEPT ![p] = item[p]]
    BY <1>2, <1>4
  <2>2. Calls' = Calls /\ HeldAll' = HeldAll
    BY <1>1, <1>3, <2>1 DEF Calls, HeldAll
  <2> QED
    BY <1>4, <2>2 DEF Contents
<1>5. CASE EnqCall(p)
  <2> DEFINE v == <<p, sent[p] + 1>>
  <2>1. v \in Producers \X (1 .. MaxItems)
    BY <1>1, <1>5, BoundAssumption DEF EnqCall
  <2>2. CallOf(p) = "none" /\ CallOf(p)' = "enqueue" /\ item'[p] = v
    BY <1>1, <1>5 DEF EnqCall, CallOf
  <2> HIDE DEF v
  <2>3. /\ Calls' = [Calls EXCEPT ![p] = "enqueue"] /\ HeldAll' = [HeldAll EXCEPT ![p] = v]
    BY <1>1, <1>2, <1>5, <2>2 DEF EnqCall
  <2>4. UNCHANGED <<Contents, ret>>
    BY <1>5 DEF EnqCall, Contents
  <2>5. Queue!CallEnqueue(p, v)
    BY <1>3, <2>2, <2>3, <2>4 DEF Queue!CallEnqueue, Calls, HeldAll, Contents
  <2> QED
    BY <2>1, <2>5 DEF Queue!Next
<1>6. CASE EnqSeesFree(p)
  <2>1. CallOf(p)' = CallOf(p)
    BY <1>1, <1>6 DEF EnqSeesFree, CallOf
  <2> QED
    BY <1>1, <1>4, <1>6, <2>1 DEF EnqSeesFree
<1>7. CASE EnqSeesFull(p)
  <2>1. CallOf(p) = "enqueue" /\ CallOf(p)' = "none" /\ item'[p] = NoItem
    BY <1>1, <1>7 DEF EnqSeesFull, CallOf
  <2>2. /\ Calls' = [Calls EXCEPT ![p] = "none"] /\ HeldAll' = [HeldAll EXCEPT ![p] = NoItem]
    BY <1>1, <1>2, <1>7, <2>1 DEF EnqSeesFull
  <2>3. Contents' = Contents /\ ret' = [ret EXCEPT ![p] = Queue!Refused]
    BY <1>7 DEF EnqSeesFull, Contents, Refused, Queue!Refused
  <2>4. Len(Contents) = Size \/ \E c \in Consumers : Calls[c] = "taken"
    BY <1>7, FullIsAllowed DEF EnqSeesFull, Calls, Threads
  <2>5. Queue!RefuseEnqueue(p)
    BY <1>3, <2>1, <2>2, <2>3, <2>4 DEF Queue!RefuseEnqueue, Calls, HeldAll, Contents
  <2> QED
    BY <2>5 DEF Queue!Next
<1>8. CASE EnqSeesStale(p)
  <2>1. CallOf(p)' = CallOf(p)
    BY <1>1, <1>8 DEF EnqSeesStale, CallOf
  <2> QED
    BY <1>1, <1>4, <1>8, <2>1 DEF EnqSeesStale
<1>9. CASE EnqReload(p)
  <2>1. CallOf(p)' = CallOf(p)
    BY <1>1, <1>9 DEF EnqReload, CallOf
  <2> QED
    BY <1>1, <1>4, <1>9, <2>1 DEF EnqReload
<1>10. CASE EnqClaim(p)
  <2>1. /\ CallOf(p) = "enqueue" /\ CallOf(p)' = "accepted" /\ item'[p] = item[p]
        /\ item[p] \in Items /\ log' = Append(log, item[p])
        /\ enqPos' = enqPos + 1 /\ deqPos' = deqPos /\ ret' = ret
    BY <1>1, <1>10 DEF EnqClaim, CallOf, TypeOK
  <2>2. /\ Calls' = [Calls EXCEPT ![p] = "accepted"] /\ HeldAll' = [HeldAll EXCEPT ![p] = item[p]]
    BY <1>1, <1>2, <1>10, <2>1 DEF EnqClaim
  <2>3. HeldAll' = HeldAll
    BY <1>1, <1>3, <2>2 DEF HeldAll
  <2>4. /\ log \in Seq(Items) /\ Len(log) = enqPos /\ enqPos \in Nat /\ deqPos \in Nat
        /\ deqPos <= enqPos
    BY DEF TypeOK, RingInv, Bounded
  <2>5. Contents' = Append(Contents, item[p])
    BY <2>1, <2>4, ContentsGrow DEF Contents
  <2>6. enqPos < deqPos + Size
    BY <1>10, ClaimedIsFree DEF EnqClaim, CellFree
  <2>7. Len(Contents) < Size
    BY <2>4, <2>6, ContentsLength, SizeAssumption
  <2>8. Queue!Accept(p)
    BY <1>3, <2>1, <2>2, <2>3, <2>5, <2>7 DEF Queue!Accept, Calls, HeldAll, Contents
  <2> QED
    BY <2>8 DEF Queue!Next
<1>11. CASE EnqClaimFails(p)
  <2>1. CallOf(p)' = CallOf(p)
    BY <1>1, <1>11 DEF EnqClaimFails, CallOf
  <2> QED
    BY <1>1, <1>4, <1>11, <2>1 DEF EnqClaimFails
<1>12. CASE EnqWrite(p)
  <2>1. CallOf(p)' = CallOf(p)
    BY <1>1, <1>12 DEF EnqWrite, CallOf
  <2> QED
    BY <1>1, <1>4, <1>12, <2>1 DEF EnqWrite
<1>13. CASE EnqPublish(p)
  <2>1. CallOf(p) = "accepted" /\ CallOf(p)' = "none" /\ item'[p] = NoItem
    BY <1>1, <1>13 DEF EnqPublish, CallOf
  <2>2. /\ Calls' = [Calls EXCEPT ![p] = "none"] /\ HeldAll' = [HeldAll EXCEPT ![p] = NoItem]
    BY <1>1, <1>2, <1>13, <2>1 DEF EnqPublish
  <2>3. Contents' = Contents /\ ret' = [ret EXCEPT ![p] = Queue!Returned(NoItem)]
    BY <1>13 DEF EnqPublish, Contents, Returned, Queue!Returned
  <2>4. Queue!ReturnAccepted(p)
    BY <1>3, <2>1, <2>2, <2>3 DEF Queue!ReturnAccepted, Calls, HeldAll, Contents
  <2> QED
    BY <2>4 DEF Queue!Next
<1> QED
  BY <1>5, <1>6, <1>7, <1>8, <1>9, <1>10, <1>11, <1>12, <1>13 DEF Enqueue

\* Dequeue: so it is here.
LEMMA DequeueImplements ==
    ASSUME TypeOK, TypeOK', RingInv, NEW c \in Consumers, Dequeue(c)
    PROVE  Queue!Next \/ UNCHANGED <<Contents, Calls, HeldAll, ret>>
<1> USE DEF EnqLabels, DeqLabels
<1>1. /\ c \in Threads /\ c \notin Producers
      /\ pc \in [Threads -> {"idle"} \cup EnqLabels \cup DeqLabels]
      /\ pc[c] \in {"idle"} \cup DeqLabels
      /\ pos \in [Threads -> Nat] /\ item \in [Threads -> Items \cup {NoItem}]
  BY ThreadAssumption DEF Threads, TypeOK
<1>2. ASSUME \A s \in Threads \ {c} : pc'[s] = pc[s] /\ pos'[s] = pos[s] /\ item'[s] = item[s],
             log' = log
      PROVE  /\ Calls' = [Calls EXCEPT ![c] = CallOf(c)']
             /\ HeldAll' = [HeldAll EXCEPT ![c] = HeldBy(c)']
  BY <1>1, <1>2, OthersMapped
<1>3. Calls[c] = CallOf(c) /\ HeldAll[c] = HeldBy(c) /\ DOMAIN Calls = Threads /\ DOMAIN HeldAll = Threads
  BY <1>1 DEF Calls, HeldAll
<1>4. ASSUME CallOf(c)' = CallOf(c), HeldBy(c)' = HeldBy(c), UNCHANGED <<log, enqPos, deqPos, ret>>,
             \A s \in Threads \ {c} : pc'[s] = pc[s] /\ pos'[s] = pos[s] /\ item'[s] = item[s]
      PROVE  UNCHANGED <<Contents, Calls, HeldAll, ret>>
  <2>1. /\ Calls' = [Calls EXCEPT ![c] = CallOf(c)]
        /\ HeldAll' = [HeldAll EXCEPT ![c] = HeldBy(c)]
    BY <1>2, <1>4
  <2>2. Calls' = Calls /\ HeldAll' = HeldAll
    BY <1>1, <1>3, <2>1 DEF Calls, HeldAll
  <2> QED
    BY <1>4, <2>2 DEF Contents
\* Looking for an item is a stutter.
<1>5. CASE DeqSeesItem(c) \/ DeqSeesStale(c) \/ DeqReload(c) \/ DeqClaimFails(c)
  <2> USE DEF DeqSeesItem, DeqSeesStale, DeqReload, DeqClaimFails
  <2>1. CallOf(c)' = CallOf(c)
    BY <1>1, <1>5 DEF CallOf, Draining
  <2>2. HeldBy(c)' = HeldBy(c)
    BY <1>1, <1>5 DEF HeldBy, Draining
  <2>3. \A s \in Threads \ {c} : pc'[s] = pc[s] /\ pos'[s] = pos[s] /\ item'[s] = item[s]
    BY <1>1, <1>5
  <2> QED
    BY <1>4, <1>5, <2>1, <2>2, <2>3
<1>6. CASE DeqCall(c)
  <2>1. CallOf(c) = "none" /\ CallOf(c)' = "dequeue" /\ HeldBy(c)' = HeldBy(c)
    BY <1>1, <1>6 DEF DeqCall, CallOf, HeldBy, Draining
  <2>2. /\ Calls' = [Calls EXCEPT ![c] = "dequeue"] /\ HeldAll' = [HeldAll EXCEPT ![c] = HeldBy(c)]
    BY <1>1, <1>2, <1>6, <2>1 DEF DeqCall
  <2>3. HeldAll' = HeldAll
    BY <1>1, <1>3, <2>2 DEF HeldAll
  <2>4. UNCHANGED <<Contents, ret>>
    BY <1>6 DEF DeqCall, Contents
  <2>5. Queue!CallDequeue(c)
    BY <1>3, <2>1, <2>2, <2>3, <2>4 DEF Queue!CallDequeue, Calls, HeldAll, Contents
  <2> QED
    BY <2>5 DEF Queue!Next
<1>7. CASE DeqSeesEmpty(c)
  <2>1. CallOf(c) = "dequeue" /\ CallOf(c)' = "none" /\ HeldBy(c)' = HeldBy(c)
    BY <1>1, <1>7 DEF DeqSeesEmpty, CallOf, HeldBy, Draining
  <2>2. /\ Calls' = [Calls EXCEPT ![c] = "none"] /\ HeldAll' = [HeldAll EXCEPT ![c] = HeldBy(c)]
    BY <1>1, <1>2, <1>7, <2>1 DEF DeqSeesEmpty
  <2>3. HeldAll' = HeldAll
    BY <1>1, <1>3, <2>2 DEF HeldAll
  <2>4. Contents' = Contents /\ ret' = [ret EXCEPT ![c] = Queue!Refused]
    BY <1>7 DEF DeqSeesEmpty, Contents, Refused, Queue!Refused
  <2>5. Contents = <<>> \/ \E p \in Producers : Calls[p] = "accepted"
    BY <1>7, EmptyIsAllowed DEF DeqSeesEmpty, Calls, Threads
  <2>6. Queue!RefuseDequeue(c)
    BY <1>3, <2>1, <2>2, <2>3, <2>4, <2>5 DEF Queue!RefuseDequeue, Calls, HeldAll, Contents
  <2> QED
    BY <2>6 DEF Queue!Next
<1>8. CASE DeqClaim(c)
  <2>1. /\ pos[c] = deqPos /\ pos' = pos /\ log' = log
        /\ enqPos' = enqPos /\ deqPos' = deqPos + 1 /\ ret' = ret
        /\ CallOf(c) = "dequeue" /\ CallOf(c)' = "taken" /\ HeldBy(c)' = log[deqPos + 1]
    BY <1>1, <1>8 DEF DeqClaim, CallOf, HeldBy, Draining
  <2>2. /\ Calls' = [Calls EXCEPT ![c] = "taken"]
        /\ HeldAll' = [HeldAll EXCEPT ![c] = log[deqPos + 1]]
    BY <1>1, <1>2, <1>8, <2>1 DEF DeqClaim
  <2>3. /\ log \in Seq(Items) /\ Len(log) = enqPos /\ enqPos \in Nat /\ deqPos \in Nat
    BY DEF TypeOK
  <2>4. deqPos < enqPos
    BY <1>8, ClaimedIsFull DEF DeqClaim, CellFull
  <2>5. deqPos + 1 \in 1 .. Len(log) /\ enqPos \in deqPos + 1 .. Len(log)
    BY <2>3, <2>4
  <2>6. /\ Head(Contents) = log[deqPos + 1]
        /\ Tail(Contents) = SubSeq(log, (deqPos + 1) + 1, enqPos)
    BY <2>3, <2>5, HeadTailOfSubSeq DEF Contents
  <2>7. Contents' = Tail(Contents)
    BY <2>1, <2>6 DEF Contents
  <2>8. Contents # <<>>
    <3>1. Len(Contents) # 0
      BY <2>3, <2>4, ContentsLength
    <3> QED
      BY <3>1
  <2>9. Queue!Take(c)
    BY <1>3, <2>1, <2>2, <2>6, <2>7, <2>8 DEF Queue!Take, Calls, HeldAll, Contents
  <2> QED
    BY <2>9 DEF Queue!Next
\* The item is the one of the position claimed, whoever reads the cell when.
<1>9. CASE DeqRead(c) \/ DeqZero(c)
  <2> USE DEF DeqRead, DeqZero
  <2>1. CallOf(c)' = CallOf(c)
    BY <1>1, <1>9 DEF CallOf, Draining
  <2>2. HeldBy(c)' = HeldBy(c)
    BY <1>1, <1>9 DEF HeldBy, Draining
  <2>3. \A s \in Threads \ {c} : pc'[s] = pc[s] /\ pos'[s] = pos[s] /\ item'[s] = item[s]
    BY <1>1, <1>9
  <2> QED
    BY <1>4, <1>9, <2>1, <2>2, <2>3
<1>10. CASE DeqRelease(c)
  <2>1. item[c] = log[pos[c] + 1]
    BY <1>10 DEF DeqRelease, RingInv, ConsumerOK
  <2>2. /\ CallOf(c) = "taken" /\ CallOf(c)' = "none"
        /\ HeldBy(c) = item[c] /\ HeldBy(c)' = NoItem
    BY <1>1, <1>10, <2>1 DEF DeqRelease, CallOf, HeldBy, Draining
  <2>3. /\ Calls' = [Calls EXCEPT ![c] = "none"] /\ HeldAll' = [HeldAll EXCEPT ![c] = NoItem]
    BY <1>1, <1>2, <1>10, <2>2 DEF DeqRelease
  <2>4. Contents' = Contents /\ ret' = [ret EXCEPT ![c] = Queue!Returned(HeldAll[c])]
    BY <1>3, <1>10, <2>2 DEF DeqRelease, Contents, Returned, Queue!Returned
  <2>5. Queue!ReturnTaken(c)
    BY <1>3, <2>2, <2>3, <2>4 DEF Queue!ReturnTaken, Calls, HeldAll, Contents
  <2> QED
    BY <2>5 DEF Queue!Next
<1> QED
  BY <1>5, <1>6, <1>7, <1>8, <1>9, <1>10 DEF Dequeue

LEMMA InitImplements == Init => Queue!Init
<1> SUFFICES ASSUME Init PROVE Queue!Init
  OBVIOUS
<1>1. Contents = <<>>
  BY SubSeqEmpty DEF Init, Contents
<1>2. Calls = [t \in Threads |-> "none"] /\ HeldAll = [t \in Threads |-> NoItem]
  BY DEF Init, Calls, HeldAll, CallOf, HeldBy, Draining
<1>3. ret = [t \in Threads |-> Queue!Refused]
  BY DEF Init, Refused, Queue!Refused
<1> QED
  BY <1>1, <1>2, <1>3 DEF Queue!Init, Queue!Threads, Contents, Calls, HeldAll, Threads

LEMMA StepImplements ==
    TypeOK /\ RingInv /\ [Next]_vars => [Queue!Next]_(Queue!qvars)
<1> SUFFICES ASSUME TypeOK, RingInv, [Next]_vars
             PROVE  Queue!Next \/ UNCHANGED <<Contents, Calls, HeldAll, ret>>
  BY DEF Queue!qvars, Contents, Calls, HeldAll
<1>1. TypeOK'
  BY TypeStep
<1>2. ASSUME NEW p \in Producers, Enqueue(p)
      PROVE  Queue!Next \/ UNCHANGED <<Contents, Calls, HeldAll, ret>>
  BY <1>1, <1>2, EnqueueImplements
<1>3. ASSUME NEW c \in Consumers, Dequeue(c)
      PROVE  Queue!Next \/ UNCHANGED <<Contents, Calls, HeldAll, ret>>
  BY <1>1, <1>3, DequeueImplements
<1>4. CASE UNCHANGED vars
  BY <1>4 DEF vars, Contents, Calls, HeldAll, CallOf, HeldBy, Draining
<1> QED
  BY <1>2, <1>3, <1>4 DEF Next

\* For any number of threads, any size and any number of items the ring is a
\* bounded first-in first-out queue whose calls take effect in one step
\* between call and return; it says "full" and "empty" only when the queue
\* may (tagged.go:44-89).
THEOREM QueueImplemented == Spec => ImplementsQueue
BY InitImplements, StepImplements, TypeCorrect, RingInvariant, PTL
   DEF Spec, ImplementsQueue, Queue!Spec

-----------------------------------------------------------------------------
(***************************************************************************)
(* The versioned ring.  The variables and constants of its model that have *)
(* the name of one of this model stand for those of the instance; the      *)
(* other four variables are declared here.                                 *)
(*                                                                         *)
(* A fresh cell has the version 1, which only a producer at position 0     *)
(* waits for, and what that one stores has the version 1 again             *)
(* (tagged.go:173).  So one position is claimed and no other, and a        *)
(* producer that loaded the counter before compares with it for ever.      *)
(***************************************************************************)
VARIABLES enqIdx, deqIdx, cells, tc

Versioned == INSTANCE VersionedRing

\* p has claimed a position of the versioned ring.
Won(p) == pc[p] = "enq_store" \/ sent[p] = 1

Inside == {"enq_load", "enq_cas", "enq_pos"}

VersionInv ==
    /\ enqIdx \in {0, 1} /\ deqIdx = 0
    /\ cells = [n \in 0 .. Size - 1 |-> cells[n]]
    /\ \A n \in 0 .. Size - 1 : cells[n].Version = 1
    /\ pc \in [Threads -> {"idle", "enq_load", "enq_cas", "enq_store", "deq_load"}]
    /\ pos \in [Threads -> {0, 1}]
    /\ sent \in [Producers -> {0, 1}]
    /\ ret = [t \in Threads |-> ret[t]] /\ tc = [t \in Threads |-> tc[t]]

ClaimInv ==
    /\ \A p \in Producers :
           /\ pc[p] # "deq_load"
           /\ pos[p] = 1 => enqIdx = 1
           /\ pc[p] \in {"enq_cas", "enq_store"} => pos[p] = 0
           /\ pc[p] = "enq_store" => sent[p] = 0
           /\ Won(p) => enqIdx = 1
    /\ \A p, q \in Producers : Won(p) /\ Won(q) => p = q

EmptyInv ==
    \A c \in Consumers :
        pc[c] \in {"idle", "deq_load"} /\ pos[c] = 0 /\ ret[c] = Versioned!Refused

VInv == VersionInv /\ ClaimInv /\ EmptyInv

LEMMA VersionedInit == Versioned!Init => VInv
<1> SUFFICES ASSUME Versioned!Init PROVE VInv
  OBVIOUS
<1> USE ThreadAssumption, SizeAssumption
    DEF Versioned!Init, Versioned!Threads, Threads, Versioned!Cell
<1>1. VersionInv
  BY DEF VersionInv
<1>2. ClaimInv
  BY DEF ClaimInv, Won
<1>3. EmptyInv
  BY DEF EmptyInv
<1> QED
  BY <1>1, <1>2, <1>3 DEF VInv

\* What a producer may find in the cell of its position.
LEMMA VersionOne ==
    ASSUME VInv, NEW t \in Threads
    PROVE  /\ pos[t] % Size \in 0 .. Size - 1
           /\ cells[pos[t] % Size].Version = 1
<1>1. pos[t] \in Nat
  BY DEF VInv, VersionInv
<1>2. pos[t] % Size \in 0 .. Size - 1
  BY <1>1, DivMod
<1> QED
  BY <1>2 DEF VInv, VersionInv

LEMMA ProducerKeeps ==
    ASSUME VInv, NEW p \in Producers,
           \/ Versioned!EnqCall(p) \/ Versioned!EnqLoad(p) \/ Versioned!EnqReload(p)
           \/ Versioned!EnqCAS(p) \/ Versioned!EnqStore(p)
    PROVE  /\ VInv'
           /\ \A q \in Producers : pc[q] \in Inside /\ pos[q] # enqIdx =>
                  pc'[q] \in Inside /\ pos'[q] # enqIdx'
<1>0. p \in Threads /\ p \notin Consumers
  BY ThreadAssumption DEF Threads
<1>1. pos[p] % Size \in 0 .. Size - 1 /\ cells[pos[p] % Size].Version = 1
  BY <1>0, VersionOne
<1> DEFINE Spin == \A q \in Producers : pc[q] \in Inside /\ pos[q] # enqIdx =>
                       pc'[q] \in Inside /\ pos'[q] # enqIdx'
<1> USE <1>0, ThreadAssumption
    DEF VInv, Threads, Versioned!Threads, Versioned!Goto, Versioned!Finish
<1>2. CASE Versioned!EnqCall(p)
  <2> USE <1>2 DEF Versioned!EnqCall
  <2>1. VersionInv'
    BY DEF VersionInv
  <2>2. ClaimInv'
    BY DEF VersionInv, ClaimInv, Won
  <2>3. EmptyInv'
    BY DEF VersionInv, EmptyInv, Versioned!Refused
  <2>4. Spin
    BY DEF VersionInv, Inside
  <2> QED
    BY <2>1, <2>2, <2>3, <2>4
<1>3. CASE Versioned!EnqLoad(p)
  <2>0. /\ pc[p] = "enq_load" /\ UNCHANGED <<enqIdx, deqIdx, cells, pos, tc, sent>>
        /\ \/ pos[p] = 0 /\ pc' = [pc EXCEPT ![p] = "enq_cas"] /\ UNCHANGED ret
           \/ pos[p] = 1 /\ pc' = [pc EXCEPT ![p] = "idle"]
              /\ ret' = [ret EXCEPT ![p] = Versioned!Refused]
    <3>1. pos[p] \in {0, 1}
      BY DEF VersionInv
    <3> DEFINE v == cells[pos[p] % Size].Version
    <3>2. v = 1
      BY <1>1
    <3>3. /\ pc[p] = "enq_load" /\ UNCHANGED <<enqIdx, deqIdx, cells, pos, tc, sent>>
          /\ \/ v = pos[p] + 1 /\ pc' = [pc EXCEPT ![p] = "enq_cas"] /\ UNCHANGED ret
             \/ v < pos[p] + 1 /\ pc' = [pc EXCEPT ![p] = "idle"]
                /\ ret' = [ret EXCEPT ![p] = Versioned!Refused]
             \/ v > pos[p] + 1
      BY <1>3 DEF Versioned!EnqLoad
    <3> HIDE DEF v
    <3> QED
      BY <3>1, <3>2, <3>3
  <2> USE <2>0
  <2>1. VersionInv'
    BY DEF VersionInv
  <2>2. ClaimInv'
    BY DEF VersionInv, ClaimInv, Won
  <2>3. EmptyInv'
    BY DEF VersionInv, EmptyInv, Versioned!Refused
  <2>4. Spin
    BY DEF VersionInv, ClaimInv, Inside
  <2> QED
    BY <2>1, <2>2, <2>3, <2>4
<1>4. ~ Versioned!EnqReload(p)
  BY DEF VersionInv, Versioned!EnqReload
<1>5. CASE Versioned!EnqCAS(p)
  <2>0. /\ pc[p] = "enq_cas" /\ pos[p] = 0
        /\ UNCHANGED <<deqIdx, cells, pos, tc, sent, ret>>
        /\ \/ enqIdx = 0 /\ enqIdx' = 1 /\ pc' = [pc EXCEPT ![p] = "enq_store"]
           \/ enqIdx = 1 /\ enqIdx' = 1 /\ pc' = [pc EXCEPT ![p] = "enq_load"]
    BY <1>5 DEF VersionInv, ClaimInv, Versioned!EnqCAS
  <2> USE <2>0
  <2>1. VersionInv'
    BY DEF VersionInv
  <2>2. ClaimInv'
    BY DEF VersionInv, ClaimInv, Won
  <2>3. EmptyInv'
    BY DEF VersionInv, EmptyInv, Versioned!Refused
  <2>4. Spin
    BY DEF VersionInv, ClaimInv, Inside
  <2> QED
    BY <2>1, <2>2, <2>3, <2>4
<1>6. CASE Versioned!EnqStore(p)
  <2>0. /\ pc[p] = "enq_store" /\ pos[p] = 0 /\ sent[p] = 0 /\ enqIdx = 1
        /\ UNCHANGED <<enqIdx, deqIdx, pos, tc>>
        /\ cells' = [cells EXCEPT ![pos[p] % Size] = Versioned!Cell(1, item[p])]
        /\ sent' = [sent EXCEPT ![p] = 1] /\ pc' = [pc EXCEPT ![p] = "idle"]
        /\ ret' = [ret EXCEPT ![p] = Versioned!Returned(NoItem)]
    <3>1. pc[p] = "enq_store" /\ pos[p] = 0 /\ sent[p] = 0 /\ enqIdx = 1
      BY <1>6 DEF ClaimInv, Won, Versioned!EnqStore
    <3>2. pos[p] + 1 = 1 /\ sent[p] + 1 = 1
      BY <3>1
    <3> QED
      BY <1>6, <3>1, <3>2 DEF VersionInv, Versioned!EnqStore
  <2> USE <2>0
  <2>1. VersionInv'
    <3>1. cells' = [n \in 0 .. Size - 1 |-> cells'[n]]
      BY DEF VersionInv
    <3>2. \A n \in 0 .. Size - 1 : cells'[n].Version = 1
      BY DEF VersionInv, Versioned!Cell
    <3> QED
      BY <3>1, <3>2 DEF VersionInv
  <2>2. ClaimInv'
    BY DEF VersionInv, ClaimInv, Won
  <2>3. EmptyInv'
    BY DEF VersionInv, EmptyInv, Versioned!Refused
  <2>4. Spin
    BY DEF VersionInv, Inside
  <2> QED
    BY <2>1, <2>2, <2>3, <2>4
<1> QED
  BY <1>2, <1>3, <1>4, <1>5, <1>6

LEMMA ConsumerKeeps ==
    ASSUME VInv, NEW c \in Consumers,
           \/ Versioned!DeqCall(c) \/ Versioned!DeqLoad(c) \/ Versioned!DeqReload(c)
           \/ Versioned!DeqCAS(c) \/ Versioned!DeqStore(c)
    PROVE  VInv' /\ UNCHANGED enqIdx /\ \A q \in Producers : pc'[q] = pc[q] /\ pos'[q] = pos[q]
<1>0. c \in Threads /\ c \notin Producers
  BY ThreadAssumption DEF Threads
<1>1. cells[pos[c] % Size].Version = 1
  BY <1>0, VersionOne
<1> USE <1>0, ThreadAssumption
    DEF VInv, Threads, Versioned!Threads, Versioned!Goto, Versioned!Finish
<1>2. /\ UNCHANGED <<enqIdx, deqIdx, cells, sent>> /\ tc' = [t \in Threads |-> tc'[t]]
      /\ \/ pc' = [pc EXCEPT ![c] = "deq_load"] /\ pos' = [pos EXCEPT ![c] = 0] /\ UNCHANGED ret
         \/ /\ pc' = [pc EXCEPT ![c] = "idle"] /\ UNCHANGED pos
            /\ ret' = [ret EXCEPT ![c] = Versioned!Refused]
  <2>1. CASE Versioned!DeqCall(c)
    BY <2>1 DEF VersionInv, Versioned!DeqCall
  <2>2. CASE Versioned!DeqLoad(c)
    <3>1. pos[c] = 0 /\ tc' = [tc EXCEPT ![c] = cells[pos[c] % Size]]
      BY <2>2 DEF EmptyInv, Versioned!DeqLoad
    <3> DEFINE v == tc'[c].Version
    <3>2. v = 1
      BY <1>1, <3>1 DEF VersionInv
    <3>3. /\ UNCHANGED <<enqIdx, deqIdx, cells, pos, sent>>
          /\ \/ v = pos[c] + 2
             \/ v < pos[c] + 2 /\ pc' = [pc EXCEPT ![c] = "idle"]
                /\ ret' = [ret EXCEPT ![c] = Versioned!Refused]
             \/ v > pos[c] + 2
      BY <2>2 DEF Versioned!DeqLoad
    <3>4. tc' = [t \in Threads |-> tc'[t]]
      BY <3>1 DEF VersionInv
    <3> HIDE DEF v
    <3> QED
      BY <3>1, <3>2, <3>3, <3>4
  <2>3. ~ (Versioned!DeqReload(c) \/ Versioned!DeqCAS(c) \/ Versioned!DeqStore(c))
    BY DEF EmptyInv, Versioned!DeqReload, Versioned!DeqCAS, Versioned!DeqStore
  <2> QED
    BY <2>1, <2>2, <2>3
<1> USE <1>2
<1>3. VersionInv'
  BY DEF VersionInv
<1>4. ClaimInv'
  BY DEF VersionInv, ClaimInv, Won
<1>5. EmptyInv'
  BY DEF VersionInv, EmptyInv, Versioned!Refused
<1> QED
  BY <1>3, <1>4, <1>5 DEF VersionInv

LEMMA VersionedStep ==
    ASSUME VInv, [Versioned!Next]_(Versioned!vars)
    PROVE  /\ VInv'
           /\ \A p \in Producers : pc[p] \in Inside /\ pos[p] # enqIdx =>
                  pc'[p] \in Inside /\ pos'[p] # enqIdx'
<1>1. CASE UNCHANGED Versioned!vars
  BY <1>1 DEF Versioned!vars, VInv, VersionInv, ClaimInv, EmptyInv, Won
<1>2. CASE Versioned!Next
  BY <1>2, ProducerKeeps, ConsumerKeeps DEF Versioned!Next
<1> QED
  BY <1>1, <1>2

THEOREM VersionedInvariant == Versioned!Spec => []VInv
BY VersionedInit, VersionedStep, PTL DEF Versioned!Spec

\* However many threads share a versioned ring of whatever size, one item is
\* accepted in all: from then on the ring says it is full (tagged.go:180).
AcceptsOne ==
    \A p, q \in Producers : sent[p] <= 1 /\ (sent[p] > 0 /\ sent[q] > 0 => p = q)

THEOREM VersionedAcceptsOne == Versioned!Spec => []AcceptsOne
<1>1. VInv => AcceptsOne
  BY DEF VInv, VersionInv, ClaimInv, Won, AcceptsOne
<1> QED
  BY <1>1, VersionedInvariant, PTL

\* Every dequeue of a versioned ring says that the ring is empty, also when an
\* item was accepted (tagged.go:206).
DeliversNothing == \A c \in Consumers : ret[c] = Versioned!Refused

THEOREM VersionedDeliversNothing == Versioned!Spec => []DeliversNothing
<1>1. VInv => DeliversNothing
  BY DEF VInv, EmptyInv, DeliversNothing
<1> QED
  BY <1>1, VersionedInvariant, PTL

\* A producer of a versioned ring that loaded the counter before another one
\* claimed the position never returns: its comparison fails for ever, because
\* the cell keeps the version it waits for (tagged.go:171-179).
LoserSpins ==
    [][\A p \in Producers : pc[p] \in Inside /\ pos[p] # enqIdx =>
           pc'[p] \in Inside /\ pos'[p] # enqIdx']_(Versioned!vars)

THEOREM VersionedLoserSpins == Versioned!Spec => LoserSpins
<1>1. VInv /\ [Versioned!Next]_(Versioned!vars) =>
          [\A p \in Producers : pc[p] \in Inside /\ pos[p] # enqIdx =>
              pc'[p] \in Inside /\ pos'[p] # enqIdx']_(Versioned!vars)
  BY VersionedStep
<1> QED
  BY <1>1, VersionedInvariant, PTL DEF Versioned!Spec, LoserSpins

=============================================================================
