-------------------------- MODULE Predictor_proof --------------------------
(***************************************************************************)
(* Proofs about Predictor: its types, which rows a prediction takes, what  *)
(* the accumulated energy is, and that it does what the pipeline assumes   *)
(* of it (PullOutcome).  The facts about circular buffers and remainders   *)
(* are those of CircularLog_proof.                                         *)
(***************************************************************************)
EXTENDS Predictor, CircularLog_proof, SequenceTheorems, FiniteSetTheorems

(***************************************************************************)
(* The inductive invariant.                                                *)
(***************************************************************************)

\* The softening tracker stands for its log.  As long as no timestamp but
\* zero was seen, it holds nothing but zeros.
SoftInv ==
    /\ Holds(SoftCap, softBuf, softLog)
    /\ (pushes = 0 \/ lastTs = 0) => \A c \in 0 .. SoftCap - 1 : softBuf.cells[c] = 0

\* So does the energy tracker, and the cells it has not written yet are
\* empty.
EnergyFollows ==
    /\ Holds(EnergyCap, energyBuf, energyLog)
    /\ \A c \in 0 .. EnergyCap - 1 : c >= Len(energyLog) => energyBuf.cells[c] = NoRow

\* The running sums belong to the log and do not fall.
SumsInv ==
    /\ Len(energySum) = Len(energyLog)
    /\ \A j \in 1 .. Len(energyLog) : energySum[j] = SumTo(j - 1) + energyLog[j].power
    /\ \A i, j \in 1 .. Len(energyLog) : i <= j => energySum[i] <= energySum[j]

SteadyInv == steady => \A j \in 1 .. Len(energyLog) : energyLog[j].ts # 0

EnergyInv == EnergyFollows /\ SumsInv /\ SteadyInv /\ EnergyOfNewest

\* The second half of RowsAreFresh.
LatestFresh == \A ts \in latest.rows : ts <= latest.ts /\ latest.ts - ts <= SoftWindow

IInv == TypeOK /\ SoftInv /\ EnergyInv /\ LatestFresh

-----------------------------------------------------------------------------
(***************************************************************************)
(* Constants and remainders.                                               *)
(***************************************************************************)

LEMMA CapsOK ==
    /\ SoftCap \in Sizes /\ EnergyCap \in Sizes
    /\ SoftMin \in Sizes /\ SoftMin <= SoftCap
    /\ Interval \in Nat /\ Interval # 0
    /\ SoftWindow \in Nat /\ MaxTime \in Nat /\ Modulus \in Sizes
    /\ MaxTime + SoftWindow < Modulus
    /\ Powers \subseteq Nat
    /\ MaxPushes \in Nat /\ MaxResets \in Nat
<1>1. /\ Interval \in Nat \ {0} /\ MinSoft \in Nat \ {0} /\ MinEnergy \in Nat \ {0}
      /\ SoftMin \in Nat \ {0} /\ SoftWindow \in Nat /\ EnergyWindow \in Nat
      /\ MaxTime \in Nat /\ Modulus \in Nat /\ MaxTime + SoftWindow < Modulus
      /\ SoftMin <= MinSoft /\ Powers \subseteq Nat
      /\ MaxPushes \in Nat /\ MaxResets \in Nat
  BY TimeAssumption, Zenon DEF TimeAssumption
<1>2. SoftWindow \div Interval \in Int /\ EnergyWindow \div Interval \in Int
  BY <1>1, DivMod DEF Sizes
<1>3. SoftCap \in Sizes /\ SoftMin <= SoftCap
  BY <1>1, <1>2, SMT DEF SoftCap, AtLeast, Sizes
<1>4. EnergyCap \in Sizes
  BY <1>1, <1>2, SMT DEF EnergyCap, AtLeast, Sizes
<1> QED
  BY <1>1, <1>3, <1>4, SMT DEF Sizes

\* The remainder of a difference that is just below zero.
LEMMA ModBelow ==
    ASSUME NEW n \in Sizes, NEW a \in Int, 0 - n <= a, a < 0
    PROVE  a % n = a + n
<1>1. a \div n \in Int /\ a % n \in 0 .. n - 1 /\ a = (n * (a \div n)) + (a % n)
  BY SMT DEF Sizes
<1>2. (n * (a \div n)) + (a % n) = (n * (0 - 1)) + (a + n)
  BY <1>1, SMT DEF Sizes
<1>3. a + n \in 0 .. n - 1 /\ (0 - 1) \in Int
  BY SMT DEF Sizes
<1> HIDE DEF Sizes
<1> QED
  BY <1>1, <1>2, <1>3, DivUnique

\* Every cell that was written holds one of the newest n entries.
LEMMA CellHas ==
    ASSUME NEW n \in Sizes, NEW L \in Nat, NEW c \in 0 .. n - 1, c < L
    PROVE  \E j \in 1 .. L : j > L - n /\ (j - 1) % n = c
<1>1. CASE L < n
  <2>1. c + 1 \in 1 .. L /\ c + 1 > L - n /\ (c + 1) - 1 = c
    BY <1>1, SMT DEF Sizes
  <2>2. c % n = c
    BY ModSmall
  <2> QED
    BY <2>1, <2>2
<1>2. CASE ~ (L < n)
  <2> DEFINE q == L \div n
             r == L % n
  <2>1. q \in Int /\ r \in 0 .. n - 1 /\ L = (n * q) + r
    BY DivMod
  <2> HIDE DEF q, r
  <2>2. CASE c < r
    <3> DEFINE j == ((n * q) + c) + 1
    <3>1. n * q \in Int
      BY <2>1, SMT DEF Sizes
    <3>2. j \in 1 .. L /\ j > L - n /\ j - 1 \in Nat /\ j - 1 = (n * q) + c
      <4> DEFINE p == n * q
      <4>1. p \in Int /\ L = p + r
        BY <2>1, <3>1
      <4> HIDE DEF p
      <4>2. /\ (p + c) + 1 \in 1 .. L /\ (p + c) + 1 > L - n
            /\ ((p + c) + 1) - 1 \in Nat /\ ((p + c) + 1) - 1 = p + c
        BY <1>2, <2>1, <2>2, <4>1, SMT DEF Sizes
      <4> QED
        BY <4>2 DEF p
    <3> HIDE DEF j
    <3>3. (j - 1) % n = c
      BY <2>1, <3>2, ModIs
    <3> QED
      BY <3>2, <3>3
  <2>3. CASE ~ (c < r)
    <3> DEFINE j == ((n * (q - 1)) + c) + 1
    <3>1. n * (q - 1) \in Int /\ L = ((n * (q - 1)) + n) + r
      BY <2>1, SMT DEF Sizes
    <3>2. j \in 1 .. L /\ j > L - n /\ j - 1 \in Nat /\ j - 1 = (n * (q - 1)) + c
      <4> DEFINE p == n * (q - 1)
      <4>1. p \in Int /\ L = (p + n) + r
        BY <3>1
      <4> HIDE DEF p
      <4>2. /\ (p + c) + 1 \in 1 .. L /\ (p + c) + 1 > L - n
            /\ ((p + c) + 1) - 1 \in Nat /\ ((p + c) + 1) - 1 = p + c
        BY <1>2, <2>1, <2>3, <4>1, SMT DEF Sizes
      <4> QED
        BY <4>2 DEF p
    <3> HIDE DEF j
    <3>3. q - 1 \in Int
      BY <2>1
    <3>4. (j - 1) % n = c
      BY <3>2, <3>3, ModIs
    <3> QED
      BY <3>2, <3>4
  <2> QED
    BY <2>2, <2>3
<1> QED
  BY <1>1, <1>2

-----------------------------------------------------------------------------
(***************************************************************************)
(* Which rows count.                                                       *)
(***************************************************************************)

\* The unsigned difference keeps out what is newer than now.
LEMMA CountsIs ==
    ASSUME NEW now \in Times, NEW ts \in Times, now = 0 => ts = 0
    PROVE  Counts(now, ts) <=> ts # 0 /\ ts <= now /\ now - ts <= SoftWindow
<1>0. Modulus \in Sizes /\ SoftWindow \in Nat /\ MaxTime + SoftWindow < Modulus
  BY CapsOK
<1>1. now \in Nat /\ ts \in Nat /\ now <= MaxTime /\ ts <= MaxTime /\ MaxTime \in Nat
  BY CapsOK DEF Times
<1>2. CASE now = 0
  BY <1>1, <1>2 DEF Counts
<1>3. CASE now # 0 /\ ts <= now
  <2>1. now - ts \in 0 .. Modulus - 1
    BY <1>0, <1>1, <1>3, SMT DEF Sizes
  <2>2. (now - ts) % Modulus = now - ts
    BY <1>0, <2>1, ModSmall
  <2> QED
    BY <1>0, <1>1, <1>3, <2>2 DEF Counts, Age
<1>4. CASE now # 0 /\ ~ (ts <= now)
  <2>1. now - ts \in Int /\ 0 - Modulus <= now - ts /\ now - ts < 0
    BY <1>0, <1>1, <1>4, SMT DEF Sizes
  <2>2. (now - ts) % Modulus = (now - ts) + Modulus
    BY <1>0, <2>1, ModBelow
  <2>3. ~ (Age(now, ts) <= SoftWindow)
    <3>1. ~ ((now - ts) + Modulus <= SoftWindow)
      BY <1>0, <1>1, SMT DEF Sizes
    <3> QED
      BY <2>2, <3>1 DEF Age
  <2> QED
    BY <1>1, <1>4, <2>3 DEF Counts
<1> QED
  BY <1>2, <1>3, <1>4

\* The rows that count, as numbers of the log's entries.
LEMMA ValidIs ==
    ASSUME NEW b, BufferOK(SoftCap, b, Times),
           NEW log \in Seq(Times), Holds(SoftCap, b, log),
           NEW now \in Times,
           now = 0 => \A c \in 0 .. SoftCap - 1 : b.cells[c] = 0,
           NEW F, F = {j \in 1 .. Len(log) : /\ j > Len(log) - SoftCap
                                             /\ log[j] # 0
                                             /\ log[j] <= now /\ now - log[j] <= SoftWindow}
    PROVE  ValidCells(b, now) = {(j - 1) % SoftCap : j \in F}
<1> DEFINE n == SoftCap
           L == Len(log)
<1>0. n \in Sizes /\ L \in Nat
  BY CapsOK
<1> HIDE DEF n
<1>1. Total(n, b) = IF L < n THEN L ELSE n
  BY <1>0, TotalIs DEF n
<1>2. ASSUME NEW j \in 1 .. L, j > L - n
      PROVE  /\ (j - 1) % n \in 0 .. Total(n, b) - 1
             /\ (j - 1) % n \in 0 .. n - 1
             /\ b.cells[(j - 1) % n] = log[j]
             /\ log[j] \in Times
  <2>1. j - 1 \in Nat
    BY <1>0
  <2>2. (j - 1) % n \in 0 .. n - 1
    BY <1>0, <2>1, DivMod
  <2>3. (j - 1) % n \in 0 .. Total(n, b) - 1
    <3>1. CASE L < n
      <4>1. j - 1 \in 0 .. n - 1
        BY <1>0, <3>1, SMT DEF Sizes
      <4>2. (j - 1) % n = j - 1
        BY <1>0, <4>1, ModSmall
      <4> QED
        BY <1>0, <1>1, <3>1, <4>2, SMT DEF Sizes
    <3>2. CASE ~ (L < n)
      BY <1>1, <2>2, <3>2
    <3> QED
      BY <3>1, <3>2
  <2>4. b.cells[(j - 1) % n] = log[j]
    BY <1>2 DEF Holds, n
  <2>5. log[j] \in Times
    BY <1>0, ElementOfSeq
  <2> QED
    BY <2>2, <2>3, <2>4, <2>5
<1>3. ASSUME NEW c \in 0 .. n - 1
      PROVE  b.cells[c] \in Times /\ (now = 0 => b.cells[c] = 0)
  BY DEF BufferOK, n
<1>4. ASSUME NEW c \in ValidCells(b, now)
      PROVE  \E j \in F : c = (j - 1) % n
  <2>1. c \in 0 .. Total(n, b) - 1 /\ Counts(now, b.cells[c])
    BY <1>4 DEF ValidCells, n
  <2>2. c \in 0 .. n - 1 /\ c < L
    BY <1>0, <1>1, <2>1, SMT DEF Sizes
  <2>3. PICK j \in 1 .. L : j > L - n /\ (j - 1) % n = c
    BY <1>0, <2>2, CellHas
  <2>4. b.cells[c] = log[j] /\ log[j] \in Times
    BY <1>2, <2>3
  <2>5. log[j] # 0 /\ log[j] <= now /\ now - log[j] <= SoftWindow
    BY <1>3, <2>1, <2>2, <2>4, CountsIs
  <2>6. j \in F
    BY <2>3, <2>5 DEF n
  <2> QED
    BY <2>3, <2>6
<1>5. ASSUME NEW j \in F
      PROVE  (j - 1) % n \in ValidCells(b, now)
  <2>1. /\ j \in 1 .. L /\ j > L - n /\ log[j] # 0
        /\ log[j] <= now /\ now - log[j] <= SoftWindow
    BY <1>5 DEF n
  <2>2. /\ (j - 1) % n \in 0 .. Total(n, b) - 1
        /\ (j - 1) % n \in 0 .. n - 1
        /\ b.cells[(j - 1) % n] = log[j]
        /\ log[j] \in Times
    BY <1>2, <2>1
  <2>3. Counts(now, b.cells[(j - 1) % n])
    BY <1>3, <2>1, <2>2, CountsIs
  <2> QED
    BY <2>2, <2>3 DEF ValidCells, n
<1> QED
  BY <1>4, <1>5 DEF n

\* What a prediction takes from the buffer lies within the window.
LEMMA TakenFresh ==
    ASSUME NEW b, BufferOK(SoftCap, b, Times), NEW now \in Times,
           now = 0 => \A c \in 0 .. SoftCap - 1 : b.cells[c] = 0,
           NEW ts \in {b.cells[c] : c \in ValidCells(b, now)}
    PROVE  ts \in Times /\ ts <= now /\ now - ts <= SoftWindow
<1>1. PICK c \in ValidCells(b, now) : ts = b.cells[c]
  OBVIOUS
<1>2. c \in 0 .. Total(SoftCap, b) - 1 /\ Counts(now, b.cells[c])
  BY <1>1 DEF ValidCells
<1>3. b.head \in 0 .. SoftCap - 1 /\ b.full \in BOOLEAN
  BY DEF BufferOK
<1>4. c \in 0 .. SoftCap - 1
  BY <1>2, <1>3, CapsOK, SMT DEF Total, Sizes
<1>5. b.cells[c] \in Times /\ (now = 0 => b.cells[c] = 0)
  BY <1>4 DEF BufferOK
<1> QED
  BY <1>1, <1>2, <1>5, CountsIs

\* Rows enough to predict are rows in the buffer.
LEMMA EnoughTotal ==
    ASSUME NEW b, BufferOK(SoftCap, b, Times), NEW now, Enough(b, now)
    PROVE  Total(SoftCap, b) >= SoftMin
<1> DEFINE T == Total(SoftCap, b)
           V == ValidCells(b, now)
<1>1. T \in Nat
  BY CapsOK DEF BufferOK, Total, Sizes
<1>2. V \subseteq 0 .. T - 1
  BY DEF ValidCells
<1> HIDE DEF T
<1>3. 0 \in Int /\ T - 1 \in Int
  BY <1>1
<1>4. /\ IsFiniteSet(0 .. T - 1)
      /\ Cardinality(0 .. T - 1) = IF 0 > T - 1 THEN 0 ELSE (T - 1) - 0 + 1
  BY <1>3, FS_Interval
<1>5. Cardinality(0 .. T - 1) = T
  BY <1>1, <1>4
<1> HIDE DEF V
<1>6. IsFiniteSet(V) /\ Cardinality(V) <= Cardinality(0 .. T - 1)
  BY <1>2, <1>4, FS_Subset
<1>7. Cardinality(V) \in Nat
  BY <1>6, FS_CardinalityType
<1>8. Cardinality(V) >= SoftMin
  BY DEF Enough, V
<1>9. T >= SoftMin
  BY <1>1, <1>5, <1>6, <1>7, <1>8, CapsOK, SMT DEF Sizes
<1> QED
  BY <1>9 DEF T

-----------------------------------------------------------------------------
(***************************************************************************)
(* What a push does to the energy tracker.                                 *)
(***************************************************************************)

LEMMA SumMoves ==
    ASSUME NEW i \in Int, NEW s \in Int, NEW t \in Int, NEW p \in Int, NEW o \in Int
    PROVE  i * ((s + p) - (t + o)) = ((i * (s - t)) - (o * i)) + (p * i)
BY SMT

\* The row that a full buffer is about to overwrite is the oldest it keeps.
LEMMA OldestCell ==
    ASSUME NEW n \in Sizes, NEW L \in Nat, L >= n
    PROVE  ((L - n + 1) - 1) % n = L % n
<1> DEFINE q == L \div n
           r == L % n
<1>1. q \in Int /\ r \in 0 .. n - 1 /\ L = (n * q) + r
  BY DivMod
<1> HIDE DEF q, r
<1>2. q - 1 \in Int /\ L - n \in Nat /\ (L - n + 1) - 1 = L - n
  BY <1>1, SMT DEF Sizes
<1>3. L - n = (n * (q - 1)) + r
  BY <1>1, SMT DEF Sizes
<1>4. (L - n) % n = r
  BY <1>1, <1>2, <1>3, ModIs
<1> QED
  BY <1>2, <1>4 DEF r

LEMMA StepNat ==
    ASSUME TypeOK, NEW ts \in Times
    PROVE  StepOf(ts) \in Nat
<1>1. lastTs \in Nat /\ ts \in Nat
  BY CapsOK DEF TypeOK, Times
<1> QED
  BY <1>1, CapsOK, SMT DEF StepOf

LEMMA SumToNat ==
    ASSUME TypeOK, NEW k \in 0 .. Len(energySum)
    PROVE  SumTo(k) \in Nat
<1>1. energySum \in Seq(Nat)
  BY DEF TypeOK
<1>2. CASE k = 0
  BY <1>2 DEF SumTo
<1>3. CASE k # 0
  <2>1. k \in 1 .. Len(energySum)
    BY <1>3
  <2>2. energySum[k] \in Nat
    BY <1>1, <2>1, ElementOfSeq
  <2> QED
    BY <1>3, <2>2 DEF SumTo
<1> QED
  BY <1>2, <1>3

LEMMA EnergyTypes ==
    ASSUME TypeOK, NEW ts \in Times, NEW power \in Powers, EnergyPush(ts, power)
    PROVE  /\ BufferOK(EnergyCap, energyBuf', [ts : Times, power : Powers \cup {0}])
           /\ accJ' \in Nat
           /\ energyLog' \in Seq([ts : Times, power : Powers])
           /\ energySum' \in Seq(Nat)
           /\ steady' \in BOOLEAN
<1> DEFINE row == [ts |-> ts, power |-> power]
           old == energyBuf.cells[energyBuf.head]
<1>1. row \in [ts : Times, power : Powers] /\ row \in [ts : Times, power : Powers \cup {0}]
  OBVIOUS
<1>2. BufferOK(EnergyCap, energyBuf, [ts : Times, power : Powers \cup {0}])
  BY DEF TypeOK
<1>3. BufferOK(EnergyCap, energyBuf', [ts : Times, power : Powers \cup {0}])
  <2>1. energyBuf' = Push(EnergyCap, energyBuf, row)
    BY DEF EnergyPush
  <2> QED
    BY <1>1, <1>2, <2>1, CapsOK, PushOK
<1>4. energyLog' \in Seq([ts : Times, power : Powers])
  BY <1>1 DEF EnergyPush, TypeOK
<1>5. energySum' \in Seq(Nat)
  <2>1. Len(energySum) \in 0 .. Len(energySum)
    BY DEF TypeOK
  <2>2. SumTo(Len(energySum)) \in Nat
    BY <2>1, SumToNat
  <2>3. SumTo(Len(energySum)) + power \in Nat
    BY <2>2, CapsOK
  <2> QED
    BY <2>3 DEF EnergyPush, TypeOK
<1>6. accJ' \in Nat
  <2> DEFINE gone == IF old.ts > 0 THEN old.power * StepOf(ts) ELSE 0
  <2>1. old \in [ts : Times, power : Powers \cup {0}]
    BY <1>2 DEF BufferOK
  <2>2. old.power \in Nat /\ power \in Nat /\ StepOf(ts) \in Nat
    BY <2>1, CapsOK, StepNat
  <2>3. old.power * StepOf(ts) \in Int /\ power * StepOf(ts) \in Int
    BY <2>2, SMT
  <2>4. gone \in Int /\ accJ \in Int
    BY <2>3 DEF TypeOK
  <2>5. accJ' = Clamped(accJ - gone + power * StepOf(ts))
    BY DEF EnergyPush
  <2> HIDE DEF gone
  <2>6. accJ - gone + power * StepOf(ts) \in Int
    BY <2>3, <2>4
  <2> HIDE DEF EnergyPush
  <2> QED
    BY <2>5, <2>6 DEF Clamped
<1>7. steady' \in BOOLEAN
  BY DEF EnergyPush, TypeOK
<1> QED
  BY <1>3, <1>4, <1>5, <1>6, <1>7

\* The log and its sums after a push.
LEMMA LogGrows ==
    ASSUME TypeOK, SumsInv, NEW ts \in Times, NEW power \in Powers, EnergyPush(ts, power)
    PROVE  LET L == Len(energyLog)
           IN  /\ L \in Nat /\ Len(energyLog') = L + 1 /\ Len(energySum') = L + 1
               /\ \A j \in 1 .. L : energyLog'[j] = energyLog[j]
               /\ energyLog'[L + 1] = [ts |-> ts, power |-> power]
               /\ \A j \in 1 .. L : energySum'[j] = energySum[j]
               /\ energySum'[L + 1] = SumTo(L) + power
               /\ \A k \in 0 .. L : SumTo(k)' = SumTo(k)
<1> DEFINE L == Len(energyLog)
           row == [ts |-> ts, power |-> power]
           sum == SumTo(L) + power
<1>1. /\ energyLog \in Seq([ts : Times, power : Powers]) /\ energySum \in Seq(Nat)
      /\ L \in Nat /\ Len(energySum) = L
  BY DEF TypeOK, SumsInv
<1>2. energyLog' = Append(energyLog, row) /\ energySum' = Append(energySum, sum)
  BY <1>1 DEF EnergyPush
<1> HIDE DEF row, sum
<1>3. /\ Len(energyLog') = L + 1 /\ energyLog'[L + 1] = row
      /\ \A j \in 1 .. L : energyLog'[j] = energyLog[j]
  BY <1>1, <1>2, AppendProperties
<1>4. /\ Len(energySum') = L + 1 /\ energySum'[L + 1] = sum
      /\ \A j \in 1 .. L : energySum'[j] = energySum[j]
  BY <1>1, <1>2, AppendProperties
<1>5. \A k \in 0 .. L : SumTo(k)' = SumTo(k)
  BY <1>1, <1>4 DEF SumTo
<1> QED
  BY <1>1, <1>3, <1>4, <1>5 DEF row, sum

LEMMA SumsStep ==
    ASSUME TypeOK, SumsInv, NEW ts \in Times, NEW power \in Powers, EnergyPush(ts, power)
    PROVE  SumsInv'
<1> DEFINE L == Len(energyLog)
<1>1. /\ L \in Nat /\ Len(energyLog') = L + 1 /\ Len(energySum') = L + 1
      /\ \A j \in 1 .. L : energyLog'[j] = energyLog[j]
      /\ energyLog'[L + 1] = [ts |-> ts, power |-> power]
      /\ \A j \in 1 .. L : energySum'[j] = energySum[j]
      /\ energySum'[L + 1] = SumTo(L) + power
      /\ \A k \in 0 .. L : SumTo(k)' = SumTo(k)
  BY LogGrows
<1>2. Len(energySum) = L
  BY DEF SumsInv
<1> HIDE DEF L
<1>3. ASSUME NEW j \in 1 .. L + 1
      PROVE  energySum'[j] = SumTo(j - 1)' + energyLog'[j].power
  <2>1. CASE j = L + 1
    <3>1. j - 1 = L /\ L \in 0 .. L
      BY <1>1, <2>1
    <3>2. SumTo(j - 1)' = SumTo(L)
      BY <1>1, <3>1
    <3> QED
      BY <1>1, <2>1, <3>2
  <2>2. CASE j # L + 1
    <3>1. j \in 1 .. L /\ j - 1 \in 0 .. L
      BY <1>1, <2>2
    <3>2. SumTo(j - 1)' = SumTo(j - 1)
      BY <1>1, <3>1
    <3>3. energySum[j] = SumTo(j - 1) + energyLog[j].power
      BY <3>1 DEF SumsInv, L
    <3> QED
      BY <1>1, <3>1, <3>2, <3>3
  <2> QED
    BY <2>1, <2>2
<1>4. ASSUME NEW i \in 1 .. L PROVE energySum[i] \in Nat
  BY <1>2, ElementOfSeq DEF TypeOK
<1>5. SumTo(L) \in Nat /\ power \in Nat
  <2>1. L \in 0 .. Len(energySum)
    BY <1>1, <1>2
  <2> QED
    BY <2>1, SumToNat, CapsOK
<1>6. ASSUME NEW i \in 1 .. L + 1, NEW j \in 1 .. L + 1, i <= j
      PROVE  energySum'[i] <= energySum'[j]
  <2>1. CASE j # L + 1
    <3>1. i \in 1 .. L /\ j \in 1 .. L
      BY <1>1, <1>6, <2>1
    <3>2. energySum[i] <= energySum[j]
      BY <1>6, <3>1 DEF SumsInv, L
    <3> QED
      BY <1>1, <3>1, <3>2
  <2>2. CASE i = L + 1
    <3>1. j = L + 1
      BY <1>1, <1>6, <2>2
    <3>2. energySum'[L + 1] \in Nat
      BY <1>1, <1>5
    <3> QED
      BY <2>2, <3>1, <3>2
  <2>3. CASE i # L + 1 /\ j = L + 1
    <3>1. i \in 1 .. L /\ L \in 1 .. L /\ i <= L
      BY <1>1, <2>3
    <3>2. energySum[i] <= energySum[L]
      BY <3>1 DEF SumsInv, L
    <3>3. SumTo(L) = energySum[L]
      BY <3>1 DEF SumTo
    <3> QED
      BY <1>1, <1>4, <1>5, <2>3, <3>1, <3>2, <3>3
  <2> QED
    BY <2>1, <2>2, <2>3
<1> QED
  BY <1>1, <1>3, <1>6 DEF SumsInv

LEMMA FollowsStep ==
    ASSUME TypeOK, SumsInv, EnergyFollows,
           NEW ts \in Times, NEW power \in Powers, EnergyPush(ts, power)
    PROVE  EnergyFollows'
<1> DEFINE L == Len(energyLog)
           n == EnergyCap
           row == [ts |-> ts, power |-> power]
<1>1. /\ L \in Nat /\ Len(energyLog') = L + 1
      /\ energyLog \in Seq([ts : Times, power : Powers])
      /\ energyLog' = Append(energyLog, row)
      /\ energyBuf' = Push(n, energyBuf, row)
      /\ row \in [ts : Times, power : Powers]
  BY LogGrows DEF TypeOK, EnergyPush
<1>2. BufferOK(n, energyBuf, [ts : Times, power : Powers \cup {0}])
  BY DEF TypeOK
<1>3. Holds(n, energyBuf, energyLog) /\ n \in Sizes
  BY CapsOK DEF EnergyFollows
<1> HIDE DEF row, n
<1>4. Holds(n, energyBuf', energyLog')
  BY <1>1, <1>2, <1>3, PushHolds
<1>5. ASSUME NEW c \in 0 .. n - 1, c >= L + 1
      PROVE  energyBuf'.cells[c] = NoRow
  <2>1. c >= L /\ L \in 0 .. n - 1
    BY <1>1, <1>3, <1>5, SMT DEF Sizes
  <2>2. energyBuf.cells[c] = NoRow
    BY <2>1 DEF EnergyFollows, n, L
  <2>3. energyBuf.head = L
    BY <1>3, <2>1, ModSmall DEF Holds
  <2>4. c # energyBuf.head
    BY <1>1, <1>5, <2>3
  <2> QED
    BY <1>1, <1>2, <2>2, <2>4 DEF Push, BufferOK
<1> QED
  BY <1>1, <1>4, <1>5 DEF EnergyFollows, n

LEMMA SteadyStep ==
    ASSUME TypeOK, SumsInv, SteadyInv,
           NEW ts \in Times, NEW power \in Powers, EnergyPush(ts, power)
    PROVE  SteadyInv'
<1> DEFINE L == Len(energyLog)
<1>1. /\ L \in Nat /\ Len(energyLog') = L + 1
      /\ \A j \in 1 .. L : energyLog'[j] = energyLog[j]
      /\ energyLog'[L + 1] = [ts |-> ts, power |-> power]
  BY LogGrows
<1>2. steady' => steady /\ ts # 0
  BY DEF EnergyPush
<1>3. ASSUME steady', NEW j \in 1 .. L + 1
      PROVE  energyLog'[j].ts # 0
  <2>1. CASE j = L + 1
    BY <1>1, <1>2, <1>3, <2>1
  <2>2. CASE j # L + 1
    <3>1. j \in 1 .. L
      BY <1>1, <2>2
    <3> QED
      BY <1>1, <1>2, <1>3, <3>1 DEF SteadyInv
  <2> QED
    BY <2>1, <2>2
<1> QED
  BY <1>1, <1>3 DEF SteadyInv

\* The accumulated energy stays that of the newest rows: what is taken out
\* is the power of the oldest one, once the buffer is full.
LEMMA NewestStep ==
    ASSUME TypeOK, SumsInv, EnergyFollows, SteadyInv, EnergyOfNewest,
           NEW ts \in Times, NEW power \in Powers, EnergyPush(ts, power)
    PROVE  EnergyOfNewest'
<1> DEFINE L == Len(energyLog)
           n == EnergyCap
           old == energyBuf.cells[energyBuf.head]
           gone == IF old.ts > 0 THEN old.power * StepOf(ts) ELSE 0
           step == StepOf(ts)
           SumThen(k) == IF k = 0 THEN 0 ELSE energySum'[k]
           KeptThen == IF L + 1 < n THEN L + 1 ELSE n
<1>1. /\ L \in Nat /\ Len(energyLog') = L + 1 /\ Len(energySum') = L + 1
      /\ energySum'[L + 1] = SumTo(L) + power
      /\ \A k \in 0 .. L : SumThen(k) = SumTo(k)
  BY LogGrows DEF SumTo
<1>2. Len(energySum) = L /\ energyLog \in Seq([ts : Times, power : Powers])
  BY DEF SumsInv, TypeOK
<1>3. n \in Sizes /\ Interval \in Nat /\ power \in Nat /\ accJ \in Nat
  BY CapsOK DEF TypeOK
<1>4. ASSUME NEW k \in 0 .. L PROVE SumTo(k) \in Nat
  BY <1>2, SumToNat
<1>5. /\ accJ' = Clamped(accJ - gone + power * step)
      /\ steady' => steady /\ step = Interval
  BY DEF EnergyPush
<1>6. Holds(n, energyBuf, energyLog)
  BY DEF EnergyFollows
<1>7. SumThen(L + 1) = SumTo(L) + power
  BY <1>1
<1> SUFFICES ASSUME steady'
             PROVE  accJ' = Interval * (SumThen(L + 1) - SumThen((L + 1) - KeptThen))
  BY <1>1 DEF EnergyOfNewest, SumTo, Kept
<1>8. step = Interval /\ steady
  BY <1>5
<1>9. accJ = Interval * (SumTo(L) - SumTo(L - Kept))
  BY <1>2, <1>8 DEF EnergyOfNewest
<1>10. CASE L < n
  <2>1. L \in 0 .. n - 1
    BY <1>1, <1>3, <1>10, SMT DEF Sizes
  <2>2. energyBuf.head = L
    BY <1>3, <1>6, <2>1, ModSmall DEF Holds
  <2>3. old = NoRow
    BY <1>1, <2>1, <2>2 DEF EnergyFollows
  <2>4. gone = 0
    BY <2>3 DEF NoRow
  <2>5. Kept = L /\ KeptThen = L + 1
    BY <1>1, <1>3, <1>10, SMT DEF Kept, Sizes
  <2>6. (L + 1) - KeptThen = 0 /\ L - Kept = 0
    BY <1>1, <2>5
  <2>7. SumThen(0) = 0 /\ SumTo(0) = 0
    BY DEF SumTo
  <2> DEFINE S == SumTo(L)
             i == Interval
             p == power
  <2>8. S \in Nat /\ i \in Nat /\ p \in Nat
    BY <1>1, <1>3, <1>4
  <2>9. accJ = i * (S - 0)
    BY <1>9, <2>6, <2>7
  <2> HIDE DEF S, i, p, gone
  <2>10. p * i \in Nat /\ i * (S - 0) \in Nat
    BY <2>8, SMT
  <2>11. i * ((S + p) - (0 + 0)) = ((i * (S - 0)) - (0 * i)) + (p * i)
    BY <2>8, SumMoves
  <2>12. i * ((S + p) - 0) = (i * (S - 0)) + (p * i)
    BY <2>8, <2>10, <2>11, SMT
  <2>13. accJ' = Clamped(accJ - 0 + p * i)
    BY <1>5, <1>8, <2>4 DEF i, p
  <2>14. accJ' = i * ((S + p) - 0)
    BY <1>3, <2>9, <2>10, <2>12, <2>13 DEF Clamped
  <2> QED
    BY <1>7, <2>6, <2>7, <2>14 DEF S, i, p
<1>11. CASE ~ (L < n)
  <2> DEFINE o == L - n + 1
  <2>1. o \in 1 .. L /\ o > L - n /\ L - n \in 0 .. L /\ o - 1 = L - n /\ o \in 0 .. L
    BY <1>1, <1>3, <1>11, SMT DEF Sizes
  <2>2. (o - 1) % n = L % n
    <3>1. L >= n /\ L \in Nat /\ n \in Sizes
      BY <1>1, <1>3, <1>11, SMT DEF Sizes
    <3> HIDE DEF L, n
    <3>2. ((L - n + 1) - 1) % n = L % n
      BY <3>1, OldestCell
    <3> QED
      BY <3>2 DEF o
  <2>3. old = energyLog[o]
    BY <1>6, <2>1, <2>2 DEF Holds
  <2>4. energyLog[o] \in [ts : Times, power : Powers]
    BY <1>2, <2>1, ElementOfSeq
  <2>5. energyLog[o].ts # 0
    BY <1>8, <2>1 DEF SteadyInv
  <2>6. old.ts > 0 /\ old.power \in Nat
    BY <2>3, <2>4, <2>5, CapsOK DEF Times
  <2>7. gone = old.power * Interval
    BY <1>8, <2>6
  <2>8. SumTo(o) = SumTo(L - n) + old.power
    <3>1. energySum[o] = SumTo(o - 1) + energyLog[o].power
      BY <2>1 DEF SumsInv
    <3> QED
      BY <2>1, <2>3, <3>1 DEF SumTo
  <2>9. SumTo(o) <= SumTo(L)
    <3>1. L \in 1 .. L /\ o <= L /\ L # 0 /\ o # 0
      BY <1>1, <2>1
    <3>2. energySum[o] <= energySum[L]
      BY <2>1, <3>1 DEF SumsInv
    <3> QED
      BY <3>1, <3>2 DEF SumTo
  <2>10. Kept = n /\ KeptThen = n
    BY <1>1, <1>3, <1>11, SMT DEF Kept, Sizes
  <2>11. (L + 1) - KeptThen = o
    <3>1. L \in Nat /\ n \in Nat
      BY <1>1, <1>3, SMT DEF Sizes
    <3> HIDE DEF L, n, KeptThen
    <3>2. (L + 1) - n = L - n + 1
      BY <3>1
    <3> QED
      BY <2>10, <3>2 DEF o
  <2>12. SumThen((L + 1) - KeptThen) = SumTo(o)
    BY <1>1, <2>1, <2>11
  <2> DEFINE S == SumTo(L)
             t == SumTo(L - n)
             r == old.power
             i == Interval
             p == power
  <2>13. S \in Nat /\ t \in Nat /\ r \in Nat /\ i \in Nat /\ p \in Nat
    BY <1>1, <1>3, <1>4, <2>1, <2>6
  <2>14. accJ = i * (S - t)
    BY <1>9, <2>10
  <2>15. accJ' = Clamped((accJ - (r * i)) + (p * i))
    BY <1>5, <1>8, <2>7
  <2>16. t + r <= S /\ SumTo(o) = t + r
    BY <2>8, <2>9
  <2> HIDE DEF S, t, r, i, p, gone, o
  <2>17. i * ((S + p) - (t + r)) = ((i * (S - t)) - (r * i)) + (p * i)
    BY <2>13, SumMoves
  <2>18. (S + p) - (t + r) \in Nat
    BY <2>13, <2>16, SMT
  <2>19. i * ((S + p) - (t + r)) \in Nat
    BY <2>13, <2>18, SMT
  <2>20. accJ' = i * ((S + p) - (t + r))
    BY <2>14, <2>15, <2>17, <2>19 DEF Clamped
  <2> QED
    BY <1>7, <2>12, <2>16, <2>20 DEF S, i, p
<1> QED
  BY <1>10, <1>11

LEMMA EnergyStep ==
    ASSUME TypeOK, EnergyInv, NEW ts \in Times, NEW power \in Powers, EnergyPush(ts, power)
    PROVE  EnergyInv'
<1> USE DEF EnergyInv
<1>1. EnergyFollows'
  BY FollowsStep
<1>2. SumsInv'
  BY SumsStep
<1>3. SteadyInv'
  BY SteadyStep
<1>4. EnergyOfNewest'
  BY NewestStep
<1> QED
  BY <1>1, <1>2, <1>3, <1>4

-----------------------------------------------------------------------------
(***************************************************************************)
(* The invariant holds at the start and after a Reset.                     *)
(***************************************************************************)

Cleared ==
    /\ softBuf = Empty(SoftCap, 0) /\ energyBuf = Empty(EnergyCap, NoRow)
    /\ accJ = 0 /\ lastTs = 0
    /\ latest = NoPrediction /\ totalPredictions = 0 /\ redlineHits = 0
    /\ pushes = 0
    /\ softLog = <<>> /\ energyLog = <<>> /\ energySum = <<>> /\ steady = TRUE

LEMMA ClearedInv == Cleared /\ resets \in 0 .. MaxResets => IInv
<1> SUFFICES ASSUME Cleared, resets \in 0 .. MaxResets PROVE IInv
  OBVIOUS
<1> DEFINE Rows == [ts : Times, power : Powers \cup {0}]
<1>1. 0 \in Times /\ NoRow \in Rows
  BY CapsOK DEF Times, NoRow
<1>2. /\ BufferOK(SoftCap, softBuf, Times) /\ Holds(SoftCap, softBuf, softLog)
      /\ BufferOK(EnergyCap, energyBuf, Rows) /\ Holds(EnergyCap, energyBuf, energyLog)
  BY <1>1, CapsOK, EmptyOK DEF Cleared
<1>3. TypeOK
  <2>1. latest.ts \in Times /\ latest.rows \subseteq Times
    BY <1>1 DEF Cleared, NoPrediction
  <2>2. /\ softLog \in Seq(Times) /\ energyLog \in Seq([ts : Times, power : Powers])
        /\ energySum \in Seq(Nat) /\ steady \in BOOLEAN
    BY DEF Cleared
  <2>3. /\ accJ \in Nat /\ lastTs \in Times /\ totalPredictions \in Nat
        /\ redlineHits \in 0 .. totalPredictions /\ pushes \in 0 .. MaxPushes
    BY <1>1, CapsOK DEF Cleared
  <2> QED
    BY <1>2, <2>1, <2>2, <2>3 DEF TypeOK
<1>4. SoftInv
  BY <1>2 DEF SoftInv, Cleared, Empty
<1>5. EnergyInv
  <2>1. EnergyFollows
    BY <1>2 DEF EnergyFollows, Cleared, Empty
  <2>2. Len(energyLog) = 0 /\ Len(energySum) = 0
    BY DEF Cleared
  <2>3. SumsInv /\ SteadyInv
    BY <2>2 DEF SumsInv, SteadyInv
  <2>4. EnergyOfNewest
    <3>1. Kept = 0
      BY <2>2, CapsOK, SMT DEF Kept, Sizes
    <3>2. SumTo(Len(energySum)) = 0 /\ SumTo(Len(energySum) - Kept) = 0
      BY <2>2, <3>1 DEF SumTo
    <3>3. Interval * (0 - 0) = 0
      BY CapsOK, SMT
    <3> QED
      BY <3>2, <3>3 DEF EnergyOfNewest, Cleared
  <2> QED
    BY <2>1, <2>3, <2>4 DEF EnergyInv
<1>6. LatestFresh
  BY DEF LatestFresh, Cleared, NoPrediction
<1> QED
  BY <1>3, <1>4, <1>5, <1>6 DEF IInv

LEMMA InitInv == Init => IInv
<1>1. Init => Cleared /\ resets \in 0 .. MaxResets
  BY CapsOK DEF Init, Cleared
<1> QED
  BY <1>1, ClearedInv

-----------------------------------------------------------------------------
(***************************************************************************)
(* The actions.                                                            *)
(***************************************************************************)

LEMMA StampStep ==
    ASSUME TypeOK, NEW ts \in Times, Stamp(ts)
    PROVE  /\ lastTs' = ts /\ pushes' \in 0 .. MaxPushes /\ pushes' # 0
           /\ ts = 0 => pushes = 0
<1>1. pushes \in 0 .. MaxPushes /\ pushes < MaxPushes /\ pushes' = pushes + 1
  BY DEF TypeOK, Stamp
<1>2. pushes' \in 0 .. MaxPushes /\ pushes' # 0
  BY <1>1, CapsOK
<1> QED
  BY <1>2 DEF Stamp

LEMMA SoftStep ==
    ASSUME TypeOK, SoftInv, NEW ts \in Times, Stamp(ts),
           softBuf' = Push(SoftCap, softBuf, ts), softLog' = Append(softLog, ts)
    PROVE  /\ BufferOK(SoftCap, softBuf', Times)
           /\ softLog' \in Seq(Times)
           /\ SoftInv'
           /\ ts = 0 => \A c \in 0 .. SoftCap - 1 : softBuf'.cells[c] = 0
<1>1. BufferOK(SoftCap, softBuf, Times) /\ softLog \in Seq(Times)
  BY DEF TypeOK
<1>2. BufferOK(SoftCap, softBuf', Times)
  BY <1>1, CapsOK, PushOK
<1>3. softLog' \in Seq(Times)
  BY <1>1
<1>4. Holds(SoftCap, softBuf', softLog')
  BY <1>1, CapsOK, PushHolds DEF SoftInv
<1>5. ASSUME ts = 0, NEW c \in 0 .. SoftCap - 1
      PROVE  softBuf'.cells[c] = 0
  <2>1. softBuf.cells[c] = 0
    BY <1>5, StampStep DEF SoftInv
  <2>2. softBuf'.cells = [softBuf.cells EXCEPT ![softBuf.head] = 0]
    BY <1>5 DEF Push
  <2> QED
    BY <1>1, <2>1, <2>2 DEF BufferOK
<1>6. lastTs' = ts /\ pushes' # 0
  BY StampStep
<1> QED
  BY <1>2, <1>3, <1>4, <1>5, <1>6 DEF SoftInv

\* What a phasor with a current changes, whether or not it is predicted from.
LEMMA RowStep ==
    ASSUME IInv, NEW ts \in Times, NEW power \in Powers, PushRow(ts, power),
           latest'.ts \in Times, latest'.rows \subseteq Times, LatestFresh',
           totalPredictions' \in Nat, redlineHits' \in 0 .. totalPredictions'
    PROVE  IInv'
<1>1. TypeOK /\ SoftInv /\ EnergyInv
  BY DEF IInv
<1>2. /\ Stamp(ts) /\ EnergyPush(ts, power)
      /\ softBuf' = Push(SoftCap, softBuf, ts) /\ softLog' = Append(softLog, ts)
      /\ resets' = resets
  BY DEF PushRow
<1>3. /\ BufferOK(SoftCap, softBuf', Times) /\ softLog' \in Seq(Times) /\ SoftInv'
  BY <1>1, <1>2, SoftStep
<1>4. EnergyInv'
  BY <1>1, <1>2, EnergyStep
<1>5. TypeOK'
  <2>1. /\ BufferOK(EnergyCap, energyBuf', [ts : Times, power : Powers \cup {0}])
        /\ accJ' \in Nat
        /\ energyLog' \in Seq([ts : Times, power : Powers])
        /\ energySum' \in Seq(Nat)
        /\ steady' \in BOOLEAN
    BY <1>1, <1>2, EnergyTypes
  <2>2. lastTs' \in Times /\ pushes' \in 0 .. MaxPushes
    BY <1>1, <1>2, StampStep
  <2>3. resets' \in 0 .. MaxResets
    BY <1>1, <1>2 DEF TypeOK
  <2>4. /\ BufferOK(SoftCap, softBuf, Times)'
        /\ BufferOK(EnergyCap, energyBuf, [ts : Times, power : Powers \cup {0}])'
    BY <1>3, <2>1 DEF BufferOK, Times
  <2> QED
    BY <1>3, <2>1, <2>2, <2>3, <2>4 DEF TypeOK
<1> QED
  BY <1>3, <1>4, <1>5 DEF IInv

\* A phasor without an impedance leaves the softening tracker alone.
LEMMA NoRowStep ==
    ASSUME IInv, NEW ts \in Times, Stamp(ts), UNCHANGED <<softBuf, softLog>>
    PROVE  SoftInv'
<1>1. lastTs' = ts /\ pushes' # 0 /\ (ts = 0 => pushes = 0)
  BY StampStep DEF IInv
<1>2. Holds(SoftCap, softBuf', softLog')
  BY DEF IInv, SoftInv
<1>3. ts = 0 => \A c \in 0 .. SoftCap - 1 : softBuf'.cells[c] = 0
  BY <1>1 DEF IInv, SoftInv
<1> QED
  BY <1>1, <1>2, <1>3 DEF SoftInv

LEMMA StepInv == IInv /\ [Next]_vars => IInv'
<1> SUFFICES ASSUME IInv, [Next]_vars PROVE IInv'
  OBVIOUS
<1>1. CASE Reset
  <2>1. Cleared'
    BY <1>1 DEF Reset, Cleared
  <2>2. resets' \in 0 .. MaxResets
    BY <1>1, CapsOK DEF Reset, IInv, TypeOK
  <2>3. (Cleared /\ resets \in 0 .. MaxResets => IInv)'
    BY ClearedInv, PTL
  <2> QED
    BY <2>1, <2>2, <2>3
<1>2. ASSUME NEW ts \in Times, PushNoCurrent(ts)
      PROVE  IInv'
  <2> USE <1>2 DEF PushNoCurrent
  <2>1. SoftInv'
    BY NoRowStep
  <2>2. TypeOK'
    BY StampStep DEF IInv, TypeOK, BufferOK, Times
  <2>3. EnergyInv'
    <3>1. EnergyInv /\ UNCHANGED <<energyBuf, accJ, energyLog, energySum, steady>>
      BY DEF IInv
    <3> QED
      BY <3>1 DEF EnergyInv, EnergyFollows, SumsInv, SteadyInv, EnergyOfNewest,
                  Holds, SumTo, Kept
  <2>4. LatestFresh'
    BY DEF IInv, LatestFresh
  <2> QED
    BY <2>1, <2>2, <2>3, <2>4 DEF IInv
<1>3. ASSUME NEW ts \in Times, NEW power \in Powers, PushNoImpedance(ts, power)
      PROVE  IInv'
  <2> USE <1>3 DEF PushNoImpedance
  <2>1. SoftInv'
    BY NoRowStep
  <2>2. TypeOK'
    <3>1. /\ BufferOK(EnergyCap, energyBuf', [ts : Times, power : Powers \cup {0}])
          /\ accJ' \in Nat
          /\ energyLog' \in Seq([ts : Times, power : Powers])
          /\ energySum' \in Seq(Nat)
          /\ steady' \in BOOLEAN
      BY EnergyTypes DEF IInv
    <3>2. lastTs' \in Times /\ pushes' \in 0 .. MaxPushes
      BY StampStep DEF IInv
    <3>3. BufferOK(EnergyCap, energyBuf, [ts : Times, power : Powers \cup {0}])'
      BY <3>1 DEF BufferOK, Times
    <3>4. BufferOK(SoftCap, softBuf, Times)'
      BY DEF IInv, TypeOK, BufferOK, Times
    <3> QED
      BY <3>1, <3>2, <3>3, <3>4 DEF IInv, TypeOK
  <2>3. EnergyInv'
    BY EnergyStep DEF IInv
  <2>4. LatestFresh'
    BY DEF IInv, LatestFresh
  <2> QED
    BY <2>1, <2>2, <2>3, <2>4 DEF IInv
<1>4. ASSUME NEW ts \in Times, NEW power \in Powers, PushTooFew(ts, power)
      PROVE  IInv'
  <2>1. PushRow(ts, power) /\ UNCHANGED <<latest, totalPredictions, redlineHits>>
    BY <1>4 DEF PushTooFew
  <2>2. /\ latest'.ts \in Times /\ latest'.rows \subseteq Times /\ LatestFresh'
        /\ totalPredictions' \in Nat /\ redlineHits' \in 0 .. totalPredictions'
    BY <2>1 DEF IInv, TypeOK, LatestFresh
  <2> QED
    BY <2>1, <2>2, RowStep
<1>5. ASSUME NEW ts \in Times, NEW power \in Powers, NEW low \in BOOLEAN,
             PushPredicts(ts, power, low)
      PROVE  IInv'
  <2> DEFINE rows == {softBuf'.cells[c] : c \in ValidCells(softBuf', ts)}
  <2>1. /\ PushRow(ts, power)
        /\ latest' = [ts |-> ts, rows |-> rows]
        /\ totalPredictions' = totalPredictions + 1
        /\ redlineHits' = IF low THEN redlineHits + 1 ELSE redlineHits
    BY <1>5 DEF PushPredicts
  <2>2. /\ BufferOK(SoftCap, softBuf', Times)
        /\ ts = 0 => \A c \in 0 .. SoftCap - 1 : softBuf'.cells[c] = 0
    BY <2>1, SoftStep DEF IInv, PushRow
  <2>3. ASSUME NEW t \in rows
        PROVE  t \in Times /\ t <= ts /\ ts - t <= SoftWindow
    BY <2>2, TakenFresh
  <2> HIDE DEF rows
  <2>4. latest'.ts \in Times /\ latest'.rows \subseteq Times /\ LatestFresh'
    BY <2>1, <2>3 DEF LatestFresh
  <2>5. totalPredictions' \in Nat /\ redlineHits' \in 0 .. totalPredictions'
    BY <2>1 DEF IInv, TypeOK
  <2> QED
    BY <2>1, <2>4, <2>5, RowStep
<1>6. CASE UNCHANGED vars
  <2> USE <1>6 DEF vars
  <2>1. TypeOK'
    BY DEF IInv, TypeOK, BufferOK, Times
  <2>2. SoftInv'
    BY DEF IInv, SoftInv, Holds
  <2>3. EnergyInv'
    BY DEF IInv, EnergyInv, EnergyFollows, SumsInv, SteadyInv, EnergyOfNewest,
           Holds, SumTo, Kept
  <2>4. LatestFresh'
    BY DEF IInv, LatestFresh
  <2> QED
    BY <2>1, <2>2, <2>3, <2>4 DEF IInv
<1> QED
  BY <1>1, <1>2, <1>3, <1>4, <1>5, <1>6 DEF Next, Times

LEMMA Invariant == Spec => []IInv
BY InitInv, StepInv, PTL DEF Spec

-----------------------------------------------------------------------------
(***************************************************************************)
(* What follows.                                                           *)
(***************************************************************************)

\* The trackers, the sum and the counters of MeyerPredictor keep their types
\* (meyer.go:246 and 395): in particular the accumulated energy is not negative.
THEOREM TypeCorrect == Spec => []TypeOK
<1>1. IInv => TypeOK
  BY DEF IInv
<1> QED
  BY <1>1, Invariant, PTL

LEMMA RowsFollow == IInv => RowsAreFresh
<1> SUFFICES ASSUME IInv PROVE RowsAreFresh
  OBVIOUS
<1>1. /\ BufferOK(SoftCap, softBuf, Times) /\ softLog \in Seq(Times)
      /\ Holds(SoftCap, softBuf, softLog) /\ lastTs \in Times
      /\ lastTs = 0 => \A c \in 0 .. SoftCap - 1 : softBuf.cells[c] = 0
  BY DEF IInv, TypeOK, SoftInv
<1>2. Fresh(lastTs) = {j \in 1 .. Len(softLog) : /\ j > Len(softLog) - SoftCap
                                                 /\ softLog[j] # 0
                                                 /\ softLog[j] <= lastTs
                                                 /\ lastTs - softLog[j] <= SoftWindow}
  BY DEF Fresh
<1>3. ValidCells(softBuf, lastTs) = {(j - 1) % SoftCap : j \in Fresh(lastTs)}
  BY <1>1, <1>2, ValidIs
<1> QED
  BY <1>3 DEF IInv, LatestFresh, RowsAreFresh

\* softeningTracker.stats (meyer.go:176-208) takes the rows among the newest ones
\* that lie within the window before now, and no row that is newer: the
\* unsigned difference keeps those out.  So for the rows of the prediction
\* that LatestPrediction returns.
THEOREM RowsCorrect == Spec => []RowsAreFresh
BY Invariant, RowsFollow, PTL

\* While every phasor stood for one interval, accJ of the energy tracker is
\* the energy of the rows it holds, although it is only ever changed by the
\* row that comes and the row that goes (meyer.go:222).
THEOREM EnergyCorrect == Spec => []EnergyOfNewest
<1>1. IInv => EnergyOfNewest
  BY DEF IInv, EnergyInv
<1> QED
  BY <1>1, Invariant, PTL

(***************************************************************************)
(* Predictor implements PullOutcome.                                       *)
(***************************************************************************)

\* The rows that PullOutcome counts.
SoftRows == IF Total(SoftCap, softBuf) < SoftMin THEN Total(SoftCap, softBuf) ELSE SoftMin

LEMMA ClearedRows == Cleared => SoftRows = 0
<1>1. Cleared => Total(SoftCap, softBuf) = 0
  BY DEF Cleared, Empty, Total
<1> QED
  BY <1>1, CapsOK, SMT DEF SoftRows, Sizes

\* A row more in the tracker is a row more in the abstraction.
LEMMA RowCounted ==
    ASSUME IInv, NEW ts \in Times, NEW power \in Powers, PushRow(ts, power)
    PROVE  /\ SoftRows' = IF SoftRows < SoftMin THEN SoftRows + 1 ELSE SoftRows
           /\ Enough(softBuf', ts) => SoftRows' = SoftMin
<1>1. /\ BufferOK(SoftCap, softBuf, Times) /\ softLog \in Seq(Times)
      /\ Holds(SoftCap, softBuf, softLog)
      /\ softBuf' = Push(SoftCap, softBuf, ts) /\ softLog' = Append(softLog, ts)
      /\ Stamp(ts)
  BY DEF IInv, TypeOK, SoftInv, PushRow
<1>2. /\ BufferOK(SoftCap, softBuf', Times) /\ softLog' \in Seq(Times)
      /\ Holds(SoftCap, softBuf', softLog')
  BY <1>1, SoftStep DEF IInv, SoftInv
<1> DEFINE L == Len(softLog)
           T == Total(SoftCap, softBuf)
           U == Total(SoftCap, softBuf')
<1>3. T = IF L < SoftCap THEN L ELSE SoftCap
  BY <1>1, CapsOK, TotalIs
<1>4. U = IF Len(softLog') < SoftCap THEN Len(softLog') ELSE SoftCap
  BY <1>2, CapsOK, TotalIs
<1>5. L \in Nat /\ Len(softLog') = L + 1
  BY <1>1
<1>6. Enough(softBuf', ts) => U >= SoftMin
  BY <1>2, EnoughTotal
<1>7. /\ SoftRows = IF T < SoftMin THEN T ELSE SoftMin
      /\ SoftRows' = IF U < SoftMin THEN U ELSE SoftMin
  BY DEF SoftRows
<1>8. SoftCap \in Nat /\ SoftMin \in Nat /\ SoftMin <= SoftCap
  BY CapsOK, SMT DEF Sizes
<1> HIDE DEF L, T, U
<1> QED
  BY <1>3, <1>4, <1>5, <1>6, <1>7, <1>8, SMT

LEMMA InitImplements == Init => Outcome!PredictorInit
<1>1. Init => Cleared
  BY DEF Init, Cleared
<1>2. Init => SoftRows = 0 /\ redlineHits = 0
  BY <1>1, ClearedRows DEF Init
<1> QED
  BY <1>2 DEF SoftRows, Outcome!PredictorInit

LEMMA StepImplements ==
    IInv /\ [Next]_vars =>
        [Outcome!PredictorReset \/ \E low \in BOOLEAN : Outcome!PushPhasor(low)]_
            <<SoftRows, redlineHits>>
<1> SUFFICES ASSUME IInv, [Next]_vars
             PROVE  \/ Outcome!PredictorReset
                    \/ \E low \in BOOLEAN : Outcome!PushPhasor(low)
                    \/ UNCHANGED <<SoftRows, redlineHits>>
  OBVIOUS
<1>1. CASE Reset
  <2>1. Cleared'
    BY <1>1 DEF Reset, Cleared
  <2>2. (Cleared => SoftRows = 0)'
    BY ClearedRows, PTL
  <2>3. SoftRows' = 0 /\ redlineHits' = 0
    BY <2>1, <2>2 DEF Cleared
  <2> QED
    BY <2>3 DEF SoftRows, Outcome!PredictorReset
<1>2. ASSUME NEW ts \in Times, PushNoCurrent(ts)
      PROVE  UNCHANGED <<SoftRows, redlineHits>>
  BY <1>2 DEF PushNoCurrent, SoftRows, Total
<1>3. ASSUME NEW ts \in Times, NEW power \in Powers, PushNoImpedance(ts, power)
      PROVE  UNCHANGED <<SoftRows, redlineHits>>
  BY <1>3 DEF PushNoImpedance, SoftRows, Total
<1>4. ASSUME NEW ts \in Times, NEW power \in Powers, PushTooFew(ts, power)
      PROVE  Outcome!PushPhasor(FALSE)
  <2>1. PushRow(ts, power) /\ redlineHits' = redlineHits
    BY <1>4 DEF PushTooFew
  <2>2. SoftRows' = IF SoftRows < SoftMin THEN SoftRows + 1 ELSE SoftRows
    BY <2>1, RowCounted
  <2> QED
    BY <2>1, <2>2 DEF SoftRows, Outcome!PushPhasor
<1>5. ASSUME NEW ts \in Times, NEW power \in Powers, NEW low \in BOOLEAN,
             PushPredicts(ts, power, low)
      PROVE  Outcome!PushPhasor(low)
  <2>1. /\ PushRow(ts, power) /\ Enough(softBuf', ts)
        /\ redlineHits' = IF low THEN redlineHits + 1 ELSE redlineHits
    BY <1>5 DEF PushPredicts
  <2>2. /\ SoftRows' = IF SoftRows < SoftMin THEN SoftRows + 1 ELSE SoftRows
        /\ SoftRows' = SoftMin
    BY <2>1, RowCounted
  <2> QED
    BY <2>1, <2>2 DEF SoftRows, Outcome!PushPhasor
<1>6. CASE UNCHANGED vars
  BY <1>6 DEF vars, SoftRows, Total
<1> QED
  BY <1>1, <1>2, <1>3, <1>4, <1>5, <1>6 DEF Next, Times

\* What the pipeline model assumes of the predictor, PullOutcome, is true of
\* the detailed one: no prediction, and so no redline hit, before four rows
\* are in the tracker (meyer.go:202), and Reset takes them all away.
THEOREM OutcomeCorrect == Spec => ImplementsOutcome
<1>1. Init => Outcome!PredictorInit
  BY InitImplements
<1>2. IInv /\ [Next]_vars =>
          [Outcome!PredictorReset \/ \E low \in BOOLEAN : Outcome!PushPhasor(low)]_
              <<SoftRows, redlineHits>>
  BY StepImplements
<1> QED
  BY <1>1, <1>2, Invariant, PTL DEF Spec, ImplementsOutcome, Outcome!PredictorSpec, SoftRows

=============================================================================
