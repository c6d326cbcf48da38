------------------------ MODULE CircularLog_proof ------------------------
(***************************************************************************)
(* A circular buffer stands for the end of its log, for every size, every  *)
(* log and every count a reader may ask for.                               *)
(***************************************************************************)
EXTENDS CircularLog, TLAPS

Sizes == Nat \ {0}

-----------------------------------------------------------------------------
(* Arithmetic of indices modulo the size.                                  *)

LEMMA DivMod ==
    ASSUME NEW n \in Sizes, NEW a \in Nat
    PROVE  /\ a \div n \in Int
           /\ a % n \in 0 .. n - 1
           /\ a = (n * (a \div n)) + (a % n)
<1>1. a \div n \in Int /\ a % n \in 0 .. n - 1
  BY SMT DEF Sizes
<1>2. a = (n * (a \div n)) + (a % n)
  BY SMT DEF Sizes
<1> QED
  BY <1>1, <1>2

LEMMA DivUnique ==
    ASSUME NEW n \in Sizes, NEW q \in Int, NEW p \in Int,
           NEW r \in 0 .. n - 1, NEW s \in 0 .. n - 1,
           (n * q) + r = (n * p) + s
    PROVE  r = s
<1>1. CASE q < p
  <2>1. n * (p - q) >= n
    BY <1>1, SMT DEF Sizes
  <2>2. n * (p - q) = (n * p) - (n * q)
    BY SMT DEF Sizes
  <2> QED
    BY <2>1, <2>2, SMT DEF Sizes
<1>2. CASE q > p
  <2>1. n * (q - p) >= n
    BY <1>2, SMT DEF Sizes
  <2>2. n * (q - p) = (n * q) - (n * p)
    BY SMT DEF Sizes
  <2> QED
    BY <2>1, <2>2, SMT DEF Sizes
<1>3. CASE q = p
  BY <1>3, SMT DEF Sizes
<1> QED
  BY <1>1, <1>2, <1>3

\* A remainder that somehow is one is the remainder.
LEMMA ModIs ==
    ASSUME NEW n \in Sizes, NEW a \in Nat, NEW q \in Int, NEW r \in 0 .. n - 1,
           a = (n * q) + r
    PROVE  a % n = r
<1> DEFINE p == a \div n
<1>1. p \in Int /\ a % n \in 0 .. n - 1 /\ a = (n * p) + (a % n)
  BY DivMod
<1> HIDE DEF p
<1>2. (n * p) + (a % n) = (n * q) + r
  BY <1>1
<1> QED
  BY <1>1, <1>2, DivUnique

LEMMA ModSmall ==
    ASSUME NEW n \in Sizes, NEW a \in 0 .. n - 1
    PROVE  a % n = a
<1>1. a \in Nat /\ a = (n * 0) + a
  BY SMT DEF Sizes
<1> QED
  BY <1>1, ModIs

\* Numbers that agree modulo n still do when the same is added.
LEMMA ModAdd ==
    ASSUME NEW n \in Sizes, NEW a \in Nat, NEW b \in Nat, NEW k \in Nat,
           a % n = b % n
    PROVE  (a + k) % n = (b + k) % n
<1> DEFINE x == a \div n
           y == b \div n
           z == (b + k) \div n
           r == (b + k) % n
<1>1. x \in Int /\ a % n \in 0 .. n - 1 /\ a = (n * x) + (a % n)
  BY DivMod
<1>2. y \in Int /\ b = (n * y) + (b % n)
  BY DivMod
<1>3. z \in Int /\ r \in 0 .. n - 1 /\ b + k = (n * z) + r
  <2>1. b + k \in Nat
    OBVIOUS
  <2> QED
    BY <2>1, DivMod
<1> HIDE DEF x, y, z, r
<1>4. n * ((x - y) + z) = ((n * x) - (n * y)) + (n * z)
  BY <1>1, <1>2, <1>3, SMT DEF Sizes
<1>5. a + k = (n * ((x - y) + z)) + r
  <2>1. n * x \in Int /\ n * y \in Int /\ n * z \in Int
    BY <1>1, <1>2, <1>3, SMT DEF Sizes
  <2> QED
    BY <1>1, <1>2, <1>3, <1>4, <2>1, SMT DEF Sizes
<1>6. a + k \in Nat /\ (x - y) + z \in Int
  BY <1>1, <1>2, <1>3, SMT
<1>7. (a + k) % n = r
  BY <1>3, <1>5, <1>6, ModIs
<1> QED
  BY <1>7 DEF r

\* Two numbers less than n apart do not agree.
LEMMA ModApart ==
    ASSUME NEW n \in Sizes, NEW a \in Nat, NEW b \in Nat, a < b, b < a + n
    PROVE  a % n # b % n
<1> SUFFICES ASSUME a % n = b % n PROVE FALSE
  OBVIOUS
<1> DEFINE x == a \div n
           y == b \div n
<1>1. x \in Int /\ y \in Int /\ a % n \in Int
  BY DivMod
<1>2. a = (n * x) + (a % n) /\ b = (n * y) + (a % n)
  BY DivMod
<1> HIDE DEF x, y
<1>3. n * (y - x) = (n * y) - (n * x)
  BY <1>1, SMT DEF Sizes
<1>4. n * x \in Int /\ n * y \in Int
  BY <1>1, SMT DEF Sizes
<1>5. n * (y - x) > 0 /\ n * (y - x) < n
  BY <1>1, <1>2, <1>3, <1>4, SMT DEF Sizes
<1>6. y - x >= 1
  BY <1>1, <1>5, SMT DEF Sizes
<1>7. n * (y - x) >= n
  BY <1>1, <1>6, SMT DEF Sizes
<1> QED
  BY <1>1, <1>5, <1>7, SMT DEF Sizes

\* The next index after a % n.
LEMMA ModNext ==
    ASSUME NEW n \in Sizes, NEW a \in Nat
    PROVE  ((a % n) + 1) % n = (a + 1) % n
<1>1. a % n \in 0 .. n - 1 /\ a % n \in Nat
  BY DivMod, SMT
<1>2. (a % n) % n = a % n
  BY <1>1, ModSmall
<1> QED
  BY <1>1, <1>2, ModAdd

\* Going back k from a, as the readers do it: subtract from the index, and
\* add n when the result is negative.
LEMMA ModBack ==
    ASSUME NEW n \in Sizes, NEW a \in Nat, NEW k \in Nat, k <= n, k <= a,
           NEW start, start = IF (a % n) - k < 0 THEN (a % n) - k + n ELSE (a % n) - k
    PROVE  start \in Nat /\ start % n = (a - k) % n
<1> DEFINE x == a \div n
           z == (a - k) \div n
           r == (a - k) % n
<1>1. x \in Int /\ a % n \in 0 .. n - 1 /\ a = (n * x) + (a % n)
  BY DivMod
<1>2. a - k \in Nat
  BY SMT
<1>3. z \in Int /\ r \in 0 .. n - 1 /\ a - k = (n * z) + r
  BY <1>2, DivMod
<1> HIDE DEF x, z, r
<1>4. start \in Nat
  BY <1>1, SMT DEF Sizes
<1>5. n * x \in Int /\ n * z \in Int
  BY <1>1, <1>3, SMT DEF Sizes
<1>6. CASE (a % n) - k < 0
  <2>1. n * ((z - x) + 1) = ((n * z) - (n * x)) + n
    BY <1>1, <1>3, SMT DEF Sizes
  <2>2. start = (n * ((z - x) + 1)) + r
    BY <1>1, <1>3, <1>5, <1>6, <2>1, SMT DEF Sizes
  <2>3. start % n = r
    BY <1>1, <1>3, <1>4, <2>2, ModIs
  <2> QED
    BY <1>4, <2>3 DEF r
<1>7. CASE ~ ((a % n) - k < 0)
  <2>1. n * (z - x) = (n * z) - (n * x)
    BY <1>1, <1>3, SMT DEF Sizes
  <2>2. start = (n * (z - x)) + r
    BY <1>1, <1>3, <1>5, <1>7, <2>1, SMT DEF Sizes
  <2>3. start % n = r
    BY <1>1, <1>3, <1>4, <2>2, ModIs
  <2> QED
    BY <1>4, <2>3 DEF r
<1> QED
  BY <1>6, <1>7

\* Going back one from a, as LatestRow does it.
LEMMA ModBackOne ==
    ASSUME NEW n \in Sizes, NEW a \in Nat, a # 0
    PROVE  (a - 1) % n = IF a % n = 0 THEN n - 1 ELSE (a % n) - 1
<1> DEFINE r == (a - 1) % n
<1>1. a - 1 \in Nat /\ (a - 1) + 1 = a
  OBVIOUS
<1>2. r \in 0 .. n - 1 /\ (r + 1) % n = a % n
  BY <1>1, DivMod, ModNext
<1> HIDE DEF r
<1>3. CASE r = n - 1
  <2>1. r + 1 \in Nat /\ r + 1 = (n * 1) + 0 /\ 0 \in 0 .. n - 1
    BY <1>2, <1>3, SMT DEF Sizes
  <2>2. (r + 1) % n = 0
    BY <2>1, ModIs
  <2> QED
    BY <1>2, <1>3, <2>2 DEF r
<1>4. CASE r # n - 1
  <2>1. r + 1 \in 0 .. n - 1 /\ r + 1 # 0 /\ (r + 1) - 1 = r
    BY <1>2, <1>4, SMT DEF Sizes
  <2>2. a % n = r + 1
    BY <1>2, <2>1, ModSmall
  <2> QED
    BY <2>1, <2>2 DEF r
<1> QED
  BY <1>3, <1>4

-----------------------------------------------------------------------------
(* The buffer and its log.                                                 *)

LEMMA EmptyOK ==
    ASSUME NEW n \in Sizes, NEW S, NEW zero \in S
    PROVE  BufferOK(n, Empty(n, zero), S) /\ Holds(n, Empty(n, zero), <<>>)
<1>1. 0 \in 0 .. n - 1 /\ 0 % n = 0
  <2>1. 0 \in 0 .. n - 1
    BY SMT DEF Sizes
  <2> QED
    BY <2>1, ModSmall
<1> QED
  BY <1>1, SMT DEF BufferOK, Holds, Empty, Sizes

LEMMA PushOK ==
    ASSUME NEW n \in Sizes, NEW S, NEW b, BufferOK(n, b, S), NEW e \in S
    PROVE  BufferOK(n, Push(n, b, e), S)
<1>1. (b.head + 1) % n \in 0 .. n - 1
  <2>1. b.head + 1 \in Nat
    BY SMT DEF BufferOK, Sizes
  <2> QED
    BY <2>1, DivMod
<1>2. [b.cells EXCEPT ![b.head] = e] \in [0 .. n - 1 -> S]
  BY DEF BufferOK
<1>3. (b.full \/ (b.head + 1) % n = 0) \in BOOLEAN
  BY DEF BufferOK
<1> QED
  BY <1>1, <1>2, <1>3 DEF BufferOK, Push

LEMMA HoldsIs ==
    ASSUME NEW n, NEW b, NEW log, NEW L, Len(log) = L,
           b.head = L % n, b.full <=> L >= n,
           \A j \in 1 .. L : j > L - n => b.cells[(j - 1) % n] = log[j]
    PROVE  Holds(n, b, log)
  BY Zenon DEF Holds

\* Push keeps the buffer in step with its log.
LEMMA PushHolds ==
    ASSUME NEW n \in Sizes, NEW S, NEW T, NEW b, BufferOK(n, b, S),
           NEW log \in Seq(T), NEW e \in T, Holds(n, b, log)
    PROVE  Holds(n, Push(n, b, e), Append(log, e))
<1> DEFINE L == Len(log)
           M == L + 1
           c == Push(n, b, e)
           log2 == Append(log, e)
<1>1. L \in Nat /\ Len(log2) = M
  OBVIOUS
<1>2. b.head = L % n /\ c.head = (L + 1) % n
  BY <1>1, ModNext DEF Holds, Push
<1>3. L % n \in 0 .. n - 1
  BY <1>1, DivMod
<1>4. c.full <=> L + 1 >= n
  <2>1. c.full <=> b.full \/ (L + 1) % n = 0
    BY <1>2 DEF Push
  <2>2. CASE L >= n
    BY <1>1, <2>1, <2>2, SMT DEF Holds, Sizes
  <2>3. CASE L + 1 = n
    <3>1. (L + 1) % n = 0
      <4>1. L + 1 = (n * 1) + 0 /\ 0 \in 0 .. n - 1
        BY <1>1, <2>3, SMT DEF Sizes
      <4> QED
        BY <1>1, <4>1, ModIs
    <3> QED
      BY <2>1, <2>3, <3>1, <1>1, SMT DEF Sizes
  <2>4. CASE L + 1 < n
    <3>1. (L + 1) % n = L + 1
      <4>1. L + 1 \in 0 .. n - 1
        BY <1>1, <2>4, SMT DEF Sizes
      <4> QED
        BY <4>1, ModSmall
    <3>2. ~ (L >= n)
      BY <1>1, <2>4, SMT DEF Sizes
    <3>3. ~ b.full
      BY <3>2 DEF Holds
    <3> QED
      BY <1>1, <2>1, <2>4, <3>1, <3>3, SMT DEF Sizes
  <2> QED
    BY <1>1, <2>2, <2>3, <2>4, SMT DEF Sizes
<1>5. ASSUME NEW j \in 1 .. M, j > M - n
      PROVE  c.cells[(j - 1) % n] = log2[j]
  <2>1. j - 1 \in Nat
    BY <1>1, SMT
  <2>2. (j - 1) % n \in 0 .. n - 1
    BY <2>1, DivMod
  <2>3. c.cells[(j - 1) % n] = IF (j - 1) % n = L % n THEN e ELSE b.cells[(j - 1) % n]
    BY <1>2, <2>2 DEF Push, BufferOK
  <2>4. CASE j = L + 1
    <3>1. j - 1 = L
      BY <1>1, <2>4, SMT
    <3> QED
      BY <2>3, <2>4, <3>1, <1>1
  <2>5. CASE j # L + 1
    <3>1. j \in 1 .. L /\ j > L - n /\ j - 1 < L /\ L < (j - 1) + n
      BY <1>1, <1>5, <2>5, SMT DEF Sizes
    <3>2. (j - 1) % n # L % n
      BY <1>1, <2>1, <3>1, ModApart
    <3>3. b.cells[(j - 1) % n] = log[j]
      BY <3>1 DEF Holds
    <3>4. log2[j] = log[j]
      BY <3>1
    <3> QED
      BY <2>3, <3>2, <3>3, <3>4
  <2> QED
    BY <2>4, <2>5
<1>6. c.head = M % n /\ (c.full <=> M >= n)
  BY <1>2, <1>4
<1> HIDE DEF c, log2, M
<1>7. Holds(n, c, log2)
  BY <1>1, <1>5, <1>6, HoldsIs, Zenon
<1> QED
  BY <1>7 DEF c, log2

\* How much is there to read.
LEMMA TotalIs ==
    ASSUME NEW n \in Sizes, NEW S, NEW T, NEW b, BufferOK(n, b, S),
           NEW log \in Seq(T), Holds(n, b, log)
    PROVE  Total(n, b) = IF Len(log) < n THEN Len(log) ELSE n
<1>1. CASE Len(log) < n
  <2>1. Len(log) \in 0 .. n - 1
    BY <1>1, SMT DEF Sizes
  <2>2. b.head = Len(log)
    BY <2>1, ModSmall DEF Holds
  <2>3. ~ b.full
    BY <1>1, <2>1, SMT DEF Holds, Sizes
  <2> QED
    BY <1>1, <2>2, <2>3 DEF Total
<1>2. CASE ~ (Len(log) < n)
  <2>1. b.full
    BY <1>2, SMT DEF Holds, Sizes
  <2> QED
    BY <1>2, <2>1 DEF Total
<1> QED
  BY <1>1, <1>2

\* Whatever count a reader asks for, it reads the end of the log, oldest
\* entry first.
THEOREM RecentIsLast ==
    ASSUME NEW n \in Sizes, NEW S, NEW T, NEW b, BufferOK(n, b, S),
           NEW log \in Seq(T), Holds(n, b, log), NEW count \in Int
    PROVE  Recent(n, b, count) = LastGranted(n, log, count)
<1> DEFINE L == Len(log)
           k == Granted(n, b, count)
           start == IF b.head - k < 0 THEN b.head - k + n ELSE b.head - k
<1>1. L \in Nat /\ b.head = L % n
  BY DEF Holds
<1>2. k \in Nat /\ k <= n /\ k <= L
  BY <1>1, TotalIs, SMT DEF Granted, Sizes
<1>3. LastGranted(n, log, count) = LastOf(log, k)
  BY TotalIs DEF Granted, LastGranted
<1> HIDE DEF k
<1>4. start \in Nat /\ start % n = (L - k) % n
  BY <1>1, <1>2, ModBack
<1> HIDE DEF start
<1>5. ASSUME NEW i \in 1 .. k
      PROVE  b.cells[(start + (i - 1)) % n] = log[L - k + i]
  <2>1. i - 1 \in Nat /\ L - k \in Nat
    BY <1>1, <1>2, SMT
  <2>2. (start + (i - 1)) % n = ((L - k) + (i - 1)) % n
    BY <1>4, <2>1, ModAdd
  <2>3. /\ L - k + i \in 1 .. L
        /\ L - k + i > L - n
        /\ (L - k) + (i - 1) = (L - k + i) - 1
    BY <1>1, <1>2, SMT DEF Sizes
  <2> QED
    BY <2>2, <2>3 DEF Holds
<1>6. Recent(n, b, count) = [i \in 1 .. k |-> b.cells[(start + (i - 1)) % n]]
  BY DEF Recent, k, start
<1> QED
  BY <1>3, <1>5, <1>6 DEF LastOf
=============================================================================
