---------------------------- MODULE CircularLog ----------------------------
(***************************************************************************)
(* The circular buffer that the impedance code writes out by hand five     *)
(* times: the DFT's sampleBuf, the rows of SpatiotemporalMatrix, the       *)
(* pipeline's anomalies and pullEvents, and the softening tracker.  A      *)
(* buffer is a function on 0 .. n-1, the next index to write, and the flag *)
(* that is set when that index first wraps to zero.                        *)
(***************************************************************************)
EXTENDS Integers, Sequences

\* Two slips, one for Push and one for Total: the flag is set one cell early,
\* the flag is not looked at.
PushFullEarly(n, b, e) ==
    LET next == (b.head + 1) % n
    IN  [cells |-> [b.cells EXCEPT ![b.head] = e],
         head  |-> next,
         full  |-> b.full \/ next = n - 1]

TotalIgnoresFull(n, b) == n

\* A buffer of n cells that hold zero.
Empty(n, zero) == [cells |-> [i \in 0 .. n - 1 |-> zero], head |-> 0, full |-> FALSE]

\* buf[head] = e; head = (head + 1) % n; if head == 0 { full = true }
Push(n, b, e) ==
    LET next == (b.head + 1) % n
    IN  [cells |-> [b.cells EXCEPT ![b.head] = e],
         head  |-> next,
         full  |-> b.full \/ next = 0]

\* How many cells have been written.
Total(n, b) == IF b.full THEN n ELSE b.head

\* The count that a reader gets who asks for count entries.
Granted(n, b, count) == IF count <= 0 \/ count > Total(n, b) THEN Total(n, b) ELSE count

\* The count most recent entries, oldest first.
Recent(n, b, count) ==
    LET k     == Granted(n, b, count)
        start == IF b.head - k < 0 THEN b.head - k + n ELSE b.head - k
    IN  [i \in 1 .. k |-> b.cells[(start + (i - 1)) % n]]

-----------------------------------------------------------------------------
(***************************************************************************)
(* What a buffer is for: it stands for the end of a log.                   *)
(***************************************************************************)

BufferOK(n, b, Values) ==
    /\ b.cells \in [0 .. n - 1 -> Values]
    /\ b.head \in 0 .. n - 1
    /\ b.full \in BOOLEAN

\* The last k entries of a log.
LastOf(log, k) == [i \in 1 .. k |-> log[Len(log) - k + i]]

\* What a reader who asks for count entries should get of a log when only n
\* are kept.
LastGranted(n, log, count) ==
    LET total == IF Len(log) < n THEN Len(log) ELSE n
    IN  LastOf(log, IF count <= 0 \/ count > total THEN total ELSE count)

\* b is the buffer after pushing log, entry by entry, into an empty one: the
\* entry with number j is in the cell j - 1 modulo n unless n more followed.
Holds(n, b, log) ==
    /\ b.head = Len(log) % n
    /\ b.full <=> Len(log) >= n
    /\ \A j \in 1 .. Len(log) : j > Len(log) - n => b.cells[(j - 1) % n] = log[j]
=============================================================================
