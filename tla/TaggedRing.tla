----------------------------- MODULE TaggedRing -----------------------------
(***************************************************************************)
(* TaggedRingBuffer of internal/ringbuf/tagged.go: a bounded queue of      *)
(* cells, each with a sequence number, shared by threads that Enqueue and  *)
(* threads that Dequeue without a lock.  One action is one atomic          *)
(* operation of the code, or one plain access to a cell's value.           *)
(*                                                                         *)
(* Positions are natural numbers: the code's uint64 positions would need   *)
(* 2^64 operations to wrap around.  pos & mask is pos % Size because the   *)
(* constructor makes Size a power of two.                                  *)
(***************************************************************************)
EXTENDS Integers, Sequences, FiniteSets

CONSTANTS Producers,    \* threads that call Enqueue
          Consumers,    \* threads that call Dequeue
          Size,         \* number of cells, mask + 1
          MaxItems,     \* bound: items each producer enqueues
          NoItem,       \* the zero value of the item type
          Stalled       \* threads the scheduler may abandon in mid-call

\* NewTagged raises every capacity below 2 to 2.
ASSUME SizeAssumption == Size \in Nat /\ Size >= 2

ASSUME BoundAssumption == MaxItems \in Nat

ASSUME ThreadAssumption == Producers \cap Consumers = {}

Threads == Producers \cup Consumers

\* The items: the k-th one of producer p is <<p, k>>, so no two are equal.
Items == Producers \X Nat

ASSUME NoItemAssumption == NoItem \notin Items

VARIABLES enqPos, deqPos,   \* the two shared counters
          seq, val,         \* per cell, its sequence and its value
          pc,               \* per thread, the next operation of its call
          pos,              \* per thread, the local variable pos
          item,             \* per thread, the argument val or the result val
          ret,              \* per thread, what its last call returned
          sent,             \* per producer, how many items were accepted
          log               \* history: the items in the order of the positions claimed

vars == <<enqPos, deqPos, seq, val, pc, pos, item, ret, sent, log>>

Cells == 0 .. Size - 1
Idx(n) == n % Size

EnqLabels == {"enq_seq", "enq_cas", "enq_pos", "enq_val", "enq_pub"}
DeqLabels == {"deq_seq", "deq_cas", "deq_pos", "deq_val", "deq_zero", "deq_rel"}

\* What a call returns: false, or true and, for Dequeue, the item.
Refused     == [ok |-> FALSE, val |-> NoItem]
Returned(v) == [ok |-> TRUE, val |-> v]

\* A producer that owns a cell, a consumer that owns a cell.
Filling(p)  == pc[p] \in {"enq_val", "enq_pub"}
Draining(c) == pc[c] \in {"deq_val", "deq_zero", "deq_rel"}

Init ==
    /\ enqPos = 0
    /\ deqPos = 0
    /\ seq  = [i \in Cells |-> i]
    /\ val  = [i \in Cells |-> NoItem]
    /\ pc   = [t \in Threads |-> "idle"]
    /\ pos  = [t \in Threads |-> 0]
    /\ item = [t \in Threads |-> NoItem]
    /\ ret  = [t \in Threads |-> Refused]
    /\ sent = [p \in Producers |-> 0]
    /\ log  = <<>>

(***************************************************************************)
(* Slips: definitions below, each with a mistake that would be easy to     *)
(* make in the code.  Nothing refers to them; put in the place of the      *)
(* definition they are named after, each makes a property fail.            *)
(***************************************************************************)

\* The counter is stored without CompareAndSwap.
EnqClaimStores(p) ==
    /\ pc[p] = "enq_cas"
    /\ enqPos' = pos[p] + 1
    /\ log'    = Append(log, item[p])
    /\ pc'     = [pc EXCEPT ![p] = "enq_val"]
    /\ UNCHANGED <<deqPos, seq, val, pos, item, ret, sent>>

DeqClaimStores(c) ==
    /\ pc[c] = "deq_cas"
    /\ deqPos' = pos[c] + 1
    /\ pc'     = [pc EXCEPT ![c] = "deq_val"]
    /\ UNCHANGED <<enqPos, seq, val, pos, item, ret, sent, log>>

\* A free cell is taken for a full one.
EnqSeesFullEarly(p) ==
    /\ pc[p] = "enq_seq"
    /\ seq[Idx(pos[p])] <= pos[p]
    /\ ret'  = [ret EXCEPT ![p] = Refused]
    /\ item' = [item EXCEPT ![p] = NoItem]
    /\ pc'   = [pc EXCEPT ![p] = "idle"]
    /\ UNCHANGED <<enqPos, deqPos, seq, val, pos, sent, log>>

\* The wrong sequence is published or released.
EnqPublishAs(p, n) ==
    /\ pc[p] = "enq_pub"
    /\ seq'  = [seq EXCEPT ![Idx(pos[p])] = n]
    /\ ret'  = [ret EXCEPT ![p] = Returned(NoItem)]
    /\ item' = [item EXCEPT ![p] = NoItem]
    /\ sent' = [sent EXCEPT ![p] = @ + 1]
    /\ pc'   = [pc EXCEPT ![p] = "idle"]
    /\ UNCHANGED <<enqPos, deqPos, val, pos, log>>

EnqPublishSamePos(p) == EnqPublishAs(p, pos[p])

DeqReleaseAs(c, n) ==
    /\ pc[c] = "deq_rel"
    /\ seq'  = [seq EXCEPT ![Idx(pos[c])] = n]
    /\ ret'  = [ret EXCEPT ![c] = Returned(item[c])]
    /\ item' = [item EXCEPT ![c] = NoItem]
    /\ pc'   = [pc EXCEPT ![c] = "idle"]
    /\ UNCHANGED <<enqPos, deqPos, val, pos, sent, log>>

DeqReleaseMinus(c)   == DeqReleaseAs(c, pos[c] - Size)
DeqReleaseSamePos(c) == DeqReleaseAs(c, pos[c])
DeqReleaseNextPos(c) == DeqReleaseAs(c, pos[c] + 1)

\* Empty is concluded from the counters, one item too early.
DeqSeesEmptyAtOne(c) ==
    /\ pc[c] = "deq_seq"
    /\ enqPos <= pos[c] + 1
    /\ ret' = [ret EXCEPT ![c] = Refused]
    /\ pc'  = [pc EXCEPT ![c] = "idle"]
    /\ UNCHANGED <<enqPos, deqPos, seq, val, pos, item, sent, log>>

(***************************************************************************)
(* Enqueue(val).  A producer offers its next item until it is accepted.    *)
(***************************************************************************)

EnqCall(p) ==
    /\ pc[p] = "idle"
    /\ sent[p] < MaxItems
    /\ item' = [item EXCEPT ![p] = <<p, sent[p] + 1>>]
    /\ pos'  = [pos EXCEPT ![p] = enqPos]
    /\ pc'   = [pc EXCEPT ![p] = "enq_seq"]
    /\ UNCHANGED <<enqPos, deqPos, seq, val, ret, sent, log>>

\* seq := cell.sequence.Load(): the cell is free at pos, ...
EnqSeesFree(p) ==
    /\ pc[p] = "enq_seq"
    /\ seq[Idx(pos[p])] = pos[p]
    /\ pc' = [pc EXCEPT ![p] = "enq_cas"]
    /\ UNCHANGED <<enqPos, deqPos, seq, val, pos, item, ret, sent, log>>

\* ... or still holds what was enqueued one lap earlier: return false, ...
EnqSeesFull(p) ==
    /\ pc[p] = "enq_seq"
    /\ seq[Idx(pos[p])] < pos[p]
    /\ ret'  = [ret EXCEPT ![p] = Refused]
    /\ item' = [item EXCEPT ![p] = NoItem]
    /\ pc'   = [pc EXCEPT ![p] = "idle"]
    /\ UNCHANGED <<enqPos, deqPos, seq, val, pos, sent, log>>

\* ... or another producer has used the position: take a newer one.
EnqSeesStale(p) ==
    /\ pc[p] = "enq_seq"
    /\ seq[Idx(pos[p])] > pos[p]
    /\ pc' = [pc EXCEPT ![p] = "enq_pos"]
    /\ UNCHANGED <<enqPos, deqPos, seq, val, pos, item, ret, sent, log>>

EnqReload(p) ==
    /\ pc[p] = "enq_pos"
    /\ pos' = [pos EXCEPT ![p] = enqPos]
    /\ pc'  = [pc EXCEPT ![p] = "enq_seq"]
    /\ UNCHANGED <<enqPos, deqPos, seq, val, item, ret, sent, log>>

EnqClaim(p) ==
    /\ pc[p] = "enq_cas"
    /\ enqPos = pos[p]
    /\ enqPos' = pos[p] + 1
    /\ log'    = Append(log, item[p])
    /\ pc'     = [pc EXCEPT ![p] = "enq_val"]
    /\ UNCHANGED <<deqPos, seq, val, pos, item, ret, sent>>

\* A failed CompareAndSwap goes back to the same cell with the same pos.
EnqClaimFails(p) ==
    /\ pc[p] = "enq_cas"
    /\ enqPos # pos[p]
    /\ pc' = [pc EXCEPT ![p] = "enq_seq"]
    /\ UNCHANGED <<enqPos, deqPos, seq, val, pos, item, ret, sent, log>>

EnqWrite(p) ==
    /\ pc[p] = "enq_val"
    /\ val' = [val EXCEPT ![Idx(pos[p])] = item[p]]
    /\ pc'  = [pc EXCEPT ![p] = "enq_pub"]
    /\ UNCHANGED <<enqPos, deqPos, seq, pos, item, ret, sent, log>>

EnqPublish(p) ==
    /\ pc[p] = "enq_pub"
    /\ seq'  = [seq EXCEPT ![Idx(pos[p])] = pos[p] + 1]
    /\ ret'  = [ret EXCEPT ![p] = Returned(NoItem)]
    /\ item' = [item EXCEPT ![p] = NoItem]
    /\ sent' = [sent EXCEPT ![p] = @ + 1]
    /\ pc'   = [pc EXCEPT ![p] = "idle"]
    /\ UNCHANGED <<enqPos, deqPos, val, pos, log>>

(***************************************************************************)
(* Dequeue().  Consumers poll for ever.                                    *)
(***************************************************************************)

DeqCall(c) ==
    /\ pc[c] = "idle"
    /\ pos' = [pos EXCEPT ![c] = deqPos]
    /\ pc'  = [pc EXCEPT ![c] = "deq_seq"]
    /\ UNCHANGED <<enqPos, deqPos, seq, val, item, ret, sent, log>>

DeqSeesItem(c) ==
    /\ pc[c] = "deq_seq"
    /\ seq[Idx(pos[c])] = pos[c] + 1
    /\ pc' = [pc EXCEPT ![c] = "deq_cas"]
    /\ UNCHANGED <<enqPos, deqPos, seq, val, pos, item, ret, sent, log>>

DeqSeesEmpty(c) ==
    /\ pc[c] = "deq_seq"
    /\ seq[Idx(pos[c])] < pos[c] + 1
    /\ ret' = [ret EXCEPT ![c] = Refused]
    /\ pc'  = [pc EXCEPT ![c] = "idle"]
    /\ UNCHANGED <<enqPos, deqPos, seq, val, pos, item, sent, log>>

DeqSeesStale(c) ==
    /\ pc[c] = "deq_seq"
    /\ seq[Idx(pos[c])] > pos[c] + 1
    /\ pc' = [pc EXCEPT ![c] = "deq_pos"]
    /\ UNCHANGED <<enqPos, deqPos, seq, val, pos, item, ret, sent, log>>

DeqReload(c) ==
    /\ pc[c] = "deq_pos"
    /\ pos' = [pos EXCEPT ![c] = deqPos]
    /\ pc'  = [pc EXCEPT ![c] = "deq_seq"]
    /\ UNCHANGED <<enqPos, deqPos, seq, val, item, ret, sent, log>>

DeqClaim(c) ==
    /\ pc[c] = "deq_cas"
    /\ deqPos = pos[c]
    /\ deqPos' = pos[c] + 1
    /\ pc'     = [pc EXCEPT ![c] = "deq_val"]
    /\ UNCHANGED <<enqPos, seq, val, pos, item, ret, sent, log>>

DeqClaimFails(c) ==
    /\ pc[c] = "deq_cas"
    /\ deqPos # pos[c]
    /\ pc' = [pc EXCEPT ![c] = "deq_seq"]
    /\ UNCHANGED <<enqPos, deqPos, seq, val, pos, item, ret, sent, log>>

DeqRead(c) ==
    /\ pc[c] = "deq_val"
    /\ item' = [item EXCEPT ![c] = val[Idx(pos[c])]]
    /\ pc'   = [pc EXCEPT ![c] = "deq_zero"]
    /\ UNCHANGED <<enqPos, deqPos, seq, val, pos, ret, sent, log>>

DeqZero(c) ==
    /\ pc[c] = "deq_zero"
    /\ val' = [val EXCEPT ![Idx(pos[c])] = NoItem]
    /\ pc'  = [pc EXCEPT ![c] = "deq_rel"]
    /\ UNCHANGED <<enqPos, deqPos, seq, pos, item, ret, sent, log>>

DeqRelease(c) ==
    /\ pc[c] = "deq_rel"
    /\ seq'  = [seq EXCEPT ![Idx(pos[c])] = pos[c] + Size]
    /\ ret'  = [ret EXCEPT ![c] = Returned(item[c])]
    /\ item' = [item EXCEPT ![c] = NoItem]
    /\ pc'   = [pc EXCEPT ![c] = "idle"]
    /\ UNCHANGED <<enqPos, deqPos, val, pos, sent, log>>

Enqueue(p) ==
    \/ EnqCall(p)
    \/ EnqSeesFree(p)
    \/ EnqSeesFull(p)
    \/ EnqSeesStale(p)
    \/ EnqReload(p)
    \/ EnqClaim(p)
    \/ EnqClaimFails(p)
    \/ EnqWrite(p)
    \/ EnqPublish(p)

Dequeue(c) ==
    \/ DeqCall(c)
    \/ DeqSeesItem(c)
    \/ DeqSeesEmpty(c)
    \/ DeqSeesStale(c)
    \/ DeqReload(c)
    \/ DeqClaim(c)
    \/ DeqClaimFails(c)
    \/ DeqRead(c)
    \/ DeqZero(c)
    \/ DeqRelease(c)

Next ==
    \/ \E p \in Producers : Enqueue(p)
    \/ \E c \in Consumers : Dequeue(c)

Spec == Init /\ [][Next]_vars

\* The Go scheduler runs every goroutine that has not been stalled.
FairSpec ==
    /\ Spec
    /\ \A p \in Producers \ Stalled : WF_vars(Enqueue(p))
    /\ \A c \in Consumers \ Stalled : WF_vars(Dequeue(c))

-----------------------------------------------------------------------------
(***************************************************************************)
(* Safety.                                                                 *)
(***************************************************************************)

\* Types of the counters, the cells and the threads' local variables.
TypeOK ==
    /\ enqPos \in Nat /\ deqPos \in Nat
    /\ seq \in [Cells -> Nat]
    /\ val \in [Cells -> Items \cup {NoItem}]
    /\ pc \in [Threads -> {"idle"} \cup EnqLabels \cup DeqLabels]
    /\ \A p \in Producers : pc[p] \in {"idle"} \cup EnqLabels
    /\ \A c \in Consumers : pc[c] \in {"idle"} \cup DeqLabels
    /\ pos \in [Threads -> Nat]
    /\ item \in [Threads -> Items \cup {NoItem}]
    /\ \A p \in Producers : pc[p] # "idle" => item[p] \in Items
    /\ ret \in [Threads -> [ok : BOOLEAN, val : Items \cup {NoItem}]]
    /\ sent \in [Producers -> Nat]
    /\ log \in Seq(Items)
    /\ Len(log) = enqPos

\* cell.value is a plain field: no two threads may be about to access the
\* value of one cell at the same time (tagged.go:61, 84 and 86).
Touching(t) == pc[t] \in {"enq_val", "deq_val", "deq_zero"}

NoDataRace ==
    \A s, t \in Threads :
        s # t /\ Touching(s) /\ Touching(t) => Idx(pos[s]) # Idx(pos[t])

\* The consumer that claimed position n gets the item of the producer that
\* claimed position n: nothing is lost, repeated, reordered or read before
\* it is written (tagged.go:84).
DequeuedInOrder ==
    \A c \in Consumers :
        pc[c] \in {"deq_zero", "deq_rel"} =>
            /\ pos[c] < Len(log)
            /\ item[c] = log[pos[c] + 1]

\* The buffer never holds more than Size items, and never hands out a
\* position that no producer has claimed.
Bounded == deqPos <= enqPos /\ enqPos <= deqPos + Size

\* A cell's sequence never goes back, and neither does a counter: this is
\* what lets the CompareAndSwap at tagged.go:52 and 74 act on a sequence
\* that was read earlier.
SequencesGrow ==
    [][/\ enqPos' >= enqPos /\ deqPos' >= deqPos
       /\ \A i \in Cells : seq'[i] >= seq[i]]_vars

(***************************************************************************)
(* What keeps the buffer safe: the state of each cell and of each thread   *)
(* that holds or is about to claim one.                                    *)
(***************************************************************************)

\* Cell i is waiting for the producer of position n, or that producer owns it.
CellFree(i, n) ==
    /\ n \in Nat /\ Idx(n) = i
    /\ deqPos <= n /\ n < deqPos + Size /\ enqPos <= n + Size
    /\ n < enqPos => \E p \in Producers : Filling(p) /\ pos[p] = n

\* Cell i holds the item of position n, or the consumer of n owns it.
CellFull(i, n) ==
    /\ n \in Nat /\ Idx(n) = i
    /\ n < enqPos /\ enqPos <= n + Size
    /\ n < deqPos  => \E c \in Consumers : Draining(c) /\ pos[c] = n
    /\ n >= deqPos => val[i] = log[n + 1]

CellOK == \A i \in Cells : CellFree(i, seq[i]) \/ CellFull(i, seq[i] - 1)

ProducerOK(p) ==
    /\ pc[p] \in EnqLabels => pos[p] <= enqPos
    /\ pc[p] = "enq_cas" => seq[Idx(pos[p])] >= pos[p]
    /\ Filling(p) => /\ seq[Idx(pos[p])] = pos[p]
                     /\ deqPos <= pos[p] /\ pos[p] < enqPos
    /\ pc[p] = "enq_val" => item[p] = log[pos[p] + 1]
    /\ pc[p] = "enq_pub" => val[Idx(pos[p])] = log[pos[p] + 1]

ConsumerOK(c) ==
    /\ pc[c] \in DeqLabels => pos[c] <= deqPos
    /\ pc[c] = "deq_cas" => seq[Idx(pos[c])] >= pos[c] + 1
    /\ Draining(c) => seq[Idx(pos[c])] = pos[c] + 1 /\ pos[c] < deqPos
    /\ pc[c] \in {"deq_val", "deq_zero"} => val[Idx(pos[c])] = log[pos[c] + 1]
    /\ pc[c] \in {"deq_zero", "deq_rel"} => item[c] = log[pos[c] + 1]

\* No two threads own the same position.
OwnersOK ==
    /\ \A p, q \in Producers : p # q /\ Filling(p) /\ Filling(q) => pos[p] # pos[q]
    /\ \A c, d \in Consumers : c # d /\ Draining(c) /\ Draining(d) => pos[c] # pos[d]

\* The inductive invariant: every cell is either free or full for exactly one
\* position, and whoever claimed a position finds the cell as it left it.
RingInv ==
    /\ Bounded
    /\ CellOK
    /\ \A p \in Producers : ProducerOK(p)
    /\ \A c \in Consumers : ConsumerOK(c)
    /\ OwnersOK

-----------------------------------------------------------------------------
(***************************************************************************)
(* The buffer implements the queue of MpmcQueue.  An Enqueue takes effect  *)
(* when it claims its position, and so does a Dequeue.                     *)
(***************************************************************************)
CallOf(t) ==
    IF pc[t] = "idle" THEN "none"
    ELSE IF pc[t] \in {"enq_val", "enq_pub"} THEN "accepted"
    ELSE IF pc[t] \in EnqLabels THEN "enqueue"
    ELSE IF Draining(t) THEN "taken"
    ELSE "dequeue"

HeldBy(t) == IF t \in Consumers /\ Draining(t) THEN log[pos[t] + 1] ELSE item[t]

Queue == INSTANCE MpmcQueue WITH
    Capacity <- Size,
    Items    <- Producers \X (1 .. MaxItems),
    queue    <- SubSeq(log, deqPos + 1, enqPos),
    call     <- [t \in Threads |-> CallOf(t)],
    held     <- [t \in Threads |-> HeldBy(t)]

\* Every step of the buffer is a step of the queue or changes nothing its
\* callers can see: in particular Enqueue answers "full" and Dequeue answers
\* "empty" only when the queue may (tagged.go:55 and 77).
ImplementsQueue == Queue!Spec

(***************************************************************************)
(* Liveness.                                                               *)
(***************************************************************************)

\* The positions that are claimed when every producer is done.
Positions == 0 .. Cardinality(Producers) * MaxItems - 1

\* The consumer of position n has returned the item.
TakenOut(n) == deqPos > n /\ \A c \in Consumers : Draining(c) => pos[c] # n

\* When every thread is scheduled, every producer gets all its items
\* accepted, and at every position that this claims, the last one included, the
\* item is taken out by a consumer that returns (tagged.go:44-64 and 66-89).
\* Neither can be undone: counts and counters only grow.
AllDelivered ==
    /\ <>(\A p \in Producers : sent[p] = MaxItems)
    /\ <>(\A n \in Positions : TakenOut(n))

\* Lock-freedom, as main.go:39 and 111 call the buffer: whatever the stalled
\* threads do, the calls of those that run do not all spin for ever.
LockFree == (Threads \ Stalled # {}) => []<>(\E t \in Threads \ Stalled : pc[t] = "idle")
=============================================================================
