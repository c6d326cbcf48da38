--------------------------- MODULE VersionedRing ---------------------------
(***************************************************************************)
(* VersionedRingBuffer of internal/ringbuf/tagged.go: cells are pointers   *)
(* to immutable records <<Version, Data>>, replaced whole.  One action is  *)
(* one atomic load, CompareAndSwap or store; what a thread then does with  *)
(* the record it loaded is local.  Positions never wrap, as in TaggedRing. *)
(***************************************************************************)
EXTENDS Integers, Sequences

CONSTANTS Producers, Consumers,
          Size,         \* number of cells, mask + 1
          MaxItems,     \* bound: items each producer enqueues
          NoItem        \* the nil pointer

Threads == Producers \cup Consumers

VARIABLES enqIdx, deqIdx,   \* the shared counters
          cells,            \* per cell, the record it points to
          pc, pos,          \* per thread, next operation and local pos
          tc,               \* per thread, the record it loaded
          item,             \* per thread, the argument ptr
          ret,              \* per thread, what its last call returned
          sent,             \* per producer, how many items were accepted
          log               \* history: the items in the order of the positions claimed

vars == <<enqIdx, deqIdx, cells, pc, pos, tc, item, ret, sent, log>>

Cell(version, data) == [Version |-> version, Data |-> data]
Refused     == [ok |-> FALSE, val |-> NoItem]
Returned(v) == [ok |-> TRUE, val |-> v]

\* NewVersioned gives every cell the version 1.
Init ==
    /\ enqIdx = 0 /\ deqIdx = 0
    /\ cells = [i \in 0 .. Size - 1 |-> Cell(1, NoItem)]
    /\ pc    = [t \in Threads |-> "idle"]
    /\ pos   = [t \in Threads |-> 0]
    /\ tc    = [t \in Threads |-> Cell(1, NoItem)]
    /\ item  = [t \in Threads |-> NoItem]
    /\ ret   = [t \in Threads |-> Refused]
    /\ sent  = [p \in Producers |-> 0]
    /\ log   = <<>>

Goto(t, label) == pc' = [pc EXCEPT ![t] = label]
Finish(t, r)   == Goto(t, "idle") /\ ret' = [ret EXCEPT ![t] = r] /\ item' = [item EXCEPT ![t] = NoItem]

EnqCall(p) ==
    /\ pc[p] = "idle" /\ sent[p] < MaxItems
    /\ item' = [item EXCEPT ![p] = <<p, sent[p] + 1>>]
    /\ pos'  = [pos EXCEPT ![p] = enqIdx]
    /\ Goto(p, "enq_load")
    /\ UNCHANGED <<enqIdx, deqIdx, cells, tc, ret, sent, log>>

\* Loads the cell and compares its version with pos + 1.
EnqLoad(p) ==
    /\ pc[p] = "enq_load"
    /\ LET v == cells[pos[p] % Size].Version
       IN  \/ v = pos[p] + 1 /\ Goto(p, "enq_cas") /\ UNCHANGED <<ret, item>>
           \/ v < pos[p] + 1 /\ Finish(p, Refused)
           \/ v > pos[p] + 1 /\ Goto(p, "enq_pos") /\ UNCHANGED <<ret, item>>
    /\ UNCHANGED <<enqIdx, deqIdx, cells, pos, tc, sent, log>>

EnqReload(p) ==
    /\ pc[p] = "enq_pos"
    /\ pos' = [pos EXCEPT ![p] = enqIdx]
    /\ Goto(p, "enq_load")
    /\ UNCHANGED <<enqIdx, deqIdx, cells, tc, item, ret, sent, log>>

\* A failed CompareAndSwap goes back to the same cell.
EnqCAS(p) ==
    /\ pc[p] = "enq_cas"
    /\ \/ /\ enqIdx = pos[p]
          /\ enqIdx' = pos[p] + 1
          /\ log' = Append(log, item[p])
          /\ Goto(p, "enq_store")
       \/ enqIdx # pos[p] /\ Goto(p, "enq_load") /\ UNCHANGED <<enqIdx, log>>
    /\ UNCHANGED <<deqIdx, cells, pos, tc, item, ret, sent>>

\* The new record has the version the old one had.
EnqStore(p) ==
    /\ pc[p] = "enq_store"
    /\ cells' = [cells EXCEPT ![pos[p] % Size] = Cell(pos[p] + 1, item[p])]
    /\ sent'  = [sent EXCEPT ![p] = @ + 1]
    /\ Finish(p, Returned(NoItem))
    /\ UNCHANGED <<enqIdx, deqIdx, pos, tc, log>>

DeqCall(c) ==
    /\ pc[c] = "idle"
    /\ pos' = [pos EXCEPT ![c] = deqIdx]
    /\ Goto(c, "deq_load")
    /\ UNCHANGED <<enqIdx, deqIdx, cells, tc, item, ret, sent, log>>

DeqLoad(c) ==
    /\ pc[c] = "deq_load"
    /\ tc' = [tc EXCEPT ![c] = cells[pos[c] % Size]]
    /\ LET v == tc'[c].Version
       IN  \/ v = pos[c] + 2 /\ Goto(c, "deq_cas") /\ UNCHANGED <<ret, item>>
           \/ v < pos[c] + 2 /\ Finish(c, Refused)
           \/ v > pos[c] + 2 /\ Goto(c, "deq_pos") /\ UNCHANGED <<ret, item>>
    /\ UNCHANGED <<enqIdx, deqIdx, cells, pos, sent, log>>

DeqReload(c) ==
    /\ pc[c] = "deq_pos"
    /\ pos' = [pos EXCEPT ![c] = deqIdx]
    /\ Goto(c, "deq_load")
    /\ UNCHANGED <<enqIdx, deqIdx, cells, tc, item, ret, sent, log>>

DeqCAS(c) ==
    /\ pc[c] = "deq_cas"
    /\ \/ deqIdx = pos[c] /\ deqIdx' = pos[c] + 1 /\ Goto(c, "deq_store")
       \/ deqIdx # pos[c] /\ Goto(c, "deq_load") /\ UNCHANGED deqIdx
    /\ UNCHANGED <<enqIdx, cells, pos, tc, item, ret, sent, log>>

\* pos + mask + 2 is pos + Size + 1.
DeqStore(c) ==
    /\ pc[c] = "deq_store"
    /\ cells' = [cells EXCEPT ![pos[c] % Size] = Cell(pos[c] + Size + 1, NoItem)]
    /\ Finish(c, Returned(tc[c].Data))
    /\ UNCHANGED <<enqIdx, deqIdx, pos, tc, sent, log>>

Next ==
    \/ \E p \in Producers : EnqCall(p) \/ EnqLoad(p) \/ EnqReload(p) \/ EnqCAS(p) \/ EnqStore(p)
    \/ \E c \in Consumers : DeqCall(c) \/ DeqLoad(c) \/ DeqReload(c) \/ DeqCAS(c) \/ DeqStore(c)

Spec == Init /\ [][Next]_vars

-----------------------------------------------------------------------------
Queue == INSTANCE MpmcQueue WITH
    Capacity <- Size,
    Items    <- Producers \X (1 .. MaxItems),
    queue    <- SubSeq(log, deqIdx + 1, enqIdx),
    call     <- [t \in Threads |->
                    CASE pc[t] = "idle" -> "none"
                      [] pc[t] \in {"enq_load", "enq_cas", "enq_pos"} -> "enqueue"
                      [] pc[t] = "enq_store" -> "accepted"
                      [] pc[t] \in {"deq_load", "deq_cas", "deq_pos"} -> "dequeue"
                      [] OTHER -> "taken"],
    held     <- [t \in Threads |-> IF pc[t] = "deq_store" THEN log[pos[t] + 1] ELSE item[t]]

\* ringbuf_test.go:217 calls this buffer an MPMC queue like TaggedRing: what
\* Enqueue accepted, Dequeue returns, and Dequeue says "empty" only when the
\* queue may.
ImplementsQueue == Queue!Spec
=============================================================================
