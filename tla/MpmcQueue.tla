----------------------------- MODULE MpmcQueue -----------------------------
(***************************************************************************)
(* What internal/ringbuf promises to its callers: a bounded first-in       *)
(* first-out queue whose operations take effect in one step, somewhere     *)
(* between the call and the return.                                        *)
(*                                                                         *)
(* A successful Enqueue appends to the queue, a successful Dequeue removes *)
(* its head.  The two refusals are weaker than those of a sequential       *)
(* queue: Enqueue may also say "full" while some Dequeue has taken its     *)
(* item and not yet given the cell back, and Dequeue may also say "empty"  *)
(* while some Enqueue has its place in the queue and has not yet published *)
(* the item.                                                               *)
(***************************************************************************)
EXTENDS Naturals, Sequences

CONSTANTS Producers,    \* threads that call Enqueue
          Consumers,    \* threads that call Dequeue
          Capacity,     \* number of cells
          Items,        \* what can be enqueued
          NoItem        \* the zero value of the item type

VARIABLES queue,        \* the items accepted and not yet taken, oldest first
          call,         \* per thread, the operation in progress
          held,         \* per thread, the argument or the item taken
          ret           \* per thread, what the last finished call returned

qvars == <<queue, call, held, ret>>

Threads == Producers \cup Consumers

\* What a call returns: false, or true and, for Dequeue, the item.
Refused     == [ok |-> FALSE, val |-> NoItem]
Returned(v) == [ok |-> TRUE, val |-> v]

Init ==
    /\ queue = <<>>
    /\ call  = [t \in Threads |-> "none"]
    /\ held  = [t \in Threads |-> NoItem]
    /\ ret   = [t \in Threads |-> Refused]

(***************************************************************************)
(* Enqueue(v): call, take effect, return true; or return false.            *)
(***************************************************************************)
CallEnqueue(p, v) ==
    /\ call[p] = "none"
    /\ call' = [call EXCEPT ![p] = "enqueue"]
    /\ held' = [held EXCEPT ![p] = v]
    /\ UNCHANGED <<queue, ret>>

Accept(p) ==
    /\ call[p] = "enqueue"
    /\ Len(queue) < Capacity
    /\ queue' = Append(queue, held[p])
    /\ call'  = [call EXCEPT ![p] = "accepted"]
    /\ UNCHANGED <<held, ret>>

ReturnAccepted(p) ==
    /\ call[p] = "accepted"
    /\ call' = [call EXCEPT ![p] = "none"]
    /\ held' = [held EXCEPT ![p] = NoItem]
    /\ ret'  = [ret EXCEPT ![p] = Returned(NoItem)]
    /\ UNCHANGED queue

RefuseEnqueue(p) ==
    /\ call[p] = "enqueue"
    /\ \/ Len(queue) = Capacity
       \/ \E c \in Consumers : call[c] = "taken"
    /\ call' = [call EXCEPT ![p] = "none"]
    /\ held' = [held EXCEPT ![p] = NoItem]
    /\ ret'  = [ret EXCEPT ![p] = Refused]
    /\ UNCHANGED queue

(***************************************************************************)
(* Dequeue(): call, take effect, return the item; or return false.         *)
(***************************************************************************)
CallDequeue(c) ==
    /\ call[c] = "none"
    /\ call' = [call EXCEPT ![c] = "dequeue"]
    /\ UNCHANGED <<queue, held, ret>>

Take(c) ==
    /\ call[c] = "dequeue"
    /\ queue # <<>>
    /\ held'  = [held EXCEPT ![c] = Head(queue)]
    /\ queue' = Tail(queue)
    /\ call'  = [call EXCEPT ![c] = "taken"]
    /\ UNCHANGED ret

ReturnTaken(c) ==
    /\ call[c] = "taken"
    /\ call' = [call EXCEPT ![c] = "none"]
    /\ held' = [held EXCEPT ![c] = NoItem]
    /\ ret'  = [ret EXCEPT ![c] = Returned(held[c])]
    /\ UNCHANGED queue

RefuseDequeue(c) ==
    /\ call[c] = "dequeue"
    /\ \/ queue = <<>>
       \/ \E p \in Producers : call[p] = "accepted"
    /\ call' = [call EXCEPT ![c] = "none"]
    /\ ret'  = [ret EXCEPT ![c] = Refused]
    /\ UNCHANGED <<queue, held>>

Next ==
    \/ \E p \in Producers : \/ \E v \in Items : CallEnqueue(p, v)
                            \/ Accept(p)
                            \/ ReturnAccepted(p)
                            \/ RefuseEnqueue(p)
    \/ \E c \in Consumers : \/ CallDequeue(c)
                            \/ Take(c)
                            \/ ReturnTaken(c)
                            \/ RefuseDequeue(c)

Spec == Init /\ [][Next]_qvars
=============================================================================
