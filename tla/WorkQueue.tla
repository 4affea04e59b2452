------------------------------ MODULE WorkQueue ------------------------------
(***************************************************************************)
(* What libcapi's work queue promises its callers, whatever implements the *)
(* accelerator function unit (AFU): requests are completed in the order in *)
(* which they were submitted, each exactly once, and each completion that  *)
(* is handed back answers the request it was made from.  No ring, no flag  *)
(* protocol, no threads: a bounded pipe of two sequences.                  *)
(***************************************************************************)
EXTENDS Naturals, Sequences

CONSTANTS Poppers,       \* threads that retire completions (wqueue_pop)
          Capacity,      \* slots of the ring (queue_len)
          Requests,      \* the requests that can be submitted
          Outcomes(_),   \* the completions a request may legally receive
          None           \* "no completion in hand"

VARIABLES ready,  \* submitted and not yet completed, oldest first
          done,   \* completed and not yet retired, oldest first
          got     \* the completion each popper holds

vars == <<ready, done, got>>

Init == /\ ready = <<>>
        /\ done = <<>>
        /\ got = [c \in Poppers |-> None]

(* A request enters at the tail, and only when the pipe has room.          *)
Submit == /\ Len(ready) + Len(done) < Capacity
          /\ \E r \in Requests : ready' = Append(ready, r)
          /\ UNCHANGED <<done, got>>

(* The AFU completes the oldest request.                                   *)
Complete == /\ ready # <<>>
            /\ ready' = Tail(ready)
            /\ \E res \in Outcomes(Head(ready)) : done' = Append(done, res)
            /\ UNCHANGED got

(* A popper takes the oldest completion.                                   *)
Retire(c) == /\ got[c] = None
             /\ done # <<>>
             /\ got' = [got EXCEPT ![c] = Head(done)]
             /\ done' = Tail(done)
             /\ UNCHANGED ready

(* The popper's call returns.                                              *)
Return(c) == /\ got[c] # None
             /\ got' = [got EXCEPT ![c] = None]
             /\ UNCHANGED <<ready, done>>

(* The queue is torn down and set up again; what was in it is dropped.     *)
Reset == /\ ready' = <<>>
         /\ done' = <<>>
         /\ UNCHANGED got

Next == \/ Submit
        \/ Complete
        \/ Reset
        \/ \E c \in Poppers : Retire(c) \/ Return(c)

Spec == Init /\ [][Next]_vars
=============================================================================
