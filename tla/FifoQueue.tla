------------------------------ MODULE FifoQueue ------------------------------
(***************************************************************************)
(* What a libcapi fifo promises: a bounded first-in first-out stream from  *)
(* the threads that opened it to the threads that pop it, which ends when  *)
(* everything pushed was popped and nobody holds it open.                  *)
(***************************************************************************)
EXTENDS Naturals, Sequences

CONSTANTS Consumers,  \* threads that pop
          Room,       \* how many values fit
          Values,     \* what is pushed
          End,        \* what a pop returns at the end of the stream (NULL)
          None        \* no answer yet

VARIABLES buf,   \* values pushed and not popped, oldest first
          open,  \* how many times the stream is held open
          got    \* the answer each consumer holds

vars == <<buf, open, got>>

Init == /\ buf = <<>>
        /\ open = 0
        /\ got = [c \in Consumers |-> None]

Open == open' = open + 1 /\ UNCHANGED <<buf, got>>

Close == open > 0 /\ open' = open - 1 /\ UNCHANGED <<buf, got>>

Put == /\ Len(buf) < Room
       /\ \E v \in Values : buf' = Append(buf, v)
       /\ UNCHANGED <<open, got>>

Take(c) == /\ buf # <<>>
           /\ got[c] = None
           /\ got' = [got EXCEPT ![c] = Head(buf)]
           /\ buf' = Tail(buf)
           /\ UNCHANGED open

(* The end of the stream is reported only when the stream is over.         *)
Ended(c) == /\ buf = <<>> /\ open = 0
            /\ got[c] = None
            /\ got' = [got EXCEPT ![c] = End]
            /\ UNCHANGED <<buf, open>>

(* The consumer asks again.                                                *)
Ask(c) == /\ got[c] # None
          /\ got' = [got EXCEPT ![c] = None]
          /\ UNCHANGED <<buf, open>>

Next == \/ Open \/ Close \/ Put
        \/ \E c \in Consumers : Take(c) \/ Ended(c) \/ Ask(c)

Spec == Init /\ [][Next]_vars
=============================================================================
