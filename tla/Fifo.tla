-------------------------------- MODULE Fifo --------------------------------
(***************************************************************************)
(* The thread-safe fifo of src/src/fifo.c: a ring of pointers under one    *)
(* mutex and two condition variables.  Every access is under the mutex, so *)
(* one action is one stretch of code between taking the mutex and letting  *)
(* it go, by unlocking or by waiting.                                      *)
(*                                                                         *)
(* The callers modelled are the ones the interface is for: a producer      *)
(* opens the fifo, pushes, and closes it; a consumer pops until it is      *)
(* handed NULL.  Consumers start once every producer has opened the fifo.  *)
(***************************************************************************)
EXTENDS Integers, FiniteSets, Sequences

CONSTANTS Producers, Consumers,
          Entries,   \* entries given to fifo_new
          Values,    \* the pointers that are pushed
          NULL,      \* what fifo_pop returns at the end
          None       \* no value

ASSUME EntriesAssumption == Entries \in Nat \ {0}
ASSUME PowerOfTwo == \E k \in 0 .. 30 : Entries = 2^k
ASSUME ThreadAssumption == /\ IsFiniteSet(Producers) /\ IsFiniteSet(Consumers)
                           /\ Producers \cap Consumers = {}
ASSUME ValueAssumption == NULL \notin Values /\ None \notin Values /\ None # NULL

VARIABLES
  queue,               \* the ring of pointers
  push_ptr, pop_ptr,   \* the indices
  readers,             \* how many opens have not been closed
  max_fill,            \* high-water mark since the last fifo_max_fill
  prod_pc,             \* "new", "open", "push", "wait", "woken" or "closed"
  item,                \* what each producer is pushing
  cons_pc,             \* "idle", "pop", "wait", "woken" or "ended"
  got                  \* what each consumer was last handed

ring == <<queue, push_ptr, pop_ptr>>
prod == <<prod_pc, item>>
cons == <<cons_pc, got>>
vars == <<ring, readers, max_fill, prod, cons>>

-----------------------------------------------------------------------------
Slots == 0 .. Entries - 1

MutantMaskLate(x) == IF x < 0 THEN x + Entries
                     ELSE IF x > Entries THEN x - Entries ELSE x

(* x & mask for the values x takes: one ring's length either side of it.   *)
Mask(x) == IF x < 0 THEN x + Entries
           ELSE IF x >= Entries THEN x - Entries ELSE x

isempty == push_ptr = pop_ptr

MutantFullUnmasked == push_ptr + 1 = pop_ptr

isfull == Mask(push_ptr + 1) = pop_ptr

num_available(push, pop) == Mask(push - pop)

(* pthread_cond_signal on push_cond and on pop_cond, from a thread that is *)
(* not itself waiting: one waiter wakes, if there is one.                  *)
Signalled(pc, threads) ==
  IF \E t \in threads : pc[t] = "wait"
  THEN {[pc EXCEPT ![t] = "woken"] : t \in {u \in threads : pc[u] = "wait"}}
  ELSE {pc}

MutantNoBroadcast(pc, threads) == pc

(* pthread_cond_broadcast: every waiter wakes.                             *)
Broadcast(pc, threads) ==
  [t \in threads |-> IF pc[t] = "wait" THEN "woken" ELSE pc[t]]

-----------------------------------------------------------------------------
(* fifo_new.                                                               *)
Init == /\ queue = [i \in Slots |-> None]
        /\ push_ptr = 0 /\ pop_ptr = 0
        /\ readers = 0
        /\ max_fill = 0
        /\ prod_pc = [p \in Producers |-> "new"]
        /\ item = [p \in Producers |-> None]
        /\ cons_pc = [c \in Consumers |-> "idle"]
        /\ got = [c \in Consumers |-> None]

fifo_open(p) == /\ prod_pc[p] = "new"
                /\ readers' = readers + 1
                /\ prod_pc' = [prod_pc EXCEPT ![p] = "open"]
                /\ UNCHANGED <<ring, max_fill, item, cons>>

fifo_close(p) == /\ prod_pc[p] = "open"
                 /\ readers' = readers - 1
                 /\ cons_pc' = Broadcast(cons_pc, Consumers)
                 /\ prod_pc' = [prod_pc EXCEPT ![p] = "closed"]
                 /\ UNCHANGED <<ring, max_fill, item, got>>

PushCall(p) == /\ prod_pc[p] = "open"
               /\ \E v \in Values : item' = [item EXCEPT ![p] = v]
               /\ prod_pc' = [prod_pc EXCEPT ![p] = "push"]
               /\ UNCHANGED <<ring, readers, max_fill, cons>>

(* fifo_push with the mutex held: wait while full, or store and signal.    *)
PushWait(p) == /\ prod_pc[p] \in {"push", "woken"}
               /\ isfull
               /\ prod_pc' = [prod_pc EXCEPT ![p] = "wait"]
               /\ UNCHANGED <<ring, readers, max_fill, item, cons>>

PushStore(p) == /\ prod_pc[p] \in {"push", "woken"}
                /\ ~isfull
                /\ queue' = [queue EXCEPT ![push_ptr] = item[p]]
                /\ push_ptr' = Mask(push_ptr + 1)
                /\ cons_pc' \in Signalled(cons_pc, Consumers)
                /\ LET fill == num_available(push_ptr', pop_ptr)
                   IN  max_fill' = IF fill > max_fill THEN fill ELSE max_fill
                /\ item' = [item EXCEPT ![p] = None]
                /\ prod_pc' = [prod_pc EXCEPT ![p] = "open"]
                /\ UNCHANGED <<pop_ptr, readers, got>>

Started == \A p \in Producers : prod_pc[p] # "new"

PopCall(c) == /\ Started
              /\ cons_pc[c] = "idle"
              /\ cons_pc' = [cons_pc EXCEPT ![c] = "pop"]
              /\ got' = [got EXCEPT ![c] = None]
              /\ UNCHANGED <<ring, readers, max_fill, prod>>

(* fifo_pop with the mutex held: wait, return NULL, or take and signal.    *)
PopWait(c) == /\ cons_pc[c] \in {"pop", "woken"}
              /\ isempty /\ readers # 0
              /\ cons_pc' = [cons_pc EXCEPT ![c] = "wait"]
              /\ UNCHANGED <<ring, readers, max_fill, prod, got>>

MutantNullOnClose(c) == /\ cons_pc[c] \in {"pop", "woken"}
                        /\ readers = 0
                        /\ got' = [got EXCEPT ![c] = NULL]
                        /\ cons_pc' = [cons_pc EXCEPT ![c] = "ended"]
                        /\ UNCHANGED <<ring, readers, max_fill, prod>>

PopNull(c) == /\ cons_pc[c] \in {"pop", "woken"}
              /\ isempty /\ readers = 0
              /\ got' = [got EXCEPT ![c] = NULL]
              /\ cons_pc' = [cons_pc EXCEPT ![c] = "ended"]
              /\ UNCHANGED <<ring, readers, max_fill, prod>>

MutantTakeQuietly(c) == /\ cons_pc[c] \in {"pop", "woken"}
                        /\ ~isempty
                        /\ got' = [got EXCEPT ![c] = queue[pop_ptr]]
                        /\ pop_ptr' = Mask(pop_ptr + 1)
                        /\ cons_pc' = [cons_pc EXCEPT ![c] = "idle"]
                        /\ UNCHANGED <<queue, push_ptr, readers, max_fill, prod>>

PopTake(c) == /\ cons_pc[c] \in {"pop", "woken"}
              /\ ~isempty
              /\ got' = [got EXCEPT ![c] = queue[pop_ptr]]
              /\ pop_ptr' = Mask(pop_ptr + 1)
              /\ prod_pc' \in Signalled(prod_pc, Producers)
              /\ cons_pc' = [cons_pc EXCEPT ![c] = "idle"]
              /\ UNCHANGED <<queue, push_ptr, readers, max_fill, item>>

(* Condition variables may wake a thread without a signal.                 *)
PushSpurious(p) == /\ prod_pc[p] = "wait"
                   /\ prod_pc' = [prod_pc EXCEPT ![p] = "woken"]
                   /\ UNCHANGED <<ring, readers, max_fill, item, cons>>

PopSpurious(c) == /\ cons_pc[c] = "wait"
                  /\ cons_pc' = [cons_pc EXCEPT ![c] = "woken"]
                  /\ UNCHANGED <<ring, readers, max_fill, prod, got>>

(* Any thread may read and reset the high-water mark.                      *)
fifo_max_fill == /\ max_fill' = 0
                 /\ UNCHANGED <<ring, readers, prod, cons>>

Next == \/ \E p \in Producers : \/ fifo_open(p) \/ fifo_close(p) \/ PushCall(p)
                                \/ PushWait(p) \/ PushStore(p) \/ PushSpurious(p)
        \/ \E c \in Consumers : \/ PopCall(c) \/ PopWait(c) \/ PopNull(c)
                                \/ PopTake(c) \/ PopSpurious(c)
        \/ fifo_max_fill

Spec == Init /\ [][Next]_vars

(* The mutex serves every thread that asks for it: a push or a pop that is *)
(* under way gets to its next wait or to its end.  Each producer opens the *)
(* fifo and does not push forever but closes it in the end; consumers go   *)
(* on popping until they are told to stop.  Spurious wake-ups are free.    *)
Fairness ==
  /\ \A p \in Producers : /\ WF_vars(fifo_open(p))
                          /\ SF_vars(fifo_close(p))
                          /\ WF_vars(PushWait(p) \/ PushStore(p))
  /\ \A c \in Consumers : WF_vars(PopCall(c) \/ PopWait(c) \/ PopNull(c) \/ PopTake(c))

FairSpec == Spec /\ Fairness

-----------------------------------------------------------------------------
avail == num_available(push_ptr, pop_ptr)
space == Entries - 1 - avail

WaitingIn(pc, threads) == {t \in threads : pc[t] = "wait"}
WokenIn(pc, threads)   == {t \in threads : pc[t] = "woken"}

(* The variables have the types of struct fifo, and the indices stay in    *)
(* the ring.                                                               *)
TypeOK == /\ queue \in [Slots -> Values \cup {None}]
          /\ push_ptr \in Slots /\ pop_ptr \in Slots
          /\ readers \in Nat
          /\ max_fill \in Slots
          /\ prod_pc \in [Producers -> {"new", "open", "push", "wait", "woken", "closed"}]
          /\ item \in [Producers -> Values \cup {None}]
          /\ cons_pc \in [Consumers -> {"idle", "pop", "wait", "woken", "ended"}]
          /\ got \in [Consumers -> Values \cup {None, NULL}]

(* fifo_pop signals one producer per entry it frees.  While a producer     *)
(* waits, every free entry has a woken producer on its way to it.          *)
ProducersWoken ==
  WaitingIn(prod_pc, Producers) # {} =>
    space <= Cardinality(WokenIn(prod_pc, Producers))

(* fifo_push signals one consumer per value.  While a consumer waits,      *)
(* every value has a woken consumer on its way to it, and somebody still   *)
(* holds the fifo open: a consumer never waits for a stream that is over.  *)
ConsumersWoken ==
  WaitingIn(cons_pc, Consumers) # {} =>
    /\ avail <= Cardinality(WokenIn(cons_pc, Consumers))
    /\ readers # 0

(* Once one consumer was handed NULL nothing is left and nothing follows.  *)
EndIsFinal ==
  \A c \in Consumers : got[c] = NULL =>
    /\ isempty
    /\ \A p \in Producers : prod_pc[p] = "closed"

(* Every push returns, and every consumer is told the end of the stream.   *)
PushReturns == \A p \in Producers :
  prod_pc[p] \in {"push", "wait", "woken"} ~> prod_pc[p] = "open"

ConsumersEnd == \A c \in Consumers : <>(cons_pc[c] = "ended")

-----------------------------------------------------------------------------
Buffer == [k \in 1 .. avail |-> queue[Mask(pop_ptr + k - 1)]]

Stream == INSTANCE FifoQueue WITH
  Room <- Entries - 1, End <- NULL, buf <- Buffer, open <- readers

(* The ring delivers every value once and in order, to one consumer, never *)
(* holds more than entries - 1, and reports the end only when it is over.  *)
ImplementsFifoQueue == Stream!Spec
=============================================================================
