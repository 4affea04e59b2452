----------------------------- MODULE FifoProofs -----------------------------
(***************************************************************************)
(* Safety of the fifo for every number of producers and consumers and      *)
(* every ring length.  The wake-ups are a matter of counting: each entry   *)
(* that is freed or filled wakes one waiter, and a thread that is awake    *)
(* takes one entry before it waits again.                                  *)
(***************************************************************************)
EXTENDS Fifo, FiniteSetTheorems, SequenceTheorems, TLAPS

Opened == {p \in Producers : prod_pc[p] \in {"open", "push", "wait", "woken"}}

(* readers counts the producers that hold the fifo open; a producer inside *)
(* fifo_push has a value; consumers run only once all producers opened.    *)
Callers ==
  /\ readers = Cardinality(Opened)
  /\ \A p \in Producers :
       prod_pc[p] \in {"push", "wait", "woken"} => item[p] \in Values
  /\ \A c \in Consumers : cons_pc[c] # "idle" => Started
  /\ \A c \in Consumers : got[c] # None => Started

Base == TypeOK /\ Callers

-----------------------------------------------------------------------------
(* Arithmetic of the ring.                                                 *)

(* The number of values in the ring is between 0 and entries - 1, and the  *)
(* tests for full and empty are the tests for the two ends of that range.  *)
LEMMA FillRange ==
  ASSUME NEW i \in Slots, NEW o \in Slots
  PROVE  /\ num_available(i, o) \in Slots
         /\ i = o <=> num_available(i, o) = 0
         /\ Mask(i + 1) = o <=> num_available(i, o) = Entries - 1
         /\ Mask(i + 1) \in Slots
BY EntriesAssumption DEF Slots, Mask, num_available

(* Storing a value adds one to the fill, taking one takes one away.        *)
LEMMA FillSteps ==
  ASSUME NEW i \in Slots, NEW o \in Slots
  PROVE  /\ Mask(i + 1) # o => num_available(Mask(i + 1), o) = num_available(i, o) + 1
         /\ i # o => num_available(i, Mask(o + 1)) = num_available(i, o) - 1
BY EntriesAssumption DEF Slots, Mask, num_available

-----------------------------------------------------------------------------
(* Waking and going to sleep, as counts of threads.                        *)

(* A signal wakes exactly one waiter, and none only if there is none.      *)
LEMMA SignalWakes ==
  ASSUME NEW T, IsFiniteSet(T), NEW P, NEW pc \in [T -> P], "woken" \in P,
         NEW new \in Signalled(pc, T)
  PROVE  /\ new \in [T -> P]
         /\ IsFiniteSet(WokenIn(pc, T)) /\ IsFiniteSet(WokenIn(new, T))
         /\ \/ WaitingIn(pc, T) = {} /\ new = pc
            \/ Cardinality(WokenIn(new, T)) = Cardinality(WokenIn(pc, T)) + 1
         /\ \A t \in T : new[t] = pc[t] \/ (pc[t] = "wait" /\ new[t] = "woken")
<1>1. IsFiniteSet(WokenIn(pc, T)) /\ IsFiniteSet(WokenIn(new, T))
  BY FS_Subset DEF WokenIn
<1>2. CASE \A t \in T : pc[t] # "wait"
  BY <1>1, <1>2 DEF Signalled, WaitingIn
<1>3. CASE \E t \in T : pc[t] = "wait"
  <2>1. PICK t \in T : pc[t] = "wait" /\ new = [pc EXCEPT ![t] = "woken"]
    BY <1>3 DEF Signalled
  <2>2. WokenIn(new, T) = WokenIn(pc, T) \cup {t} /\ t \notin WokenIn(pc, T)
    BY <2>1 DEF WokenIn
  <2>3. Cardinality(WokenIn(new, T)) = Cardinality(WokenIn(pc, T)) + 1
    BY <1>1, <2>2, FS_AddElement
  <2> QED BY <1>1, <2>1, <2>3
<1> QED BY <1>2, <1>3

(* A thread that stops being awake takes at most itself off the count.     *)
LEMMA LeavesOne ==
  ASSUME NEW T, IsFiniteSet(T), NEW P, NEW pc \in [T -> P], NEW t \in T,
         NEW x, x # "woken"
  PROVE  LET new == [pc EXCEPT ![t] = x]
         IN  /\ Cardinality(WokenIn(pc, T)) \in Nat
             /\ Cardinality(WokenIn(new, T)) \in Nat
             /\ Cardinality(WokenIn(new, T)) >= Cardinality(WokenIn(pc, T)) - 1
             /\ pc[t] # "woken" => WokenIn(new, T) = WokenIn(pc, T)
<1> DEFINE new == [pc EXCEPT ![t] = x]
<1>1. IsFiniteSet(WokenIn(pc, T))
  BY FS_Subset DEF WokenIn
<1>2. WokenIn(new, T) = WokenIn(pc, T) \ {t}
  BY DEF WokenIn
<1>3. Cardinality(WokenIn(pc, T)) \in Nat
  BY <1>1, FS_CardinalityType
<1>4. CASE pc[t] = "woken"
  <2>1. /\ IsFiniteSet(WokenIn(pc, T) \ {t})
        /\ Cardinality(WokenIn(pc, T) \ {t}) = Cardinality(WokenIn(pc, T)) - 1
    <3>1. t \in WokenIn(pc, T)
      BY <1>4 DEF WokenIn
    <3> QED BY <1>1, <3>1, FS_RemoveElement
  <2>2. Cardinality(WokenIn(new, T)) \in Nat
    BY <1>2, <2>1, FS_CardinalityType
  <2> HIDE DEF new
  <2>3. Cardinality(WokenIn(new, T)) >= Cardinality(WokenIn(pc, T)) - 1
    BY <1>2, <1>3, <2>1, <2>2
  <2> QED BY <1>3, <1>4, <2>2, <2>3 DEF new
<1>5. CASE pc[t] # "woken"
  <2>1. WokenIn(new, T) = WokenIn(pc, T)
    BY <1>2, <1>5 DEF WokenIn
  <2> QED BY <1>3, <2>1
<1> QED BY <1>4, <1>5

(* A spurious wake-up adds to those who are awake.                         *)
LEMMA WakesOne ==
  ASSUME NEW T, IsFiniteSet(T), NEW P, NEW pc \in [T -> P], NEW t \in T,
         pc[t] = "wait"
  PROVE  LET new == [pc EXCEPT ![t] = "woken"]
         IN  /\ Cardinality(WokenIn(pc, T)) \in Nat
             /\ Cardinality(WokenIn(new, T)) = Cardinality(WokenIn(pc, T)) + 1
             /\ WaitingIn(new, T) \subseteq WaitingIn(pc, T)
<1> DEFINE new == [pc EXCEPT ![t] = "woken"]
<1>1. IsFiniteSet(WokenIn(pc, T))
  BY FS_Subset DEF WokenIn
<1>2. WokenIn(new, T) = WokenIn(pc, T) \cup {t} /\ t \notin WokenIn(pc, T)
  BY DEF WokenIn
<1>3. WaitingIn(new, T) \subseteq WaitingIn(pc, T)
  BY DEF WaitingIn
<1> QED BY <1>1, <1>2, <1>3, FS_AddElement, FS_CardinalityType
-----------------------------------------------------------------------------
(* The inductive invariant.                                                *)

(* Types and callers hold initially.                                       *)
LEMMA InitBase == Init => Base
<1> SUFFICES ASSUME Init PROVE Base
  OBVIOUS
<1>1. Opened = {} /\ readers = 0
  BY DEF Init, Opened
<1>2. 0 \in Slots
  BY EntriesAssumption DEF Slots
<1>3. TypeOK
  BY <1>2 DEF Init, TypeOK
<1>4. Callers
  BY <1>1, FS_EmptySet DEF Init, Callers
<1> QED BY <1>3, <1>4 DEF Base

(* The number of producers that hold the fifo open, when one of them opens *)
(* or closes it.                                                           *)
LEMMA OpenedCount ==
  ASSUME NEW S, IsFiniteSet(S), NEW p
  PROVE  /\ Cardinality(S) \in Nat
         /\ p \notin S => Cardinality(S \cup {p}) = Cardinality(S) + 1
         /\ p \in S => /\ Cardinality(S \ {p}) = Cardinality(S) - 1
                       /\ Cardinality(S \ {p}) \in Nat
BY FS_AddElement, FS_RemoveElement, FS_CardinalityType

(* Types and callers are preserved by every step.                          *)
LEMMA NextBase == Base /\ [Next]_vars => Base'
<1> SUFFICES ASSUME Base, [Next]_vars PROVE Base'
  OBVIOUS
<1> USE DEF Base
<1>0. IsFiniteSet(Opened)
  BY ThreadAssumption, FS_Subset DEF Opened
<1>1. ASSUME NEW p \in Producers, fifo_open(p) PROVE Base'
  <2>1. Opened' = Opened \cup {p} /\ p \notin Opened
    BY <1>1 DEF fifo_open, Opened, TypeOK
  <2>2. readers' = Cardinality(Opened') /\ readers' \in Nat
    <3>1. /\ Cardinality(Opened) \in Nat
          /\ Cardinality(Opened \cup {p}) = Cardinality(Opened) + 1
      BY <1>0, <2>1, OpenedCount
    <3> QED BY <1>1, <2>1, <3>1 DEF fifo_open, Callers
  <2>3. TypeOK'
    BY <1>1, <2>2 DEF fifo_open, TypeOK, ring, cons
  <2>4. Callers'
    BY <1>1, <2>2 DEF fifo_open, Callers, TypeOK, Started, ring, cons
  <2> QED BY <2>3, <2>4
<1>2. ASSUME NEW p \in Producers, fifo_close(p) PROVE Base'
  <2>1. Opened' = Opened \ {p} /\ p \in Opened
    BY <1>2 DEF fifo_close, Opened, TypeOK
  <2>2. readers' = Cardinality(Opened') /\ readers' \in Nat
    BY <1>0, <1>2, <2>1, OpenedCount DEF fifo_close, Callers
  <2>3. TypeOK'
    BY <1>2, <2>2 DEF fifo_close, TypeOK, Broadcast, ring
  <2>4. Callers'
    BY <1>2, <2>2 DEF fifo_close, Callers, TypeOK, Started, Broadcast, ring
  <2> QED BY <2>3, <2>4
<1>3. ASSUME NEW p \in Producers, PushCall(p) PROVE Base'
  <2>1. Opened' = Opened
    BY <1>3 DEF PushCall, Opened, TypeOK
  <2>2. TypeOK'
    BY <1>3 DEF PushCall, TypeOK, ring, cons
  <2>3. Callers'
    BY <1>3, <2>1 DEF PushCall, Callers, TypeOK, Started, ring, cons
  <2> QED BY <2>2, <2>3
<1>4. ASSUME NEW p \in Producers, PushWait(p) PROVE Base'
  <2>1. Opened' = Opened
    BY <1>4 DEF PushWait, Opened, TypeOK
  <2>2. TypeOK'
    BY <1>4 DEF PushWait, TypeOK, ring, cons
  <2>3. Callers'
    BY <1>4, <2>1 DEF PushWait, Callers, TypeOK, Started, ring, cons
  <2> QED BY <2>2, <2>3
<1>5. ASSUME NEW p \in Producers, PushStore(p) PROVE Base'
  <2>1. Opened' = Opened
    BY <1>5 DEF PushStore, Opened, TypeOK
  <2>2. push_ptr' \in Slots /\ num_available(push_ptr', pop_ptr) \in Slots
    BY <1>5, FillRange DEF PushStore, TypeOK
  <2>3. /\ cons_pc' \in [Consumers -> {"idle", "pop", "wait", "woken", "ended"}]
        /\ \A c \in Consumers : cons_pc'[c] = "idle" <=> cons_pc[c] = "idle"
    <3> DEFINE P == {"idle", "pop", "wait", "woken", "ended"}
    <3>1. /\ cons_pc \in [Consumers -> P] /\ "woken" \in P
          /\ cons_pc' \in Signalled(cons_pc, Consumers)
      BY <1>5 DEF PushStore, TypeOK
    <3> HIDE DEF P
    <3>2. /\ cons_pc' \in [Consumers -> P]
          /\ \A c \in Consumers : \/ cons_pc'[c] = cons_pc[c]
                                  \/ cons_pc[c] = "wait" /\ cons_pc'[c] = "woken"
      BY <3>1, ThreadAssumption, SignalWakes
    <3> QED BY <3>2 DEF P
  <2>4. max_fill' \in Slots
    BY <1>5, <2>2 DEF PushStore, TypeOK
  <2>5. queue' \in [Slots -> Values \cup {None}]
    BY <1>5 DEF PushStore, TypeOK
  <2>6. TypeOK'
    BY <1>5, <2>2, <2>3, <2>4, <2>5 DEF PushStore, TypeOK
  <2>7. Callers'
    BY <1>5, <2>1, <2>3 DEF PushStore, Callers, TypeOK, Started
  <2> QED BY <2>6, <2>7
<1>6. ASSUME NEW c \in Consumers, PopCall(c) PROVE Base'
  <2>1. Opened' = Opened
    BY <1>6 DEF PopCall, Opened, prod
  <2> QED BY <1>6, <2>1 DEF PopCall, TypeOK, Callers, Started, ring, prod
<1>7. ASSUME NEW c \in Consumers, PopWait(c) PROVE Base'
  <2>1. Opened' = Opened
    BY <1>7 DEF PopWait, Opened, prod
  <2> QED BY <1>7, <2>1 DEF PopWait, TypeOK, Callers, Started, ring, prod
<1>8. ASSUME NEW c \in Consumers, PopNull(c) PROVE Base'
  <2>1. Opened' = Opened
    BY <1>8 DEF PopNull, Opened, prod
  <2> QED BY <1>8, <2>1 DEF PopNull, TypeOK, Callers, Started, ring, prod
<1>9. ASSUME NEW c \in Consumers, PopTake(c) PROVE Base'
  <2>1. /\ prod_pc' \in [Producers -> {"new", "open", "push", "wait", "woken", "closed"}]
        /\ \A p \in Producers :
             prod_pc'[p] = prod_pc[p] \/ (prod_pc[p] = "wait" /\ prod_pc'[p] = "woken")
    <3> DEFINE P == {"new", "open", "push", "wait", "woken", "closed"}
    <3>1. /\ prod_pc \in [Producers -> P] /\ "woken" \in P
          /\ prod_pc' \in Signalled(prod_pc, Producers)
      BY <1>9 DEF PopTake, TypeOK
    <3> HIDE DEF P
    <3>2. /\ prod_pc' \in [Producers -> P]
          /\ \A p \in Producers : \/ prod_pc'[p] = prod_pc[p]
                                  \/ prod_pc[p] = "wait" /\ prod_pc'[p] = "woken"
      BY <3>1, ThreadAssumption, SignalWakes
    <3> QED BY <3>2 DEF P
  <2>2. Opened' = Opened
    BY <2>1 DEF Opened
  <2>3. pop_ptr' \in Slots
    BY <1>9, FillRange DEF PopTake, TypeOK
  <2>4. got' \in [Consumers -> Values \cup {None, NULL}]
    BY <1>9 DEF PopTake, TypeOK
  <2>5. TypeOK'
    BY <1>9, <2>1, <2>3, <2>4 DEF PopTake, TypeOK
  <2>6. Callers'
    BY <1>9, <2>1, <2>2 DEF PopTake, Callers, TypeOK, Started
  <2> QED BY <2>5, <2>6
<1>10. ASSUME NEW p \in Producers, PushSpurious(p) PROVE Base'
  <2>1. Opened' = Opened
    BY <1>10 DEF PushSpurious, Opened, TypeOK
  <2> QED BY <1>10, <2>1 DEF PushSpurious, TypeOK, Callers, Started, ring, cons
<1>11. ASSUME NEW c \in Consumers, PopSpurious(c) PROVE Base'
  <2>1. Opened' = Opened
    BY <1>11 DEF PopSpurious, Opened, prod
  <2> QED BY <1>11, <2>1 DEF PopSpurious, TypeOK, Callers, Started, ring, prod
<1>12. ASSUME fifo_max_fill PROVE Base'
  <2>1. Opened' = Opened /\ 0 \in Slots
    BY <1>12, EntriesAssumption DEF fifo_max_fill, Opened, prod, Slots
  <2> QED BY <1>12, <2>1 DEF fifo_max_fill, TypeOK, Callers, Started, ring, prod, cons
<1>13. CASE UNCHANGED vars
  <2>1. Opened' = Opened
    BY <1>13 DEF vars, Opened, prod
  <2> QED BY <1>13, <2>1 DEF vars, TypeOK, Callers, Started, ring, prod, cons
<1> QED BY <1>1, <1>2, <1>3, <1>4, <1>5, <1>6, <1>7, <1>8, <1>9, <1>10, <1>11,
           <1>12, <1>13 DEF Next
-----------------------------------------------------------------------------
(* The wake-ups.                                                           *)

(* The fill of the ring before and after a step that moves no index.       *)
LEMMA SpaceFacts ==
  ASSUME TypeOK
  PROVE  /\ avail \in Nat /\ space \in Nat
         /\ isempty <=> avail = 0
         /\ isfull <=> space = 0
<1>1. push_ptr \in Slots /\ pop_ptr \in Slots
  BY DEF TypeOK
<1>2. /\ avail \in Slots
      /\ push_ptr = pop_ptr <=> avail = 0
      /\ Mask(push_ptr + 1) = pop_ptr <=> avail = Entries - 1
  BY <1>1, FillRange DEF avail
<1>3. avail \in Nat /\ space \in Nat /\ (space = 0 <=> avail = Entries - 1)
  BY <1>2, EntriesAssumption DEF space, Slots
<1> QED BY <1>2, <1>3 DEF isempty, isfull

(* Storing takes one entry away, and taking one gives one back.            *)
LEMMA SpaceSteps ==
  ASSUME TypeOK
  PROVE  /\ \A p \in Producers : PushStore(p) => avail' = avail + 1 /\ space' = space - 1
         /\ \A c \in Consumers : PopTake(c) => avail' = avail - 1 /\ space' = space + 1
<1>1. push_ptr \in Slots /\ pop_ptr \in Slots /\ avail \in Int
  BY SpaceFacts DEF TypeOK
<1>2. ASSUME NEW p \in Producers, PushStore(p) PROVE avail' = avail + 1
  BY <1>1, <1>2, FillSteps DEF PushStore, avail, isfull
<1>3. ASSUME NEW c \in Consumers, PopTake(c) PROVE avail' = avail - 1
  BY <1>1, <1>3, FillSteps DEF PopTake, avail, isempty
<1> QED BY <1>1, <1>2, <1>3, EntriesAssumption DEF space

(* Each step keeps enough producers awake for the entries that are free.   *)
LEMMA NextProducers == Base /\ ProducersWoken /\ [Next]_vars => ProducersWoken'
<1> SUFFICES ASSUME Base, ProducersWoken, [Next]_vars,
                    WaitingIn(prod_pc, Producers)' # {}
             PROVE  space' <= Cardinality(WokenIn(prod_pc, Producers))'
  BY DEF ProducersWoken
<1> DEFINE P == {"new", "open", "push", "wait", "woken", "closed"}
<1>0. /\ TypeOK /\ prod_pc \in [Producers -> P] /\ "woken" \in P
      /\ IsFiniteSet(Producers)
  BY ThreadAssumption DEF Base, TypeOK
<1> HIDE DEF P
<1>s. space \in Nat /\ (isfull <=> space = 0)
  BY <1>0, SpaceFacts
<1>n. Cardinality(WokenIn(prod_pc, Producers)) \in Nat
  BY <1>0, FS_Subset, FS_CardinalityType DEF WokenIn
<1>1. ASSUME UNCHANGED <<push_ptr, pop_ptr>>,
             WokenIn(prod_pc, Producers)' = WokenIn(prod_pc, Producers),
             WaitingIn(prod_pc, Producers)' \subseteq WaitingIn(prod_pc, Producers)
      PROVE  space' <= Cardinality(WokenIn(prod_pc, Producers))'
  <2>1. space' = space
    BY <1>1 DEF space, avail
  <2> QED BY <1>1, <2>1 DEF ProducersWoken
<1>2. ASSUME NEW p \in Producers,
             fifo_open(p) \/ fifo_close(p) \/ PushCall(p)
      PROVE  space' <= Cardinality(WokenIn(prod_pc, Producers))'
  <2>1. PICK x \in {"open", "closed", "push"} : prod_pc' = [prod_pc EXCEPT ![p] = x]
    BY <1>2 DEF fifo_open, fifo_close, PushCall
  <2>2. prod_pc[p] \notin {"wait", "woken"}
    BY <1>2 DEF fifo_open, fifo_close, PushCall
  <2>3. /\ WokenIn(prod_pc, Producers)' = WokenIn(prod_pc, Producers)
        /\ WaitingIn(prod_pc, Producers)' \subseteq WaitingIn(prod_pc, Producers)
    BY <1>0, <2>1, <2>2 DEF WokenIn, WaitingIn
  <2>4. UNCHANGED <<push_ptr, pop_ptr>>
    BY <1>2 DEF fifo_open, fifo_close, PushCall, ring
  <2> QED BY <1>1, <2>3, <2>4
<1>3. ASSUME NEW p \in Producers, PushWait(p)
      PROVE  space' <= Cardinality(WokenIn(prod_pc, Producers))'
  <2>1. space' = 0
    BY <1>3, <1>s DEF PushWait, space, avail, ring
  <2>2. Cardinality(WokenIn(prod_pc', Producers)) \in Nat
    BY <1>0, <1>3, LeavesOne DEF PushWait
  <2> QED BY <2>1, <2>2
<1>4. ASSUME NEW p \in Producers, PushStore(p)
      PROVE  space' <= Cardinality(WokenIn(prod_pc, Producers))'
  <2>1. space' = space - 1
    BY <1>0, <1>4, SpaceSteps
  <2>2. prod_pc' = [prod_pc EXCEPT ![p] = "open"]
    BY <1>4 DEF PushStore
  <2>3. /\ Cardinality(WokenIn(prod_pc', Producers)) \in Nat
        /\ Cardinality(WokenIn(prod_pc', Producers)) >=
             Cardinality(WokenIn(prod_pc, Producers)) - 1
    BY <1>0, <2>2, LeavesOne
  <2>4. WaitingIn(prod_pc, Producers)' \subseteq WaitingIn(prod_pc, Producers)
    BY <1>0, <2>2 DEF WaitingIn
  <2>5. space <= Cardinality(WokenIn(prod_pc, Producers))
    BY <2>4 DEF ProducersWoken
  <2> QED BY <1>s, <1>n, <2>1, <2>3, <2>5
<1>5. ASSUME NEW c \in Consumers, PopTake(c)
      PROVE  space' <= Cardinality(WokenIn(prod_pc, Producers))'
  <2>1. space' = space + 1
    BY <1>0, <1>5, SpaceSteps
  <2>2. prod_pc' \in Signalled(prod_pc, Producers)
    BY <1>5 DEF PopTake
  <2>3. \/ WaitingIn(prod_pc, Producers) = {} /\ prod_pc' = prod_pc
        \/ /\ Cardinality(WokenIn(prod_pc', Producers)) =
                Cardinality(WokenIn(prod_pc, Producers)) + 1
           /\ \A t \in Producers : \/ prod_pc'[t] = prod_pc[t]
                                   \/ prod_pc[t] = "wait" /\ prod_pc'[t] = "woken"
    BY <1>0, <2>2, SignalWakes
  <2>4. WaitingIn(prod_pc, Producers) # {}
    BY <2>3 DEF WaitingIn
  <2>5. space <= Cardinality(WokenIn(prod_pc, Producers))
    BY <2>4 DEF ProducersWoken
  <2> QED BY <1>s, <1>n, <2>1, <2>3, <2>4, <2>5
<1>6. ASSUME NEW p \in Producers, PushSpurious(p)
      PROVE  space' <= Cardinality(WokenIn(prod_pc, Producers))'
  <2>1. space' = space
    BY <1>6 DEF PushSpurious, space, avail, ring
  <2>2. /\ Cardinality(WokenIn(prod_pc', Producers)) =
             Cardinality(WokenIn(prod_pc, Producers)) + 1
        /\ p \in WaitingIn(prod_pc, Producers)
    BY <1>0, <1>6, WakesOne DEF PushSpurious, WaitingIn
  <2>3. space <= Cardinality(WokenIn(prod_pc, Producers))
    BY <2>2 DEF ProducersWoken
  <2> QED BY <1>s, <1>n, <2>1, <2>2, <2>3
<1>7. ASSUME UNCHANGED <<push_ptr, pop_ptr, prod_pc>>
      PROVE  space' <= Cardinality(WokenIn(prod_pc, Producers))'
  BY <1>1, <1>7 DEF WokenIn, WaitingIn
<1>8. ASSUME NEW c \in Consumers,
             PopCall(c) \/ PopWait(c) \/ PopNull(c) \/ PopSpurious(c)
      PROVE  UNCHANGED <<push_ptr, pop_ptr, prod_pc>>
  BY <1>8 DEF PopCall, PopWait, PopNull, PopSpurious, ring, prod
<1>9. ASSUME fifo_max_fill \/ UNCHANGED vars
      PROVE  UNCHANGED <<push_ptr, pop_ptr, prod_pc>>
  BY <1>9 DEF fifo_max_fill, vars, ring, prod
<1> QED BY <1>2, <1>3, <1>4, <1>5, <1>6, <1>7, <1>8, <1>9 DEF Next

(* Each step keeps enough consumers awake for the values that are stored,  *)
(* and no consumer waits for a stream that is over.                        *)
LEMMA NextConsumers == Base /\ ConsumersWoken /\ [Next]_vars => ConsumersWoken'
<1> DEFINE Enough == avail <= Cardinality(WokenIn(cons_pc, Consumers)) /\ readers # 0
<1> SUFFICES ASSUME Base, ConsumersWoken, [Next]_vars,
                    WaitingIn(cons_pc, Consumers)' # {}
             PROVE  Enough'
  BY DEF ConsumersWoken
<1> DEFINE P == {"idle", "pop", "wait", "woken", "ended"}
<1>0. /\ TypeOK /\ cons_pc \in [Consumers -> P] /\ "woken" \in P
      /\ IsFiniteSet(Consumers)
  BY ThreadAssumption DEF Base, TypeOK
<1> HIDE DEF P
<1>s. avail \in Nat /\ readers \in Nat /\ (isempty <=> avail = 0)
  BY <1>0, SpaceFacts DEF TypeOK
<1>n. Cardinality(WokenIn(cons_pc, Consumers)) \in Nat
  BY <1>0, FS_Subset, FS_CardinalityType DEF WokenIn
<1>1. ASSUME UNCHANGED <<push_ptr, pop_ptr>>, readers' \in {readers, readers + 1},
             WokenIn(cons_pc, Consumers)' = WokenIn(cons_pc, Consumers),
             WaitingIn(cons_pc, Consumers)' \subseteq WaitingIn(cons_pc, Consumers)
      PROVE  Enough'
  <2>1. avail' = avail
    BY <1>1 DEF avail
  <2>2. avail <= Cardinality(WokenIn(cons_pc, Consumers)) /\ readers # 0
    BY <1>1 DEF ConsumersWoken
  <2> QED BY <1>1, <1>s, <2>1, <2>2
<1>2. ASSUME NEW p \in Producers, fifo_close(p) PROVE Enough'
  <2>1. WaitingIn(cons_pc, Consumers)' = {}
    BY <1>2 DEF fifo_close, Broadcast, WaitingIn
  <2> QED BY <2>1
<1>3. ASSUME NEW p \in Producers, PushStore(p) PROVE Enough'
  <2>1. avail' = avail + 1 /\ readers' = readers
    BY <1>0, <1>3, SpaceSteps DEF PushStore
  <2>2. cons_pc' \in Signalled(cons_pc, Consumers)
    BY <1>3 DEF PushStore
  <2>3. \/ WaitingIn(cons_pc, Consumers) = {} /\ cons_pc' = cons_pc
        \/ /\ Cardinality(WokenIn(cons_pc', Consumers)) =
                Cardinality(WokenIn(cons_pc, Consumers)) + 1
           /\ \A t \in Consumers : \/ cons_pc'[t] = cons_pc[t]
                                   \/ cons_pc[t] = "wait" /\ cons_pc'[t] = "woken"
    BY <1>0, <2>2, SignalWakes
  <2>4. WaitingIn(cons_pc, Consumers) # {}
    BY <2>3 DEF WaitingIn
  <2>5. avail <= Cardinality(WokenIn(cons_pc, Consumers)) /\ readers # 0
    BY <2>4 DEF ConsumersWoken
  <2> QED BY <1>s, <1>n, <2>1, <2>3, <2>4, <2>5
<1>4. ASSUME NEW c \in Consumers, PopWait(c) PROVE Enough'
  <2>1. avail' = 0 /\ readers' # 0
    BY <1>4, <1>s DEF PopWait, avail, ring
  <2>2. Cardinality(WokenIn(cons_pc', Consumers)) \in Nat
    BY <1>0, <1>4, LeavesOne DEF PopWait
  <2> QED BY <2>1, <2>2
<1>5. ASSUME NEW c \in Consumers, PopTake(c) PROVE Enough'
  <2>1. avail' = avail - 1 /\ readers' = readers
    BY <1>0, <1>5, SpaceSteps DEF PopTake
  <2>2. cons_pc' = [cons_pc EXCEPT ![c] = "idle"]
    BY <1>5 DEF PopTake
  <2>3. /\ Cardinality(WokenIn(cons_pc', Consumers)) \in Nat
        /\ Cardinality(WokenIn(cons_pc', Consumers)) >=
             Cardinality(WokenIn(cons_pc, Consumers)) - 1
    BY <1>0, <2>2, LeavesOne
  <2>4. WaitingIn(cons_pc, Consumers)' \subseteq WaitingIn(cons_pc, Consumers)
    BY <1>0, <2>2 DEF WaitingIn
  <2>5. avail <= Cardinality(WokenIn(cons_pc, Consumers)) /\ readers # 0
    BY <2>4 DEF ConsumersWoken
  <2> QED BY <1>s, <1>n, <2>1, <2>3, <2>5
<1>6. ASSUME NEW c \in Consumers, PopNull(c) PROVE Enough'
  <2>1. /\ cons_pc' = [cons_pc EXCEPT ![c] = "ended"]
        /\ readers = 0
    BY <1>6 DEF PopNull
  <2>2. WaitingIn(cons_pc, Consumers)' \subseteq WaitingIn(cons_pc, Consumers)
    BY <1>0, <2>1 DEF WaitingIn
  <2> QED BY <2>1, <2>2 DEF ConsumersWoken
<1>7. ASSUME NEW c \in Consumers, PopSpurious(c) PROVE Enough'
  <2>1. avail' = avail /\ readers' = readers
    BY <1>7 DEF PopSpurious, avail, ring
  <2>2. /\ Cardinality(WokenIn(cons_pc', Consumers)) =
             Cardinality(WokenIn(cons_pc, Consumers)) + 1
        /\ c \in WaitingIn(cons_pc, Consumers)
    BY <1>0, <1>7, WakesOne DEF PopSpurious, WaitingIn
  <2>3. avail <= Cardinality(WokenIn(cons_pc, Consumers)) /\ readers # 0
    BY <2>2 DEF ConsumersWoken
  <2> QED BY <1>s, <1>n, <2>1, <2>2, <2>3
<1>8. ASSUME NEW c \in Consumers, PopCall(c) PROVE Enough'
  <2>1. cons_pc' = [cons_pc EXCEPT ![c] = "pop"] /\ cons_pc[c] = "idle"
    BY <1>8 DEF PopCall
  <2>2. /\ WokenIn(cons_pc, Consumers)' = WokenIn(cons_pc, Consumers)
        /\ WaitingIn(cons_pc, Consumers)' \subseteq WaitingIn(cons_pc, Consumers)
    BY <1>0, <2>1 DEF WokenIn, WaitingIn
  <2>3. UNCHANGED <<push_ptr, pop_ptr>> /\ readers' = readers
    BY <1>8 DEF PopCall, ring
  <2> QED BY <1>1, <2>2, <2>3
<1>9. ASSUME UNCHANGED <<push_ptr, pop_ptr, cons_pc>>, readers' \in {readers, readers + 1}
      PROVE  Enough'
  BY <1>1, <1>9 DEF WokenIn, WaitingIn
<1>10. ASSUME NEW p \in Producers,
              fifo_open(p) \/ PushCall(p) \/ PushWait(p) \/ PushSpurious(p)
       PROVE  UNCHANGED <<push_ptr, pop_ptr, cons_pc>> /\ readers' \in {readers, readers + 1}
  BY <1>10 DEF fifo_open, PushCall, PushWait, PushSpurious, ring, cons
<1>11. ASSUME fifo_max_fill \/ UNCHANGED vars
       PROVE  UNCHANGED <<push_ptr, pop_ptr, cons_pc>> /\ readers' \in {readers, readers + 1}
  BY <1>11 DEF fifo_max_fill, vars, ring, cons
<1> QED BY <1>2, <1>3, <1>4, <1>5, <1>6, <1>7, <1>8, <1>9, <1>10, <1>11 DEF Next

-----------------------------------------------------------------------------
(* The end of the stream.                                                  *)

(* When nobody holds the fifo open and all have started, all have closed.  *)
LEMMA AllClosed ==
  ASSUME Base, readers = 0, Started
  PROVE  \A p \in Producers : prod_pc[p] = "closed"
<1>1. IsFiniteSet(Opened)
  BY ThreadAssumption, FS_Subset DEF Opened
<1>2. Opened = {}
  BY <1>1, FS_EmptySet DEF Base, Callers
<1> QED BY <1>2 DEF Base, TypeOK, Opened, Started

(* Nothing follows the end of the stream.                                  *)
LEMMA NextEnd == Base /\ EndIsFinal /\ [Next]_vars => EndIsFinal'
<1> SUFFICES ASSUME Base, EndIsFinal, [Next]_vars PROVE EndIsFinal'
  OBVIOUS
<1>0. TypeOK
  BY DEF Base
<1>1. ASSUME NEW p \in Producers,
             \/ fifo_open(p) \/ fifo_close(p) \/ PushCall(p)
             \/ PushWait(p) \/ PushStore(p) \/ PushSpurious(p)
      PROVE  EndIsFinal'
  <2>1. prod_pc[p] # "closed"
    BY <1>1 DEF fifo_open, fifo_close, PushCall, PushWait, PushStore, PushSpurious
  <2>2. got' = got
    BY <1>1 DEF fifo_open, fifo_close, PushCall, PushWait, PushStore, PushSpurious, cons
  <2> QED BY <2>1, <2>2 DEF EndIsFinal
<1>2. ASSUME NEW c \in Consumers, PopNull(c) PROVE EndIsFinal'
  <2>1. Started
    BY <1>2 DEF PopNull, Base, Callers
  <2>2. \A p \in Producers : prod_pc[p] = "closed"
    BY <1>2, <2>1, AllClosed DEF PopNull
  <2> QED BY <1>2, <2>2 DEF PopNull, EndIsFinal, isempty, ring, prod
<1>3. ASSUME NEW c \in Consumers, PopTake(c) PROVE EndIsFinal'
  <2>1. \A d \in Consumers : got[d] # NULL
    BY <1>3 DEF PopTake, EndIsFinal
  <2>2. got'[c] # NULL
    BY <1>0, <1>3, ValueAssumption DEF PopTake, TypeOK
  <2> QED BY <1>0, <1>3, <2>1, <2>2 DEF PopTake, EndIsFinal, TypeOK
<1>4. ASSUME NEW c \in Consumers, PopCall(c) PROVE EndIsFinal'
  BY <1>0, <1>4, ValueAssumption DEF PopCall, EndIsFinal, TypeOK, isempty, ring, prod
<1>5. ASSUME NEW c \in Consumers, PopWait(c) \/ PopSpurious(c) PROVE EndIsFinal'
  BY <1>5 DEF PopWait, PopSpurious, EndIsFinal, isempty, ring, prod
<1>6. CASE fifo_max_fill \/ UNCHANGED vars
  BY <1>6 DEF fifo_max_fill, vars, EndIsFinal, isempty, ring, prod, cons
<1> QED BY <1>1, <1>2, <1>3, <1>4, <1>5, <1>6 DEF Next

-----------------------------------------------------------------------------
(* Results.                                                                *)

(* Types, and which callers are where, always.                             *)
LEMMA BaseHolds == Spec => []Base
BY InitBase, NextBase, PTL DEF Spec

(* Both indices stay in the ring and the high-water mark below its length, *)
(* whatever the number of threads.                                         *)
THEOREM TypeCorrect == Spec => []TypeOK
<1>1. Base => TypeOK
  BY DEF Base
<1> QED BY <1>1, BaseHolds, PTL

(* One pthread_cond_signal for each value taken is enough: while a         *)
(* producer waits in fifo_push, every free entry has a producer awake.     *)
THEOREM ProducersAreWoken == Spec => []ProducersWoken
<1>1. Init => ProducersWoken
  BY DEF Init, ProducersWoken, WaitingIn
<1> QED BY <1>1, NextProducers, BaseHolds, PTL DEF Spec

(* One pthread_cond_signal for each value stored, and one broadcast for    *)
(* each close, are enough: a consumer that waits in fifo_pop waits for a   *)
(* value that is not there and for a stream that is not over.              *)
THEOREM ConsumersAreWoken == Spec => []ConsumersWoken
<1>1. Init => ConsumersWoken
  BY DEF Init, ConsumersWoken, WaitingIn
<1> QED BY <1>1, NextConsumers, BaseHolds, PTL DEF Spec

(* NULL is the end of the stream, for every consumer and for good.         *)
THEOREM EndStaysFinal == Spec => []EndIsFinal
<1>1. Init => EndIsFinal
  BY ValueAssumption DEF Init, EndIsFinal
<1> QED BY <1>1, NextEnd, BaseHolds, PTL DEF Spec

-----------------------------------------------------------------------------
(* The ring implements the stream of FifoQueue.                            *)

(* A consumer inside fifo_pop has no answer yet.                           *)
Unanswered ==
  \A c \in Consumers : cons_pc[c] \in {"pop", "wait", "woken"} => got[c] = None

(* No answer is left over while a consumer is inside fifo_pop.             *)
LEMMA UnansweredHolds == Spec => []Unanswered
<1>1. Init => Unanswered
  BY DEF Init, Unanswered
<1>2. Base /\ Unanswered /\ [Next]_vars => Unanswered'
  <2> SUFFICES ASSUME Base, Unanswered, [Next]_vars PROVE Unanswered'
    OBVIOUS
  <2>0. TypeOK
    BY DEF Base
  <2>1. ASSUME NEW c \in Consumers,
               \/ PopCall(c) \/ PopWait(c) \/ PopNull(c) \/ PopTake(c) \/ PopSpurious(c)
        PROVE  Unanswered'
    BY <2>0, <2>1 DEF PopCall, PopWait, PopNull, PopTake, PopSpurious, Unanswered, TypeOK
  <2>2. ASSUME NEW p \in Producers, PushStore(p) PROVE Unanswered'
    <3>1. /\ \A t \in Consumers : \/ cons_pc'[t] = cons_pc[t]
                                  \/ cons_pc[t] = "wait" /\ cons_pc'[t] = "woken"
          /\ got' = got
      <4> DEFINE P == {"idle", "pop", "wait", "woken", "ended"}
      <4>1. /\ cons_pc \in [Consumers -> P] /\ "woken" \in P /\ IsFiniteSet(Consumers)
            /\ cons_pc' \in Signalled(cons_pc, Consumers)
            /\ got' = got
        BY <2>0, <2>2, ThreadAssumption DEF PushStore, TypeOK
      <4> HIDE DEF P
      <4> QED BY <4>1, SignalWakes
    <3> QED BY <3>1 DEF Unanswered
  <2>3. ASSUME NEW p \in Producers, fifo_close(p) PROVE Unanswered'
    BY <2>3 DEF fifo_close, Broadcast, Unanswered
  <2>4. ASSUME NEW p \in Producers,
               fifo_open(p) \/ PushCall(p) \/ PushWait(p) \/ PushSpurious(p)
        PROVE  Unanswered'
    BY <2>4 DEF fifo_open, PushCall, PushWait, PushSpurious, Unanswered, cons
  <2>5. CASE fifo_max_fill \/ UNCHANGED vars
    BY <2>5 DEF fifo_max_fill, vars, Unanswered, cons
  <2> QED BY <2>1, <2>2, <2>3, <2>4, <2>5 DEF Next
<1> QED BY <1>1, <1>2, BaseHolds, PTL DEF Spec

Cells == Values \cup {None}

(* Where the k-th oldest of the values is, and that the free entry a push  *)
(* writes is none of them.                                                 *)
LEMMA RingPlaces ==
  ASSUME NEW i \in Slots, NEW o \in Slots
  PROVE  /\ \A k \in 1 .. num_available(i, o) :
              Mask(o + k - 1) \in Slots /\ Mask(o + k - 1) # i
         /\ Mask(o + num_available(i, o)) = i
         /\ \A k \in Slots : Mask(Mask(o + 1) + k - 1) = Mask(o + (k + 1) - 1)
BY EntriesAssumption DEF Slots, Mask, num_available

(* The abstract buffer is a sequence as long as the fill of the ring.      *)
LEMMA BufferSeq ==
  ASSUME NEW q \in [Slots -> Cells], NEW i \in Slots, NEW o \in Slots
  PROVE  LET n == num_available(i, o)
             b == [k \in 1 .. n |-> q[Mask(o + k - 1)]]
         IN  /\ n \in Nat /\ n < Entries
             /\ b \in Seq(Cells) /\ Len(b) = n
             /\ \A k \in 1 .. n : b[k] = q[Mask(o + k - 1)]
<1> DEFINE n == num_available(i, o)
           b == [k \in 1 .. n |-> q[Mask(o + k - 1)]]
<1>1. n \in Nat /\ n < Entries
  <2>1. n \in Slots
    BY FillRange
  <2> QED BY <2>1, EntriesAssumption DEF Slots
<1>2. \A k \in 1 .. n : q[Mask(o + k - 1)] \in Cells
  BY RingPlaces
<1> HIDE DEF n
<1>3. b \in [1 .. n -> Cells]
  BY <1>2
<1>4. b \in Seq(Cells) /\ Len(b) = n
  BY <1>1, <1>3
<1>5. \A k \in 1 .. n : b[k] = q[Mask(o + k - 1)]
  OBVIOUS
<1> QED BY <1>1, <1>4, <1>5 DEF n

(* The same of the buffer before and after a step.                         *)
LEMMA BufferNow ==
  TypeOK => /\ Buffer \in Seq(Cells) /\ Len(Buffer) = avail
            /\ avail \in Nat /\ avail < Entries
            /\ \A k \in 1 .. avail : Buffer[k] = queue[Mask(pop_ptr + k - 1)]
<1> SUFFICES ASSUME TypeOK
             PROVE  /\ Buffer \in Seq(Cells) /\ Len(Buffer) = avail
                    /\ avail \in Nat /\ avail < Entries
                    /\ \A k \in 1 .. avail : Buffer[k] = queue[Mask(pop_ptr + k - 1)]
  OBVIOUS
<1>1. push_ptr \in Slots /\ pop_ptr \in Slots /\ queue \in [Slots -> Cells]
  BY DEF TypeOK, Cells
<1> QED BY <1>1, BufferSeq DEF Buffer, avail

(* The buffer after a step is a sequence too.                              *)
LEMMA BufferNext ==
  TypeOK' => /\ Buffer' \in Seq(Cells) /\ Len(Buffer') = avail'
             /\ avail' \in Nat /\ avail' < Entries
             /\ \A k \in 1 .. avail' : Buffer'[k] = queue'[Mask(pop_ptr' + k - 1)]
<1> SUFFICES ASSUME TypeOK'
             PROVE  /\ Buffer' \in Seq(Cells) /\ Len(Buffer') = avail'
                    /\ avail' \in Nat /\ avail' < Entries
                    /\ \A k \in 1 .. avail' : Buffer'[k] = queue'[Mask(pop_ptr' + k - 1)]
  OBVIOUS
<1>1. push_ptr' \in Slots /\ pop_ptr' \in Slots /\ queue' \in [Slots -> Cells]
  BY DEF TypeOK, Cells
<1> QED BY <1>1, BufferSeq DEF Buffer, avail

(* Storing appends the value to the buffer.                                *)
LEMMA StoreAppends ==
  ASSUME Base, Base', NEW p \in Producers, PushStore(p)
  PROVE  Buffer' = Append(Buffer, item[p]) /\ item[p] \in Values /\ avail < Entries - 1
<1>1. TypeOK /\ TypeOK' /\ item[p] \in Values
  BY DEF Base, Callers, PushStore
<1>2. avail' = avail + 1 /\ avail \in Nat /\ space' \in Nat
  <2>1. space' = space - 1 /\ space \in Nat /\ avail' = avail + 1 /\ avail \in Nat
    BY <1>1, SpaceFacts, SpaceSteps
  <2>2. space # 0
    BY <1>1, SpaceFacts DEF PushStore
  <2> QED BY <2>1, <2>2
<1>3. avail < Entries - 1
  BY <1>2, EntriesAssumption DEF space
<1>4. Buffer \in Seq(Cells) /\ Len(Buffer) = avail /\ item[p] \in Cells
  BY <1>1, BufferNow DEF Cells
<1>5. Append(Buffer, item[p]) \in Seq(Cells) /\ Len(Append(Buffer, item[p])) = avail + 1
  BY <1>2, <1>4
<1>6. /\ Buffer' \in Seq(Cells) /\ Len(Buffer') = avail + 1
      /\ \A k \in 1 .. avail + 1 : Buffer'[k] = queue'[Mask(pop_ptr' + k - 1)]
  <2>1. /\ Buffer' \in Seq(Cells) /\ Len(Buffer') = avail'
        /\ \A k \in 1 .. avail' : Buffer'[k] = queue'[Mask(pop_ptr' + k - 1)]
    BY <1>1, BufferNext
  <2> QED BY <1>2, <2>1
<1>7. \A k \in 1 .. avail + 1 : Buffer'[k] = Append(Buffer, item[p])[k]
  <2> TAKE k \in 1 .. avail + 1
  <2>0. k \in 1 .. avail \/ k = avail + 1
    BY <1>2
  <2>1. pop_ptr' = pop_ptr /\ queue' = [queue EXCEPT ![push_ptr] = item[p]]
    BY DEF PushStore
  <2>2. push_ptr \in Slots /\ pop_ptr \in Slots /\ queue \in [Slots -> Cells]
    BY <1>1 DEF TypeOK, Cells
  <2>3. CASE k \in 1 .. avail
    <3>1. Mask(pop_ptr + k - 1) \in Slots /\ Mask(pop_ptr + k - 1) # push_ptr
      BY <2>2, <2>3, RingPlaces DEF avail
    <3>2. queue'[Mask(pop_ptr + k - 1)] = queue[Mask(pop_ptr + k - 1)]
      BY <2>1, <2>2, <3>1
    <3>3. Buffer[k] = queue[Mask(pop_ptr + k - 1)]
      BY <1>1, <2>3, BufferNow
    <3> QED BY <1>4, <1>6, <2>1, <2>3, <3>2, <3>3
  <2>4. CASE k = avail + 1
    <3>1. Mask(pop_ptr + k - 1) = push_ptr
      <4>1. Mask(pop_ptr + avail) = push_ptr
        BY <2>2, RingPlaces DEF avail
      <4>2. pop_ptr + k - 1 = pop_ptr + avail
        BY <1>2, <2>2, <2>4 DEF Slots
      <4> QED BY <4>1, <4>2
    <3> QED BY <1>2, <1>4, <1>6, <2>1, <2>2, <2>4, <3>1
  <2> QED BY <2>0, <2>3, <2>4
<1>8. Buffer' = Append(Buffer, item[p])
  BY <1>5, <1>6, <1>7, SeqEqual
<1> QED BY <1>1, <1>3, <1>8

(* Taking removes the head of the buffer, and hands it out.                *)
LEMMA TakeRemoves ==
  ASSUME Base, Base', NEW c \in Consumers, PopTake(c)
  PROVE  Buffer # <<>> /\ Buffer' = Tail(Buffer) /\ got' = [got EXCEPT ![c] = Head(Buffer)]
<1>1. TypeOK /\ TypeOK'
  BY DEF Base
<1>2. avail' = avail - 1 /\ avail' \in Nat /\ avail \in Nat /\ avail < Entries
  <2>1. avail \in Nat /\ avail # 0 /\ avail' = avail - 1
    BY <1>1, SpaceFacts, SpaceSteps DEF PopTake
  <2>2. avail < Entries
    BY <1>1, BufferNow
  <2> QED BY <2>1, <2>2
<1>3. /\ Buffer \in Seq(Cells) /\ Len(Buffer) = avail
      /\ \A k \in 1 .. avail : Buffer[k] = queue[Mask(pop_ptr + k - 1)]
  BY <1>1, BufferNow
<1>4. /\ Buffer' \in Seq(Cells) /\ Len(Buffer') = avail - 1
      /\ \A k \in 1 .. avail - 1 : Buffer'[k] = queue'[Mask(pop_ptr' + k - 1)]
  <2>1. /\ Buffer' \in Seq(Cells) /\ Len(Buffer') = avail'
        /\ \A k \in 1 .. avail' : Buffer'[k] = queue'[Mask(pop_ptr' + k - 1)]
    BY <1>1, BufferNext
  <2> QED BY <1>2, <2>1
<1>5. Buffer # <<>> /\ Tail(Buffer) \in Seq(Cells) /\ Len(Tail(Buffer)) = avail - 1
  BY <1>2, <1>3
<1>6. push_ptr \in Slots /\ pop_ptr \in Slots
  BY <1>1 DEF TypeOK
<1>7. \A k \in 1 .. avail - 1 : Buffer'[k] = Tail(Buffer)[k]
  <2> TAKE k \in 1 .. avail - 1
  <2>0. k \in Slots
    BY <1>2, EntriesAssumption DEF Slots
  <2>1. Mask(Mask(pop_ptr + 1) + k - 1) = Mask(pop_ptr + (k + 1) - 1)
    BY <1>6, <2>0, RingPlaces
  <2>2. Buffer'[k] = queue[Mask(pop_ptr + (k + 1) - 1)]
    BY <1>4, <2>1 DEF PopTake
  <2>3. Tail(Buffer)[k] = Buffer[k + 1]
    BY <1>2, <1>3
  <2> QED BY <1>2, <1>3, <2>2, <2>3
<1>8. Buffer' = Tail(Buffer)
  BY <1>4, <1>5, <1>7, SeqEqual
<1>9. Head(Buffer) = queue[pop_ptr]
  <2>1. Head(Buffer) = queue[Mask(pop_ptr + 1 - 1)]
    BY <1>2, <1>3
  <2>2. Mask(pop_ptr + 1 - 1) = pop_ptr
    BY <1>6, EntriesAssumption DEF Mask, Slots
  <2> QED BY <2>1, <2>2
<1> QED BY <1>5, <1>8, <1>9 DEF PopTake

(* A step that moves no index and writes no entry leaves the buffer alone. *)
LEMMA BufferSame == UNCHANGED ring => Buffer' = Buffer
BY DEF ring, Buffer, avail

(* Each step of the fifo is a step of the stream, or none.                 *)
LEMMA StreamStep ==
  Base /\ Base' /\ Unanswered /\ [Next]_vars => [Stream!Next]_(Stream!vars)
<1> SUFFICES ASSUME Base, Base', Unanswered, [Next]_vars
             PROVE  Stream!Next \/ UNCHANGED <<Buffer, readers, got>>
  BY DEF Stream!vars
<1>0. /\ TypeOK
      /\ Buffer \in Seq(Cells) /\ Len(Buffer) = avail
      /\ isempty <=> Buffer = <<>>
  <2>1. TypeOK /\ Buffer \in Seq(Cells) /\ Len(Buffer) = avail
    BY BufferNow DEF Base
  <2>2. isempty <=> avail = 0
    BY <2>1, SpaceFacts
  <2> QED BY <2>1, <2>2, EmptySeq
<1>1. ASSUME NEW p \in Producers, fifo_open(p) PROVE Stream!Next
  BY <1>1, BufferSame DEF fifo_open, cons, Stream!Next, Stream!Open
<1>2. ASSUME NEW p \in Producers, fifo_close(p) PROVE Stream!Next
  <2>1. readers' = readers - 1 /\ readers' \in Nat /\ readers \in Nat
    BY <1>0, <1>2 DEF fifo_close, Base, TypeOK
  <2>2. readers > 0
    BY <2>1
  <2> QED BY <1>2, <2>1, <2>2, BufferSame DEF fifo_close, Stream!Next, Stream!Close
<1>3. ASSUME NEW p \in Producers, PushStore(p) PROVE Stream!Next
  <2>1. Buffer' = Append(Buffer, item[p]) /\ item[p] \in Values /\ avail < Entries - 1
    BY <1>3, StoreAppends
  <2>2. readers' = readers /\ got' = got
    BY <1>3 DEF PushStore
  <2> QED BY <1>0, <2>1, <2>2 DEF Stream!Next, Stream!Put
<1>4. ASSUME NEW c \in Consumers, PopTake(c) PROVE Stream!Next
  <2>1. Buffer # <<>> /\ Buffer' = Tail(Buffer) /\ got' = [got EXCEPT ![c] = Head(Buffer)]
    BY <1>4, TakeRemoves
  <2>2. got[c] = None /\ readers' = readers
    BY <1>4 DEF PopTake, Unanswered
  <2>3. Stream!Take(c)
    BY <2>1, <2>2 DEF Stream!Take
  <2> QED BY <2>3 DEF Stream!Next
<1>5. ASSUME NEW c \in Consumers, PopNull(c) PROVE Stream!Next
  <2>1. Buffer = <<>> /\ readers = 0 /\ got[c] = None
    BY <1>0, <1>5 DEF PopNull, Unanswered
  <2>2. Buffer' = Buffer /\ readers' = readers /\ got' = [got EXCEPT ![c] = NULL]
    BY <1>5, BufferSame DEF PopNull
  <2>3. Stream!Ended(c)
    BY <2>1, <2>2 DEF Stream!Ended
  <2> QED BY <2>3 DEF Stream!Next
<1>6. ASSUME NEW c \in Consumers, PopCall(c)
      PROVE  Stream!Next \/ UNCHANGED <<Buffer, readers, got>>
  <2>1. Buffer' = Buffer /\ readers' = readers /\ got' = [got EXCEPT ![c] = None]
    BY <1>6, BufferSame DEF PopCall
  <2>2. CASE got[c] = None
    BY <1>0, <2>1, <2>2 DEF TypeOK
  <2>3. CASE got[c] # None
    <3>1. Stream!Ask(c)
      BY <2>1, <2>3 DEF Stream!Ask
    <3> QED BY <3>1 DEF Stream!Next
  <2> QED BY <2>2, <2>3
<1>7. ASSUME NEW p \in Producers, PushCall(p) \/ PushWait(p) \/ PushSpurious(p)
      PROVE  UNCHANGED <<Buffer, readers, got>>
  BY <1>7, BufferSame DEF PushCall, PushWait, PushSpurious, cons
<1>8. ASSUME NEW c \in Consumers, PopWait(c) \/ PopSpurious(c)
      PROVE  UNCHANGED <<Buffer, readers, got>>
  BY <1>8, BufferSame DEF PopWait, PopSpurious
<1>9. ASSUME fifo_max_fill \/ UNCHANGED vars PROVE UNCHANGED <<Buffer, readers, got>>
  BY <1>9, BufferSame DEF fifo_max_fill, vars, cons
<1> QED BY <1>1, <1>2, <1>3, <1>4, <1>5, <1>6, <1>7, <1>8, <1>9 DEF Next

(* For every ring length and every number of threads, fifo.c is a bounded  *)
(* first-in first-out stream: each value is handed out once, in order, and *)
(* NULL only when the stream is over.                                      *)
THEOREM FifoIsAStream == Spec => ImplementsFifoQueue
<1>1. Init => Stream!Init
  <2> SUFFICES ASSUME Init PROVE Stream!Init
    OBVIOUS
  <2>1. Base
    BY InitBase
  <2>2. Buffer \in Seq(Cells) /\ Len(Buffer) = 0
    BY <2>1, BufferNow, SpaceFacts DEF Base, Init, isempty
  <2>3. Buffer = <<>>
    BY <2>2, EmptySeq
  <2> QED BY <2>3 DEF Init, Stream!Init
<1> QED BY <1>1, BaseHolds, UnansweredHolds, StreamStep, PTL
        DEF Spec, ImplementsFifoQueue, Stream!Spec
=============================================================================
