---------------------------- MODULE WqueueProofs ----------------------------
(***************************************************************************)
(* Safety of the work queue for every number of threads, every queue       *)
(* length and every processor.  The inductive invariant is built in        *)
(* layers, each preserved with the help of the ones before it.             *)
(***************************************************************************)
EXTENDS WqueueProps, FiniteSetTheorems, TLAPS

PushHolding == {"test", "sleep", "fill", "publish", "trigger", "advance"}
PopHolding  == {"read", "clear", "advance"}

(* Where the threads can be in each phase of the queue's life.             *)
Phases ==
  /\ phase # "up" => Idle
  /\ phase = "down" => afu_pc = "none"
  /\ phase = "attached" =>
       /\ afu_pc \in {"check", "lock", "test", "sleep", "wait", "woken"}
       /\ \A i \in Slots : wed[i].flags = {}
       /\ ~stop
  /\ phase \in {"up", "stopping"} => afu_len = QueueLen
  /\ afu_pc \in {"store", "publish"} => outcome \in Outcome
  /\ \A p \in Pushers : push_pc[p] # "idle" => qitem[p] \in Items

Base == TypeOK /\ Phases

(* Arithmetic modulo n stays below n.                                      *)
LEMMA ModRange ==
  ASSUME NEW e \in Int, NEW n \in Nat \ {0} PROVE e % n \in 0 .. n - 1
OBVIOUS

(* Division of naturals stays a natural.                                   *)
LEMMA DivType ==
  ASSUME NEW e \in Nat, NEW n \in Nat \ {0} PROVE e \div n \in Nat
OBVIOUS

(* The fields of a queue item have the types of struct wed.                *)
LEMMA LineFields ==
  ASSUME NEW s \in Line
  PROVE  /\ s.flags \in FlagSets /\ s.err \in ErrorCodes /\ s.chunk \in Words
         /\ s.src \in Addr /\ s.dst \in Addr /\ s.src_len \in Nat
         /\ s.opaque \in Addr
BY DEF Line

(* wqueue_push leaves a well-typed line, whatever the item.                *)
LEMMA FilledType ==
  ASSUME NEW s \in Line, NEW q \in Items
  PROVE  Filled(s, q) \in Line /\ PushFlags(q) \in FlagSets
<1>1. /\ q.src \in Addr /\ q.dst \in Addr /\ q.src_len \in Nat
      /\ q.opaque \in Addr /\ q.flags \in SUBSET AllFlags
  BY ItemAssumption
<1>2. ChunkLength(q.src_len) \in Words
  <2> DEFINE chunks == q.src_len \div CacheLine
  <2>1. chunks \in Nat
    BY <1>1, LengthAssumption, DivType
  <2> HIDE DEF chunks
  <2>2. chunks % Word \in 0 .. Word - 1
    BY <2>1, LengthAssumption, ModRange
  <2> QED BY <2>2 DEF ChunkLength, Words, chunks
<1>3. 0 \in ErrorCodes
  <2>1. ErrorWord \in Nat \ {0}
    BY DEF ErrorWord
  <2> QED BY <2>1 DEF ErrorCodes
<1>4. Filled(s, q) \in Line
  BY <1>1, <1>2, <1>3, LineFields DEF Filled, Line
<1>5. PushFlags(q) \in FlagSets
  BY <1>1 DEF PushFlags, FlagSets, AllFlags
<1> QED BY <1>4, <1>5

(* wqueue_pop hands back a well-typed result, whatever the slot holds.     *)
LEMMA PoppedType ==
  ASSUME NEW s \in Line PROVE PoppedItem(s) \in Popped
<1>1. s.chunk * CacheLine \in Int
  BY LineFields, LengthAssumption DEF Words
<1>2. RunLen(s) \in Words
  BY <1>1, LengthAssumption, ModRange DEF RunLen, Words
<1> QED BY <1>2, LineFields DEF PoppedItem, Popped

(* Whatever proc_run does, the AFU's locals have their types.              *)
LEMMA OutcomeType ==
  ASSUME NEW s \in Line PROVE RunOutcomes(s) \subseteq Outcome
<1>1. s.chunk * CacheLine \in Int
  BY LineFields, LengthAssumption DEF Words
<1>2. RunLen(s) \in Nat
  <2>1. RunLen(s) \in 0 .. Word - 1
    BY <1>1, LengthAssumption, ModRange DEF RunLen
  <2> QED BY <2>1, LengthAssumption
<1>3. DefaultResult(s) \in Outcome
  BY <1>2 DEF DefaultResult, Outcome
<1>4. RunResults(s) \subseteq Outcome
  BY <1>3, ProcAssumption DEF RunResults, Outcome
<1>5. ASSUME NEW n \in JunkLens
      PROVE  [err |-> 17, dirty |-> FALSE, dst_len |-> n] \in Outcome
  BY LengthAssumption DEF Outcome
<1> QED BY <1>4, <1>5 DEF RunOutcomes

(* The 16-bit and 32-bit stores of a result keep the line well-typed.      *)
LEMMA WrittenType ==
  ASSUME NEW s \in Line, NEW o \in Outcome
  PROVE  Written(s, o) \in Line /\ DoneFlags(s.flags, o) \in FlagSets
<1>1. o.err \in Int /\ o.dst_len \in Nat
  BY DEF Outcome
<1>2. ChunksWritten(o) \in Words
  <2>1. o.dst_len + CacheLine - 1 \in Nat
    BY <1>1, LengthAssumption
  <2> DEFINE chunks == (o.dst_len + CacheLine - 1) \div CacheLine
  <2>2. chunks \in Nat
    BY <2>1, LengthAssumption, DivType
  <2> HIDE DEF chunks
  <2>3. chunks % Word \in 0 .. Word - 1
    BY <2>2, LengthAssumption, ModRange
  <2> QED BY <2>3 DEF ChunksWritten, Words, chunks
<1>3. o.err % ErrorWord \in ErrorCodes
  <2>1. ErrorWord \in Nat \ {0}
    BY DEF ErrorWord
  <2> QED BY <1>1, <2>1, ModRange DEF ErrorCodes
<1>4. Written(s, o) \in Line
  BY <1>2, <1>3, LineFields DEF Written, Line
<1>5. DoneFlags(s.flags, o) \in FlagSets
  BY LineFields DEF DoneFlags, FlagSets, AllFlags
<1> QED BY <1>4, <1>5

-----------------------------------------------------------------------------
(* Layer 1: types, and the phases of the queue's life.                     *)

(* next_wed stays in the ring.                                             *)
LEMMA SlotsFacts == 0 \in Slots /\ \A x \in Slots : NextWed(x) \in Slots
BY QueueAssumption DEF Slots, NextWed

(* memset leaves well-typed lines without flags.                           *)
LEMMA BlankType == BlankSlot \in Line /\ BlankSlot.flags = {}
<1>1. 0 \in ErrorCodes /\ 0 \in Words
  BY LengthAssumption DEF ErrorCodes, ErrorWord, Words
<1> QED BY <1>1, ItemAssumption DEF BlankSlot, Line, FlagSets

(* Changing the flags of one slot keeps the ring well-typed.               *)
LEMMA FlagsUpdate ==
  ASSUME NEW w \in [Slots -> Line], NEW i \in Slots, NEW f \in FlagSets
  PROVE  [w EXCEPT ![i].flags = f] \in [Slots -> Line]
<1>1. [w[i] EXCEPT !.flags = f] \in Line
  BY DEF Line
<1> QED BY <1>1

(* Layer 1 holds initially.                                                *)
LEMMA InitBase == Init => Base
<1> SUFFICES ASSUME Init PROVE Base
  OBVIOUS
<1>2. TypeOK
  <2>1. /\ wed \in [Slots -> Line]
        /\ wed_push \in Slots /\ wed_pop \in Slots /\ afu_idx \in Slots
    BY BlankType, SlotsFacts DEF Init
  <2>2. tries \in [Poppers -> 0 .. PopTries - 1]
    BY LengthAssumption DEF Init
  <2>3. /\ push_pc \in [Pushers -> PushPcs] /\ pop_pc \in [Poppers -> PopPcs]
        /\ qitem \in [Pushers -> Items \cup {None}]
        /\ result \in [Poppers -> Popped \cup {None}]
    BY DEF Init, PushPcs, PopPcs
  <2>4. /\ phase = "down" /\ push_mutex = None /\ pop_mutex = None
        /\ afu_pc \in AfuPcs /\ afu_locked = FALSE /\ stop = FALSE
        /\ outcome = None /\ afu_len \in 0 .. QueueLen
    BY QueueAssumption DEF Init, AfuPcs
  <2> QED BY <2>1, <2>2, <2>3, <2>4 DEF TypeOK
<1>3. Phases
  BY DEF Init, Phases, Idle
<1> QED BY <1>2, <1>3 DEF Base

(* Layer 1 is preserved by every step.                                     *)
LEMMA NextBase == Base /\ [Next]_vars => Base'
<1> SUFFICES ASSUME Base, [Next]_vars PROVE Base'
  OBVIOUS
<1> USE DEF Base, TypeOK, Phases, Idle, queue, push, pop, afu, regs, sums,
            PushPcs, PopPcs, AfuPcs
<1>1. CASE Attach
  BY <1>1, SlotsFacts, BlankType, QueueAssumption DEF Attach
<1>2. CASE InitDone
  BY <1>2, SlotsFacts, QueueAssumption DEF InitDone, LenRegister
<1>3. CASE ForceStop
  BY <1>3, SlotsFacts, QueueAssumption DEF ForceStop
<1>4. CASE AfuFree
  BY <1>4, SlotsFacts, QueueAssumption DEF AfuFree
<1>5. ASSUME NEW p \in Pushers, PushCall(p) PROVE Base'
  BY <1>5, SlotsFacts DEF PushCall, GoPush
<1>6. ASSUME NEW p \in Pushers, PushLock(p) PROVE Base'
  BY <1>6, SlotsFacts DEF PushLock, GoPush
<1>7. ASSUME NEW p \in Pushers, PushTest(p) PROVE Base'
  BY <1>7, SlotsFacts DEF PushTest, GoPush
<1>8. ASSUME NEW p \in Pushers, PushSleep(p) PROVE Base'
  BY <1>8, SlotsFacts DEF PushSleep, GoPush
<1>9. ASSUME NEW p \in Pushers, PushSpurious(p) PROVE Base'
  BY <1>9, SlotsFacts DEF PushSpurious, GoPush
<1>10. ASSUME NEW p \in Pushers, PushFill(p) PROVE Base'
  <2>1. wed' \in [Slots -> Line]
    BY <1>10, FilledType DEF PushFill
  <2> QED BY <1>10, <2>1 DEF PushFill, GoPush
<1>11. ASSUME NEW p \in Pushers, PushPublish(p) PROVE Base'
  <2>1. wed' \in [Slots -> Line]
    BY <1>11, FilledType, FlagsUpdate DEF PushPublish
  <2> QED BY <1>11, <2>1 DEF PushPublish, GoPush
<1>12. ASSUME NEW p \in Pushers, PushTrigger(p) PROVE Base'
  BY <1>12, SlotsFacts DEF PushTrigger, GoPush
<1>13. ASSUME NEW p \in Pushers, PushAdvance(p) PROVE Base'
  BY <1>13, SlotsFacts DEF PushAdvance, GoPush
<1>14. ASSUME NEW c \in Poppers, PopCall(c) PROVE Base'
  BY <1>14, SlotsFacts, LengthAssumption DEF PopCall, GoPop
<1>15. ASSUME NEW c \in Poppers, PopTake(c) PROVE Base'
  BY <1>15, SlotsFacts, LengthAssumption DEF PopTake, GoPop
<1>16. ASSUME NEW c \in Poppers, PopMiss(c) PROVE Base'
  BY <1>16, SlotsFacts, LengthAssumption DEF PopMiss, GoPop
<1>17. ASSUME NEW c \in Poppers, PopRead(c) PROVE Base'
  BY <1>17, PoppedType, LengthAssumption DEF PopRead, GoPop
<1>18. ASSUME NEW c \in Poppers, PopClear(c) PROVE Base'
  <2>1. wed' \in [Slots -> Line]
    BY <1>18, FlagsUpdate DEF PopClear, FlagSets
  <2> QED BY <1>18, <2>1 DEF PopClear, GoPop
<1>19. ASSUME NEW c \in Poppers, PopAdvance(c) PROVE Base'
  BY <1>19, SlotsFacts, LengthAssumption DEF PopAdvance, GoPop
<1>20. ASSUME NEW c \in Poppers, PopSignal(c) PROVE Base'
  BY <1>20 DEF PopSignal, GoPop, WakePusher, GoPush
<1>21. CASE AfuCheck
  BY <1>21, SlotsFacts DEF AfuCheck
<1>22. CASE AfuLock
  BY <1>22, SlotsFacts DEF AfuLock
<1>23. CASE AfuTest
  BY <1>23 DEF AfuTest, Runnable
<1>24. CASE AfuSleep
  BY <1>24, SlotsFacts DEF AfuSleep
<1>25. CASE AfuSpurious
  BY <1>25, SlotsFacts DEF AfuSpurious
<1>26. CASE AfuRun
  <2>1. outcome' \in Outcome
    BY <1>26, OutcomeType DEF AfuRun
  <2> QED BY <1>26, <2>1 DEF AfuRun
<1>27. CASE AfuStore
  <2>1. wed' \in [Slots -> Line]
    BY <1>27, WrittenType DEF AfuStore
  <2> QED BY <1>27, <2>1 DEF AfuStore
<1>28. CASE AfuPublish
  <2>1. wed' \in [Slots -> Line]
    BY <1>28, WrittenType, FlagsUpdate DEF AfuPublish
  <2> QED BY <1>28, <2>1 DEF AfuPublish
<1>29. CASE AfuNext
  <2>1. afu_len = QueueLen
    BY <1>29 DEF AfuNext
  <2>2. afu_idx' \in Slots
    BY <1>29, <2>1, QueueAssumption DEF AfuNext, Slots
  <2> QED BY <1>29, <2>2 DEF AfuNext
<1>30. CASE UNCHANGED vars
  BY <1>30 DEF vars
<1> QED BY <1>1, <1>2, <1>3, <1>4, <1>5, <1>6, <1>7, <1>8, <1>9, <1>10, <1>11, <1>12, <1>13, <1>14, <1>15, <1>16, <1>17, <1>18, <1>19, <1>20, <1>21, <1>22, <1>23, <1>24, <1>25, <1>26, <1>27, <1>28, <1>29, <1>30
     DEF Next, PushStep, PopStep, AfuStep

-----------------------------------------------------------------------------
(* Layer 2: the mutexes.                                                   *)

(* A thread holds its mutex exactly at the places where the code does.     *)
Locks ==
  /\ \A p \in Pushers : push_pc[p] \in PushHolding <=> push_mutex = p
  /\ \A c \in Poppers : pop_pc[c] \in PopHolding <=> pop_mutex = c
  /\ afu_locked <=> afu_pc \in {"test", "sleep"}

(* Layer 2 holds initially.                                                *)
LEMMA InitLocks == Init => Locks
BY ThreadAssumption DEF Init, Locks, PushHolding, PopHolding

(* Layer 2 is preserved by every step.                                     *)
LEMMA NextLocks == Base /\ Locks /\ [Next]_vars => Locks'
<1> SUFFICES ASSUME Base, Locks, [Next]_vars PROVE Locks'
  OBVIOUS
<1> USE DEF Base, TypeOK, Phases, Idle, Locks, PushHolding, PopHolding,
            PushPcs, PopPcs, queue, push, pop, afu, regs, sums
<1>1. CASE Attach
  BY <1>1 DEF Attach
<1>2. CASE InitDone
  BY <1>2 DEF InitDone
<1>3. CASE ForceStop
  BY <1>3 DEF ForceStop
<1>4. CASE AfuFree
  BY <1>4 DEF AfuFree
<1>5. ASSUME NEW p \in Pushers, PushCall(p) PROVE Locks'
  BY <1>5 DEF PushCall, GoPush
<1>6. ASSUME NEW p \in Pushers, PushLock(p) PROVE Locks'
  BY <1>6, ThreadAssumption DEF PushLock, GoPush
<1>7. ASSUME NEW p \in Pushers, PushTest(p) PROVE Locks'
  BY <1>7 DEF PushTest, GoPush
<1>8. ASSUME NEW p \in Pushers, PushSleep(p) PROVE Locks'
  BY <1>8, ThreadAssumption DEF PushSleep, GoPush
<1>9. ASSUME NEW p \in Pushers, PushSpurious(p) PROVE Locks'
  BY <1>9 DEF PushSpurious, GoPush
<1>10. ASSUME NEW p \in Pushers, PushFill(p) PROVE Locks'
  BY <1>10 DEF PushFill, GoPush
<1>11. ASSUME NEW p \in Pushers, PushPublish(p) PROVE Locks'
  BY <1>11 DEF PushPublish, GoPush
<1>12. ASSUME NEW p \in Pushers, PushTrigger(p) PROVE Locks'
  BY <1>12 DEF PushTrigger, GoPush, TriggerGuard
<1>13. ASSUME NEW p \in Pushers, PushAdvance(p) PROVE Locks'
  BY <1>13, ThreadAssumption DEF PushAdvance, GoPush
<1>14. ASSUME NEW c \in Poppers, PopCall(c) PROVE Locks'
  BY <1>14 DEF PopCall, GoPop
<1>15. ASSUME NEW c \in Poppers, PopTake(c) PROVE Locks'
  BY <1>15, ThreadAssumption DEF PopTake, GoPop
<1>16. ASSUME NEW c \in Poppers, PopMiss(c) PROVE Locks'
  BY <1>16 DEF PopMiss, GoPop
<1>17. ASSUME NEW c \in Poppers, PopRead(c) PROVE Locks'
  BY <1>17 DEF PopRead, GoPop
<1>18. ASSUME NEW c \in Poppers, PopClear(c) PROVE Locks'
  BY <1>18 DEF PopClear, GoPop
<1>19. ASSUME NEW c \in Poppers, PopAdvance(c) PROVE Locks'
  BY <1>19, ThreadAssumption DEF PopAdvance, GoPop
<1>20. ASSUME NEW c \in Poppers, PopSignal(c) PROVE Locks'
  BY <1>20 DEF PopSignal, GoPop, WakePusher, GoPush, SignalGuard
<1>21. CASE AfuCheck
  BY <1>21 DEF AfuCheck
<1>22. CASE AfuLock
  BY <1>22 DEF AfuLock
<1>23. CASE AfuTest
  BY <1>23 DEF AfuTest
<1>24. CASE AfuSleep
  BY <1>24 DEF AfuSleep
<1>25. CASE AfuSpurious
  BY <1>25 DEF AfuSpurious
<1>26. CASE AfuRun
  BY <1>26 DEF AfuRun
<1>27. CASE AfuStore
  BY <1>27 DEF AfuStore
<1>28. CASE AfuPublish
  BY <1>28 DEF AfuPublish
<1>29. CASE AfuNext
  BY <1>29 DEF AfuNext
<1>30. CASE UNCHANGED vars
  BY <1>30 DEF vars
<1> QED BY <1>1, <1>2, <1>3, <1>4, <1>5, <1>6, <1>7, <1>8, <1>9, <1>10, <1>11, <1>12, <1>13, <1>14, <1>15,
            <1>16, <1>17, <1>18, <1>19, <1>20, <1>21, <1>22, <1>23, <1>24, <1>25, <1>26, <1>27, <1>28, <1>29, <1>30
     DEF Next, PushStep, PopStep, AfuStep

-----------------------------------------------------------------------------
(* Layer 3: who may touch a slot.                                          *)

Ownership ==
  /\ \A p \in Pushers : push_pc[p] \in {"fill", "publish"} =>
       wed[wed_push].flags = {}
  /\ \A c \in Poppers : pop_pc[c] \in {"read", "clear"} =>
       "DONE" \in wed[wed_pop].flags
  /\ \A c \in Poppers : pop_pc[c] = "clear" => result[c] = PoppedItem(wed[wed_pop])
  /\ afu_pc \in {"run", "store", "publish"} => Runnable(wed[afu_idx])

(* Layer 3 holds initially.                                                *)
LEMMA InitOwnership == Init => Ownership
BY DEF Init, Ownership

(* Layer 3 is preserved by every step.                                     *)
LEMMA NextOwnership == Base /\ Locks /\ Ownership /\ [Next]_vars => Ownership'
<1> SUFFICES ASSUME Base, Locks, Ownership, [Next]_vars PROVE Ownership'
  OBVIOUS
<1> USE DEF Base, TypeOK, Phases, Idle, Locks, PushHolding, PopHolding, Ownership,
            Runnable, queue, push, pop, afu, regs, sums
<1>1. CASE Attach
  BY <1>1 DEF Attach
<1>2. CASE InitDone
  BY <1>2 DEF InitDone
<1>3. CASE ForceStop
  BY <1>3 DEF ForceStop
<1>4. CASE AfuFree
  BY <1>4 DEF AfuFree
<1>5. ASSUME NEW p \in Pushers, PushCall(p) PROVE Ownership'
  BY <1>5 DEF PushCall, GoPush
<1>6. ASSUME NEW p \in Pushers, PushLock(p) PROVE Ownership'
  BY <1>6 DEF PushLock, GoPush
<1>7. ASSUME NEW p \in Pushers, PushTest(p) PROVE Ownership'
  BY <1>7 DEF PushTest, GoPush, SlotBusy
<1>8. ASSUME NEW p \in Pushers, PushSleep(p) PROVE Ownership'
  BY <1>8 DEF PushSleep, GoPush
<1>9. ASSUME NEW p \in Pushers, PushSpurious(p) PROVE Ownership'
  BY <1>9 DEF PushSpurious, GoPush
<1>10. ASSUME NEW p \in Pushers, PushFill(p) PROVE Ownership'
  BY <1>10 DEF PushFill, GoPush, Filled
<1>11. ASSUME NEW p \in Pushers, PushPublish(p) PROVE Ownership'
  BY <1>11 DEF PushPublish, GoPush
<1>12. ASSUME NEW p \in Pushers, PushTrigger(p) PROVE Ownership'
  BY <1>12 DEF PushTrigger, GoPush, TriggerGuard
<1>13. ASSUME NEW p \in Pushers, PushAdvance(p) PROVE Ownership'
  BY <1>13 DEF PushAdvance, GoPush
<1>14. ASSUME NEW c \in Poppers, PopCall(c) PROVE Ownership'
  BY <1>14 DEF PopCall, GoPop
<1>15. ASSUME NEW c \in Poppers, PopTake(c) PROVE Ownership'
  BY <1>15 DEF PopTake, GoPop
<1>16. ASSUME NEW c \in Poppers, PopMiss(c) PROVE Ownership'
  BY <1>16 DEF PopMiss, GoPop
<1>17. ASSUME NEW c \in Poppers, PopRead(c) PROVE Ownership'
  BY <1>17 DEF PopRead, GoPop
<1>18. ASSUME NEW c \in Poppers, PopClear(c) PROVE Ownership'
  BY <1>18 DEF PopClear, GoPop
<1>19. ASSUME NEW c \in Poppers, PopAdvance(c) PROVE Ownership'
  BY <1>19 DEF PopAdvance, GoPop
<1>20. ASSUME NEW c \in Poppers, PopSignal(c) PROVE Ownership'
  BY <1>20 DEF PopSignal, GoPop, WakePusher, GoPush, SignalGuard
<1>21. CASE AfuCheck
  BY <1>21 DEF AfuCheck
<1>22. CASE AfuLock
  BY <1>22 DEF AfuLock
<1>23. CASE AfuTest
  BY <1>23 DEF AfuTest
<1>24. CASE AfuSleep
  BY <1>24 DEF AfuSleep
<1>25. CASE AfuSpurious
  BY <1>25 DEF AfuSpurious
<1>26. CASE AfuRun
  BY <1>26 DEF AfuRun
<1>27. CASE AfuStore
  BY <1>27 DEF AfuStore, Written
<1>28. CASE AfuPublish
  BY <1>28 DEF AfuPublish, DoneFlags
<1>29. CASE AfuNext
  BY <1>29 DEF AfuNext
<1>30. CASE UNCHANGED vars
  BY <1>30 DEF vars
<1> QED BY <1>1, <1>2, <1>3, <1>4, <1>5, <1>6, <1>7, <1>8, <1>9, <1>10, <1>11, <1>12, <1>13, <1>14, <1>15,
            <1>16, <1>17, <1>18, <1>19, <1>20, <1>21, <1>22, <1>23, <1>24, <1>25, <1>26, <1>27, <1>28, <1>29, <1>30
     DEF Next, PushStep, PopStep, AfuStep

-----------------------------------------------------------------------------
(* Layer 4: the wake-ups of the AFU.                                       *)

(* NoLostTrigger and StopIsHeard, with stop also excluding the test that   *)
(* precedes a wait: stop is only set while the AFU does not hold its mutex.*)
AfuWakes ==
  /\ NoLostTrigger
  /\ stop => afu_pc \notin {"test", "sleep", "wait"}

(* Layer 4 holds initially.                                                *)
LEMMA InitAfuWakes == Init => AfuWakes
BY DEF Init, AfuWakes, NoLostTrigger

(* Layer 4 is preserved by every step.                                     *)
LEMMA NextAfuWakes == Base /\ Locks /\ Ownership /\ AfuWakes /\ [Next]_vars => AfuWakes'
<1> SUFFICES ASSUME Base, Locks, Ownership, AfuWakes, [Next]_vars PROVE AfuWakes'
  OBVIOUS
<1> USE DEF Base, TypeOK, Phases, Idle, Locks, PushHolding, PopHolding, Ownership,
            AfuWakes, NoLostTrigger, Runnable, queue, push, pop, afu, regs, sums
<1>1. CASE Attach
  BY <1>1 DEF Attach
<1>2. CASE InitDone
  BY <1>2 DEF InitDone
<1>3. CASE ForceStop
  BY <1>3 DEF ForceStop
<1>4. CASE AfuFree
  BY <1>4 DEF AfuFree
<1>5. ASSUME NEW p \in Pushers, PushCall(p) PROVE AfuWakes'
  BY <1>5 DEF PushCall, GoPush
<1>6. ASSUME NEW p \in Pushers, PushLock(p) PROVE AfuWakes'
  BY <1>6 DEF PushLock, GoPush
<1>7. ASSUME NEW p \in Pushers, PushTest(p) PROVE AfuWakes'
  BY <1>7 DEF PushTest, GoPush, SlotBusy
<1>8. ASSUME NEW p \in Pushers, PushSleep(p) PROVE AfuWakes'
  BY <1>8 DEF PushSleep, GoPush
<1>9. ASSUME NEW p \in Pushers, PushSpurious(p) PROVE AfuWakes'
  BY <1>9 DEF PushSpurious, GoPush
<1>10. ASSUME NEW p \in Pushers, PushFill(p) PROVE AfuWakes'
  BY <1>10 DEF PushFill, GoPush, Filled
<1>11. ASSUME NEW p \in Pushers, PushPublish(p) PROVE AfuWakes'
  BY <1>11 DEF PushPublish, GoPush
<1>12. ASSUME NEW p \in Pushers, PushTrigger(p) PROVE AfuWakes'
  BY <1>12 DEF PushTrigger, GoPush, TriggerGuard
<1>13. ASSUME NEW p \in Pushers, PushAdvance(p) PROVE AfuWakes'
  BY <1>13 DEF PushAdvance, GoPush
<1>14. ASSUME NEW c \in Poppers, PopCall(c) PROVE AfuWakes'
  BY <1>14 DEF PopCall, GoPop
<1>15. ASSUME NEW c \in Poppers, PopTake(c) PROVE AfuWakes'
  BY <1>15 DEF PopTake, GoPop
<1>16. ASSUME NEW c \in Poppers, PopMiss(c) PROVE AfuWakes'
  BY <1>16 DEF PopMiss, GoPop
<1>17. ASSUME NEW c \in Poppers, PopRead(c) PROVE AfuWakes'
  BY <1>17 DEF PopRead, GoPop
<1>18. ASSUME NEW c \in Poppers, PopClear(c) PROVE AfuWakes'
  BY <1>18 DEF PopClear, GoPop
<1>19. ASSUME NEW c \in Poppers, PopAdvance(c) PROVE AfuWakes'
  BY <1>19 DEF PopAdvance, GoPop
<1>20. ASSUME NEW c \in Poppers, PopSignal(c) PROVE AfuWakes'
  BY <1>20 DEF PopSignal, GoPop, WakePusher, GoPush, SignalGuard
<1>21. CASE AfuCheck
  BY <1>21 DEF AfuCheck
<1>22. CASE AfuLock
  BY <1>22 DEF AfuLock
<1>23. CASE AfuTest
  BY <1>23 DEF AfuTest
<1>24. CASE AfuSleep
  BY <1>24 DEF AfuSleep
<1>25. CASE AfuSpurious
  BY <1>25 DEF AfuSpurious
<1>26. CASE AfuRun
  BY <1>26 DEF AfuRun
<1>27. CASE AfuStore
  BY <1>27 DEF AfuStore, Written
<1>28. CASE AfuPublish
  BY <1>28 DEF AfuPublish, DoneFlags
<1>29. CASE AfuNext
  BY <1>29 DEF AfuNext
<1>30. CASE UNCHANGED vars
  BY <1>30 DEF vars
<1> QED BY <1>1, <1>2, <1>3, <1>4, <1>5, <1>6, <1>7, <1>8, <1>9, <1>10, <1>11, <1>12, <1>13, <1>14, <1>15,
            <1>16, <1>17, <1>18, <1>19, <1>20, <1>21, <1>22, <1>23, <1>24, <1>25, <1>26, <1>27, <1>28, <1>29, <1>30
     DEF Next, PushStep, PopStep, AfuStep

-----------------------------------------------------------------------------
(* The inductive invariant and what follows from it.                       *)

IInv == Base /\ Locks /\ Ownership /\ AfuWakes

(* The four layers together are an inductive invariant.                    *)
LEMMA Inductive == Spec => []IInv
<1>1. Init => IInv
  BY InitBase, InitLocks, InitOwnership, InitAfuWakes DEF IInv
<1>2. IInv /\ [Next]_vars => IInv'
  BY NextBase, NextLocks, NextOwnership, NextAfuWakes DEF IInv
<1> QED BY <1>1, <1>2, PTL DEF Spec

(* No ring index ever leaves the ring, though the AFU wraps at a register  *)
(* that wqueue_init writes only after the AFU thread is running, and every *)
(* field keeps the range of its C type.                                    *)
THEOREM TypeCorrect == Spec => []TypeOK
<1>1. IInv => TypeOK
  BY DEF IInv, Base
<1> QED BY <1>1, Inductive, PTL

(* A set whose members are all equal has at most one element.              *)
LEMMA AtMostOne ==
  ASSUME NEW S, NEW x, \A y \in S : y = x
  PROVE  Cardinality(S) <= 1
<1>1. CASE S = {}
  BY <1>1, FS_EmptySet
<1>2. CASE S # {}
  <2>1. S = {x}
    BY <1>2
  <2> QED BY <2>1, FS_Singleton
<1> QED BY <1>1, <1>2

(* The flags of a slot are a lock: no two threads ever work on one slot,   *)
(* whatever the number of pushers and poppers.                             *)
THEOREM SlotsAreOwned == Spec => []SlotOwnership
<1>1. IInv => SlotOwnership
  <2> SUFFICES ASSUME IInv PROVE SlotOwnership
    OBVIOUS
  <2> USE DEF IInv
  <2>1. \A p \in Owner.filling : p = push_mutex
    BY DEF Owner, Locks, PushHolding
  <2>2. \A c \in Owner.retiring : c = pop_mutex
    BY DEF Owner, Locks, PopHolding
  <2>3. Cardinality(Owner.filling) <= 1 /\ Cardinality(Owner.retiring) <= 1
    BY <2>1, <2>2, AtMostOne
  <2>4. Owner.filling # {} => wed[wed_push].flags = {}
    BY DEF Owner, Ownership
  <2>5. Owner.retiring # {} => "DONE" \in wed[wed_pop].flags
    BY DEF Owner, Ownership
  <2> QED BY <2>3, <2>4, <2>5 DEF SlotOwnership, Ownership
<1> QED BY <1>1, Inductive, PTL

(* No trigger is lost between the AFU's test of the flags and its wait.    *)
THEOREM TriggersAreHeard == Spec => []NoLostTrigger
<1>1. IInv => NoLostTrigger
  BY DEF IInv, AfuWakes
<1> QED BY <1>1, Inductive, PTL

(* After force_stop the AFU thread is never asleep, so the join in         *)
(* wqueue_cleanup is not on a thread that nobody will wake.                *)
THEOREM StopIsNotMissed == Spec => []StopIsHeard
<1>1. IInv => StopIsHeard
  BY DEF IInv, AfuWakes, StopIsHeard
<1> QED BY <1>1, Inductive, PTL

(* From the inductive invariant, every step respects the owners.           *)
LEMMA OwnersStep == IInv /\ Next => OwnerChangesSlot
<1> SUFFICES ASSUME IInv, Next, phase' # "attached", NEW i \in Slots
             PROVE  /\ Runnable(wed[i]) /\ wed'[i] # wed[i] =>
                          i = afu_idx /\ afu_pc \in {"store", "publish"}
                    /\ "DONE" \in wed[i].flags /\ wed'[i] # wed[i] =>
                          \E c \in Poppers : /\ i = wed_pop
                                             /\ result[c] = PoppedItem(wed[i])
                                             /\ wed'[i].flags = {}
  BY DEF OwnerChangesSlot
<1> USE DEF IInv, Base, TypeOK, Ownership, Runnable, Line
<1>1. CASE wed' = wed
  BY <1>1
<1>2. ASSUME NEW p \in Pushers, PushFill(p) \/ PushPublish(p)
      PROVE  wed'[i] # wed[i] => wed[i].flags = {}
  BY <1>2 DEF PushFill, PushPublish
<1>3. ASSUME NEW c \in Poppers, PopClear(c)
      PROVE  wed'[i] # wed[i] => /\ i = wed_pop
                                 /\ "DONE" \in wed[i].flags
                                 /\ result[c] = PoppedItem(wed[i])
                                 /\ wed'[i].flags = {}
  BY <1>3 DEF PopClear
<1>4. CASE AfuStore \/ AfuPublish
  <2>1. wed'[i] # wed[i] => i = afu_idx /\ Runnable(wed[i])
    BY <1>4 DEF AfuStore, AfuPublish
  <2> QED BY <1>4, <2>1 DEF AfuStore, AfuPublish
<1>5. CASE Attach
  BY <1>5 DEF Attach
<1>6. CASE InitDone \/ ForceStop \/ AfuFree
  BY <1>1, <1>6 DEF InitDone, ForceStop, AfuFree, queue
<1>7. ASSUME NEW p \in Pushers,
             \/ PushCall(p) \/ PushLock(p) \/ PushTest(p) \/ PushSleep(p)
             \/ PushSpurious(p) \/ PushTrigger(p) \/ PushAdvance(p)
      PROVE  wed' = wed
  BY <1>7 DEF PushCall, PushLock, PushTest, PushSleep, PushSpurious, PushTrigger,
              PushAdvance, queue
<1>8. ASSUME NEW c \in Poppers,
             \/ PopCall(c) \/ PopTake(c) \/ PopMiss(c) \/ PopRead(c)
             \/ PopAdvance(c) \/ PopSignal(c)
      PROVE  wed' = wed
  BY <1>8 DEF PopCall, PopTake, PopMiss, PopRead, PopAdvance, PopSignal, queue
<1>9. CASE \/ AfuCheck \/ AfuLock \/ AfuTest \/ AfuSleep \/ AfuSpurious
           \/ AfuRun \/ AfuNext
  BY <1>1, <1>9 DEF AfuCheck, AfuLock, AfuTest, AfuSleep, AfuSpurious, AfuRun,
                    AfuNext, queue
<1> QED BY <1>1, <1>2, <1>3, <1>4, <1>5, <1>6, <1>7, <1>8, <1>9
        DEF Next, PushStep, PopStep, AfuStep

(* wqueue.md's ownership rule, and its counterpart for completions: only   *)
(* the AFU changes a READY item, and a completion is cleared only by the   *)
(* popper that has already copied it.                                      *)
THEOREM OwnersOnlyHold == Spec => OwnersOnly
<1>1. IInv /\ [Next]_vars => [OwnerChangesSlot]_vars
  BY OwnersStep
<1> QED BY <1>1, Inductive, PTL DEF Spec, OwnersOnly

-----------------------------------------------------------------------------
(* The shape of the ring: the free slots are the arc from the next slot to *)
(* fill to the next slot to retire.                                        *)

PushHead == IF \E p \in Pushers : push_pc[p] \in {"trigger", "advance"}
            THEN NextWed(wed_push) ELSE wed_push

PopHead == IF \E c \in Poppers : pop_pc[c] = "advance"
           THEN NextWed(wed_pop) ELSE wed_pop

Arc(u, v) == {i \in Slots : IF u < v THEN u <= i /\ i < v ELSE u <= i \/ i < v}

Shape(free, u, v) == \/ free = Arc(u, v)
                     \/ u = v /\ free = {}

RingShape == phase \in {"up", "stopping"} => Shape(FreeSlots, PushHead, PopHead)

(* Filling the slot at wed_push shortens the arc of free slots at its start.*)
LEMMA ArcFill ==
  ASSUME NEW u \in Slots, NEW v \in Slots, NEW free, Shape(free, u, v), u \in free
  PROVE  Shape(free \ {u}, NextWed(u), v)
<1>1. free = Arc(u, v)
  BY DEF Shape
<1>2. CASE NextWed(u) # v
  BY <1>1, <1>2, QueueAssumption DEF Shape, Arc, NextWed, Slots
<1>3. CASE NextWed(u) = v
  <2>1. free \ {u} = {}
    BY <1>1, <1>3, QueueAssumption DEF Arc, NextWed, Slots
  <2> QED BY <2>1, <1>3 DEF Shape
<1> QED BY <1>2, <1>3

(* Clearing the slot at wed_pop extends the arc of free slots at its end.  *)
LEMMA ArcRetire ==
  ASSUME NEW u \in Slots, NEW v \in Slots, NEW free, Shape(free, u, v), v \notin free
  PROVE  Shape(free \cup {v}, u, NextWed(v))
<1>1. CASE free = Arc(u, v)
  BY <1>1, QueueAssumption DEF Shape, Arc, NextWed, Slots
<1>2. CASE u = v /\ free = {}
  BY <1>2, QueueAssumption DEF Shape, Arc, NextWed, Slots
<1> QED BY <1>1, <1>2 DEF Shape

(* The ring is all free initially.                                         *)
LEMMA InitShape == Init => RingShape
BY DEF Init, RingShape

(* The free slots remain an arc from wed_push to wed_pop.                  *)
LEMMA NextShape == Base /\ Locks /\ Ownership /\ RingShape /\ [Next]_vars => RingShape'
<1> SUFFICES ASSUME Base, Locks, Ownership, RingShape, [Next]_vars
             PROVE  RingShape'
  OBVIOUS
<1> USE DEF Base, TypeOK, Locks, Ownership
<1>0. wed_push \in Slots /\ wed_pop \in Slots /\ NextWed(wed_push) \in Slots
      /\ NextWed(wed_pop) \in Slots /\ PushHead \in Slots /\ PopHead \in Slots
  BY SlotsFacts DEF PushHead, PopHead
<1>1. CASE Attach \/ AfuFree
  BY <1>1 DEF Attach, AfuFree, RingShape
<1>2. CASE InitDone
  <2>1. FreeSlots' = Slots
    BY <1>2 DEF InitDone, FreeSlots, Phases
  <2>2. PushHead' = 0 /\ PopHead' = 0
    BY <1>2 DEF InitDone, PushHead, PopHead, Phases, Idle, push, pop
  <2>3. Arc(0, 0) = Slots
    BY DEF Arc, Slots
  <2> QED BY <2>1, <2>2, <2>3 DEF RingShape, Shape
<1>3. ASSUME FreeSlots' = FreeSlots, PushHead' = PushHead, PopHead' = PopHead,
             phase' = phase \/ (phase' = "stopping" /\ phase = "up")
      PROVE  RingShape'
  BY <1>3 DEF RingShape
<1>4. ASSUME wed' = wed PROVE FreeSlots' = FreeSlots
  BY <1>4 DEF FreeSlots
<1>5. ASSUME pop_pc' = pop_pc, wed_pop' = wed_pop PROVE PopHead' = PopHead
  BY <1>5 DEF PopHead
<1>6. ASSUME push_pc' = push_pc, wed_push' = wed_push PROVE PushHead' = PushHead
  BY <1>6 DEF PushHead
<1>7. CASE ForceStop
  BY <1>3, <1>4, <1>5, <1>6, <1>7 DEF ForceStop, queue, push, pop
<1>8. ASSUME NEW p \in Pushers,
             \/ PushCall(p) \/ PushLock(p) \/ PushTest(p) \/ PushSleep(p)
             \/ PushSpurious(p) \/ PushFill(p) \/ PushTrigger(p)
      PROVE  RingShape'
  <2>1. PushHead' = PushHead
    BY <1>8 DEF PushCall, PushLock, PushTest, PushSleep, PushSpurious, PushFill,
                PushTrigger, GoPush, queue, PushHead
  <2>2. FreeSlots' = FreeSlots
    <3>1. CASE PushFill(p)
      BY <3>1 DEF PushFill, Filled, FreeSlots
    <3>2. CASE ~PushFill(p)
      BY <1>8, <1>4, <3>2 DEF PushCall, PushLock, PushTest, PushSleep,
                              PushSpurious, PushTrigger, queue
    <3> QED BY <3>1, <3>2
  <2>3. pop_pc' = pop_pc /\ wed_pop' = wed_pop /\ phase' = phase
    BY <1>8 DEF PushCall, PushLock, PushTest, PushSleep, PushSpurious, PushFill,
                PushTrigger, queue, pop
  <2> QED BY <1>3, <1>5, <2>1, <2>2, <2>3
<1>9. ASSUME NEW p \in Pushers, PushPublish(p) PROVE RingShape'
  <2>1. PushHead = wed_push
    BY <1>9 DEF PushPublish, PushHolding, PushHead
  <2>2. PushHead' = NextWed(wed_push)
    BY <1>9 DEF PushPublish, GoPush, PushHead
  <2>3. wed_push \in FreeSlots /\ FreeSlots' = FreeSlots \ {wed_push}
    BY <1>9, <1>0 DEF PushPublish, FreeSlots, PushFlags, Line
  <2>4. PopHead' = PopHead /\ phase' = phase
    BY <1>5, <1>9 DEF PushPublish, pop
  <2> QED BY <1>0, <2>1, <2>2, <2>3, <2>4, ArcFill DEF RingShape
<1>10. ASSUME NEW p \in Pushers, PushAdvance(p) PROVE RingShape'
  <2>1. PushHead = NextWed(wed_push)
    BY <1>10 DEF PushAdvance, PushHead
  <2>2. PushHead' = NextWed(wed_push)
    BY <1>10 DEF PushAdvance, GoPush, PushHolding, PushHead
  <2> QED BY <1>3, <1>4, <1>5, <1>10, <2>1, <2>2 DEF PushAdvance, pop
<1>11. ASSUME NEW c \in Poppers,
              PopCall(c) \/ PopTake(c) \/ PopMiss(c) \/ PopRead(c)
       PROVE  RingShape'
  <2>1. PopHead' = PopHead
    BY <1>11 DEF PopCall, PopTake, PopMiss, PopRead, GoPop, queue, PopHead
  <2> QED BY <1>3, <1>4, <1>6, <1>11, <2>1
          DEF PopCall, PopTake, PopMiss, PopRead, queue, push
<1>12. ASSUME NEW c \in Poppers, PopSignal(c) PROVE RingShape'
  <2>1. PopHead' = PopHead
    BY <1>12 DEF PopSignal, GoPop, queue, PopHead
  <2>2. PushHead' = PushHead
    BY <1>12 DEF PopSignal, WakePusher, GoPush, queue, PushHead
  <2> QED BY <1>3, <1>4, <1>12, <2>1, <2>2 DEF PopSignal, queue
<1>13. ASSUME NEW c \in Poppers, PopClear(c) PROVE RingShape'
  <2>1. PopHead = wed_pop
    BY <1>13 DEF PopClear, PopHolding, PopHead
  <2>2. PopHead' = NextWed(wed_pop)
    BY <1>13 DEF PopClear, GoPop, PopHead
  <2>3. wed_pop \notin FreeSlots /\ FreeSlots' = FreeSlots \cup {wed_pop}
    BY <1>13, <1>0 DEF PopClear, FreeSlots, Line
  <2>4. PushHead' = PushHead /\ phase' = phase
    BY <1>6, <1>13 DEF PopClear, push
  <2> QED BY <1>0, <2>1, <2>2, <2>3, <2>4, ArcRetire DEF RingShape
<1>14. ASSUME NEW c \in Poppers, PopAdvance(c) PROVE RingShape'
  <2>1. PopHead = NextWed(wed_pop)
    BY <1>14 DEF PopAdvance, PopHead
  <2>2. PopHead' = NextWed(wed_pop)
    BY <1>14 DEF PopAdvance, GoPop, PopHolding, PopHead
  <2> QED BY <1>3, <1>4, <1>6, <1>14, <2>1, <2>2 DEF PopAdvance, push
<1>15. CASE AfuStep \/ AfuSpurious
  <2>1. FreeSlots' = FreeSlots
    <3>1. CASE AfuStore
      BY <3>1 DEF AfuStore, Written, FreeSlots
    <3>2. CASE AfuPublish
      BY <3>2 DEF AfuPublish, DoneFlags, Runnable, FreeSlots, Line
    <3>3. CASE ~AfuStore /\ ~AfuPublish
      BY <1>15, <1>4, <3>3 DEF AfuStep, AfuCheck, AfuLock, AfuTest, AfuSleep,
                               AfuSpurious, AfuRun, AfuNext, queue
    <3> QED BY <3>1, <3>2, <3>3
  <2>2. /\ push_pc' = push_pc /\ pop_pc' = pop_pc /\ phase' = phase
        /\ wed_push' = wed_push /\ wed_pop' = wed_pop
    BY <1>15 DEF AfuStep, AfuCheck, AfuLock, AfuTest, AfuSleep, AfuSpurious, AfuRun,
                 AfuStore, AfuPublish, AfuNext, queue, push, pop
  <2> QED BY <1>3, <1>5, <1>6, <2>1, <2>2
<1>16. CASE UNCHANGED vars
  BY <1>3, <1>4, <1>5, <1>6, <1>16 DEF vars, queue, push, pop
<1> QED BY <1>1, <1>2, <1>7, <1>8, <1>9, <1>10, <1>11, <1>12, <1>13, <1>14, <1>15,
           <1>16 DEF Next, PushStep, PopStep

-----------------------------------------------------------------------------
(* The wake-ups of the pushers, by counting.                               *)

(* The sets that are counted are finite.                                   *)
LEMMA FiniteSubset ==
  ASSUME NEW S, IsFiniteSet(S), NEW T \in SUBSET S
  PROVE  IsFiniteSet(T) /\ Cardinality(T) \in Nat
BY FS_Subset, FS_CardinalityType

(* When a pusher finds the slot it wants busy, the ring is full.           *)
LEMMA BusyMeansFull ==
  ASSUME Base, Locks, RingShape,
         NEW p \in Pushers, push_pc[p] = "test", SlotBusy(wed[wed_push])
  PROVE  FreeSlots = {}
<1>1. phase = "up"
  BY DEF Base, Phases, Idle, TypeOK
<1>2. PushHead = wed_push
  BY DEF Base, Locks, PushHolding, PushHead
<1>3. wed_push \in Slots /\ wed_push \notin FreeSlots
  BY DEF Base, TypeOK, FreeSlots, SlotBusy
<1>4. PopHead \in Slots
  BY SlotsFacts DEF Base, TypeOK, PopHead
<1>5. wed_push \in Arc(wed_push, PopHead)
  BY <1>3, <1>4 DEF Arc, Slots
<1> QED BY <1>1, <1>2, <1>3, <1>5 DEF RingShape, Shape

(* Each step keeps enough wake-ups under way.                              *)
LEMMA NextWakeups ==
  Base /\ Locks /\ Ownership /\ RingShape /\ WakeupsSuffice /\ [Next]_vars
    => WakeupsSuffice'
<1> SUFFICES ASSUME Base, Locks, Ownership, RingShape, WakeupsSuffice, [Next]_vars
             PROVE  WakeupsSuffice'
  OBVIOUS
<1> DEFINE Free == Cardinality(FreeSlots)
           Helpers == Cardinality(Awake) + Cardinality(Signals)
<1>1. /\ IsFiniteSet(FreeSlots) /\ IsFiniteSet(Awake) /\ IsFiniteSet(Signals)
      /\ Cardinality(FreeSlots) \in Nat /\ Cardinality(FreeSlots') \in Nat
      /\ Cardinality(Awake) \in Nat /\ Cardinality(Awake') \in Nat
      /\ Cardinality(Signals) \in Nat /\ Cardinality(Signals') \in Nat
  <2>1. IsFiniteSet(Slots)
    BY QueueAssumption, FS_Interval DEF Slots
  <2>2. FreeSlots \in SUBSET Slots /\ FreeSlots' \in SUBSET Slots
    BY DEF FreeSlots
  <2>3. Awake \in SUBSET Pushers /\ Awake' \in SUBSET Pushers
    BY DEF Awake
  <2>4. Signals \in SUBSET Poppers /\ Signals' \in SUBSET Poppers
    BY DEF Signals
  <2> QED BY <2>1, <2>2, <2>3, <2>4, ThreadAssumption, FiniteSubset
(* It is enough that the margin does not shrink.                           *)
<1>2. ASSUME Waiting' # {} => Waiting # {}, Free' - Free <= Helpers' - Helpers
      PROVE  WakeupsSuffice'
  BY <1>1, <1>2 DEF WakeupsSuffice
<1>3. ASSUME Waiting' \subseteq Waiting, FreeSlots' = FreeSlots, Awake' = Awake,
             Signals' = Signals
      PROVE  WakeupsSuffice'
  BY <1>1, <1>2, <1>3
<1>4. ASSUME wed' = wed PROVE FreeSlots' = FreeSlots
  BY <1>4 DEF FreeSlots
<1>5. ASSUME pop_pc' = pop_pc PROVE Signals' = Signals
  BY <1>5 DEF Signals
<1>6. ASSUME push_pc' = push_pc PROVE Waiting' = Waiting /\ Awake' = Awake
  BY <1>6 DEF Waiting, Awake
<1> USE DEF Base, TypeOK
<1>7. CASE Attach \/ InitDone \/ ForceStop \/ AfuFree
  <2>1. Idle /\ push_pc' = push_pc
    BY <1>7 DEF Attach, InitDone, ForceStop, AfuFree, push, Phases
  <2>2. Waiting' = {}
    BY <2>1 DEF Idle, Waiting
  <2> QED BY <2>2 DEF WakeupsSuffice
<1>8. ASSUME NEW p \in Pushers,
             PushCall(p) \/ PushSleep(p) \/ PushTrigger(p) \/ PushAdvance(p)
      PROVE  WakeupsSuffice'
  <2>1. Waiting' \subseteq Waiting /\ Awake' = Awake
    BY <1>8 DEF PushCall, PushSleep, PushTrigger, PushAdvance, GoPush, Waiting, Awake
  <2> QED BY <1>3, <1>4, <1>5, <1>8, <2>1
          DEF PushCall, PushSleep, PushTrigger, PushAdvance, queue, pop
<1>9. ASSUME NEW p \in Pushers, PushLock(p) \/ PushSpurious(p)
      PROVE  WakeupsSuffice'
  <2>1. Waiting' \subseteq Waiting /\ Awake' = Awake \cup {p}
    BY <1>9 DEF PushLock, PushSpurious, GoPush, Waiting, Awake
  <2>2. FreeSlots' = FreeSlots /\ Signals' = Signals
    BY <1>4, <1>5, <1>9 DEF PushLock, PushSpurious, queue, pop
  <2>3. Cardinality(Awake') >= Cardinality(Awake)
    <3>1. Cardinality(Awake \cup {p}) \in {Cardinality(Awake), Cardinality(Awake) + 1}
      BY <1>1, FS_AddElement
    <3> QED BY <1>1, <2>1, <3>1
  <2> QED BY <1>1, <1>2, <2>1, <2>2, <2>3
<1>10. ASSUME NEW p \in Pushers, PushTest(p) PROVE WakeupsSuffice'
  <2>1. FreeSlots' = FreeSlots /\ Signals' = Signals
    BY <1>4, <1>5, <1>10 DEF PushTest, queue, pop
  <2>2. CASE SlotBusy(wed[wed_push])
    <3>1. FreeSlots = {}
      BY <1>10, <2>2, BusyMeansFull DEF PushTest
    <3> QED BY <1>1, <2>1, <3>1, FS_EmptySet DEF WakeupsSuffice
  <2>3. CASE ~SlotBusy(wed[wed_push])
    <3>1. Waiting' \subseteq Waiting /\ Awake' = Awake
      BY <1>10, <2>3 DEF PushTest, GoPush, Waiting, Awake
    <3> QED BY <1>3, <2>1, <3>1
  <2> QED BY <2>2, <2>3
<1>11. ASSUME NEW p \in Pushers, PushFill(p) PROVE WakeupsSuffice'
  <2>1. Waiting' \subseteq Waiting /\ Awake' = Awake
    BY <1>11 DEF PushFill, GoPush, Waiting, Awake
  <2>2. FreeSlots' = FreeSlots /\ Signals' = Signals
    BY <1>5, <1>11 DEF PushFill, Filled, FreeSlots, pop
  <2> QED BY <1>3, <2>1, <2>2
<1>12. ASSUME NEW p \in Pushers, PushPublish(p) PROVE WakeupsSuffice'
  <2>1. Waiting' \subseteq Waiting /\ p \in Awake /\ Awake' = Awake \ {p}
    BY <1>12 DEF PushPublish, GoPush, Waiting, Awake
  <2>2. wed_push \in FreeSlots /\ FreeSlots' = FreeSlots \ {wed_push}
    BY <1>12 DEF PushPublish, FreeSlots, PushFlags, Line, Ownership
  <2>3. Signals' = Signals
    BY <1>5, <1>12 DEF PushPublish, pop
  <2>4. Cardinality(Awake') = Cardinality(Awake) - 1
    BY <1>1, <2>1, FS_RemoveElement
  <2>5. Cardinality(FreeSlots') = Cardinality(FreeSlots) - 1
    BY <1>1, <2>2, FS_RemoveElement
  <2> QED BY <1>1, <1>2, <2>1, <2>3, <2>4, <2>5
<1>13. ASSUME NEW c \in Poppers,
              \/ PopCall(c) \/ PopTake(c) \/ PopMiss(c) \/ PopRead(c)
              \/ PopAdvance(c)
       PROVE  WakeupsSuffice'
  <2>1. Signals' = Signals
    BY <1>13 DEF PopCall, PopTake, PopMiss, PopRead, PopAdvance, GoPop, Signals
  <2> QED BY <1>3, <1>4, <1>6, <1>13, <2>1
          DEF PopCall, PopTake, PopMiss, PopRead, PopAdvance, queue, push
<1>14. ASSUME NEW c \in Poppers, PopClear(c) PROVE WakeupsSuffice'
  <2>1. c \notin Signals /\ Signals' = Signals \cup {c}
    BY <1>14 DEF PopClear, GoPop, Signals
  <2>2. FreeSlots' = FreeSlots \cup {wed_pop}
    BY <1>14 DEF PopClear, FreeSlots, Line
  <2>3. Waiting' = Waiting /\ Awake' = Awake
    BY <1>6, <1>14 DEF PopClear, push
  <2>4. Cardinality(Signals') = Cardinality(Signals) + 1
    BY <1>1, <2>1, FS_AddElement
  <2>5. Cardinality(FreeSlots') <= Cardinality(FreeSlots) + 1
    <3>1. Cardinality(FreeSlots \cup {wed_pop})
            \in {Cardinality(FreeSlots), Cardinality(FreeSlots) + 1}
      BY <1>1, FS_AddElement
    <3> QED BY <1>1, <2>2, <3>1
  <2> QED BY <1>1, <1>2, <2>3, <2>4, <2>5
<1>15. ASSUME NEW c \in Poppers, PopSignal(c) PROVE WakeupsSuffice'
  <2>1. c \in Signals /\ Signals' = Signals \ {c}
    BY <1>15 DEF PopSignal, GoPop, Signals
  <2>2. FreeSlots' = FreeSlots
    BY <1>4, <1>15 DEF PopSignal, queue
  <2>3. Cardinality(Signals') = Cardinality(Signals) - 1
    BY <1>1, <2>1, FS_RemoveElement
  <2>4. ASSUME NEW p \in Pushers, push_pc[p] = "wait", GoPush(p, "woken")
        PROVE  WakeupsSuffice'
    <3>1. Waiting' \subseteq Waiting /\ p \notin Awake /\ Awake' = Awake \cup {p}
      BY <2>4 DEF GoPush, Waiting, Awake
    <3>2. Cardinality(Awake') = Cardinality(Awake) + 1
      BY <1>1, <3>1, FS_AddElement
    <3> QED BY <1>1, <1>2, <2>2, <2>3, <3>1, <3>2
  <2>5. CASE (\A p \in Pushers : push_pc[p] # "wait") /\ UNCHANGED push_pc
    <3>1. \A p \in Pushers : push_pc[p] # "sleep"
      BY <1>15, ThreadAssumption DEF PopSignal, SignalGuard, Locks, PushHolding
    <3>2. Waiting' = {}
      BY <2>5, <3>1 DEF Waiting
    <3> QED BY <3>2 DEF WakeupsSuffice
  <2> QED BY <1>15, <2>4, <2>5 DEF PopSignal, WakePusher
<1>16. CASE AfuStep \/ AfuSpurious
  <2>1. FreeSlots' = FreeSlots
    <3>1. CASE AfuStore
      BY <3>1 DEF AfuStore, Written, FreeSlots
    <3>2. CASE AfuPublish
      BY <3>2 DEF AfuPublish, DoneFlags, Runnable, FreeSlots, Line, Ownership
    <3>3. CASE ~AfuStore /\ ~AfuPublish
      BY <1>16, <1>4, <3>3 DEF AfuStep, AfuCheck, AfuLock, AfuTest, AfuSleep,
                               AfuSpurious, AfuRun, AfuNext, queue
    <3> QED BY <3>1, <3>2, <3>3
  <2>2. push_pc' = push_pc /\ pop_pc' = pop_pc
    BY <1>16 DEF AfuStep, AfuCheck, AfuLock, AfuTest, AfuSleep, AfuSpurious, AfuRun,
                 AfuStore, AfuPublish, AfuNext, push, pop
  <2> QED BY <1>3, <1>5, <1>6, <2>1, <2>2
<1>17. CASE UNCHANGED vars
  BY <1>3, <1>4, <1>5, <1>6, <1>17 DEF vars, queue, push, pop
<1> QED BY <1>7, <1>8, <1>9, <1>10, <1>11, <1>12, <1>13, <1>14, <1>15, <1>16, <1>17
        DEF Next, PushStep, PopStep

(* One signal for each slot that is freed is enough, for any number of     *)
(* pushers and poppers and any ring: while a pusher waits, no free slot is *)
(* without a thread that is on its way to take it or to signal for it.     *)
THEOREM WakeupsAlwaysSuffice == Spec => []WakeupsSuffice
<1>1. Init => RingShape /\ WakeupsSuffice
  BY InitShape DEF Init, WakeupsSuffice, Waiting
<1>2. IInv /\ RingShape /\ WakeupsSuffice /\ [Next]_vars
        => RingShape' /\ WakeupsSuffice'
  BY NextShape, NextWakeups DEF IInv
<1> QED BY <1>1, <1>2, Inductive, PTL DEF Spec

-----------------------------------------------------------------------------
(* The checksum of the host against that of the AFU, by parity.            *)

Loading(i) == afu_pc \in {"store", "publish"} /\ i = afu_idx

(* The slots that hold line l, summed by wqueue_push and not yet by the    *)
(* AFU: published and still to be loaded, or filled and about to be        *)
(* published.                                                              *)
Published(l) == {i \in Slots : Runnable(wed[i]) /\ ~Loading(i) /\ wed[i] = l}
Coming(l)    == {i \in Slots : /\ i = wed_push
                               /\ \E p \in Pushers :
                                    /\ push_pc[p] = "publish"
                                    /\ SummedLine(wed[i], PushFlags(qitem[p])) = l}
Ahead(l)     == Published(l) \cup Coming(l)

Odd(S) == Cardinality(S) % 2 = 1

WatchedLines == {l \in Line : l.opaque \in Watched}

(* A line is in one of the two sums and not in the other exactly when an   *)
(* odd number of slots holds it between the two.                           *)
SumsApart ==
  phase \in {"up", "stopping"} =>
    /\ xor_sum \subseteq WatchedLines /\ loaded \subseteq WatchedLines
    /\ \A l \in WatchedLines : Odd(Ahead(l)) <=> ~(l \in xor_sum <=> l \in loaded)

(* XORing one more line into a sum.                                        *)
LEMMA ToggleMember ==
  ASSUME NEW s, s \subseteq WatchedLines, NEW x \in Line
  PROVE  /\ Toggle(s, x) \subseteq WatchedLines
         /\ \A l \in WatchedLines :
              l \in Toggle(s, x) <=> IF l = x THEN l \notin s ELSE l \in s
BY DEF Toggle, WatchedLines

(* One element more, or one less, changes the parity of a set.             *)
LEMMA Parity ==
  ASSUME NEW S, IsFiniteSet(S), NEW x
  PROVE  /\ x \notin S => (Odd(S \cup {x}) <=> ~Odd(S))
         /\ x \in S => (Odd(S \ {x}) <=> ~Odd(S))
<1>1. Cardinality(S) \in Nat
  BY FS_CardinalityType
<1>2. ASSUME NEW n \in Nat PROVE ((n + 1) % 2 = 1) <=> ~(n % 2 = 1)
  OBVIOUS
<1>3. ASSUME x \notin S PROVE Odd(S \cup {x}) <=> ~Odd(S)
  <2>1. Cardinality(S \cup {x}) = Cardinality(S) + 1
    BY <1>3, FS_AddElement
  <2> QED BY <1>1, <1>2, <2>1 DEF Odd
<1>4. ASSUME x \in S PROVE Odd(S \ {x}) <=> ~Odd(S)
  <2>1. IsFiniteSet(S \ {x}) /\ Cardinality(S \ {x}) = Cardinality(S) - 1
    BY <1>4, FS_RemoveElement
  <2>2. Cardinality(S \ {x}) \in Nat
    BY <2>1, FS_CardinalityType
  <2> QED BY <1>1, <1>2, <2>1, <2>2 DEF Odd
<1> QED BY <1>3, <1>4

(* The slots that are counted are finitely many.                           *)
LEMMA AheadFinite == \A l : IsFiniteSet(Ahead(l)) /\ Ahead(l) \subseteq Slots
<1>1. IsFiniteSet(Slots)
  BY QueueAssumption, FS_Interval DEF Slots
<1>2. \A l : Ahead(l) \in SUBSET Slots
  BY DEF Ahead, Published, Coming
<1> QED BY <1>1, <1>2, FiniteSubset

(* What calc_xor sums is the line as it will be published.                 *)
LEMMA SummedType ==
  ASSUME NEW s \in Line, NEW q \in Items, s.flags = {}
  PROVE  /\ SummedLine(s, PushFlags(q)) = [s EXCEPT !.flags = PushFlags(q)]
         /\ SummedLine(s, PushFlags(q)) \in Line
         /\ Runnable(SummedLine(s, PushFlags(q)))
<1>1. PushFlags(q) \in FlagSets
  BY FilledType
<1>2. (s.flags \ PushFlags(q)) \cup (PushFlags(q) \ s.flags) = PushFlags(q)
  OBVIOUS
<1>3. "READY" \in PushFlags(q) /\ "DONE" \notin PushFlags(q)
  BY DEF PushFlags
<1> QED BY <1>1, <1>2, <1>3 DEF SummedLine, Line, Runnable

(* Each step keeps the parity of the lines ahead of the AFU.               *)
LEMMA NextSums == IInv /\ SumsApart /\ [Next]_vars => SumsApart'
<1> SUFFICES ASSUME IInv, SumsApart, [Next]_vars PROVE SumsApart'
  OBVIOUS
<1> USE DEF IInv, Base, TypeOK, Locks, Ownership
<1>1. CASE Attach \/ AfuFree
  BY <1>1 DEF Attach, AfuFree, SumsApart
<1>2. CASE InitDone
  <2>1. wed' = wed /\ \A i \in Slots : wed[i].flags = {}
    BY <1>2 DEF InitDone, Phases
  <2>2. push_pc' = push_pc /\ \A p \in Pushers : push_pc[p] = "idle"
    BY <1>2 DEF InitDone, Phases, Idle, push
  <2>3. \A l : Ahead(l)' = {}
    BY <2>1, <2>2 DEF Ahead, Published, Coming, Runnable
  <2>4. ~Odd({})
    BY FS_EmptySet DEF Odd
  <2>5. xor_sum' = {} /\ loaded' = {}
    BY <1>2 DEF InitDone
  <2> QED BY <2>3, <2>4, <2>5 DEF SumsApart
<1>3. ASSUME \A l \in WatchedLines : Ahead(l)' = Ahead(l),
             UNCHANGED sums, phase' = phase \/ (phase = "up" /\ phase' = "stopping")
      PROVE  SumsApart'
  BY <1>3 DEF SumsApart, sums
(* Steps that leave the slots alone and do not touch a line on its way.    *)
<1>4. ASSUME wed' = wed, wed_push' = wed_push, qitem' = qitem,
             \A i : Loading(i)' <=> Loading(i),
             \A p \in Pushers : push_pc'[p] = "publish" <=> push_pc[p] = "publish"
      PROVE  \A l \in WatchedLines : Ahead(l)' = Ahead(l)
  BY <1>4 DEF Ahead, Published, Coming
<1>5. CASE ForceStop
  <2>1. \A i : Loading(i)' <=> Loading(i)
    BY <1>5 DEF ForceStop, Loading
  <2> QED BY <1>3, <1>4, <1>5, <2>1 DEF ForceStop, queue, push
<1>6. ASSUME NEW p \in Pushers,
             \/ PushLock(p) \/ PushTest(p) \/ PushSleep(p) \/ PushSpurious(p)
             \/ PushTrigger(p)
      PROVE  SumsApart'
  <2>1. \A i : Loading(i)' <=> Loading(i)
    BY <1>6 DEF PushLock, PushTest, PushSleep, PushSpurious, PushTrigger, Loading, afu
  <2>2. \A r \in Pushers : push_pc'[r] = "publish" <=> push_pc[r] = "publish"
    BY <1>6 DEF PushLock, PushTest, PushSleep, PushSpurious, PushTrigger, GoPush
  <2>3. /\ wed' = wed /\ wed_push' = wed_push /\ qitem' = qitem
        /\ UNCHANGED sums /\ phase' = phase
    BY <1>6 DEF PushLock, PushTest, PushSleep, PushSpurious, PushTrigger, queue
  <2> QED BY <1>3, <1>4, <2>1, <2>2, <2>3
<1>7. ASSUME NEW p \in Pushers, PushCall(p) \/ PushAdvance(p) PROVE SumsApart'
  <2>1. \A r \in Pushers : push_pc[r] = "publish" => r # p /\ ~PushAdvance(p)
    BY <1>7 DEF PushCall, PushAdvance, PushHolding
  <2>2. \A r \in Pushers : push_pc'[r] = "publish" <=> push_pc[r] = "publish"
    BY <1>7, <2>1 DEF PushCall, PushAdvance, GoPush
  <2>3. \A r \in Pushers : push_pc[r] = "publish" =>
          qitem'[r] = qitem[r] /\ wed_push' = wed_push
    BY <1>7, <2>1 DEF PushCall, PushAdvance, queue
  <2>4. wed' = wed /\ UNCHANGED sums /\ phase' = phase /\ afu' = afu
    BY <1>7 DEF PushCall, PushAdvance, queue
  <2>5. \A l : Published(l)' = Published(l)
    BY <2>4 DEF Published, Loading, afu
  <2>6. \A l : Coming(l)' = Coming(l)
    BY <2>2, <2>3, <2>4 DEF Coming
  <2> QED BY <1>3, <2>4, <2>5, <2>6 DEF Ahead
<1>8. ASSUME NEW p \in Pushers, PushFill(p) PROVE SumsApart'
  <2> DEFINE new  == Filled(wed[wed_push], qitem[p])
             line == SummedLine(new, PushFlags(qitem[p]))
  <2>1. push_pc[p] = "fill" /\ wed[wed_push].flags = {} /\ qitem[p] \in Items
    BY <1>8 DEF PushFill, Phases
  <2>2. new \in Line /\ new.flags = {}
    BY <2>1, FilledType DEF Filled
  <2>3. line \in Line
    BY <2>1, <2>2, SummedType
  <2>4. wed' = [wed EXCEPT ![wed_push] = new] /\ xor_sum' = Toggle(xor_sum, line)
    BY <1>8 DEF PushFill
  <2> HIDE DEF new, line
  <2>5. /\ wed_push' = wed_push /\ qitem' = qitem /\ afu' = afu /\ loaded' = loaded
        /\ phase' = phase
    BY <1>8 DEF PushFill
  <2>6. \A r \in Pushers : push_pc[r] # "publish" /\ (push_pc'[r] = "publish" <=> r = p)
    BY <1>8, <2>1 DEF PushFill, GoPush, PushHolding
  <2>7. \A l : Published(l)' = Published(l) /\ wed_push \notin Published(l)
    BY <2>1, <2>2, <2>4, <2>5 DEF Published, Runnable, Loading, afu
  <2>8. \A l : Coming(l) = {} /\ Coming(l)' = IF l = line THEN {wed_push} ELSE {}
    <3>1. wed'[wed_push] = new
      BY <2>4
    <3> QED BY <2>5, <2>6, <3>1 DEF Coming, line
  <2>9. \A l : /\ wed_push \notin Ahead(l)
               /\ Ahead(l)' = IF l = line THEN Ahead(l) \cup {wed_push} ELSE Ahead(l)
    BY <2>7, <2>8 DEF Ahead
  <2>10. \A l : Odd(Ahead(l))' <=> IF l = line THEN ~Odd(Ahead(l)) ELSE Odd(Ahead(l))
    BY <2>9, AheadFinite, Parity DEF Odd
  <2> QED BY <2>3, <2>4, <2>5, <2>10, ToggleMember DEF SumsApart
<1>9. ASSUME NEW p \in Pushers, PushPublish(p) PROVE SumsApart'
  <2> DEFINE old  == wed[wed_push]
             line == [old EXCEPT !.flags = PushFlags(qitem[p])]
  <2>1. push_pc[p] = "publish" /\ old.flags = {} /\ qitem[p] \in Items /\ old \in Line
    BY <1>9 DEF PushPublish, Phases
  <2>2. SummedLine(old, PushFlags(qitem[p])) = line /\ Runnable(line)
    BY <2>1, SummedType
  <2>3. wed' = [wed EXCEPT ![wed_push] = line]
    BY <1>9 DEF PushPublish
  <2>4. /\ wed_push' = wed_push /\ qitem' = qitem /\ afu' = afu /\ UNCHANGED sums
        /\ phase' = phase
    BY <1>9 DEF PushPublish
  <2>5. \A r \in Pushers : push_pc'[r] # "publish" /\ (push_pc[r] = "publish" <=> r = p)
    BY <1>9, <2>1 DEF PushPublish, GoPush, PushHolding
  <2>6. ~Loading(wed_push)
    BY <2>1 DEF Loading, Runnable
  <2>7. \A l : Coming(l)' = {} /\ Coming(l) = IF l = line THEN {wed_push} ELSE {}
    BY <2>2, <2>5 DEF Coming
  <2> HIDE DEF line
  <2>8. \A l : Published(l)' = Published(l) \cup (IF l = line THEN {wed_push} ELSE {})
    BY <2>1, <2>2, <2>3, <2>4, <2>6 DEF Published, Loading, afu, Runnable
  <2> QED BY <1>3, <2>4, <2>7, <2>8 DEF Ahead
<1>10. ASSUME NEW c \in Poppers,
              \/ PopCall(c) \/ PopTake(c) \/ PopMiss(c) \/ PopRead(c)
              \/ PopAdvance(c) \/ PopSignal(c)
       PROVE  SumsApart'
  <2>1. \A r \in Pushers : push_pc'[r] = "publish" <=> push_pc[r] = "publish"
    BY <1>10 DEF PopCall, PopTake, PopMiss, PopRead, PopAdvance, PopSignal,
                 WakePusher, GoPush, push
  <2>2. /\ wed' = wed /\ wed_push' = wed_push /\ qitem' = qitem /\ afu' = afu
        /\ UNCHANGED sums /\ phase' = phase
    BY <1>10 DEF PopCall, PopTake, PopMiss, PopRead, PopAdvance, PopSignal, queue, push
  <2>3. \A i : Loading(i)' <=> Loading(i)
    BY <2>2 DEF Loading, afu
  <2> QED BY <1>3, <1>4, <2>1, <2>2, <2>3
<1>11. ASSUME NEW c \in Poppers, PopClear(c) PROVE SumsApart'
  <2>1. "DONE" \in wed[wed_pop].flags /\ wed'[wed_pop].flags = {}
    BY <1>11 DEF PopClear, Line
  <2>2. \A i \in Slots \ {wed_pop} : wed'[i] = wed[i]
    BY <1>11 DEF PopClear
  <2>3. /\ wed_push' = wed_push /\ push' = push /\ afu' = afu
        /\ UNCHANGED sums /\ phase' = phase
    BY <1>11 DEF PopClear
  <2>4. \A l : Published(l)' = Published(l)
    BY <2>1, <2>2, <2>3 DEF Published, Runnable, Loading, afu
  <2>5. \A l : Coming(l)' = Coming(l)
    <3>1. ASSUME NEW p \in Pushers, push_pc[p] = "publish" PROVE wed_push # wed_pop
      BY <2>1, <3>1
    <3> QED BY <2>2, <2>3, <3>1 DEF Coming, push
  <2> QED BY <1>3, <2>3, <2>4, <2>5 DEF Ahead
<1>12. CASE AfuCheck \/ AfuLock \/ AfuTest \/ AfuSleep \/ AfuSpurious \/ AfuNext
  <2>1. \A i : Loading(i)' <=> Loading(i)
    BY <1>12 DEF AfuCheck, AfuLock, AfuTest, AfuSleep, AfuSpurious, AfuNext, Loading
  <2> QED BY <1>3, <1>4, <1>12, <2>1
          DEF AfuCheck, AfuLock, AfuTest, AfuSleep, AfuSpurious, AfuNext, queue, push
<1>13. CASE AfuRun
  <2> DEFINE line == wed[afu_idx]
  <2>1. afu_pc = "run" /\ afu_pc' = "store" /\ afu_idx' = afu_idx
    BY <1>13 DEF AfuRun
  <2>2. line \in Line /\ loaded' = Toggle(loaded, line) /\ Runnable(line)
    BY <1>13 DEF AfuRun
  <2>3. wed' = wed /\ wed_push' = wed_push /\ push' = push /\ xor_sum' = xor_sum
        /\ phase' = phase
    BY <1>13 DEF AfuRun, queue
  <2>4. \A l : Coming(l)' = Coming(l) /\ afu_idx \notin Coming(l)
    BY <2>2, <2>3 DEF Coming, push, Runnable
  <2>5. \A l : Published(l)' = IF l = line THEN Published(l) \ {afu_idx} ELSE Published(l)
    BY <2>1, <2>3 DEF Published, Loading
  <2>6. afu_idx \in Published(line)
    BY <2>1, <2>2 DEF Published, Loading
  <2> HIDE DEF line
  <2>7. \A l : /\ Ahead(l)' = IF l = line THEN Ahead(l) \ {afu_idx} ELSE Ahead(l)
               /\ l = line => afu_idx \in Ahead(l)
    BY <2>4, <2>5, <2>6 DEF Ahead
  <2>8. \A l : Odd(Ahead(l))' <=> IF l = line THEN ~Odd(Ahead(l)) ELSE Odd(Ahead(l))
    BY <2>7, AheadFinite, Parity DEF Odd
  <2> QED BY <2>2, <2>3, <2>8, ToggleMember DEF SumsApart
<1>14. CASE AfuStore \/ AfuPublish
  <2>1. Loading(afu_idx) /\ Runnable(wed[afu_idx]) /\ afu_idx' = afu_idx
    BY <1>14 DEF AfuStore, AfuPublish, Loading
  <2>2. \A i \in Slots \ {afu_idx} : wed'[i] = wed[i]
    BY <1>14 DEF AfuStore, AfuPublish
  <2>3. Loading(afu_idx)' \/ ~Runnable(wed'[afu_idx])
    BY <1>14 DEF AfuStore, AfuPublish, Loading, Runnable, DoneFlags, Line
  <2>4. wed_push' = wed_push /\ push' = push /\ UNCHANGED sums /\ phase' = phase
    BY <1>14 DEF AfuStore, AfuPublish
  <2>5. \A l : Published(l)' = Published(l)
    BY <2>1, <2>2, <2>3 DEF Published, Loading
  <2>6. \A l : Coming(l)' = Coming(l)
    <3>1. ASSUME NEW p \in Pushers, push_pc[p] = "publish" PROVE wed_push # afu_idx
      BY <2>1, <3>1 DEF Runnable
    <3> QED BY <2>2, <2>4, <3>1 DEF Coming, push
  <2> QED BY <1>3, <2>4, <2>5, <2>6 DEF Ahead
<1>15. CASE UNCHANGED vars
  <2>1. \A i : Loading(i)' <=> Loading(i)
    BY <1>15 DEF vars, afu, Loading
  <2> QED BY <1>3, <1>4, <1>15, <2>1 DEF vars, queue, push
<1> QED BY <1>1, <1>2, <1>5, <1>6, <1>7, <1>8, <1>9, <1>10, <1>11, <1>12, <1>13, <1>14,
           <1>15 DEF Next, PushStep, PopStep, AfuStep

(* Whatever is pushed, by however many threads, wqueue_xor_sum equals the  *)
(* sum of what the AFU loaded whenever every line that was filled has been *)
(* loaded: the line calc_xor sums before the flags are written is the one  *)
(* the AFU finds, and no line is summed twice or missed by either side.    *)
THEOREM ChecksumsAgree == Spec => []ChecksumAgrees
<1>1. Init => SumsApart
  BY DEF Init, SumsApart
<1>2. IInv /\ SumsApart => ChecksumAgrees
  <2> SUFFICES ASSUME IInv, SumsApart, phase \in {"up", "stopping"}, afu_pc # "run",
                      \A p \in Pushers : push_pc[p] # "publish",
                      \A i \in Slots : Runnable(wed[i]) => Loading(i)
               PROVE  xor_sum = loaded
    BY DEF ChecksumAgrees, Loading
  <2>1. \A l : Ahead(l) = {}
    BY DEF Ahead, Published, Coming
  <2>2. ~Odd({})
    BY FS_EmptySet DEF Odd
  <2> QED BY <2>1, <2>2 DEF SumsApart
<1> QED BY <1>1, <1>2, NextSums, Inductive, PTL DEF Spec
=============================================================================
