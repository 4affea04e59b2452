------------------------------- MODULE Wqueue -------------------------------
(***************************************************************************)
(* The work queue of libcapi: src/src/wqueue.c driving the software AFU of *)
(* src/src/wqueue_emul.c.  Pusher threads fill slots of a ring of queue    *)
(* items ("wed") and trigger the AFU; the AFU thread runs each READY slot  *)
(* through the processor and flags it DONE; popper threads retire DONE     *)
(* slots.  Pushers share push_mutex, poppers share pop_mutex, the AFU and  *)
(* the trigger share afu->mutex; the ring itself is shared by all three    *)
(* and guarded by nothing but the flags of each slot.                      *)
(*                                                                         *)
(* One action is one step between two accesses to shared state.  Times and *)
(* the item_count debug counter are left out.                              *)
(***************************************************************************)
EXTENDS Integers, FiniteSets, Sequences

CONSTANTS
  Pushers,      \* threads that call wqueue_push
  Poppers,      \* threads that call wqueue_pop
  QueueLen,     \* queue_len given to wqueue_init
  Items,        \* the wqueue_items the callers push
  CacheLine,    \* CAPI_CACHELINE_BYTES (128)
  Word,         \* 2^32: the range of the uint32_t arithmetic on chunk_length
  PopTries,     \* polls of one wqueue_pop before it gives up (1000)
  JunkLens,     \* what the uninitialised dst_len may hold
  Watched,      \* the opaque tags of the lines followed in the checksums
  ProcResults,  \* results of an overriding proc_run; {}: the weak default
  Addr,         \* pointers
  NULL,         \* the null pointer
  None          \* no thread, no item, no result

ASSUME QueueAssumption == QueueLen \in Nat \ {0}
ASSUME LengthAssumption == /\ CacheLine \in Nat \ {0}
                           /\ Word \in Nat \ {0}
                           /\ PopTries \in Nat \ {0}
                           /\ JunkLens \subseteq Nat
ASSUME ThreadAssumption == /\ IsFiniteSet(Pushers) /\ IsFiniteSet(Poppers)
                           /\ Pushers \cap Poppers = {}
                           /\ None \notin Pushers \cup Poppers

AllFlags == {"READY", "DONE", "DIRTY", "ALWAYS_WRITE", "LAST_ITEM", "WRITE_ONLY"}

ASSUME ItemAssumption ==
  /\ NULL \in Addr
  /\ Items \subseteq [src : Addr, dst : Addr, src_len : Nat,
                     flags : SUBSET AllFlags, opaque : Addr]
  /\ None \notin Items

(* proc_run returns an int, sets dirty or not, and sets dst_len.           *)
ASSUME ProcAssumption ==
  ProcResults \subseteq [err : Int, dirty : BOOLEAN, dst_len : Nat]

VARIABLES
  phase,       \* "down", "attached" (inside wqueue_init), "up", "stopping"
  wed,         \* the ring of queue items
  wed_push,    \* next slot to fill
  wed_pop,     \* next slot to retire
  push_mutex,  \* the pusher that holds push_mutex, or None
  pop_mutex,   \* the popper that holds pop_mutex, or None
  push_pc,     \* where each pusher is
  qitem,       \* the item each pusher was given
  pop_pc,      \* where each popper is
  tries,       \* timeout_counter of each popper
  result,      \* what each popper has read
  afu_pc,      \* where the AFU thread is
  afu_idx,     \* idx of afu_thread
  afu_locked,  \* the AFU thread holds afu->mutex
  outcome,     \* error_code, dirty and dst_len of afu_thread
  afu_len,     \* afu->queue_len
  stop,        \* afu->stop
  xor_sum,     \* lines that calc_xor has summed an odd number of times
  loaded       \* the same sum over the lines as the AFU found them

queue == <<wed, wed_push, wed_pop>>
push  == <<push_mutex, push_pc, qitem>>
pop   == <<pop_mutex, pop_pc, tries, result>>
afu   == <<afu_pc, afu_idx, afu_locked, outcome>>
regs  == <<afu_len, stop>>
sums  == <<xor_sum, loaded>>
vars  == <<phase, queue, push, pop, afu, regs, sums>>

-----------------------------------------------------------------------------
(* Data.                                                                   *)

Slots == 0 .. QueueLen - 1

BlankSlot == [flags |-> {}, err |-> 0, chunk |-> 0, src |-> NULL,
              dst |-> NULL, src_len |-> 0, opaque |-> NULL]

(* The flags wqueue_push publishes for an item.                            *)
PushFlags(q) == (q.flags \ {"DONE"}) \cup {"READY"}
                  \cup (IF q.src # q.dst THEN {"ALWAYS_WRITE"} ELSE {})

(* Whole cache lines of an item, in a uint32_t.                            *)
ChunkLength(bytes) == (bytes \div CacheLine) % Word

(* The line wqueue_push leaves in the slot, before its flags are set.      *)
Filled(s, q) == [flags |-> s.flags, err |-> 0, src |-> q.src, dst |-> q.dst,
                 chunk |-> ChunkLength(q.src_len),
                 src_len |-> q.src_len, opaque |-> q.opaque]

MutantBusyReadyOnly(s) == "READY" \in s.flags

(* The pusher waits while the slot has any flag.                           *)
SlotBusy(s) == s.flags # {}

Runnable(s) == "READY" \in s.flags /\ "DONE" \notin s.flags

MutantNextWedLate(x) == IF x = QueueLen THEN 0 ELSE x + 1

NextWed(x) == IF x + 1 = QueueLen THEN 0 ELSE x + 1

(* XOR of a sum with one more line.  XOR works on each coordinate alone, so *)
(* a sum is kept as the set of watched lines in it an odd number of times. *)
Toggle(sum, line) == IF line.opaque \in Watched
                     THEN (sum \ {line}) \cup ({line} \ sum)
                     ELSE sum

(* calc_xor sums the line with the flags it has, then XORs in the new ones.*)
SummedLine(s, flags) ==
  [s EXCEPT !.flags = (s.flags \ flags) \cup (flags \ s.flags)]

HasBuffers(s) == (s.src # NULL \/ "WRITE_ONLY" \in s.flags) /\ s.dst # NULL

(* Bytes handed to proc_run, and back to the popper: a 32-bit product.     *)
RunLen(s) == (s.chunk * CacheLine) % Word

DefaultResult(s) == [err |-> 0, dirty |-> "ALWAYS_WRITE" \in s.flags,
                     dst_len |-> RunLen(s)]

RunResults(s) == IF ProcResults = {} THEN {DefaultResult(s)} ELSE ProcResults

(* error_code is 0x0011 when a buffer is missing, and dst_len is then read *)
(* without ever having been written.                                       *)
RunOutcomes(s) ==
  IF HasBuffers(s) THEN RunResults(s)
  ELSE {[err |-> 17, dirty |-> FALSE, dst_len |-> n] : n \in JunkLens}

ChunksWritten(o) == ((o.dst_len + CacheLine - 1) \div CacheLine) % Word

(* The result as it is stored: error_code is a uint16_t.                   *)
ErrorWord == 65536

Written(s, o) == [flags |-> s.flags, err |-> o.err % ErrorWord, src |-> s.src,
                  dst |-> s.dst, chunk |-> ChunksWritten(o),
                  src_len |-> s.src_len, opaque |-> s.opaque]

DoneFlags(flags, o) == (flags \ {"READY"}) \cup {"DONE"}
                         \cup (IF o.dirty THEN {"DIRTY"} ELSE {})

(* What wqueue_pop hands back for a slot; its return value is err.         *)
PoppedItem(s) == [src |-> s.src, dst |-> s.dst, src_len |-> s.src_len,
                  dst_len |-> RunLen(s),
                  flags |-> s.flags, opaque |-> s.opaque, err |-> s.err]

-----------------------------------------------------------------------------
(* Set-up and tear-down.                                                   *)

Init == /\ phase = "down"
        /\ wed = [i \in Slots |-> BlankSlot]
        /\ wed_push = 0 /\ wed_pop = 0
        /\ push_mutex = None /\ pop_mutex = None
        /\ push_pc = [p \in Pushers |-> "idle"]
        /\ qitem = [p \in Pushers |-> None]
        /\ pop_pc = [c \in Poppers |-> "idle"]
        /\ tries = [c \in Poppers |-> 0]
        /\ result = [c \in Poppers |-> None]
        /\ afu_pc = "none" /\ afu_idx = 0 /\ afu_locked = FALSE
        /\ outcome = None
        /\ afu_len = 0 /\ stop = FALSE
        /\ xor_sum = {} /\ loaded = {}

(* wqueue_init up to and including afu_attach: the ring is cleared and the *)
(* AFU thread starts, its queue_len register not yet written.              *)
Attach == /\ phase = "down"
          /\ phase' = "attached"
          /\ wed' = [i \in Slots |-> BlankSlot]
          /\ \E junk \in 0 .. QueueLen : afu_len' = junk
          /\ stop' = FALSE
          /\ afu_pc' = "check" /\ afu_idx' = 0
          /\ UNCHANGED <<wed_push, wed_pop, push, pop, afu_locked, outcome, sums>>

MutantLenRegister(data) == data

(* The emulator's queue_len register holds one more than what is written.  *)
LenRegister(data) == data + 1

MutantKeepSum == /\ phase = "attached"
                 /\ phase' = "up"
                 /\ loaded' = {}
                 /\ wed_push' = 0 /\ wed_pop' = 0
                 /\ afu_len' = LenRegister(QueueLen - 1)
                 /\ UNCHANGED <<wed, push, pop, afu, stop, xor_sum>>

(* The rest of wqueue_init.                                                *)
InitDone == /\ phase = "attached"
            /\ phase' = "up"
            /\ xor_sum' = {} /\ loaded' = {}
            /\ wed_push' = 0 /\ wed_pop' = 0
            /\ afu_len' = LenRegister(QueueLen - 1)
            /\ UNCHANGED <<wed, push, pop, afu, stop>>

Idle == /\ \A p \in Pushers : push_pc[p] = "idle"
        /\ \A c \in Poppers : pop_pc[c] = "idle"

MutantSilentStop == /\ phase = "up"
                    /\ Idle
                    /\ ~afu_locked
                    /\ phase' = "stopping"
                    /\ stop' = TRUE
                    /\ UNCHANGED <<queue, push, pop, afu, afu_len, sums>>

(* wqueue_cleanup writes force_stop: under afu->mutex, stop is set and the *)
(* AFU thread is signalled.  The callers' threads have left the queue.     *)
ForceStop == /\ phase = "up"
             /\ Idle
             /\ ~afu_locked
             /\ phase' = "stopping"
             /\ stop' = TRUE
             /\ afu_pc' = IF afu_pc = "wait" THEN "woken" ELSE afu_pc
             /\ UNCHANGED <<queue, push, pop, afu_idx, afu_locked, outcome,
                            afu_len, sums>>

(* afu_free joins the AFU thread; the ring is freed.                       *)
AfuFree == /\ phase = "stopping"
           /\ afu_pc = "ended"
           /\ phase' = "down"
           /\ afu_pc' = "none"
           /\ UNCHANGED <<queue, push, pop, afu_idx, afu_locked, outcome,
                          regs, sums>>

-----------------------------------------------------------------------------
(* wqueue_push.                                                            *)

GoPush(p, pc) == push_pc' = [push_pc EXCEPT ![p] = pc]

PushCall(p) == /\ phase = "up"
               /\ push_pc[p] = "idle"
               /\ \E q \in Items : qitem' = [qitem EXCEPT ![p] = q]
               /\ GoPush(p, "lock")
               /\ UNCHANGED <<phase, queue, push_mutex, pop, afu, regs, sums>>

(* pthread_mutex_lock, and the relock at the end of pthread_cond_wait.     *)
PushLock(p) == /\ push_pc[p] \in {"lock", "woken"}
               /\ push_mutex = None
               /\ push_mutex' = p
               /\ GoPush(p, "test")
               /\ UNCHANGED <<phase, queue, qitem, pop, afu, regs, sums>>

PushTest(p) == /\ push_pc[p] = "test"
               /\ GoPush(p, IF SlotBusy(wed[wed_push]) THEN "sleep" ELSE "fill")
               /\ UNCHANGED <<phase, queue, push_mutex, qitem, pop, afu, regs, sums>>

(* pthread_cond_wait releases push_mutex and starts waiting in one step.   *)
PushSleep(p) == /\ push_pc[p] = "sleep"
                /\ push_mutex' = None
                /\ GoPush(p, "wait")
                /\ UNCHANGED <<phase, queue, qitem, pop, afu, regs, sums>>

(* pthread_cond_wait may also return without a signal.                     *)
PushSpurious(p) == /\ push_pc[p] = "wait"
                   /\ GoPush(p, "woken")
                   /\ UNCHANGED <<phase, queue, push_mutex, qitem, pop, afu, regs, sums>>

PushFill(p) == /\ push_pc[p] = "fill"
               /\ wed' = [wed EXCEPT ![wed_push] = Filled(@, qitem[p])]
               /\ xor_sum' = Toggle(xor_sum, SummedLine(wed'[wed_push],
                                                        PushFlags(qitem[p])))
               /\ GoPush(p, "publish")
               /\ UNCHANGED <<phase, wed_push, wed_pop, push_mutex, qitem, pop,
                              afu, regs, loaded>>

PushPublish(p) == /\ push_pc[p] = "publish"
                  /\ wed' = [wed EXCEPT ![wed_push].flags = PushFlags(qitem[p])]
                  /\ GoPush(p, "trigger")
                  /\ UNCHANGED <<phase, wed_push, wed_pop, push_mutex, qitem,
                                 pop, afu, regs, sums>>

MutantNoTriggerLock == TRUE

(* emul_mmio_write64 on the trigger register takes afu->mutex to signal.   *)
TriggerGuard == ~afu_locked

PushTrigger(p) == /\ push_pc[p] = "trigger"
                  /\ TriggerGuard
                  /\ afu_pc' = IF afu_pc = "wait" THEN "woken" ELSE afu_pc
                  /\ GoPush(p, "advance")
                  /\ UNCHANGED <<phase, queue, push_mutex, qitem, pop, afu_idx,
                                 afu_locked, outcome, regs, sums>>

PushAdvance(p) == /\ push_pc[p] = "advance"
                  /\ wed_push' = NextWed(wed_push)
                  /\ push_mutex' = None
                  /\ qitem' = [qitem EXCEPT ![p] = None]
                  /\ GoPush(p, "idle")
                  /\ UNCHANGED <<phase, wed, wed_pop, pop, afu, regs, sums>>

-----------------------------------------------------------------------------
(* wqueue_pop.                                                             *)

GoPop(c, pc) == pop_pc' = [pop_pc EXCEPT ![c] = pc]

PopCall(c) == /\ phase = "up"
              /\ pop_pc[c] = "idle"
              /\ tries' = [tries EXCEPT ![c] = 0]
              /\ GoPop(c, "try")
              /\ UNCHANGED <<phase, queue, push, pop_mutex, result, afu, regs, sums>>

MutantTakeUnlocked(c) == /\ pop_pc[c] = "try"
                         /\ "DONE" \in wed[wed_pop].flags
                         /\ pop_mutex' = c
                         /\ GoPop(c, "read")
                         /\ UNCHANGED <<phase, queue, push, tries, result, afu,
                                        regs, sums>>

(* The slot is DONE: the loop is left with pop_mutex held.                 *)
PopTake(c) == /\ pop_pc[c] = "try"
              /\ pop_mutex = None
              /\ "DONE" \in wed[wed_pop].flags
              /\ pop_mutex' = c
              /\ GoPop(c, "read")
              /\ UNCHANGED <<phase, queue, push, tries, result, afu, regs, sums>>

(* It is not: pop_mutex is released, and the call sleeps or returns -1.    *)
PopMiss(c) == /\ pop_pc[c] = "try"
              /\ pop_mutex = None
              /\ "DONE" \notin wed[wed_pop].flags
              /\ IF tries[c] + 1 >= PopTries
                 THEN /\ tries' = [tries EXCEPT ![c] = 0]
                      /\ GoPop(c, "idle")
                 ELSE /\ tries' = [tries EXCEPT ![c] = @ + 1]
                      /\ UNCHANGED pop_pc
              /\ UNCHANGED <<phase, queue, push, pop_mutex, result, afu, regs, sums>>

PopRead(c) == /\ pop_pc[c] = "read"
              /\ result' = [result EXCEPT ![c] = PoppedItem(wed[wed_pop])]
              /\ tries' = [tries EXCEPT ![c] = 0]
              /\ GoPop(c, "clear")
              /\ UNCHANGED <<phase, queue, push, pop_mutex, afu, regs, sums>>

PopClear(c) == /\ pop_pc[c] = "clear"
               /\ wed' = [wed EXCEPT ![wed_pop].flags = {}]
               /\ GoPop(c, "advance")
               /\ UNCHANGED <<phase, wed_push, wed_pop, push, pop_mutex, tries,
                              result, afu, regs, sums>>

PopAdvance(c) == /\ pop_pc[c] = "advance"
                 /\ wed_pop' = NextWed(wed_pop)
                 /\ pop_mutex' = None
                 /\ GoPop(c, "signal")
                 /\ UNCHANGED <<phase, wed, wed_push, push, tries, result, afu,
                                regs, sums>>

MutantNoSignal == UNCHANGED push_pc

(* pthread_cond_signal wakes one waiting pusher, if there is one.          *)
WakePusher == \/ \E p \in Pushers : push_pc[p] = "wait" /\ GoPush(p, "woken")
              \/ /\ \A p \in Pushers : push_pc[p] # "wait"
                 /\ UNCHANGED push_pc

MutantNoSignalLock == TRUE

(* The signal is sent with push_mutex held.                                *)
SignalGuard == push_mutex = None

PopSignal(c) == /\ pop_pc[c] = "signal"
                /\ SignalGuard
                /\ WakePusher
                /\ result' = [result EXCEPT ![c] = None]
                /\ GoPop(c, "idle")
                /\ UNCHANGED <<phase, queue, push_mutex, qitem, pop_mutex, tries,
                               afu, regs, sums>>

-----------------------------------------------------------------------------
(* afu_thread.                                                             *)

(* while (!afu->stop), read without the mutex.                             *)
AfuCheck == /\ afu_pc = "check"
            /\ afu_pc' = IF stop THEN "ended" ELSE "lock"
            /\ UNCHANGED <<phase, queue, push, pop, afu_idx, afu_locked,
                           outcome, regs, sums>>

(* Lock, or return from pthread_cond_wait, and look at stop; a stop is     *)
(* left for with the mutex released.                                       *)
AfuLock == /\ afu_pc \in {"lock", "woken"}
           /\ ~afu_locked
           /\ IF stop THEN afu_pc' = "ended" /\ UNCHANGED afu_locked
                      ELSE afu_pc' = "test" /\ afu_locked' = TRUE
           /\ UNCHANGED <<phase, queue, push, pop, afu_idx, outcome, regs, sums>>

AfuTest == /\ afu_pc = "test"
           /\ IF Runnable(wed[afu_idx])
              THEN afu_pc' = "run" /\ afu_locked' = FALSE
              ELSE afu_pc' = "sleep" /\ UNCHANGED afu_locked
           /\ UNCHANGED <<phase, queue, push, pop, afu_idx, outcome, regs, sums>>

AfuSleep == /\ afu_pc = "sleep"
            /\ afu_pc' = "wait"
            /\ afu_locked' = FALSE
            /\ UNCHANGED <<phase, queue, push, pop, afu_idx, outcome, regs, sums>>

AfuSpurious == /\ afu_pc = "wait"
               /\ afu_pc' = "woken"
               /\ UNCHANGED <<phase, queue, push, pop, afu_idx, afu_locked,
                              outcome, regs, sums>>

AfuRun == /\ afu_pc = "run"
          /\ outcome' \in RunOutcomes(wed[afu_idx])
          /\ loaded' = Toggle(loaded, wed[afu_idx])
          /\ afu_pc' = "store"
          /\ UNCHANGED <<phase, queue, push, pop, afu_idx, afu_locked, regs, xor_sum>>

AfuStore == /\ afu_pc = "store"
            /\ wed' = [wed EXCEPT ![afu_idx] = Written(@, outcome)]
            /\ afu_pc' = "publish"
            /\ UNCHANGED <<phase, wed_push, wed_pop, push, pop, afu_idx,
                           afu_locked, outcome, regs, sums>>

AfuPublish == /\ afu_pc = "publish"
              /\ wed' = [wed EXCEPT ![afu_idx].flags = DoneFlags(@, outcome)]
              /\ afu_pc' = "next"
              /\ UNCHANGED <<phase, wed_push, wed_pop, push, pop, afu_idx,
                             afu_locked, outcome, regs, sums>>

AfuNext == /\ afu_pc = "next"
           /\ afu_idx' = IF afu_idx + 1 = afu_len THEN 0 ELSE afu_idx + 1
           /\ outcome' = None
           /\ afu_pc' = "check"
           /\ UNCHANGED <<phase, queue, push, pop, afu_locked, regs, sums>>

-----------------------------------------------------------------------------
PushStep(p) == \/ PushLock(p) \/ PushTest(p) \/ PushSleep(p) \/ PushFill(p)
               \/ PushPublish(p) \/ PushTrigger(p) \/ PushAdvance(p)
PopStep(c)  == \/ PopTake(c) \/ PopMiss(c) \/ PopRead(c) \/ PopClear(c)
               \/ PopAdvance(c) \/ PopSignal(c)
AfuStep     == \/ AfuCheck \/ AfuLock \/ AfuTest \/ AfuSleep
               \/ AfuRun \/ AfuStore \/ AfuPublish \/ AfuNext

Next == \/ Attach \/ InitDone \/ ForceStop \/ AfuFree
        \/ \E p \in Pushers : PushCall(p) \/ PushStep(p) \/ PushSpurious(p)
        \/ \E c \in Poppers : PopCall(c) \/ PopStep(c)
        \/ AfuStep \/ AfuSpurious

Spec == Init /\ [][Next]_vars

(* Every step a thread has begun is eventually taken.  A step that needs a *)
(* mutex needs strong fairness: the mutex must not starve the thread.      *)
(* Spurious wake-ups, new pushes and shutdown are never forced.            *)
Fairness ==
  /\ \A p \in Pushers : /\ WF_vars(PushStep(p))
                        /\ SF_vars(PushLock(p))
                        /\ SF_vars(PushTrigger(p))
  /\ \A c \in Poppers : /\ WF_vars(PopStep(c))
                        /\ SF_vars(PopTake(c))
                        /\ SF_vars(PopSignal(c))
  /\ WF_vars(AfuStep)
  /\ WF_vars(InitDone) /\ WF_vars(AfuFree)

FairSpec == Spec /\ Fairness

(* As above, with callers that keep calling wqueue_pop while it is up.     *)
BusySpec == FairSpec /\ \A c \in Poppers : WF_vars(PopCall(c))
=============================================================================
