----------------------------- MODULE WqueueProps -----------------------------
(***************************************************************************)
(* What the work queue of Wqueue.tla must satisfy: types, safety, what the *)
(* documentation says of it, liveness, and the pipe it implements.         *)
(***************************************************************************)
EXTENDS Wqueue

-----------------------------------------------------------------------------
(* Types.  TypeOK says in particular that no index leaves the ring, though *)
(* the AFU wraps at a register that wqueue_init writes late.               *)

PushPcs == {"idle", "lock", "test", "sleep", "wait", "woken", "fill",
            "publish", "trigger", "advance"}
PopPcs  == {"idle", "try", "read", "clear", "advance", "signal"}
AfuPcs  == {"none", "check", "lock", "test", "sleep", "wait", "woken", "run",
            "store", "publish", "next", "ended"}

Words      == 0 .. Word - 1
ErrorCodes == 0 .. ErrorWord - 1
FlagSets   == SUBSET AllFlags

Line == [flags : FlagSets, err : ErrorCodes, chunk : Words, src : Addr,
         dst : Addr, src_len : Nat, opaque : Addr]

Popped == [src : Addr, dst : Addr, src_len : Nat, dst_len : Words,
           flags : FlagSets, opaque : Addr, err : ErrorCodes]

Outcome == [err : Int, dirty : BOOLEAN, dst_len : Nat]

(* The state has the types the code declares: the three ring indices stay  *)
(* inside the ring, and what wqueue_pop returns for an item is a uint16_t, *)
(* never the -1 of a timeout.                                              *)
TypeOK == /\ phase \in {"down", "attached", "up", "stopping"}
          /\ wed \in [Slots -> Line]
          /\ wed_push \in Slots /\ wed_pop \in Slots /\ afu_idx \in Slots
          /\ push_mutex \in Pushers \cup {None}
          /\ pop_mutex \in Poppers \cup {None}
          /\ push_pc \in [Pushers -> PushPcs]
          /\ qitem \in [Pushers -> Items \cup {None}]
          /\ pop_pc \in [Poppers -> PopPcs]
          /\ tries \in [Poppers -> 0 .. PopTries - 1]
          /\ result \in [Poppers -> Popped \cup {None}]
          /\ afu_pc \in AfuPcs
          /\ outcome \in Outcome \cup {None}
          /\ afu_locked \in BOOLEAN
          /\ stop \in BOOLEAN
          /\ afu_len \in 0 .. QueueLen

-----------------------------------------------------------------------------
(* Safety.                                                                 *)

Owner == [filling   |-> {p \in Pushers : push_pc[p] \in {"fill", "publish"}},
          retiring  |-> {c \in Poppers : pop_pc[c] \in {"read", "clear"}}]

(* The flags alone hand a slot from thread to thread: a pusher writes only *)
(* a slot with no flags, the AFU works only on a slot that is READY and    *)
(* not DONE, a popper copies only a slot that is DONE, and each role has   *)
(* at most one thread on the ring at a time.                               *)
SlotOwnership ==
  /\ Cardinality(Owner.filling) <= 1
  /\ Cardinality(Owner.retiring) <= 1
  /\ Owner.filling # {} => wed[wed_push].flags = {}
  /\ Owner.retiring # {} => "DONE" \in wed[wed_pop].flags
  /\ afu_pc \in {"run", "store", "publish"} => Runnable(wed[afu_idx])

(* wqueue.md: while READY is high and DONE low the hardware owns the item  *)
(* and software does not modify it.  A completion, likewise, changes only  *)
(* by being retired, and only after a popper has copied it.                *)
OwnerChangesSlot ==
  phase' # "attached" =>
    \A i \in Slots :
      /\ Runnable(wed[i]) /\ wed'[i] # wed[i] =>
           i = afu_idx /\ afu_pc \in {"store", "publish"}
      /\ "DONE" \in wed[i].flags /\ wed'[i] # wed[i] =>
           \E c \in Poppers : /\ i = wed_pop
                              /\ result[c] = PoppedItem(wed[i])
                              /\ wed'[i].flags = {}

OwnersOnly == [][OwnerChangesSlot]_vars

(* The AFU sleeps beside a runnable item only while the pusher that        *)
(* published it has still to write the trigger register: no trigger falls  *)
(* into the gap between the AFU's test of the flags and its wait.          *)
NoLostTrigger ==
  afu_pc \in {"sleep", "wait"} /\ Runnable(wed[afu_idx]) =>
    \E p \in Pushers : push_pc[p] = "trigger"

(* Once stop is set the AFU never waits again, so the join in afu_free is  *)
(* on a thread that is running.                                            *)
StopIsHeard == stop => afu_pc \notin {"sleep", "wait"}

FreeSlots == {i \in Slots : wed[i].flags = {}}
Waiting   == {p \in Pushers : push_pc[p] \in {"sleep", "wait"}}
Awake     == {p \in Pushers : push_pc[p] \in {"woken", "test", "fill", "publish"}}
Signals   == {c \in Poppers : pop_pc[c] \in {"advance", "signal"}}

(* wqueue_pop signals one pusher per slot it frees.  As long as a pusher   *)
(* waits, every free slot is spoken for: by a pusher that is awake to take *)
(* it, or by a popper that has still to signal.                            *)
WakeupsSuffice ==
  Waiting # {} =>
    Cardinality(FreeSlots) <= Cardinality(Awake) + Cardinality(Signals)

(* wqueue_xor_sum agrees with the lines the AFU loaded whenever no item is *)
(* outstanding, across recycled slots, errors and re-initialisation.       *)
ChecksumAgrees ==
  /\ phase \in {"up", "stopping"}
  /\ afu_pc # "run"
  /\ \A p \in Pushers : push_pc[p] # "publish"
  /\ \A i \in Slots : Runnable(wed[i]) => afu_pc \in {"store", "publish"} /\ i = afu_idx
  => xor_sum = loaded

(* wqueue.md, on the dirty flag: it reports that the data at dst changed.  *)
(* Checked when an item has just been completed.                           *)
DirtyReportsChange ==
  afu_pc = "next" /\ "DONE" \in wed[afu_idx].flags =>
    ("DIRTY" \in wed[afu_idx].flags <=> outcome.dirty)

-----------------------------------------------------------------------------
(* Liveness.                                                               *)

(* Every published item is processed unless the queue is stopped first.    *)
ReadyIsProcessed ==
  \A i \in Slots : phase = "up" /\ Runnable(wed[i]) ~> ~Runnable(wed[i]) \/ stop

(* While callers keep popping, pushing never comes to a standstill: if a   *)
(* call to wqueue_push is under way, some call completes.                  *)
PushesProgress ==
  (\E p \in Pushers : push_pc[p] # "idle") ~> (\E p \in Pushers : push_pc[p] = "advance")

(* wqueue_cleanup returns: the AFU thread notices force_stop and ends.     *)
CleanupReturns == phase = "stopping" ~> phase = "down"

-----------------------------------------------------------------------------
(* Refinement: the ring is a bounded pipe.                                 *)

RingSeq(start, n) == [k \in 1 .. n |-> wed[(start + k - 1) % QueueLen]]

MapSeq(s, Op(_)) == [k \in DOMAIN s |-> Op(s[k])]

Request(s) == [src |-> s.src, dst |-> s.dst, src_len |-> s.src_len,
               opaque |-> s.opaque, flags |-> s.flags]

ReadySeq ==
  LET n == Cardinality({i \in Slots : Runnable(wed[i])})
  IN  MapSeq(RingSeq(IF afu_pc = "next" THEN NextWed(afu_idx) ELSE afu_idx, n),
             Request)

(* A completion is retired once a popper has copied it.                    *)
DoneSeq ==
  LET copied == IF \E c \in Poppers : pop_pc[c] = "clear" THEN 1 ELSE 0
      moved  == \E c \in Poppers : pop_pc[c] \in {"clear", "advance"}
      n == Cardinality({i \in Slots : "DONE" \in wed[i].flags}) - copied
  IN  MapSeq(RingSeq(IF moved THEN NextWed(wed_pop) ELSE wed_pop, n), PoppedItem)

ItemRequests ==
  {Request([Filled(BlankSlot, q) EXCEPT !.flags = PushFlags(q)]) : q \in Items}

(* The completions a request may get: its own buffers and tags, READY      *)
(* replaced by DONE, and a result its processor can give.                  *)
Completions(r) ==
  LET slot == [flags |-> r.flags, err |-> 0, src |-> r.src, dst |-> r.dst,
               chunk |-> ChunkLength(r.src_len),
               src_len |-> r.src_len, opaque |-> r.opaque]
  IN  {PoppedItem([Written(slot, o) EXCEPT !.flags = DoneFlags(@, o)]) :
         o \in RunOutcomes(slot)}

Pipe == INSTANCE WorkQueue WITH
  Capacity <- QueueLen, Requests <- ItemRequests, Outcomes <- Completions,
  ready <- ReadySeq, done <- DoneSeq, got <- result

(* Completions come back in submission order, exactly once, each with the  *)
(* answer to its own request, and a timed-out wqueue_pop changes nothing.  *)
ImplementsWorkQueue == Pipe!Spec
=============================================================================
