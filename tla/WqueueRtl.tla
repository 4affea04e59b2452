------------------------------ MODULE WqueueRtl ------------------------------
(***************************************************************************)
(* src/rtl/wqueue.vhd: the AFU block that walks the ring of work queue     *)
(* elements, streams each element's lines through a processor and writes   *)
(* the result back.  Clock is one rising edge of ha_pclock: one conjunct   *)
(* per process of the block, every register updated from the old ones.     *)
(*                                                                         *)
(* External to the block: the bus (PSL) with its outstanding commands, the *)
(* processor, and the software at the two ends of the ring, whose own      *)
(* locking is the subject of Wqueue.                                       *)
(***************************************************************************)
EXTENDS Integers, Sequences, FiniteSets

CONSTANTS QueueLen,    \* slots of the ring; reg_wq_len is QueueLen - 1
          Jobs,        \* requests: [len, always, wr_only, odirty]
          Croom,       \* commands the bus takes at a time
          AddrBits,    \* beats of each data queue, as a power of two
          ReadSlack,   \* WRITE_SLACK of the read queue
          DoneBits,    \* samples DONE_CHECK wants in a row (is_done_d)
          ProcRoom,    \* beats the processor holds
          BusWidth,    \* events the bus may present in one cycle
          Failing,     \* the commands the bus may fail
          MayStop,     \* the software may force a stop
          None

Slots == 0 .. QueueLen - 1

ASSUME RtlAssumption ==
  /\ QueueLen \in Nat \ {0} /\ Croom \in Nat \ {0} /\ DoneBits \in Nat \ {0}
  /\ AddrBits \in Nat \ {0, 1} /\ ProcRoom \in Nat \ {0}
  /\ Failing \subseteq {"READ_CL_M", "READ_CL_NA", "WRITE_NA"}
  /\ \A j \in Jobs : /\ j.len \in Nat
                    /\ {j.always, j.wr_only, j.odirty} \subseteq BOOLEAN

(* full comes late: two lines may still be reserved.  (The block has 6.)   *)
ASSUME SlackAssumption == ReadSlack \in Nat /\ ReadSlack >= 4

(* A power of two, halved.                                                 *)
ASSUME PowerAssumption == /\ 2^(AddrBits - 1) \in Nat \ {0, 1}
                          /\ 2^AddrBits = 2 * 2^(AddrBits - 1)

VARIABLES
  state, ah, clear, wafifo_read, dirty, last_write, src_count, wed, wqueue_done,
  wed_next, trigger_seen, is_done, is_done_d, proc_idone, has_room, credits, flushed,
  got_qitem, qitem, error_mask, dst_count, rd_comp_count, brtag_last,
  rq, wq, wafifo, reg_wq_trigger, reg_wq_force_stop

regs == <<state, ah, clear, wafifo_read, dirty, last_write, src_count, wed, wqueue_done,
          wed_next, trigger_seen, is_done, is_done_d, proc_idone, has_room, credits, flushed,
          got_qitem, qitem, error_mask, dst_count, rd_comp_count, brtag_last,
          rq, wq, wafifo, reg_wq_trigger, reg_wq_force_stop>>

VARIABLES
  bus,       \* the commands the bus has taken and not answered
  failed,    \* the bus flushes everything until it is restarted
  proc,      \* the beats inside the processor
  made,      \* the beats it has put out for this element
  slot,      \* the ring in memory
  landed,    \* the destination buffer of each slot: the lines written
  push, pop, got,   \* the software's positions and the element it holds
  triggers,  \* MMIO trigger writes on their way to the block
  stopping   \* MMIO force_stop: "no", "sent" or "seen"

env == <<bus, failed, proc, made, slot, landed, push, pop, got, triggers, stopping>>
vars == <<regs, env>>

RQ == INSTANCE ReadQueue
WQ == INSTANCE WriteQueue
WA == INSTANCE SyncFifoFwft WITH FifoBits <- AddrBits - 1, WriteSlack <- 0

(* The tags: a kind and an index (TAG_QUEUE_ITEM, TAG_RDATA, TAG_WDATA).   *)
Tag(kind, idx) == [kind |-> kind, idx |-> idx]
Load == Tag("qitem", 0)
Save == Tag("qitem", 1)
Restart == Tag("restart", 0)

(* None is no command, tag, number, beat or word of a queue.               *)
ComNames == {"READ_CL_M", "READ_CL_NA", "WRITE_NA", "WRITE_MI", "RESTART"}
TagNames == [kind : {"qitem", "rdata", "wdata", "restart"}, idx : Nat]
ASSUME NoneAssumption ==
  /\ None \notin TagNames \cup Nat
  /\ None \notin [com : ComNames, tag : TagNames, addr : Nat \X Int]
  /\ None \notin Nat \X Int \X Nat
  /\ None \notin [addr : Nat, data : Nat \X Int \X Nat]
  /\ None \notin [addr : Nat \X Nat, idx : Nat]

(* What is left of the request in an empty element is never used.          *)
NoJob == [len |-> 0, always |-> FALSE, wr_only |-> FALSE, odirty |-> FALSE]
EmptySlot == [flag |-> "empty", job |-> NoJob, res |-> None]
Beat(buf, line, half) == <<buf, line, half>>

-----------------------------------------------------------------------------
(* Mutant: a stop is heeded only by an idle block.                         *)
MutantGotoIdle(s) == state' = IF reg_wq_force_stop /\ state = "IDLE" THEN "WAIT_FOR_DONE" ELSE s

(* The state machine: one operator per state.  force_stop overrides where  *)
(* every state goes.                                                       *)
Goto(s) == state' = IF reg_wq_force_stop THEN "WAIT_FOR_DONE" ELSE s

(* A state that puts a command on the bus as soon as there is room.        *)
Submit(from, com, tag, addr, to) ==
  /\ state = from
  /\ ah' = IF has_room THEN [com |-> com, tag |-> tag, addr |-> addr] ELSE None
  /\ Goto(IF has_room THEN to ELSE from)

(* A state that only waits.                                                *)
Await(from, ready, to) ==
  /\ state = from
  /\ Goto(IF ready THEN to ELSE from)
  /\ ah' = None
  /\ clear' = FALSE /\ wafifo_read' = FALSE
  /\ UNCHANGED <<dirty, last_write, src_count, wed, wqueue_done>>

Idle == Await("IDLE", trigger_seen, "LOAD_QUEUE_ITEM")

LoadQueueItem ==
  /\ Submit("LOAD_QUEUE_ITEM", "READ_CL_M", Load, <<wed, 0>>, "WAIT_FOR_QUEUE_ITEM")
  /\ clear' = TRUE /\ wafifo_read' = FALSE
  /\ UNCHANGED <<dirty, last_write, src_count, wed, wqueue_done>>

(* Mutant: an element that is DONE already is run again. *)
MutantRunsDone ==
  /\ state = "WAIT_FOR_QUEUE_ITEM"
  /\ clear' = ~got_qitem
  /\ Goto(IF ~got_qitem THEN state ELSE IF qitem.flag # "empty" THEN "RUN" ELSE "IDLE")
  /\ src_count' = IF got_qitem /\ qitem.flag # "empty" THEN 0 ELSE src_count
  /\ dirty' = FALSE /\ last_write' = FALSE
  /\ ah' = None /\ wafifo_read' = FALSE
  /\ UNCHANGED <<wed, wqueue_done>>

WaitForQueueItem ==
  /\ state = "WAIT_FOR_QUEUE_ITEM"
  /\ clear' = ~got_qitem
  /\ Goto(IF ~got_qitem THEN state ELSE IF qitem.flag = "ready" THEN "RUN" ELSE "IDLE")
  /\ src_count' = IF got_qitem /\ qitem.flag = "ready" THEN 0 ELSE src_count
  /\ dirty' = FALSE /\ last_write' = FALSE
  /\ ah' = None /\ wafifo_read' = FALSE
  /\ UNCHANGED <<wed, wqueue_done>>

(* Reads and writes alternate while both are wanted.                       *)
WriteTurn == /\ ~is_done
             /\ wafifo.valid
             /\ ~last_write \/ src_count = qitem.job.len \/ rq.full
ReadTurn == /\ ~is_done /\ ~WriteTurn
            /\ ~rq.full /\ src_count # qitem.job.len /\ ~qitem.job.wr_only

Run ==
  /\ state = "RUN"
  /\ Goto(IF is_done \/ error_mask # {} THEN "FLUSH"
          ELSE IF WriteTurn THEN "WRITE_DST" ELSE IF ReadTurn THEN "READ_SRC" ELSE state)
  /\ dirty' = (dirty \/ WriteTurn)
  /\ last_write' = IF WriteTurn THEN ~qitem.job.wr_only ELSE (last_write /\ ~ReadTurn)
  /\ src_count' = IF ReadTurn THEN src_count + 1 ELSE src_count
  /\ ah' = None /\ clear' = FALSE /\ wafifo_read' = FALSE
  /\ UNCHANGED <<wed, wqueue_done>>

(* src_addr runs one line behind src_count here.                           *)
ReadSrc ==
  /\ Submit("READ_SRC", "READ_CL_NA", Tag("rdata", rq.vaddr \div 2),
            <<qitem.buf, src_count - 1>>, "RUN")
  /\ clear' = FALSE /\ wafifo_read' = FALSE
  /\ UNCHANGED <<dirty, last_write, src_count, wed, wqueue_done>>

WriteDst ==
  /\ Submit("WRITE_DST", "WRITE_NA", Tag("wdata", wafifo.data.idx),
            wafifo.data.addr, "WRITE_WAIT")
  /\ wafifo_read' = has_room
  /\ clear' = FALSE
  /\ UNCHANGED <<dirty, last_write, src_count, wed, wqueue_done>>

WriteWait == Await("WRITE_WAIT", TRUE, "RUN")

(* Mutant: the bus is not restarted after an error. *)
MutantNoRestart == Await("FLUSH", flushed, "SAVE_QUEUE_ITEM")

Flush == Await("FLUSH", flushed, IF error_mask = {} THEN "SAVE_QUEUE_ITEM" ELSE "RESTART_BUS")

RestartBus ==
  /\ Submit("RESTART_BUS", "RESTART", Restart, <<0, 0>>, "RESTART_BUS_FLUSH")
  /\ clear' = FALSE /\ wafifo_read' = FALSE
  /\ UNCHANGED <<dirty, last_write, src_count, wed, wqueue_done>>

RestartBusFlush == Await("RESTART_BUS_FLUSH", flushed /\ ah = None, "SAVE_QUEUE_ITEM")

SaveQueueItem ==
  /\ Submit("SAVE_QUEUE_ITEM", "WRITE_MI", Save, <<wed, 0>>, "NEXT_ITEM")
  /\ wed' = IF has_room THEN wed_next ELSE wed
  /\ clear' = FALSE /\ wafifo_read' = FALSE
  /\ UNCHANGED <<dirty, last_write, src_count, wqueue_done>>

(* Mutant: a command just issued is overlooked. *)
MutantNextEarly == Await("NEXT_ITEM", flushed, "LOAD_QUEUE_ITEM")

NextItem == Await("NEXT_ITEM", flushed /\ ah = None, "LOAD_QUEUE_ITEM")

WaitForDone == Await("WAIT_FOR_DONE", flushed, "DONE")

Done ==
  /\ state = "DONE"
  /\ wqueue_done' = TRUE
  /\ Goto("DONE")
  /\ ah' = None /\ clear' = FALSE /\ wafifo_read' = FALSE
  /\ UNCHANGED <<dirty, last_write, src_count, wed>>

StateMachine ==
  \/ Idle \/ LoadQueueItem \/ WaitForQueueItem
  \/ Run \/ ReadSrc \/ WriteDst \/ WriteWait
  \/ Flush \/ RestartBus \/ RestartBusFlush
  \/ SaveQueueItem \/ NextItem \/ WaitForDone \/ Done

-----------------------------------------------------------------------------
(* Mutant: a trigger is dropped until the element has been read. *)
MutantTrigLate == trigger_seen' = (state # "WAIT_FOR_QUEUE_ITEM" /\ (reg_wq_trigger \/ trigger_seen))

(* The other processes.  A trigger that comes while an element is being    *)
(* asked for is dropped: the element is yet to be read.                    *)
Trig == trigger_seen' = (state # "LOAD_QUEUE_ITEM" /\ (reg_wq_trigger \/ trigger_seen))

(* is_done_d is a shift register of samples; what matters of it is for how *)
(* long they have all been true.                                           *)
Drained(odone) == wafifo.empty /\ flushed /\ odone
AllRead == rq.empty /\ (rd_comp_count = qitem.job.len \/ qitem.job.wr_only)

(* Mutant: the first sample counts.                                        *)
MutantNoFilter(odone) ==
  /\ is_done' = (~clear /\ Drained(odone))
  /\ is_done_d' = 0
  /\ proc_idone' = (~clear /\ (proc_idone \/ AllRead))

DoneCheck(odone) ==
  /\ is_done' = (~clear /\ is_done_d = DoneBits)
  /\ is_done_d' = IF clear \/ ~Drained(odone) THEN 0
                  ELSE IF is_done_d = DoneBits THEN DoneBits ELSE is_done_d + 1
  /\ proc_idone' = (~clear /\ (proc_idone \/ AllRead))

(* Mutant: the last credit is lent twice. *)
MutantRoomLent(rsp) ==
  /\ credits' = credits + (IF rsp = None THEN 0 ELSE 1) - (IF ah = None THEN 0 ELSE 1)
  /\ has_room' = (credits >= 0)
  /\ flushed' = (credits = Croom /\ ah = None)

(* has_room and flushed are one cycle behind the credits.                  *)
RoomCheck(rsp) ==
  /\ credits' = credits + (IF rsp = None THEN 0 ELSE 1) - (IF ah = None THEN 0 ELSE 1)
  /\ has_room' = (credits >= 1)
  /\ flushed' = (credits = Croom /\ ah = None)

QitemRead(rsp, bw) ==
  /\ qitem' = IF bw # None /\ bw.tag.kind = "qitem" /\ bw.half = 0 THEN bw.data ELSE qitem
  /\ got_qitem' = (rsp # None /\ rsp.tag.kind = "qitem")

(* What the bus reads of the element that is written back.                 *)
Report == [len |-> dst_count \div 2, dirty |-> dirty, err |-> error_mask]

Wdata(br) == brtag_last' = IF br = None THEN None ELSE br.tag

ErrorCheck(rsp) ==
  error_mask' = IF state = "LOAD_QUEUE_ITEM" THEN {}
                ELSE error_mask \cup (IF rsp = None THEN {} ELSE {rsp.code} \ {"DONE"})

(* Mutant: the ring is one slot longer. *)
MutantWedLate == wed_next' = IF wed = QueueLen THEN 0 ELSE wed + 1

WedAddrGen == wed_next' = IF wed = QueueLen - 1 THEN 0 ELSE wed + 1

HasTag(event, kind) == event # None /\ event.tag.kind = kind
LineAddr(event, kind) == IF HasTag(event, kind) THEN event.tag.idx ELSE None
BeatAddr(event) == 2 * event.tag.idx + event.half

ReadQueue(rsp, bw, iready) ==
  rq' = RQ!RqEdge(rq, clear,
                  HasTag(ah, "rdata"),
                  IF HasTag(bw, "rdata") THEN [addr |-> BeatAddr(bw), data |-> bw.data] ELSE None,
                  LineAddr(rsp, "rdata"),
                  iready)

(* The processor's beat, when it has one that is worth writing.            *)
WqWrite(out) == IF out # None /\ (qitem.job.odirty \/ qitem.job.always) THEN out ELSE None

WriteQueue(rsp, br, out) ==
  wq' = WQ!WqEdge(wq, clear, WqWrite(out), LineAddr(rsp, "wdata"),
                  IF HasTag(br, "wdata") THEN BeatAddr(br) ELSE None)

(* A line's address and tag enter the fifo with its second beat.           *)
WriteAddrFifo(out) ==
  wafifo' = WA!FifoEdge(wafifo, clear,
                        IF WqWrite(out) # None /\ dst_count % 2 = 1 /\ ~wq.full
                        THEN [addr |-> <<qitem.buf, dst_count \div 2>>, idx |-> wq.waddr \div 2]
                        ELSE None,
                        wafifo_read)

(* Mutant: the count goes on from the last element. *)
MutantDstKeeps(out) ==
  dst_count' = IF out # None /\ ~wq.full THEN dst_count + 1 ELSE dst_count

(* dst_addr moves with dst_count, from an aligned dst on.                  *)
DstAddr(out) ==
  dst_count' = IF got_qitem THEN 0
               ELSE IF out # None /\ ~wq.full THEN dst_count + 1 ELSE dst_count

RdCount(rsp) ==
  rd_comp_count' = IF clear THEN 0
                   ELSE IF HasTag(rsp, "rdata") THEN rd_comp_count + 1 ELSE rd_comp_count

RegWrite(trigger, stop) == /\ reg_wq_trigger' = trigger
                           /\ reg_wq_force_stop' = stop

RtlInit ==
  /\ state = "IDLE" /\ ah = None /\ clear = FALSE /\ wafifo_read = FALSE
  /\ dirty = FALSE /\ last_write = FALSE /\ src_count = 0
  /\ wed = 0 /\ wed_next = 0 /\ wqueue_done = FALSE
  /\ trigger_seen = FALSE
  /\ is_done = FALSE /\ is_done_d = 0 /\ proc_idone = FALSE
  /\ has_room = TRUE /\ credits = Croom /\ flushed = TRUE
  /\ got_qitem = FALSE
  /\ qitem = [flag |-> "empty", job |-> NoJob, buf |-> 0]
  /\ error_mask = {} /\ dst_count = 0 /\ rd_comp_count = 0 /\ brtag_last = None
  /\ rq = RQ!RqInit /\ wq = WQ!WqInit /\ wafifo = WA!FifoInit
  /\ reg_wq_trigger = FALSE /\ reg_wq_force_stop = FALSE

-----------------------------------------------------------------------------
(* The bus.  A read delivers two beats, the write of a line fetches two,   *)
(* the write of an element one; beats of different commands interleave and *)
(* answers come in any order.  After a failure the bus flushes every       *)
(* command until it is restarted.                                          *)
BeatsOf == [READ_CL_M |-> 2, READ_CL_NA |-> 2, WRITE_NA |-> 2, WRITE_MI |-> 1, RESTART |-> 0]
Reads == {c \in bus : c.com \in {"READ_CL_M", "READ_CL_NA"}}
Owed(c) == c.beats < BeatsOf[c.com] /\ ~failed

Element(k) == [flag |-> slot[k].flag, job |-> slot[k].job, buf |-> k]

BufferWrites == {[tag |-> c.tag, half |-> c.beats,
                  data |-> IF c.tag = Load THEN Element(c.addr[1])
                           ELSE Beat(c.addr[1], c.addr[2], c.beats)] :
                 c \in {b \in Reads : Owed(b)}}
BufferReads == {[tag |-> c.tag, half |-> c.beats] : c \in {b \in bus \ Reads : Owed(b)}}

Complete(c) == ~Owed(c) /\ (c \in Reads \/ Len(c.buf) = BeatsOf[c.com])
Answers(cmds, code) == {[tag |-> c.tag, code |-> code] : c \in cmds}

Responses ==
  IF failed
  THEN Answers({c \in bus : c.com = "RESTART"}, "DONE")
         \cup Answers({c \in bus : c.com # "RESTART"}, "FLUSHED")
  ELSE Answers({c \in bus : Complete(c)}, "DONE")
         \cup Answers({c \in bus : c.com \in Failing /\ c.buf = <<>>}, "FAULT")

(* What the bus does with the command c that it holds in one cycle.        *)
Served(c, bw, br) ==
  [com |-> c.com, tag |-> c.tag, addr |-> c.addr,
   beats |-> IF (bw # None /\ bw.tag = c.tag) \/ (br # None /\ br.tag = c.tag)
             THEN c.beats + 1 ELSE c.beats,
   buf |-> IF brtag_last = c.tag
           THEN Append(c.buf, IF c.tag = Save THEN Report ELSE wq.data) ELSE c.buf]

Taken == IF ah = None THEN {}
         ELSE {[com |-> ah.com, tag |-> ah.tag, addr |-> ah.addr, beats |-> 0, buf |-> <<>>]}

Bus(rsp, bw, br) ==
  LET over == {c \in bus : rsp # None /\ rsp.tag = c.tag}
      kept == {Served(c, bw, br) : c \in bus \ over}
  IN  /\ bus' = kept \cup Taken
      /\ failed' = IF rsp = None \/ rsp.code = "FLUSHED" THEN failed ELSE rsp.code = "FAULT"
      (* A line reaches memory at the latest with its answer, ...          *)
      /\ landed' = [b \in Slots |-> landed[b] \cup
           {[line |-> c.addr[2], data |-> c.buf] :
              c \in {w \in over : w.tag.kind = "wdata" /\ rsp.code = "DONE" /\ w.addr[1] = b}}]
      (* ... an element as early as its bytes are known.                   *)
      /\ slot' = [k \in Slots |->
           IF \E c \in kept : c.tag = Save /\ c.addr[1] = k /\ brtag_last = Save
           THEN [flag |-> "done", job |-> slot[k].job, res |-> Report]
           ELSE slot[k]]

(* The processor: a bounded pipe that hands on what it reads or, when told *)
(* to write only, makes beats of its own.                                  *)
WriteOnly == qitem.job.wr_only
Ready == Len(proc) < ProcRoom
NextBeat == IF clear THEN None
            ELSE IF ~WriteOnly THEN IF proc = <<>> THEN None ELSE Head(proc)
            ELSE IF made < 2 * qitem.job.len THEN Beat(qitem.buf, made \div 2, made % 2)
            ELSE None
ProcDone == /\ proc_idone
            /\ IF WriteOnly THEN made = 2 * qitem.job.len ELSE proc = <<>>

Processor(out) ==
  LET given == out # None /\ ~wq.full
      left == IF given /\ ~WriteOnly THEN Tail(proc) ELSE proc
  IN  /\ proc' = IF clear THEN <<>> ELSE IF rq.valid /\ Ready THEN Append(left, rq.data) ELSE left
      /\ made' = IF clear THEN 0 ELSE IF given /\ WriteOnly THEN made + 1 ELSE made

-----------------------------------------------------------------------------
(* One rising edge.  The bus may answer a command, write a beat and read a *)
(* beat in the same cycle, up to BusWidth of them; the processor may put   *)
(* out a beat; an MMIO write may arrive.                                   *)
Edge(rsp, bw, br, out, trigger, stop) ==
  /\ StateMachine
  /\ Trig
  /\ DoneCheck(ProcDone)
  /\ RoomCheck(rsp)
  /\ QitemRead(rsp, bw)
  /\ Wdata(br)
  /\ ErrorCheck(rsp)
  /\ WedAddrGen
  /\ ReadQueue(rsp, bw, Ready)
  /\ WriteQueue(rsp, br, out)
  /\ WriteAddrFifo(out)
  /\ DstAddr(out)
  /\ RdCount(rsp)
  /\ RegWrite(trigger, stop)
  /\ Bus(rsp, bw, br)
  /\ Processor(out)
  /\ triggers' = IF trigger THEN triggers - 1 ELSE triggers
  /\ stopping' = IF stop THEN "seen" ELSE stopping
  /\ UNCHANGED <<push, pop, got>>

BusEvents == {e \in (Responses \cup {None}) \X (BufferWrites \cup {None}) \X (BufferReads \cup {None}) :
                Cardinality({i \in 1 .. 3 : e[i] # None}) <= BusWidth}
MmioWrites == {"none"} \cup {w \in {"trigger"} : triggers > 0} \cup {w \in {"stop"} : stopping = "sent"}

Cycle(events, beats, writes) ==
  \E e \in events, out \in beats, w \in writes :
    Edge(e[1], e[2], e[3], out, w = "trigger", w = "stop")

Clock == Cycle(BusEvents, {None, NextBeat}, MmioWrites)

-----------------------------------------------------------------------------
(* The software: a slot is filled and published and the trigger register   *)
(* written (wqueue_push), a completed slot is emptied (wqueue_pop), and    *)
(* force_stop is written (wqueue_cleanup).                                 *)
Push(j) ==
  /\ stopping = "no"
  /\ slot[push].flag = "empty" /\ triggers < QueueLen
  /\ slot' = [slot EXCEPT ![push] = [flag |-> "ready", job |-> j, res |-> None]]
  /\ push' = (push + 1) % QueueLen
  /\ triggers' = triggers + 1
  /\ UNCHANGED <<regs, bus, failed, proc, made, landed, pop, got, stopping>>

Pop ==
  /\ got = None
  /\ slot[pop].flag = "done"
  /\ got' = slot[pop].res
  /\ slot' = [slot EXCEPT ![pop] = EmptySlot]
  /\ landed' = [landed EXCEPT ![pop] = {}]   \* the caller has the buffer
  /\ pop' = (pop + 1) % QueueLen
  /\ UNCHANGED <<regs, bus, failed, proc, made, push, triggers, stopping>>

PopReturn ==
  /\ got # None
  /\ got' = None
  /\ UNCHANGED <<regs, bus, failed, proc, made, slot, landed, push, pop, triggers, stopping>>

Stop ==
  /\ MayStop /\ stopping = "no"
  /\ stopping' = "sent"
  /\ UNCHANGED <<regs, bus, failed, proc, made, slot, landed, push, pop, got, triggers>>

Init ==
  /\ RtlInit
  /\ bus = {} /\ failed = FALSE /\ proc = <<>> /\ made = 0
  /\ slot = [k \in Slots |-> EmptySlot]
  /\ landed = [k \in Slots |-> {}]
  /\ push = 0 /\ pop = 0 /\ got = None
  /\ triggers = 0 /\ stopping = "no"

Next == Clock \/ (\E j \in Jobs : Push(j)) \/ Pop \/ PopReturn \/ Stop

Spec == Init /\ [][Next]_vars

(* The clock ticks; the bus serves what it has taken, the processor puts   *)
(* out what it holds and the MMIO writes arrive, after any delay.          *)
Quiet == <<None, None, None>>
Fairness ==
  /\ WF_vars(Clock)
  /\ WF_vars(Cycle(BusEvents \ {Quiet}, {None, NextBeat}, MmioWrites))
  /\ WF_vars(Cycle(BusEvents, {NextBeat} \ {None}, MmioWrites))
  /\ WF_vars(Cycle(BusEvents, {None, NextBeat}, MmioWrites \ {"none"}))

FairSpec == Spec /\ Fairness
=============================================================================
