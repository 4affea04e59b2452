---------------------------- MODULE WqueueRtlProps ----------------------------
(***************************************************************************)
(* What the AFU block of WqueueRtl must do, whatever the bus's order.      *)
(***************************************************************************)
EXTENDS WqueueRtl

(* What a job leaves in its destination: every line, both beats, in place; *)
(* nothing when the processor finds nothing to write.                      *)
Result(k, j) ==
  IF j.odirty \/ j.always
  THEN {[line |-> n, data |-> <<Beat(k, n, 0), Beat(k, n, 1)>>] : n \in 0 .. j.len - 1}
  ELSE {}

(* Every register, queue and bus command has the type and range of its     *)
(* VHDL signal, the credits included (no more than one below zero).        *)
TypeOK ==
  /\ state \in {"IDLE", "LOAD_QUEUE_ITEM", "WAIT_FOR_QUEUE_ITEM", "RUN", "READ_SRC", "WRITE_DST",
               "WRITE_WAIT", "FLUSH", "RESTART_BUS", "RESTART_BUS_FLUSH", "SAVE_QUEUE_ITEM",
               "NEXT_ITEM", "WAIT_FOR_DONE", "DONE"}
  /\ {clear, wafifo_read, dirty, last_write, wqueue_done, trigger_seen, is_done, proc_idone,
      has_room, flushed, got_qitem, reg_wq_trigger, reg_wq_force_stop, failed} \subseteq BOOLEAN
  /\ {wed, wed_next, push, pop} \subseteq Slots
  /\ credits \in -1 .. Croom
  /\ is_done_d \in 0 .. DoneBits
  /\ rq.written \cup wq.written \subseteq 0 .. 2^(AddrBits - 1) - 1
  /\ \A c \in bus : c.tag.kind = "wdata" => Len(c.buf) <= c.beats
  /\ Len(proc) <= ProcRoom
  /\ triggers \in 0 .. QueueLen

(* A tag names one command: the block never issues a command under a tag   *)
(* that an outstanding command still carries (the line addresses of the    *)
(* two data queues are the tags, so this is what their full flags protect).*)
TagsUnique == ah # None => \A c \in bus : c.tag # ah.tag

(* Loading, restarting and writing back an element are never in flight     *)
(* together with anything else: each of them waits for a quiet bus.        *)
QuietBus ==
  LET alone == {"READ_CL_M", "RESTART", "WRITE_MI"}
  IN  /\ ah # None /\ ah.com \in alone => bus = {}
      /\ \A c \in bus : c.com \in alone => bus = {c} /\ ah = None

(* has_room lags the credits by a cycle, and the block may so issue one    *)
(* command more than the bus has room for, but never two.                  *)
RoomIsLimited == Cardinality(bus) + (IF ah = None THEN 0 ELSE 1) <= Croom + 1

(* Wherever it is, the block puts a line only where it belongs: each line  *)
(* of the destination has the processed beats of the same source line.     *)
LinesInPlace == \A k \in Slots : landed[k] \subseteq Result(k, slot[k].job)

(* When software sees an element DONE without an error, every line of it   *)
(* has reached memory, the length is the one that was asked for, and DIRTY *)
(* says whether anything was written.                                      *)
DoneMeansWritten ==
  \A k \in Slots : slot[k].flag = "done" /\ slot[k].res.err = {} =>
    /\ landed[k] = Result(k, slot[k].job)
    /\ slot[k].res.len = slot[k].job.len
    /\ slot[k].res.dirty = (landed[k] # {})

(* An idle block whose next element is READY has a trigger coming.         *)
TriggerComes ==
  state = "IDLE" /\ slot[wed].flag = "ready"
    => trigger_seen \/ reg_wq_trigger \/ triggers > 0

(* The block writes back only elements that it owns: READY and not DONE.   *)
OwnsWhatItWrites ==
  [][\A k \in Slots : slot'[k] # slot[k] /\ slot'[k].flag = "done"
                         => slot[k].flag = "ready"]_vars

(* The elements with a flag.  From pop on, those that are DONE come first  *)
(* and the READY ones after them.                                          *)
Flagged(flag) == {k \in Slots : slot[k].flag = flag}
Number(flag)  == Cardinality(Flagged(flag))
DoneSeq       == [i \in 1 .. Number("done") |-> slot[(pop + i - 1) % QueueLen].res]
ReadySeq      == [i \in 1 .. Number("ready") |->
                    slot[(pop + Number("done") + i - 1) % QueueLen].job]

(* A job is answered with its length and whether it wrote; a failure of    *)
(* the bus may cut it short and is then reported.                          *)
Codes == IF Failing = {} THEN {} ELSE {{"FAULT"}, {"FAULT", "FLUSHED"}}
Answer(j) ==
  {[len |-> j.len, dirty |-> (j.odirty \/ j.always) /\ j.len > 0, err |-> {}]}
    \cup [len : 0 .. j.len, dirty : BOOLEAN, err : Codes]

Pipe == INSTANCE WorkQueue
  WITH Poppers <- {1}, Capacity <- QueueLen, Requests <- Jobs, Outcomes <- Answer,
       ready <- ReadySeq, done <- DoneSeq,
       got <- [c \in {1} |-> got]

(* The block with its software is the bounded pipe of WorkQueue: elements  *)
(* are completed in order, each once, each with an answer to its request.  *)
ImplementsWorkQueue == Pipe!Spec

(* A READY element is eventually done, unless the block is stopped.        *)
ReadyIsDone ==
  \A k \in Slots : slot[k].flag = "ready" ~> (slot[k].flag # "ready" \/ stopping # "no")

(* A forced stop ends in wqueue_done.                                      *)
StopCompletes == stopping = "sent" ~> wqueue_done
=============================================================================
