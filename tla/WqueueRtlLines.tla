--------------------------- MODULE WqueueRtlLines ---------------------------
(***************************************************************************)
(* The lines of an element on their way through the AFU block: what they   *)
(* hold, what is known when a write-back says DONE, and the block and its  *)
(* software as the bounded pipe of WorkQueue.                              *)
(***************************************************************************)
EXTENDS WqueueRtlProofs, SequenceTheorems

-----------------------------------------------------------------------------
(* What the lines hold.  Beats are numbered from the start of an element.  *)
(* A line of a buffer has the number of the beat at its end of the ring,   *)
(* counted on from there: from the next beat to read, back from the next   *)
(* beat to write.                                                          *)
TheBeat(p) == Beat(qitem.buf, p \div 2, p % 2)
Serving == Live /\ ~failed

(* The element in the block is READY in memory while lines move; a buffer  *)
(* that nobody has filled is as the software left it.                      *)
Place ==
  /\ slot = [k \in Slots |-> slot[k]] /\ landed = [k \in Slots |-> landed[k]]
  /\ \A k \in Slots : /\ slot[k].job \in Jobs \cup {NoJob}
                      /\ slot[k].flag \in {"empty", "ready", "done"}
                      /\ slot[k].flag = "empty" => landed[k] = {}
  /\ Live => slot[qitem.buf].flag = "ready" /\ slot[qitem.buf].job = qitem.job
  /\ state = "WAIT_FOR_QUEUE_ITEM" /\ (got_qitem \/ \E c \in bus : c.beats > 0)
       => (qitem.flag = "ready" => qitem = Element(wed))

(* The beats read out of the read queue.                                   *)
Popped == dst_count + Len(proc) + (IF rq.valid THEN 1 ELSE 0)
LineFrom(p, r, i) == ((p - r) \div 2) + i + (IF i < r \div 2 THEN Lines ELSE 0)
ReadLine(i) == LineFrom(Popped, rq.raddr, i)
Reserved == Popped + 2 * Lines - Free   \* the beats asked for
Asks == IF HasTag(ah, "rdata") THEN 2 ELSE 0

Source ==
  /\ (Popped - rq.raddr) % 2 = 0
  /\ Reserved + Asks <= 2 * qitem.job.len
  /\ state \in {"RUN", "WRITE_DST", "WRITE_WAIT"} =>
       2 * src_count = Reserved + Asks /\ src_count <= qitem.job.len
  /\ state = "READ_SRC" => 2 * (src_count - 1) = Reserved /\ src_count <= qitem.job.len
  /\ HasTag(ah, "rdata") => ah.addr[1] = qitem.buf /\ 2 * ah.addr[2] = Reserved
  /\ \A c \in Data("rdata") :
       /\ c.addr[1] = qitem.buf /\ c.addr[2] = ReadLine(c.tag.idx) /\ c.beats <= 2
       /\ \A h \in {0, 1} : h < c.beats =>
            rq.mem[2 * c.tag.idx + h] = Beat(qitem.buf, ReadLine(c.tag.idx), h)
  /\ \A i \in rq.written : \A h \in {0, 1} :
       rq.mem[2 * i + h] = Beat(qitem.buf, ReadLine(i), h)
  /\ rq.valid => rq.data = TheBeat(dst_count + Len(proc))
  /\ \A i \in 1 .. Len(proc) : proc[i] = TheBeat(dst_count + i - 1)

(* A processor that is told to write only makes beats of its own.          *)
OwnBeats ==
  /\ made = dst_count /\ proc = <<>> /\ ~rq.valid /\ rq.written = {}
  /\ state # "READ_SRC" /\ ~HasTag(ah, "rdata") /\ Data("rdata") = {}

LineUpTo(p, w, i) == ((p - w) \div 2) + i - (IF i > w \div 2 THEN Lines ELSE 0)
WriteLine(i) == LineUpTo(dst_count, wq.waddr, i)

Destination ==
  /\ ~Writes => wq.written = {} /\ wq.waddr = 0
  /\ Writes /\ wq.waddr % 2 = 1 => wq.mem[2 * Under] = Beat(qitem.buf, dst_count \div 2, 0)
  /\ \A i \in wq.written :
       /\ WriteLine(i) \in 0 .. qitem.job.len - 1
       /\ \A h \in {0, 1} : wq.mem[2 * i + h] = Beat(qitem.buf, WriteLine(i), h)
  /\ \A i \in Queued : wafifo.mem[i].addr = <<qitem.buf, WriteLine(i)>>
  /\ \A i \in Offered : wafifo.data.addr = <<qitem.buf, WriteLine(i)>>
  /\ HasTag(ah, "wdata") => ah.addr = <<qitem.buf, WriteLine(ah.tag.idx)>>
  /\ \A c \in Data("wdata") :
       /\ c.addr = <<qitem.buf, WriteLine(c.tag.idx)>> /\ c.beats <= 2
       /\ \A h \in 1 .. Len(c.buf) : c.buf[h] = Beat(qitem.buf, WriteLine(c.tag.idx), h - 1)
       /\ brtag_last = c.tag => wq.data = Beat(qitem.buf, WriteLine(c.tag.idx), Len(c.buf))

Contents ==
  Serving => /\ IF WriteOnly THEN OwnBeats ELSE Source
             /\ Destination

-----------------------------------------------------------------------------
(* A line keeps its number while beats are read, until its second half     *)
(* leaves; the next beat to read is a half of the line at the front.       *)
LEMMA ReadLines ==
  ASSUME NEW p \in Nat, NEW r \in BeatNos, (p - r) % 2 = 0, NEW i \in LineNos
  PROVE  LET n == (r + 1) % (2 * Lines)
         IN  /\ LineFrom(p, r, i) \in Nat
             /\ (p + 1 - n) % 2 = 0
             /\ r % 2 = 0 \/ i # r \div 2 => LineFrom(p + 1, n, i) = LineFrom(p, r, i)
             /\ p \div 2 = LineFrom(p, r, r \div 2) /\ p % 2 = r % 2
<1> DEFINE n == (r + 1) % (2 * Lines)
<1>1. n = IF r + 1 = 2 * Lines THEN 0 ELSE r + 1
  BY NextBeatLine
<1>2. r \in Nat /\ r < 2 * Lines /\ Lines \in Nat \ {0, 1} /\ i \in Nat /\ i < Lines
  BY Sizes DEF BeatNos, LineNos
<1> HIDE DEF n
<1>3. LineFrom(p, r, i) \in Nat
  BY <1>2 DEF LineFrom
<1>4. (p + 1 - n) % 2 = 0
  BY <1>1, <1>2
<1>5. r % 2 = 0 \/ i # r \div 2 => LineFrom(p + 1, n, i) = LineFrom(p, r, i)
  BY <1>1, <1>2 DEF LineFrom
<1>6. p \div 2 = LineFrom(p, r, r \div 2) /\ p % 2 = r % 2
  BY <1>2 DEF LineFrom
<1> QED BY <1>3, <1>4, <1>5, <1>6 DEF n

(* The next line to reserve has the number of the beats asked for.         *)
LEMMA NextToRead ==
  ASSUME NEW p \in Nat, NEW r \in BeatNos, (p - r) % 2 = 0,
         NEW v \in BeatNos, v % 2 = 0, Gap(r, v) >= 2
  PROVE  2 * LineFrom(p, r, v \div 2) = p + 2 * Lines - Gap(r, v)
<1>1. /\ r \in Nat /\ r < 2 * Lines /\ v \in Nat /\ v < 2 * Lines /\ Lines \in Nat \ {0, 1}
  BY Sizes DEF BeatNos
<1> QED BY <1>1 DEF LineFrom, Gap

(* A line keeps its number while beats are taken, until its place is       *)
(* filled again; the next beat is a half of the line under way.            *)
LEMMA WriteLines ==
  ASSUME NEW p \in Nat, NEW w \in BeatNos, p % 2 = w % 2, NEW i \in LineNos
  PROVE  LET n == (w + 1) % (2 * Lines)
         IN  /\ i # n \div 2 => LineUpTo(p + 1, n, i) = LineUpTo(p, w, i)
             /\ LineUpTo(p, w, w \div 2) = p \div 2
<1> DEFINE n == (w + 1) % (2 * Lines)
<1>1. n = IF w + 1 = 2 * Lines THEN 0 ELSE w + 1
  BY NextBeatLine
<1>2. w \in Nat /\ w < 2 * Lines /\ Lines \in Nat \ {0, 1} /\ i \in Nat /\ i < Lines
  BY Sizes DEF BeatNos, LineNos
<1> HIDE DEF n
<1>3. i # n \div 2 => LineUpTo(p + 1, n, i) = LineUpTo(p, w, i)
  BY <1>1, <1>2 DEF LineUpTo
<1>4. LineUpTo(p, w, w \div 2) = p \div 2
  BY <1>2 DEF LineUpTo
<1> QED BY <1>3, <1>4 DEF n

-----------------------------------------------------------------------------
(* While lines move nothing is reset, the element stays, and nothing but   *)
(* completed commands is answered as long as the bus serves.               *)
LEMMA ElementStays ==
  ASSUME InFlight, Names, Rings, Live, NEW rsp, NEW bw \in BufferWrites \cup {None},
         QitemRead(rsp, bw)
  PROVE  qitem' = qitem /\ ~clear /\ ~got_qitem
<1>1. bw # None => \E c \in bus : bw.tag = c.tag
  BY DEF BufferWrites, Reads
<1> QED BY <1>1, LiveIsQuiet DEF Rings, Resets, QitemRead

LEMMA ServiceGoesOn ==
  ASSUME InFlight, Names, Live, NEW rsp \in Responses \cup {None}, NEW bw, NEW br,
         Bus(rsp, bw, br), ~failed'
  PROVE  /\ ~failed
         /\ rsp # None => rsp.code = "DONE" /\ \E c \in bus : rsp.tag = c.tag /\ Complete(c)
<1>1. failed' = IF rsp = None \/ rsp.code = "FLUSHED" THEN failed ELSE rsp.code = "FAULT"
  BY DEF Bus
<1>2. \A c \in bus : c.com # "RESTART"
  <2> SUFFICES ASSUME NEW c \in bus, c.com = "RESTART" PROVE FALSE
    OBVIOUS
  <2>1. bus = {c} /\ ah = None
    BY DEF InFlight, QuietBus
  <2>2. c.tag = Restart /\ state \notin Streaming
    BY DEF Names, Matches, InFlight, Alone
  <2> QED BY <2>1, <2>2 DEF Live, HasTag, Data, Restart, Tag
<1>3. CASE rsp = None
  BY <1>1, <1>3
<1>4. CASE rsp # None
  <2>1. PICK c \in bus :
          /\ rsp.tag = c.tag
          /\ failed => rsp.code = IF c.com = "RESTART" THEN "DONE" ELSE "FLUSHED"
          /\ ~failed => \/ Complete(c) /\ rsp.code = "DONE"
                        \/ c.com \in Failing /\ rsp.code = "FAULT"
    BY <1>4, Answered
  <2>2. ~failed
    BY <1>1, <1>2, <1>4, <2>1
  <2> QED BY <1>1, <1>4, <2>1, <2>2
<1> QED BY <1>3, <1>4

(* What the state machine does to the count of the lines it reads.         *)
LEMMA SourceTurns ==
  ASSUME Registers, src_count \in Nat, StateMachine
  PROVE  /\ state' = "READ_SRC" =>
              \/ /\ state = "RUN" /\ src_count' = src_count + 1 /\ src_count # qitem.job.len
                 /\ ~WriteOnly
              \/ state = "READ_SRC" /\ src_count' = src_count /\ ah' = None
         /\ state' \in {"RUN", "WRITE_DST", "WRITE_WAIT"} =>
              \/ state \in {"RUN", "WRITE_DST", "WRITE_WAIT"} /\ src_count' = src_count
              \/ state = "READ_SRC" /\ src_count' = src_count /\ HasTag(ah, "rdata")'
              \/ state = "WAIT_FOR_QUEUE_ITEM" /\ src_count' = 0
         /\ HasTag(ah, "rdata")' => state = "READ_SRC" /\ ah'.addr = <<qitem.buf, src_count - 1>>
<1>1. state' = "READ_SRC" =>
        \/ state = "RUN" /\ src_count' = src_count + 1 /\ src_count # qitem.job.len /\ ~WriteOnly
        \/ state = "READ_SRC" /\ src_count' = src_count /\ ah' = None
  BY DEF WriteOnly, StateMachine, Idle, LoadQueueItem, WaitForQueueItem, Run, ReadSrc, WriteDst, WriteWait,
       Flush, RestartBus, RestartBusFlush, SaveQueueItem, NextItem, WaitForDone, Done,
       Await, Submit, Goto, ReadTurn
<1>2. ReadTurn => ~WriteTurn /\ ~is_done
  BY DEF ReadTurn
<1>3. ReadSrc /\ has_room => HasTag(ah, "rdata")'
  <2> SUFFICES ASSUME ReadSrc, has_room PROVE HasTag(ah, "rdata")'
    OBVIOUS
  <2>1. ah' = [com |-> "READ_CL_NA", tag |-> Tag("rdata", rq.vaddr \div 2),
               addr |-> <<qitem.buf, src_count - 1>>]
    BY DEF ReadSrc, Submit
  <2>2. /\ rq.vaddr \div 2 \in Nat /\ qitem.buf \in Nat /\ src_count - 1 \in Int
    BY NextBeatLine DEF Registers, LineNos, Slots
  <2>3. ah' \in [com : ComNames, tag : TagNames, addr : Nat \X Int]
    BY <2>1, <2>2 DEF ComNames, TagNames, Tag
  <2>4. ah' # None
    BY <2>3, NoneAssumption
  <2> QED BY <2>1, <2>4 DEF HasTag, Tag
<1>4. state' \in {"RUN", "WRITE_DST", "WRITE_WAIT"} =>
        \/ state \in {"RUN", "WRITE_DST", "WRITE_WAIT"} /\ src_count' = src_count
        \/ state = "READ_SRC" /\ src_count' = src_count /\ HasTag(ah, "rdata")'
        \/ state = "WAIT_FOR_QUEUE_ITEM" /\ src_count' = 0
  BY <1>2, <1>3 DEF StateMachine, Idle, LoadQueueItem, WaitForQueueItem, Run, ReadSrc, WriteDst, WriteWait,
       Flush, RestartBus, RestartBusFlush, SaveQueueItem, NextItem, WaitForDone, Done,
       Await, Submit, Goto
<1>5. HasTag(ah, "rdata")' => state = "READ_SRC" /\ ah'.addr = <<qitem.buf, src_count - 1>>
  BY DEF StateMachine, Idle, LoadQueueItem, WaitForQueueItem, Run, ReadSrc, WriteDst, WriteWait,
       Flush, RestartBus, RestartBusFlush, SaveQueueItem, NextItem, WaitForDone, Done,
       Await, Submit, Tag, Load, Save, Restart, HasTag
<1> QED BY <1>1, <1>4, <1>5

(* The processor hands on what it is given, in order.                      *)
LEMMA ProcessorKeeps ==
  ASSUME Types, dst_count \in Nat, ~clear, ~got_qitem, ~WriteOnly, qitem' = qitem,
         NEW out \in {None, NextBeat}, Processor(out), DstAddr(out),
         rq.valid => rq.data = TheBeat(dst_count + Len(proc)),
         \A i \in 1 .. Len(proc) : proc[i] = TheBeat(dst_count + i - 1)
  PROVE  /\ out # None => Len(proc) > 0 /\ out = TheBeat(dst_count)
         /\ Len(proc) \in Nat /\ Len(proc') \in Nat
         /\ dst_count' + Len(proc') = dst_count + Len(proc) + (IF rq.valid /\ Ready THEN 1 ELSE 0)
         /\ \A i \in 1 .. Len(proc') : proc'[i] = TheBeat(dst_count' + i - 1)
<1> DEFINE gives == out # None /\ ~wq.full
           left == IF gives THEN Tail(proc) ELSE proc
<1>1. proc \in Seq(Words) /\ rq.data \in Words /\ Len(proc) \in Nat
  BY DEF Types
<1>2. out # None => proc # <<>> /\ out = Head(proc)
  BY DEF NextBeat
<1>3. out # None => Len(proc) > 0 /\ out = TheBeat(dst_count)
  <2> SUFFICES ASSUME out # None PROVE Len(proc) > 0 /\ out = TheBeat(dst_count)
    OBVIOUS
  <2>1. Len(proc) > 0 /\ Head(proc) = proc[1]
    BY <1>1, <1>2
  <2>2. proc[1] = TheBeat(dst_count + 1 - 1) /\ dst_count + 1 - 1 = dst_count
    BY <1>1, <2>1
  <2> QED BY <1>2, <2>1, <2>2
<1>4. dst_count' = IF gives THEN dst_count + 1 ELSE dst_count
  BY DEF DstAddr
<1>5. /\ left \in Seq(Words) /\ Len(left) \in Nat
      /\ dst_count' + Len(left) = dst_count + Len(proc)
      /\ \A i \in 1 .. Len(left) : left[i] = TheBeat(dst_count' + i - 1)
  <2>1. CASE gives
    <3>1. left = Tail(proc) /\ Len(left) = Len(proc) - 1 /\ left \in Seq(Words)
      BY <1>1, <1>3, <2>1
    <3>2. ASSUME NEW i \in 1 .. Len(left) PROVE left[i] = TheBeat(dst_count' + i - 1)
      <4>1. left[i] = proc[i + 1] /\ i + 1 \in 1 .. Len(proc)
        BY <1>1, <3>1
      <4>2. dst_count + (i + 1) - 1 = dst_count' + i - 1
        BY <1>4, <2>1
      <4> QED BY <4>1, <4>2
    <3> QED BY <1>1, <1>3, <1>4, <2>1, <3>1, <3>2
  <2>2. CASE ~gives
    BY <1>1, <1>4, <2>2
  <2> QED BY <2>1, <2>2
<1>6. proc' = IF rq.valid /\ Ready THEN Append(left, rq.data) ELSE left
  BY DEF Processor
<1> HIDE DEF left, gives
<1>7. CASE rq.valid /\ Ready
  <2>1. proc' = Append(left, rq.data)
    BY <1>6, <1>7
  <2>2. Len(proc') = Len(left) + 1 /\ \A i \in 1 .. Len(proc') :
          proc'[i] = IF i = Len(left) + 1 THEN rq.data ELSE left[i]
    BY <1>1, <1>5, <2>1
  <2>3. rq.data = TheBeat(dst_count' + (Len(left) + 1) - 1)
    <3>1. dst_count' + (Len(left) + 1) - 1 = dst_count + Len(proc)
      BY <1>1, <1>4, <1>5
    <3> QED BY <1>7, <3>1
  <2>4. ASSUME NEW i \in 1 .. Len(proc') PROVE proc'[i] = TheBeat(dst_count' + i - 1)
    <3>1. CASE i = Len(left) + 1
      BY <2>2, <2>3, <3>1
    <3>2. CASE i # Len(left) + 1
      BY <1>5, <2>2, <3>2
    <3> QED BY <3>1, <3>2
  <2>5. Len(proc') \in Nat /\ dst_count' + Len(proc') = dst_count + Len(proc) + 1
    <3>1. dst_count' \in Nat
      BY <1>4
    <3>2. dst_count' + Len(left) = dst_count + Len(proc) /\ Len(left) \in Nat
      BY <1>5
    <3>3. Len(proc') = Len(left) + 1
      BY <2>2
    <3>4. Len(proc) \in Nat
      BY <1>1
    <3> QED BY ONLY <3>1, <3>2, <3>3, <3>4, dst_count \in Nat
  <2> QED BY <1>1, <1>3, <1>7, <2>4, <2>5
<1>8. CASE ~(rq.valid /\ Ready)
  BY <1>1, <1>3, <1>5, <1>6, <1>8
<1> QED BY <1>7, <1>8

(* A beat that the bus writes enters the buffer in the line of its command.*)
LEMMA ReadBeat ==
  ASSUME Names, Rings, Types, NEW rsp, NEW bw \in BufferWrites \cup {None},
         ReadQueue(rsp, bw, Ready)
  PROVE  \/ ~HasTag(bw, "rdata") /\ rq'.mem = rq.mem
         \/ /\ HasTag(bw, "rdata")
            /\ \E b \in Data("rdata") :
                 /\ Owed(b) /\ bw.tag = b.tag /\ b.tag.idx \in LineNos /\ b.beats \in {0, 1}
                 /\ rq'.mem = [rq.mem EXCEPT ![2 * b.tag.idx + b.beats] =
                                               Beat(b.addr[1], b.addr[2], b.beats)]
<1> DEFINE wr == IF HasTag(bw, "rdata") THEN [addr |-> BeatAddr(bw), data |-> bw.data] ELSE None
<1>1. rq'.mem = IF wr = None THEN rq.mem ELSE [rq.mem EXCEPT ![wr.addr] = wr.data]
  BY DEF ReadQueue, RQ!RqEdge
<1>2. CASE ~HasTag(bw, "rdata")
  BY <1>1, <1>2
<1>3. CASE HasTag(bw, "rdata")
  <2>1. PICK b \in Reads : /\ Owed(b) /\ bw.tag = b.tag /\ bw.half = b.beats
                           /\ bw.data = Beat(b.addr[1], b.addr[2], b.beats)
    BY <1>3, BeatsMove DEF HasTag
  <2>2. b \in bus /\ b.tag.kind = "rdata"
    BY <1>3, <2>1 DEF HasTag, Reads
  <2>3. b \in Data("rdata") /\ b.tag.idx \in LineNos /\ b.beats \in {0, 1}
    BY <2>1, <2>2, BeatInBuffer DEF Data
  <2>4. BeatAddr(bw) = 2 * b.tag.idx + b.beats
    BY <2>1 DEF BeatAddr
  <2>5. wr # None
    <3>1. b.addr \in Slots \X Int
      BY <2>3 DEF Types
    <3>2. bw.data \in Nat \X Int \X Nat /\ BeatAddr(bw) \in Nat
      BY <2>1, <2>3, <2>4, <3>1, Sizes DEF Beat, Slots, LineNos
    <3>3. [addr |-> BeatAddr(bw), data |-> bw.data] \in [addr : Nat, data : Nat \X Int \X Nat]
      BY <3>2
    <3> QED BY <1>3, <3>3, NoneAssumption
  <2>6. rq'.mem = [rq.mem EXCEPT ![BeatAddr(bw)] = bw.data]
    BY <1>1, <1>3, <2>5
  <2> QED BY <1>3, <2>1, <2>3, <2>4, <2>6
<1> QED BY <1>2, <1>3

(* Where a beat of the read queue comes from: it stays, or the bus writes  *)
(* it.                                                                     *)
LEMMA ReadMemory ==
  ASSUME Names, Rings, Types, NEW rsp, NEW bw \in BufferWrites \cup {None},
         ReadQueue(rsp, bw, Ready), NEW i \in LineNos, NEW h \in {0, 1}
  PROVE  \/ /\ rq'.mem[2 * i + h] = rq.mem[2 * i + h]
            /\ \A b \in Data("rdata") : b.tag.idx = i /\ b.beats = h => bw = None \/ bw.tag # b.tag
         \/ \E b \in Data("rdata") : /\ Owed(b) /\ b.tag.idx = i /\ b.beats = h
                                     /\ bw # None /\ bw.tag = b.tag
                                     /\ rq'.mem[2 * i + h] = Beat(b.addr[1], b.addr[2], h)
<1>1. rq.mem = [a \in BeatNos |-> rq.mem[a]] /\ 2 * i + h \in BeatNos
  BY Sizes DEF Rings, Registers, BeatNos, LineNos
<1>2. CASE ~HasTag(bw, "rdata") /\ rq'.mem = rq.mem
  BY <1>2 DEF HasTag, Data
<1>3. CASE \E b \in Data("rdata") :
             /\ Owed(b) /\ bw.tag = b.tag /\ b.tag.idx \in LineNos /\ b.beats \in {0, 1}
             /\ rq'.mem = [rq.mem EXCEPT ![2 * b.tag.idx + b.beats] = Beat(b.addr[1], b.addr[2], b.beats)]
             /\ HasTag(bw, "rdata")
  <2>1. PICK b \in Data("rdata") :
             /\ Owed(b) /\ bw.tag = b.tag /\ b.tag.idx \in LineNos /\ b.beats \in {0, 1}
             /\ rq'.mem = [rq.mem EXCEPT ![2 * b.tag.idx + b.beats] = Beat(b.addr[1], b.addr[2], b.beats)]
             /\ HasTag(bw, "rdata")
    BY <1>3
  <2>2. CASE b.tag.idx = i /\ b.beats = h
    BY <1>1, <2>1, <2>2 DEF HasTag
  <2>3. CASE ~(b.tag.idx = i /\ b.beats = h)
    <3>1. 2 * b.tag.idx + b.beats # 2 * i + h
      BY <2>1, <2>3 DEF LineNos
    <3>2. rq'.mem[2 * i + h] = rq.mem[2 * i + h]
      BY <1>1, <2>1, <3>1
    <3>3. \A d \in Data("rdata") : d.tag = b.tag => d = b
      BY DEF Rings, Once, Data
    <3> QED BY <2>1, <2>3, <3>2, <3>3
  <2> QED BY <2>2, <2>3
<1> QED BY <1>2, <1>3, ReadBeat

(* What an edge does to the number of beats read and asked for, and to     *)
(* those that the processor holds.                                         *)
LEMMA CountsMove ==
  ASSUME Registers, Commanded, Once, ReadRing, Types, ~clear, ~got_qitem, ~WriteOnly,
         NEW rsp \in Responses \cup {None}, NEW bw, NEW br, NEW out \in {None, NextBeat},
         Bus(rsp, bw, br), ReadQueue(rsp, bw, Ready), Processor(out), DstAddr(out)
  PROVE  /\ Len(proc) \in Nat /\ Len(proc') \in Nat
         /\ dst_count' + Len(proc') = dst_count + Len(proc) + (IF rq.valid /\ Ready THEN 1 ELSE 0)
         /\ Popped \in Nat /\ Popped' = Popped + (IF Leaves THEN 1 ELSE 0)
         /\ rq'.valid => dst_count' + Len(proc') = IF Leaves THEN Popped ELSE dst_count + Len(proc)
         /\ Asks = (IF Reserves THEN 2 ELSE 0)
         /\ Reserved \in Int /\ Reserved' = Reserved + Asks /\ Asks \in {0, 2} /\ Asks' \in {0, 2}
<1>1. dst_count \in Nat /\ dst_count' \in Nat
  BY DEF Registers, DstAddr
<1>2. /\ rq'.valid <=> Leaves \/ (rq.valid /\ ~Ready)
      /\ Free \in 1 .. 2 * Lines
      /\ Free' = Free + (IF Leaves THEN 1 ELSE 0) - (IF Reserves THEN 2 ELSE 0)
  BY ReadMoves
<1>3. /\ Len(proc) \in Nat /\ Len(proc') \in Nat
      /\ dst_count' + Len(proc') = dst_count + Len(proc) + (IF rq.valid /\ Ready THEN 1 ELSE 0)
  <2> DEFINE gives == out # None /\ ~wq.full
             left == IF gives THEN Tail(proc) ELSE proc
  <2>1. proc \in Seq(Words) /\ rq.data \in Words /\ Len(proc) \in Nat
    BY DEF Types
  <2>2. out # None => proc # <<>>
    BY DEF NextBeat
  <2>3. dst_count' = IF gives THEN dst_count + 1 ELSE dst_count
    BY DEF DstAddr
  <2>4. left \in Seq(Words) /\ Len(left) \in Nat /\ dst_count' + Len(left) = dst_count + Len(proc)
    <3>1. CASE gives
      <4>1. left = Tail(proc) /\ Len(left) = Len(proc) - 1 /\ left \in Seq(Words) /\ Len(left) \in Nat
        BY <2>1, <2>2, <3>1
      <4> QED BY <1>1, <2>1, <2>3, <3>1, <4>1
    <3>2. CASE ~gives
      BY <1>1, <2>1, <2>3, <3>2
    <3> QED BY <3>1, <3>2
  <2>5. proc' = IF rq.valid /\ Ready THEN Append(left, rq.data) ELSE left
    BY DEF Processor
  <2> HIDE DEF left, gives
  <2>6. Len(proc') = Len(left) + (IF rq.valid /\ Ready THEN 1 ELSE 0)
    <3>1. CASE rq.valid /\ Ready
      BY <2>1, <2>4, <2>5, <3>1
    <3>2. CASE ~(rq.valid /\ Ready)
      BY <2>4, <2>5, <3>2
    <3> QED BY <3>1, <3>2
  <2>7. CASE rq.valid /\ Ready
    BY <1>1, <2>1, <2>4, <2>6, <2>7
  <2>8. CASE ~(rq.valid /\ Ready)
    BY <1>1, <2>1, <2>4, <2>6, <2>8
  <2> QED BY <2>7, <2>8
<1>4. /\ Popped \in Nat /\ Popped' = Popped + (IF Leaves THEN 1 ELSE 0)
      /\ rq'.valid => dst_count' + Len(proc') = IF Leaves THEN Popped ELSE dst_count + Len(proc)
  <2>1. dst_count \in Nat /\ dst_count' \in Nat
    BY <1>1
  <2>2. Popped' = dst_count' + Len(proc') + (IF rq'.valid THEN 1 ELSE 0)
    BY DEF Popped
  <2>3. Popped = dst_count + Len(proc) + (IF rq.valid THEN 1 ELSE 0)
    BY DEF Popped
  <2>4. Leaves => ~rq.valid \/ Ready
    BY DEF Leaves, RQ!RqPop
  <2>5. CASE Leaves
    <3>1. rq'.valid /\ (IF rq.valid /\ Ready THEN 1 ELSE 0) = (IF rq.valid THEN 1 ELSE 0)
      BY <1>2, <2>4, <2>5
    <3> QED BY <1>3, <2>1, <2>2, <2>3, <2>5, <3>1
  <2>6. CASE ~Leaves
    <3>1. CASE rq.valid /\ Ready
      <4>1. ~rq'.valid
        BY <1>2, <2>6, <3>1
      <4> QED BY <1>3, <2>1, <2>2, <2>3, <2>6, <3>1, <4>1
    <3>2. CASE ~(rq.valid /\ Ready)
      <4>1. rq'.valid <=> rq.valid
        BY <1>2, <2>6, <3>2
      <4>2. (IF rq'.valid THEN 1 ELSE 0) = (IF rq.valid THEN 1 ELSE 0)
        BY <4>1
      <4>3. dst_count' + Len(proc') = dst_count + Len(proc)
        BY <1>3, <2>1, <3>2
      <4> QED BY <1>3, <2>1, <2>2, <2>3, <2>6, <4>2, <4>3
    <3> QED BY <3>1, <3>2
  <2> QED BY <2>5, <2>6
<1>5. /\ Asks = (IF Reserves THEN 2 ELSE 0)
       /\ Reserved \in Int /\ Reserved' = Reserved + Asks /\ Asks \in {0, 2} /\ Asks' \in {0, 2}
  <2>1. Asks = (IF Reserves THEN 2 ELSE 0) /\ Asks \in {0, 2} /\ Asks' \in {0, 2}
    BY DEF Asks, Reserves
  <2>2. Lines \in Nat /\ Free \in Int
    BY <1>2, Sizes
  <2>3. Reserved = Popped + 2 * Lines - Free /\ Reserved' = Popped' + 2 * Lines - Free'
    BY DEF Reserved, Lines
  <2>4. Popped \in Nat /\ Popped' = Popped + (IF Leaves THEN 1 ELSE 0)
    BY <1>4
  <2>5. Free' = Free + (IF Leaves THEN 1 ELSE 0) - Asks
    BY <1>2, <2>1, <2>2
  <2>6. Reserved \in Int /\ Reserved' = Reserved + Asks
    <3>1. CASE Leaves
      <4>1. Popped' = Popped + 1 /\ Free' = Free + 1 - Asks
        BY <2>4, <2>5, <3>1
      <4> QED BY <2>1, <2>2, <2>3, <2>4, <4>1
    <3>2. CASE ~Leaves
      <4>1. Popped' = Popped /\ Free' = Free - Asks
        BY <2>2, <2>4, <2>5, <3>2, <2>1
      <4> QED BY <2>1, <2>2, <2>3, <2>4, <4>1
    <3> QED BY <3>1, <3>2
  <2> QED BY <2>1, <2>6
<1> QED BY <1>3, <1>4, <1>5

(* What an edge does to the beats read, and to those asked for.            *)
LEMMA SourceMoves ==
  ASSUME InFlight, Names, Rings, Types, Live, Source, ~WriteOnly,
         NEW rsp \in Responses \cup {None}, NEW bw \in BufferWrites \cup {None},
         NEW br \in BufferReads \cup {None}, NEW out \in {None, NextBeat}, NEW trigger, NEW stop,
         Edge(rsp, bw, br, out, trigger, stop)
  PROVE  /\ Len(proc) \in Nat /\ Len(proc') \in Nat
         /\ dst_count' + Len(proc') = dst_count + Len(proc) + (IF rq.valid /\ Ready THEN 1 ELSE 0)
         /\ \A i \in 1 .. Len(proc') : proc'[i] = TheBeat(dst_count' + i - 1)
         /\ Popped \in Nat /\ Popped' = Popped + (IF Leaves THEN 1 ELSE 0)
         /\ rq'.valid => dst_count' + Len(proc') = IF Leaves THEN Popped ELSE dst_count + Len(proc)
         /\ Asks = (IF Reserves THEN 2 ELSE 0)
         /\ Reserved \in Int /\ Reserved' = Reserved + Asks /\ Asks \in {0, 2} /\ Asks' \in {0, 2}
<1>1. /\ StateMachine /\ Bus(rsp, bw, br) /\ QitemRead(rsp, bw) /\ ReadQueue(rsp, bw, Ready)
      /\ Processor(out) /\ DstAddr(out)
  BY DEF Edge
<1>2. qitem' = qitem /\ ~clear /\ ~got_qitem
  BY <1>1, ElementStays
<1>3. Registers /\ Commanded /\ Once /\ ReadRing
  BY DEF Rings
<1>4. \A i \in 1 .. Len(proc') : proc'[i] = TheBeat(dst_count' + i - 1)
  <2>1. dst_count \in Nat
    BY <1>3 DEF Registers
  <2>2. /\ rq.valid => rq.data = TheBeat(dst_count + Len(proc))
        /\ \A i \in 1 .. Len(proc) : proc[i] = TheBeat(dst_count + i - 1)
    BY DEF Source
  <2> QED BY <1>1, <1>2, <2>1, <2>2, ProcessorKeeps
<1> QED BY <1>1, <1>2, <1>3, <1>4, CountsMove

(* Lines read in any order come out of the buffer in order.                *)
LEMMA SourceStep ==
  ASSUME Room, InFlight, Names, Rings, Types, Live, Source, ~WriteOnly, qitem.job.len \in Nat,
         NEW rsp \in Responses \cup {None}, NEW bw \in BufferWrites \cup {None},
         NEW br \in BufferReads \cup {None}, NEW out \in {None, NextBeat}, NEW trigger, NEW stop,
         Edge(rsp, bw, br, out, trigger, stop), ~failed'
  PROVE  Source'
<1> DEFINE w == rq.vaddr \div 2
           r == rq.raddr \div 2
           done == LineAddr(rsp, "rdata")
           len == qitem.job.len
<1>1. /\ StateMachine /\ Bus(rsp, bw, br) /\ QitemRead(rsp, bw) /\ ReadQueue(rsp, bw, Ready)
      /\ Processor(out) /\ DstAddr(out)
  BY DEF Edge
<1>2. qitem' = qitem /\ ~clear /\ ~got_qitem
  BY <1>1, ElementStays
<1>3. Registers /\ Commanded /\ Once /\ ReadRing
  BY DEF Rings
<1>4. /\ rq'.raddr = IF Leaves THEN (rq.raddr + 1) % (2 * Lines) ELSE rq.raddr
      /\ rq'.written = (rq.written \cup ({done} \ {None})) \ (IF Ends THEN {r} ELSE {})
      /\ rq'.valid <=> Leaves \/ (rq.valid /\ ~Ready)
      /\ rq'.data = IF Leaves THEN rq.mem[rq.raddr] ELSE rq.data
      /\ r \in LineNos /\ w \in LineNos /\ w \notin Held
      /\ Leaves => r \in rq.written
      /\ Reserves => Free >= 4 /\ ah.tag.idx = w
      /\ Free \in 1 .. 2 * Lines
      /\ Free' = Free + (IF Leaves THEN 1 ELSE 0) - (IF Reserves THEN 2 ELSE 0)
      /\ done # None => done \in Held \ rq.written
      /\ Held' = (Held \ (IF Ends THEN {r} ELSE {})) \cup (IF Reserves THEN {w} ELSE {})
  BY <1>1, <1>2, <1>3, ReadMoves
<1> HIDE DEF done
<1>5. /\ Len(proc) \in Nat /\ Len(proc') \in Nat
      /\ dst_count' + Len(proc') = dst_count + Len(proc) + (IF rq.valid /\ Ready THEN 1 ELSE 0)
      /\ \A i \in 1 .. Len(proc') : proc'[i] = TheBeat(dst_count' + i - 1)
  BY SourceMoves
<1>6. /\ Popped \in Nat /\ Popped' = Popped + (IF Leaves THEN 1 ELSE 0)
      /\ rq'.valid => dst_count' + Len(proc') = IF Leaves THEN Popped ELSE dst_count + Len(proc)
  BY SourceMoves
<1>7. (Popped - rq.raddr) % 2 = 0 /\ rq.raddr \in BeatNos
  BY <1>3 DEF Source, Registers
<1>8. (Popped' - rq'.raddr) % 2 = 0
  <2>1. CASE Leaves
    <3>1. (Popped + 1 - ((rq.raddr + 1) % (2 * Lines))) % 2 = 0
      BY <1>4, <1>6, <1>7, ReadLines
    <3>2. Popped' = Popped + 1 /\ rq'.raddr = (rq.raddr + 1) % (2 * Lines) /\ Popped \in Nat
      BY <1>4, <1>6, <2>1
    <3>3. (rq.raddr + 1) % (2 * Lines) \in Nat
      BY <1>7, NextBeatLine DEF BeatNos
    <3> QED BY <3>1, <3>2, <3>3
  <2>2. CASE ~Leaves
    BY <1>4, <1>6, <1>7, <2>2
  <2> QED BY <2>1, <2>2
<1>9. rq.written \subseteq Held /\ Held \subseteq LineNos /\ Held' \subseteq LineNos
  <2>1. Held \subseteq LineNos
    BY <1>4, ArcMoves DEF Held
  <2> QED BY <1>3, <1>4, <2>1 DEF ReadRing
<1>10. ASSUME NEW i \in Held' PROVE ReadLine(i)' = ReadLine(i) /\ ReadLine(i) \in Nat
  <2>1. i \in LineNos /\ (Ends => i # r)
    BY <1>4, <1>9, <1>10 DEF Ends
  <2>2. ReadLine(i)' = LineFrom(Popped', rq'.raddr, i)
    BY DEF ReadLine, LineFrom
  <2>3. LineFrom(Popped, rq.raddr, i) \in Nat
    BY <1>6, <1>7, <2>1, ReadLines
  <2>4. CASE Leaves
    <3>1. rq.raddr % 2 = 0 \/ i # r
      <4>1. rq.raddr % 2 \in {0, 1}
        BY <1>7 DEF BeatNos
      <4> QED BY <2>1, <2>4, <4>1 DEF Ends
    <3>2. LineFrom(Popped + 1, (rq.raddr + 1) % (2 * Lines), i) = LineFrom(Popped, rq.raddr, i)
      BY <1>6, <1>7, <2>1, <3>1, ReadLines
    <3> QED BY <1>4, <1>6, <2>2, <2>3, <2>4, <3>2 DEF ReadLine
  <2>5. CASE ~Leaves
    <3>1. Popped' = Popped /\ rq'.raddr = rq.raddr
      BY <1>4, <1>6, <2>5
    <3> QED BY <2>2, <2>3, <3>1 DEF ReadLine
  <2> QED BY <2>4, <2>5
<1>11. /\ Asks = (IF Reserves THEN 2 ELSE 0)
       /\ Reserved \in Int /\ Reserved' = Reserved + Asks /\ Asks \in {0, 2} /\ Asks' \in {0, 2}
  BY SourceMoves
<1>12. state \in Submitting => Asks = 0
  BY <1>3 DEF Room, Asks, HasTag
<1>13. /\ src_count \in Nat
       /\ state' = "READ_SRC" =>
            \/ state = "RUN" /\ src_count' = src_count + 1 /\ src_count # len
            \/ state = "READ_SRC" /\ src_count' = src_count /\ ah' = None
       /\ state' \in {"RUN", "WRITE_DST", "WRITE_WAIT"} =>
            \/ state \in {"RUN", "WRITE_DST", "WRITE_WAIT"} /\ src_count' = src_count
            \/ state = "READ_SRC" /\ src_count' = src_count /\ HasTag(ah, "rdata")'
       /\ HasTag(ah, "rdata")' => state = "READ_SRC" /\ ah'.addr = <<qitem.buf, src_count - 1>>
  BY <1>1, <1>3, SourceTurns, LiveIsQuiet DEF Types
<1>14. /\ Reserved + Asks <= 2 * len
       /\ state \in {"RUN", "WRITE_DST", "WRITE_WAIT"} => 2 * src_count = Reserved + Asks /\ src_count <= len
       /\ state = "READ_SRC" => 2 * (src_count - 1) = Reserved /\ src_count <= len /\ Asks = 0
  BY <1>12 DEF Source, Submitting
<1>15. Asks' = IF HasTag(ah, "rdata")' THEN 2 ELSE 0
  BY DEF Asks
<1>16. Reserved' + Asks' <= 2 * len
  <2>1. CASE HasTag(ah, "rdata")'
    BY <1>11, <1>13, <1>14, <1>15, <2>1
  <2>2. CASE ~HasTag(ah, "rdata")'
    BY <1>11, <1>14, <1>15, <2>2
  <2> QED BY <2>1, <2>2
<1>17. state' \in {"RUN", "WRITE_DST", "WRITE_WAIT"} => 2 * src_count' = Reserved' + Asks' /\ src_count' <= len
  BY <1>11, <1>13, <1>14, <1>15
<1>18. state' = "READ_SRC" => 2 * (src_count' - 1) = Reserved' /\ src_count' <= len
  BY <1>11, <1>13, <1>14
<1>19. HasTag(ah, "rdata")' => ah'.addr[1] = qitem.buf /\ 2 * ah'.addr[2] = Reserved'
  BY <1>11, <1>13, <1>14
<1>20. rsp # None => ~failed /\ rsp.code = "DONE" /\ \E c \in bus : rsp.tag = c.tag /\ Complete(c)
  BY <1>1, ServiceGoesOn
<1>21. \A b \in Data("rdata") : b \in bus /\ b \in Reads /\ b.com = "READ_CL_NA" /\ b.tag = Tag("rdata", b.tag.idx)
                                /\ b.tag.idx \in Held \ rq.written /\ b.beats \in Nat
  <2> SUFFICES ASSUME NEW b \in Data("rdata")
               PROVE  b \in bus /\ b \in Reads /\ b.com = "READ_CL_NA" /\ b.tag = Tag("rdata", b.tag.idx)
                      /\ b.tag.idx \in Held \ rq.written /\ b.beats \in Nat
    OBVIOUS
  <2>1. b \in bus /\ b.tag.kind = "rdata"
    BY DEF Data
  <2>2. b.com = "READ_CL_NA"
    BY <2>1 DEF Names, Matches, Load, Save, Restart, Tag
  <2> QED BY <1>3, <2>1, <2>2 DEF Reads, Commanded, ReadRing, Names
<1>22. \A b \in Data("rdata") : /\ b.addr[1] = qitem.buf /\ b.addr[2] = ReadLine(b.tag.idx) /\ b.beats <= 2
                                /\ \A h \in {0, 1} : h < b.beats =>
                                     rq.mem[2 * b.tag.idx + h] = Beat(qitem.buf, ReadLine(b.tag.idx), h)
  BY DEF Source
<1>23. ASSUME NEW i \in LineNos, NEW h \in {0, 1}
       PROVE  \/ /\ rq'.mem[2 * i + h] = rq.mem[2 * i + h]
                 /\ \A b \in Data("rdata") : b.tag.idx = i /\ b.beats = h => bw = None \/ bw.tag # b.tag
              \/ \E b \in Data("rdata") : /\ Owed(b) /\ b.tag.idx = i /\ b.beats = h
                                          /\ bw # None /\ bw.tag = b.tag
                                          /\ rq'.mem[2 * i + h] = Beat(qitem.buf, ReadLine(i), h)
  BY <1>1, <1>22, ReadMemory
<1>24. ASSUME NEW c \in Data("rdata")'
       PROVE  /\ c.addr[1] = qitem.buf /\ c.addr[2] = ReadLine(c.tag.idx)' /\ c.beats <= 2
              /\ \A h \in {0, 1} : h < c.beats =>
                   rq'.mem[2 * c.tag.idx + h] = Beat(qitem.buf, ReadLine(c.tag.idx)', h)
  <2>1. CASE HasTag(ah, "rdata") /\ c = Fresh /\ c.tag = ah.tag
    <3>1. c.addr = ah.addr /\ c.beats = 0
      BY <2>1 DEF Fresh
    <3>2. Reserves /\ c.tag.idx = w /\ c.tag.idx \in Held'
      BY <1>4, <2>1 DEF Reserves
    <3>3. ah.addr[1] = qitem.buf /\ 2 * ah.addr[2] = Reserved /\ ah.addr[2] \in Int
      BY <2>1 DEF Source, Types
    <3>4. rq.vaddr \in BeatNos /\ rq.vaddr % 2 = 0 /\ Gap(rq.raddr, rq.vaddr) >= 2
      BY <1>3 DEF Registers, ReadRing, Free
    <3>5. 2 * ReadLine(c.tag.idx) = Reserved
      BY <1>6, <1>7, <3>2, <3>4, NextToRead DEF ReadLine, Reserved, Free
    <3>6. ReadLine(c.tag.idx)' = ReadLine(c.tag.idx) /\ ReadLine(c.tag.idx) \in Nat
      BY <1>10, <3>2
    <3>7. ah.addr[2] = ReadLine(c.tag.idx)
      BY <3>3, <3>5, <3>6
    <3> QED BY <3>1, <3>2, <3>3, <3>6, <3>7
  <2>2. CASE \E b \in Data("rdata") : c = Served(b, bw, br) /\ c.tag = b.tag
    <3>1. PICK b \in Data("rdata") : c = Served(b, bw, br) /\ c.tag = b.tag
      BY <2>2
    <3>2. br # None => br.tag # b.tag
      BY <1>3, <1>21, BeatsMove DEF Once
    <3>3. /\ c.addr = b.addr
          /\ c.beats = IF bw # None /\ bw.tag = b.tag THEN b.beats + 1 ELSE b.beats
      BY <3>1, <3>2, ServedNames
    <3>4. b.beats \in Nat /\ b.beats <= 2 /\ b.com = "READ_CL_NA" /\ b.tag.idx \in LineNos /\ b \in bus
      BY <1>9, <1>21, <1>22
    <3>5. bw # None /\ bw.tag = b.tag => b.beats < 2
      <4>1. bw # None => \E d \in Reads : Owed(d) /\ bw.tag = d.tag
        BY BeatsMove
      <4>2. bw # None /\ bw.tag = b.tag => Owed(b)
        BY <1>3, <3>4, <4>1 DEF Once, Reads
      <4> QED BY <3>4, <4>2 DEF Owed, BeatsOf
    <3>6. b.tag.idx \in Held'
      <4>1. Ends => r \in rq.written
        BY <1>4 DEF Ends
      <4> QED BY <1>4, <1>21, <4>1
    <3>7. ReadLine(b.tag.idx)' = ReadLine(b.tag.idx)
      BY <1>10, <3>6
    <3>8. c.beats <= 2
      BY <3>3, <3>4, <3>5
    <3>9. ASSUME NEW h \in {0, 1}, h < c.beats
          PROVE  rq'.mem[2 * b.tag.idx + h] = Beat(qitem.buf, ReadLine(b.tag.idx), h)
      <4>1. CASE rq'.mem[2 * b.tag.idx + h] = rq.mem[2 * b.tag.idx + h] /\ (b.beats = h => bw = None \/ bw.tag # b.tag)
        <5>1. h < b.beats
          BY <3>3, <3>4, <3>9, <4>1
        <5> QED BY <1>22, <4>1, <5>1
      <4> QED BY <1>23, <3>4, <4>1
    <3>10. ReadLine(c.tag.idx)' = ReadLine(b.tag.idx)
      BY <3>1, <3>7
    <3> QED BY <1>22, <3>1, <3>3, <3>8, <3>9, <3>10
  <2>3. \/ HasTag(ah, "rdata") /\ c = Fresh /\ c.tag = ah.tag
        \/ \E b \in Data("rdata") : c = Served(b, bw, br) /\ c.tag = b.tag
    <3>1. Once /\ Commanded
      BY <1>3
    <3>2. Bus(rsp, bw, br)
      BY <1>1
    <3>3. \A d \in Data("rdata")' :
              \/ HasTag(ah, "rdata") /\ d = Fresh /\ d.tag = ah.tag
              \/ \E b \in Data("rdata") : d = Served(b, bw, br) /\ d.tag = b.tag
      <4>1. rsp \in Responses \cup {None}
        OBVIOUS
      <4> QED BY <3>1, <3>2, <4>1, DataStep
    <3> QED BY <3>3
  <2> QED BY <2>1, <2>2, <2>3
<1>25. ASSUME NEW i \in rq'.written, NEW h \in {0, 1}
       PROVE  rq'.mem[2 * i + h] = Beat(qitem.buf, ReadLine(i)', h)
  <2>1. i \in Held /\ i \in Held' /\ i \in LineNos
    BY <1>4, <1>9
  <2>2. ReadLine(i)' = ReadLine(i)
    BY <1>10, <2>1
  <2>3. CASE i \in rq.written
    <3>1. rq.mem[2 * i + h] = Beat(qitem.buf, ReadLine(i), h)
      BY <2>3 DEF Source
    <3>2. \A b \in Data("rdata") : b.tag.idx # i
      BY <1>21, <2>3
    <3> QED BY <1>23, <2>1, <2>2, <3>1, <3>2
  <2>4. CASE i = done /\ done # None
    <3>1. rsp # None /\ rsp.tag.kind = "rdata" /\ rsp.tag.idx = i
      BY <2>4 DEF done, LineAddr, HasTag
    <3>2. PICK c \in bus : rsp.tag = c.tag /\ Complete(c)
      BY <1>20, <3>1
    <3>3. c \in Data("rdata") /\ c.tag.idx = i
      BY <3>1, <3>2 DEF Data
    <3>4. ~Owed(c) /\ c.beats = 2
      BY <1>20, <1>21, <1>22, <3>1, <3>2, <3>3 DEF Complete, Owed, BeatsOf
    <3>5. rq.mem[2 * i + h] = Beat(qitem.buf, ReadLine(i), h)
      BY <1>22, <3>3, <3>4
    <3>6. \A b \in Data("rdata") : b.tag.idx = i => b = c
      BY <1>3, <1>21, <3>3 DEF Once
    <3>7. rq'.mem[2 * i + h] = rq.mem[2 * i + h]
      <4>1. ~ \E b \in Data("rdata") : Owed(b) /\ b.tag.idx = i
        BY <3>4, <3>6
      <4> QED BY <1>23, <2>1, <4>1
    <3> QED BY <2>2, <3>5, <3>7
  <2> QED BY <1>4, <2>3, <2>4
<1>26. rq'.valid => rq'.data = TheBeat(dst_count' + Len(proc'))
  <2>1. CASE Leaves
    <3>1. rq'.data = rq.mem[rq.raddr] /\ r \in rq.written
      BY <1>4, <2>1
    <3>2. rq.raddr % 2 \in {0, 1} /\ rq.raddr = 2 * r + (rq.raddr % 2)
      <4>1. rq.raddr \in Nat
        BY <1>7 DEF BeatNos
      <4> QED BY <4>1
    <3>3. rq.mem[2 * r + (rq.raddr % 2)] = Beat(qitem.buf, ReadLine(r), rq.raddr % 2)
      <4>1. \A h \in {0, 1} : rq.mem[2 * r + h] = Beat(qitem.buf, ReadLine(r), h)
        BY <3>1 DEF Source
      <4> HIDE DEF r
      <4> QED BY <3>2, <4>1
    <3>4. Popped \div 2 = ReadLine(r) /\ Popped % 2 = rq.raddr % 2
      BY <1>4, <1>6, <1>7, ReadLines DEF ReadLine
    <3>5. rq'.data = TheBeat(Popped)
      BY <3>1, <3>2, <3>3, <3>4 DEF TheBeat
    <3> QED BY <1>4, <1>6, <2>1, <3>5
  <2>2. CASE ~Leaves
    <3> SUFFICES ASSUME rq'.valid PROVE rq'.data = TheBeat(dst_count' + Len(proc'))
      OBVIOUS
    <3>1. rq.valid /\ rq'.data = rq.data /\ dst_count' + Len(proc') = dst_count + Len(proc)
      BY <1>4, <1>6, <2>2
    <3> QED BY <3>1 DEF Source
  <2> QED BY <2>1, <2>2
<1>27. \A n : TheBeat(n) = Beat(qitem'.buf, n \div 2, n % 2)
  BY <1>2 DEF TheBeat
<1> QED BY <1>2, <1>5, <1>8, <1>16, <1>17, <1>18, <1>19, <1>24, <1>25, <1>26, <1>27 DEF Source, TheBeat

(* The beats of a processor that only writes are its own.                  *)
LEMMA OwnStep ==
  ASSUME InFlight, Names, Rings, Types, Live, OwnBeats, WriteOnly,
         NEW rsp \in Responses \cup {None}, NEW bw \in BufferWrites \cup {None},
         NEW br \in BufferReads \cup {None}, NEW out \in {None, NextBeat}, NEW trigger, NEW stop,
         Edge(rsp, bw, br, out, trigger, stop)
  PROVE  OwnBeats'
<1> DEFINE done == LineAddr(rsp, "rdata")
<1>1. /\ StateMachine /\ Bus(rsp, bw, br) /\ QitemRead(rsp, bw) /\ ReadQueue(rsp, bw, Ready)
      /\ Processor(out) /\ DstAddr(out)
  BY DEF Edge
<1>2. qitem' = qitem /\ ~clear /\ ~got_qitem
  BY <1>1, ElementStays
<1>3. Registers /\ Commanded /\ Once /\ ReadRing
  BY DEF Rings
<1>4. /\ rq'.written = (rq.written \cup ({done} \ {None})) \ (IF Ends THEN {rq.raddr \div 2} ELSE {})
      /\ rq'.valid <=> Leaves \/ (rq.valid /\ ~Ready)
      /\ Leaves => rq.raddr \div 2 \in rq.written
  BY <1>1, <1>2, <1>3, ReadMoves
<1>5. /\ done # None => \E c \in Data("rdata") : c.tag.idx = done
      /\ \A c \in Data("rdata")' : HasTag(ah, "rdata") \/ Data("rdata") # {}
  <2>1. Once /\ Commanded
    BY <1>3
  <2>2. Bus(rsp, bw, br)
    BY <1>1
  <2> QED BY <2>1, <2>2, DataStep
<1>6. rq'.written = {} /\ ~rq'.valid /\ Data("rdata")' = {}
  BY <1>4, <1>5 DEF OwnBeats
<1>7. state' # "READ_SRC" /\ ~HasTag(ah, "rdata")'
  BY <1>1, <1>3, SourceTurns DEF OwnBeats, Types
<1>8. made' = dst_count' /\ proc' = <<>>
  BY <1>1, <1>2 DEF OwnBeats, Processor, DstAddr
<1> QED BY <1>6, <1>7, <1>8 DEF OwnBeats

(* What the processor puts out is the next beat of the element.            *)
LEMMA NextOut ==
  ASSUME Rings, Types, Live, IF WriteOnly THEN OwnBeats ELSE Source, qitem.job.len \in Nat,
         NEW out \in {None, NextBeat}, out # None
  PROVE  out = TheBeat(dst_count) /\ dst_count < 2 * qitem.job.len
<1>1. dst_count \in Nat
  BY DEF Rings, Registers
<1>2. CASE WriteOnly
  BY <1>1, <1>2 DEF NextBeat, OwnBeats, TheBeat
<1>3. CASE ~WriteOnly
  <2>1. proc \in Seq(Words) /\ proc # <<>> /\ out = Head(proc)
    BY <1>3 DEF NextBeat, Types
  <2>2. Len(proc) \in Nat /\ Len(proc) > 0 /\ out = proc[1]
    BY <2>1
  <2>3. out = TheBeat(dst_count)
    <3>1. proc[1] = TheBeat(dst_count + 1 - 1) /\ dst_count + 1 - 1 = dst_count
      BY <1>1, <1>3, <2>2 DEF Source
    <3> QED BY <2>2, <3>1
  <2>4. Free \in Int /\ Free <= 2 * Lines
    <3>1. /\ rq.raddr \in Nat /\ rq.raddr < 2 * Lines /\ rq.vaddr \in Nat /\ rq.vaddr < 2 * Lines
          /\ Lines \in Nat
      BY Sizes DEF Rings, Registers, BeatNos
    <3> QED BY <3>1 DEF Free, Gap
  <2>5. Reserved <= 2 * qitem.job.len /\ Reserved \in Int
    <3>1. Reserved + Asks <= 2 * qitem.job.len /\ Asks \in {0, 2}
      BY <1>3 DEF Source, Asks
    <3>2. Reserved \in Int
      BY <1>1, <2>2, <2>4, Sizes DEF Reserved, Popped
    <3> QED BY <3>1, <3>2
  <2>6. dst_count + 1 <= Reserved
    BY <1>1, <2>2, <2>4, Sizes DEF Reserved, Popped
  <2> QED BY <1>1, <2>3, <2>5, <2>6
<1> QED BY <1>2, <1>3

(* The beats that are taken stay in their line until it is written.        *)
LEMMA DestinationStep ==
  ASSUME Room, InFlight, Names, Rings, Types, Live, Destination,
         WriteRing', Types', qitem.job.len \in Nat,
         NEW rsp \in Responses \cup {None}, NEW bw \in BufferWrites \cup {None},
         NEW br \in BufferReads \cup {None}, NEW out, NEW trigger, NEW stop,
         Edge(rsp, bw, br, out, trigger, stop),
         out # None => out = TheBeat(dst_count) /\ dst_count < 2 * qitem.job.len
  PROVE  Destination'
<1> DEFINE u == Under
           r == wafifo.raddr
           w == wq.waddr
           buf == qitem.buf
           len == qitem.job.len
<1>1. /\ StateMachine /\ Bus(rsp, bw, br) /\ QitemRead(rsp, bw) /\ WriteQueue(rsp, br, out)
      /\ WriteAddrFifo(out) /\ DstAddr(out) /\ Wdata(br)
  BY DEF Edge
<1>2. qitem' = qitem /\ ~clear /\ ~got_qitem /\ (Writes' <=> Writes)
  BY <1>1, ElementStays DEF Writes
<1>3. Registers /\ Commanded /\ Once /\ WriteRing /\ Resets /\ WQ!Beats \div 2 = Lines
  BY Sizes DEF Rings
<1>4. /\ w \in BeatNos /\ u \in LineNos /\ r \in LineNos /\ dst_count \in Nat
      /\ wafifo.waddr = u /\ u \notin wq.written
      /\ Writes => dst_count % 2 = w % 2
  BY <1>3, NextBeatLine DEF Registers, WriteRing, Under
<1>5. /\ wq'.waddr = IF Takes(out) THEN (w + 1) % (2 * Lines) ELSE w
      /\ wq'.written = (wq.written \cup (IF Puts(out) THEN {u} ELSE {})) \ {wq.comp}
      /\ wq'.mem = IF WqWrite(out) = None THEN wq.mem ELSE [wq.mem EXCEPT ![w] = WqWrite(out)]
      /\ wafifo'.mem = IF Puts(out) THEN [wafifo.mem EXCEPT ![wafifo.waddr] = LineWord] ELSE wafifo.mem
      /\ wafifo'.data = IF Draws THEN wafifo.mem[r] ELSE wafifo.data
  BY <1>1, <1>2, <1>3, <1>4, WriteSideEdge
<1>6. /\ Queued' \cup Offered' \cup Asking' \cup Asked' \subseteq wq'.written
      /\ Under' \notin wq'.written
  BY DEF WriteRing
<1>7. CASE ~Writes
  <2>1. WqWrite(out) = None
    BY <1>7 DEF WqWrite, Writes
  <2>2. ~Takes(out) /\ ~Puts(out)
    BY <2>1 DEF Takes, Puts
  <2>3. wq'.written = {} /\ wq'.waddr = 0
    BY <1>5, <1>7, <2>2 DEF Destination
  <2>4. Queued' = {} /\ Offered' = {} /\ Asking' = {} /\ Asked' = {}
    BY <1>6, <2>3
  <2>5. ~HasTag(ah, "wdata")' /\ Data("wdata")' = {}
    BY <2>4 DEF Asking, Asked
  <2> QED BY <1>2, <1>7, <2>3, <2>4, <2>5 DEF Destination
<1>8. CASE Writes
  <2>1. WqWrite(out) = out /\ (Takes(out) <=> out # None /\ ~wq.full)
    BY <1>8 DEF WqWrite, Writes, Takes
  <2>2. dst_count' = IF Takes(out) THEN dst_count + 1 ELSE dst_count
    BY <1>1, <1>2, <2>1 DEF DstAddr
  <2>3. /\ wq'.waddr % 2 = 1 => ~Puts(out)
        /\ Under' = IF Puts(out) THEN After(u) ELSE u
        /\ Queued' = (Queued \ (IF Draws THEN {r} ELSE {})) \cup (IF Puts(out) THEN {u} ELSE {})
        /\ Draws => r \in Queued /\ Offered' \subseteq {r}
        /\ ~Draws => Offered' \subseteq Offered
        /\ Asking' # {} => Asking' = Offered
    BY <1>1, <1>3, WriteMoves
  <2>4. wq'.written \subseteq LineNos
    BY <1>3, <1>4, <1>5 DEF Registers
  <2>5. ASSUME NEW i \in wq'.written PROVE WriteLine(i)' = WriteLine(i)
    <3>1. i \in LineNos /\ i # Under'
      BY <1>6, <2>4
    <3>2. WriteLine(i)' = LineUpTo(dst_count', wq'.waddr, i)
      BY DEF WriteLine, LineUpTo
    <3>3. CASE Takes(out)
      <4> DEFINE n == (w + 1) % (2 * Lines)
      <4>1. wq'.waddr = n /\ dst_count' = dst_count + 1
        BY <1>5, <2>2, <3>3
      <4>2. Under' = n \div 2
        BY <4>1 DEF Under
      <4>3. LineUpTo(dst_count + 1, n, i) = LineUpTo(dst_count, w, i)
        BY <1>4, <1>8, <3>1, <4>2, WriteLines
      <4> QED BY <3>2, <4>1, <4>3 DEF WriteLine
    <3>4. CASE ~Takes(out)
      BY <1>5, <2>2, <3>2, <3>4 DEF WriteLine
    <3> QED BY <3>3, <3>4
  <2>6. LineUpTo(dst_count, w, u) = dst_count \div 2 /\ WriteLine(u) = dst_count \div 2
    BY <1>4, <1>8, WriteLines DEF WriteLine, Under
  <2>7. w = 2 * u + (w % 2) /\ w % 2 \in {0, 1} /\ w \in Nat /\ u \in Nat
    <3>1. w \in Nat
      BY <1>4 DEF BeatNos
    <3> QED BY <3>1 DEF Under
  <2>8. ASSUME NEW i \in LineNos, NEW h \in {0, 1}
        PROVE  wq'.mem[2 * i + h] = IF out # None /\ w = 2 * i + h THEN out ELSE wq.mem[2 * i + h]
    <3>1. wq.mem = [a \in BeatNos |-> wq.mem[a]] /\ 2 * i + h \in BeatNos
      BY <1>3, Sizes DEF Registers, BeatNos, LineNos
    <3>2. wq'.mem = IF out = None THEN wq.mem ELSE [wq.mem EXCEPT ![w] = out]
      BY <1>5, <2>1
    <3> QED BY <3>1, <3>2
  <2>9. ASSUME NEW i \in wq.written
        PROVE  /\ i \in LineNos /\ i # u
               /\ WriteLine(i) \in 0 .. len - 1
               /\ \A h \in {0, 1} : /\ wq.mem[2 * i + h] = Beat(buf, WriteLine(i), h)
                                    /\ wq'.mem[2 * i + h] = Beat(buf, WriteLine(i), h)
    <3>1. i \in LineNos /\ i # u
      BY <1>3, <1>4 DEF Registers
    <3>2. WriteLine(i) \in 0 .. len - 1
      BY DEF Destination
    <3>3. \A h \in {0, 1} : wq.mem[2 * i + h] = Beat(buf, WriteLine(i), h)
      BY DEF Destination
    <3>4. \A h \in {0, 1} : w # 2 * i + h
      BY <2>7, <3>1 DEF LineNos
    <3> QED BY <2>8, <3>1, <3>2, <3>3, <3>4
  <2>10. Puts(out) =>
           /\ out = Beat(buf, dst_count \div 2, 1) /\ w = 2 * u + 1
           /\ wq.mem[2 * u] = Beat(buf, dst_count \div 2, 0)
           /\ dst_count \div 2 \in 0 .. len - 1
    <3> SUFFICES ASSUME Puts(out)
                 PROVE  /\ out = Beat(buf, dst_count \div 2, 1) /\ w = 2 * u + 1
                        /\ wq.mem[2 * u] = Beat(buf, dst_count \div 2, 0)
                        /\ dst_count \div 2 \in 0 .. len - 1
      OBVIOUS
    <3>1. out # None /\ w % 2 = 1
      BY <2>1 DEF Puts
    <3>2. wq.mem[2 * u] = Beat(buf, dst_count \div 2, 0)
      BY <1>8, <3>1 DEF Destination
    <3>3. dst_count % 2 = 1 /\ dst_count < 2 * len
      BY <1>4, <1>8, <3>1
    <3>4. dst_count \div 2 \in 0 .. len - 1
      BY <1>4, <3>3
    <3> QED BY <2>7, <3>1, <3>2, <3>3, <3>4 DEF TheBeat
  <2>11. wq'.waddr % 2 = 1 => wq'.mem[2 * Under'] = Beat(buf, dst_count' \div 2, 0)
    <3> SUFFICES ASSUME wq'.waddr % 2 = 1 PROVE wq'.mem[2 * u] = Beat(buf, dst_count' \div 2, 0)
      BY <2>3
    <3>1. wq'.mem[2 * u + 0] = IF out # None /\ w = 2 * u + 0 THEN out ELSE wq.mem[2 * u + 0]
      BY <1>4, <2>8
    <3>2. ~Puts(out)
      BY <2>3
    <3>3. CASE Takes(out)
      <4>1. w % 2 = 0 /\ dst_count % 2 = 0 /\ dst_count' = dst_count + 1 /\ out = TheBeat(dst_count)
        BY <1>4, <1>8, <2>1, <2>2, <2>7, <3>2, <3>3 DEF Puts
      <4>2. dst_count' \div 2 = dst_count \div 2
        BY <1>4, <4>1
      <4>3. w = 2 * u + 0 /\ 2 * u + 0 = 2 * u
        BY <2>7, <4>1
      <4> QED BY <2>1, <3>1, <3>3, <4>1, <4>2, <4>3 DEF TheBeat
    <3>4. CASE ~Takes(out)
      <4>1. w % 2 = 1 /\ dst_count' = dst_count
        BY <1>5, <2>2, <3>4
      <4>2. w # 2 * u + 0 /\ 2 * u + 0 = 2 * u
        BY <2>7, <4>1
      <4> QED BY <1>8, <3>1, <4>1, <4>2 DEF Destination
    <3> QED BY <3>3, <3>4
  <2>12. ASSUME NEW i \in wq'.written
         PROVE  /\ WriteLine(i)' \in 0 .. len - 1
                /\ \A h \in {0, 1} : wq'.mem[2 * i + h] = Beat(buf, WriteLine(i)', h)
    <3>1. CASE i \in wq.written
      BY <2>5, <2>9, <3>1
    <3>2. CASE i \notin wq.written
      <4>1. i = u /\ Puts(out)
        BY <1>5, <3>2
      <4>2. /\ out # None
            /\ wq'.mem[2 * u + 0] = wq.mem[2 * u + 0] /\ wq'.mem[2 * u + 1] = out
            /\ 2 * u + 0 = 2 * u
        BY <1>4, <2>1, <2>7, <2>8, <2>10, <4>1 DEF Puts
      <4>3. WriteLine(i)' = dst_count \div 2
        BY <2>5, <2>6, <4>1
      <4> QED BY <2>10, <4>1, <4>2, <4>3
    <3> QED BY <3>1, <3>2
  <2>13. ASSUME NEW i \in Queued' PROVE wafifo'.mem[i].addr = <<buf, WriteLine(i)'>>
    <3>1. i \in wq'.written
      BY <1>6
    <3>2. WriteLine(i)' = WriteLine(i)
      BY <2>5, <3>1
    <3>3. wafifo.mem = [a \in LineNos |-> wafifo.mem[a]]
      BY <1>3 DEF Registers
    <3>4. CASE Puts(out) /\ i = u
      BY <1>4, <1>5, <2>6, <3>2, <3>3, <3>4 DEF LineWord
    <3>5. CASE ~(Puts(out) /\ i = u)
      <4>1. i \in Queued
        BY <2>3, <3>5
      <4>2. i # u
        BY <1>3, <1>4, <4>1 DEF WriteRing
      <4>3. wafifo'.mem[i] = wafifo.mem[i]
        BY <1>4, <1>5, <3>3, <4>2
      <4> QED BY <3>2, <4>1, <4>3 DEF Destination
    <3> QED BY <3>4, <3>5
  <2>14. ASSUME NEW i \in Offered' PROVE wafifo'.data.addr = <<buf, WriteLine(i)'>>
    <3>1. WriteLine(i)' = WriteLine(i)
      BY <1>6, <2>5
    <3>2. CASE Draws
      BY <1>5, <2>3, <3>1, <3>2 DEF Destination
    <3>3. CASE ~Draws
      BY <1>5, <2>3, <3>1, <3>3 DEF Destination
    <3> QED BY <3>2, <3>3
  <2>15. ASSUME HasTag(ah, "wdata")' PROVE ah'.addr = <<buf, WriteLine(ah.tag.idx)'>>
    <3>1. Asking' = {ah'.tag.idx}
      BY <2>15 DEF Asking
    <3>2. PICK i \in wq'.written : i = ah'.tag.idx
      BY <1>6, <3>1
    <3>3. i \in Offered /\ ah'.addr = wafifo.data.addr
      BY <1>1, <2>3, <2>15, <3>1, <3>2, Issues DEF HasTag
    <3>4. ah'.addr = <<buf, WriteLine(i)>>
      BY <3>3 DEF Destination
    <3>5. WriteLine(ah.tag.idx)' = WriteLine(i)'
      BY <3>2
    <3> QED BY <2>5, <3>4, <3>5
  <2>16. ASSUME NEW c \in Data("wdata")'
         PROVE  /\ c.addr = <<buf, WriteLine(c.tag.idx)'>> /\ c.beats <= 2
                /\ \A h \in 1 .. Len(c.buf) : c.buf[h] = Beat(buf, WriteLine(c.tag.idx)', h - 1)
                /\ brtag_last' = c.tag => wq'.data = Beat(buf, WriteLine(c.tag.idx)', Len(c.buf))
    <3>1. c.tag.idx \in wq'.written
      BY <1>6 DEF Asked
    <3>2. WriteLine(c.tag.idx)' = WriteLine(c.tag.idx)
      BY <2>5, <3>1
    <3>3. /\ c.buf \in Seq(Words) /\ Len(c.buf) \in Nat
          /\ c.beats = Len(c.buf) + (IF brtag_last' = c.tag THEN 1 ELSE 0)
      <4>1. c.buf \in Seq(Words) /\ c.beats = Len(c.buf) + (IF brtag_last' = c.tag THEN 1 ELSE 0)
        BY DEF Types
      <4> QED BY <4>1
    <3>4. CASE HasTag(ah, "wdata") /\ c = Fresh /\ c.tag = ah.tag
      <4>1. c.buf = <<>> /\ c.beats = 0 /\ c.addr = ah.addr
        BY <3>4 DEF Fresh
      <4>2. ah.addr = <<buf, WriteLine(c.tag.idx)>>
        BY <3>4 DEF Destination
      <4>3. brtag_last' # c.tag
        BY <3>3, <4>1
      <4> QED BY <3>2, <4>1, <4>2, <4>3
    <3>5. CASE \E b \in Data("wdata") : c = Served(b, bw, br) /\ c.tag = b.tag
      <4>1. PICK b \in Data("wdata") : c = Served(b, bw, br) /\ c.tag = b.tag
        BY <3>5
      <4>2. b \in bus /\ b.tag.kind = "wdata" /\ b.tag # Save /\ b.beats \in Nat
        BY <4>1 DEF Data, Save, Tag, Names
      <4>3. /\ b.addr = <<buf, WriteLine(c.tag.idx)>> /\ b.beats <= 2
            /\ \A h \in 1 .. Len(b.buf) : b.buf[h] = Beat(buf, WriteLine(c.tag.idx), h - 1)
            /\ brtag_last = b.tag => wq.data = Beat(buf, WriteLine(c.tag.idx), Len(b.buf))
        BY <4>1 DEF Destination
      <4>4. /\ b.buf \in Seq(Words) /\ Len(b.buf) \in Nat /\ wq.data \in Words
            /\ b.beats = Len(b.buf) + (IF brtag_last = b.tag THEN 1 ELSE 0)
        <5>1. /\ b.buf \in Seq(Words) /\ wq.data \in Words
              /\ b.beats = Len(b.buf) + (IF brtag_last = b.tag THEN 1 ELSE 0)
          BY <4>1 DEF Types
        <5> QED BY <5>1
      <4>5. bw # None => bw.tag # b.tag
        BY <4>2, BeatsMove
      <4>6. /\ c.addr = b.addr
            /\ c.beats = IF br # None /\ br.tag = b.tag THEN b.beats + 1 ELSE b.beats
        BY <4>1, <4>5, ServedNames
      <4>7. c.buf = IF brtag_last = b.tag THEN Append(b.buf, wq.data) ELSE b.buf
        BY <4>1, <4>2 DEF Served
      <4>8. \A h \in 1 .. Len(c.buf) : c.buf[h] = Beat(buf, WriteLine(c.tag.idx), h - 1)
        <5>1. CASE brtag_last = b.tag
          <6>1. c.buf = Append(b.buf, wq.data) /\ Len(c.buf) = Len(b.buf) + 1
            BY <4>4, <4>7, <5>1
          <6>2. ASSUME NEW h \in 1 .. Len(c.buf) PROVE c.buf[h] = Beat(buf, WriteLine(c.tag.idx), h - 1)
            <7>1. CASE h = Len(b.buf) + 1
              <8>1. c.buf[h] = wq.data /\ h - 1 = Len(b.buf)
                BY <4>4, <6>1, <7>1
              <8> QED BY <4>3, <5>1, <8>1
            <7>2. CASE h # Len(b.buf) + 1
              <8>1. c.buf[h] = b.buf[h] /\ h \in 1 .. Len(b.buf)
                BY <4>4, <6>1, <7>2
              <8> QED BY <4>3, <8>1
            <7> QED BY <7>1, <7>2
          <6> QED BY <6>2
        <5>2. CASE brtag_last # b.tag
          BY <4>3, <4>7, <5>2
        <5> QED BY <5>1, <5>2
      <4>9. br # None /\ br.tag = b.tag => b.beats \in {0, 1} /\ br.half = b.beats
        <5> SUFFICES ASSUME br # None, br.tag = b.tag PROVE b.beats \in {0, 1} /\ br.half = b.beats
          OBVIOUS
        <5>1. PICK d \in bus : Owed(d) /\ br.tag = d.tag /\ br.half = d.beats
          BY BeatsMove
        <5>2. d = b
          BY <1>3, <4>2, <5>1 DEF Once
        <5> QED BY <4>2, <5>1, <5>2, BeatInBuffer
      <4>10. c.beats <= 2
        BY <4>2, <4>3, <4>6, <4>9
      <4>11. ASSUME brtag_last' = c.tag PROVE wq'.data = Beat(buf, WriteLine(c.tag.idx), Len(c.buf))
        <5>1. c.tag # None
          BY <4>1, TagIsNotNone
        <5>2. br # None /\ br.tag = b.tag
          BY <1>1, <4>1, <4>11, <5>1 DEF Wdata
        <5>3. HasTag(br, "wdata") /\ BeatAddr(br) = 2 * c.tag.idx + b.beats
          BY <4>1, <4>2, <4>9, <5>2 DEF HasTag, BeatAddr
        <5>4. c.tag.idx \in wq.written /\ c.tag.idx \in LineNos
          BY <1>3, <4>1 DEF WriteRing, Asked, Registers
        <5>5. BeatAddr(br) # None
          <6>1. BeatAddr(br) \in Nat
            BY <4>9, <5>2, <5>3, <5>4 DEF LineNos
          <6> QED BY <6>1, NoneAssumption
        <5>6. wq'.data = wq.mem[2 * c.tag.idx + b.beats]
          BY <1>1, <5>3, <5>5 DEF WriteQueue, WQ!WqEdge
        <5>7. Len(c.buf) = b.beats
          BY <3>3, <4>2, <4>6, <4>11, <5>2
        <5> QED BY <2>9, <4>9, <5>2, <5>4, <5>6, <5>7
      <4> QED BY <3>2, <4>3, <4>6, <4>8, <4>10, <4>11
    <3>6. \A d \in Data("wdata")' :
            \/ HasTag(ah, "wdata") /\ d = Fresh /\ d.tag = ah.tag
            \/ \E b \in Data("wdata") : d = Served(b, bw, br) /\ d.tag = b.tag
      <4>1. Once /\ Commanded
        BY <1>3
      <4>2. Bus(rsp, bw, br)
        BY <1>1
      <4> QED BY <4>1, <4>2, DataStep
    <3> QED BY <3>4, <3>5, <3>6
  <2> QED BY <1>2, <1>8, <2>11, <2>12, <2>13, <2>14, <2>15, <2>16 DEF Destination
<1> QED BY <1>7, <1>8

(* An element begins with nothing read and nothing written.                *)
LEMMA ContentsBegin ==
  ASSUME NEW rsp, NEW bw, NEW br, NEW out, clear = TRUE, got_qitem, qitem.flag = "ready",
         state = "WAIT_FOR_QUEUE_ITEM", state' = "RUN", ah' = None, bus' = {}, qitem' = qitem,
         qitem.job.len \in Nat, StateMachine, ReadQueue(rsp, bw, Ready), WriteQueue(rsp, br, out),
         WriteAddrFifo(out), DstAddr(out), Processor(out)
  PROVE  Contents'
<1>1. rq'.vaddr = 0 /\ rq'.raddr = 0 /\ rq'.written = {} /\ rq'.valid = FALSE
  BY DEF ReadQueue, RQ!RqEdge, RQ!RqInit
<1>2. wq'.waddr = 0 /\ wq'.written = {}
  BY DEF WriteQueue, WQ!WqEdge
<1>3. wafifo'.empty = TRUE /\ wafifo'.valid = FALSE
  BY DEF WriteAddrFifo, WA!FifoEdge, WA!FifoInit
<1>4. dst_count' = 0 /\ proc' = <<>> /\ made' = 0
  BY DEF DstAddr, Processor
<1>5. src_count' = 0
  BY DEF StateMachine, Idle, LoadQueueItem, WaitForQueueItem, Run, ReadSrc, WriteDst, WriteWait,
       Flush, RestartBus, RestartBusFlush, SaveQueueItem, NextItem, WaitForDone, Done,
       Await, Submit
<1>6. Data("rdata")' = {} /\ Data("wdata")' = {} /\ ~HasTag(ah, "rdata")' /\ ~HasTag(ah, "wdata")'
  BY DEF Data, HasTag
<1>7. OwnBeats'
  BY <1>1, <1>4, <1>6 DEF OwnBeats
<1>8. Source'
  <2>1. Popped' = 0
    BY <1>1, <1>4 DEF Popped
  <2>2. Free' = 2 * Lines /\ Lines \in Nat /\ Lines' = Lines
    BY <1>1, Sizes DEF Free, Gap, Lines
  <2>3. Reserved' = 0 /\ Asks' = 0
    BY <1>6, <2>1, <2>2 DEF Reserved, Asks
  <2>4. (Popped - rq.raddr)' % 2 = 0 /\ Len(proc') = 0
    BY <1>1, <1>4, <2>1
  <2> QED BY <1>1, <1>5, <1>6, <2>3, <2>4 DEF Source
<1>9. Destination'
  <2>1. Queued' = {} /\ Offered' = {}
    BY <1>3 DEF Queued, Offered
  <2> QED BY <1>2, <1>6, <2>1 DEF Destination
<1> QED BY <1>7, <1>8, <1>9 DEF Contents

(* Contents that are in place stay so.                                     *)
LEMMA ContentsStep ==
  ASSUME Room, InFlight, Names, Rings, Rings', Types, Types', Place, Contents,
         NEW rsp \in Responses \cup {None}, NEW bw \in BufferWrites \cup {None},
         NEW br \in BufferReads \cup {None}, NEW out \in {None, NextBeat}, NEW trigger, NEW stop,
         Edge(rsp, bw, br, out, trigger, stop)
  PROVE  Contents'
<1>1. /\ StateMachine /\ Bus(rsp, bw, br) /\ QitemRead(rsp, bw) /\ ReadQueue(rsp, bw, Ready)
      /\ WriteQueue(rsp, br, out) /\ WriteAddrFifo(out) /\ DstAddr(out) /\ Processor(out)
  BY DEF Edge
<1>2. ASSUME NEW k \in Slots PROVE slot[k].job.len \in Nat
  BY RtlAssumption DEF Place, NoJob
<1> SUFFICES ASSUME Live', ~failed' PROVE Contents'
  BY DEF Contents, Serving
<1>3. CASE Live
  <2>1. qitem' = qitem /\ ~failed
    BY <1>1, <1>3, ElementStays, ServiceGoesOn
  <2>2. qitem.job.len \in Nat
    BY <1>2, <1>3 DEF Place, Rings, Registers
  <2>3. (IF WriteOnly THEN OwnBeats ELSE Source) /\ Destination
    BY <1>3, <2>1 DEF Contents, Serving
  <2>4. IF WriteOnly THEN OwnBeats' ELSE Source'
    <3>1. CASE WriteOnly
      BY <1>3, <2>3, <3>1, OwnStep
    <3>2. CASE ~WriteOnly
      BY <1>3, <2>2, <2>3, <3>2, SourceStep
    <3> QED BY <3>1, <3>2
  <2>5. out # None => out = TheBeat(dst_count) /\ dst_count < 2 * qitem.job.len
    BY <1>3, <2>2, <2>3, NextOut
  <2>6. WriteRing'
    BY DEF Rings
  <2>7. Destination'
    BY <1>3, <2>2, <2>3, <2>5, <2>6, DestinationStep
  <2>8. WriteOnly' <=> WriteOnly
    BY <2>1 DEF WriteOnly
  <2> QED BY <2>4, <2>7, <2>8 DEF Contents
<1>4. CASE ~Live
  <2>1. /\ state = "WAIT_FOR_QUEUE_ITEM" /\ got_qitem /\ qitem.flag = "ready"
        /\ state' = "RUN" /\ ah' = None /\ bus = {} /\ bus' = {}
    BY <1>1, <1>4, LiveStep
  <2>2. clear = TRUE
    BY <2>1 DEF Rings, Resets, Registers
  <2>3. qitem' = qitem
    BY <1>1, <2>1 DEF QitemRead, BufferWrites, Reads
  <2>4. qitem.job.len \in Nat
    <3>1. qitem = Element(wed) /\ wed \in Slots
      BY <2>1 DEF Place, Rings, Commanded
    <3> QED BY <1>2, <3>1 DEF Element
  <2> QED BY <1>1, <2>1, <2>2, <2>3, <2>4, ContentsBegin
<1> QED BY <1>3, <1>4

-----------------------------------------------------------------------------
(* A line that reaches memory is one of the element in the block.          *)
LEMMA Landing ==
  ASSUME Names, Rings, Types, Place, Contents, NEW rsp \in Responses \cup {None}, NEW bw, NEW br,
         Bus(rsp, bw, br)
  PROVE  /\ landed' = [k \in Slots |-> landed'[k]]
         /\ \A k \in Slots : \A x \in landed'[k] :
              \/ x \in landed[k]
              \/ slot[k].flag = "ready" /\ x \in Result(k, slot[k].job)
<1> DEFINE over == {c \in bus : rsp # None /\ rsp.tag = c.tag}
           mine(k) == {c \in over : c.tag.kind = "wdata" /\ rsp.code = "DONE" /\ c.addr[1] = k}
<1>1. landed' = [k \in Slots |-> landed[k] \cup {[line |-> c.addr[2], data |-> c.buf] : c \in mine(k)}]
  BY DEF Bus
<1>2. ASSUME NEW k \in Slots, NEW c \in mine(k)
      PROVE  slot[k].flag = "ready" /\ [line |-> c.addr[2], data |-> c.buf] \in Result(k, slot[k].job)
  <2>1. c \in bus /\ rsp # None /\ rsp.tag = c.tag /\ rsp.code = "DONE" /\ c.addr[1] = k
    OBVIOUS
  <2>2. c \in Data("wdata") /\ c.com = "WRITE_NA"
    <3>1. c \in bus /\ c.tag.kind = "wdata"
      OBVIOUS
    <3> QED BY <3>1 DEF Data, Names, Matches, Load, Save, Restart, Tag
  <2> HIDE DEF mine
  <2>3. PICK d \in bus : /\ rsp.tag = d.tag
                         /\ failed => rsp.code = IF d.com = "RESTART" THEN "DONE" ELSE "FLUSHED"
                         /\ ~failed => \/ Complete(d) /\ rsp.code = "DONE"
                                       \/ d.com \in Failing /\ rsp.code = "FAULT"
    BY <2>1, Answered
  <2>4. d = c
    BY <2>1, <2>3 DEF Rings, Once
  <2>5. ~failed /\ Complete(c)
    BY <2>1, <2>2, <2>3, <2>4
  <2>6. Live /\ Destination
    BY <2>2, <2>5 DEF Live, Contents, Serving
  <2> DEFINE n == WriteLine(c.tag.idx)
  <2>7. c.buf \in Seq(Words) /\ Len(c.buf) = 2
    <3>1. c.buf \in Seq(Words)
      BY <2>2 DEF Types
    <3>2. Len(c.buf) = 2
      BY <2>2, <2>5 DEF Complete, Reads, BeatsOf
    <3> QED BY <3>1, <3>2
  <2>8. /\ c.addr = <<qitem.buf, n>>
        /\ \A h \in 1 .. Len(c.buf) : c.buf[h] = Beat(qitem.buf, n, h - 1)
    BY <2>2, <2>6 DEF Destination
  <2>9. k = qitem.buf /\ c.addr[2] = n
    BY <2>1, <2>8
  <2>10. c.tag.idx \in wq.written
    BY <2>2, <2>6 DEF Rings, WriteRing, Asked
  <2>11. Writes /\ n \in 0 .. qitem.job.len - 1
    BY <2>6, <2>10 DEF Destination
  <2> HIDE DEF n
  <2>12. c.buf = <<Beat(k, n, 0), Beat(k, n, 1)>>
    <3>1. c.buf[1] = Beat(k, n, 1 - 1) /\ c.buf[2] = Beat(k, n, 2 - 1)
      BY <2>7, <2>8, <2>9
    <3> QED BY <2>7, <3>1
  <2>13. slot[k].flag = "ready" /\ slot[k].job = qitem.job
    BY <2>6, <2>9 DEF Place
  <2> QED BY <2>9, <2>11, <2>12, <2>13 DEF Result, Writes
<1> HIDE DEF mine
<1> QED BY <1>1, <1>2

(* What the software does to the ring leaves the elements that are READY,  *)
(* and gives away only empty buffers.                                      *)
LEMMA SoftwarePlaces ==
  ASSUME Place, push \in Slots, pop \in Slots, (\E j \in Jobs : Push(j)) \/ Pop \/ PopReturn \/ Stop
  PROVE  /\ slot' = [k \in Slots |-> slot'[k]] /\ landed' = [k \in Slots |-> landed'[k]]
         /\ \A k \in Slots :
              \/ slot'[k] = slot[k] /\ landed'[k] = landed[k]
              \/ /\ slot[k].flag # "ready" /\ landed'[k] = {}
                 /\ slot'[k].job \in Jobs \cup {NoJob} /\ slot'[k].flag \in {"empty", "ready"}
<1>1. ASSUME NEW j \in Jobs, Push(j)
      PROVE  /\ slot' = [k \in Slots |-> slot'[k]] /\ landed' = landed
             /\ \A k \in Slots : slot'[k] = slot[k] \/ (slot[k].flag = "empty" /\ slot'[k].flag = "ready"
                                                         /\ slot'[k].job = j)
  BY <1>1 DEF Push, Place
<1>2. ASSUME Pop
      PROVE  /\ slot' = [k \in Slots |-> slot'[k]] /\ landed' = [k \in Slots |-> landed'[k]]
             /\ \A k \in Slots : \/ slot'[k] = slot[k] /\ landed'[k] = landed[k]
                                 \/ slot[k].flag = "done" /\ slot'[k] = EmptySlot /\ landed'[k] = {}
  BY <1>2 DEF Pop, Place
<1>3. CASE PopReturn \/ Stop
  BY <1>3 DEF PopReturn, Stop, Place
<1>4. CASE Pop
  BY <1>2, <1>4 DEF EmptySlot
<1>5. CASE \E j \in Jobs : Push(j)
  <2>1. PICK j \in Jobs : Push(j)
    BY <1>5
  <2> QED BY <1>1, <2>1 DEF Place
<1> QED BY <1>3, <1>4, <1>5

(* The element in the block stays in place through an edge.                *)
LEMMA PlaceStep ==
  ASSUME "READ_CL_M" \notin Failing,
         InFlight, Names, Faults, Ownership, Rings, Types, Place, Contents,
         NEW rsp \in Responses \cup {None}, NEW bw \in BufferWrites \cup {None},
         NEW br \in BufferReads \cup {None}, NEW out \in {None, NextBeat}, NEW trigger, NEW stop,
         Edge(rsp, bw, br, out, trigger, stop)
  PROVE  Place'
<1>1. /\ StateMachine /\ Bus(rsp, bw, br) /\ QitemRead(rsp, bw)
  BY DEF Edge
<1>2. /\ got_qitem' = (rsp # None /\ rsp.tag.kind = "qitem")
      /\ qitem' = IF bw # None /\ bw.tag.kind = "qitem" /\ bw.half = 0 THEN bw.data ELSE qitem
  BY <1>1 DEF QitemRead
<1>3. /\ slot' = [k \in Slots |-> slot'[k]]
      /\ (\A c \in bus : c.tag # Save) => slot' = slot
      /\ \A k \in Slots : slot'[k].job = slot[k].job /\ slot'[k].flag \in {slot[k].flag, "done"}
  BY <1>1, SlotStep DEF Place, Names
<1>4. /\ landed' = [k \in Slots |-> landed'[k]]
      /\ \A k \in Slots : \A x \in landed'[k] : x \in landed[k] \/ slot[k].flag = "ready"
  BY <1>1, Landing
<1>5. ASSUME NEW k \in Slots
      PROVE  /\ slot'[k].job \in Jobs \cup {NoJob} /\ slot'[k].flag \in {"empty", "ready", "done"}
             /\ slot'[k].flag = "empty" => landed'[k] = {}
  <2>1. slot[k].job \in Jobs \cup {NoJob} /\ slot[k].flag \in {"empty", "ready", "done"}
    BY DEF Place
  <2>2. slot[k].flag = "empty" => landed[k] = {}
    BY DEF Place
  <2> QED BY <1>3, <1>4, <2>1, <2>2
<1>6. ASSUME Live' PROVE slot'[qitem'.buf].flag = "ready" /\ slot'[qitem'.buf].job = qitem'.job
  <2>1. CASE Live
    <3>1. qitem' = qitem
      BY <1>1, <2>1, ElementStays
    <3>2. slot' = slot
      BY <1>3, <2>1, LiveIsQuiet DEF Save, Tag
    <3> QED BY <2>1, <3>1, <3>2 DEF Place
  <2>2. CASE ~Live
    <3>1. state = "WAIT_FOR_QUEUE_ITEM" /\ got_qitem /\ qitem.flag = "ready" /\ bus = {}
      BY <1>1, <1>6, <2>2, LiveStep
    <3>2. qitem' = qitem /\ slot' = slot
      BY <1>2, <1>3, <3>1 DEF BufferWrites, Reads
    <3>3. qitem = Element(wed)
      BY <3>1 DEF Place
    <3> QED BY <3>1, <3>2, <3>3 DEF Element
  <2> QED BY <2>1, <2>2
<1>7. ASSUME state' = "WAIT_FOR_QUEUE_ITEM", got_qitem' \/ \E c \in bus' : c.beats > 0,
             qitem'.flag = "ready"
      PROVE  qitem' = Element(wed)'
  <2>1. CASE state = "LOAD_QUEUE_ITEM"
    <3>1. bus = {} /\ ah = None
      BY <2>1 DEF InFlight, Still
    <3>2. bus' = {} /\ ~got_qitem'
      BY <1>1, <1>2, <3>1, BusContents
    <3> QED BY <1>7, <3>2
  <2>2. CASE state = "WAIT_FOR_QUEUE_ITEM" /\ ~got_qitem
    <3>1. wed' = wed /\ slot' = slot
      BY <1>1, <1>3, <2>2, Walk DEF InFlight, Only, Load, Save, Tag
    <3>2. bus # {}
      <4> SUFFICES ASSUME bus = {} PROVE FALSE
        OBVIOUS
      <4>1. ~got_qitem' /\ (bus' = {} \/ bus' = {Fresh})
        BY <1>1, <1>2, BusContents
      <4>2. Fresh.beats = 0
        BY DEF Fresh
      <4> QED BY <1>7, <4>1, <4>2
    <3>3. PICK c \in bus : bus = {c} /\ ah = None /\ c.com = "READ_CL_M" /\ c.tag = Load
      BY <2>2, <3>2 DEF InFlight, Only
    <3>4. c.addr[1] = wed /\ c.beats \in Nat
      BY <2>2, <3>3 DEF Ownership, Owned, Names
    <3>5. bw # None => bw.tag.kind = "qitem" /\ bw.half = c.beats /\ bw.data = Element(wed)
      BY <3>3, <3>4 DEF BufferWrites, Reads, Load, Tag
    <3>6. Element(wed)' = Element(wed)
      BY <3>1 DEF Element
    <3>7. CASE c.beats > 0
      <4>1. qitem' = qitem
        BY <1>2, <3>5, <3>7
      <4> QED BY <1>7, <2>2, <3>3, <3>6, <3>7, <4>1 DEF Place
    <3>8. CASE c.beats = 0
      <4>1. ~got_qitem'
        <5> SUFFICES ASSUME got_qitem' PROVE FALSE
          OBVIOUS
        <5>1. rsp \in Responses /\ ~failed
          BY <1>2, <2>2 DEF Faults, Streaming
        <5>2. Complete(c)
          BY <3>3, <5>1, Answered
        <5> QED BY <3>3, <3>8, <5>1, <5>2 DEF Complete, Owed, BeatsOf
      <4>2. br = None
        BY <3>3 DEF BufferReads, Reads
      <4>3. bus' = {} \/ bus' = {Served(c, bw, br)}
        BY <1>1, <3>3, BusContents
      <4>4. bw # None
        BY <1>7, <3>8, <4>1, <4>2, <4>3, ServedNames
      <4> QED BY <1>2, <3>5, <3>6, <3>8, <4>4
    <3> QED BY <3>4, <3>7, <3>8
  <2> QED BY <1>1, <1>7, <2>1, <2>2, Moves
<1> QED BY <1>3, <1>4, <1>5, <1>6, <1>7 DEF Place

(* What the queues hold is a matter of the block, the bus and the          *)
(* processor alone.                                                        *)
LEMMA ContentsStay ==
  ASSUME Contents, UNCHANGED <<regs, bus, failed, proc, made>>
  PROVE  Contents'
<1> USE DEF regs
<1>1. (Serving' <=> Serving) /\ (WriteOnly' <=> WriteOnly)
  BY DEF Serving, Live, Data, WriteOnly
<1>2. OwnBeats => OwnBeats'
  BY DEF OwnBeats, Data
<1>3. Source => Source'
  <2>1. Popped' = Popped /\ Reserved' = Reserved /\ Asks' = Asks
    BY DEF Popped, Reserved, Asks, Free
  <2>2. \A i : ReadLine(i)' = ReadLine(i)
    BY DEF ReadLine, LineFrom, Popped
  <2>3. \A p : TheBeat(p)' = TheBeat(p)
    BY DEF TheBeat
  <2> QED BY <2>1, <2>2, <2>3 DEF Source, Data
<1>4. Destination => Destination'
  <2>1. \A i : WriteLine(i)' = WriteLine(i)
    BY DEF WriteLine, LineUpTo
  <2>2. Queued' = Queued /\ Offered' = Offered /\ Under' = Under /\ (Writes' <=> Writes)
    BY DEF Queued, Offered, Under, Writes
  <2> QED BY <2>1, <2>2 DEF Destination, Data
<1> QED BY <1>1, <1>2, <1>3, <1>4 DEF Contents

(* Everything is in its place.                                             *)
InPlace == Place /\ Contents /\ LinesInPlace

LEMMA InPlaceHolds ==
  ASSUME "READ_CL_M" \notin Failing
  PROVE  Spec => []InPlace
<1>1. Init => InPlace
  BY DEF Init, RtlInit, InPlace, Place, Contents, Serving, LinesInPlace, Live, HasTag, Data,
         Streaming, EmptySlot
<1>2. /\ Room /\ InFlight /\ Names /\ Faults /\ Ownership /\ Rings /\ Rings' /\ Types /\ Types'
      /\ Scalars /\ InPlace /\ [Next]_vars
      => InPlace'
  <2> SUFFICES ASSUME Room, InFlight, Names, Faults, Ownership, Rings, Rings', Types, Types',
                      Scalars, InPlace, [Next]_vars
               PROVE  InPlace'
    OBVIOUS
  <2> USE DEF InPlace
  <2>1. CASE UNCHANGED vars
    <3>1. UNCHANGED <<regs, bus, failed, proc, made>> /\ UNCHANGED <<slot, landed>>
      BY <2>1 DEF vars, env
    <3>2. Place' /\ LinesInPlace'
      BY <3>1 DEF Place, LinesInPlace, Live, Data, Element, regs
    <3> QED BY <3>1, <3>2, ContentsStay
  <2>2. CASE (\E j \in Jobs : Push(j)) \/ Pop \/ PopReturn \/ Stop
    <3>1. UNCHANGED <<regs, bus, failed, proc, made>>
      BY <2>2 DEF Push, Pop, PopReturn, Stop
    <3>2. Contents'
      BY <3>1, ContentsStay
    <3>3. push \in Slots /\ pop \in Slots /\ wed \in Slots /\ qitem.buf \in Slots
      BY DEF Scalars, Rings, Registers, Commanded
    <3>4. /\ slot' = [k \in Slots |-> slot'[k]] /\ landed' = [k \in Slots |-> landed'[k]]
          /\ \A k \in Slots :
               \/ slot'[k] = slot[k] /\ landed'[k] = landed[k]
               \/ /\ slot[k].flag # "ready" /\ landed'[k] = {}
                  /\ slot'[k].job \in Jobs \cup {NoJob} /\ slot'[k].flag \in {"empty", "ready"}
      BY <2>2, <3>3, SoftwarePlaces
    <3>5. Place'
      BY <3>1, <3>3, <3>4 DEF Place, Live, Data, Element, regs
    <3>6. LinesInPlace'
      BY <3>4 DEF LinesInPlace
    <3> QED BY <3>2, <3>5, <3>6
  <2>3. CASE Clock
    <3>1. PICK rsp, bw, br, out, trigger, stop :
            /\ rsp \in Responses \cup {None} /\ bw \in BufferWrites \cup {None}
            /\ br \in BufferReads \cup {None} /\ out \in {None, NextBeat}
            /\ Edge(rsp, bw, br, out, trigger, stop)
      BY <2>3 DEF Clock, Cycle, BusEvents
    <3>2. Contents'
      BY <3>1, ContentsStep
    <3>3. Place'
      BY <3>1, PlaceStep
    <3>4. LinesInPlace'
      <4>1. Bus(rsp, bw, br)
        BY <3>1 DEF Edge
      <4>2. \A k \in Slots : slot'[k].job = slot[k].job
        BY <3>1, <4>1, SlotStep DEF Place, Names
      <4>3. \A k \in Slots : \A x \in landed'[k] : x \in landed[k] \/ x \in Result(k, slot[k].job)
        BY <3>1, <4>1, Landing
      <4> QED BY <4>2, <4>3 DEF LinesInPlace
    <3> QED BY <3>2, <3>3, <3>4
  <2> QED BY <2>1, <2>2, <2>3 DEF Next
<1> QED BY <1>1, <1>2, RoomHolds, InFlightHolds, NamesHold, FaultsHold, OwnershipHolds, RingsHold,
           TypesHold, ScalarsHold, PTL DEF Spec

(* Whatever the order in which the bus moves beats and answers commands,   *)
(* and whatever fails but the load of an element, a line that reaches the  *)
(* memory is a line of the job's result: in its own place of its own       *)
(* buffer, with both beats of its source line.                             *)
THEOREM EveryLineInPlace ==
  ASSUME "READ_CL_M" \notin Failing
  PROVE  Spec => []LinesInPlace
BY InPlaceHolds, PTL DEF InPlace

-----------------------------------------------------------------------------
(* What a write-back may promise.  The bytes of an element are fetched     *)
(* when everything is in memory, if no line is skipped on its way: not by  *)
(* the count of the lines read, nor by the samples that end the element.   *)
Working == {"RUN", "READ_SRC", "WRITE_DST", "WRITE_WAIT"}
All == 2 * qitem.job.len
Coming == {c.tag.idx : c \in Data("rdata")}

(* Every line that is reserved is complete or coming, and is counted.      *)
Counted ==
  Serving /\ ~WriteOnly =>
    /\ rd_comp_count \in Nat
    /\ Coming = Held \ rq.written
    /\ 2 * (rd_comp_count + Cardinality(Coming)) = Reserved
    /\ proc_idone => Coming = {} /\ Reserved = All

(* All beats have passed the processor; all lines have been handed over.   *)
Spent    == dst_count = All /\ proc = <<>> /\ ~rq.valid
Finished == Spent /\ Queued = {} /\ Offered = {}

(* What is known after one, two and three samples of DONE_CHECK.  At the   *)
(* first the last beats may still be in the buffer, where nothing holds    *)
(* them up, and a line may be on its way to the command port.              *)
Sampled ==
  /\ flushed => has_room
  /\ state = "WRITE_WAIT" => wafifo_read
  /\ state \in Working /\ WriteOnly => ~last_write
  /\ Serving /\ state \in Working =>
       /\ is_done_d >= 1 =>
            /\ ~WriteOnly => proc_idone
            /\ Popped = All \/ rq.valid
            /\ Offered # {} => state = "WRITE_DST"
       /\ is_done_d >= 2 => (proc # <<>> \/ Spent) /\ Offered = {}
       /\ is_done_d >= 3 \/ is_done => Finished
  /\ state = "FLUSH" /\ error_mask = {} => Finished

(* Each line that the processor has filled is in memory or on its way.     *)
NoneSkipped ==
  Serving /\ Writes => \A n \in 0 .. (dst_count \div 2) - 1 :
    \/ \E r \in landed[qitem.buf] : r.line = n
    \/ \E i \in Queued \cup Offered \cup Asking \cup Asked : WriteLine(i) = n

(* An error ends the element, and with it the service.                     *)
Errors ==
  /\ state = "WAIT_FOR_QUEUE_ITEM" => error_mask = {}
  /\ state \in Streaming /\ error_mask # {} => failed
  /\ state \in {"RESTART_BUS", "RESTART_BUS_FLUSH"} => error_mask # {}

(* dirty says whether a line is in memory or on its way.                   *)
Marked ==
  Serving /\ state \in Streaming =>
    dirty = (landed[qitem.buf] # {} \/ Asking \cup Asked # {} \/ state = "WRITE_DST")

(* The bytes of c are yet to be known.                                     *)
Unsaid(c) == c.tag = Save /\ (c.beats = 0 \/ brtag_last = Save)

(* An element that the block has yet to load has nothing in its buffer.    *)
Untouched ==
  /\ \A c \in bus : c.tag = Save => c.beats <= 1 /\ (Unsaid(c) => c.buf = <<>>)
  /\ state \in Streaming \cup {"RESTART_BUS", "RESTART_BUS_FLUSH", "SAVE_QUEUE_ITEM"}
       => qitem.buf = wed
  /\ \A k \in Slots : slot[k].flag = "ready" /\ landed[k] # {} =>
       \/ state \in Streaming \cup {"RESTART_BUS", "RESTART_BUS_FLUSH", "SAVE_QUEUE_ITEM"} /\ k = wed
       \/ state \in {"WAIT_FOR_DONE", "DONE"}
       \/ state = "NEXT_ITEM" /\ ah # None /\ ah.tag = Save /\ ah.addr[1] = k
       \/ state = "NEXT_ITEM" /\ \E c \in bus : Unsaid(c) /\ c.addr[1] = k

(* What the bytes of an element without errors will be is true of it.      *)
Settled(k) ==
  /\ qitem.buf = k /\ qitem.job = slot[k].job
  /\ landed[k] = Result(k, slot[k].job)
  /\ dirty = (landed[k] # {})
  /\ Spent /\ rq.written = {} /\ (WriteOnly => made = All)
  /\ ~clear /\ ~got_qitem

Truthful ==
  error_mask = {} =>
    /\ state = "SAVE_QUEUE_ITEM" => Settled(wed)
    /\ ah # None /\ ah.tag = Save => Settled(ah.addr[1])
    /\ \A c \in bus : Unsaid(c) => Settled(c.addr[1])

(* The lines that the bus works on: an answer ends one, a command adds one.*)
LEMMA TagsMove ==
  ASSUME Once, Commanded, NEW kind, NEW rsp \in Responses \cup {None}, NEW bw, NEW br, Bus(rsp, bw, br),
         \A c \in Data(kind) : c.tag.idx # None
  PROVE  {c.tag.idx : c \in Data(kind)'} =
           ({c.tag.idx : c \in Data(kind)} \ {LineAddr(rsp, kind)})
             \cup (IF HasTag(ah, kind) THEN {ah.tag.idx} ELSE {})
<1> DEFINE done == LineAddr(rsp, kind)
           over == {c \in bus : rsp # None /\ rsp.tag = c.tag}
<1>1. \A c \in Data(kind)' :
        \/ HasTag(ah, kind) /\ c = Fresh /\ c.tag = ah.tag
        \/ \E b \in Data(kind) : c = Served(b, bw, br) /\ c.tag = b.tag /\ (b.tag.idx # done \/ done = None)
  BY DataStep
<1>2. ASSUME NEW b \in Data(kind), b.tag.idx # done
      PROVE  \E c \in Data(kind)' : c.tag.idx = b.tag.idx
  <2>1. b \in bus /\ b.tag.kind = kind
    BY DEF Data
  <2>2. b \notin over
    BY <1>2, <2>1 DEF LineAddr, HasTag
  <2>3. Served(b, bw, br) \in bus'
    BY <2>1, <2>2 DEF Bus
  <2>4. Served(b, bw, br).tag = b.tag
    BY ServedNames
  <2> QED BY <2>1, <2>3, <2>4 DEF Data
<1>3. HasTag(ah, kind) => \E c \in Data(kind)' : c.tag.idx = ah.tag.idx
  <2> SUFFICES ASSUME HasTag(ah, kind) PROVE \E c \in Data(kind)' : c.tag.idx = ah.tag.idx
    OBVIOUS
  <2>1. Fresh \in bus' /\ Fresh.tag = ah.tag
    BY DEF Bus, Taken, Fresh, HasTag
  <2> QED BY <2>1 DEF Data, HasTag
<1> HIDE DEF done, over
<1>4. ASSUME NEW c \in Data(kind)'
      PROVE  \/ HasTag(ah, kind) /\ c.tag.idx = ah.tag.idx
             \/ \E b \in Data(kind) : b.tag.idx = c.tag.idx /\ b.tag.idx # done
  BY <1>1
<1> QED BY <1>2, <1>3, <1>4 DEF done

(* The count of the lines that are complete keeps up with them.            *)
LEMMA CountedStep ==
  ASSUME InFlight, Names, Rings, Types, Place, Contents, Contents', Counted,
         NEW rsp \in Responses \cup {None}, NEW bw \in BufferWrites \cup {None},
         NEW br \in BufferReads \cup {None}, NEW out \in {None, NextBeat}, NEW trigger, NEW stop,
         Edge(rsp, bw, br, out, trigger, stop)
  PROVE  Counted'
<1>1. /\ StateMachine /\ Bus(rsp, bw, br) /\ QitemRead(rsp, bw) /\ ReadQueue(rsp, bw, Ready)
      /\ DoneCheck(ProcDone) /\ RdCount(rsp) /\ DstAddr(out) /\ Processor(out)
  BY DEF Edge
<1>2. Registers /\ Commanded /\ Once
  BY DEF Rings
<1> SUFFICES ASSUME Serving', ~WriteOnly' PROVE Counted'
  BY DEF Counted
<1>3. CASE Live
  <2> DEFINE w == rq.vaddr \div 2
             r == rq.raddr \div 2
             done == LineAddr(rsp, "rdata")
  <2>1. qitem' = qitem /\ ~clear /\ ~failed
    BY <1>1, <1>3, ElementStays, ServiceGoesOn DEF Serving
  <2>2. Serving /\ ~WriteOnly /\ ReadRing /\ Source /\ All' = All
    BY <1>3, <2>1 DEF Serving, WriteOnly, Rings, Contents, All
  <2>3. /\ rd_comp_count \in Nat /\ Coming = Held \ rq.written
        /\ 2 * (rd_comp_count + Cardinality(Coming)) = Reserved
        /\ proc_idone => Coming = {} /\ Reserved = All
    BY <2>2 DEF Counted
  <2>4. /\ rq'.written = (rq.written \cup ({done} \ {None})) \ (IF Ends THEN {r} ELSE {})
        /\ r \in LineNos /\ w \in LineNos /\ w \notin Held
        /\ Leaves => r \in rq.written
        /\ Reserves => ah.tag.idx = w
        /\ done # None => done \in Held \ rq.written
        /\ Held' = (Held \ (IF Ends THEN {r} ELSE {})) \cup (IF Reserves THEN {w} ELSE {})
    BY <1>1, <1>2, <2>1, <2>2, ReadMoves
  <2>5. Reserved \in Int /\ Reserved' = Reserved + Asks /\ Asks = (IF Reserves THEN 2 ELSE 0)
    BY <1>3, <2>2, SourceMoves
  <2>6. Held \subseteq LineNos /\ None \notin LineNos
    BY <2>4, ArcMoves, Sizes, NoneAssumption DEF Held, LineNos
  <2>7. Coming' = (Coming \ {done}) \cup (IF Reserves THEN {w} ELSE {})
    <3>1. \A c \in Data("rdata") : c.tag.idx \in Coming
      BY DEF Coming
    <3>2. \A c \in Data("rdata") : c.tag.idx # None
      BY <2>3, <2>6, <3>1
    <3>3. Bus(rsp, bw, br) /\ Once /\ Commanded
      BY <1>1, <1>2
    <3>4. {c.tag.idx : c \in Data("rdata")'} = (Coming \ {done}) \cup (IF Reserves THEN {ah.tag.idx} ELSE {})
      BY <3>2, <3>3, TagsMove DEF Coming, Reserves
    <3>5. Coming' = {c.tag.idx : c \in Data("rdata")'}
      BY DEF Coming
    <3> QED BY <2>4, <3>4, <3>5
  <2>8. rd_comp_count' = rd_comp_count + (IF done = None THEN 0 ELSE 1)
    <3>1. HasTag(rsp, "rdata") => done \in Coming
      <4>1. rsp # None => \E c \in bus : rsp.tag = c.tag
        BY <1>1, BusContents
      <4> QED BY <4>1 DEF HasTag, LineAddr, Coming, Data
    <3>2. HasTag(rsp, "rdata") <=> done # None
      BY <2>3, <2>6, <3>1 DEF LineAddr
    <3> QED BY <1>1, <2>1, <2>3, <3>2 DEF RdCount
  <2> HIDE DEF done, w, r
  <2>9. Coming' = Held' \ rq'.written
    <3>1. Ends => r \in rq.written
      BY <2>4 DEF Ends
    <3>2. rq.written \subseteq Held
      BY <2>2 DEF ReadRing
    <3> QED BY <2>3, <2>4, <2>6, <2>7, <3>1, <3>2
  <2>10. /\ IsFiniteSet(Coming) /\ Cardinality(Coming) \in Nat
         /\ Cardinality(Coming') = Cardinality(Coming) - (IF done = None THEN 0 ELSE 1)
                                     + (IF Reserves THEN 1 ELSE 0)
    <3>1. IsFiniteSet(LineNos)
      BY Sizes, FS_Interval DEF LineNos
    <3>2. Coming \in SUBSET LineNos
      BY <2>3, <2>6
    <3>3. IsFiniteSet(Coming) /\ Cardinality(Coming) \in Nat
      BY <3>1, <3>2, FS_Subset, FS_CardinalityType
    <3> DEFINE left == Coming \ {done}
    <3>4. /\ IsFiniteSet(left)
          /\ Cardinality(left) = IF done \in Coming THEN Cardinality(Coming) - 1 ELSE Cardinality(Coming)
      BY <3>3, FS_RemoveElement
    <3>5. done \in Coming <=> done # None
      BY <2>3, <2>4, <2>6
    <3>6. w \notin left
      BY <2>3, <2>4
    <3>7. Coming' = left \cup (IF Reserves THEN {w} ELSE {})
      BY <2>7
    <3> HIDE DEF left
    <3>8. CASE Reserves
      <4>1. Cardinality(left \cup {w}) = Cardinality(left) + 1
        BY <3>4, <3>6, FS_AddElement
      <4>2. Coming' = left \cup {w}
        BY <3>7, <3>8
      <4> QED BY <3>3, <3>4, <3>5, <3>8, <4>1, <4>2
    <3>9. CASE ~Reserves
      <4>1. Coming' = left
        BY <3>7, <3>9
      <4> QED BY <3>3, <3>4, <3>5, <3>9, <4>1
    <3> QED BY <3>8, <3>9
  <2>11. 2 * (rd_comp_count' + Cardinality(Coming')) = Reserved'
    BY <2>3, <2>5, <2>8, <2>10
  <2>12. Reserved + Asks <= All
    BY <2>2 DEF Source, All
  <2>13. ASSUME proc_idone' PROVE Coming = {} /\ Reserved = All
    <3>1. CASE proc_idone
      BY <2>3, <3>1
    <3>2. CASE ~proc_idone
      <4>1. rd_comp_count = qitem.job.len
        BY <1>1, <2>1, <2>2, <2>13, <3>2 DEF DoneCheck, AllRead, WriteOnly
      <4>2. Cardinality(Coming) = 0 /\ Reserved = All
        BY <2>3, <2>5, <2>10, <2>12, <4>1 DEF All
      <4> QED BY <2>10, <4>2, FS_EmptySet
    <3> QED BY <3>1, <3>2
  <2>14. proc_idone' => Coming' = {} /\ Reserved' = All'
    <3> SUFFICES ASSUME proc_idone' PROVE Coming' = {} /\ Reserved' = All'
      OBVIOUS
    <3>1. Asks = 0 /\ ~Reserves
      BY <2>5, <2>12, <2>13
    <3> QED BY <2>2, <2>5, <2>7, <2>13, <3>1
  <2>15. rd_comp_count' \in Nat
    BY <2>3, <2>8
  <2> QED BY <2>9, <2>11, <2>14, <2>15 DEF Counted
<1>4. CASE ~Live
  <2>1. state = "WAIT_FOR_QUEUE_ITEM" /\ state' = "RUN" /\ bus' = {} /\ got_qitem
    BY <1>1, <1>4, LiveStep DEF Serving
  <2>2. clear = TRUE
    BY <2>1 DEF Rings, Resets, Registers
  <2>3. rq'.vaddr = 0 /\ rq'.raddr = 0 /\ rq'.written = {} /\ rq'.valid = FALSE
    BY <1>1, <2>2 DEF ReadQueue, RQ!RqEdge, RQ!RqInit
  <2>4. rd_comp_count' = 0 /\ proc_idone' = FALSE /\ dst_count' = 0 /\ proc' = <<>>
    BY <1>1, <2>1, <2>2 DEF RdCount, DoneCheck, DstAddr, Processor
  <2>5. Coming' = {}
    BY <2>1 DEF Coming, Data
  <2>6. Held' = {}
    BY <2>3, Sizes DEF Held, Arc
  <2>7. Reserved' = 0
    <3>1. Popped' = 0
      BY <2>3, <2>4 DEF Popped
    <3>2. Free' = 2 * Lines /\ Lines \in Nat /\ Lines' = Lines
      BY <2>3, Sizes DEF Free, Gap, Lines
    <3> QED BY <3>1, <3>2 DEF Reserved
  <2>8. Cardinality(Coming') = 0
    BY <2>5, FS_EmptySet
  <2> QED BY <2>3, <2>4, <2>5, <2>6, <2>7, <2>8 DEF Counted
<1> QED BY <1>3, <1>4

(* How the state machine ends an element, and when it commands a line.     *)
LEMMA WorkTurns ==
  ASSUME StateMachine
  PROVE  /\ state' \in Working => state \in Working \/ state = "WAIT_FOR_QUEUE_ITEM"
         /\ state = "RUN" /\ ~is_done /\ WriteTurn /\ state' \in Working => state' = "WRITE_DST"
         /\ state = "WRITE_DST" /\ has_room => wafifo_read'
         /\ state' = "WRITE_WAIT" => wafifo_read'
         /\ state' = "FLUSH" => state = "FLUSH" \/ (state = "RUN" /\ (is_done \/ error_mask # {}))
         /\ state' \in Working /\ WriteOnly /\ (state \in Working => ~last_write) => ~last_write'
<1>1. state' \in Working => state \in Working \/ state = "WAIT_FOR_QUEUE_ITEM"
  BY DEF Working, StateMachine, Idle, LoadQueueItem, WaitForQueueItem, Run, ReadSrc, WriteDst, WriteWait,
       Flush, RestartBus, RestartBusFlush, SaveQueueItem, NextItem, WaitForDone, Done,
       Await, Submit, Goto
<1>2. state = "RUN" /\ ~is_done /\ WriteTurn /\ state' \in Working => state' = "WRITE_DST"
  BY DEF Working, StateMachine, Idle, LoadQueueItem, WaitForQueueItem, Run, ReadSrc, WriteDst, WriteWait,
       Flush, RestartBus, RestartBusFlush, SaveQueueItem, NextItem, WaitForDone, Done,
       Await, Submit, Goto
<1>3. state = "WRITE_DST" /\ has_room => wafifo_read'
  BY DEF StateMachine, Idle, LoadQueueItem, WaitForQueueItem, Run, ReadSrc, WriteDst, WriteWait,
       Flush, RestartBus, RestartBusFlush, SaveQueueItem, NextItem, WaitForDone, Done,
       Await, Submit
<1>4. state' = "WRITE_WAIT" => wafifo_read'
  BY DEF StateMachine, Idle, LoadQueueItem, WaitForQueueItem, Run, ReadSrc, WriteDst, WriteWait,
       Flush, RestartBus, RestartBusFlush, SaveQueueItem, NextItem, WaitForDone, Done,
       Await, Submit, Goto
<1>5. state' = "FLUSH" => state = "FLUSH" \/ (state = "RUN" /\ (is_done \/ error_mask # {}))
  BY DEF StateMachine, Idle, LoadQueueItem, WaitForQueueItem, Run, ReadSrc, WriteDst, WriteWait,
       Flush, RestartBus, RestartBusFlush, SaveQueueItem, NextItem, WaitForDone, Done,
       Await, Submit, Goto
<1>6. state' \in Working /\ WriteOnly /\ (state \in Working => ~last_write) => ~last_write'
  BY DEF Working, WriteOnly, StateMachine, Idle, LoadQueueItem, WaitForQueueItem, Run, ReadSrc, WriteDst,
       WriteWait, Flush, RestartBus, RestartBusFlush, SaveQueueItem, NextItem, WaitForDone, Done,
       Await, Submit, Goto
<1> QED BY <1>1, <1>2, <1>3, <1>4, <1>5, <1>6

(* No more beats are read than were asked for, nor asked for than there    *)
(* are.                                                                    *)
LEMMA ReadBounds ==
  ASSUME NEW p \in Nat, NEW r \in BeatNos, NEW v \in BeatNos, v % 2 = 0, NEW a \in {0, 2}, NEW all \in Nat,
         p + 2 * Lines - Gap(r, v) + a <= all
  PROVE  /\ p <= all
         /\ p = all => a = 0 /\ r = v
<1>1. Gap(r, v) \in 1 .. 2 * Lines /\ Lines \in Nat
  BY GapMoves, Sizes
<1>2. p <= all
  BY <1>1
<1>3. p = all => Gap(r, v) = 2 * Lines /\ a = 0
  BY <1>1
<1>4. Gap(r, v) = 2 * Lines => r = v
  <2>1. r \in Nat /\ r < 2 * Lines /\ v \in Nat /\ v < 2 * Lines /\ Lines \in Nat
    BY Sizes DEF BeatNos
  <2> QED BY <2>1 DEF Gap
<1> QED BY <1>2, <1>3, <1>4

(* When all beats have passed no more come, and when all lines have been   *)
(* handed over none is left to hand over.                                  *)
LEMMA FinishedStays ==
  ASSUME Room, InFlight, Names, Rings, Rings', Types, Types', Place, Contents, Contents', Serving, Serving',
         NEW rsp \in Responses \cup {None}, NEW bw \in BufferWrites \cup {None},
         NEW br \in BufferReads \cup {None}, NEW out \in {None, NextBeat}, NEW trigger, NEW stop,
         Edge(rsp, bw, br, out, trigger, stop)
  PROVE  /\ ~WriteOnly => /\ Popped' \in Nat /\ Popped' <= All
                          /\ Popped' = Popped + (IF Leaves THEN 1 ELSE 0)
         /\ Spent => Spent' /\ out = None
         /\ wafifo.empty /\ out = None => Queued' = {} /\ Offered' \subseteq Offered
         /\ Finished => Finished'
<1>1. /\ StateMachine /\ Bus(rsp, bw, br) /\ QitemRead(rsp, bw) /\ ReadQueue(rsp, bw, Ready)
      /\ WriteQueue(rsp, br, out) /\ WriteAddrFifo(out) /\ DstAddr(out) /\ Processor(out)
  BY DEF Edge
<1>2. Live /\ Live' /\ ~failed /\ ~failed'
  BY DEF Serving
<1>3. qitem' = qitem /\ ~clear /\ ~got_qitem
  BY <1>1, <1>2, ElementStays
<1>4. All' = All /\ All \in Nat /\ (WriteOnly' <=> WriteOnly) /\ dst_count \in Nat /\ dst_count' \in Nat
  <2>1. qitem.buf \in Slots /\ slot[qitem.buf].job = qitem.job
    BY <1>2 DEF Place, Rings, Registers
  <2>2. qitem.job.len \in Nat
    BY <2>1, RtlAssumption DEF Place, NoJob
  <2> QED BY <1>3, <2>2 DEF All, WriteOnly, Rings, Registers
<1>5. ASSUME ~WriteOnly
      PROVE  /\ Source /\ Source'
             /\ Popped' \in Nat /\ Popped' <= All
             /\ Popped' = Popped + (IF Leaves THEN 1 ELSE 0) /\ Popped \in Nat
  <2>1. Source /\ Source'
    BY <1>4, <1>5 DEF Contents
  <2>2. Popped \in Nat /\ Popped' = Popped + (IF Leaves THEN 1 ELSE 0) /\ Asks' \in {0, 2}
    BY <1>2, <1>5, <2>1, SourceMoves
  <2>3. Popped' \in Nat
    BY <2>2
  <2>4. Popped' + 2 * Lines - Gap(rq'.raddr, rq'.vaddr) + Asks' <= All
    <3>1. Reserved' + Asks' <= All'
      BY <2>1 DEF Source, All
    <3>2. Reserved' = Popped' + 2 * Lines - Gap(rq'.raddr, rq'.vaddr)
      BY DEF Reserved, Free, Gap, Lines
    <3> QED BY <1>4, <3>1, <3>2
  <2>5. rq'.raddr \in BeatNos /\ rq'.vaddr \in BeatNos /\ rq'.vaddr % 2 = 0
    BY DEF Rings, Registers, BeatNos, Lines
  <2>6. Popped' <= All
    BY <1>4, <2>2, <2>3, <2>4, <2>5, ReadBounds
  <2> QED BY <2>1, <2>2, <2>3, <2>6
<1>6. ASSUME Spent PROVE Spent' /\ out = None
  <2>1. CASE WriteOnly
    <3>1. OwnBeats /\ OwnBeats'
      BY <1>4, <2>1 DEF Contents
    <3>2. out = None
      <4>1. made = 2 * qitem.job.len /\ ~(made < 2 * qitem.job.len)
        BY <1>4, <1>6, <3>1 DEF OwnBeats, Spent, All
      <4> QED BY <1>3, <2>1, <4>1 DEF NextBeat
    <3>3. dst_count' = dst_count
      BY <1>1, <1>3, <3>2 DEF DstAddr
    <3> QED BY <1>4, <1>6, <3>1, <3>2, <3>3 DEF Spent, OwnBeats
  <2>2. CASE ~WriteOnly
    <3>1. out = None
      BY <1>3, <1>6, <2>2 DEF NextBeat, Spent
    <3>2. dst_count' = dst_count /\ dst_count = All
      BY <1>1, <1>3, <1>6, <3>1 DEF DstAddr, Spent
    <3>3. Popped' <= All /\ Popped' = dst_count' + Len(proc') + (IF rq'.valid THEN 1 ELSE 0)
      BY <1>5, <2>2 DEF Popped
    <3>4. Len(proc') \in Nat /\ (Len(proc') = 0 => proc' = <<>>)
      BY DEF Types
    <3>5. Len(proc') = 0 /\ ~rq'.valid
      BY <1>4, <3>2, <3>3, <3>4
    <3> QED BY <1>4, <3>1, <3>2, <3>4, <3>5 DEF Spent
  <2> QED BY <2>1, <2>2
<1>7. ASSUME wafifo.empty, out = None PROVE Queued' = {} /\ Offered' \subseteq Offered
  <2>1. ~Puts(out) /\ ~Draws
    BY <1>7 DEF Puts, Takes, WqWrite, Draws
  <2>2. /\ Queued' = (Queued \ (IF Draws THEN {wafifo.raddr} ELSE {})) \cup (IF Puts(out) THEN {Under} ELSE {})
        /\ ~Draws => Offered' \subseteq Offered
    BY <1>1, <1>2, WriteMoves DEF Rings
  <2> QED BY <1>7, <2>1, <2>2 DEF Queued
<1>8. ASSUME Finished PROVE Finished'
  <2>1. Spent' /\ out = None
    BY <1>6, <1>8 DEF Finished
  <2>2. wafifo.empty
    <3>1. wafifo.raddr \in LineNos /\ wafifo.waddr \in LineNos
      BY DEF Rings, Registers
    <3>2. wafifo.raddr \in Span(wafifo.raddr, wafifo.waddr)
      BY <3>1, SpanMoves
    <3> QED BY <1>8, <3>2 DEF Finished, Queued
  <2>3. Queued' = {} /\ Offered' \subseteq Offered
    BY <1>7, <2>1, <2>2
  <2> QED BY <1>8, <2>1, <2>3 DEF Finished
<1> QED BY <1>5, <1>6, <1>7, <1>8

(* A sample is taken: what is known after it.                              *)
LEMMA OneSample ==
  ASSUME Room, InFlight, Names, Rings, Rings', Types, Types', Place, Contents, Contents',
         Counted, Sampled, Serving, Serving', state \in Working, state' \in Working,
         NEW rsp \in Responses \cup {None}, NEW bw \in BufferWrites \cup {None},
         NEW br \in BufferReads \cup {None}, NEW out \in {None, NextBeat}, NEW trigger, NEW stop,
         Edge(rsp, bw, br, out, trigger, stop),
         Drained(ProcDone)
  PROVE  /\ ~WriteOnly => proc_idone' /\ proc_idone
         /\ Popped' = All \/ rq'.valid
         /\ Offered' # {} => state' = "WRITE_DST" /\ Offered # {} /\ state # "WRITE_DST"
         /\ Offered' \subseteq Offered
         /\ is_done_d >= 1 => proc' # <<>> \/ Spent'
         /\ is_done_d >= 2 => Finished'
<1>1. /\ StateMachine /\ Bus(rsp, bw, br) /\ QitemRead(rsp, bw) /\ ReadQueue(rsp, bw, Ready)
      /\ WriteQueue(rsp, br, out) /\ WriteAddrFifo(out) /\ DstAddr(out) /\ Processor(out)
      /\ DoneCheck(ProcDone)
  BY DEF Edge
<1>2. /\ ~WriteOnly => /\ Popped' \in Nat /\ Popped' <= All
                       /\ Popped' = Popped + (IF Leaves THEN 1 ELSE 0)
      /\ Spent => Spent' /\ out = None
      /\ wafifo.empty /\ out = None => Queued' = {} /\ Offered' \subseteq Offered
  BY FinishedStays
<1>3. Live /\ qitem' = qitem /\ ~clear /\ ~got_qitem /\ wafifo.empty /\ flushed /\ ProcDone
  BY <1>1, ElementStays DEF Serving, Drained
<1>4. has_room /\ (state = "WRITE_WAIT" => wafifo_read) /\ (is_done => Finished)
  BY <1>3 DEF Sampled
<1>5. Offered' \subseteq Offered
  <2>1. ~Draws
    BY <1>3 DEF Draws
  <2> QED BY <1>1, <1>3, <2>1, WriteMoves DEF Rings
<1>6. ASSUME ~WriteOnly
      PROVE  /\ Source /\ ReadRing /\ proc_idone /\ proc_idone' /\ proc = <<>> /\ Ready
             /\ Coming = {} /\ Reserved = All
  <2>1. Source /\ ReadRing
    BY <1>3, <1>6 DEF Contents, Rings
  <2>2. proc_idone /\ proc = <<>>
    BY <1>3, <1>6 DEF ProcDone
  <2>3. proc_idone'
    BY <1>1, <1>3, <2>2 DEF DoneCheck
  <2>4. Ready
    BY <2>2, RtlAssumption DEF Ready
  <2> QED BY <1>6, <2>1, <2>2, <2>3, <2>4 DEF Counted
<1>7. ASSUME WriteOnly PROVE Spent
  BY <1>3, <1>7 DEF Contents, OwnBeats, ProcDone, Spent, All
<1>8. All' = All /\ dst_count \in Nat
  BY <1>3 DEF All, Rings, Registers
<1>9. Popped' = All \/ rq'.valid
  <2>1. CASE Spent
    <3>1. Spent' /\ dst_count' \in Nat
      BY <1>2, <2>1 DEF Rings, Registers
    <3>2. Popped' = dst_count' + Len(proc') + (IF rq'.valid THEN 1 ELSE 0)
      BY DEF Popped
    <3> QED BY <1>8, <3>1, <3>2 DEF Spent
  <2>2. CASE ~WriteOnly /\ ~Spent
    <3>1. Popped \in Nat
      BY <1>3, <1>6, <2>2, SourceMoves
    <3>2. CASE Popped = All
      BY <1>2, <1>8, <2>2, <3>1, <3>2
    <3>3. CASE Popped # All
      <4>1. rq.raddr \in BeatNos /\ rq.vaddr \in BeatNos /\ rq.vaddr % 2 = 0 /\ Lines \in Nat \ {0, 1}
        BY Sizes DEF Rings, Registers
      <4>2. rq.raddr # rq.vaddr
        <5>1. Gap(rq.vaddr, rq.vaddr) = 2 * Lines
          BY <4>1 DEF Gap, BeatNos
        <5> QED BY <1>6, <2>2, <3>1, <3>3, <4>1, <5>1 DEF Reserved, Free
      <4>3. rq.raddr \div 2 \in rq.written
        <5>1. CASE rq.raddr % 2 = 1
          BY <1>6, <2>2, <5>1 DEF ReadRing
        <5>2. CASE rq.raddr % 2 # 1
          <6>1. rq.raddr \div 2 # rq.vaddr \div 2
            BY <4>1, <4>2, <5>2 DEF BeatNos
          <6>2. rq.raddr \div 2 \in LineNos /\ rq.vaddr \div 2 \in LineNos
            BY <4>1, NextBeatLine
          <6>3. rq.raddr \div 2 \in Held
            BY <6>1, <6>2, ArcMoves DEF Held
          <6>4. Coming = Held \ rq.written
            BY <2>2 DEF Counted
          <6> QED BY <1>6, <2>2, <6>3, <6>4
        <5> QED BY <5>1, <5>2
      <4>4. Leaves
        BY <1>6, <2>2, <4>3 DEF Leaves, RQ!RqPop
      <4>5. rq'.valid <=> Leaves \/ (rq.valid /\ ~Ready)
        BY <1>1, <1>3, <1>6, <2>2, ReadMoves DEF Rings
      <4> QED BY <4>4, <4>5
    <3> QED BY <3>2, <3>3
  <2> QED BY <1>7, <2>1, <2>2
<1>10. ASSUME Offered' # {} PROVE state' = "WRITE_DST" /\ Offered # {} /\ state # "WRITE_DST"
  <2>1. wafifo.valid /\ ~wafifo_read /\ ~wafifo_read' /\ Offered # {}
    BY <1>5, <1>10 DEF Offered
  <2>2. state \notin {"WRITE_WAIT", "WRITE_DST"}
    BY <1>1, <1>4, <2>1, WorkTurns
  <2>3. ~WriteOnly => src_count = qitem.job.len /\ state # "READ_SRC"
    <3> SUFFICES ASSUME ~WriteOnly PROVE src_count = qitem.job.len /\ state # "READ_SRC"
      OBVIOUS
    <3>1. Reserved = 2 * qitem.job.len /\ Asks \in {0, 2}
      BY <1>6 DEF All, Asks
    <3>2. qitem.job.len \in Nat /\ src_count \in Nat
      <4>1. slot[qitem.buf].job = qitem.job /\ qitem.buf \in Slots
        BY <1>3 DEF Place, Rings, Registers
      <4> QED BY <4>1, RtlAssumption DEF Place, NoJob, Types
    <3>3. /\ state = "READ_SRC" => 2 * (src_count - 1) = Reserved /\ src_count <= qitem.job.len
          /\ state \in {"RUN", "WRITE_DST", "WRITE_WAIT"} =>
               2 * src_count = Reserved + Asks /\ src_count <= qitem.job.len
      BY <1>6 DEF Source
    <3>4. state # "READ_SRC"
      BY <3>1, <3>2, <3>3
    <3> QED BY <2>2, <3>1, <3>2, <3>3, <3>4 DEF Working
  <2>4. WriteOnly => ~last_write /\ state # "READ_SRC"
    BY <1>3 DEF Sampled, Contents, OwnBeats
  <2>5. state = "RUN" /\ ~is_done /\ WriteTurn
    BY <1>4, <2>1, <2>2, <2>3, <2>4 DEF Working, Finished, WriteTurn
  <2> QED BY <1>1, <2>1, <2>2, <2>5, WorkTurns
<1>11. ASSUME is_done_d >= 1 PROVE proc' # <<>> \/ Spent'
  <2>1. CASE WriteOnly
    BY <1>2, <1>7, <2>1
  <2>2. CASE ~WriteOnly
    <3>1. Popped = All \/ rq.valid
      BY <1>11 DEF Sampled
    <3>2. CASE rq.valid
      <4>1. /\ Len(proc) \in Nat /\ Len(proc') \in Nat
            /\ dst_count' + Len(proc') = dst_count + Len(proc) + (IF rq.valid /\ Ready THEN 1 ELSE 0)
        BY <1>3, <1>6, <2>2, SourceMoves
      <4>2. out = None
        BY <1>6, <2>2 DEF NextBeat
      <4>3. dst_count' = dst_count
        BY <1>1, <1>3, <4>2 DEF DstAddr
      <4>4. Len(proc) = 0
        BY <1>6, <2>2
      <4>5. Len(proc') = 1
        <5>1. dst_count' + Len(proc') = dst_count + Len(proc) + 1
          BY <1>6, <2>2, <3>2, <4>1
        <5>2. dst_count \in Nat /\ Len(proc') \in Nat /\ dst_count' = dst_count /\ Len(proc) = 0
          BY <1>8, <4>1, <4>3, <4>4
        <5>3. dst_count + Len(proc') = dst_count + 1
          BY <4>3, <4>4, <5>1, <5>2
        <5> DEFINE n == Len(proc')
        <5> HIDE DEF n
        <5>4. n = 1
          <6>1. n \in Nat
            BY <5>2 DEF n
          <6>2. dst_count + n = dst_count + 1
            BY <5>3 DEF n
          <6> QED BY <5>2, <6>1, <6>2
        <5> QED BY <5>4 DEF n
      <4>6. proc' # <<>>
        <5>1. Len(<<>>) # 1
          OBVIOUS
        <5> QED BY <4>5, <5>1
      <4> QED BY <4>6
    <3>3. CASE Popped = All /\ ~rq.valid
      <4>1. Spent
        BY <1>6, <1>8, <2>2, <3>3 DEF Spent, Popped
      <4> QED BY <1>2, <4>1
    <3> QED BY <3>1, <3>2, <3>3
  <2> QED BY <2>1, <2>2
<1>12. ASSUME is_done_d >= 2 PROVE Finished'
  <2>1. (proc # <<>> \/ Spent) /\ Offered = {}
    BY <1>12 DEF Sampled
  <2>2. Spent
    BY <1>6, <1>7, <2>1
  <2> QED BY <1>2, <1>3, <2>1, <2>2 DEF Finished
<1> QED BY <1>5, <1>6, <1>9, <1>10, <1>11, <1>12

(* The samples say what they should after an edge.                         *)
LEMMA SampledStep ==
  ASSUME DoneBits >= 3, Room, InFlight, Names, Faults', Rings, Rings', Types, Types', Scalars,
         Place, Contents, Contents', Counted, Sampled,
         NEW rsp \in Responses \cup {None}, NEW bw \in BufferWrites \cup {None},
         NEW br \in BufferReads \cup {None}, NEW out \in {None, NextBeat}, NEW trigger, NEW stop,
         Edge(rsp, bw, br, out, trigger, stop)
  PROVE  Sampled'
<1>1. /\ StateMachine /\ Bus(rsp, bw, br) /\ QitemRead(rsp, bw) /\ RoomCheck(rsp)
      /\ DoneCheck(ProcDone) /\ ErrorCheck(rsp)
  BY DEF Edge
<1>2. flushed' => has_room'
  <2>1. flushed' => credits = Croom
    BY <1>1 DEF RoomCheck
  <2>2. has_room' = (credits >= 1)
    BY <1>1 DEF RoomCheck
  <2>3. Croom \in Nat /\ Croom >= 1
    BY RtlAssumption
  <2> QED BY <2>1, <2>2, <2>3
<1>3. state' = "WRITE_WAIT" => wafifo_read'
  BY <1>1, WorkTurns
<1>4. state' \in Streaming => Live' /\ (Live \/ state = "WAIT_FOR_QUEUE_ITEM")
  BY <1>1, Moves DEF Live
<1>5. state' \in Streaming => qitem' = qitem
  <2>1. Live => qitem' = qitem
    BY <1>1, ElementStays
  <2>2. Live' /\ ~Live => bus = {}
    BY <1>1, LiveStep
  <2>3. bus = {} => qitem' = qitem
    BY <1>1 DEF QitemRead, BufferWrites, Reads
  <2> QED BY <1>4, <2>1, <2>2, <2>3
<1>6. state' \in Working /\ WriteOnly' => ~last_write'
  <2> SUFFICES ASSUME state' \in Working, WriteOnly' PROVE ~last_write'
    OBVIOUS
  <2>1. WriteOnly
    BY <1>5 DEF WriteOnly, Working, Streaming
  <2>2. state \in Working => ~last_write
    BY <2>1 DEF Sampled
  <2> QED BY <1>1, <2>1, <2>2, WorkTurns
<1>7. ASSUME Serving', state' \in Working, ~Live
      PROVE  is_done_d' = 0 /\ ~is_done'
  <2>1. state = "WAIT_FOR_QUEUE_ITEM"
    BY <1>4, <1>7 DEF Working, Streaming
  <2>2. clear = TRUE
    BY <2>1 DEF Rings, Resets, Registers
  <2> QED BY <1>1, <2>2 DEF DoneCheck
<1>8. ASSUME Serving', state' \in Working, Live
      PROVE  /\ is_done_d' >= 1 =>
                  /\ ~WriteOnly' => proc_idone'
                  /\ Popped' = All' \/ rq'.valid
                  /\ Offered' # {} => state' = "WRITE_DST"
             /\ is_done_d' >= 2 => (proc' # <<>> \/ Spent') /\ Offered' = {}
             /\ is_done_d' >= 3 \/ is_done' => Finished'
  <2>1. Serving /\ ~clear /\ qitem' = qitem
    BY <1>1, <1>8, ElementStays, ServiceGoesOn DEF Serving
  <2>2. state \in Working
    BY <1>1, <1>8, WorkTurns, LiveIsQuiet
  <2>3. /\ is_done' = (is_done_d = DoneBits)
        /\ is_done_d' = IF ~Drained(ProcDone) THEN 0
                        ELSE IF is_done_d = DoneBits THEN DoneBits ELSE is_done_d + 1
        /\ is_done_d \in 0 .. DoneBits /\ DoneBits \in Nat
    BY <1>1, <2>1, RtlAssumption DEF DoneCheck, Scalars
  <2>4. is_done' => Finished'
    <3> SUFFICES ASSUME is_done' PROVE Finished'
      OBVIOUS
    <3>1. is_done_d >= 3
      BY <2>3
    <3>2. Finished
      BY <2>1, <2>2, <3>1 DEF Sampled
    <3> QED BY <1>8, <2>1, <3>2, FinishedStays
  <2>5. CASE ~Drained(ProcDone)
    BY <2>3, <2>4, <2>5
  <2>6. CASE Drained(ProcDone)
    <3>1. /\ ~WriteOnly => proc_idone' /\ proc_idone
          /\ Popped' = All \/ rq'.valid
          /\ Offered' # {} => state' = "WRITE_DST" /\ Offered # {} /\ state # "WRITE_DST"
          /\ is_done_d >= 1 => proc' # <<>> \/ Spent'
          /\ is_done_d >= 2 => Finished'
      BY <1>8, <2>1, <2>2, <2>6, OneSample
    <3>2. All' = All /\ (WriteOnly' <=> WriteOnly)
      BY <2>1 DEF All, WriteOnly
    <3>3. is_done_d' >= 2 => is_done_d >= 1
      BY <2>3
    <3>4. is_done_d' >= 3 => is_done_d >= 2
      BY <2>3
    <3>5. is_done_d >= 1 => (Offered # {} => state = "WRITE_DST")
      BY <2>1, <2>2 DEF Sampled
    <3> QED BY <2>4, <3>1, <3>2, <3>3, <3>4, <3>5
  <2> QED BY <2>5, <2>6
<1>9. state' = "FLUSH" /\ error_mask' = {} => Finished'
  <2> SUFFICES ASSUME state' = "FLUSH", error_mask' = {} PROVE Finished'
    OBVIOUS
  <2>1. state = "FLUSH" \/ (state = "RUN" /\ (is_done \/ error_mask # {}))
    BY <1>1, WorkTurns
  <2>2. error_mask = {}
    BY <1>1, <2>1 DEF ErrorCheck
  <2>3. Serving'
    BY <1>4 DEF Serving, Faults, Streaming
  <2>4. Serving
    BY <1>1, <2>1, <2>3, ServiceGoesOn DEF Serving, Live, Streaming
  <2>5. Finished
    BY <2>1, <2>2, <2>4 DEF Sampled, Working
  <2> QED BY <2>3, <2>4, <2>5, FinishedStays
<1> QED BY <1>2, <1>3, <1>6, <1>7, <1>8, <1>9 DEF Sampled

(* What an edge adds to the memory: the line whose write is answered.      *)
LEMMA Landed ==
  ASSUME Names, Rings, Place, Contents,
         NEW rsp \in Responses \cup {None}, NEW bw, NEW br, Bus(rsp, bw, br)
  PROVE  \A k \in Slots :
           /\ landed[k] \subseteq landed'[k]
           /\ landed'[k] # landed[k] => /\ Serving /\ k = qitem.buf
                                        /\ \E c \in Data("wdata") : rsp # None /\ rsp.tag = c.tag
           /\ \A c \in Data("wdata") :
                rsp # None /\ rsp.tag = c.tag /\ rsp.code = "DONE" /\ c.addr[1] = k
                  => \E x \in landed'[k] : x.line = c.addr[2]
<1> DEFINE over == {c \in bus : rsp # None /\ rsp.tag = c.tag}
           mine(k) == {c \in over : c.tag.kind = "wdata" /\ rsp.code = "DONE" /\ c.addr[1] = k}
<1> TAKE k \in Slots
<1>1. landed'[k] = landed[k] \cup {[line |-> c.addr[2], data |-> c.buf] : c \in mine(k)}
  BY DEF Bus
<1>2. ASSUME NEW c \in mine(k)
      PROVE  c \in Data("wdata") /\ rsp # None /\ rsp.tag = c.tag /\ Serving /\ k = qitem.buf
  <2>1. c \in bus /\ rsp # None /\ rsp.tag = c.tag /\ rsp.code = "DONE" /\ c.addr[1] = k
    OBVIOUS
  <2>2. c \in Data("wdata") /\ c.com # "RESTART"
    <3>1. c \in bus /\ c.tag.kind = "wdata"
      OBVIOUS
    <3> QED BY <3>1 DEF Data, Names, Matches, Load, Save, Restart, Tag
  <2> HIDE DEF mine
  <2>3. PICK d \in bus : /\ rsp.tag = d.tag
                         /\ failed => rsp.code = IF d.com = "RESTART" THEN "DONE" ELSE "FLUSHED"
    BY <2>1, Answered
  <2>4. d = c
    BY <2>1, <2>3 DEF Rings, Once
  <2>5. Serving
    BY <2>1, <2>2, <2>3, <2>4 DEF Serving, Live
  <2>6. c.addr = <<qitem.buf, WriteLine(c.tag.idx)>>
    BY <2>2, <2>5 DEF Contents, Destination
  <2> QED BY <2>1, <2>2, <2>5, <2>6
<1>3. ASSUME NEW c \in Data("wdata"), rsp # None, rsp.tag = c.tag, rsp.code = "DONE", c.addr[1] = k
      PROVE  \E x \in landed'[k] : x.line = c.addr[2]
  <2>1. c \in mine(k)
    BY <1>3 DEF Data
  <2> HIDE DEF mine
  <2>2. [line |-> c.addr[2], data |-> c.buf] \in landed'[k]
    BY <1>1, <2>1
  <2> QED BY <2>2
<1> HIDE DEF mine
<1> QED BY <1>1, <1>2, <1>3

(* An answer ends the write of a line, and the line is in memory.          *)
LEMMA AskedMoves ==
  ASSUME InFlight, Names, Rings, Place, Contents, Serving, ~failed',
         NEW rsp \in Responses \cup {None}, NEW bw, NEW br, Bus(rsp, bw, br)
  PROVE  /\ Asked' = (Asked \ {LineAddr(rsp, "wdata")}) \cup Asking
         /\ \A i \in Asked : i = LineAddr(rsp, "wdata")
              => \E x \in landed'[qitem.buf] : x.line = WriteLine(i)
<1>1. Registers /\ Commanded /\ Once /\ WriteRing /\ Destination
  BY DEF Rings, Serving, Contents
<1>2. \A c \in Data("wdata") : c.tag.idx # None
  <2>1. \A c \in Data("wdata") : c.tag.idx \in LineNos
    BY <1>1 DEF WriteRing, Asked, Registers
  <2> QED BY <2>1, Sizes, NoneAssumption DEF LineNos
<1>3. Asked' = (Asked \ {LineAddr(rsp, "wdata")}) \cup Asking
  <2>1. {c.tag.idx : c \in Data("wdata")'} = (Asked \ {LineAddr(rsp, "wdata")}) \cup Asking
    BY <1>1, <1>2, TagsMove DEF Asked, Asking
  <2> QED BY <2>1 DEF Asked
<1>4. ASSUME NEW i \in Asked, i = LineAddr(rsp, "wdata")
      PROVE  \E x \in landed'[qitem.buf] : x.line = WriteLine(i)
  <2>1. PICK c \in Data("wdata") : c.tag.idx = i
    BY <1>4 DEF Asked
  <2>2. HasTag(rsp, "wdata") /\ rsp.tag.idx = i
    BY <1>2, <1>4, <2>1 DEF LineAddr
  <2>3. rsp.code = "DONE" /\ \E d \in bus : rsp.tag = d.tag
    BY <2>2, ServiceGoesOn DEF Serving, HasTag
  <2>4. PICK d \in bus : rsp.tag = d.tag
    BY <2>3
  <2>5. d.tag = Tag("wdata", i) /\ c.tag = Tag("wdata", i)
    BY <1>1, <2>1, <2>2, <2>4 DEF Commanded, HasTag, Data
  <2>6. c.addr[1] = qitem.buf /\ c.addr[2] = WriteLine(i) /\ qitem.buf \in Slots
    <3>1. c.addr = <<qitem.buf, WriteLine(i)>>
      BY <1>1, <2>1 DEF Destination
    <3> QED BY <1>1, <3>1 DEF Registers
  <2>7. rsp # None /\ rsp.tag = c.tag
    BY <2>2, <2>4, <2>5 DEF HasTag
  <2>8. \E x \in landed'[qitem.buf] : x.line = c.addr[2]
    BY <2>3, <2>6, <2>7, Landed
  <2> QED BY <2>6, <2>8
<1> QED BY <1>3, <1>4

(* The fifo is read where a line is written.                               *)
LEMMA Reading == ASSUME StateMachine, wafifo_read' PROVE state = "WRITE_DST"
BY DEF StateMachine, Idle, LoadQueueItem, WaitForQueueItem, Run, ReadSrc, WriteDst, WriteWait,
       Flush, RestartBus, RestartBusFlush, SaveQueueItem, NextItem, WaitForDone, Done,
       Await, Submit

(* A line leaves the address fifo only for the command port.               *)
LEMMA Hands ==
  ASSUME StateMachine, wafifo_read', Registers, WriteRing, Destination, ~wafifo_read, wafifo.valid
  PROVE  HasTag(ah', "wdata") /\ ah'.tag.idx = wafifo.data.idx /\ Offered = {wafifo.data.idx}
<1>1. /\ state = "WRITE_DST"
      /\ ah' = [com |-> "WRITE_NA", tag |-> Tag("wdata", wafifo.data.idx), addr |-> wafifo.data.addr]
  BY DEF StateMachine, Idle, LoadQueueItem, WaitForQueueItem, Run, ReadSrc, WriteDst, WriteWait,
       Flush, RestartBus, RestartBusFlush, SaveQueueItem, NextItem, WaitForDone, Done,
       Await, Submit
<1>2. Offered = {wafifo.data.idx}
  BY DEF Offered
<1> DEFINE i == wafifo.data.idx
<1>3. i \in LineNos
  BY <1>2 DEF WriteRing, Registers
<1>4. wafifo.data.addr = <<qitem.buf, WriteLine(i)>> /\ qitem.buf \in Nat /\ i \in Nat
  BY <1>2, <1>3 DEF Destination, Registers, Slots, LineNos
<1>5. WriteLine(i) \in Int
  BY <1>2, RtlAssumption DEF Destination, WriteRing
<1>6. ah' \in [com : ComNames, tag : TagNames, addr : Nat \X Int]
  BY <1>1, <1>4, <1>5 DEF ComNames, TagNames, Tag
<1>7. ah' # None
  BY <1>6, NoneAssumption
<1> QED BY <1>1, <1>2, <1>7 DEF HasTag, Tag

(* No line that the processor has filled is skipped by an edge.            *)
LEMMA NoneSkippedStep ==
  ASSUME Room, InFlight, Names, Rings, Rings', Types, Place, Contents, NoneSkipped,
         NEW rsp \in Responses \cup {None}, NEW bw \in BufferWrites \cup {None},
         NEW br \in BufferReads \cup {None}, NEW out \in {None, NextBeat}, NEW trigger, NEW stop,
         Edge(rsp, bw, br, out, trigger, stop)
  PROVE  NoneSkipped'
<1>1. /\ StateMachine /\ Bus(rsp, bw, br) /\ QitemRead(rsp, bw)
      /\ WriteQueue(rsp, br, out) /\ WriteAddrFifo(out) /\ DstAddr(out)
  BY DEF Edge
<1>2. Registers /\ Commanded /\ Once /\ Resets /\ WQ!Beats \div 2 = Lines
  BY Sizes DEF Rings
<1> SUFFICES ASSUME Serving', Writes', NEW n \in 0 .. (dst_count' \div 2) - 1
             PROVE  \/ \E r \in landed'[qitem'.buf] : r.line = n
                    \/ \E i \in Queued' \cup Offered' \cup Asking' \cup Asked' : WriteLine(i)' = n
  BY DEF NoneSkipped
<1>3. CASE ~Live
  <2>1. got_qitem
    BY <1>1, <1>3, LiveStep DEF Serving
  <2>2. dst_count' = 0
    BY <1>1, <2>1 DEF DstAddr
  <2> QED BY <2>2
<1>4. CASE Live
  <2> DEFINE u == Under
             w == wq.waddr
  <2>1. qitem' = qitem /\ ~clear /\ ~got_qitem /\ ~failed
    BY <1>1, <1>4, ElementStays, ServiceGoesOn DEF Serving
  <2>2. Serving /\ Writes /\ WriteRing /\ WriteRing' /\ Destination
    BY <1>4, <2>1 DEF Serving, Writes, Rings, Contents
  <2>3. w \in BeatNos /\ u \in LineNos /\ dst_count \in Nat /\ dst_count % 2 = w % 2 /\ w \in Nat
    <3>1. w \in BeatNos /\ dst_count \in Nat
      BY <1>2 DEF Registers
    <3> QED BY <2>2, <3>1, NextBeatLine DEF WriteRing, Under, BeatNos
  <2>4. /\ wq'.waddr = IF Takes(out) THEN (w + 1) % (2 * Lines) ELSE w
        /\ wq'.written = (wq.written \cup (IF Puts(out) THEN {u} ELSE {})) \ {wq.comp}
    BY <1>1, <1>2, <2>1, <2>2, <2>3, WriteSideEdge DEF WriteRing
  <2>5. /\ Queued' = (Queued \ (IF Draws THEN {wafifo.raddr} ELSE {})) \cup (IF Puts(out) THEN {u} ELSE {})
        /\ Asking' # {} => Asking' = Offered /\ Offered' = {}
    BY <1>1, <1>2, <1>4, <2>2, WriteMoves
  <2>6. \A i \in wq'.written : WriteLine(i)' = WriteLine(i)
    <3> SUFFICES ASSUME NEW i \in wq'.written PROVE WriteLine(i)' = WriteLine(i)
      OBVIOUS
    <3>1. i \in LineNos /\ i # Under'
      BY <2>2 DEF Rings, Registers, WriteRing
    <3>2. WriteLine(i)' = LineUpTo(dst_count', wq'.waddr, i)
      BY DEF WriteLine, LineUpTo
    <3>3. CASE Takes(out)
      <4> DEFINE m == (w + 1) % (2 * Lines)
      <4>1. wq'.waddr = m /\ dst_count' = dst_count + 1
        BY <1>1, <2>1, <2>4, <3>3 DEF DstAddr, Takes, WqWrite
      <4>2. Under' = m \div 2
        BY <4>1 DEF Under
      <4>3. LineUpTo(dst_count + 1, m, i) = LineUpTo(dst_count, w, i)
        BY <2>3, <3>1, <4>2, WriteLines
      <4> QED BY <3>2, <4>1, <4>3 DEF WriteLine
    <3>4. CASE ~Takes(out)
      <4>1. wq'.waddr = w
        BY <2>4, <3>4
      <4>2. dst_count' = dst_count
        BY <1>1, <2>1, <2>2, <3>4 DEF DstAddr, Takes, WqWrite, Writes
      <4> QED BY <3>2, <4>1, <4>2 DEF WriteLine
    <3> QED BY <3>3, <3>4
  <2>7. Queued' \cup Offered' \cup Asking' \cup Asked' \subseteq wq'.written
    BY <2>2 DEF WriteRing
  <2>8. CASE n < dst_count \div 2
    <3>1. n \in 0 .. (dst_count \div 2) - 1
      BY <2>3, <2>8
    <3>2. CASE \E r \in landed[qitem.buf] : r.line = n
      <4>1. landed[qitem.buf] \subseteq landed'[qitem.buf]
        BY <1>1, <1>2, Landed DEF Registers
      <4> QED BY <2>1, <3>2, <4>1
    <3>3. CASE \E i \in Queued \cup Offered \cup Asking \cup Asked : WriteLine(i) = n
      <4>1. PICK i \in Queued \cup Offered \cup Asking \cup Asked : WriteLine(i) = n
        BY <3>3
      <4>2. ASSUME i \in Queued' \cup Offered' \cup Asking' \cup Asked'
            PROVE  \E j \in Queued' \cup Offered' \cup Asking' \cup Asked' : WriteLine(j)' = n
        BY <2>6, <2>7, <4>1, <4>2
      <4>3. CASE i \in Queued
        <5>1. CASE ~Draws \/ i # wafifo.raddr
          BY <2>5, <4>2, <4>3, <5>1
        <5>2. CASE Draws /\ i = wafifo.raddr
          <6>1. wafifo'.valid /\ wafifo'.data = wafifo.mem[i]
            BY <1>1, <1>2, <2>1, <2>2, <2>3, <5>2, WriteSideEdge DEF WriteRing
          <6>2. wafifo.mem[i].idx = i
            BY <2>2, <4>3 DEF WriteRing
          <6>3. ~wafifo_read'
            <7>1. wafifo_read' => state = "WRITE_DST"
              BY <1>1, Reading
            <7> QED BY <1>2, <2>2, <5>2, <7>1 DEF Draws, Resets, WriteRing
          <6>4. i \in Offered'
            BY <6>1, <6>2, <6>3 DEF Offered
          <6> QED BY <4>2, <6>4
        <5> QED BY <5>1, <5>2
      <4>4. CASE i \in Offered
        <5>1. wafifo.valid /\ ~wafifo_read /\ i = wafifo.data.idx /\ ~Draws
          BY <4>4 DEF Offered, Draws
        <5>2. wafifo'.valid /\ wafifo'.data = wafifo.data
          BY <1>1, <1>2, <2>1, <2>2, <2>3, <5>1, WriteSideEdge DEF WriteRing
        <5>3. CASE wafifo_read'
          <6>1. HasTag(ah', "wdata") /\ ah'.tag.idx = i
            BY <1>1, <1>2, <2>2, <5>1, <5>3, Hands
          <6> QED BY <4>2, <6>1 DEF Asking
        <5>4. CASE ~wafifo_read'
          BY <4>2, <5>1, <5>2, <5>4 DEF Offered
        <5> QED BY <5>3, <5>4
      <4>5. CASE i \in Asking \cup Asked
        <5>1. Asked' = (Asked \ {LineAddr(rsp, "wdata")}) \cup Asking
          BY <1>1, <2>2, AskedMoves DEF Serving
        <5>2. i \notin Asking /\ i = LineAddr(rsp, "wdata") => \E x \in landed'[qitem.buf] : x.line = n
          BY <1>1, <2>2, <4>1, <4>5, AskedMoves DEF Serving
        <5> QED BY <2>1, <4>2, <4>5, <5>1, <5>2
      <4> QED BY <4>1, <4>3, <4>4, <4>5
    <3> QED BY <2>2, <3>1, <3>2, <3>3 DEF NoneSkipped
  <2>9. CASE ~(n < dst_count \div 2)
    <3>1. dst_count' = dst_count + 1 /\ Takes(out)
      <4>1. dst_count' = dst_count \/ (dst_count' = dst_count + 1 /\ Takes(out))
        BY <1>1, <2>1, <2>2 DEF DstAddr, Takes, WqWrite, Writes
      <4>2. dst_count' # dst_count
        BY <2>3, <2>9
      <4> QED BY <4>1, <4>2
    <3>2. dst_count % 2 = 1 /\ n = dst_count \div 2
      BY <2>3, <2>9, <3>1
    <3>3. Puts(out) /\ u \in Queued'
      BY <2>3, <2>5, <3>1, <3>2 DEF Puts
    <3>4. WriteLine(u) = n
      BY <2>3, <3>2, WriteLines DEF WriteLine, Under
    <3> QED BY <2>6, <2>7, <3>3, <3>4
  <2> QED BY <2>8, <2>9
<1> QED BY <1>3, <1>4

(* How errors end an element.                                              *)
LEMMA ErrorsStep ==
  ASSUME "READ_CL_M" \notin Failing, InFlight, Names, Faults, Errors,
         NEW rsp \in Responses \cup {None}, NEW bw \in BufferWrites \cup {None},
         NEW br \in BufferReads \cup {None}, NEW out, NEW trigger, NEW stop,
         Edge(rsp, bw, br, out, trigger, stop)
  PROVE  Errors'
<1>1. /\ StateMachine /\ Bus(rsp, bw, br)
      /\ error_mask' = IF state = "LOAD_QUEUE_ITEM" THEN {}
                       ELSE error_mask \cup (IF rsp = None THEN {} ELSE {rsp.code} \ {"DONE"})
      /\ failed' = IF rsp = None \/ rsp.code = "FLUSHED" THEN failed ELSE rsp.code = "FAULT"
  BY DEF Edge, ErrorCheck, Bus
<1>2. ASSUME state' = "WAIT_FOR_QUEUE_ITEM" PROVE error_mask' = {}
  <2>1. CASE state = "LOAD_QUEUE_ITEM"
    BY <1>1, <2>1
  <2>2. CASE state = "WAIT_FOR_QUEUE_ITEM"
    <3>1. error_mask = {} /\ ~failed
      BY <2>2 DEF Errors, Faults, Streaming
    <3>2. rsp # None => rsp.code = "DONE"
      <4> SUFFICES ASSUME rsp # None PROVE rsp.code = "DONE"
        OBVIOUS
      <4>1. PICK c \in bus : c.com \in Failing \/ rsp.code = "DONE"
        BY <3>1, Answered
      <4>2. c.com = "READ_CL_M"
        BY <2>2 DEF InFlight, Only
      <4> QED BY <4>1, <4>2
    <3> QED BY <1>1, <2>2, <3>1, <3>2
  <2> QED BY <1>1, <1>2, <2>1, <2>2, Moves
<1>3. ASSUME state' \in Streaming, error_mask' # {} PROVE failed'
  <2>1. CASE state = "WAIT_FOR_QUEUE_ITEM"
    <3>1. error_mask = {} /\ bus = {}
      BY <1>1, <1>3, <2>1, Moves DEF Errors, InFlight, Still, Streaming
    <3>2. rsp = None
      BY <1>1, <3>1, BusContents
    <3> QED BY <1>1, <1>3, <2>1, <3>1, <3>2
  <2>2. CASE state \in Streaming
    <3>1. rsp # None => \/ failed /\ rsp.code = "FLUSHED"
                        \/ ~failed /\ rsp.code \in {"DONE", "FAULT"}
      <4> SUFFICES ASSUME rsp # None
                   PROVE  \/ failed /\ rsp.code = "FLUSHED"
                          \/ ~failed /\ rsp.code \in {"DONE", "FAULT"}
        OBVIOUS
      <4>1. PICK c \in bus :
              /\ failed => rsp.code = IF c.com = "RESTART" THEN "DONE" ELSE "FLUSHED"
              /\ ~failed => rsp.code \in {"DONE", "FAULT"}
        BY Answered
      <4>2. c.com # "RESTART"
        BY <2>2 DEF InFlight, Alone
      <4> QED BY <4>1, <4>2
    <3>2. error_mask # {} => failed
      BY <2>2 DEF Errors
    <3>3. state # "LOAD_QUEUE_ITEM"
      BY <2>2 DEF Streaming
    <3> QED BY <1>1, <1>3, <3>1, <3>2, <3>3
  <2> QED BY <1>1, <1>3, <2>1, <2>2, Moves
<1>4. ASSUME state' \in {"RESTART_BUS", "RESTART_BUS_FLUSH"} PROVE error_mask' # {}
  <2>1. state \in {"RESTART_BUS", "RESTART_BUS_FLUSH"} \/ (state = "FLUSH" /\ error_mask # {})
    BY <1>1, <1>4 DEF StateMachine, Idle, LoadQueueItem, WaitForQueueItem, Run, ReadSrc, WriteDst, WriteWait,
       Flush, RestartBus, RestartBusFlush, SaveQueueItem, NextItem, WaitForDone, Done,
       Await, Submit, Goto
  <2>2. error_mask # {}
    BY <2>1 DEF Errors
  <2> QED BY <1>1, <2>1, <2>2
<1> QED BY <1>2, <1>3, <1>4 DEF Errors

(* Lines are on their way in an element, or after a stop.                  *)
LEMMA LiveStates ==
  ASSUME InFlight, Live, state \in States
  PROVE  state \in Streaming \cup {"WAIT_FOR_DONE", "DONE"}
<1>1. state \notin {"IDLE", "LOAD_QUEUE_ITEM", "RESTART_BUS", "SAVE_QUEUE_ITEM"}
  BY DEF Live, InFlight, Still, HasTag, Data, Streaming
<1>2. state # "RESTART_BUS_FLUSH" /\ state # "NEXT_ITEM" /\ state # "WAIT_FOR_QUEUE_ITEM"
  BY DEF Live, InFlight, Only, HasTag, Data, Streaming, Load, Save, Restart, Tag
<1> QED BY <1>1, <1>2 DEF States, Streaming

(* The buffer of an element that is yet to be loaded stays untouched.      *)
LEMMA UntouchedStep ==
  ASSUME "READ_CL_M" \notin Failing,
         InFlight, Names, Faults, Ownership, Rings, Types, Scalars, Place, Contents, Untouched,
         NEW rsp \in Responses \cup {None}, NEW bw \in BufferWrites \cup {None},
         NEW br \in BufferReads \cup {None}, NEW out, NEW trigger, NEW stop,
         Edge(rsp, bw, br, out, trigger, stop)
  PROVE  Untouched'
<1> DEFINE Busy == Streaming \cup {"RESTART_BUS", "RESTART_BUS_FLUSH", "SAVE_QUEUE_ITEM"}
<1>1. /\ StateMachine /\ Bus(rsp, bw, br) /\ QitemRead(rsp, bw) /\ Wdata(br)
  BY DEF Edge
<1>2. Registers /\ Commanded /\ Once
  BY DEF Rings
<1>3. Save # Load /\ Save # Restart /\ Save.kind = "qitem" /\ Save # None
  BY NoneAssumption DEF Save, Load, Restart, Tag, TagNames
<1>4. \A c \in bus : c.tag = Save => c.com = "WRITE_MI" /\ c.com \notin Failing /\ c.beats \in Nat
  BY <1>3, RtlAssumption DEF Names, Matches
<1>5. /\ bw # None => \E c \in Reads : bw.tag = c.tag
      /\ br # None => \E c \in bus : Owed(c) /\ br.tag = c.tag
  BY BeatsMove
<1>6. bw # None => bw.tag # Save
  BY <1>3, <1>4, <1>5 DEF Reads
<1>7. br # None /\ br.tag = Save => \A c \in bus : c.tag = Save => c.beats = 0
  <2> SUFFICES ASSUME br # None, br.tag = Save, NEW c \in bus, c.tag = Save PROVE c.beats = 0
    OBVIOUS
  <2>1. Owed(c)
    BY <1>2, <1>5 DEF Once
  <2> QED BY <1>4, <2>1 DEF Owed, BeatsOf
<1>8. brtag_last' = Save <=> br # None /\ br.tag = Save
  BY <1>1, <1>3 DEF Wdata
<1>9. brtag_last = Save => \A c \in bus : c.tag = Save => c.beats > 0
  BY <1>2 DEF Ownership, Saves, Once
<1>10. ASSUME NEW c \in bus', c.tag = Save
       PROVE  c.beats <= 1 /\ (Unsaid(c)' => c.buf = <<>>)
  <2>1. CASE \E b \in bus : c = Served(b, bw, br)
    <3>1. PICK b \in bus : c = Served(b, bw, br)
      BY <2>1
    <3>2. /\ b.tag = Save
          /\ c.beats = IF br # None /\ br.tag = Save THEN b.beats + 1 ELSE b.beats
          /\ brtag_last # Save => c.buf = b.buf
      <4>1. b.tag = Save
        BY <1>10, <3>1, ServedNames
      <4> QED BY <1>6, <3>1, <4>1 DEF Served
    <3>3. b.beats \in Nat /\ b.beats <= 1 /\ (Unsaid(b) => b.buf = <<>>)
      BY <1>4, <3>2 DEF Untouched
    <3>4. c.beats <= 1
      BY <1>7, <3>2, <3>3
    <3>5. ASSUME Unsaid(c)' PROVE c.buf = <<>>
      <4>1. c.beats = 0 \/ (br # None /\ br.tag = Save)
        BY <1>8, <3>5 DEF Unsaid
      <4>2. b.beats = 0
        BY <1>7, <3>2, <3>3, <4>1
      <4>3. brtag_last # Save
        BY <1>9, <3>2, <4>2
      <4> QED BY <3>2, <3>3, <4>2, <4>3 DEF Unsaid
    <3> QED BY <3>4, <3>5
  <2>2. CASE c = Fresh
    BY <2>2 DEF Fresh
  <2> QED BY <1>1, <2>1, <2>2, BusContents
<1>11. state \in Busy => qitem' = qitem
  <2> SUFFICES ASSUME state \in Busy PROVE qitem' = qitem
    OBVIOUS
  <2>1. \A c \in bus : c.com # "READ_CL_M"
    BY DEF InFlight, Alone, Still, Only
  <2>2. bw # None => bw.tag.kind # "qitem"
    BY <1>3, <1>4, <1>5, <2>1 DEF Names, Matches, Reads
  <2> QED BY <1>1, <2>2 DEF QitemRead
<1>12. state \in Busy => \/ state' \in Busy \cup {"WAIT_FOR_DONE"}
                         \/ state = "SAVE_QUEUE_ITEM" /\ state' = "NEXT_ITEM"
  <2>1. state = "SAVE_QUEUE_ITEM" => state' \in {"SAVE_QUEUE_ITEM", "NEXT_ITEM", "WAIT_FOR_DONE"}
    BY <1>1 DEF StateMachine, Idle, LoadQueueItem, WaitForQueueItem, Run, ReadSrc, WriteDst, WriteWait,
         Flush, RestartBus, RestartBusFlush, SaveQueueItem, NextItem, WaitForDone, Done,
         Await, Submit, Goto
  <2>2. state \in Busy => \/ state' \in Busy \cup {"WAIT_FOR_DONE"}
                         \/ state = "SAVE_QUEUE_ITEM"
    BY <1>1, Onward
  <2> QED BY <2>1, <2>2
<1>13. state' \in Busy => \/ state \in Busy
                          \/ state = "WAIT_FOR_QUEUE_ITEM" /\ got_qitem /\ qitem.flag = "ready"
  BY <1>1, Moves DEF Streaming
<1>14. ASSUME state' \in Busy PROVE qitem'.buf = wed'
  <2>1. wed' = wed
    BY <1>1, <1>14, Walk DEF Streaming
  <2>2. CASE state \in Busy
    BY <1>11, <2>1, <2>2 DEF Untouched
  <2>3. CASE state = "WAIT_FOR_QUEUE_ITEM" /\ got_qitem /\ qitem.flag = "ready"
    <3>1. qitem = Element(wed)
      BY <2>3 DEF Place
    <3>2. qitem' = qitem
      <4>1. bus = {}
        BY <2>3 DEF InFlight, Still
      <4> QED BY <1>1, <1>5, <4>1 DEF QitemRead, Reads
    <3> QED BY <2>1, <3>1, <3>2 DEF Element
  <2> QED BY <1>13, <1>14, <2>2, <2>3
<1>15. ASSUME NEW k \in Slots, slot'[k].flag = "ready", landed'[k] # {}
       PROVE  \/ state' \in Busy /\ k = wed'
              \/ state' \in {"WAIT_FOR_DONE", "DONE"}
              \/ state' = "NEXT_ITEM" /\ ah' # None /\ ah'.tag = Save /\ ah'.addr[1] = k
              \/ state' = "NEXT_ITEM" /\ \E c \in bus' : Unsaid(c)' /\ c.addr[1] = k
  <2>1. slot[k].flag = "ready"
    <3>1. slot'[k].flag \in {slot[k].flag, "done"}
      BY <1>1, SlotStep DEF Place, Names
    <3> QED BY <1>15, <3>1
  <2>2. CASE state \in Busy /\ k = wed
    <3>1. wed' = wed \/ (state = "SAVE_QUEUE_ITEM" /\ state' \in {"NEXT_ITEM", "WAIT_FOR_DONE"})
      BY <1>1, Walk
    <3>2. state = "SAVE_QUEUE_ITEM" /\ state' = "NEXT_ITEM" => ah' # None /\ ah'.tag = Save /\ ah'.addr[1] = wed
      <4> SUFFICES ASSUME state = "SAVE_QUEUE_ITEM", state' = "NEXT_ITEM"
                   PROVE  ah' # None /\ ah'.tag = Save /\ ah'.addr[1] = wed
        OBVIOUS
      <4>1. ah' = [com |-> "WRITE_MI", tag |-> Save, addr |-> <<wed, 0>>]
        BY <1>1 DEF StateMachine, Idle, LoadQueueItem, WaitForQueueItem, Run, ReadSrc, WriteDst, WriteWait,
           Flush, RestartBus, RestartBusFlush, SaveQueueItem, NextItem, WaitForDone, Done,
           Await, Submit, Goto
      <4>2. ah' \in [com : ComNames, tag : TagNames, addr : Nat \X Int]
        BY <1>2, <4>1 DEF Commanded, Slots, ComNames, TagNames, Save, Tag
      <4> QED BY <4>1, <4>2, NoneAssumption
    <3> QED BY <1>12, <2>2, <3>1, <3>2
  <2>3. CASE state \in {"WAIT_FOR_DONE", "DONE"}
    BY <1>1, <2>3, Onward
  <2>4. CASE state = "NEXT_ITEM" /\ ah # None /\ ah.tag = Save /\ ah.addr[1] = k
    <3>1. state' \in {"NEXT_ITEM", "WAIT_FOR_DONE"}
      BY <1>1, <2>4 DEF StateMachine, Idle, LoadQueueItem, WaitForQueueItem, Run, ReadSrc, WriteDst, WriteWait,
         Flush, RestartBus, RestartBusFlush, SaveQueueItem, NextItem, WaitForDone, Done,
         Await, Submit, Goto
    <3>2. PICK c \in bus' : c = Fresh
      BY <1>1, <2>4 DEF Bus, Taken, Fresh
    <3>3. Unsaid(c)' /\ c.addr[1] = k
      BY <2>4, <3>2 DEF Unsaid, Fresh
    <3> QED BY <3>1, <3>2, <3>3
  <2>5. CASE state = "NEXT_ITEM" /\ \E c \in bus : Unsaid(c) /\ c.addr[1] = k
    <3>1. PICK c \in bus : Unsaid(c) /\ c.addr[1] = k
      BY <2>5
    <3>2. state' \in {"NEXT_ITEM", "WAIT_FOR_DONE"}
      <4>1. ~flushed
        BY <3>1 DEF InFlight
      <4> QED BY <1>1, <2>5, <4>1 DEF StateMachine, Idle, LoadQueueItem, WaitForQueueItem, Run, ReadSrc,
         WriteDst, WriteWait, Flush, RestartBus, RestartBusFlush, SaveQueueItem, NextItem, WaitForDone,
         Done, Await, Submit, Goto
    <3>3. c.tag = Save /\ c.com = "WRITE_MI" /\ c.com \notin Failing /\ c.buf = <<>> /\ c.beats \in Nat
      BY <1>4, <3>1 DEF Unsaid, Untouched
    <3>4. ~(rsp # None /\ rsp.tag = c.tag)
      <4> SUFFICES ASSUME rsp # None, rsp.tag = c.tag PROVE FALSE
        OBVIOUS
      <4>1. PICK d \in bus : /\ rsp.tag = d.tag
                             /\ ~failed => Complete(d) \/ d.com \in Failing
        BY Answered
      <4>2. d = c /\ ~failed
        BY <1>2, <2>5, <4>1 DEF Once, Faults, Streaming
      <4>3. Len(c.buf) = 1
        BY <3>3, <4>1, <4>2 DEF Complete, Reads, BeatsOf
      <4> QED BY <3>3, <4>3
    <3>5. Served(c, bw, br) \in bus'
      BY <1>1, <3>4 DEF Bus
    <3>6. brtag_last # Save
      <4> SUFFICES ASSUME brtag_last = Save PROVE FALSE
        OBVIOUS
      <4>1. Served(c, bw, br).tag = Save /\ Served(c, bw, br).addr[1] = k
        BY <3>1, <3>3, ServedNames
      <4>2. slot'[k].flag = "done"
        <5> DEFINE kept == {Served(e, bw, br) : e \in bus \ {b \in bus : rsp # None /\ rsp.tag = b.tag}}
        <5>1. Served(c, bw, br) \in kept
          BY <3>4
        <5>2. slot'[k] = IF \E e \in kept : e.tag = Save /\ e.addr[1] = k /\ brtag_last = Save
                         THEN [flag |-> "done", job |-> slot[k].job, res |-> Report]
                         ELSE slot[k]
          BY <1>1 DEF Bus
        <5> HIDE DEF kept
        <5> QED BY <4>1, <5>1, <5>2
      <4> QED BY <1>15, <4>2
    <3>7. PICK s \in bus' : s = Served(c, bw, br)
      BY <3>5
    <3>8. Unsaid(s)'
      <4>1. c.beats = 0
        BY <3>1, <3>6 DEF Unsaid
      <4>2. s.beats = IF br # None /\ br.tag = Save THEN 1 ELSE 0
        BY <1>6, <3>3, <3>7, <4>1, ServedNames
      <4>3. s.tag = Save
        BY <3>3, <3>7, ServedNames
      <4> QED BY <1>8, <4>2, <4>3 DEF Unsaid
    <3>9. s.addr[1] = k
      BY <3>1, <3>7, ServedNames
    <3> QED BY <3>2, <3>8, <3>9
  <2>6. CASE landed[k] # {}
    BY <2>1, <2>2, <2>3, <2>4, <2>5, <2>6 DEF Untouched
  <2>7. CASE landed[k] = {}
    <3>1. Live /\ k = qitem.buf /\ \E c \in Data("wdata") : TRUE
      BY <1>1, <1>15, <2>7, Landed DEF Serving
    <3>2. state \in Streaming \cup {"WAIT_FOR_DONE", "DONE"}
      BY <3>1, LiveStates DEF Scalars
    <3> QED BY <2>2, <2>3, <3>1, <3>2 DEF Untouched
  <2> QED BY <2>6, <2>7
<1> QED BY <1>10, <1>14, <1>15 DEF Untouched

(* dirty changes with a write and with a new element alone.                *)
LEMMA Dirties ==
  ASSUME StateMachine, dirty \in BOOLEAN
  PROVE  /\ state = "WAIT_FOR_QUEUE_ITEM" => dirty' = FALSE
         /\ state # "WAIT_FOR_QUEUE_ITEM" => (dirty' <=> dirty \/ (state = "RUN" /\ WriteTurn))
         /\ dirty' \in BOOLEAN
<1>1. CASE state \in {"RUN", "WAIT_FOR_QUEUE_ITEM"}
  <2>1. CASE state = "RUN"
    <3>1. dirty' = (dirty \/ WriteTurn)
      BY <2>1 DEF StateMachine, Idle, LoadQueueItem, WaitForQueueItem, Run, ReadSrc, WriteDst, WriteWait,
             Flush, RestartBus, RestartBusFlush, SaveQueueItem, NextItem, WaitForDone, Done,
             Await, Submit
    <3> HIDE DEF WriteTurn
    <3> QED BY <2>1, <3>1
  <2>2. CASE state = "WAIT_FOR_QUEUE_ITEM"
    BY <2>2 DEF StateMachine, Idle, LoadQueueItem, WaitForQueueItem, Run, ReadSrc, WriteDst, WriteWait,
           Flush, RestartBus, RestartBusFlush, SaveQueueItem, NextItem, WaitForDone, Done,
           Await, Submit
  <2> QED BY <1>1, <2>1, <2>2
<1>2. CASE state \notin {"RUN", "WAIT_FOR_QUEUE_ITEM"}
  <2>1. dirty' = dirty
    BY <1>2 DEF StateMachine, Idle, LoadQueueItem, WaitForQueueItem, Run, ReadSrc, WriteDst, WriteWait,
           Flush, RestartBus, RestartBusFlush, SaveQueueItem, NextItem, WaitForDone, Done,
           Await, Submit
  <2> QED BY <1>2, <2>1
<1> QED BY <1>1, <1>2

(* What dirty says of an element's buffer stays true.                      *)
LEMMA MarkedStep ==
  ASSUME InFlight, Names, Rings, Scalars, Place, Contents, Errors, Untouched, Marked,
         NEW rsp \in Responses \cup {None}, NEW bw \in BufferWrites \cup {None},
         NEW br \in BufferReads \cup {None}, NEW out, NEW trigger, NEW stop,
         Edge(rsp, bw, br, out, trigger, stop)
  PROVE  Marked'
<1>1. /\ StateMachine /\ Bus(rsp, bw, br) /\ QitemRead(rsp, bw)
  BY DEF Edge
<1>2. Registers /\ Resets /\ dirty \in BOOLEAN
  BY DEF Rings, Scalars
<1> SUFFICES ASSUME Serving', state' \in Streaming
             PROVE  dirty' = (landed'[qitem'.buf] # {} \/ Asking' \cup Asked' # {} \/ state' = "WRITE_DST")
  BY DEF Marked
<1>3. CASE Live
  <2>1. qitem' = qitem /\ Serving /\ ~failed'
    BY <1>1, <1>3, ElementStays, ServiceGoesOn DEF Serving
  <2>2. state \in Streaming
    BY <1>1, <1>3, Moves, LiveIsQuiet
  <2>3. error_mask = {} /\ Destination /\ WriteRing /\ state # "WAIT_FOR_QUEUE_ITEM"
    BY <2>1, <2>2 DEF Errors, Serving, Contents, Rings, Streaming
  <2>4. dirty <=> landed[qitem.buf] # {} \/ Asking \cup Asked # {} \/ state = "WRITE_DST"
    BY <2>1, <2>2 DEF Marked
  <2>5. (dirty' <=> dirty \/ (state = "RUN" /\ WriteTurn)) /\ dirty' \in BOOLEAN
    BY <1>1, <1>2, <2>3, Dirties
  <2>6. /\ landed[qitem.buf] \subseteq landed'[qitem.buf]
        /\ landed'[qitem.buf] # landed[qitem.buf] => Asked # {}
    BY <1>1, <1>2, Landed DEF Registers, Asked
  <2>7. /\ Asked' = (Asked \ {LineAddr(rsp, "wdata")}) \cup Asking
        /\ \A i \in Asked : i = LineAddr(rsp, "wdata") => landed'[qitem.buf] # {}
    BY <1>1, <2>1, AskedMoves
  <2>8. Asking' # {} => state = "WRITE_DST"
    BY <1>1, Issues DEF Asking, HasTag
  <2>9. state = "WRITE_DST" => Asking' # {} \/ state' = "WRITE_DST"
    <3> SUFFICES ASSUME state = "WRITE_DST" PROVE Asking' # {} \/ state' = "WRITE_DST"
      OBVIOUS
    <3>1. CASE has_room
      <4>1. wafifo_read' /\ wafifo.valid /\ ~wafifo_read
        BY <1>1, <1>2, <2>3, <3>1, WorkTurns DEF WriteRing, Resets
      <4>2. HasTag(ah', "wdata")
        BY <1>1, <1>2, <2>3, <4>1, Hands
      <4> QED BY <4>2 DEF Asking
    <3>2. CASE ~has_room
      BY <1>1, <3>2 DEF StateMachine, Idle, LoadQueueItem, WaitForQueueItem, Run, ReadSrc, WriteDst, WriteWait,
         Flush, RestartBus, RestartBusFlush, SaveQueueItem, NextItem, WaitForDone, Done,
         Await, Submit, Goto, Streaming
    <3> QED BY <3>1, <3>2
  <2>10. state' = "WRITE_DST" => state = "WRITE_DST" \/ (state = "RUN" /\ WriteTurn)
    BY <1>1 DEF StateMachine, Idle, LoadQueueItem, WaitForQueueItem, Run, ReadSrc, WriteDst, WriteWait,
       Flush, RestartBus, RestartBusFlush, SaveQueueItem, NextItem, WaitForDone, Done,
       Await, Submit, Goto
  <2>11. state = "RUN" /\ WriteTurn => state' = "WRITE_DST"
    <3>1. WriteTurn => ~is_done
      BY DEF WriteTurn
    <3>2. state = "RUN" /\ WriteTurn => state' # "FLUSH"
      BY <1>1, <2>3, <3>1, WorkTurns
    <3> QED BY <1>1, <3>1, <3>2, WorkTurns DEF Streaming, Working
  <2> QED BY <2>1, <2>4, <2>5, <2>6, <2>7, <2>8, <2>9, <2>10, <2>11
<1>4. CASE ~Live
  <2>1. /\ state = "WAIT_FOR_QUEUE_ITEM" /\ got_qitem /\ qitem.flag = "ready"
        /\ state' = "RUN" /\ ah' = None /\ bus = {} /\ bus' = {}
    BY <1>1, <1>4, LiveStep DEF Serving
  <2>2. dirty' = FALSE
    BY <1>1, <1>2, <2>1, Dirties
  <2>3. Asking' = {} /\ Asked' = {}
    BY <2>1 DEF Asking, Asked, HasTag, Data
  <2>4. qitem' = qitem
    BY <1>1, <2>1 DEF QitemRead, BufferWrites, Reads
  <2>5. qitem = Element(wed) /\ wed \in Slots
    BY <2>1 DEF Place, Rings, Commanded
  <2>6. landed'[wed] = landed[wed]
    BY <1>1, <2>1, <2>5, Landed DEF Data
  <2>7. landed[wed] = {}
    BY <2>1, <2>5 DEF Untouched, Element, Streaming
  <2> QED BY <2>1, <2>2, <2>3, <2>4, <2>5, <2>6, <2>7 DEF Element
<1> QED BY <1>3, <1>4

(* When the element ends without an error its buffer holds the result.     *)
LEMMA FlushSettles ==
  ASSUME InFlight, Faults, Rings, Place, Contents, LinesInPlace, Sampled, NoneSkipped, Marked, Untouched,
         state = "FLUSH", flushed, error_mask = {}
  PROVE  Settled(wed)
<1>1. Live /\ Serving /\ bus = {} /\ ah = None /\ qitem.buf = wed
  BY DEF Live, Streaming, Serving, Faults, InFlight, Untouched
<1>2. Finished /\ Destination /\ Registers /\ ReadRing /\ ~clear /\ ~got_qitem
  BY <1>1 DEF Sampled, Contents, Rings, Resets
<1>3. dst_count = All /\ proc = <<>> /\ ~rq.valid
  BY <1>2 DEF Finished, Spent
<1>4. Queued \cup Offered \cup Asking \cup Asked = {}
  BY <1>1, <1>2 DEF Finished, Asking, Asked, Data, HasTag
<1>5. slot[wed].job = qitem.job /\ wed \in Slots
  BY <1>1, <1>2 DEF Place, Registers
<1>6. qitem.job.len \in Nat
  BY <1>5, RtlAssumption DEF Place, NoJob
<1>7. rq.written = {} /\ (WriteOnly => made = All)
  <2>1. CASE WriteOnly
    BY <1>1, <1>3, <2>1 DEF Contents, OwnBeats
  <2>2. CASE ~WriteOnly
    <3>1. Source
      BY <1>1, <2>2 DEF Contents
    <3>2. Popped = All /\ All \in Nat
      BY <1>3, <1>6 DEF Popped, All
    <3>3. rq.raddr \in BeatNos /\ rq.vaddr \in BeatNos /\ rq.vaddr % 2 = 0 /\ Asks \in {0, 2}
      BY <1>2 DEF Registers, Asks
    <3>4. Popped + 2 * Lines - Gap(rq.raddr, rq.vaddr) + Asks <= All
      BY <3>1 DEF Source, Reserved, Free, All
    <3>5. rq.raddr = rq.vaddr
      BY <3>2, <3>3, <3>4, ReadBounds
    <3>6. Held = {}
      <4>1. rq.raddr \div 2 \in LineNos
        BY <3>3, NextBeatLine
      <4> QED BY <3>5, <4>1, Sizes DEF Held, Arc, LineNos
    <3> QED BY <1>2, <2>2, <3>6 DEF ReadRing
  <2> QED BY <2>1, <2>2
<1>8. landed[wed] \subseteq Result(wed, qitem.job)
  BY <1>5 DEF LinesInPlace
<1>9. Result(wed, qitem.job) \subseteq landed[wed]
  <2> SUFFICES ASSUME NEW x \in Result(wed, qitem.job) PROVE x \in landed[wed]
    OBVIOUS
  <2>1. Writes
    BY DEF Result, Writes
  <2>2. PICK n \in 0 .. qitem.job.len - 1 :
          x = [line |-> n, data |-> <<Beat(wed, n, 0), Beat(wed, n, 1)>>]
    BY <2>1 DEF Result, Writes
  <2>3. n \in 0 .. (dst_count \div 2) - 1
    BY <1>3, <1>6 DEF All
  <2>4. PICK r \in landed[wed] : r.line = n
    BY <1>1, <1>4, <2>1, <2>3 DEF NoneSkipped
  <2>5. PICK m \in 0 .. qitem.job.len - 1 :
          r = [line |-> m, data |-> <<Beat(wed, m, 0), Beat(wed, m, 1)>>]
    BY <1>8, <2>1 DEF Result, Writes
  <2> QED BY <2>2, <2>4, <2>5
<1>10. dirty = (landed[wed] # {})
  BY <1>1, <1>4 DEF Marked, Streaming
<1> QED BY <1>1, <1>2, <1>3, <1>5, <1>7, <1>8, <1>9, <1>10 DEF Settled, Finished

(* What is settled stays so while the element is written back.             *)
LEMMA SettledStays ==
  ASSUME Names, Rings, Scalars, Place, Contents, NEW k \in Slots, Settled(k),
         \A c \in bus : c.com = "WRITE_MI" /\ c.tag = Save,
         state \notin {"LOAD_QUEUE_ITEM", "WAIT_FOR_QUEUE_ITEM", "RUN"},
         NEW rsp, rsp = None, NEW bw \in BufferWrites \cup {None},
         NEW br \in BufferReads \cup {None}, NEW out \in {None, NextBeat}, NEW trigger, NEW stop,
         Edge(rsp, bw, br, out, trigger, stop)
  PROVE  /\ qitem'.buf = k /\ qitem'.job = slot'[k].job
         /\ landed'[k] = Result(k, slot'[k].job)
         /\ dirty' = (landed'[k] # {})
         /\ Spent' /\ rq'.written = {} /\ (WriteOnly' => made' = All')
         /\ ~clear' /\ ~got_qitem'
<1>1. /\ StateMachine /\ Bus(rsp, bw, br) /\ QitemRead(rsp, bw) /\ ReadQueue(rsp, bw, Ready)
      /\ DstAddr(out) /\ Processor(out)
  BY DEF Edge
<1>2. /\ qitem.buf = k /\ qitem.job = slot[k].job /\ landed[k] = Result(k, slot[k].job)
      /\ dirty = (landed[k] # {})
      /\ dst_count = All /\ proc = <<>> /\ ~rq.valid /\ rq.written = {} /\ (WriteOnly => made = All)
      /\ ~clear /\ ~got_qitem
  BY DEF Settled, Spent
<1>3. bw = None /\ Data("wdata") = {}
  BY DEF BufferWrites, Reads, Data, Save, Tag
<1>4. qitem' = qitem /\ ~got_qitem'
  BY <1>1, <1>3 DEF QitemRead
<1>5. landed'[k] = landed[k]
  BY <1>1, <1>3, Landed
<1>6. slot'[k].job = slot[k].job
  BY <1>1, SlotStep DEF Place, Names
<1>7. dirty' <=> dirty
  BY <1>1, Dirties DEF Scalars
<1>8. ~clear'
  BY <1>1, Turns
<1>9. out = None
  <2>1. CASE WriteOnly
    <3>1. ~(made < 2 * qitem.job.len)
      <4>1. qitem.job.len \in Nat
        BY <1>2, RtlAssumption DEF Place, NoJob
      <4> QED BY <1>2, <2>1, <4>1 DEF All
    <3> QED BY <1>2, <2>1, <3>1 DEF NextBeat
  <2>2. CASE ~WriteOnly
    BY <1>2, <2>2 DEF NextBeat
  <2> QED BY <2>1, <2>2
<1>10. dst_count' = dst_count /\ proc' = <<>> /\ made' = made
  BY <1>1, <1>2, <1>9 DEF DstAddr, Processor
<1>11. rq'.written = {} /\ ~rq'.valid
  <2>1. LineAddr(rsp, "rdata") = None /\ ~RQ!RqPop(rq, Ready)
    BY <1>2 DEF LineAddr, HasTag, RQ!RqPop
  <2> QED BY <1>1, <1>2, <2>1 DEF ReadQueue, RQ!RqEdge
<1>12. All' = All /\ (WriteOnly' <=> WriteOnly)
  BY <1>4 DEF All, WriteOnly
<1>13. dirty' = (landed'[k] # {})
  <2>1. dirty' \in BOOLEAN
    BY <1>1, Dirties DEF Scalars
  <2> QED BY <1>2, <1>5, <1>7, <2>1
<1> QED BY <1>2, <1>4, <1>5, <1>6, <1>8, <1>10, <1>11, <1>12, <1>13 DEF Spent

(* What an element without errors will say stays true.                     *)
LEMMA TruthfulStep ==
  ASSUME "READ_CL_M" \notin Failing,
         InFlight, Names, Faults, Ownership, Rings, Scalars, Place, Contents, LinesInPlace,
         Sampled, NoneSkipped, Errors, Marked, Untouched, Truthful,
         NEW rsp \in Responses \cup {None}, NEW bw \in BufferWrites \cup {None},
         NEW br \in BufferReads \cup {None}, NEW out \in {None, NextBeat}, NEW trigger, NEW stop,
         Edge(rsp, bw, br, out, trigger, stop)
  PROVE  Truthful'
<1>1. /\ StateMachine /\ Bus(rsp, bw, br) /\ Wdata(br)
      /\ error_mask' = IF state = "LOAD_QUEUE_ITEM" THEN {}
                       ELSE error_mask \cup (IF rsp = None THEN {} ELSE {rsp.code} \ {"DONE"})
  BY DEF Edge, ErrorCheck
<1>2. Save # Load /\ Save # Restart /\ Save.kind = "qitem" /\ Save # None
  BY NoneAssumption DEF Save, Load, Restart, Tag, TagNames
<1>3. \A c \in bus : c.tag = Save => c.com = "WRITE_MI" /\ c.beats \in Nat
  BY <1>2 DEF Names, Matches
<1> SUFFICES ASSUME error_mask' = {}
             PROVE  /\ state' = "SAVE_QUEUE_ITEM" => Settled(wed)'
                    /\ ah' # None /\ ah'.tag = Save => Settled(ah.addr[1])'
                    /\ \A c \in bus' : Unsaid(c)' => Settled(c.addr[1])'
  BY DEF Truthful
<1>4. state # "LOAD_QUEUE_ITEM" => error_mask = {}
  BY <1>1
<1> DEFINE Stays(k) == /\ qitem'.buf = k /\ qitem'.job = slot'[k].job
                       /\ landed'[k] = Result(k, slot'[k].job)
                       /\ dirty' = (landed'[k] # {})
                       /\ Spent' /\ rq'.written = {} /\ (WriteOnly' => made' = All')
                       /\ ~clear' /\ ~got_qitem'
<1>5. ASSUME state \in {"FLUSH", "SAVE_QUEUE_ITEM"}, Settled(wed), bus = {} PROVE Stays(wed)
  <2>1. rsp = None
    BY <1>1, <1>5, BusContents
  <2>2. wed \in Slots
    BY DEF Rings, Commanded
  <2> QED BY <1>5, <2>1, <2>2, SettledStays
<1>6. state = "SAVE_QUEUE_ITEM" => Stays(wed)
  <2> SUFFICES ASSUME state = "SAVE_QUEUE_ITEM" PROVE Stays(wed)
    OBVIOUS
  <2>1. Settled(wed) /\ bus = {}
    BY <1>4 DEF Truthful, InFlight, Still
  <2> QED BY <1>5, <2>1
<1>7. ASSUME state' = "SAVE_QUEUE_ITEM" PROVE Settled(wed)'
  <2>1. wed' = wed
    BY <1>1, <1>7, Walk
  <2>2. Stays(wed)
    <3>1. CASE state = "FLUSH" /\ flushed /\ error_mask = {}
      <4>1. Settled(wed) /\ bus = {}
        BY <3>1, FlushSettles DEF InFlight
      <4> QED BY <1>5, <3>1, <4>1
    <3>2. state # "RESTART_BUS_FLUSH"
      BY <1>4 DEF Errors
    <3> QED BY <1>1, <1>6, <1>7, <3>1, <3>2, Moves
  <2> QED BY <2>1, <2>2 DEF Settled
<1>8. ASSUME ah' # None, ah'.tag = Save PROVE Settled(ah.addr[1])'
  <2>1. state = "SAVE_QUEUE_ITEM" /\ ah'.addr = <<wed, 0>>
    BY <1>1, <1>2, <1>8, Commands
  <2>2. Stays(wed) /\ ah'.addr[1] = wed
    BY <1>6, <2>1
  <2> QED BY <2>2 DEF Settled
<1>9. ASSUME NEW c \in bus', Unsaid(c)' PROVE Settled(c.addr[1])'
  <2> DEFINE k == c.addr[1]
  <2>1. /\ k \in Slots /\ Settled(k) /\ rsp = None
        /\ \A b \in bus : b.com = "WRITE_MI" /\ b.tag = Save
        /\ state \notin {"LOAD_QUEUE_ITEM", "WAIT_FOR_QUEUE_ITEM", "RUN"}
    <3>1. CASE ah # None /\ c = Fresh
      <4>1. ah.tag = Save /\ ah.com = "WRITE_MI" /\ k = ah.addr[1]
        BY <1>2, <1>9, <3>1 DEF Unsaid, Fresh, Names, Matches
      <4>2. bus = {}
        BY <3>1, <4>1 DEF InFlight, QuietBus
      <4>3. rsp = None
        BY <1>1, <4>2, BusContents
      <4>4. state \notin {"LOAD_QUEUE_ITEM", "WAIT_FOR_QUEUE_ITEM", "RUN"}
        BY <3>1, <4>1 DEF InFlight, Still, Only, Streaming, Alone
      <4>5. k \in Slots /\ Settled(k)
        BY <1>4, <3>1, <4>1, <4>4 DEF Truthful, Ownership, Saves
      <4> QED BY <4>2, <4>3, <4>4, <4>5
    <3>2. CASE \E b \in bus : c = Served(b, bw, br) /\ (rsp = None \/ rsp.tag # b.tag)
      <4>1. PICK b \in bus : c = Served(b, bw, br) /\ (rsp = None \/ rsp.tag # b.tag)
        BY <3>2
      <4>2. b.tag = Save /\ k = b.addr[1] /\ b.com = "WRITE_MI" /\ b.beats \in Nat
        BY <1>3, <1>9, <4>1, ServedNames DEF Unsaid
      <4>3. bus = {b} /\ ah = None
        BY <4>2 DEF InFlight, QuietBus
      <4>4. rsp = None
        BY <1>1, <4>1, <4>3, BusContents
      <4>5. state \notin {"LOAD_QUEUE_ITEM", "WAIT_FOR_QUEUE_ITEM", "RUN"}
        BY <4>2, <4>3 DEF InFlight, Still, Only, Streaming, Alone
      <4>6. Unsaid(b)
        <5>1. c.beats = 0 \/ (br # None /\ br.tag = Save)
          BY <1>1, <1>2, <1>9 DEF Unsaid, Wdata
        <5>2. CASE c.beats = 0
          <6>1. c.beats = IF (bw # None /\ bw.tag = b.tag) \/ (br # None /\ br.tag = b.tag)
                          THEN b.beats + 1 ELSE b.beats
            BY <4>1, ServedNames
          <6> QED BY <4>2, <5>2, <6>1 DEF Unsaid
        <5>3. CASE br # None /\ br.tag = Save
          <6>1. br \in BufferReads
            BY <5>3
          <6>2. PICK d \in bus : d.tag = Save /\ d.beats = 0
            BY <5>3, <6>1, SaveAsked DEF InFlight
          <6> QED BY <4>3, <6>2 DEF Unsaid
        <5> QED BY <5>1, <5>2, <5>3
      <4>7. k \in Slots /\ Settled(k)
        BY <1>4, <4>2, <4>5, <4>6 DEF Truthful, Ownership, Saves
      <4> QED BY <4>2, <4>3, <4>4, <4>5, <4>7
    <3> QED BY <1>1, <1>9, <3>1, <3>2, BusContents
  <2>2. Stays(k)
    BY <2>1, SettledStays
  <2> QED BY <2>2 DEF Settled
<1> QED BY <1>7, <1>8, <1>9

(* A completed element without errors keeps what was said of it.           *)
LEMMA WrittenStep ==
  ASSUME InFlight, Names, Rings, Place, Contents, Truthful, DoneMeansWritten,
         NEW rsp \in Responses \cup {None}, NEW bw, NEW br, Bus(rsp, bw, br)
  PROVE  DoneMeansWritten'
<1> SUFFICES ASSUME NEW k \in Slots, slot'[k].flag = "done", slot'[k].res.err = {}
             PROVE  /\ landed'[k] = Result(k, slot'[k].job)
                    /\ slot'[k].res.len = slot'[k].job.len
                    /\ slot'[k].res.dirty = (landed'[k] # {})
  BY DEF DoneMeansWritten
<1>1. /\ slot'[k] # slot[k] =>
           brtag_last = Save /\ \E c \in bus : c.tag = Save /\ c.addr[1] = k
      /\ slot'[k].job = slot[k].job
  BY SlotStep DEF Place, Names
<1>2. landed'[k] # landed[k] => Live /\ k = qitem.buf
  BY Landed DEF Serving
<1>3. CASE slot'[k] = slot[k]
  <2>1. landed'[k] = landed[k]
    BY <1>2, <1>3 DEF Place
  <2> QED BY <1>3, <2>1 DEF DoneMeansWritten
<1>4. CASE slot'[k] # slot[k]
  <2>1. PICK c \in bus : c.tag = Save /\ c.addr[1] = k
    BY <1>1, <1>4
  <2>2. slot'[k].res = Report
    BY <1>4 DEF Bus
  <2>3. Settled(k)
    <3>1. error_mask = {}
      BY <2>2 DEF Report
    <3> QED BY <1>1, <1>4, <2>1, <3>1 DEF Truthful, Unsaid
  <2>4. landed'[k] = landed[k]
    BY <1>2, <2>1, LiveIsQuiet DEF Save, Tag
  <2>5. dst_count \div 2 = slot[k].job.len
    <3>1. dst_count = 2 * slot[k].job.len
      BY <2>3 DEF Settled, Spent, All
    <3>2. slot[k].job.len \in Nat
      BY RtlAssumption DEF Place, NoJob
    <3> QED BY <3>1, <3>2
  <2> QED BY <1>1, <2>2, <2>3, <2>4, <2>5 DEF Settled, Report
<1> QED BY <1>3, <1>4

(* What has to be known of an element for its answer to be true.           *)
Promise == /\ Counted /\ Sampled /\ NoneSkipped /\ Errors /\ Marked
           /\ Untouched /\ Truthful /\ DoneMeansWritten

(* The software cannot undo it: the elements in the block are not its own. *)
LEMMA PromiseKept ==
  ASSUME Ownership, Rings, Place, Promise, UNCHANGED <<regs, bus, failed, proc, made>>,
         \A k \in Slots :
           \/ slot'[k] = slot[k] /\ landed'[k] = landed[k]
           \/ slot[k].flag # "ready" /\ landed'[k] = {} /\ slot'[k].flag \in {"empty", "ready"}
  PROVE  Promise'
<1> USE DEF regs
<1>1. /\ (Serving' <=> Serving) /\ (Live' <=> Live) /\ (WriteOnly' <=> WriteOnly) /\ (Writes' <=> Writes)
      /\ All' = All /\ (Spent' <=> Spent) /\ Popped' = Popped
      /\ Queued' = Queued /\ Offered' = Offered /\ Asking' = Asking /\ Asked' = Asked
  BY DEF Serving, Live, Data, WriteOnly, Writes, All, Spent, Popped, Queued, Offered, Asking, Asked
<1>2. Counted'
  <2>1. Reserved' = Reserved /\ Coming' = Coming /\ Held' = Held
    BY <1>1 DEF Reserved, Free, Coming, Data, Held
  <2> QED BY <1>1, <2>1 DEF Promise, Counted
<1>3. Sampled' /\ Errors'
  <2>1. Finished' <=> Finished
    BY <1>1 DEF Finished
  <2> QED BY <1>1, <2>1 DEF Promise, Sampled, Errors
<1>4. Live => slot'[qitem.buf] = slot[qitem.buf] /\ landed'[qitem.buf] = landed[qitem.buf]
  BY DEF Rings, Registers, Place
<1>5. NoneSkipped'
  <2>1. \A i : WriteLine(i)' = WriteLine(i)
    BY DEF WriteLine, LineUpTo
  <2> QED BY <1>1, <1>4, <2>1 DEF Promise, NoneSkipped, Serving
<1>6. Marked'
  BY <1>1, <1>4 DEF Promise, Marked, Serving
<1>7. Untouched'
  <2>1. \A c : Unsaid(c)' <=> Unsaid(c)
    BY DEF Unsaid
  <2>2. \A k \in Slots : slot'[k].flag = "ready" /\ landed'[k] # {}
          => slot[k].flag = "ready" /\ landed[k] # {}
    OBVIOUS
  <2> QED BY <2>1, <2>2 DEF Promise, Untouched
<1>8. Truthful'
  <2>1. \A c : Unsaid(c)' <=> Unsaid(c)
    BY DEF Unsaid
  <2>2. ASSUME NEW k \in Slots, slot[k].flag = "ready", Settled(k)
        PROVE  Settled(k)'
    BY <1>1, <2>2 DEF Settled
  <2>3. ASSUME state = "SAVE_QUEUE_ITEM", Settled(wed) PROVE Settled(wed)'
    BY <2>2, <2>3 DEF Ownership, Owned, Settled
  <2>4. ASSUME ah # None, ah.tag = Save, Settled(ah.addr[1]) PROVE Settled(ah.addr[1])'
    BY <2>2, <2>4 DEF Ownership, Saves, Settled
  <2>5. ASSUME NEW c \in bus, Unsaid(c), Settled(c.addr[1]) PROVE Settled(c.addr[1])'
    BY <2>2, <2>5 DEF Ownership, Saves, Unsaid
  <2> QED BY <2>1, <2>3, <2>4, <2>5 DEF Promise, Truthful
<1>9. DoneMeansWritten'
  BY DEF Promise, DoneMeansWritten
<1> QED BY <1>2, <1>3, <1>5, <1>6, <1>7, <1>8, <1>9 DEF Promise

(* Nothing that is known of an element is lost.                            *)
LEMMA PromiseHolds ==
  ASSUME "READ_CL_M" \notin Failing, DoneBits >= 3
  PROVE  Spec => []Promise
<1>1. Init => Promise
  <2> SUFFICES ASSUME Init PROVE Promise
    OBVIOUS
  <2> USE DEF Init, RtlInit
  <2>1. ~Serving /\ state \notin Streaming \cup Working
    BY DEF Serving, Live, HasTag, Data, Streaming, Working
  <2>2. Counted /\ NoneSkipped /\ Marked
    BY <2>1 DEF Counted, NoneSkipped, Marked
  <2>3. Sampled /\ Errors
    BY <2>1 DEF Sampled, Errors
  <2>4. Untouched /\ Truthful /\ DoneMeansWritten
    BY <2>1 DEF Untouched, Truthful, DoneMeansWritten, EmptySlot
  <2> QED BY <2>2, <2>3, <2>4 DEF Promise
<1>2. /\ Room /\ InFlight /\ Names /\ Faults /\ Faults' /\ Ownership /\ Rings /\ Rings' /\ Types /\ Types'
      /\ Scalars /\ InPlace /\ InPlace' /\ Promise /\ [Next]_vars
      => Promise'
  <2> SUFFICES ASSUME Room, InFlight, Names, Faults, Faults', Ownership, Rings, Rings', Types, Types',
                      Scalars, InPlace, InPlace', Promise, [Next]_vars
               PROVE  Promise'
    OBVIOUS
  <2>1. Place /\ Contents /\ Contents' /\ LinesInPlace
    BY DEF InPlace
  <2>2. CASE UNCHANGED vars
    <3>1. UNCHANGED <<regs, bus, failed, proc, made>> /\ UNCHANGED <<slot, landed>>
      BY <2>2 DEF vars, env
    <3> QED BY <2>1, <3>1, PromiseKept
  <2>3. CASE (\E j \in Jobs : Push(j)) \/ Pop \/ PopReturn \/ Stop
    <3>1. UNCHANGED <<regs, bus, failed, proc, made>>
      BY <2>3 DEF Push, Pop, PopReturn, Stop
    <3>2. push \in Slots /\ pop \in Slots
      BY DEF Scalars
    <3>3. \A k \in Slots :
            \/ slot'[k] = slot[k] /\ landed'[k] = landed[k]
            \/ slot[k].flag # "ready" /\ landed'[k] = {} /\ slot'[k].flag \in {"empty", "ready"}
      BY <2>1, <2>3, <3>2, SoftwarePlaces
    <3> QED BY <2>1, <3>1, <3>3, PromiseKept
  <2>4. CASE Clock
    <3>1. PICK rsp, bw, br, out, trigger, stop :
            /\ rsp \in Responses \cup {None} /\ bw \in BufferWrites \cup {None}
            /\ br \in BufferReads \cup {None} /\ out \in {None, NextBeat}
            /\ Edge(rsp, bw, br, out, trigger, stop)
      BY <2>4 DEF Clock, Cycle, BusEvents
    <3>2. Bus(rsp, bw, br)
      BY <3>1 DEF Edge
    <3>3. Counted /\ Sampled /\ NoneSkipped /\ Errors /\ Marked /\ Untouched /\ Truthful /\ DoneMeansWritten
      BY DEF Promise
    <3>4. Counted'
      BY <2>1, <3>1, <3>3, CountedStep
    <3>5. Sampled'
      BY <2>1, <3>1, <3>3, SampledStep
    <3>6. NoneSkipped'
      BY <2>1, <3>1, <3>3, NoneSkippedStep
    <3>7. Errors'
      BY <3>1, <3>3, ErrorsStep
    <3>8. Marked'
      BY <2>1, <3>1, <3>3, MarkedStep
    <3>9. Untouched'
      BY <2>1, <3>1, <3>3, UntouchedStep
    <3>10. Truthful'
      BY <2>1, <3>1, <3>3, TruthfulStep
    <3>11. DoneMeansWritten'
      BY <2>1, <3>1, <3>2, <3>3, WrittenStep
    <3> QED BY <3>4, <3>5, <3>6, <3>7, <3>8, <3>9, <3>10, <3>11 DEF Promise
  <2> QED BY <2>2, <2>3, <2>4 DEF Next
<1> QED BY <1>1, <1>2, RoomHolds, InFlightHolds, NamesHold, FaultsHold, OwnershipHolds, RingsHold,
           TypesHold, ScalarsHold, InPlaceHolds, PTL DEF Spec

(* When the block is built with the samples it wants (is_done_d is eight   *)
(* bits wide) and no load of an element fails, the software may believe a  *)
(* completed element: without errors in it, every line of the result is in *)
(* memory, its length is the one asked for, and DIRTY says whether a line  *)
(* was written.                                                            *)
THEOREM WhatIsDoneIsWritten ==
  ASSUME "READ_CL_M" \notin Failing, DoneBits >= 3
  PROVE  Spec => []DoneMeansWritten
BY PromiseHolds, PTL DEF Promise

-----------------------------------------------------------------------------
(* The block as a pipe.  The element in the block is the oldest READY one, *)
(* and it is in the block until the bytes of its write-back are known.     *)
InBlock == Streaming \cup {"RESTART_BUS", "RESTART_BUS_FLUSH", "SAVE_QUEUE_ITEM"}

WorksOn(k) ==
  \/ state \in InBlock /\ k = wed
  \/ ah # None /\ ah.tag = Save /\ k = ah.addr[1]
  \/ \E c \in bus : Unsaid(c) /\ k = c.addr[1]

AtWork == \E k \in Slots : WorksOn(k)

(* The block takes up the element that it has loaded.                      *)
Begins == /\ state = "WAIT_FOR_QUEUE_ITEM" /\ got_qitem /\ qitem.flag = "ready"
          /\ state' = "RUN" /\ ah' = None /\ bus = {} /\ ah = None

(* Where the write-back of an element is under way.                        *)
Leaving == {"NEXT_ITEM", "WAIT_FOR_DONE", "DONE"}

(* An element is worked on from the load that found it READY, and at every *)
(* edge but the one that fetches the last of its bytes.                    *)
WorkGoesOn(k) ==
  /\ ~got_qitem' /\ slot' = slot /\ qitem' = qitem
  /\ \/ WorksOn(k) /\ state \notin {"IDLE", "LOAD_QUEUE_ITEM", "WAIT_FOR_QUEUE_ITEM"}
     \/ Begins /\ k = wed

(* The block works on an element only if it did before, or has loaded it.  *)
LEMMA WorkKept ==
  ASSUME "READ_CL_M" \notin Failing, InFlight, Names, Ownership, Rings, Place,
         NEW rsp \in Responses \cup {None}, NEW bw \in BufferWrites \cup {None},
         NEW br \in BufferReads \cup {None}, NEW out, NEW trigger, NEW stop,
         Edge(rsp, bw, br, out, trigger, stop),
         NEW k \in Slots, WorksOn(k)'
  PROVE  WorkGoesOn(k)
<1>1. /\ StateMachine /\ Bus(rsp, bw, br) /\ QitemRead(rsp, bw) /\ Wdata(br)
  BY DEF Edge
<1>2. Save # Load /\ Save # Restart /\ Save.kind = "qitem" /\ Save # None
  BY NoneAssumption DEF Save, Load, Restart, Tag, TagNames
<1>3. \A c \in bus : c.tag = Save => c.com = "WRITE_MI" /\ c.beats \in Nat
  BY <1>2 DEF Names, Matches
<1>4. ASSUME \A c \in bus : c.com # "READ_CL_M" PROVE qitem' = qitem
  <2>1. bw # None => \E c \in Reads : bw.tag = c.tag
    BY BeatsMove
  <2>2. bw # None => bw.tag.kind # "qitem"
    BY <1>2, <1>4, <2>1 DEF Names, Matches, Reads
  <2> QED BY <1>1, <2>2 DEF QitemRead
<1>5. (\A c \in bus : c.tag.kind # "qitem") => ~got_qitem'
  <2>1. rsp # None => \E b \in bus : rsp.tag = b.tag
    BY <1>1, BusContents
  <2> QED BY <1>1, <2>1 DEF QitemRead
<1>6. brtag_last # Save \/ (\A c \in bus : c.tag # Save) => slot' = slot
  BY <1>1, SlotStep DEF Place, Names
<1>7. CASE state \in InBlock /\ k = wed
  <2>1. \A c \in bus : c.com # "READ_CL_M" /\ c.tag.kind # "qitem"
    <3>1. \A c \in bus : c.com \notin {"READ_CL_M", "WRITE_MI"}
      BY <1>7 DEF InFlight, InBlock, Alone, Still, Only, Streaming
    <3> QED BY <3>1 DEF Names, Matches, Load, Save, Restart, Tag
  <2>2. WorksOn(k) /\ state \notin {"IDLE", "LOAD_QUEUE_ITEM", "WAIT_FOR_QUEUE_ITEM"}
    BY <1>7 DEF WorksOn, InBlock, Streaming
  <2> QED BY <1>2, <1>4, <1>5, <1>6, <2>1, <2>2 DEF WorkGoesOn
<1>8. CASE Begins /\ k = wed
  BY <1>4, <1>5, <1>6, <1>8 DEF WorkGoesOn, Begins
<1>9. ASSUME state' \in InBlock, k = wed' PROVE WorkGoesOn(k)
  <2>1. wed' = wed
    BY <1>1, <1>9, Walk DEF InBlock, Streaming
  <2>2. CASE state = "WAIT_FOR_QUEUE_ITEM"
    <3>1. got_qitem /\ qitem.flag = "ready" /\ state' \in Streaming
      BY <1>1, <1>9, <2>2, Moves DEF InBlock, Streaming
    <3>2. state' = "RUN" /\ ah' = None
      BY <1>1, <2>2, <3>1, Turns, Commands
    <3>3. bus = {} /\ ah = None
      BY <2>2, <3>1 DEF InFlight, Still
    <3> QED BY <1>8, <1>9, <2>1, <2>2, <3>1, <3>2, <3>3 DEF Begins
  <2>3. CASE state # "WAIT_FOR_QUEUE_ITEM"
    <3>1. state \in InBlock
      BY <1>1, <1>9, <2>3, Moves DEF InBlock, Streaming
    <3> QED BY <1>7, <1>9, <2>1, <3>1
  <2> QED BY <2>2, <2>3
<1>10. ASSUME ah' # None, ah'.tag = Save, k = ah'.addr[1] PROVE WorkGoesOn(k)
  <2>1. state = "SAVE_QUEUE_ITEM" /\ ah'.addr = <<wed, 0>>
    BY <1>1, <1>2, <1>10, Commands
  <2> QED BY <1>7, <1>10, <2>1 DEF InBlock
<1>11. ASSUME NEW c \in bus', Unsaid(c)', k = c.addr[1] PROVE WorkGoesOn(k)
  <2>1. CASE ah # None /\ c = Fresh
    <3>1. ah.tag = Save /\ ah.com = "WRITE_MI" /\ k = ah.addr[1]
      BY <1>2, <1>11, <2>1 DEF Unsaid, Fresh, Names, Matches
    <3>2. bus = {}
      BY <2>1, <3>1 DEF InFlight, QuietBus
    <3>3. WorksOn(k) /\ state \notin {"IDLE", "LOAD_QUEUE_ITEM", "WAIT_FOR_QUEUE_ITEM"}
      BY <1>2, <2>1, <3>1 DEF WorksOn, InFlight, Still, Only
    <3> QED BY <1>4, <1>5, <1>6, <3>2, <3>3 DEF WorkGoesOn
  <2>2. CASE \E b \in bus : c = Served(b, bw, br) /\ (rsp = None \/ rsp.tag # b.tag)
    <3>1. PICK b \in bus : c = Served(b, bw, br) /\ (rsp = None \/ rsp.tag # b.tag)
      BY <2>2
    <3>2. b.tag = Save /\ k = b.addr[1] /\ b.com = "WRITE_MI" /\ b.beats \in Nat
      BY <1>3, <1>11, <3>1, ServedNames DEF Unsaid
    <3>3. bus = {b} /\ ah = None
      BY <3>2 DEF InFlight, QuietBus
    <3>4. rsp = None
      BY <1>1, <3>1, <3>3, BusContents
    <3>5. state \notin {"IDLE", "LOAD_QUEUE_ITEM", "WAIT_FOR_QUEUE_ITEM"}
      BY <1>2, <3>2, <3>3 DEF InFlight, Still, Only
    <3>6. b.beats = 0
      <4>1. CASE br # None /\ br.tag = Save
        <5>1. br \in BufferReads
          BY <4>1
        <5>2. PICK d \in bus : d.tag = Save /\ d.beats = 0
          BY <4>1, <5>1, SaveAsked DEF InFlight
        <5> QED BY <3>3, <5>2
      <4>2. CASE ~(br # None /\ br.tag = Save)
        <5>1. c.beats = 0
          BY <1>1, <1>2, <1>11, <4>2 DEF Unsaid, Wdata
        <5>2. c.beats = IF (bw # None /\ bw.tag = b.tag) \/ (br # None /\ br.tag = b.tag)
                        THEN b.beats + 1 ELSE b.beats
          BY <3>1, ServedNames
        <5> QED BY <3>2, <5>1, <5>2
      <4> QED BY <4>1, <4>2
    <3>7. WorksOn(k)
      BY <3>2, <3>6 DEF WorksOn, Unsaid
    <3>8. brtag_last # Save
      BY <3>3, <3>6 DEF Ownership, Saves
    <3>9. ~got_qitem'
      BY <1>1, <3>4 DEF QitemRead
    <3>10. qitem' = qitem
      BY <1>4, <3>2, <3>3
    <3> QED BY <1>6, <3>5, <3>7, <3>8, <3>9, <3>10 DEF WorkGoesOn
  <2> QED BY <1>1, <1>11, <2>1, <2>2, BusContents
<1> QED BY <1>9, <1>10, <1>11 DEF WorksOn

(* The edge that fetches the last bytes of a write-back completes the      *)
(* element, and the block then works on none.                              *)
Completes(k) ==
  /\ WorksOn(k)
  /\ slot' = [slot EXCEPT ![k] = [flag |-> "done", job |-> slot[k].job, res |-> Report]]
  /\ ~AtWork'
  /\ state \in Leaving /\ state' \in Leaving /\ (state' = "NEXT_ITEM" => state = "NEXT_ITEM")
  /\ wed' = wed /\ ah = None

(* A slot changes only by the completion of the element that is worked on. *)
LEMMA WorkEnds ==
  ASSUME "READ_CL_M" \notin Failing, InFlight, Names, Ownership, Rings, Scalars, Place,
         NEW rsp \in Responses \cup {None}, NEW bw \in BufferWrites \cup {None},
         NEW br \in BufferReads \cup {None}, NEW out, NEW trigger, NEW stop,
         Edge(rsp, bw, br, out, trigger, stop), slot' # slot
  PROVE  \E k \in Slots : Completes(k)
<1>1. StateMachine /\ Bus(rsp, bw, br)
  BY DEF Edge
<1>2. Save # Load /\ Save # Restart /\ Save.kind = "qitem" /\ Save # None
  BY NoneAssumption DEF Save, Load, Restart, Tag, TagNames
<1>3. /\ slot = [j \in Slots |-> slot[j]] /\ slot' = [j \in Slots |-> slot'[j]]
      /\ \A j \in Slots : slot'[j] # slot[j] =>
           /\ brtag_last = Save
           /\ \E c \in bus : c.tag = Save /\ c.addr[1] = j
  BY <1>1, SlotStep DEF Place, Names
<1>4. PICK k \in Slots : slot'[k] # slot[k]
  BY <1>3
<1>5. PICK c \in bus : c.tag = Save /\ c.addr[1] = k
  BY <1>3, <1>4
<1>6. bus = {c} /\ ah = None /\ c.com = "WRITE_MI"
  <2>1. c.com = "WRITE_MI"
    BY <1>2, <1>5 DEF Names, Matches
  <2> QED BY <2>1 DEF InFlight, QuietBus
<1>7. WorksOn(k)
  BY <1>3, <1>4, <1>5 DEF WorksOn, Unsaid
<1>8. slot' = [slot EXCEPT ![k] = [flag |-> "done", job |-> slot[k].job, res |-> Report]]
  <2>1. \A j \in Slots : j # k => slot'[j] = slot[j]
    BY <1>3, <1>5, <1>6
  <2>2. slot'[k] = [flag |-> "done", job |-> slot[k].job, res |-> Report]
    BY <1>1, <1>4 DEF Bus
  <2> QED BY <1>3, <2>1, <2>2
<1>9. ~AtWork'
  <2>1. \A j \in Slots : ~WorksOn(j)'
    BY WorkKept DEF WorkGoesOn
  <2> QED BY <2>1 DEF AtWork
<1>10. state \in Leaving
  BY <1>2, <1>5, <1>6 DEF InFlight, Still, Only, Alone, Streaming, Scalars, States, Leaving
<1>11. state' \in Leaving /\ (state' = "NEXT_ITEM" => state = "NEXT_ITEM") /\ wed' = wed
  <2>1. ~flushed
    BY <1>6 DEF InFlight
  <2> QED BY <1>1, <1>10, <2>1 DEF StateMachine, Idle, LoadQueueItem, WaitForQueueItem, Run, ReadSrc,
       WriteDst, WriteWait, Flush, RestartBus, RestartBusFlush, SaveQueueItem, NextItem, WaitForDone,
       Done, Await, Submit, Goto, Leaving
<1> QED BY <1>6, <1>7, <1>8, <1>9, <1>10, <1>11 DEF Completes

(* Until then the write-back, once issued, is under way.                   *)
LEMMA WorkWaits ==
  ASSUME "READ_CL_M" \notin Failing, InFlight, Names, Faults, Ownership, Rings, Place, Untouched,
         NEW rsp \in Responses \cup {None}, NEW bw \in BufferWrites \cup {None},
         NEW br \in BufferReads \cup {None}, NEW out, NEW trigger, NEW stop,
         Edge(rsp, bw, br, out, trigger, stop), state = "NEXT_ITEM", AtWork
  PROVE  /\ state' \in {"NEXT_ITEM", "WAIT_FOR_DONE"} /\ wed' = wed
         /\ slot' = slot => AtWork'
<1>1. /\ StateMachine /\ Bus(rsp, bw, br) /\ QitemRead(rsp, bw) /\ Wdata(br)
  BY DEF Edge
<1>2. Save # Load /\ Save # Restart /\ Save.kind = "qitem" /\ Save # None
  BY NoneAssumption DEF Save, Load, Restart, Tag, TagNames
<1>3. \A c \in bus : c.tag = Save => c.com = "WRITE_MI" /\ c.com \notin Failing /\ c.beats \in Nat
  BY <1>2, RtlAssumption DEF Names, Matches
<1>4. PICK k \in Slots : \/ ah # None /\ ah.tag = Save /\ k = ah.addr[1]
                         \/ \E c \in bus : Unsaid(c) /\ k = c.addr[1]
  BY DEF AtWork, WorksOn, InBlock, Streaming
<1>5. state' \in {"NEXT_ITEM", "WAIT_FOR_DONE"} /\ wed' = wed
  <2>1. ~(flushed /\ ah = None)
    BY <1>4 DEF InFlight
  <2> QED BY <1>1, <2>1 DEF StateMachine, Idle, LoadQueueItem, WaitForQueueItem, Run, ReadSrc,
       WriteDst, WriteWait, Flush, RestartBus, RestartBusFlush, SaveQueueItem, NextItem, WaitForDone,
       Done, Await, Submit, Goto
<1>6. ASSUME slot' = slot PROVE \E s \in bus' : Unsaid(s)' /\ k = s.addr[1]
  <2>1. CASE ah # None /\ ah.tag = Save /\ k = ah.addr[1]
    <3>1. PICK s \in bus' : s = Fresh
      BY <1>1, <2>1 DEF Bus, Taken, Fresh
    <3>2. Unsaid(s)' /\ k = s.addr[1]
      BY <2>1, <3>1 DEF Unsaid, Fresh
    <3> QED BY <3>2
  <2>2. CASE \E c \in bus : Unsaid(c) /\ k = c.addr[1]
    <3>1. PICK c \in bus : Unsaid(c) /\ c.addr[1] = k
      BY <2>2
    <3>2. c.tag = Save /\ c.com = "WRITE_MI" /\ c.com \notin Failing /\ c.buf = <<>> /\ c.beats \in Nat
      BY <1>3, <3>1 DEF Unsaid, Untouched
    <3>3. ~(rsp # None /\ rsp.tag = c.tag)
      <4> SUFFICES ASSUME rsp # None, rsp.tag = c.tag PROVE FALSE
        OBVIOUS
      <4>1. PICK d \in bus : /\ rsp.tag = d.tag
                             /\ ~failed => Complete(d) \/ d.com \in Failing
        BY Answered
      <4>2. d = c /\ ~failed
        BY <4>1 DEF Rings, Once, Faults, Streaming
      <4>3. Len(c.buf) = 1
        BY <3>2, <4>1, <4>2 DEF Complete, Reads, BeatsOf
      <4> QED BY <3>2, <4>3
    <3>4. PICK s \in bus' : s = Served(c, bw, br)
      BY <1>1, <3>3 DEF Bus
    <3>5. s.tag = Save /\ s.addr[1] = k
      BY <3>1, <3>2, <3>4, ServedNames
    <3>6. brtag_last # Save
      <4> SUFFICES ASSUME brtag_last = Save PROVE FALSE
        OBVIOUS
      <4>1. slot'[k].flag = "done"
        <5> DEFINE kept == {Served(e, bw, br) : e \in bus \ {b \in bus : rsp # None /\ rsp.tag = b.tag}}
        <5>1. Served(c, bw, br) \in kept
          BY <3>3
        <5>2. slot'[k] = IF \E e \in kept : e.tag = Save /\ e.addr[1] = k /\ brtag_last = Save
                         THEN [flag |-> "done", job |-> slot[k].job, res |-> Report]
                         ELSE slot[k]
          BY <1>1 DEF Bus
        <5> HIDE DEF kept
        <5> QED BY <3>4, <3>5, <5>1, <5>2
      <4>2. slot[k].flag = "ready"
        BY <3>1, <3>2 DEF Ownership, Saves
      <4> QED BY <1>6, <4>1, <4>2
    <3>7. s.beats = 0 \/ (br # None /\ br.tag = Save)
      <4>1. c.beats = 0
        BY <3>1, <3>6 DEF Unsaid
      <4>2. ~(bw # None /\ bw.tag = Save)
        <5>1. bw # None => \E b \in Reads : bw.tag = b.tag
          BY BeatsMove
        <5> QED BY <1>3, <5>1 DEF Reads
      <4> QED BY <3>2, <3>4, <4>1, <4>2, ServedNames
    <3>8. Unsaid(s)'
      BY <1>1, <3>5, <3>7 DEF Unsaid, Wdata
    <3> QED BY <3>5, <3>8
  <2> QED BY <1>4, <2>1, <2>2
<1>7. slot' = slot => AtWork'
  <2> SUFFICES ASSUME slot' = slot PROVE AtWork'
    OBVIOUS
  <2>1. WorksOn(k)'
    BY <1>6 DEF WorksOn
  <2> QED BY <2>1 DEF AtWork
<1> QED BY <1>5, <1>7

-----------------------------------------------------------------------------
(* What the block knows of its element.  It has the element's request; it  *)
(* hands on no beat that was not asked for, be it for the processor or of  *)
(* the processor's own.                                                    *)
Carried == \A k \in Slots : WorksOn(k) => qitem.buf = k /\ qitem.job = slot[k].job /\ slot[k].flag = "ready"

(* The pace of the reads: as many as the block has counted.                *)
Paced ==
  /\ Reserved + Asks <= All
  /\ state \in {"RUN", "WRITE_DST", "WRITE_WAIT"} =>
       2 * src_count = Reserved + Asks /\ src_count <= qitem.job.len
  /\ state = "READ_SRC" => 2 * (src_count - 1) = Reserved /\ src_count <= qitem.job.len

Measured == AtWork =>
  /\ ~clear /\ ~got_qitem /\ ReadRing
  /\ IF WriteOnly THEN made = dst_count /\ made <= All ELSE Paced

(* The block keeps what it has loaded while it works on the element.       *)
LEMMA CarriedStep ==
  ASSUME "READ_CL_M" \notin Failing, InFlight, Names, Ownership, Rings, Place, Carried,
         NEW rsp \in Responses \cup {None}, NEW bw \in BufferWrites \cup {None},
         NEW br \in BufferReads \cup {None}, NEW out, NEW trigger, NEW stop,
         Edge(rsp, bw, br, out, trigger, stop)
  PROVE  Carried'
<1> SUFFICES ASSUME NEW k \in Slots, WorksOn(k)'
             PROVE  qitem'.buf = k /\ qitem'.job = slot'[k].job /\ slot'[k].flag = "ready"
  BY DEF Carried
<1>1. WorkGoesOn(k)
  BY WorkKept
<1>2. CASE WorksOn(k)
  BY <1>1, <1>2 DEF Carried, WorkGoesOn
<1>3. CASE Begins /\ k = wed
  <2>1. qitem = Element(wed)
    BY <1>3 DEF Place, Begins
  <2> QED BY <1>1, <1>3, <2>1 DEF WorkGoesOn, Begins, Element
<1> QED BY <1>1, <1>2, <1>3 DEF WorkGoesOn

(* A line is asked for only when it has been counted.                      *)
LEMMA PacedStep ==
  ASSUME Room, Registers, src_count \in Nat, qitem.job.len \in Nat, qitem' = qitem,
         StateMachine, state # "WAIT_FOR_QUEUE_ITEM", Paced,
         Reserved \in Int, Reserved' = Reserved + Asks, Asks \in {0, 2}, Asks' \in {0, 2}
  PROVE  Paced'
<1> DEFINE len == qitem.job.len
<1>1. state \in Submitting => Asks = 0
  BY DEF Room, Asks, HasTag
<1>2. /\ state' = "READ_SRC" =>
            \/ state = "RUN" /\ src_count' = src_count + 1 /\ src_count # len
            \/ state = "READ_SRC" /\ src_count' = src_count /\ ah' = None
      /\ state' \in {"RUN", "WRITE_DST", "WRITE_WAIT"} =>
            \/ state \in {"RUN", "WRITE_DST", "WRITE_WAIT"} /\ src_count' = src_count
            \/ state = "READ_SRC" /\ src_count' = src_count /\ HasTag(ah, "rdata")'
      /\ HasTag(ah, "rdata")' => state = "READ_SRC"
  BY SourceTurns
<1>3. /\ Reserved + Asks <= 2 * len
      /\ state \in {"RUN", "WRITE_DST", "WRITE_WAIT"} => 2 * src_count = Reserved + Asks /\ src_count <= len
      /\ state = "READ_SRC" => 2 * (src_count - 1) = Reserved /\ src_count <= len /\ Asks = 0
  BY <1>1 DEF Paced, Submitting, All
<1>4. Asks' = IF HasTag(ah, "rdata")' THEN 2 ELSE 0
  BY DEF Asks
<1>5. Reserved' + Asks' <= 2 * len
  <2>1. CASE HasTag(ah, "rdata")'
    BY <1>2, <1>3, <1>4, <2>1
  <2>2. CASE ~HasTag(ah, "rdata")'
    BY <1>3, <1>4, <2>2
  <2> QED BY <2>1, <2>2
<1>6. state' \in {"RUN", "WRITE_DST", "WRITE_WAIT"} => 2 * src_count' = Reserved' + Asks' /\ src_count' <= len
  BY <1>2, <1>3, <1>4
<1>7. state' = "READ_SRC" => 2 * (src_count' - 1) = Reserved' /\ src_count' <= len
  BY <1>2, <1>3
<1> QED BY <1>5, <1>6, <1>7 DEF Paced, All

(* Lines are measured from the load of an element to its write-back, also  *)
(* when a fault stops them from arriving.                                  *)
LEMMA MeasuredStep ==
  ASSUME "READ_CL_M" \notin Failing, Room, InFlight, Names, Faults, Ownership, Rings, Types, Place,
         Carried, Measured,
         NEW rsp \in Responses \cup {None}, NEW bw \in BufferWrites \cup {None},
         NEW br \in BufferReads \cup {None}, NEW out \in {None, NextBeat}, NEW trigger, NEW stop,
         Edge(rsp, bw, br, out, trigger, stop)
  PROVE  Measured'
<1>1. /\ StateMachine /\ Bus(rsp, bw, br) /\ QitemRead(rsp, bw) /\ ReadQueue(rsp, bw, Ready)
      /\ WriteQueue(rsp, br, out) /\ WriteAddrFifo(out) /\ Processor(out) /\ DstAddr(out)
  BY DEF Edge
<1>2. Registers /\ Commanded /\ Once
  BY DEF Rings
<1> SUFFICES ASSUME NEW k \in Slots, WorksOn(k)'
             PROVE  /\ ~clear' /\ ~got_qitem' /\ ReadRing'
                    /\ IF WriteOnly' THEN made' = dst_count' /\ made' <= All' ELSE Paced'
  BY DEF Measured, AtWork
<1>3. WorkGoesOn(k)
  BY WorkKept
<1>4. ~got_qitem' /\ qitem' = qitem /\ (WriteOnly' <=> WriteOnly) /\ All' = All
  BY <1>3 DEF WorkGoesOn, WriteOnly, All
<1>5. ~clear'
  BY <1>1, <1>3, Turns, ClearType DEF WorkGoesOn, Begins
<1>6. CASE WorksOn(k) /\ state \notin {"IDLE", "LOAD_QUEUE_ITEM", "WAIT_FOR_QUEUE_ITEM"}
  <2>1. /\ ~clear /\ ~got_qitem /\ ReadRing
        /\ WriteOnly => made = dst_count /\ made <= All
        /\ ~WriteOnly => Paced
    BY <1>6 DEF Measured, AtWork
  <2>2. ReadRing'
    BY <1>1, <1>2, <2>1, ReadRingStep
  <2>3. qitem.job.len \in Nat /\ All \in Nat
    <3>1. qitem.job \in Jobs \cup {NoJob}
      BY <1>6 DEF Carried, Place
    <3>2. qitem.job.len \in Nat
      BY <3>1, RtlAssumption DEF NoJob
    <3> QED BY <3>2 DEF All
  <2>4. ASSUME WriteOnly PROVE made' = dst_count' /\ made' <= All
    <3>1. out # None => made < All
      BY <1>1, <1>2, <2>4, ProcessorMoves DEF Types, All
    <3>2. /\ made' = IF out # None /\ ~wq.full THEN made + 1 ELSE made
          /\ dst_count' = IF out # None /\ ~wq.full THEN dst_count + 1 ELSE dst_count
      BY <1>1, <2>1, <2>4 DEF Processor, DstAddr
    <3>3. made \in Nat
      BY DEF Types
    <3> QED BY <2>1, <2>3, <2>4, <3>1, <3>2, <3>3
  <2>5. ASSUME ~WriteOnly PROVE Paced'
    <3>1. Reserved \in Int /\ Reserved' = Reserved + Asks /\ Asks \in {0, 2} /\ Asks' \in {0, 2}
      BY <1>1, <1>2, <2>1, <2>5, CountsMove
    <3>2. src_count \in Nat /\ Registers
      BY <1>2 DEF Types
    <3> QED BY <1>1, <1>4, <1>6, <2>1, <2>3, <2>5, <3>1, <3>2, PacedStep
  <2> QED BY <1>4, <1>5, <2>2, <2>4, <2>5
<1>7. CASE Begins /\ k = wed
  <2>1. clear = TRUE /\ bus' = {} /\ qitem = Element(wed) /\ rsp = None
    BY <1>1, <1>2, <1>7, BusContents DEF Begins, Rings, Resets, Registers, Place
  <2>2. qitem.job.len \in Nat
    <3>1. qitem.job \in Jobs \cup {NoJob}
      BY <1>2, <2>1 DEF Commanded, Place, Element
    <3> QED BY <3>1, RtlAssumption DEF NoJob
  <2>3. Contents'
    BY <1>1, <1>4, <1>7, <2>1, <2>2, ContentsBegin DEF Begins
  <2>4. Serving'
    <3>1. ~failed
      BY <1>7 DEF Begins, Faults, Streaming
    <3>2. ~failed'
      BY <1>1, <2>1, <3>1 DEF Bus
    <3> QED BY <1>7, <3>2 DEF Serving, Live, Begins, Streaming
  <2>5. ReadRing'
    <3>1. wq'.comp = None
      BY <1>1, <2>1 DEF WriteQueue, WQ!WqEdge, LineAddr, HasTag
    <3> QED BY <1>1, <1>2, <1>7, <2>1, <3>1, RingsBegin DEF Begins
  <2>6. made' = 0 /\ dst_count' = 0
    BY <1>1, <1>7, <2>1 DEF Processor, DstAddr, Begins
  <2>7. WriteOnly => made' = dst_count' /\ made' <= All
    BY <2>2, <2>6 DEF All
  <2>8. ~WriteOnly => Paced'
    <3>1. ~WriteOnly => Source'
      BY <1>4, <2>3, <2>4 DEF Contents
    <3> QED BY <3>1 DEF Source, Paced, All
  <2> QED BY <1>4, <1>5, <2>5, <2>7, <2>8
<1> QED BY <1>3, <1>6, <1>7 DEF WorkGoesOn

(* The codes of an element that a failure of the bus has cut short.        *)
Coded ==
  /\ error_mask \subseteq {"FAULT", "FLUSHED"}
  /\ failed \/ error_mask # {} => "FAULT" \in error_mask
  /\ Failing = {} => error_mask = {}

(* A fault is among the codes before any flush is.                         *)
LEMMA CodedStep ==
  ASSUME InFlight, Faults, Coded,
         NEW rsp \in Responses \cup {None}, NEW bw, NEW br, NEW out, NEW trigger, NEW stop,
         Edge(rsp, bw, br, out, trigger, stop)
  PROVE  Coded'
<1>1. /\ Bus(rsp, bw, br)
      /\ error_mask' = IF state = "LOAD_QUEUE_ITEM" THEN {}
                       ELSE error_mask \cup (IF rsp = None THEN {} ELSE {rsp.code} \ {"DONE"})
      /\ failed' = IF rsp = None \/ rsp.code = "FLUSHED" THEN failed ELSE rsp.code = "FAULT"
  BY DEF Edge, ErrorCheck, Bus
<1>2. CASE state = "LOAD_QUEUE_ITEM"
  <2>1. rsp = None
    BY <1>1, <1>2, BusContents DEF InFlight, Still
  <2> QED BY <1>1, <1>2, <2>1 DEF Coded, Faults, Streaming
<1>3. CASE state # "LOAD_QUEUE_ITEM" /\ rsp = None
  BY <1>1, <1>3 DEF Coded
<1>4. CASE state # "LOAD_QUEUE_ITEM" /\ rsp # None
  <2>1. PICK c \in bus :
          /\ failed => rsp.code = IF c.com = "RESTART" THEN "DONE" ELSE "FLUSHED"
          /\ ~failed => \/ Complete(c) /\ rsp.code = "DONE"
                        \/ c.com \in Failing /\ rsp.code = "FAULT"
    BY <1>4, Answered
  <2> QED BY <1>1, <1>4, <2>1 DEF Coded
<1> QED BY <1>2, <1>3, <1>4

(* What a completed element says answers its request.                      *)
LEMMA ReportAnswers ==
  ASSUME InFlight, Rings, Types, Scalars, Place, Truthful, Carried, Measured, Coded,
         NEW k \in Slots, WorksOn(k), state \notin InBlock, ah = None
  PROVE  /\ slot[k].job \in Jobs \cup {NoJob}
         /\ Report \in Answer(slot[k].job)
<1> DEFINE j == slot[k].job
<1>1. /\ qitem.job = j /\ j \in Jobs \cup {NoJob} /\ j.len \in Nat
      /\ ~clear /\ ReadRing /\ (IF WriteOnly THEN made = dst_count /\ made <= All ELSE Paced)
  <2>1. qitem.job = j /\ AtWork
    BY DEF Carried, AtWork
  <2>2. j \in Jobs \cup {NoJob}
    BY DEF Place
  <2>3. j.len \in Nat
    BY <2>2, RtlAssumption DEF NoJob
  <2> QED BY <2>1, <2>2, <2>3 DEF Measured
<1>2. dst_count \in Nat /\ All = 2 * j.len
  BY <1>1 DEF Rings, Registers, All
<1>3. dst_count <= All
  <2>1. CASE WriteOnly
    BY <1>1, <2>1
  <2>2. CASE ~WriteOnly
    <3>1. Reserved + Asks <= All
      BY <1>1, <2>2 DEF Paced
    <3>2. Len(proc) \in Nat /\ Popped \in Nat /\ dst_count <= Popped
      <4>1. Len(proc) \in Nat
        BY DEF Types
      <4> QED BY <1>2, <4>1 DEF Popped
    <3>3. rq.raddr \in BeatNos /\ rq.vaddr \in BeatNos /\ rq.vaddr % 2 = 0 /\ Asks \in {0, 2} /\ All \in Nat
      BY <1>1, <1>2 DEF Rings, Registers, Asks
    <3>4. Popped <= All
      BY <3>1, <3>2, <3>3, ReadBounds DEF Reserved, Free
    <3> QED BY <1>2, <3>2, <3>4
  <2> QED BY <2>1, <2>2
<1>4. dst_count \div 2 \in 0 .. j.len
  BY <1>1, <1>2, <1>3
<1>5. CASE error_mask = {}
  <2>1. Settled(k)
    <3>1. PICK c \in bus : Unsaid(c) /\ k = c.addr[1]
      BY DEF WorksOn
    <3> QED BY <1>5, <3>1 DEF Truthful
  <2>2. dst_count = All
    BY <2>1 DEF Settled, Spent
  <2>3. dst_count \div 2 = j.len
    BY <1>1, <1>2, <2>2
  <2>4. dirty = ((j.odirty \/ j.always) /\ j.len > 0)
    <3>1. dirty = (landed[k] # {}) /\ landed[k] = Result(k, j)
      BY <2>1 DEF Settled
    <3>2. Result(k, j) # {} <=> (j.odirty \/ j.always) /\ j.len > 0
      <4>1. CASE j.odirty \/ j.always
        <5>1. j.len > 0 => [line |-> 0, data |-> <<Beat(k, 0, 0), Beat(k, 0, 1)>>] \in Result(k, j)
          BY <1>1, <4>1 DEF Result
        <5>2. j.len = 0 => Result(k, j) = {}
          BY <1>1, <4>1 DEF Result
        <5> QED BY <1>1, <4>1, <5>1, <5>2
      <4>2. CASE ~(j.odirty \/ j.always)
        BY <4>2 DEF Result
      <4> QED BY <4>1, <4>2
    <3> QED BY <3>1, <3>2
  <2> QED BY <1>1, <1>5, <2>3, <2>4 DEF Report, Answer
<1>6. CASE error_mask # {}
  <2>1. error_mask \in Codes
    BY <1>6 DEF Coded, Codes
  <2>2. dirty \in BOOLEAN
    BY DEF Scalars
  <2> QED BY <1>1, <1>4, <2>1, <2>2 DEF Report, Answer
<1> QED BY <1>5, <1>6

-----------------------------------------------------------------------------
(* The ring of elements, from the next one to be retired: those that are   *)
(* DONE, those that are READY, the free ones.                              *)
WedAfter(x) == IF x = QueueLen - 1 THEN 0 ELSE x + 1

(* The slot k places after slot x, and how far slot i is behind slot x.    *)
At(x, k) == IF x + k < QueueLen THEN x + k ELSE x + k - QueueLen
Dist(x, i) == IF x <= i THEN i - x ELSE i - x + QueueLen

Runs(p, h, ds, rs, d, n) ==
  /\ d \in Nat /\ n \in Nat /\ d + n <= QueueLen
  /\ h = At(At(p, d), n)
  /\ \A i \in Slots : i \in ds <=> Dist(p, i) < d
  /\ \A i \in Slots : i \in rs <=> Dist(At(p, d), i) < n

(* Walking along the ring, and counting back.                              *)
LEMMA RingWalk ==
  ASSUME NEW x \in Slots, NEW k \in 0 .. QueueLen
  PROVE  /\ At(x, k) \in Slots /\ WedAfter(x) \in Slots /\ (x + 1) % QueueLen = WedAfter(x)
         /\ k < QueueLen => Dist(x, At(x, k)) = k
         /\ k < QueueLen => At(WedAfter(x), k) = At(x, k + 1)
         /\ WedAfter(At(x, k)) = At(x, k + 1) \/ k = QueueLen
         /\ At(x, 0) = x
         /\ \A i \in Slots : Dist(x, i) \in 0 .. QueueLen - 1 /\ At(x, Dist(x, i)) = i
<1>1. (x + 1) % QueueLen = WedAfter(x)
  BY OneMore, RtlAssumption DEF Slots, WedAfter
<1> QED BY <1>1, RtlAssumption DEF At, Dist, Slots, WedAfter

(* Walking k places is addition modulo the length of the ring.             *)
LEMMA RingMod ==
  ASSUME NEW x \in Slots, NEW k \in 1 .. QueueLen
  PROVE  (x + k - 1) % QueueLen = At(x, k - 1)
<1>1. ASSUME NEW y \in Nat, y < QueueLen PROVE y % QueueLen = y
  BY <1>1, RtlAssumption
<1>2. ASSUME NEW y \in Nat, QueueLen <= y, y < 2 * QueueLen PROVE y % QueueLen = y - QueueLen
  BY <1>2, RtlAssumption
<1> QED BY <1>1, <1>2, RtlAssumption DEF At, Slots

(* An element is published: the READY run grows by one.                    *)
LEMMA RunsPublish ==
  ASSUME NEW p \in Slots, NEW h \in Slots, NEW ds, NEW rs, NEW d, NEW n,
         Runs(p, h, ds, rs, d, n), h \notin ds, h \notin rs
  PROVE  Runs(p, WedAfter(h), ds, rs \cup {h}, d, n + 1)
BY RtlAssumption DEF Runs, At, Dist, Slots, WedAfter

(* The oldest READY element moves to the DONE run.                         *)
LEMMA RunsComplete ==
  ASSUME NEW p \in Slots, NEW h \in Slots, NEW ds, NEW rs, NEW d, NEW n,
         Runs(p, h, ds, rs, d, n), At(p, d) \in rs
  PROVE  /\ Runs(p, h, ds \cup {At(p, d)}, rs \ {At(p, d)}, d + 1, n - 1)
         /\ At(p, d + 1) = WedAfter(At(p, d)) /\ d < QueueLen /\ n > 0
BY RtlAssumption DEF Runs, At, Dist, Slots, WedAfter

(* The oldest completion is taken: the DONE run starts after it.           *)
LEMMA RunsTake ==
  ASSUME NEW p \in Slots, NEW h \in Slots, NEW ds, NEW rs, NEW d, NEW n,
         Runs(p, h, ds, rs, d, n), p \in ds
  PROVE  /\ Runs(WedAfter(p), h, ds \ {p}, rs, d - 1, n)
         /\ At(WedAfter(p), d - 1) = At(p, d) /\ d > 0
BY RtlAssumption DEF Runs, At, Dist, Slots, WedAfter

(* The two sequences of the pipe are windows of the ring.                  *)

Window(f, x, n) == [k \in 1 .. n |-> f[At(x, k - 1)]]

(* w is the sequence of what f has in the n slots from x on.               *)
Shows(w, S, f, x, n) ==
  w \in Seq(S) /\ Len(w) = n /\ \A k \in 1 .. n : w[k] = f[At(x, k - 1)]

(* A window is a sequence as long as its run.                              *)
LEMMA WindowSeq ==
  ASSUME NEW S, NEW f \in [Slots -> S], NEW x \in Slots, NEW n \in 0 .. QueueLen
  PROVE  Shows(Window(f, x, n), S, f, x, n)
<1>1. \A k \in 1 .. n : At(x, k - 1) \in Slots
  <2> TAKE k \in 1 .. n
  <2>1. k - 1 \in 0 .. QueueLen
    BY RtlAssumption
  <2> QED BY <2>1, RingWalk
<1>2. n \in Nat /\ Window(f, x, n) \in [1 .. n -> S]
  BY <1>1, RtlAssumption DEF Window
<1>3. Window(f, x, n) \in Seq(S) /\ Len(Window(f, x, n)) = n
  BY <1>2
<1> QED BY <1>3 DEF Window, Shows

(* f and g agree on the slots from the m-th to the n-th of a window.       *)
Agree(f, g, x, m, n) == \A k \in m .. n : g[At(x, k - 1)] = f[At(x, k - 1)]

(* Two windows with the same slots in them are equal.                      *)
LEMMA WindowSame ==
  ASSUME NEW f, NEW g, NEW x, NEW n, Agree(f, g, x, 1, n)
  PROVE  Window(g, x, n) = Window(f, x, n)
BY DEF Window, Agree

(* One slot more at the end appends what it holds.                         *)
LEMMA WindowAppend ==
  ASSUME NEW S, NEW f \in [Slots -> S], NEW g \in [Slots -> S],
         NEW x \in Slots, NEW n \in 0 .. QueueLen - 1, Agree(f, g, x, 1, n)
  PROVE  Window(g, x, n + 1) = Append(Window(f, x, n), g[At(x, n)])
<1>0. n \in 0 .. QueueLen /\ n + 1 \in 0 .. QueueLen /\ n \in Nat
  BY RtlAssumption
<1>1. Shows(Window(f, x, n), S, f, x, n)
  BY <1>0, WindowSeq
<1>2. Shows(Window(g, x, n + 1), S, g, x, n + 1)
  <2> DEFINE m == n + 1
  <2>1. m \in 0 .. QueueLen
    BY <1>0
  <2> HIDE DEF m
  <2>2. Shows(Window(g, x, m), S, g, x, m)
    BY <2>1, WindowSeq
  <2> QED BY <2>2 DEF m
<1>3. At(x, n) \in Slots /\ g[At(x, n)] \in S
  BY <1>0, RingWalk
<1> DEFINE old == Window(f, x, n)
           new == Window(g, x, n + 1)
           v == g[At(x, n)]
<1> HIDE DEF old, new, v
<1>4. old \in Seq(S) /\ new \in Seq(S) /\ Len(old) = n /\ Len(new) = n + 1 /\ v \in S
  BY <1>1, <1>2, <1>3 DEF old, new, v, Shows
<1>5. Append(old, v) \in Seq(S) /\ Len(Append(old, v)) = n + 1
  BY <1>4, <1>0
<1>6. ASSUME NEW k \in 1 .. n + 1 PROVE new[k] = Append(old, v)[k]
  <2>1. CASE k \in 1 .. n
    <3>1. new[k] = g[At(x, k - 1)] /\ old[k] = f[At(x, k - 1)]
      BY <1>0, <1>1, <1>2, <2>1 DEF old, new, Shows
    <3>2. Append(old, v)[k] = old[k]
      BY <1>4, <2>1
    <3> QED BY <2>1, <3>1, <3>2 DEF Agree
  <2>2. CASE k = n + 1
    <3>1. Append(old, v)[n + 1] = v
      BY <1>4, <1>0
    <3>2. new[n + 1] = g[At(x, n + 1 - 1)] /\ n + 1 - 1 = n
      BY <1>0, <1>2 DEF new, Shows
    <3> QED BY <2>2, <3>1, <3>2 DEF v
  <2>3. k \in 1 .. n \/ k = n + 1
    BY <1>0
  <2> QED BY <2>1, <2>2, <2>3
<1>7. new = Append(old, v)
  BY <1>4, <1>5, <1>6, SeqEqual
<1> QED BY <1>7 DEF old, new, v

(* Without its first slot a window is the tail of what it was.             *)
LEMMA WindowTail ==
  ASSUME NEW S, NEW f \in [Slots -> S], NEW g \in [Slots -> S],
         NEW x \in Slots, NEW n \in 1 .. QueueLen, Agree(f, g, x, 2, n)
  PROVE  /\ Window(f, x, n) # <<>> /\ Head(Window(f, x, n)) = f[x]
         /\ Window(g, WedAfter(x), n - 1) = Tail(Window(f, x, n))
<1>0. n \in 0 .. QueueLen /\ n - 1 \in 0 .. QueueLen /\ n \in Nat /\ WedAfter(x) \in Slots
  BY RtlAssumption, RingWalk
<1>1. Shows(Window(f, x, n), S, f, x, n)
  BY <1>0, WindowSeq
<1>2. Shows(Window(g, WedAfter(x), n - 1), S, g, WedAfter(x), n - 1)
  <2> DEFINE y == WedAfter(x)
             m == n - 1
  <2>1. y \in Slots /\ m \in 0 .. QueueLen
    BY <1>0
  <2> HIDE DEF y, m
  <2>2. Shows(Window(g, y, m), S, g, y, m)
    BY <2>1, WindowSeq
  <2> QED BY <2>2 DEF y, m
<1> DEFINE old == Window(f, x, n)
           new == Window(g, WedAfter(x), n - 1)
<1>3. \A k \in 1 .. n - 1 : At(WedAfter(x), k - 1) = At(x, k)
  <2> TAKE k \in 1 .. n - 1
  <2>1. k - 1 \in 0 .. QueueLen /\ k - 1 < QueueLen /\ (k - 1) + 1 = k
    BY RtlAssumption
  <2> QED BY <2>1, RingWalk
<1> HIDE DEF old, new
<1>4. old \in Seq(S) /\ new \in Seq(S) /\ Len(old) = n /\ Len(new) = n - 1 /\ old # <<>>
  BY <1>0, <1>1, <1>2 DEF old, new, Shows
<1>5. Tail(old) \in Seq(S) /\ Len(Tail(old)) = n - 1
  BY <1>4, <1>0
<1>6. ASSUME NEW k \in 1 .. n - 1 PROVE new[k] = Tail(old)[k]
  <2>1. Tail(old)[k] = old[k + 1]
    BY <1>4, <1>5
  <2>2. k + 1 \in 2 .. n /\ k + 1 \in 1 .. n /\ k + 1 - 1 = k
    BY <1>0
  <2>3. old[k + 1] = f[At(x, k)]
    BY <1>1, <2>2 DEF old, Shows
  <2>4. g[At(x, k)] = f[At(x, k)]
    BY <2>2 DEF Agree
  <2>5. new[k] = g[At(x, k)]
    BY <1>2, <1>3 DEF new, Shows
  <2> QED BY <2>1, <2>3, <2>4, <2>5
<1>7. new = Tail(old)
  BY <1>4, <1>5, <1>6, SeqEqual
<1>8. Head(old) = f[x]
  <2>1. old[1] = f[At(x, 1 - 1)] /\ 1 - 1 = 0
    BY <1>0, <1>1 DEF old, Shows
  <2>2. At(x, 0) = x
    BY RingWalk, RtlAssumption
  <2> QED BY <1>4, <2>1, <2>2
<1> QED BY <1>4, <1>7, <1>8 DEF old, new

-----------------------------------------------------------------------------
(* The order of the ring.                                                  *)
Oldest == At(pop, Number("done"))

InOrder ==
  /\ Runs(pop, push, Flagged("done"), Flagged("ready"), Number("done"), Number("ready"))
  /\ \A k \in Slots : WorksOn(k) => k = Oldest
  /\ state \notin Leaving => wed = Oldest
  /\ state = "NEXT_ITEM" => wed = IF AtWork THEN WedAfter(Oldest) ELSE Oldest
  /\ state \notin Leaving \cup {"IDLE"} => wed_next = WedAfter(wed)

(* One element changes its flag.                                           *)
LEMMA FlagMoves ==
  ASSUME slot = [i \in Slots |-> slot[i]], NEW k \in Slots, NEW s, slot' = [slot EXCEPT ![k] = s], NEW f
  PROVE  /\ IsFiniteSet(Flagged(f)) /\ Number(f) \in Nat
         /\ s.flag = f /\ slot[k].flag # f =>
              Flagged(f)' = Flagged(f) \cup {k} /\ Number(f)' = Number(f) + 1
         /\ s.flag # f /\ slot[k].flag = f =>
              Flagged(f)' = Flagged(f) \ {k} /\ Number(f)' = Number(f) - 1
         /\ s.flag # f /\ slot[k].flag # f =>
              Flagged(f)' = Flagged(f) /\ Number(f)' = Number(f)
<1>1. IsFiniteSet(Flagged(f)) /\ Number(f) \in Nat
  <2>1. IsFiniteSet(Slots)
    <3>1. 0 \in Int /\ QueueLen - 1 \in Int
      BY RtlAssumption
    <3> QED BY <3>1, FS_Interval DEF Slots
  <2>2. Flagged(f) \subseteq Slots
    BY DEF Flagged
  <2>3. IsFiniteSet(Flagged(f))
    BY <2>1, <2>2, FS_Subset
  <2> QED BY <2>3, FS_CardinalityType DEF Number
<1>2. slot'[k] = s /\ \A i \in Slots : i # k => slot'[i] = slot[i]
  OBVIOUS
<1>3. CASE s.flag = f /\ slot[k].flag # f
  <2>1. Flagged(f)' = Flagged(f) \cup {k} /\ k \notin Flagged(f)
    BY <1>2, <1>3 DEF Flagged
  <2>2. Cardinality(Flagged(f) \cup {k}) = Cardinality(Flagged(f)) + 1
    BY <1>1, <2>1, FS_AddElement
  <2> QED BY <1>1, <1>3, <2>1, <2>2 DEF Number
<1>4. CASE s.flag # f /\ slot[k].flag = f
  <2>1. Flagged(f)' = Flagged(f) \ {k} /\ k \in Flagged(f)
    BY <1>2, <1>4 DEF Flagged
  <2>2. Cardinality(Flagged(f) \ {k}) = Cardinality(Flagged(f)) - 1
    BY <1>1, <2>1, FS_RemoveElement
  <2> QED BY <1>1, <1>4, <2>1, <2>2 DEF Number
<1>5. CASE s.flag # f /\ slot[k].flag # f
  <2>1. Flagged(f)' = Flagged(f)
    BY <1>2, <1>5 DEF Flagged
  <2> QED BY <1>1, <1>5, <2>1 DEF Number
<1>6. CASE s.flag = f /\ slot[k].flag = f
  BY <1>1, <1>6
<1> QED BY <1>3, <1>4, <1>5, <1>6

(* How the block walks along the ring.                                     *)
LEMMA BlockWalks ==
  ASSUME Rings, NEW rsp, NEW bw, NEW br, NEW out, NEW trigger, NEW stop,
         Edge(rsp, bw, br, out, trigger, stop)
  PROVE  /\ wed_next' = WedAfter(wed)
         /\ state' \notin Leaving => wed' = wed /\ state \notin {"WAIT_FOR_DONE", "DONE"}
         /\ state' = "NEXT_ITEM" /\ state # "NEXT_ITEM" =>
              state = "SAVE_QUEUE_ITEM" /\ wed' = wed_next /\ AtWork'
         /\ state' = "NEXT_ITEM" /\ state = "NEXT_ITEM" => wed' = wed
<1>1. StateMachine /\ WedAddrGen
  BY DEF Edge
<1>2. wed_next' = WedAfter(wed)
  BY <1>1 DEF WedAddrGen, WedAfter
<1>3. /\ state' \notin Leaving => wed' = wed /\ state \notin {"WAIT_FOR_DONE", "DONE"}
      /\ state' = "NEXT_ITEM" /\ state = "NEXT_ITEM" => wed' = wed
  <2>1. state \in {"WAIT_FOR_DONE", "DONE"} => state' \in {"WAIT_FOR_DONE", "DONE"}
    BY <1>1, Onward
  <2>2. wed' = wed \/ (state = "SAVE_QUEUE_ITEM" /\ state' \in {"NEXT_ITEM", "WAIT_FOR_DONE"})
    BY <1>1, Walk
  <2> QED BY <2>1, <2>2 DEF Leaving
<1>4. ASSUME state' = "NEXT_ITEM", state # "NEXT_ITEM"
      PROVE  state = "SAVE_QUEUE_ITEM" /\ wed' = wed_next /\ AtWork'
  <2>1. state = "SAVE_QUEUE_ITEM"
    BY <1>1, <1>4, Moves
  <2>2. wed' = wed_next /\ ah' = [com |-> "WRITE_MI", tag |-> Save, addr |-> <<wed, 0>>]
    BY <1>1, <1>4, <2>1 DEF StateMachine, Idle, LoadQueueItem, WaitForQueueItem, Run, ReadSrc,
       WriteDst, WriteWait, Flush, RestartBus, RestartBusFlush, SaveQueueItem, NextItem, WaitForDone,
       Done, Await, Submit, Goto
  <2>3. wed \in Slots
    BY DEF Rings, Commanded
  <2>4. ah' # None
    <3>1. ah' \in [com : ComNames, tag : TagNames, addr : Nat \X Int]
      BY <2>2, <2>3 DEF Slots, ComNames, TagNames, Save, Tag
    <3> QED BY <3>1, NoneAssumption
  <2>5. AtWork' <=> \E k \in Slots : \/ state' \in InBlock /\ k = wed'
                                     \/ ah' # None /\ ah'.tag = Save /\ k = ah'.addr[1]
                                     \/ \E c \in bus' : Unsaid(c)' /\ k = c.addr[1]
    BY DEF AtWork, WorksOn
  <2>6. AtWork'
    BY <2>2, <2>3, <2>4, <2>5
  <2> QED BY <2>1, <2>2, <2>6
<1> QED BY <1>2, <1>3, <1>4

(* What the ends of the runs become when an element is completed, ...      *)
LEMMA CompleteRuns ==
  ASSUME Scalars, Place, Carried, InOrder, NEW k \in Slots, Completes(k), UNCHANGED <<push, pop>>
  PROVE  /\ k = Oldest /\ Oldest' = WedAfter(k) /\ AtWork /\ slot[k].flag = "ready"
         /\ Number("done")' = Number("done") + 1 /\ Number("ready")' = Number("ready") - 1
         /\ Number("done") < QueueLen /\ Number("ready") > 0
         /\ Runs(pop', push', Flagged("done")', Flagged("ready")', Number("done")', Number("ready")')
<1>1. k = Oldest /\ slot[k].flag = "ready" /\ AtWork /\ pop \in Slots /\ push \in Slots
  BY DEF Completes, InOrder, Carried, AtWork, Scalars
<1> DEFINE s == [flag |-> "done", job |-> slot[k].job, res |-> Report]
<1>2. /\ Flagged("done")' = Flagged("done") \cup {k} /\ Number("done")' = Number("done") + 1
      /\ Flagged("ready")' = Flagged("ready") \ {k} /\ Number("ready")' = Number("ready") - 1
  <2>1. slot' = [slot EXCEPT ![k] = s] /\ slot = [i \in Slots |-> slot[i]]
    BY DEF Completes, Place
  <2>2. s.flag = "done"
    OBVIOUS
  <2> HIDE DEF s
  <2>3. Flagged("done")' = Flagged("done") \cup {k} /\ Number("done")' = Number("done") + 1
    BY <1>1, <2>1, <2>2, FlagMoves
  <2>4. Flagged("ready")' = Flagged("ready") \ {k} /\ Number("ready")' = Number("ready") - 1
    BY <1>1, <2>1, <2>2, FlagMoves
  <2> QED BY <2>3, <2>4
<1>3. /\ Runs(pop, push, Flagged("done"), Flagged("ready"), Number("done"), Number("ready"))
      /\ At(pop, Number("done")) = k /\ k \in Flagged("ready")
  BY <1>1 DEF InOrder, Oldest, Flagged
<1>4. /\ Runs(pop, push, Flagged("done") \cup {k}, Flagged("ready") \ {k}, Number("done") + 1, Number("ready") - 1)
      /\ At(pop, Number("done") + 1) = WedAfter(k) /\ Number("done") < QueueLen /\ Number("ready") > 0
  <2> DEFINE ds == Flagged("done")
             rs == Flagged("ready")
             d == Number("done")
             n == Number("ready")
  <2>1. Runs(pop, push, ds, rs, d, n) /\ At(pop, d) = k /\ At(pop, d) \in rs
    BY <1>3
  <2> HIDE DEF ds, rs, d, n
  <2>2. /\ Runs(pop, push, ds \cup {At(pop, d)}, rs \ {At(pop, d)}, d + 1, n - 1)
        /\ At(pop, d + 1) = WedAfter(At(pop, d)) /\ d < QueueLen /\ n > 0
    BY <1>1, <2>1, RunsComplete
  <2> QED BY <2>1, <2>2 DEF ds, rs, d, n
<1>5. Oldest' = WedAfter(k)
  BY <1>2, <1>4 DEF Oldest, At
<1> QED BY <1>1, <1>2, <1>4, <1>5

(* ... submitted ...                                                       *)
LEMMA PushRuns ==
  ASSUME Scalars, Place, InOrder, NEW j \in Jobs, Push(j)
  PROVE  /\ Oldest' = Oldest /\ push = At(Oldest, Number("ready"))
         /\ Number("done")' = Number("done") /\ Number("ready")' = Number("ready") + 1
         /\ Runs(pop', push', Flagged("done")', Flagged("ready")', Number("done")', Number("ready")')
<1> DEFINE s == [flag |-> "ready", job |-> j, res |-> None]
<1>1. /\ slot' = [slot EXCEPT ![push] = s] /\ s.flag = "ready" /\ slot[push].flag = "empty"
      /\ slot = [i \in Slots |-> slot[i]] /\ push' = (push + 1) % QueueLen /\ pop' = pop
      /\ push \in Slots /\ pop \in Slots
  BY DEF Push, Place, Scalars
<1>2. /\ Flagged("done")' = Flagged("done") /\ Number("done")' = Number("done")
      /\ Flagged("ready")' = Flagged("ready") \cup {push} /\ Number("ready")' = Number("ready") + 1
  <2> HIDE DEF s
  <2> QED BY <1>1, FlagMoves
<1>3. /\ Runs(pop, push, Flagged("done"), Flagged("ready"), Number("done"), Number("ready"))
      /\ push \notin Flagged("done") /\ push \notin Flagged("ready")
  BY <1>1 DEF InOrder, Flagged
<1>4. Runs(pop, WedAfter(push), Flagged("done"), Flagged("ready") \cup {push}, Number("done"), Number("ready") + 1)
  BY <1>1, <1>3, RunsPublish
<1>5. push' = WedAfter(push)
  BY <1>1, OneMore, RtlAssumption DEF WedAfter, Slots
<1>6. Oldest' = Oldest /\ push = At(Oldest, Number("ready"))
  BY <1>1, <1>2, <1>3 DEF Oldest, Runs, At
<1> QED BY <1>1, <1>2, <1>4, <1>5, <1>6

(* ... and retired.                                                        *)
LEMMA PopRuns ==
  ASSUME Scalars, Place, InOrder, Pop
  PROVE  /\ Oldest' = Oldest /\ pop' = WedAfter(pop)
         /\ Number("done")' = Number("done") - 1 /\ Number("ready")' = Number("ready")
         /\ Number("done") > 0
         /\ Runs(pop', push', Flagged("done")', Flagged("ready")', Number("done")', Number("ready")')
<1>1. /\ slot' = [slot EXCEPT ![pop] = EmptySlot] /\ EmptySlot.flag = "empty" /\ slot[pop].flag = "done"
      /\ slot = [i \in Slots |-> slot[i]] /\ pop' = (pop + 1) % QueueLen /\ push' = push
      /\ push \in Slots /\ pop \in Slots
  BY DEF Pop, Place, Scalars, EmptySlot
<1>2. /\ Flagged("done")' = Flagged("done") \ {pop} /\ Number("done")' = Number("done") - 1
      /\ Flagged("ready")' = Flagged("ready") /\ Number("ready")' = Number("ready")
  BY <1>1, FlagMoves
<1>3. /\ Runs(pop, push, Flagged("done"), Flagged("ready"), Number("done"), Number("ready"))
      /\ pop \in Flagged("done")
  BY <1>1 DEF InOrder, Flagged
<1>4. /\ Runs(WedAfter(pop), push, Flagged("done") \ {pop}, Flagged("ready"), Number("done") - 1, Number("ready"))
      /\ At(WedAfter(pop), Number("done") - 1) = At(pop, Number("done")) /\ Number("done") > 0
  BY <1>1, <1>3, RunsTake
<1>5. pop' = WedAfter(pop)
  BY <1>1, OneMore, RtlAssumption DEF WedAfter, Slots
<1>6. Oldest' = Oldest
  BY <1>2, <1>4, <1>5 DEF Oldest, At
<1> QED BY <1>1, <1>2, <1>4, <1>5, <1>6

(* An edge leaves the ring in order, and takes the oldest READY element.   *)
LEMMA OrderStep ==
  ASSUME "READ_CL_M" \notin Failing, InFlight, Names, Faults, Ownership, Rings, Scalars, Place, Untouched,
         Carried, InOrder,
         NEW rsp \in Responses \cup {None}, NEW bw \in BufferWrites \cup {None},
         NEW br \in BufferReads \cup {None}, NEW out, NEW trigger, NEW stop,
         Edge(rsp, bw, br, out, trigger, stop)
  PROVE  InOrder'
<1>1. push' = push /\ pop' = pop /\ pop \in Slots /\ push \in Slots
  BY DEF Edge, Scalars
<1>2. state' \notin Leaving \cup {"IDLE"} => wed_next' = WedAfter(wed')
  <2>1. state' \notin Leaving => wed' = wed
    BY BlockWalks
  <2> QED BY <2>1, BlockWalks
<1>3. CASE slot' = slot
  <2>1. /\ Flagged("done")' = Flagged("done") /\ Flagged("ready")' = Flagged("ready")
        /\ Number("done")' = Number("done") /\ Number("ready")' = Number("ready") /\ Oldest' = Oldest
    BY <1>1, <1>3 DEF Flagged, Number, Oldest
  <2>2. ASSUME NEW k \in Slots, WorksOn(k)' PROVE k = Oldest
    <3>1. WorkGoesOn(k)
      BY <2>2, WorkKept
    <3> QED BY <3>1 DEF WorkGoesOn, Begins, InOrder, Leaving
  <2>3. state' \notin Leaving => wed' = Oldest
    <3> SUFFICES ASSUME state' \notin Leaving PROVE wed' = Oldest
      OBVIOUS
    <3>1. wed' = wed /\ state \notin {"WAIT_FOR_DONE", "DONE"}
      BY BlockWalks
    <3>2. state = "NEXT_ITEM" => ~AtWork
      BY WorkWaits DEF Leaving
    <3> QED BY <3>1, <3>2 DEF InOrder, Leaving
  <2>4. state' = "NEXT_ITEM" => wed' = IF AtWork' THEN WedAfter(Oldest) ELSE Oldest
    <3> SUFFICES ASSUME state' = "NEXT_ITEM" PROVE wed' = IF AtWork' THEN WedAfter(Oldest) ELSE Oldest
      OBVIOUS
    <3>1. CASE state # "NEXT_ITEM"
      <4>1. state = "SAVE_QUEUE_ITEM" /\ wed' = wed_next /\ AtWork'
        BY <3>1, BlockWalks
      <4> QED BY <4>1 DEF InOrder, Leaving
    <3>2. CASE state = "NEXT_ITEM"
      <4>1. wed' = wed
        BY <3>2, BlockWalks
      <4>2. AtWork => AtWork'
        BY <1>3, <3>2, WorkWaits
      <4>3. AtWork' => AtWork
        <5>1. ASSUME NEW k \in Slots, WorksOn(k)' PROVE WorksOn(k)
          BY <3>2, <5>1, WorkKept DEF WorkGoesOn, Begins
        <5> QED BY <5>1 DEF AtWork
      <4> QED BY <3>2, <4>1, <4>2, <4>3 DEF InOrder
    <3> QED BY <3>1, <3>2
  <2> QED BY <1>1, <1>2, <2>1, <2>2, <2>3, <2>4 DEF InOrder, WedAfter
<1>4. CASE slot' # slot
  <2>1. PICK k \in Slots : Completes(k)
    BY <1>4, WorkEnds
  <2>2. /\ k = Oldest /\ Oldest' = WedAfter(k) /\ AtWork
        /\ Runs(pop', push', Flagged("done")', Flagged("ready")', Number("done")', Number("ready")')
    BY <1>1, <2>1, CompleteRuns
  <2>3. /\ \A j \in Slots : ~WorksOn(j)'
        /\ ~AtWork' /\ state' \in Leaving
        /\ state' = "NEXT_ITEM" => wed' = Oldest'
    BY <2>1, <2>2 DEF Completes, InOrder, AtWork
  <2> QED BY <1>2, <2>2, <2>3 DEF InOrder, Runs
<1> QED BY <1>3, <1>4

(* What the block has in hand.                                             *)
Handled == Carried /\ Measured /\ Coded /\ InOrder

(* The software does not interfere with it.                                *)
LEMMA HandledKept ==
  ASSUME Ownership, Scalars, Place, Handled,
         (\E j \in Jobs : Push(j)) \/ Pop \/ PopReturn \/ Stop
  PROVE  Handled'
<1>1. UNCHANGED <<regs, bus, failed, proc, made>>
  BY DEF Push, Pop, PopReturn, Stop
<1>2. (\A k : WorksOn(k)' <=> WorksOn(k)) /\ (AtWork' <=> AtWork)
  BY <1>1 DEF WorksOn, AtWork, Unsaid, regs
<1>3. Carried'
  <2>1. \A k \in Slots : slot'[k] = slot[k] \/ slot[k].flag # "ready"
    BY SoftwarePlaces DEF Scalars
  <2> QED BY <1>1, <1>2, <2>1 DEF Handled, Carried, regs
<1>4. Measured' /\ Coded'
  <2>1. (ReadRing' <=> ReadRing) /\ (WriteOnly' <=> WriteOnly) /\ All' = All
    BY <1>1 DEF ReadRing, Free, Held, Data, WriteOnly, All, regs
  <2>2. Paced' <=> Paced
    <3>1. Reserved' = Reserved /\ Asks' = Asks
      BY <1>1 DEF Reserved, Popped, Free, Asks, regs
    <3> QED BY <1>1, <2>1, <3>1 DEF Paced, regs
  <2> QED BY <1>1, <1>2, <2>1, <2>2 DEF Handled, Measured, Coded, regs
<1>5. /\ Oldest' = Oldest
      /\ Runs(pop', push', Flagged("done")', Flagged("ready")', Number("done")', Number("ready")')
  <2>1. CASE \E j \in Jobs : Push(j)
    BY <2>1, PushRuns DEF Handled
  <2>2. CASE Pop
    BY <2>2, PopRuns DEF Handled
  <2>3. CASE PopReturn \/ Stop
    <3>1. slot' = slot /\ push' = push /\ pop' = pop
      BY <2>3 DEF PopReturn, Stop
    <3>2. Flagged("done")' = Flagged("done") /\ Flagged("ready")' = Flagged("ready")
      BY <3>1 DEF Flagged
    <3>3. Number("done")' = Number("done") /\ Number("ready")' = Number("ready")
      BY <3>2 DEF Number
    <3> QED BY <3>1, <3>2, <3>3 DEF Handled, InOrder, Oldest
  <2> QED BY <2>1, <2>2, <2>3
<1>6. InOrder'
  BY <1>1, <1>2, <1>5 DEF Handled, InOrder, regs
<1> QED BY <1>3, <1>4, <1>6 DEF Handled

(* What the pipe rests on holds in every state.                            *)
LEMMA HandledHolds ==
  ASSUME "READ_CL_M" \notin Failing, DoneBits >= 3
  PROVE  Spec => []Handled
<1>1. Init => Handled
  <2> SUFFICES ASSUME Init PROVE Handled
    OBVIOUS
  <2>1. /\ state = "IDLE" /\ ah = None /\ bus = {} /\ error_mask = {} /\ ~failed
        /\ slot = [k \in Slots |-> EmptySlot] /\ push = 0 /\ pop = 0 /\ wed = 0
    BY DEF Init, RtlInit
  <2>2. (\A k : ~WorksOn(k)) /\ ~AtWork
    BY <2>1 DEF WorksOn, AtWork, InBlock, Streaming
  <2>3. Flagged("done") = {} /\ Flagged("ready") = {}
    BY <2>1 DEF Flagged, EmptySlot
  <2>4. Number("done") = 0 /\ Number("ready") = 0
    BY <2>3, FS_EmptySet DEF Number
  <2>5. Runs(0, 0, {}, {}, 0, 0) /\ At(0, 0) = 0
    BY RtlAssumption DEF Runs, At, Dist, Slots
  <2>6. InOrder
    BY <2>1, <2>2, <2>3, <2>4, <2>5 DEF InOrder, Oldest, Leaving
  <2> QED BY <2>1, <2>2, <2>6 DEF Handled, Carried, Measured, Coded
<1>2. /\ Room /\ InFlight /\ Names /\ Faults /\ Ownership /\ Rings /\ Types /\ Scalars /\ InPlace
      /\ Promise /\ Handled /\ [Next]_vars
      => Handled'
  <2> SUFFICES ASSUME Room, InFlight, Names, Faults, Ownership, Rings, Types, Scalars, InPlace,
                      Promise, Handled, [Next]_vars
               PROVE  Handled'
    OBVIOUS
  <2>1. Place /\ Untouched /\ Carried /\ Measured /\ Coded /\ InOrder
    BY DEF InPlace, Promise, Handled
  <2>2. CASE UNCHANGED vars
    <3>1. Carried' /\ Measured' /\ Coded'
      BY <2>1, <2>2 DEF vars, regs, env, Carried, Measured, Coded, WorksOn, AtWork, Unsaid, ReadRing, Free, Held,
         Data, WriteOnly, All, Paced, Reserved, Popped, Asks
    <3>2. InOrder'
      BY <2>1, <2>2 DEF vars, regs, env, InOrder, WorksOn, AtWork, Unsaid, Oldest, Number, Flagged
    <3> QED BY <3>1, <3>2 DEF Handled
  <2>3. CASE (\E j \in Jobs : Push(j)) \/ Pop \/ PopReturn \/ Stop
    BY <2>1, <2>3, HandledKept
  <2>4. CASE Clock
    <3>1. PICK rsp, bw, br, out, trigger, stop :
            /\ rsp \in Responses \cup {None} /\ bw \in BufferWrites \cup {None}
            /\ br \in BufferReads \cup {None} /\ out \in {None, NextBeat}
            /\ Edge(rsp, bw, br, out, trigger, stop)
      BY <2>4 DEF Clock, Cycle, BusEvents
    <3>2. Carried'
      BY <2>1, <3>1, CarriedStep
    <3>3. Measured'
      BY <2>1, <3>1, MeasuredStep
    <3>4. Coded'
      BY <2>1, <3>1, CodedStep
    <3>5. InOrder'
      BY <2>1, <3>1, OrderStep
    <3> QED BY <3>2, <3>3, <3>4, <3>5 DEF Handled
  <2> QED BY <2>2, <2>3, <2>4 DEF Next
<1> QED BY <1>1, <1>2, RoomHolds, InFlightHolds, NamesHold, FaultsHold, OwnershipHolds, RingsHold,
           TypesHold, ScalarsHold, InPlaceHolds, PromiseHolds, PTL DEF Spec

-----------------------------------------------------------------------------
(* What each element offers to the two sequences of the pipe.              *)
Requested == [k \in Slots |-> slot[k].job]
Reported  == [k \in Slots |-> slot[k].res]

(* The sequences of the refinement mapping are windows of the ring.        *)
Windowed ==
  /\ ReadySeq = Window(Requested, Oldest, Number("ready"))
  /\ DoneSeq = Window(Reported, pop, Number("done"))
  /\ Number("ready") \in 0 .. QueueLen /\ Number("done") \in 0 .. QueueLen
  /\ Number("done") + Number("ready") <= QueueLen /\ Oldest \in Slots /\ pop \in Slots
  /\ \A k \in 1 .. Number("ready") : /\ At(Oldest, k - 1) \in Slots
                                     /\ slot[At(Oldest, k - 1)].flag = "ready"
  /\ \A k \in 1 .. Number("done") : /\ At(pop, k - 1) \in Slots
                                    /\ slot[At(pop, k - 1)].flag = "done"

(* The runs of the ring are the sequences of the mapping.                  *)
LEMMA RingWindows == Scalars /\ InOrder => Windowed
<1> SUFFICES ASSUME Scalars, InOrder PROVE Windowed
  OBVIOUS
<1> DEFINE d == Number("done")
           n == Number("ready")
<1>1. /\ Runs(pop, push, Flagged("done"), Flagged("ready"), d, n) /\ pop \in Slots /\ Oldest = At(pop, d)
  BY DEF InOrder, Scalars, Oldest
<1>2. d \in 0 .. QueueLen /\ n \in 0 .. QueueLen /\ d + n <= QueueLen
  <2> HIDE DEF d, n
  <2> QED BY <1>1, RtlAssumption DEF Runs
<1>3. Oldest \in Slots
  BY <1>1, <1>2, RingWalk
<1>4. ASSUME NEW k \in 1 .. n
      PROVE  /\ At(Oldest, k - 1) \in Slots /\ slot[At(Oldest, k - 1)].flag = "ready"
             /\ (pop + d + k - 1) % QueueLen = At(Oldest, k - 1)
  <2> HIDE DEF d, n
  <2>1. k - 1 \in 0 .. QueueLen /\ k - 1 < QueueLen /\ k - 1 < n /\ d + k \in 1 .. QueueLen
    BY <1>2, RtlAssumption
  <2>2. At(Oldest, k - 1) \in Slots /\ Dist(Oldest, At(Oldest, k - 1)) = k - 1
    BY <1>3, <2>1, RingWalk
  <2>3. At(Oldest, k - 1) \in Flagged("ready")
    BY <1>1, <2>1, <2>2 DEF Runs
  <2>4. (pop + d + k - 1) % QueueLen = At(Oldest, k - 1)
    <3> DEFINE i == d + k
               y == pop + d + k - 1
    <3>1. i \in 1 .. QueueLen /\ pop \in Slots /\ y = pop + i - 1
      BY <1>1, <1>2, <2>1, RtlAssumption DEF Slots
    <3>2. At(pop, i - 1) = At(Oldest, k - 1)
      BY <1>1, <1>2, <2>1, RtlAssumption DEF At, Slots
    <3> HIDE DEF i, y
    <3>3. (pop + i - 1) % QueueLen = At(pop, i - 1)
      BY <3>1, RingMod
    <3>4. y % QueueLen = At(Oldest, k - 1)
      BY <3>1, <3>2, <3>3
    <3> QED BY <3>4 DEF y
  <2> QED BY <2>2, <2>3, <2>4 DEF Flagged
<1>5. ASSUME NEW k \in 1 .. d
      PROVE  /\ At(pop, k - 1) \in Slots /\ slot[At(pop, k - 1)].flag = "done"
             /\ (pop + k - 1) % QueueLen = At(pop, k - 1)
  <2> HIDE DEF d, n
  <2>1. k - 1 \in 0 .. QueueLen /\ k - 1 < QueueLen /\ k - 1 < d /\ k \in 1 .. QueueLen
    BY <1>2, RtlAssumption
  <2>2. At(pop, k - 1) \in Slots /\ Dist(pop, At(pop, k - 1)) = k - 1
    BY <1>1, <2>1, RingWalk
  <2>3. At(pop, k - 1) \in Flagged("done")
    BY <1>1, <2>1, <2>2 DEF Runs
  <2>4. \A i \in 1 .. QueueLen : (pop + i - 1) % QueueLen = At(pop, i - 1)
    BY <1>1, RingMod
  <2>5. (pop + k - 1) % QueueLen = At(pop, k - 1)
    BY <2>1, <2>4
  <2> QED BY <2>2, <2>3, <2>5 DEF Flagged
<1>6. ReadySeq = Window(Requested, Oldest, n)
  BY <1>4 DEF ReadySeq, Window, Requested
<1>7. DoneSeq = Window(Reported, pop, d)
  BY <1>5 DEF DoneSeq, Window, Reported
<1> QED BY <1>1, <1>2, <1>3, <1>4, <1>5, <1>6, <1>7 DEF Windowed

(* The same after a step.                                                  *)
LEMMA WindowsNext == Scalars' /\ InOrder' => Windowed'
BY RingWindows, PTL

(* Submitting an element submits its request.                              *)
LEMMA PushSubmits ==
  ASSUME Scalars, Place, InOrder, Windowed, Windowed', NEW j \in Jobs, Push(j)
  PROVE  Pipe!Submit
<1> DEFINE n == Number("ready")
           d == Number("done")
           S == {slot[k].job : k \in Slots} \cup {slot'[k].job : k \in Slots}
           T == {slot[k].res : k \in Slots} \cup {slot'[k].res : k \in Slots}
<1>1. /\ Oldest' = Oldest /\ push = At(Oldest, n) /\ Number("done")' = d /\ Number("ready")' = n + 1
      /\ pop' = pop /\ got' = got /\ push \in Slots
  BY PushRuns DEF Push, Scalars
<1>2. /\ ReadySeq = Window(Requested, Oldest, n) /\ ReadySeq' = Window(Requested', Oldest, n + 1)
      /\ DoneSeq = Window(Reported, pop, d) /\ DoneSeq' = Window(Reported', pop, d)
      /\ Oldest \in Slots /\ pop \in Slots /\ d \in 0 .. QueueLen /\ n \in 0 .. QueueLen
      /\ d + (n + 1) <= QueueLen
      /\ \A k \in 1 .. n : At(Oldest, k - 1) \in Slots /\ slot[At(Oldest, k - 1)].flag = "ready"
      /\ \A k \in 1 .. d : At(pop, k - 1) \in Slots /\ slot[At(pop, k - 1)].flag = "done"
  BY <1>1 DEF Windowed
<1>3. /\ slot[push].flag = "empty" /\ slot'[push].job = j
      /\ \A i \in Slots : i # push => slot'[i] = slot[i]
  BY <1>1 DEF Push, Place
<1>4. /\ Requested \in [Slots -> S] /\ Requested' \in [Slots -> S]
      /\ Reported \in [Slots -> T] /\ Reported' \in [Slots -> T]
  BY DEF Requested, Reported
<1>5. /\ Agree(Requested, Requested', Oldest, 1, n) /\ Agree(Reported, Reported', pop, 1, d)
      /\ Requested'[push] = j
  BY <1>1, <1>2, <1>3 DEF Requested, Reported, Agree
<1> HIDE DEF n, d, S, T
<1>6. n \in 0 .. QueueLen - 1 /\ d + n < QueueLen
  BY <1>2, RtlAssumption
<1>7. ReadySeq' = Append(ReadySeq, j)
  <2>1. Window(Requested', Oldest, n + 1) = Append(Window(Requested, Oldest, n), Requested'[At(Oldest, n)])
    <3> DEFINE f == Requested
               g == Requested'
               x == Oldest
    <3>1. f \in [Slots -> S] /\ g \in [Slots -> S] /\ x \in Slots /\ Agree(f, g, x, 1, n)
      BY <1>2, <1>4, <1>5
    <3> HIDE DEF f, g, x
    <3>2. Window(g, x, n + 1) = Append(Window(f, x, n), g[At(x, n)])
      BY <1>6, <3>1, WindowAppend
    <3> QED BY <3>2 DEF f, g, x
  <2> QED BY <1>1, <1>2, <1>5, <2>1
<1>8. DoneSeq' = DoneSeq
  BY <1>2, <1>5, WindowSame
<1>9. Len(ReadySeq) + Len(DoneSeq) < QueueLen
  <2>1. Len(Window(Requested, Oldest, n)) = n /\ Len(Window(Reported, pop, d)) = d
    <3> DEFINE f == Requested
               g == Reported
               x == Oldest
    <3>1. f \in [Slots -> S] /\ x \in Slots /\ n \in 0 .. QueueLen
      BY <1>2, <1>4
    <3>2. g \in [Slots -> T] /\ pop \in Slots /\ d \in 0 .. QueueLen
      BY <1>2, <1>4
    <3> HIDE DEF f, g, x
    <3>3. Len(Window(f, x, n)) = n
      BY <3>1, WindowSeq DEF Shows
    <3>4. Len(Window(g, pop, d)) = d
      BY <3>2, WindowSeq DEF Shows
    <3> QED BY <3>3, <3>4 DEF f, g, x
  <2> QED BY <1>2, <1>6, <2>1
<1> QED BY <1>1, <1>7, <1>8, <1>9 DEF Pipe!Submit

(* An element that is popped is the oldest completion.                     *)
LEMMA PopRetires ==
  ASSUME Scalars, Place, InOrder, Windowed, Windowed', Pop
  PROVE  Pipe!Retire(1)
<1> DEFINE n == Number("ready")
           d == Number("done")
           T == {slot[k].res : k \in Slots} \cup {slot'[k].res : k \in Slots}
<1>1. /\ Oldest' = Oldest /\ pop' = WedAfter(pop) /\ Number("done")' = d - 1 /\ Number("ready")' = n
      /\ d > 0 /\ got = None /\ got' = slot[pop].res
  BY PopRuns DEF Pop
<1>2. /\ ReadySeq = Window(Requested, Oldest, n) /\ ReadySeq' = Window(Requested', Oldest, n)
      /\ DoneSeq = Window(Reported, pop, d) /\ DoneSeq' = Window(Reported', WedAfter(pop), d - 1)
      /\ Oldest \in Slots /\ pop \in Slots /\ d \in 0 .. QueueLen
      /\ \A k \in 1 .. n : At(Oldest, k - 1) \in Slots /\ slot[At(Oldest, k - 1)].flag = "ready"
  BY <1>1 DEF Windowed
<1>3. /\ slot[pop].flag = "done" /\ \A i \in Slots : i # pop => slot'[i] = slot[i]
  BY <1>2 DEF Pop, Place
<1>4. Reported \in [Slots -> T] /\ Reported' \in [Slots -> T]
  BY DEF Reported
<1>5. ReadySeq' = ReadySeq
  <2>1. Agree(Requested, Requested', Oldest, 1, n)
    BY <1>2, <1>3 DEF Requested, Agree
  <2> HIDE DEF n
  <2> QED BY <1>2, <2>1, WindowSame
<1> HIDE DEF n, d, T
<1>6. Agree(Reported, Reported', pop, 2, d)
  <2> SUFFICES ASSUME NEW k \in 2 .. d
               PROVE  Reported'[At(pop, k - 1)] = Reported[At(pop, k - 1)]
    BY DEF Agree
  <2>1. k - 1 \in 0 .. QueueLen /\ k - 1 < QueueLen /\ k - 1 # 0
    BY <1>2, RtlAssumption
  <2>2. At(pop, k - 1) \in Slots /\ At(pop, k - 1) # pop
    BY <1>2, <2>1, RtlAssumption DEF At, Slots
  <2> QED BY <1>3, <2>2 DEF Reported
<1>7. /\ Window(Reported, pop, d) # <<>> /\ Head(Window(Reported, pop, d)) = Reported[pop]
      /\ Window(Reported', WedAfter(pop), d - 1) = Tail(Window(Reported, pop, d))
  <2>1. d \in 1 .. QueueLen
    BY <1>1, <1>2, RtlAssumption
  <2> QED BY <1>2, <1>4, <1>6, <2>1, WindowTail
<1>8. Reported[pop] = slot[pop].res
  BY <1>2 DEF Reported
<1> QED BY <1>1, <1>2, <1>5, <1>7, <1>8 DEF Pipe!Retire

(* An element that the block completes is the oldest that is READY, and it *)
(* is given an answer to its request.                                      *)
LEMMA CompletionAnswers ==
  ASSUME InFlight, Rings, Types, Scalars, Place, Truthful, Handled, Windowed, Windowed',
         NEW k \in Slots, Completes(k), UNCHANGED <<push, pop, got>>
  PROVE  Pipe!Complete
<1> DEFINE n == Number("ready")
           d == Number("done")
           S == {slot[i].job : i \in Slots} \cup {slot'[i].job : i \in Slots}
           T == {slot[i].res : i \in Slots} \cup {slot'[i].res : i \in Slots}
<1>1. /\ k = Oldest /\ Oldest' = WedAfter(k) /\ slot[k].flag = "ready"
      /\ Number("done")' = d + 1 /\ Number("ready")' = n - 1 /\ d < QueueLen /\ n > 0
  BY CompleteRuns DEF Handled
<1>2. /\ ReadySeq = Window(Requested, k, n) /\ ReadySeq' = Window(Requested', WedAfter(k), n - 1)
      /\ DoneSeq = Window(Reported, pop, d) /\ DoneSeq' = Window(Reported', pop, d + 1)
      /\ pop \in Slots /\ d \in 0 .. QueueLen /\ n \in 0 .. QueueLen /\ k = At(pop, d)
      /\ \A i \in 1 .. d : At(pop, i - 1) \in Slots /\ slot[At(pop, i - 1)].flag = "done"
  BY <1>1 DEF Windowed, Oldest
<1>3. slot'[k].res = Report /\ \A i \in Slots : i # k => slot'[i] = slot[i]
  BY DEF Completes, Place
<1>4. /\ Requested \in [Slots -> S] /\ Requested' \in [Slots -> S]
      /\ Reported \in [Slots -> T] /\ Reported' \in [Slots -> T]
  BY DEF Requested, Reported
<1>5. Agree(Reported, Reported', pop, 1, d)
  BY <1>1, <1>2, <1>3 DEF Reported, Agree
<1>6. Report \in Answer(slot[k].job)
  BY ReportAnswers DEF Handled, Completes, Leaving, InBlock, Streaming
<1> HIDE DEF n, d, S, T
<1>7. Agree(Requested, Requested', k, 2, n)
  <2> SUFFICES ASSUME NEW i \in 2 .. n
               PROVE  Requested'[At(k, i - 1)] = Requested[At(k, i - 1)]
    BY DEF Agree
  <2>1. i - 1 \in 0 .. QueueLen /\ i - 1 < QueueLen /\ i - 1 # 0
    BY <1>2, RtlAssumption
  <2>2. At(k, i - 1) \in Slots /\ At(k, i - 1) # k
    BY <2>1, RtlAssumption DEF At, Slots
  <2> QED BY <1>3, <2>2 DEF Requested
<1>8. /\ Window(Requested, k, n) # <<>> /\ Head(Window(Requested, k, n)) = Requested[k]
      /\ Window(Requested', WedAfter(k), n - 1) = Tail(Window(Requested, k, n))
  <2>1. n \in 1 .. QueueLen
    BY <1>1, <1>2, RtlAssumption
  <2> QED BY <1>4, <1>7, <2>1, WindowTail
<1>9. Window(Reported', pop, d + 1) = Append(Window(Reported, pop, d), Reported'[At(pop, d)])
  <2>1. d \in 0 .. QueueLen - 1
    BY <1>1, <1>2, RtlAssumption
  <2> DEFINE f == Reported
             g == Reported'
  <2>2. f \in [Slots -> T] /\ g \in [Slots -> T] /\ pop \in Slots
    BY <1>2, <1>4
  <2>3. Agree(f, g, pop, 1, d)
    BY <1>5
  <2> HIDE DEF f, g
  <2>4. Window(g, pop, d + 1) = Append(Window(f, pop, d), g[At(pop, d)])
    BY <2>1, <2>2, <2>3, WindowAppend
  <2> QED BY <2>4 DEF f, g
<1>10. Requested[k] = slot[k].job /\ Reported'[k] = Report
  BY <1>3 DEF Requested, Reported
<1>11. /\ ReadySeq # <<>> /\ Head(ReadySeq) = slot[k].job /\ ReadySeq' = Tail(ReadySeq)
       /\ DoneSeq' = Append(DoneSeq, Report)
  BY <1>2, <1>8, <1>9, <1>10
<1> QED BY <1>6, <1>11 DEF Pipe!Complete

(* Each step of the block and its software is a step of the pipe, or none. *)
LEMMA PipeStep ==
  ASSUME "READ_CL_M" \notin Failing, InFlight, Names, Ownership, Rings, Types, Scalars, Scalars',
         InPlace, Promise, Handled, Handled', [Next]_vars
  PROVE  [Pipe!Next]_(Pipe!vars)
<1> SUFFICES Pipe!Next \/ UNCHANGED <<ReadySeq, DoneSeq, [c \in {1} |-> got]>>
  BY DEF Pipe!vars
<1>1. Place /\ Truthful /\ InOrder /\ InOrder' /\ Windowed /\ Windowed'
  BY RingWindows, WindowsNext DEF InPlace, Promise, Handled
<1>2. slot' = slot /\ pop' = pop => ReadySeq' = ReadySeq /\ DoneSeq' = DoneSeq
  <2> SUFFICES ASSUME slot' = slot, pop' = pop PROVE ReadySeq' = ReadySeq /\ DoneSeq' = DoneSeq
    OBVIOUS
  <2>1. Number("ready")' = Number("ready") /\ Number("done")' = Number("done")
    BY DEF Number, Flagged
  <2> QED BY <2>1 DEF ReadySeq, DoneSeq
<1>3. ASSUME NEW j \in Jobs, Push(j) PROVE Pipe!Next
  BY <1>1, <1>3, PushSubmits DEF Pipe!Next
<1>4. CASE Pop
  BY <1>1, <1>4, PopRetires DEF Pipe!Next
<1>5. CASE PopReturn
  <2>1. Pipe!Return(1)
    BY <1>2, <1>5 DEF PopReturn, Pipe!Return
  <2> QED BY <2>1 DEF Pipe!Next
<1>6. CASE Stop \/ UNCHANGED vars
  BY <1>2, <1>6 DEF Stop, vars, env
<1>7. CASE Clock
  <2>1. PICK rsp, bw, br, out, trigger, stop :
          /\ rsp \in Responses \cup {None} /\ bw \in BufferWrites \cup {None}
          /\ br \in BufferReads \cup {None} /\ out \in {None, NextBeat}
          /\ Edge(rsp, bw, br, out, trigger, stop)
    BY <1>7 DEF Clock, Cycle, BusEvents
  <2>2. UNCHANGED <<push, pop, got>>
    BY <2>1 DEF Edge
  <2>3. CASE slot' = slot
    BY <1>2, <2>2, <2>3
  <2>4. CASE slot' # slot
    <3>1. PICK k \in Slots : Completes(k)
      BY <1>1, <2>1, <2>4, WorkEnds
    <3> QED BY <1>1, <2>2, <3>1, CompletionAnswers DEF Pipe!Next
  <2> QED BY <2>3, <2>4
<1> QED BY <1>3, <1>4, <1>5, <1>6, <1>7 DEF Next

(* For every ring, every set of requests, whatever the order of the bus    *)
(* and whatever fails but the load of an element, the block and its        *)
(* software are the bounded pipe of WorkQueue: elements are completed in   *)
(* the order in which they were made READY, each once and each with an     *)
(* answer to its own request.                                              *)
THEOREM BlockIsAPipe ==
  ASSUME "READ_CL_M" \notin Failing, DoneBits >= 3
  PROVE  Spec => ImplementsWorkQueue
<1>1. Init => Pipe!Init
  <2> SUFFICES ASSUME Init PROVE Pipe!Init
    OBVIOUS
  <2>1. Flagged("done") = {} /\ Flagged("ready") = {}
    BY DEF Init, Flagged, EmptySlot
  <2>2. Number("done") = 0 /\ Number("ready") = 0
    BY <2>1, FS_EmptySet DEF Number
  <2>3. ReadySeq = <<>> /\ DoneSeq = <<>>
    BY <2>2 DEF ReadySeq, DoneSeq
  <2> QED BY <2>3 DEF Init, Pipe!Init
<1>2. /\ InFlight /\ Names /\ Ownership /\ Rings /\ Types /\ Scalars /\ Scalars' /\ InPlace /\ Promise
      /\ Handled /\ Handled' /\ [Next]_vars
      => [Pipe!Next]_(Pipe!vars)
  BY PipeStep
<1> QED BY <1>1, <1>2, InFlightHolds, NamesHold, OwnershipHolds, RingsHold, TypesHold, ScalarsHold,
           InPlaceHolds, PromiseHolds, HandledHolds, PTL DEF Spec, ImplementsWorkQueue, Pipe!Spec

=============================================================================
