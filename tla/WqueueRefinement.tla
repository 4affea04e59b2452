-------------------------- MODULE WqueueRefinement --------------------------
(***************************************************************************)
(* The work queue implements the bounded pipe of WorkQueue.tla, for every  *)
(* number of threads, every queue length and every processor.  The ring is *)
(* cut into three runs of slots, in this order from the next one to be     *)
(* retired: the DONE slots, the READY ones, the free ones.  Each of the    *)
(* two sequences of the pipe is one of these runs, read slot by slot.      *)
(***************************************************************************)
EXTENDS WqueueProofs, SequenceTheorems

(* The slot k places after slot x, and how far slot i is behind slot x.    *)
At(x, k) == IF x + k < QueueLen THEN x + k ELSE x + k - QueueLen

Dist(x, i) == IF x <= i THEN i - x ELSE i - x + QueueLen

(* d slots from p are done, the n after them are ready, and h is next to   *)
(* be filled.  When c = 1 the slot before p has been copied by a popper    *)
(* that has still to clear its flags.                                      *)
Runs(p, a, h, ds, rs, d, n, c) ==
  /\ d \in Nat /\ n \in Nat /\ c \in {0, 1} /\ d + n + c <= QueueLen
  /\ a = At(p, d) /\ h = At(a, n)
  /\ \A i \in Slots : i \in ds <=> Dist(p, i) < d \/ (c = 1 /\ Dist(p, i) = QueueLen - 1)
  /\ \A i \in Slots : i \in rs <=> Dist(a, i) < n

(* Walking along the ring, and counting back.                              *)
LEMMA RingWalk ==
  ASSUME NEW x \in Slots, NEW k \in 0 .. QueueLen
  PROVE  /\ At(x, k) \in Slots
         /\ k < QueueLen => Dist(x, At(x, k)) = k
         /\ k < QueueLen => At(NextWed(x), k) = At(x, k + 1)
         /\ NextWed(At(x, k)) = At(x, k + 1) \/ k = QueueLen
         /\ At(x, 0) = x
         /\ \A i \in Slots : Dist(x, i) \in 0 .. QueueLen - 1 /\ At(x, Dist(x, i)) = i
BY QueueAssumption DEF At, Dist, Slots, NextWed

(* next_wed taken k times is addition modulo the length of the ring.       *)
LEMMA RingMod ==
  ASSUME NEW x \in Slots, NEW k \in 1 .. QueueLen
  PROVE  (x + k - 1) % QueueLen = At(x, k - 1)
<1>1. ASSUME NEW y \in Nat, y < QueueLen PROVE y % QueueLen = y
  BY <1>1, QueueAssumption
<1>2. ASSUME NEW y \in Nat, QueueLen <= y, y < 2 * QueueLen PROVE y % QueueLen = y - QueueLen
  BY <1>2, QueueAssumption
<1> QED BY <1>1, <1>2, QueueAssumption DEF At, Slots

(* A slot is published: the ready run grows by one.                        *)
LEMMA RunsPublish ==
  ASSUME NEW p \in Slots, NEW a \in Slots, NEW h \in Slots, NEW ds, NEW rs,
         NEW d, NEW n, NEW c, Runs(p, a, h, ds, rs, d, n, c), h \notin ds, h \notin rs
  PROVE  Runs(p, a, NextWed(h), ds, rs \cup {h}, d, n + 1, c)
BY QueueAssumption DEF Runs, At, Dist, Slots, NextWed

(* The AFU completes a slot: it moves from the ready run to the done run.  *)
LEMMA RunsComplete ==
  ASSUME NEW p \in Slots, NEW a \in Slots, NEW h \in Slots, NEW ds, NEW rs,
         NEW d, NEW n, NEW c, Runs(p, a, h, ds, rs, d, n, c), a \in rs
  PROVE  Runs(p, NextWed(a), h, ds \cup {a}, rs \ {a}, d + 1, n - 1, c)
BY QueueAssumption DEF Runs, At, Dist, Slots, NextWed

(* A popper copies the oldest completion: the done run starts after it.    *)
LEMMA RunsTake ==
  ASSUME NEW p \in Slots, NEW a \in Slots, NEW h \in Slots, NEW ds, NEW rs,
         NEW d, NEW n, Runs(p, a, h, ds, rs, d, n, 0), p \in ds
  PROVE  Runs(NextWed(p), a, h, ds, rs, d - 1, n, 1)
BY QueueAssumption DEF Runs, At, Dist, Slots, NextWed

(* The popper clears the slot it has copied.                               *)
LEMMA RunsClear ==
  ASSUME NEW w \in Slots, NEW a \in Slots, NEW h \in Slots, NEW ds, NEW rs,
         NEW d, NEW n, Runs(NextWed(w), a, h, ds, rs, d, n, 1)
  PROVE  Runs(NextWed(w), a, h, ds \ {w}, rs, d, n, 0)
BY QueueAssumption DEF Runs, At, Dist, Slots, NextWed

-----------------------------------------------------------------------------
(* The two sequences of the pipe are windows of the ring.                  *)

Window(f, x, n) == [k \in 1 .. n |-> f[At(x, k - 1)]]

(* A window is a sequence as long as its run.                              *)
LEMMA WindowSeq ==
  ASSUME NEW S, NEW f \in [Slots -> S], NEW x \in Slots, NEW n \in 0 .. QueueLen
  PROVE  /\ Window(f, x, n) \in Seq(S) /\ Len(Window(f, x, n)) = n
         /\ \A k \in 1 .. n : Window(f, x, n)[k] = f[At(x, k - 1)]
<1>1. \A k \in 1 .. n : At(x, k - 1) \in Slots
  <2> TAKE k \in 1 .. n
  <2>1. k - 1 \in 0 .. QueueLen
    BY QueueAssumption
  <2> QED BY <2>1, RingWalk
<1>2. n \in Nat /\ Window(f, x, n) \in [1 .. n -> S]
  BY <1>1, QueueAssumption DEF Window
<1>3. Window(f, x, n) \in Seq(S) /\ Len(Window(f, x, n)) = n
  BY <1>2
<1> QED BY <1>3 DEF Window

(* Two windows with the same slots in them are equal.                      *)
LEMMA WindowSame ==
  ASSUME NEW f, NEW g, NEW x, NEW n,
         \A k \in 1 .. n : g[At(x, k - 1)] = f[At(x, k - 1)]
  PROVE  Window(g, x, n) = Window(f, x, n)
BY DEF Window

(* One slot more at the end appends what it holds.                         *)
LEMMA WindowAppend ==
  ASSUME NEW S, NEW f \in [Slots -> S], NEW g \in [Slots -> S],
         NEW x \in Slots, NEW n \in 0 .. QueueLen - 1,
         \A k \in 1 .. n : g[At(x, k - 1)] = f[At(x, k - 1)]
  PROVE  Window(g, x, n + 1) = Append(Window(f, x, n), g[At(x, n)])
<1>0. n \in 0 .. QueueLen /\ n + 1 \in 0 .. QueueLen /\ n \in Nat
  BY QueueAssumption
<1>1. /\ Window(f, x, n) \in Seq(S) /\ Len(Window(f, x, n)) = n
      /\ \A k \in 1 .. n : Window(f, x, n)[k] = f[At(x, k - 1)]
  BY <1>0, WindowSeq
<1>2. /\ Window(g, x, n + 1) \in Seq(S) /\ Len(Window(g, x, n + 1)) = n + 1
      /\ \A k \in 1 .. n + 1 : Window(g, x, n + 1)[k] = g[At(x, k - 1)]
  BY <1>0, WindowSeq
<1>3. At(x, n) \in Slots /\ g[At(x, n)] \in S
  BY <1>0, RingWalk
<1> DEFINE old == Window(f, x, n)
           new == Window(g, x, n + 1)
           v == g[At(x, n)]
<1> HIDE DEF old, new, v
<1>4. old \in Seq(S) /\ new \in Seq(S) /\ Len(old) = n /\ Len(new) = n + 1 /\ v \in S
  BY <1>1, <1>2, <1>3 DEF old, new, v
<1>5. Append(old, v) \in Seq(S) /\ Len(Append(old, v)) = n + 1
  BY <1>4, <1>0
<1>6. ASSUME NEW k \in 1 .. n + 1 PROVE new[k] = Append(old, v)[k]
  <2>1. CASE k \in 1 .. n
    <3>1. new[k] = g[At(x, k - 1)] /\ old[k] = f[At(x, k - 1)]
      BY <1>1, <1>2, <2>1 DEF old, new
    <3>2. Append(old, v)[k] = old[k]
      BY <1>4, <2>1
    <3> QED BY <2>1, <3>1, <3>2
  <2>2. CASE k = n + 1
    <3>1. Append(old, v)[n + 1] = v
      BY <1>4, <1>0
    <3>2. new[n + 1] = g[At(x, n + 1 - 1)] /\ n + 1 - 1 = n
      BY <1>0, <1>2 DEF new
    <3> QED BY <2>2, <3>1, <3>2 DEF v
  <2>3. k \in 1 .. n \/ k = n + 1
    BY <1>0
  <2> QED BY <2>1, <2>2, <2>3
<1>7. new = Append(old, v)
  BY <1>4, <1>5, <1>6, SeqEqual
<1> QED BY <1>7 DEF old, new, v

(* Without its first slot a window is the tail of what it was.             *)
LEMMA WindowTail ==
  ASSUME NEW S, NEW f \in [Slots -> S], NEW g \in [Slots -> S],
         NEW x \in Slots, NEW n \in 1 .. QueueLen,
         \A k \in 2 .. n : g[At(x, k - 1)] = f[At(x, k - 1)]
  PROVE  /\ Window(f, x, n) # <<>> /\ Head(Window(f, x, n)) = f[x]
         /\ Window(g, NextWed(x), n - 1) = Tail(Window(f, x, n))
<1>0. n \in 0 .. QueueLen /\ n - 1 \in 0 .. QueueLen /\ n \in Nat /\ NextWed(x) \in Slots
  BY QueueAssumption, SlotsFacts
<1>1. /\ Window(f, x, n) \in Seq(S) /\ Len(Window(f, x, n)) = n
      /\ \A k \in 1 .. n : Window(f, x, n)[k] = f[At(x, k - 1)]
  BY <1>0, WindowSeq
<1>2. /\ Window(g, NextWed(x), n - 1) \in Seq(S)
      /\ Len(Window(g, NextWed(x), n - 1)) = n - 1
      /\ \A k \in 1 .. n - 1 : Window(g, NextWed(x), n - 1)[k] = g[At(NextWed(x), k - 1)]
  <2> DEFINE y == NextWed(x)
             m == n - 1
  <2>1. y \in Slots /\ m \in 0 .. QueueLen
    BY <1>0
  <2> HIDE DEF y, m
  <2>2. /\ Window(g, y, m) \in Seq(S) /\ Len(Window(g, y, m)) = m
        /\ \A k \in 1 .. m : Window(g, y, m)[k] = g[At(y, k - 1)]
    BY <2>1, WindowSeq
  <2> QED BY <2>2 DEF y, m
<1> DEFINE old == Window(f, x, n)
           new == Window(g, NextWed(x), n - 1)
<1>3. \A k \in 1 .. n - 1 : At(NextWed(x), k - 1) = At(x, k)
  <2> TAKE k \in 1 .. n - 1
  <2>1. k - 1 \in 0 .. QueueLen /\ k - 1 < QueueLen /\ (k - 1) + 1 = k
    BY QueueAssumption
  <2> QED BY <2>1, RingWalk
<1> HIDE DEF old, new
<1>4. old \in Seq(S) /\ new \in Seq(S) /\ Len(old) = n /\ Len(new) = n - 1 /\ old # <<>>
  BY <1>0, <1>1, <1>2 DEF old, new
<1>5. Tail(old) \in Seq(S) /\ Len(Tail(old)) = n - 1
  BY <1>4, <1>0
<1>6. ASSUME NEW k \in 1 .. n - 1 PROVE new[k] = Tail(old)[k]
  <2>1. Tail(old)[k] = old[k + 1]
    BY <1>4, <1>5
  <2>2. k + 1 \in 2 .. n /\ k + 1 \in 1 .. n /\ k + 1 - 1 = k
    BY <1>0
  <2>3. old[k + 1] = f[At(x, k)]
    BY <1>1, <2>2 DEF old
  <2>4. g[At(x, k)] = f[At(x, k)]
    BY <2>2
  <2>5. new[k] = g[At(x, k)]
    BY <1>2, <1>3 DEF new
  <2> QED BY <2>1, <2>3, <2>4, <2>5
<1>7. new = Tail(old)
  BY <1>4, <1>5, <1>6, SeqEqual
<1>8. Head(old) = f[x]
  <2>1. old[1] = f[At(x, 1 - 1)] /\ 1 - 1 = 0
    BY <1>0, <1>1 DEF old
  <2>2. At(x, 0) = x
    BY RingWalk, QueueAssumption
  <2> QED BY <1>4, <2>1, <2>2
<1> QED BY <1>4, <1>7, <1>8 DEF old, new

-----------------------------------------------------------------------------
(* The runs of the ring in a state of the work queue.                      *)

DoneSlots  == {i \in Slots : "DONE" \in wed[i].flags}
ReadySlots == {i \in Slots : Runnable(wed[i])}

Copied == IF \E c \in Poppers : pop_pc[c] = "clear" THEN 1 ELSE 0

DoneHead  == IF \E c \in Poppers : pop_pc[c] \in {"clear", "advance"}
             THEN NextWed(wed_pop) ELSE wed_pop
ReadyHead == IF afu_pc = "next" THEN NextWed(afu_idx) ELSE afu_idx

DoneCount  == Cardinality(DoneSlots) - Copied
ReadyCount == Cardinality(ReadySlots)

(* Between two calls of wqueue_init the ring is in order; inside           *)
(* wqueue_init it is empty, and the AFU starts at slot 0.                  *)
RingOrder ==
  /\ phase # "attached" => Runs(DoneHead, ReadyHead, PushHead, DoneSlots,
                                ReadySlots, DoneCount, ReadyCount, Copied)
  /\ phase = "attached" => afu_idx = 0

(* What each slot offers to the two sequences.                             *)
Requested == [i \in Slots |-> Request(wed[i])]
Completed == [i \in Slots |-> PoppedItem(wed[i])]

RequestSet == {Request(s) : s \in Line}

(* The heads of the runs are slots.                                        *)
LEMMA HeadsAreSlots ==
  TypeOK => DoneHead \in Slots /\ ReadyHead \in Slots /\ PushHead \in Slots
BY SlotsFacts DEF TypeOK, DoneHead, ReadyHead, PushHead

(* The counts of the runs are natural numbers.                             *)
LEMMA CountsAreNat ==
  /\ IsFiniteSet(DoneSlots) /\ IsFiniteSet(ReadySlots)
  /\ Cardinality(DoneSlots) \in Nat /\ Cardinality(ReadySlots) \in Nat
<1>1. IsFiniteSet(Slots)
  BY QueueAssumption, FS_Interval DEF Slots
<1>2. DoneSlots \in SUBSET Slots /\ ReadySlots \in SUBSET Slots
  BY DEF DoneSlots, ReadySlots
<1> QED BY <1>1, <1>2, FiniteSubset

(* The two sequences of the refinement mapping are windows of the ring.    *)
LEMMA RingWindow ==
  ASSUME NEW w \in [Slots -> Line], NEW x \in Slots, NEW n \in 0 .. QueueLen
  PROVE  LET ring == [k \in 1 .. n |-> w[(x + k - 1) % QueueLen]]
         IN  /\ [k \in DOMAIN ring |-> Request(ring[k])]
                  = Window([i \in Slots |-> Request(w[i])], x, n)
             /\ [k \in DOMAIN ring |-> PoppedItem(ring[k])]
                  = Window([i \in Slots |-> PoppedItem(w[i])], x, n)
<1> DEFINE ring == [k \in 1 .. n |-> w[(x + k - 1) % QueueLen]]
           f == [i \in Slots |-> Request(w[i])]
           g == [i \in Slots |-> PoppedItem(w[i])]
<1>1. DOMAIN ring = 1 .. n
  OBVIOUS
<1>2. ASSUME NEW k \in 1 .. n
      PROVE  At(x, k - 1) \in Slots /\ ring[k] = w[At(x, k - 1)]
  <2>1. k \in 1 .. QueueLen /\ k - 1 \in 0 .. QueueLen
    BY QueueAssumption
  <2>2. (x + k - 1) % QueueLen = At(x, k - 1)
    BY <2>1, RingMod
  <2>3. At(x, k - 1) \in Slots
    BY <2>1, RingWalk
  <2> QED BY <2>2, <2>3
<1> HIDE DEF ring
<1>3. ASSUME NEW k \in 1 .. n
      PROVE  Request(ring[k]) = f[At(x, k - 1)] /\ PoppedItem(ring[k]) = g[At(x, k - 1)]
  BY <1>2
<1> HIDE DEF f, g
<1>4. [k \in DOMAIN ring |-> Request(ring[k])] = Window(f, x, n)
  BY <1>1, <1>3 DEF Window
<1>5. [k \in DOMAIN ring |-> PoppedItem(ring[k])] = Window(g, x, n)
  BY <1>1, <1>3 DEF Window
<1> QED BY <1>4, <1>5 DEF f, g, ring

(* The same, of a state: the counts fit in the ring.                       *)
LEMMA SeqsNow ==
  ASSUME TypeOK, ReadyCount \in 0 .. QueueLen, DoneCount \in 0 .. QueueLen
  PROVE  /\ ReadySeq = Window(Requested, ReadyHead, ReadyCount)
         /\ DoneSeq = Window(Completed, DoneHead, DoneCount)
<1>1. wed \in [Slots -> Line] /\ ReadyHead \in Slots /\ DoneHead \in Slots
  BY HeadsAreSlots DEF TypeOK
<1>2. ReadySeq = MapSeq(RingSeq(ReadyHead, ReadyCount), Request)
  BY DEF ReadySeq, ReadyHead, ReadyCount, ReadySlots
<1>3. DoneSeq = MapSeq(RingSeq(DoneHead, DoneCount), PoppedItem)
  BY DEF DoneSeq, DoneHead, DoneCount, DoneSlots, Copied
<1>4. MapSeq(RingSeq(ReadyHead, ReadyCount), Request)
        = Window(Requested, ReadyHead, ReadyCount)
  BY <1>1, RingWindow DEF MapSeq, RingSeq, Requested
<1>5. MapSeq(RingSeq(DoneHead, DoneCount), PoppedItem)
        = Window(Completed, DoneHead, DoneCount)
  BY <1>1, RingWindow DEF MapSeq, RingSeq, Completed
<1> QED BY <1>2, <1>3, <1>4, <1>5

-----------------------------------------------------------------------------
(* The order of the ring.                                                  *)

(* An empty ring is in order.                                              *)
LEMMA InitOrder == Init => RingOrder
<1> SUFFICES ASSUME Init PROVE RingOrder
  OBVIOUS
<1>1. DoneSlots = {} /\ ReadySlots = {}
  BY BlankType DEF Init, DoneSlots, ReadySlots, Runnable
<1>2. DoneHead = 0 /\ ReadyHead = 0 /\ PushHead = 0 /\ Copied = 0
  BY DEF Init, DoneHead, ReadyHead, PushHead, Copied
<1>3. DoneCount = 0 /\ ReadyCount = 0
  BY <1>1, <1>2, FS_EmptySet DEF DoneCount, ReadyCount
<1>4. Runs(0, 0, 0, {}, {}, 0, 0, 0)
  BY QueueAssumption DEF Runs, At, Dist, Slots
<1> QED BY <1>1, <1>2, <1>3, <1>4 DEF Init, RingOrder

(* Storing the answer keeps the request.                                   *)
LEMMA WrittenKeeps ==
  ASSUME NEW s, NEW o
  PROVE  /\ Request(Written(s, o)) = Request(s) /\ Written(s, o).flags = s.flags
         /\ Written(s, o).chunk = ChunksWritten(o)
         /\ Written(s, o).err = o.err % ErrorWord
BY DEF Request, Written

(* The steps that neither write a flag nor copy a completion.              *)
Quiet ==
  \/ ForceStop \/ AfuFree
  \/ \E p \in Pushers : \/ PushCall(p) \/ PushLock(p) \/ PushTest(p) \/ PushSleep(p)
                         \/ PushSpurious(p) \/ PushFill(p) \/ PushTrigger(p)
                         \/ PushAdvance(p)
  \/ \E c \in Poppers : \/ PopCall(c) \/ PopTake(c) \/ PopMiss(c) \/ PopAdvance(c)
                         \/ PopSignal(c)
  \/ AfuCheck \/ AfuLock \/ AfuTest \/ AfuSleep \/ AfuSpurious \/ AfuRun \/ AfuStore
  \/ AfuNext
  \/ UNCHANGED vars

(* Every step is quiet, or one of the six that matter.                     *)
LEMMA StepKinds ==
  [Next]_vars => \/ Quiet \/ Attach \/ InitDone \/ AfuPublish
                 \/ \E p \in Pushers : PushPublish(p)
                 \/ \E c \in Poppers : PopRead(c) \/ PopClear(c)
BY DEF Next, PushStep, PopStep, AfuStep, Quiet

runs == <<DoneHead, ReadyHead, PushHead, DoneSlots, ReadySlots, Copied>>

(* A quiet step moves no run, and keeps what the slots in them offer.      *)
LEMMA QuietSteps ==
  ASSUME Base, Locks, Ownership, Quiet
  PROVE  /\ UNCHANGED runs
         /\ \/ phase' = phase /\ (phase = "attached" => afu_idx' = afu_idx)
            \/ phase # "attached" /\ phase' # "attached"
         /\ \A i \in ReadySlots : Request(wed'[i]) = Request(wed[i])
         /\ \A i \in DoneSlots : wed'[i] = wed[i]
         /\ result' = result \/ \E c \in Poppers : result' = [result EXCEPT ![c] = None]
<1> USE DEF Base, TypeOK, Locks, Ownership
<1>0. wed_push \in Slots /\ wed_pop \in Slots /\ afu_idx \in Slots /\ wed \in [Slots -> Line]
  OBVIOUS
<1> DEFINE Kept == /\ UNCHANGED runs
                   /\ \/ phase' = phase /\ (phase = "attached" => afu_idx' = afu_idx)
                      \/ phase # "attached" /\ phase' # "attached"
                   /\ \A i \in ReadySlots : Request(wed'[i]) = Request(wed[i])
                   /\ \A i \in DoneSlots : wed'[i] = wed[i]
                   /\ \/ result' = result
                      \/ \E c \in Poppers : result' = [result EXCEPT ![c] = None]
<1>1. ASSUME DoneHead' = DoneHead, ReadyHead' = ReadyHead, PushHead' = PushHead,
             DoneSlots' = DoneSlots, ReadySlots' = ReadySlots, Copied' = Copied,
             \/ phase' = phase /\ (phase = "attached" => afu_idx' = afu_idx)
             \/ phase # "attached" /\ phase' # "attached",
             \A i \in ReadySlots : Request(wed'[i]) = Request(wed[i]),
             \A i \in DoneSlots : wed'[i] = wed[i],
             \/ result' = result
             \/ \E c \in Poppers : result' = [result EXCEPT ![c] = None]
      PROVE  Kept
  BY <1>1 DEF runs
<1>2. ASSUME wed' = wed
      PROVE  /\ DoneSlots' = DoneSlots /\ ReadySlots' = ReadySlots
             /\ \A i \in ReadySlots : Request(wed'[i]) = Request(wed[i])
             /\ \A i \in DoneSlots : wed'[i] = wed[i]
  BY <1>2 DEF DoneSlots, ReadySlots
<1>3. ASSUME pop_pc' = pop_pc, wed_pop' = wed_pop
      PROVE  DoneHead' = DoneHead /\ Copied' = Copied
  BY <1>3 DEF DoneHead, Copied
<1>4. ASSUME push_pc' = push_pc, wed_push' = wed_push PROVE PushHead' = PushHead
  BY <1>4 DEF PushHead
<1>5. ASSUME afu_pc' = afu_pc \/ (afu_pc # "next" /\ afu_pc' # "next"), afu_idx' = afu_idx
      PROVE  ReadyHead' = ReadyHead
  BY <1>5 DEF ReadyHead
<1> HIDE DEF Kept
<1>6. ASSUME ForceStop \/ AfuFree PROVE Kept
  <2>1. phase # "attached" /\ phase' # "attached" /\ wed' = wed /\ wed_pop' = wed_pop
        /\ wed_push' = wed_push /\ push_pc' = push_pc /\ pop_pc' = pop_pc
        /\ result' = result /\ afu_idx' = afu_idx
        /\ (afu_pc' = afu_pc \/ (afu_pc # "next" /\ afu_pc' # "next"))
    BY <1>6 DEF ForceStop, AfuFree, queue, push, pop
  <2> QED BY <1>1, <1>2, <1>3, <1>4, <1>5, <2>1
<1>7. ASSUME NEW p \in Pushers,
             \/ PushCall(p) \/ PushLock(p) \/ PushTest(p) \/ PushSleep(p)
             \/ PushSpurious(p) \/ PushTrigger(p) \/ PushAdvance(p)
      PROVE  Kept
  <2>1. PushHead' = PushHead
    <3>1. CASE PushAdvance(p)
      BY <3>1 DEF PushAdvance, GoPush, PushHolding, PushHead
    <3>2. CASE ~PushAdvance(p)
      BY <1>7, <3>2 DEF PushCall, PushLock, PushTest, PushSleep, PushSpurious,
                        PushTrigger, GoPush, queue, PushHead
    <3> QED BY <3>1, <3>2
  <2>2. wed' = wed /\ wed_pop' = wed_pop /\ pop_pc' = pop_pc /\ phase' = phase
        /\ result' = result /\ afu_idx' = afu_idx
        /\ (afu_pc' = afu_pc \/ (afu_pc # "next" /\ afu_pc' # "next"))
    BY <1>7 DEF PushCall, PushLock, PushTest, PushSleep, PushSpurious, PushTrigger,
                PushAdvance, queue, pop, afu
  <2> QED BY <1>1, <1>2, <1>3, <1>5, <2>1, <2>2
<1>8. ASSUME NEW p \in Pushers, PushFill(p) PROVE Kept
  <2>1. PushHead' = PushHead
    BY <1>8 DEF PushFill, GoPush, PushHead
  <2>2. DoneSlots' = DoneSlots /\ ReadySlots' = ReadySlots
    BY <1>8 DEF PushFill, Filled, DoneSlots, ReadySlots, Runnable
  <2>3. \A i \in Slots : wed[i].flags # {} => wed'[i] = wed[i]
    BY <1>8 DEF PushFill
  <2>4. /\ \A i \in ReadySlots : Request(wed'[i]) = Request(wed[i])
        /\ \A i \in DoneSlots : wed'[i] = wed[i]
    BY <2>3 DEF ReadySlots, DoneSlots, Runnable
  <2>5. /\ pop_pc' = pop_pc /\ wed_pop' = wed_pop /\ afu_pc' = afu_pc
        /\ afu_idx' = afu_idx /\ phase' = phase /\ result' = result
    BY <1>8 DEF PushFill, pop, afu
  <2> QED BY <1>1, <1>3, <1>5, <2>1, <2>2, <2>4, <2>5
<1>9. ASSUME NEW c \in Poppers,
             \/ PopCall(c) \/ PopTake(c) \/ PopMiss(c) \/ PopAdvance(c) \/ PopSignal(c)
      PROVE  Kept
  <2>1. DoneHead' = DoneHead /\ Copied' = Copied
    <3>1. CASE PopAdvance(c)
      BY <3>1 DEF PopAdvance, GoPop, PopHolding, DoneHead, Copied
    <3>2. CASE ~PopAdvance(c)
      BY <1>9, <3>2 DEF PopCall, PopTake, PopMiss, PopSignal, GoPop, queue,
                        DoneHead, Copied
    <3> QED BY <3>1, <3>2
  <2>2. PushHead' = PushHead
    <3>1. CASE PopSignal(c)
      BY <3>1 DEF PopSignal, WakePusher, GoPush, queue, PushHead
    <3>2. CASE ~PopSignal(c)
      BY <1>4, <1>9, <3>2 DEF PopCall, PopTake, PopMiss, PopAdvance, queue, push
    <3> QED BY <3>1, <3>2
  <2>3. wed' = wed /\ phase' = phase /\ afu_idx' = afu_idx /\ afu_pc' = afu_pc
        /\ (result' = result \/ result' = [result EXCEPT ![c] = None])
    BY <1>9 DEF PopCall, PopTake, PopMiss, PopAdvance, PopSignal, queue, afu
  <2> QED BY <1>1, <1>2, <1>5, <2>1, <2>2, <2>3
<1>10. ASSUME AfuCheck \/ AfuLock \/ AfuTest \/ AfuSleep \/ AfuSpurious \/ AfuRun PROVE Kept
  <2>1. wed' = wed /\ wed_push' = wed_push /\ wed_pop' = wed_pop /\ push_pc' = push_pc
        /\ pop_pc' = pop_pc /\ result' = result /\ phase' = phase /\ afu_idx' = afu_idx
        /\ afu_pc # "next" /\ afu_pc' # "next"
    BY <1>10 DEF AfuCheck, AfuLock, AfuTest, AfuSleep, AfuSpurious, AfuRun, queue,
                 push, pop
  <2> QED BY <1>1, <1>2, <1>3, <1>4, <1>5, <2>1
<1>11. ASSUME AfuStore PROVE Kept
  <2>1. DoneSlots' = DoneSlots /\ ReadySlots' = ReadySlots
    BY <1>11 DEF AfuStore, Written, DoneSlots, ReadySlots, Runnable
  <2>2. wed'[afu_idx] = Written(wed[afu_idx], outcome)
        /\ \A i \in Slots : i # afu_idx => wed'[i] = wed[i]
    BY <1>0, <1>11 DEF AfuStore
  <2>3. /\ \A i \in ReadySlots : Request(wed'[i]) = Request(wed[i])
        /\ \A i \in DoneSlots : wed'[i] = wed[i]
    <3>1. afu_idx \notin DoneSlots
      BY <1>11 DEF AfuStore, Runnable, DoneSlots
    <3> QED BY <2>2, <3>1, WrittenKeeps DEF ReadySlots, DoneSlots
  <2>4. /\ pop_pc' = pop_pc /\ wed_pop' = wed_pop /\ push_pc' = push_pc
        /\ wed_push' = wed_push /\ afu_pc # "next" /\ afu_pc' # "next"
        /\ afu_idx' = afu_idx /\ phase' = phase /\ result' = result
    BY <1>11 DEF AfuStore, push, pop
  <2> QED BY <1>1, <1>3, <1>4, <1>5, <2>1, <2>3, <2>4
<1>12. ASSUME AfuNext PROVE Kept
  <2>1. ReadyHead = NextWed(afu_idx)
    BY <1>12 DEF AfuNext, ReadyHead
  <2>2. afu_len = QueueLen /\ phase # "attached" /\ phase' = phase
    BY <1>12 DEF AfuNext, Phases
  <2>3. ReadyHead' = NextWed(afu_idx)
    BY <1>12, <2>2 DEF AfuNext, ReadyHead, NextWed
  <2> QED BY <1>1, <1>2, <1>3, <1>4, <1>12, <2>1, <2>2, <2>3 DEF AfuNext, queue, push, pop
<1>13. ASSUME UNCHANGED vars PROVE Kept
  BY <1>1, <1>2, <1>3, <1>4, <1>5, <1>13 DEF vars, queue, push, pop, afu
<1>14. Kept
  BY <1>6, <1>7, <1>8, <1>9, <1>10, <1>11, <1>12, <1>13 DEF Quiet
<1> QED BY <1>14 DEF Kept

(* Publishing a slot appends it to the ready run.                          *)
LEMMA PublishRuns ==
  ASSUME Base, Locks, Ownership, NEW p \in Pushers, PushPublish(p)
  PROVE  /\ PushHead = wed_push /\ PushHead' = NextWed(wed_push)
         /\ wed_push \notin ReadySlots /\ ReadySlots' = ReadySlots \cup {wed_push}
         /\ wed_push \notin DoneSlots /\ DoneSlots' = DoneSlots
         /\ UNCHANGED <<DoneHead, Copied, ReadyHead>>
         /\ phase' = phase /\ phase # "attached"
         /\ ReadyCount' = ReadyCount + 1 /\ DoneCount' = DoneCount
<1> USE DEF Base, TypeOK, Locks, Ownership
<1>1. PushHead = wed_push /\ PushHead' = NextWed(wed_push)
  BY DEF PushPublish, GoPush, PushHolding, PushHead
<1>2. wed_push \notin ReadySlots /\ ReadySlots' = ReadySlots \cup {wed_push}
  BY DEF PushPublish, ReadySlots, Runnable, PushFlags, Line
<1>3. wed_push \notin DoneSlots /\ DoneSlots' = DoneSlots
  BY DEF PushPublish, DoneSlots, PushFlags, Line
<1>4. DoneHead' = DoneHead /\ Copied' = Copied /\ ReadyHead' = ReadyHead
  BY DEF PushPublish, DoneHead, Copied, ReadyHead, pop, afu
<1>5. phase' = phase /\ phase # "attached"
  BY DEF PushPublish, Phases, Idle
<1>6. ReadyCount' = ReadyCount + 1 /\ DoneCount' = DoneCount
  BY <1>2, <1>3, <1>4, CountsAreNat, FS_AddElement DEF ReadyCount, DoneCount
<1> QED BY <1>1, <1>2, <1>3, <1>4, <1>5, <1>6

(* Copying a completion takes its slot off the front of the done run.      *)
LEMMA ReadRuns ==
  ASSUME Base, Locks, Ownership, NEW c \in Poppers, PopRead(c)
  PROVE  /\ DoneHead = wed_pop /\ DoneHead' = NextWed(wed_pop)
         /\ Copied = 0 /\ Copied' = 1
         /\ wed_pop \in DoneSlots
         /\ UNCHANGED <<DoneSlots, ReadySlots, ReadyHead, PushHead>>
         /\ phase' = phase /\ phase # "attached"
         /\ ReadyCount' = ReadyCount /\ DoneCount' = DoneCount - 1
<1> USE DEF Base, TypeOK, Locks, Ownership
<1>1. DoneHead = wed_pop /\ Copied = 0
  BY DEF PopRead, PopHolding, DoneHead, Copied
<1>2. DoneHead' = NextWed(wed_pop) /\ Copied' = 1
  BY DEF PopRead, GoPop, queue, DoneHead, Copied
<1>3. wed_pop \in DoneSlots
  BY DEF PopRead, DoneSlots
<1>4. DoneSlots' = DoneSlots /\ ReadySlots' = ReadySlots /\ ReadyHead' = ReadyHead
      /\ PushHead' = PushHead
  BY DEF PopRead, DoneSlots, ReadySlots, ReadyHead, PushHead, queue, push, afu
<1>5. phase' = phase /\ phase # "attached"
  BY DEF PopRead, Phases, Idle
<1>6. ReadyCount' = ReadyCount /\ DoneCount' = DoneCount - 1
  BY <1>1, <1>2, <1>4, CountsAreNat DEF ReadyCount, DoneCount
<1> QED BY <1>1, <1>2, <1>3, <1>4, <1>5, <1>6

(* Clearing the copied slot moves no run.                                  *)
LEMMA ClearRuns ==
  ASSUME Base, Locks, Ownership, NEW c \in Poppers, PopClear(c)
  PROVE  /\ DoneHead = NextWed(wed_pop) /\ DoneHead' = NextWed(wed_pop)
         /\ Copied = 1 /\ Copied' = 0
         /\ wed_pop \in DoneSlots /\ DoneSlots' = DoneSlots \ {wed_pop}
         /\ UNCHANGED <<ReadySlots, ReadyHead, PushHead>>
         /\ phase' = phase /\ phase # "attached"
         /\ ReadyCount' = ReadyCount /\ DoneCount' = DoneCount
<1> USE DEF Base, TypeOK, Locks, Ownership
<1>1. DoneHead = NextWed(wed_pop) /\ Copied = 1
  BY DEF PopClear, DoneHead, Copied
<1>2. DoneHead' = NextWed(wed_pop) /\ Copied' = 0
  BY DEF PopClear, GoPop, PopHolding, DoneHead, Copied
<1>3. wed_pop \in DoneSlots /\ DoneSlots' = DoneSlots \ {wed_pop}
  BY DEF PopClear, DoneSlots, Line
<1>4. ReadySlots' = ReadySlots
  BY DEF PopClear, ReadySlots, Runnable, Line
<1>5. ReadyHead' = ReadyHead /\ PushHead' = PushHead
  BY DEF PopClear, ReadyHead, PushHead, push, afu
<1>6. phase' = phase /\ phase # "attached"
  BY DEF PopClear, Phases, Idle
<1>7. ReadyCount' = ReadyCount /\ DoneCount' = DoneCount
  <2>1. Cardinality(DoneSlots \ {wed_pop}) = Cardinality(DoneSlots) - 1
    BY <1>3, CountsAreNat, FS_RemoveElement
  <2> QED BY <1>1, <1>2, <1>3, <1>4, <2>1, CountsAreNat DEF ReadyCount, DoneCount
<1> QED BY <1>1, <1>2, <1>3, <1>4, <1>5, <1>6, <1>7

(* Completing an item moves its slot from the ready run to the done run.   *)
LEMMA CompleteRuns ==
  ASSUME Base, Locks, Ownership, AfuPublish
  PROVE  /\ ReadyHead = afu_idx /\ ReadyHead' = NextWed(afu_idx)
         /\ afu_idx \in ReadySlots /\ ReadySlots' = ReadySlots \ {afu_idx}
         /\ afu_idx \notin DoneSlots /\ DoneSlots' = DoneSlots \cup {afu_idx}
         /\ UNCHANGED <<DoneHead, Copied, PushHead>>
         /\ phase' = phase /\ phase # "attached"
         /\ ReadyCount' = ReadyCount - 1 /\ DoneCount' = DoneCount + 1
<1> USE DEF Base, TypeOK, Locks, Ownership
<1>1. ReadyHead = afu_idx /\ ReadyHead' = NextWed(afu_idx)
  BY DEF AfuPublish, ReadyHead
<1>2. afu_idx \in ReadySlots /\ ReadySlots' = ReadySlots \ {afu_idx}
  BY DEF AfuPublish, ReadySlots, Runnable, DoneFlags, Line
<1>3. afu_idx \notin DoneSlots /\ DoneSlots' = DoneSlots \cup {afu_idx}
  BY DEF AfuPublish, DoneSlots, Runnable, DoneFlags, Line
<1>4. DoneHead' = DoneHead /\ Copied' = Copied /\ PushHead' = PushHead
  BY DEF AfuPublish, DoneHead, Copied, PushHead, push, pop
<1>5. phase' = phase /\ phase # "attached"
  BY DEF AfuPublish, Phases
<1>6. ReadyCount' = ReadyCount - 1 /\ DoneCount' = DoneCount + 1
  <2>1. Copied \in {0, 1}
    BY DEF Copied
  <2>2. Cardinality(ReadySlots \ {afu_idx}) = Cardinality(ReadySlots) - 1
    BY <1>2, CountsAreNat, FS_RemoveElement
  <2>3. Cardinality(DoneSlots \cup {afu_idx}) = Cardinality(DoneSlots) + 1
    BY <1>3, CountsAreNat, FS_AddElement
  <2> QED BY <1>2, <1>3, <1>4, <2>1, <2>2, <2>3, CountsAreNat DEF ReadyCount, DoneCount
<1> QED BY <1>1, <1>2, <1>3, <1>4, <1>5, <1>6

(* wqueue_init starts with a ring that is empty.                           *)
LEMMA InitDoneRuns ==
  ASSUME Base, Locks, RingOrder, InitDone
  PROVE  /\ DoneSlots' = {} /\ ReadySlots' = {} /\ phase' = "up"
         /\ DoneHead' = 0 /\ ReadyHead' = 0 /\ PushHead' = 0 /\ Copied' = 0
         /\ DoneCount' = 0 /\ ReadyCount' = 0
<1>1. DoneSlots' = {} /\ ReadySlots' = {} /\ phase' = "up"
  BY DEF InitDone, DoneSlots, ReadySlots, Runnable, Base, Phases
<1>2. DoneHead' = 0 /\ ReadyHead' = 0 /\ PushHead' = 0 /\ Copied' = 0
  BY DEF InitDone, DoneHead, ReadyHead, PushHead, Copied, Base, Phases, Idle,
         RingOrder, push, pop, afu
<1>3. DoneCount' = 0 /\ ReadyCount' = 0
  BY <1>1, <1>2, FS_EmptySet DEF DoneCount, ReadyCount
<1> QED BY <1>1, <1>2, <1>3

(* The ring stays in order: a step that writes a flag moves one end of a   *)
(* run by one slot, and no other step moves any.                           *)
LEMMA NextOrder == Base /\ Locks /\ Ownership /\ RingOrder /\ [Next]_vars => RingOrder'
<1> SUFFICES ASSUME Base, Locks, Ownership, RingOrder, [Next]_vars
             PROVE  RingOrder'
  OBVIOUS
<1>0. /\ DoneHead \in Slots /\ ReadyHead \in Slots /\ PushHead \in Slots
      /\ wed_pop \in Slots
  BY HeadsAreSlots DEF Base, TypeOK
<1>1. CASE Quiet
  BY <1>1, QuietSteps DEF runs, RingOrder, DoneCount, ReadyCount
<1>2. CASE Attach
  BY <1>2 DEF Attach, RingOrder
<1>3. CASE InitDone
  <2>1. Runs(0, 0, 0, {}, {}, 0, 0, 0)
    BY QueueAssumption DEF Runs, At, Dist, Slots
  <2> QED BY <1>3, <2>1, InitDoneRuns DEF RingOrder
<1>4. ASSUME NEW p \in Pushers, PushPublish(p) PROVE RingOrder'
  <2>1. Runs(DoneHead, ReadyHead, NextWed(wed_push), DoneSlots,
             ReadySlots \cup {wed_push}, DoneCount, ReadyCount + 1, Copied)
    BY <1>0, <1>4, PublishRuns, RunsPublish DEF RingOrder
  <2> QED BY <1>4, <2>1, PublishRuns DEF RingOrder
<1>5. ASSUME NEW c \in Poppers, PopRead(c) PROVE RingOrder'
  <2>1. Runs(NextWed(wed_pop), ReadyHead, PushHead, DoneSlots, ReadySlots,
             DoneCount - 1, ReadyCount, 1)
    BY <1>0, <1>5, ReadRuns, RunsTake DEF RingOrder
  <2> QED BY <1>5, <2>1, ReadRuns DEF RingOrder
<1>6. ASSUME NEW c \in Poppers, PopClear(c) PROVE RingOrder'
  <2>1. Runs(NextWed(wed_pop), ReadyHead, PushHead, DoneSlots \ {wed_pop}, ReadySlots,
             DoneCount, ReadyCount, 0)
    BY <1>0, <1>6, ClearRuns, RunsClear DEF RingOrder
  <2> QED BY <1>6, <2>1, ClearRuns DEF RingOrder
<1>7. CASE AfuPublish
  <2>1. Runs(DoneHead, NextWed(afu_idx), PushHead, DoneSlots \cup {afu_idx},
             ReadySlots \ {afu_idx}, DoneCount + 1, ReadyCount - 1, Copied)
    BY <1>0, <1>7, CompleteRuns, RunsComplete DEF RingOrder
  <2> QED BY <1>7, <2>1, CompleteRuns DEF RingOrder
<1> QED BY <1>1, <1>2, <1>3, <1>4, <1>5, <1>6, <1>7, StepKinds

-----------------------------------------------------------------------------
(* What is in the slots.                                                   *)

(* The slot of a request before the AFU has run it.                        *)
Asked(r) == [flags |-> r.flags, err |-> 0, src |-> r.src, dst |-> r.dst,
             chunk |-> ChunkLength(r.src_len),
             src_len |-> r.src_len, opaque |-> r.opaque]

(* A READY slot holds its request until the AFU stores the answer to it,   *)
(* a filled slot holds the pusher's item, and a popper holds a result from *)
(* the time it has copied one until it returns.                            *)
SlotData ==
  /\ \A i \in Slots : Runnable(wed[i]) /\ ~(afu_pc = "publish" /\ i = afu_idx) =>
       wed[i].chunk = ChunkLength(wed[i].src_len)
  /\ afu_pc \in {"store", "publish"} =>
       outcome \in RunOutcomes(Asked(Request(wed[afu_idx])))
  /\ afu_pc = "publish" => /\ wed[afu_idx].chunk = ChunksWritten(outcome)
                           /\ wed[afu_idx].err = outcome.err % ErrorWord
  /\ \A p \in Pushers : push_pc[p] = "publish" =>
       wed[wed_push] = Filled(wed[wed_push], qitem[p])
  /\ \A c \in Poppers : result[c] # None => pop_pc[c] \in {"clear", "advance", "signal"}

(* What the AFU may answer depends only on the request.                    *)
LEMMA SameAnswers ==
  ASSUME NEW s \in Line, s.chunk = ChunkLength(s.src_len)
  PROVE  RunOutcomes(Asked(Request(s))) = RunOutcomes(s)
<1>1. /\ Asked(Request(s)).flags = s.flags /\ Asked(Request(s)).src = s.src
      /\ Asked(Request(s)).dst = s.dst /\ Asked(Request(s)).chunk = s.chunk
  BY DEF Asked, Request
<1> QED BY <1>1 DEF RunOutcomes, HasBuffers, RunResults, DefaultResult, RunLen

(* Filling a slot twice with one item is filling it once.                  *)
LEMMA FilledTwice ==
  ASSUME NEW s, NEW q
  PROVE  /\ Filled(Filled(s, q), q) = Filled(s, q) /\ Filled(s, q).flags = s.flags
         /\ Filled(s, q).chunk = ChunkLength(Filled(s, q).src_len)
BY DEF Filled

(* The contents of the slots are right initially.                          *)
LEMMA InitData == Init => SlotData
BY BlankType DEF Init, SlotData, Runnable

(* Every step keeps them right.                                            *)
LEMMA NextData == Base /\ Locks /\ Ownership /\ SlotData /\ [Next]_vars => SlotData'
<1> SUFFICES ASSUME Base, Locks, Ownership, SlotData, [Next]_vars
             PROVE  SlotData'
  OBVIOUS
<1> USE DEF Base, TypeOK, Locks, Ownership
<1>0. wed_push \in Slots /\ wed_pop \in Slots /\ afu_idx \in Slots /\ wed \in [Slots -> Line]
  OBVIOUS
<1>1. CASE Attach
  BY <1>1, BlankType DEF Attach, SlotData, Runnable, Phases, Idle, push, pop
<1>2. CASE InitDone \/ ForceStop \/ AfuFree
  BY <1>2 DEF InitDone, ForceStop, AfuFree, SlotData, Phases, Idle, queue, push,
              pop, afu
<1>3. ASSUME NEW p \in Pushers,
             \/ PushCall(p) \/ PushLock(p) \/ PushTest(p) \/ PushSleep(p)
             \/ PushSpurious(p)
      PROVE  SlotData'
  <2>1. wed' = wed /\ wed_push' = wed_push /\ result' = result /\ pop_pc' = pop_pc
        /\ afu_pc' = afu_pc /\ afu_idx' = afu_idx /\ outcome' = outcome
    BY <1>3 DEF PushCall, PushLock, PushTest, PushSleep, PushSpurious, queue, pop, afu
  <2>2. \A t \in Pushers : push_pc'[t] = "publish" =>
          push_pc[t] = "publish" /\ qitem'[t] = qitem[t]
    BY <1>3 DEF PushCall, PushLock, PushTest, PushSleep, PushSpurious, GoPush
  <2> QED BY <2>1, <2>2 DEF SlotData
<1>4. ASSUME NEW p \in Pushers, PushTrigger(p) \/ PushAdvance(p) PROVE SlotData'
  <2>1. wed' = wed /\ result' = result /\ pop_pc' = pop_pc
        /\ (afu_pc' = afu_pc \/ (afu_pc = "wait" /\ afu_pc' = "woken"))
        /\ afu_idx' = afu_idx /\ outcome' = outcome
    BY <1>4 DEF PushTrigger, PushAdvance, queue, pop, afu
  <2>2. \A t \in Pushers : push_pc'[t] # "publish"
    BY <1>4 DEF PushTrigger, PushAdvance, GoPush, PushHolding
  <2> QED BY <2>1, <2>2 DEF SlotData
<1>5. ASSUME NEW p \in Pushers, PushFill(p) PROVE SlotData'
  <2>1. /\ wed' = [wed EXCEPT ![wed_push] = Filled(@, qitem[p])]
        /\ push_pc' = [push_pc EXCEPT ![p] = "publish"]
        /\ wed_push' = wed_push /\ qitem' = qitem /\ result' = result
        /\ pop_pc' = pop_pc /\ afu_pc' = afu_pc /\ afu_idx' = afu_idx
        /\ outcome' = outcome /\ wed[wed_push].flags = {}
    BY <1>5 DEF PushFill, GoPush, pop, afu
  <2>2. wed'[wed_push] = Filled(wed[wed_push], qitem[p]) /\ ~Runnable(wed'[wed_push])
    BY <1>0, <2>1, FilledTwice DEF Runnable
  <2>3. \A i \in Slots : i # wed_push => wed'[i] = wed[i]
    BY <1>0, <2>1
  <2>4. afu_pc \in {"store", "publish"} => afu_idx # wed_push
    BY <2>1 DEF Runnable
  <2>5. \A t \in Pushers : push_pc'[t] = "publish" => t = p
    BY <1>5, <2>1 DEF PushFill, PushHolding
  <2>6. wed'[wed_push'] = Filled(wed'[wed_push'], qitem'[p])
    BY <2>1, <2>2, FilledTwice
  <2>7. \A i \in Slots : Runnable(wed'[i]) /\ ~(afu_pc' = "publish" /\ i = afu_idx') =>
          wed'[i].chunk = ChunkLength(wed'[i].src_len)
    BY <2>1, <2>2, <2>3 DEF SlotData
  <2>8. afu_pc' \in {"store", "publish"} =>
          outcome' \in RunOutcomes(Asked(Request(wed'[afu_idx'])))
    BY <1>0, <2>1, <2>3, <2>4 DEF SlotData
  <2>9. afu_pc' = "publish" => /\ wed'[afu_idx'].chunk = ChunksWritten(outcome')
                               /\ wed'[afu_idx'].err = outcome'.err % ErrorWord
    BY <1>0, <2>1, <2>3, <2>4 DEF SlotData
  <2>10. \A c \in Poppers : result'[c] # None => pop_pc'[c] \in {"clear", "advance", "signal"}
    BY <2>1 DEF SlotData
  <2> QED BY <2>5, <2>6, <2>7, <2>8, <2>9, <2>10 DEF SlotData
<1>6. ASSUME NEW p \in Pushers, PushPublish(p) PROVE SlotData'
  <2>1. /\ wed' = [wed EXCEPT ![wed_push].flags = PushFlags(qitem[p])]
        /\ push_pc' = [push_pc EXCEPT ![p] = "trigger"]
        /\ result' = result /\ pop_pc' = pop_pc /\ afu_pc' = afu_pc
        /\ afu_idx' = afu_idx /\ outcome' = outcome
        /\ wed[wed_push].flags = {} /\ wed[wed_push] = Filled(wed[wed_push], qitem[p])
    BY <1>6 DEF PushPublish, GoPush, SlotData, pop, afu
  <2>2. wed'[wed_push].chunk = ChunkLength(wed'[wed_push].src_len)
    <3>1. wed[wed_push].chunk = ChunkLength(wed[wed_push].src_len)
      BY <2>1, FilledTwice
    <3>2. wed[wed_push] \in Line
      BY <1>0
    <3>3. wed'[wed_push].chunk = wed[wed_push].chunk
          /\ wed'[wed_push].src_len = wed[wed_push].src_len
      BY <1>0, <2>1, <3>2 DEF Line
    <3> QED BY <3>1, <3>3
  <2>3. \A i \in Slots : i # wed_push => wed'[i] = wed[i]
    BY <1>0, <2>1
  <2>4. afu_pc \in {"store", "publish"} => afu_idx # wed_push
    BY <2>1 DEF Runnable
  <2>5. \A t \in Pushers : push_pc'[t] # "publish"
    BY <1>6, <2>1 DEF PushPublish, PushHolding
  <2> QED BY <1>0, <2>1, <2>2, <2>3, <2>4, <2>5 DEF SlotData
<1>7. ASSUME NEW c \in Poppers,
             \/ PopCall(c) \/ PopTake(c) \/ PopMiss(c) \/ PopRead(c)
             \/ PopAdvance(c)
      PROVE  SlotData'
  <2>1. wed' = wed /\ wed_push' = wed_push /\ push_pc' = push_pc /\ qitem' = qitem
        /\ afu_pc' = afu_pc /\ afu_idx' = afu_idx /\ outcome' = outcome
    BY <1>7 DEF PopCall, PopTake, PopMiss, PopRead, PopAdvance, queue, push, afu
  <2>2. \A t \in Poppers : result'[t] # None => pop_pc'[t] \in {"clear", "advance", "signal"}
    BY <1>7 DEF PopCall, PopTake, PopMiss, PopRead, PopAdvance, GoPop, SlotData
  <2> QED BY <2>1, <2>2 DEF SlotData
<1>8. ASSUME NEW c \in Poppers, PopSignal(c) PROVE SlotData'
  <2>1. wed' = wed /\ wed_push' = wed_push /\ qitem' = qitem
        /\ afu_pc' = afu_pc /\ afu_idx' = afu_idx /\ outcome' = outcome
    BY <1>8 DEF PopSignal, queue, afu
  <2>2. \A t \in Poppers : result'[t] # None => pop_pc'[t] \in {"clear", "advance", "signal"}
    BY <1>8 DEF PopSignal, GoPop, SlotData
  <2>3. \A t \in Pushers : push_pc'[t] = "publish" => push_pc[t] = "publish"
    BY <1>8 DEF PopSignal, WakePusher, GoPush
  <2> QED BY <2>1, <2>2, <2>3 DEF SlotData
<1>9. ASSUME NEW c \in Poppers, PopClear(c) PROVE SlotData'
  <2>1. /\ wed' = [wed EXCEPT ![wed_pop].flags = {}] /\ wed_push' = wed_push
        /\ push_pc' = push_pc /\ qitem' = qitem /\ result' = result
        /\ afu_pc' = afu_pc /\ afu_idx' = afu_idx /\ outcome' = outcome
        /\ pop_pc' = [pop_pc EXCEPT ![c] = "advance"] /\ "DONE" \in wed[wed_pop].flags
    BY <1>9 DEF PopClear, GoPop, push, afu
  <2>2. wed'[wed_pop].flags = {} /\ ~Runnable(wed'[wed_pop])
    <3>1. wed'[wed_pop] = [wed[wed_pop] EXCEPT !.flags = {}] /\ wed[wed_pop] \in Line
      BY <1>0, <2>1
    <3>2. wed'[wed_pop].flags = {}
      BY <3>1 DEF Line
    <3> QED BY <3>2 DEF Runnable
  <2>3. \A i \in Slots : i # wed_pop => wed'[i] = wed[i]
    BY <1>0, <2>1
  <2>4. /\ afu_pc \in {"store", "publish"} => afu_idx # wed_pop
        /\ \A p \in Pushers : push_pc[p] = "publish" => wed_push # wed_pop
    BY <2>1 DEF Runnable
  <2>5. \A t \in Poppers : result'[t] # None => pop_pc'[t] \in {"clear", "advance", "signal"}
    BY <2>1 DEF SlotData
  <2> QED BY <1>0, <2>1, <2>2, <2>3, <2>4, <2>5 DEF SlotData
<1>10. CASE AfuCheck \/ AfuLock \/ AfuTest \/ AfuSleep \/ AfuSpurious \/ AfuNext
  <2>1. wed' = wed /\ wed_push' = wed_push /\ push_pc' = push_pc /\ qitem' = qitem
        /\ pop_pc' = pop_pc /\ result' = result
    BY <1>10 DEF AfuCheck, AfuLock, AfuTest, AfuSleep, AfuSpurious, AfuNext, queue,
                 push, pop
  <2>2. afu_pc' \notin {"store", "publish"} /\ afu_pc # "publish"
    BY <1>10 DEF AfuCheck, AfuLock, AfuTest, AfuSleep, AfuSpurious, AfuNext
  <2> QED BY <2>1, <2>2 DEF SlotData
<1>11. CASE AfuRun
  <2>1. wed' = wed /\ wed_push' = wed_push /\ push_pc' = push_pc /\ qitem' = qitem
        /\ pop_pc' = pop_pc /\ result' = result /\ afu_pc = "run" /\ afu_pc' = "store"
        /\ afu_idx' = afu_idx /\ outcome' \in RunOutcomes(wed[afu_idx])
    BY <1>11 DEF AfuRun, queue, push, pop
  <2>2. wed[afu_idx].chunk = ChunkLength(wed[afu_idx].src_len) /\ wed[afu_idx] \in Line
    BY <1>0, <2>1 DEF SlotData
  <2>3. outcome' \in RunOutcomes(Asked(Request(wed'[afu_idx'])))
    BY <2>1, <2>2, SameAnswers
  <2> QED BY <2>1, <2>3 DEF SlotData
<1>12. CASE AfuStore
  <2>1. wed' = [wed EXCEPT ![afu_idx] = Written(@, outcome)]
        /\ wed_push' = wed_push /\ push_pc' = push_pc /\ qitem' = qitem
        /\ pop_pc' = pop_pc /\ result' = result /\ afu_pc = "store" /\ afu_pc' = "publish"
        /\ afu_idx' = afu_idx /\ outcome' = outcome
    BY <1>12 DEF AfuStore, push, pop
  <2>2. wed'[afu_idx] = Written(wed[afu_idx], outcome)
    BY <1>0, <2>1
  <2>3. \A i \in Slots : i # afu_idx => wed'[i] = wed[i]
    BY <1>0, <2>1
  <2>4. \A p \in Pushers : push_pc[p] = "publish" => wed_push # afu_idx
    BY <2>1 DEF Runnable
  <2>5. /\ Request(wed'[afu_idx]) = Request(wed[afu_idx])
        /\ wed'[afu_idx].chunk = ChunksWritten(outcome)
        /\ wed'[afu_idx].err = outcome.err % ErrorWord
    BY <2>2, WrittenKeeps
  <2>6. outcome' \in RunOutcomes(Asked(Request(wed'[afu_idx'])))
    BY <2>1, <2>5 DEF SlotData
  <2>7. \A p \in Pushers : push_pc'[p] = "publish" =>
          wed'[wed_push'] = Filled(wed'[wed_push'], qitem'[p])
    BY <1>0, <2>1, <2>3, <2>4 DEF SlotData
  <2>8. \A i \in Slots : Runnable(wed'[i]) /\ ~(afu_pc' = "publish" /\ i = afu_idx') =>
          wed'[i].chunk = ChunkLength(wed'[i].src_len)
    BY <2>1, <2>3 DEF SlotData
  <2> QED BY <2>1, <2>5, <2>6, <2>7, <2>8 DEF SlotData
<1>13. CASE AfuPublish
  <2>1. wed' = [wed EXCEPT ![afu_idx].flags = DoneFlags(@, outcome)]
        /\ wed_push' = wed_push /\ push_pc' = push_pc /\ qitem' = qitem
        /\ pop_pc' = pop_pc /\ result' = result /\ afu_pc = "publish" /\ afu_pc' = "next"
        /\ afu_idx' = afu_idx /\ outcome' = outcome
    BY <1>13 DEF AfuPublish, push, pop
  <2>2. ~Runnable(wed'[afu_idx])
    BY <1>0, <2>1 DEF Runnable, DoneFlags, Line
  <2>3. \A i \in Slots : i # afu_idx => wed'[i] = wed[i]
    BY <1>0, <2>1
  <2>4. \A p \in Pushers : push_pc[p] = "publish" => wed_push # afu_idx
    BY <2>1 DEF Runnable
  <2>5. \A p \in Pushers : push_pc'[p] = "publish" =>
          wed'[wed_push'] = Filled(wed'[wed_push'], qitem'[p])
    BY <1>0, <2>1, <2>3, <2>4 DEF SlotData
  <2>6. \A i \in Slots : Runnable(wed'[i]) => wed'[i].chunk = ChunkLength(wed'[i].src_len)
    BY <2>1, <2>2, <2>3 DEF SlotData
  <2> QED BY <2>1, <2>5, <2>6 DEF SlotData
<1>14. CASE UNCHANGED vars
  BY <1>14 DEF vars, queue, push, pop, afu, SlotData
<1> QED BY <1>1, <1>2, <1>3, <1>4, <1>5, <1>6, <1>7, <1>8, <1>9, <1>10, <1>11, <1>12,
           <1>13, <1>14 DEF Next, PushStep, PopStep, AfuStep

-----------------------------------------------------------------------------
(* The refinement.                                                         *)

(* What the order of the ring says of the two sequences of the pipe.       *)
Readable ==
  /\ ReadyCount \in 0 .. QueueLen /\ DoneCount \in 0 .. QueueLen
  /\ \A k \in 1 .. ReadyCount : At(ReadyHead, k - 1) \in ReadySlots
  /\ \A k \in 1 .. DoneCount : At(DoneHead, k - 1) \in DoneSlots
  /\ ReadySeq = Window(Requested, ReadyHead, ReadyCount)
  /\ DoneSeq = Window(Completed, DoneHead, DoneCount)
  /\ Requested \in [Slots -> RequestSet] /\ Completed \in [Slots -> Popped]

(* The slots of a run are where the windows look for them.                 *)
LEMMA RunPlaces ==
  ASSUME NEW p \in Slots, NEW a \in Slots, NEW h, NEW ds, NEW rs, NEW d, NEW n, NEW c,
         Runs(p, a, h, ds, rs, d, n, c)
  PROVE  /\ n \in 0 .. QueueLen /\ d \in 0 .. QueueLen /\ d + n + c <= QueueLen
         /\ \A k \in 1 .. n : At(a, k - 1) \in rs
         /\ \A k \in 1 .. d : At(p, k - 1) \in ds
         /\ a = At(p, d) /\ h = At(a, n)
<1>1. /\ d \in Nat /\ n \in Nat /\ c \in {0, 1} /\ d + n + c <= QueueLen
      /\ n \in 0 .. QueueLen /\ d \in 0 .. QueueLen
  BY QueueAssumption DEF Runs
<1>2. ASSUME NEW k \in 1 .. n PROVE At(a, k - 1) \in rs
  <2>1. k - 1 \in 0 .. QueueLen /\ k - 1 < QueueLen /\ k - 1 < n
    BY <1>1, QueueAssumption
  <2>2. At(a, k - 1) \in Slots /\ Dist(a, At(a, k - 1)) = k - 1
    BY <2>1, RingWalk
  <2> QED BY <2>1, <2>2 DEF Runs
<1>3. ASSUME NEW k \in 1 .. d PROVE At(p, k - 1) \in ds
  <2>1. k - 1 \in 0 .. QueueLen /\ k - 1 < QueueLen /\ k - 1 < d
    BY <1>1, QueueAssumption
  <2>2. At(p, k - 1) \in Slots /\ Dist(p, At(p, k - 1)) = k - 1
    BY <2>1, RingWalk
  <2> QED BY <2>1, <2>2 DEF Runs
<1> QED BY <1>1, <1>2, <1>3 DEF Runs

(* A ring in order can be read as the two sequences.                       *)
LEMMA OrderIsReadable == Base /\ RingOrder => Readable
<1> SUFFICES ASSUME Base, RingOrder PROVE Readable
  OBVIOUS
<1>1. TypeOK /\ DoneHead \in Slots /\ ReadyHead \in Slots
  BY HeadsAreSlots DEF Base
<1>2. /\ ReadyCount \in 0 .. QueueLen /\ DoneCount \in 0 .. QueueLen
      /\ \A k \in 1 .. ReadyCount : At(ReadyHead, k - 1) \in ReadySlots
      /\ \A k \in 1 .. DoneCount : At(DoneHead, k - 1) \in DoneSlots
  <2>1. CASE phase = "attached"
    <3>1. DoneSlots = {} /\ ReadySlots = {} /\ Copied = 0
      BY <2>1 DEF Base, Phases, Idle, DoneSlots, ReadySlots, Runnable, Copied
    <3>2. ReadyCount = 0 /\ DoneCount = 0
      BY <3>1, FS_EmptySet DEF ReadyCount, DoneCount
    <3> QED BY <3>2, QueueAssumption
  <2>2. CASE phase # "attached"
    BY <1>1, <2>2, RunPlaces DEF RingOrder
  <2> QED BY <2>1, <2>2
<1>3. Requested \in [Slots -> RequestSet] /\ Completed \in [Slots -> Popped]
  BY <1>1, PoppedType DEF TypeOK, Requested, Completed, RequestSet
<1> QED BY <1>1, <1>2, <1>3, SeqsNow DEF Readable

(* The same after a step.                                                  *)
LEMMA ReadableNext == Base' /\ RingOrder' => Readable'
BY OrderIsReadable, PTL

NoFlags == DoneSlots = {} /\ ReadySlots = {}
NoItems == ReadySeq = <<>> /\ DoneSeq = <<>>

(* A ring without flags is an empty pipe.                                  *)
LEMMA NoFlagsNoItems == Readable /\ NoFlags => NoItems
<1> SUFFICES ASSUME Readable, DoneSlots = {}, ReadySlots = {}
             PROVE  ReadySeq = <<>> /\ DoneSeq = <<>>
  BY DEF NoFlags, NoItems
<1>1. ReadyCount = 0 /\ DoneCount = 0
  <2>1. ReadyCount \in Nat /\ DoneCount \in Nat
    BY QueueAssumption DEF Readable
  <2>2. ReadyCount = 0
    BY FS_EmptySet DEF ReadyCount
  <2>3. ~(1 <= DoneCount)
    <3>1. 1 <= DoneCount => 1 \in 1 .. DoneCount
      BY <2>1
    <3> QED BY <3>1 DEF Readable
  <2> QED BY <2>1, <2>2, <2>3
<1> QED BY <1>1 DEF Readable, Window

(* The same after a step.                                                  *)
LEMMA NothingLeft == Readable' /\ NoFlags' => NoItems'
BY NoFlagsNoItems, PTL

(* The inductive invariant of the refinement.                              *)
RInv == IInv /\ RingOrder /\ SlotData

(* The invariant holds in every state.                                     *)
LEMMA RingInvariant == Spec => []RInv
<1>1. Init => RingOrder /\ SlotData
  BY InitOrder, InitData
<1>2. IInv /\ RingOrder /\ SlotData /\ [Next]_vars => RingOrder' /\ SlotData'
  BY NextOrder, NextData DEF IInv
<1> QED BY <1>1, <1>2, Inductive, PTL DEF Spec, RInv

(* What a pusher publishes is one of the requests of the pipe.             *)
LEMMA PublishedRequest ==
  ASSUME RInv, NEW p \in Pushers, PushPublish(p)
  PROVE  Request(wed'[wed_push]) \in ItemRequests
<1> DEFINE q == qitem[p]
           s == wed[wed_push]
<1>1. q \in Items /\ s \in Line /\ s = Filled(s, q)
      /\ wed'[wed_push] = [s EXCEPT !.flags = PushFlags(q)]
  BY DEF RInv, IInv, Base, TypeOK, Phases, SlotData, PushPublish
<1> HIDE DEF q, s
<1>2. s.src = q.src /\ s.dst = q.dst /\ s.src_len = q.src_len /\ s.opaque = q.opaque
  BY <1>1 DEF Filled
<1>3. Request(wed'[wed_push]) = [src |-> q.src, dst |-> q.dst, src_len |-> q.src_len,
                                 opaque |-> q.opaque, flags |-> PushFlags(q)]
  BY <1>1, <1>2 DEF Request, Line
<1>4. Request([Filled(BlankSlot, q) EXCEPT !.flags = PushFlags(q)])
        = [src |-> q.src, dst |-> q.dst, src_len |-> q.src_len,
           opaque |-> q.opaque, flags |-> PushFlags(q)]
  BY DEF Request, Filled
<1> QED BY <1>1, <1>3, <1>4 DEF ItemRequests

(* What the AFU completes answers the request it was made from.            *)
LEMMA CompletedAnswer ==
  ASSUME RInv, AfuPublish
  PROVE  PoppedItem(wed'[afu_idx]) \in Completions(Request(wed[afu_idx]))
<1> DEFINE s == wed[afu_idx]
           r == Request(s)
           o == outcome
           t == [Written(Asked(r), o) EXCEPT !.flags = DoneFlags(@, o)]
<1>1. s \in Line /\ o \in RunOutcomes(Asked(r)) /\ s.chunk = ChunksWritten(o)
      /\ s.err = o.err % ErrorWord
      /\ wed'[afu_idx] = [s EXCEPT !.flags = DoneFlags(@, o)]
  BY DEF RInv, IInv, Base, TypeOK, SlotData, AfuPublish
<1>2. PoppedItem(t) \in Completions(r)
  BY <1>1 DEF Completions, Asked
<1> HIDE DEF o
<1>3. PoppedItem(wed'[afu_idx]) = PoppedItem(t)
  <2>1. PoppedItem(wed'[afu_idx]) =
          [src |-> s.src, dst |-> s.dst, src_len |-> s.src_len,
           dst_len |-> (ChunksWritten(o) * CacheLine) % Word,
           flags |-> DoneFlags(s.flags, o), opaque |-> s.opaque, err |-> o.err % ErrorWord]
    BY <1>1 DEF PoppedItem, RunLen, Line
  <2>2. PoppedItem(t) =
          [src |-> s.src, dst |-> s.dst, src_len |-> s.src_len,
           dst_len |-> (ChunksWritten(o) * CacheLine) % Word,
           flags |-> DoneFlags(s.flags, o), opaque |-> s.opaque, err |-> o.err % ErrorWord]
    BY DEF PoppedItem, RunLen, Written, Asked, Request
  <2> QED BY <2>1, <2>2
<1> QED BY <1>2, <1>3

(* Each step of the work queue is a step of the pipe, or none.             *)
LEMMA PipeStep == RInv /\ RInv' /\ [Next]_vars => [Pipe!Next]_(Pipe!vars)
<1> SUFFICES ASSUME RInv, RInv', [Next]_vars
             PROVE  Pipe!Next \/ UNCHANGED <<ReadySeq, DoneSeq, result>>
  BY DEF Pipe!vars
<1>1. Base /\ Locks /\ Ownership /\ RingOrder /\ Readable /\ Readable' /\ RingOrder'
  <2>1. Base /\ Locks /\ Ownership /\ RingOrder /\ Base' /\ RingOrder'
    BY DEF RInv, IInv
  <2> QED BY <2>1, OrderIsReadable, ReadableNext
<1>2. /\ wed \in [Slots -> Line] /\ wed_push \in Slots /\ wed_pop \in Slots /\ afu_idx \in Slots
      /\ DoneHead \in Slots /\ ReadyHead \in Slots
      /\ ReadyCount \in 0 .. QueueLen /\ DoneCount \in 0 .. QueueLen
      /\ ReadyCount' \in 0 .. QueueLen /\ DoneCount' \in 0 .. QueueLen
  BY <1>1, HeadsAreSlots DEF Base, TypeOK, Readable
<1>3. /\ Requested \in [Slots -> RequestSet] /\ Requested' \in [Slots -> RequestSet]
      /\ Completed \in [Slots -> Popped] /\ Completed' \in [Slots -> Popped]
      /\ \A i \in Slots : Requested[i] = Request(wed[i]) /\ Requested'[i] = Request(wed'[i])
      /\ \A i \in Slots : Completed[i] = PoppedItem(wed[i])
                         /\ Completed'[i] = PoppedItem(wed'[i])
  BY <1>1 DEF Readable, Requested, Completed
<1>4. /\ ReadySeq = Window(Requested, ReadyHead, ReadyCount)
      /\ ReadySeq' = Window(Requested', ReadyHead', ReadyCount')
      /\ DoneSeq = Window(Completed, DoneHead, DoneCount)
      /\ DoneSeq' = Window(Completed', DoneHead', DoneCount')
      /\ \A k \in 1 .. ReadyCount : At(ReadyHead, k - 1) \in ReadySlots
      /\ \A k \in 1 .. DoneCount : At(DoneHead, k - 1) \in DoneSlots
      /\ \A k \in 1 .. ReadyCount' : At(ReadyHead', k - 1) \in ReadySlots'
      /\ \A k \in 1 .. DoneCount' : At(DoneHead', k - 1) \in DoneSlots'
      /\ ReadySlots \subseteq Slots /\ DoneSlots \subseteq Slots
  BY <1>1 DEF Readable, ReadySlots, DoneSlots
(* Where the two windows keep their place, it is enough to look inside.    *)
<1>5. ASSUME ReadyHead' = ReadyHead, ReadyCount' = ReadyCount,
             \A i \in ReadySlots : Request(wed'[i]) = Request(wed[i])
      PROVE  ReadySeq' = ReadySeq
  <2>1. \A k \in 1 .. ReadyCount :
          Requested'[At(ReadyHead, k - 1)] = Requested[At(ReadyHead, k - 1)]
    BY <1>3, <1>4, <1>5
  <2> QED BY <1>4, <1>5, <2>1, WindowSame
<1>6. ASSUME DoneHead' = DoneHead, DoneCount' = DoneCount,
             \A k \in 1 .. DoneCount : wed'[At(DoneHead, k - 1)] = wed[At(DoneHead, k - 1)]
      PROVE  DoneSeq' = DoneSeq
  <2>1. \A k \in 1 .. DoneCount :
          Completed'[At(DoneHead, k - 1)] = Completed[At(DoneHead, k - 1)]
    BY <1>3, <1>4, <1>6
  <2> QED BY <1>4, <1>6, <2>1, WindowSame
<1>7. CASE Quiet
  <2>1. ReadySeq' = ReadySeq
    BY <1>1, <1>5, <1>7, QuietSteps DEF runs, ReadyCount
  <2>2. DoneSeq' = DoneSeq
    <3>1. DoneHead' = DoneHead /\ DoneCount' = DoneCount
      BY <1>1, <1>7, QuietSteps DEF runs, DoneCount
    <3>2. \A k \in 1 .. DoneCount : wed'[At(DoneHead, k - 1)] = wed[At(DoneHead, k - 1)]
      BY <1>1, <1>4, <1>7, QuietSteps
    <3> QED BY <1>6, <3>1, <3>2
  <2>3. CASE result' = result
    BY <2>1, <2>2, <2>3
  <2>4. ASSUME NEW c \in Poppers, result' = [result EXCEPT ![c] = None]
        PROVE  Pipe!Next \/ UNCHANGED <<ReadySeq, DoneSeq, result>>
    <3>1. CASE result[c] = None
      <4>1. result' = result
        BY <1>1, <2>4, <3>1 DEF Base, TypeOK
      <4> QED BY <2>1, <2>2, <4>1
    <3>2. CASE result[c] # None
      <4>1. Pipe!Return(c)
        BY <2>1, <2>2, <2>4, <3>2 DEF Pipe!Return
      <4> QED BY <4>1 DEF Pipe!Next
    <3> QED BY <3>1, <3>2
  <2> QED BY <1>1, <1>7, <2>3, <2>4, QuietSteps
<1>8. CASE Attach \/ InitDone
  <2>1. NoFlags'
    <3>1. CASE Attach
      BY <3>1, BlankType DEF Attach, NoFlags, DoneSlots, ReadySlots, Runnable
    <3>2. CASE InitDone
      BY <1>1, <3>2, InitDoneRuns DEF NoFlags
    <3> QED BY <1>8, <3>1, <3>2
  <2>2. ReadySeq' = <<>> /\ DoneSeq' = <<>>
    BY <1>1, <2>1, NothingLeft DEF NoItems
  <2>3. result' = result
    BY <1>8 DEF Attach, InitDone, pop
  <2>4. Pipe!Reset
    BY <2>2, <2>3 DEF Pipe!Reset
  <2> QED BY <2>4 DEF Pipe!Next
<1>9. ASSUME NEW p \in Pushers, PushPublish(p) PROVE Pipe!Next
  <2>1. /\ ReadyHead' = ReadyHead /\ DoneHead' = DoneHead /\ phase # "attached"
        /\ ReadyCount' = ReadyCount + 1 /\ DoneCount' = DoneCount
        /\ PushHead = wed_push /\ wed_push \notin ReadySlots /\ wed_push \notin DoneSlots
        /\ PushHead' = NextWed(wed_push) /\ phase' = phase
    BY <1>1, <1>9, PublishRuns
  <2>2. \A i \in Slots : i # wed_push => wed'[i] = wed[i]
    BY <1>2, <1>9 DEF PushPublish
  <2>3. wed_push = At(ReadyHead, ReadyCount)
    BY <1>1, <1>2, <2>1, RunPlaces DEF RingOrder
  <2>4. ReadyCount \in 0 .. QueueLen - 1
    BY <1>2, <2>1, QueueAssumption
  <2>5. ReadySeq' = Append(ReadySeq, Request(wed'[wed_push]))
    <3>1. \A k \in 1 .. ReadyCount :
            Requested'[At(ReadyHead, k - 1)] = Requested[At(ReadyHead, k - 1)]
      BY <1>3, <1>4, <2>1, <2>2
    <3>2. Window(Requested', ReadyHead, ReadyCount + 1)
            = Append(Window(Requested, ReadyHead, ReadyCount),
                     Requested'[At(ReadyHead, ReadyCount)])
      <4> DEFINE f == Requested
                 g == Requested'
                 x == ReadyHead
                 n == ReadyCount
      <4>1. /\ f \in [Slots -> RequestSet] /\ g \in [Slots -> RequestSet]
            /\ x \in Slots /\ n \in 0 .. QueueLen - 1
            /\ \A k \in 1 .. n : g[At(x, k - 1)] = f[At(x, k - 1)]
        BY <1>2, <1>3, <2>4, <3>1
      <4> HIDE DEF f, g, x, n
      <4>2. Window(g, x, n + 1) = Append(Window(f, x, n), g[At(x, n)])
        BY <4>1, WindowAppend
      <4> QED BY <4>2 DEF f, g, x, n
    <3>3. Requested'[At(ReadyHead, ReadyCount)] = Request(wed'[wed_push])
      BY <1>2, <1>3, <2>3
    <3> QED BY <1>4, <2>1, <3>2, <3>3
  <2>6. DoneSeq' = DoneSeq
    BY <1>4, <1>6, <2>1, <2>2
  <2>7. Len(ReadySeq) + Len(DoneSeq) < QueueLen
    <3>1. Len(ReadySeq) = ReadyCount /\ Len(DoneSeq) = DoneCount
      <4>1. Len(Window(Requested, ReadyHead, ReadyCount)) = ReadyCount
        BY <1>2, <1>3, WindowSeq
      <4>2. Len(Window(Completed, DoneHead, DoneCount)) = DoneCount
        BY <1>2, <1>3, WindowSeq
      <4> QED BY <1>4, <4>1, <4>2
    <3>2. /\ Runs(DoneHead', ReadyHead', PushHead', DoneSlots', ReadySlots', DoneCount',
                  ReadyCount', Copied')
          /\ Copied' \in {0, 1}
      BY <1>1, <2>1 DEF RingOrder, Copied
    <3>3. DoneCount' + ReadyCount' + Copied' <= QueueLen
      BY <3>2 DEF Runs
    <3>4. ReadyCount + 1 + DoneCount <= QueueLen
      <4> DEFINE n == ReadyCount
                 d == DoneCount
                 c == Copied'
      <4>1. n \in Nat /\ d \in Nat /\ c \in {0, 1} /\ QueueLen \in Nat
        BY <1>2, <3>2, QueueAssumption
      <4>2. d + (n + 1) + c <= QueueLen
        BY <2>1, <3>3
      <4> HIDE DEF n, d, c
      <4>3. n + 1 + d <= QueueLen
        BY <4>1, <4>2
      <4> QED BY <4>3 DEF n, d
    <3> QED BY <1>2, <3>1, <3>4, QueueAssumption
  <2>8. Request(wed'[wed_push]) \in ItemRequests /\ result' = result
    BY <1>9, PublishedRequest DEF PushPublish, pop
  <2>9. Pipe!Submit
    BY <2>5, <2>6, <2>7, <2>8 DEF Pipe!Submit
  <2> QED BY <2>9 DEF Pipe!Next
<1>10. ASSUME NEW c \in Poppers, PopRead(c) PROVE Pipe!Next
  <2>1. /\ ReadyHead' = ReadyHead /\ ReadyCount' = ReadyCount
        /\ DoneHead = wed_pop /\ DoneHead' = NextWed(wed_pop) /\ DoneCount' = DoneCount - 1
    BY <1>1, <1>10, ReadRuns
  <2>2. wed' = wed /\ result' = [result EXCEPT ![c] = PoppedItem(wed[wed_pop])]
        /\ result[c] = None
    BY <1>10 DEF PopRead, queue, RInv, SlotData
  <2>3. DoneCount \in 1 .. QueueLen
    BY <1>2, <2>1, QueueAssumption
  <2>4. ReadySeq' = ReadySeq
    BY <1>5, <2>1, <2>2
  <2>5. /\ DoneSeq # <<>> /\ Head(DoneSeq) = PoppedItem(wed[wed_pop])
        /\ DoneSeq' = Tail(DoneSeq)
    <3>1. Completed' = Completed
      BY <2>2 DEF Completed
    <3>2. /\ Window(Completed, wed_pop, DoneCount) # <<>>
          /\ Head(Window(Completed, wed_pop, DoneCount)) = Completed[wed_pop]
          /\ Window(Completed, NextWed(wed_pop), DoneCount - 1)
               = Tail(Window(Completed, wed_pop, DoneCount))
      BY <1>2, <1>3, <2>3, WindowTail
    <3> QED BY <1>2, <1>3, <1>4, <2>1, <3>1, <3>2
  <2>6. Pipe!Retire(c)
    BY <2>2, <2>4, <2>5 DEF Pipe!Retire
  <2> QED BY <2>6 DEF Pipe!Next
<1>11. ASSUME NEW c \in Poppers, PopClear(c)
       PROVE  UNCHANGED <<ReadySeq, DoneSeq, result>>
  <2>1. /\ ReadyHead' = ReadyHead /\ ReadyCount' = ReadyCount /\ ReadySlots' = ReadySlots
        /\ DoneHead' = DoneHead /\ DoneCount' = DoneCount
        /\ wed_pop \in DoneSlots /\ DoneSlots' = DoneSlots \ {wed_pop}
    BY <1>1, <1>11, ClearRuns
  <2>2. \A i \in Slots : i # wed_pop => wed'[i] = wed[i]
    BY <1>2, <1>11 DEF PopClear
  <2>3. ReadySeq' = ReadySeq
    <3>1. wed_pop \notin ReadySlots
      BY <2>1 DEF DoneSlots, ReadySlots, Runnable
    <3> QED BY <1>4, <1>5, <2>1, <2>2, <3>1
  <2>4. DoneSeq' = DoneSeq
    <3>1. \A k \in 1 .. DoneCount : At(DoneHead, k - 1) \in DoneSlots \ {wed_pop}
      BY <1>4, <2>1
    <3>2. \A k \in 1 .. DoneCount : wed'[At(DoneHead, k - 1)] = wed[At(DoneHead, k - 1)]
      BY <1>4, <2>2, <3>1
    <3> QED BY <1>6, <2>1, <3>2
  <2>5. result' = result
    BY <1>11 DEF PopClear
  <2> QED BY <2>3, <2>4, <2>5
<1>12. CASE AfuPublish
  <2>1. /\ ReadyHead = afu_idx /\ ReadyHead' = NextWed(afu_idx)
        /\ afu_idx \notin DoneSlots /\ DoneHead' = DoneHead /\ phase # "attached"
        /\ ReadySlots' = ReadySlots \ {afu_idx} /\ phase' = phase
        /\ ReadyCount' = ReadyCount - 1 /\ DoneCount' = DoneCount + 1
    BY <1>1, <1>12, CompleteRuns
  <2>2. (\A i \in Slots : i # afu_idx => wed'[i] = wed[i]) /\ result' = result
    BY <1>2, <1>12 DEF AfuPublish, pop
  <2>3. ReadyCount \in 1 .. QueueLen /\ DoneCount \in 0 .. QueueLen - 1
    BY <1>2, <2>1, QueueAssumption
  <2>4. afu_idx = At(DoneHead, DoneCount)
    BY <1>1, <1>2, <2>1, RunPlaces DEF RingOrder
  <2>5. /\ ReadySeq # <<>> /\ Head(ReadySeq) = Request(wed[afu_idx])
        /\ ReadySeq' = Tail(ReadySeq)
    <3>1. \A k \in 2 .. ReadyCount :
            Requested'[At(afu_idx, k - 1)] = Requested[At(afu_idx, k - 1)]
      <4> TAKE k \in 2 .. ReadyCount
      <4>1. k - 1 \in 0 .. QueueLen /\ k - 1 < QueueLen /\ k - 1 # 0
        BY <2>3, QueueAssumption
      <4>2. At(afu_idx, k - 1) \in Slots /\ At(afu_idx, k - 1) # afu_idx
        BY <1>2, <4>1, QueueAssumption DEF At, Slots
      <4> QED BY <1>3, <2>2, <4>2
    <3>2. /\ Window(Requested, afu_idx, ReadyCount) # <<>>
          /\ Head(Window(Requested, afu_idx, ReadyCount)) = Requested[afu_idx]
          /\ Window(Requested', NextWed(afu_idx), ReadyCount - 1)
               = Tail(Window(Requested, afu_idx, ReadyCount))
      BY <1>2, <1>3, <2>3, <3>1, WindowTail
    <3> QED BY <1>2, <1>3, <1>4, <2>1, <3>2
  <2>6. DoneSeq' = Append(DoneSeq, PoppedItem(wed'[afu_idx]))
    <3>1. \A k \in 1 .. DoneCount :
            Completed'[At(DoneHead, k - 1)] = Completed[At(DoneHead, k - 1)]
      BY <1>3, <1>4, <2>1, <2>2
    <3>2. Window(Completed', DoneHead, DoneCount + 1)
            = Append(Window(Completed, DoneHead, DoneCount),
                     Completed'[At(DoneHead, DoneCount)])
      <4> DEFINE f == Completed
                 g == Completed'
                 x == DoneHead
                 n == DoneCount
      <4>1. /\ f \in [Slots -> Popped] /\ g \in [Slots -> Popped]
            /\ x \in Slots /\ n \in 0 .. QueueLen - 1
            /\ \A k \in 1 .. n : g[At(x, k - 1)] = f[At(x, k - 1)]
        BY <1>2, <1>3, <2>3, <3>1
      <4> HIDE DEF f, g, x, n
      <4>2. Window(g, x, n + 1) = Append(Window(f, x, n), g[At(x, n)])
        BY <4>1, WindowAppend
      <4> QED BY <4>2 DEF f, g, x, n
    <3> QED BY <1>2, <1>3, <1>4, <2>1, <2>4, <3>2
  <2>7. PoppedItem(wed'[afu_idx]) \in Completions(Head(ReadySeq))
    BY <1>12, <2>5, CompletedAnswer
  <2>8. Pipe!Complete
    BY <2>2, <2>5, <2>6, <2>7 DEF Pipe!Complete
  <2> QED BY <2>8 DEF Pipe!Next
<1> QED BY <1>7, <1>8, <1>9, <1>10, <1>11, <1>12, StepKinds

(* For every queue length, every number of threads and every processor the *)
(* work queue is a bounded pipe: requests are completed in the order of    *)
(* their submission, each once, each with an answer to its own request,    *)
(* and each completion is handed to one popper.                            *)
THEOREM WorkQueueIsAPipe == Spec => ImplementsWorkQueue
<1>1. Init => Pipe!Init
  <2> SUFFICES ASSUME Init PROVE Pipe!Init
    OBVIOUS
  <2>1. Readable
    BY InitBase, InitOrder, OrderIsReadable
  <2>2. NoFlags
    BY BlankType DEF Init, NoFlags, DoneSlots, ReadySlots, Runnable
  <2>3. NoItems
    BY <2>1, <2>2, NoFlagsNoItems
  <2> QED BY <2>3 DEF Init, NoItems, Pipe!Init
<1> QED BY <1>1, RingInvariant, PipeStep, PTL DEF Spec, ImplementsWorkQueue, Pipe!Spec
=============================================================================
