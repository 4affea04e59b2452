---------------------------- MODULE SnooperProps ----------------------------
(***************************************************************************)
(* What the bus snooper has to guarantee.                                  *)
(***************************************************************************)
EXTENDS Snooper, SequencesExt

(* Words of the trace that are still on their way to the program.          *)
InFifo ==
  {fifo.mem[(fifo.raddr + k) % F!Words] :
     k \in 0 .. ((fifo.waddr - fifo.raddr) % F!Words) - 1}
OnTheWay ==
  InFifo \cup {w \in {write} : w # None} \cup {w \in {fifo.data} : fifo.valid}
    \cup {w \in {acc.data} : acc.reg = "data" /\ acc.data \notin {None, 0}}

(* The trace is printed in the order of the bus and no event twice: the    *)
(* fifo is never written over, although full comes late, and a word is     *)
(* removed once, although it is removed after it was read.  It misses no   *)
(* other events than those that came while as many waited as there is room *)
(* for, and at most one for every dump that has ended: the one that        *)
(* reached the fifo's output in the clock after the read that found it     *)
(* empty.                                                                  *)
TraceTrue ==
  /\ \A k \in 2 .. Len(log.printed) : log.printed[k - 1] < log.printed[k]
  /\ Cardinality((1 .. bus.n) \ (ToSet(log.printed) \cup OnTheWay))
       <= bus.crowded + log.dumps + (IF pc = "dump" /\ acc.data = 0 THEN 1 ELSE 0)

(* The tag analyser has recorded every command it has seen.                *)
Settled ==
  /\ tag.track = {} /\ tag.track_d = {} /\ tag.rtag_d = None /\ tag.wen = {}
  /\ ~tag.tq_wen /\ ~tag.tq_wen_d /\ ~tag.tq_wen_dd
  /\ tag.tq.empty /\ ~tag.tq.valid

(* Times recorded that are still to be read.                               *)
TimesLeft ==
  ((tag.out.waddr - tag.out.raddr) % A!Out!Words) + (IF tag.out.valid THEN 1 ELSE 0)
    + (IF pc = "stats" /\ acc.reg = "tag_data" /\ acc.data \notin {None, 0} /\ ~tag_read
       THEN 1 ELSE 0)

Subsequence(s, t) ==
  \E kept \in SUBSET DOMAIN t :
    LET rank(k) == Cardinality({j \in kept : j <= k})
    IN  /\ Cardinality(kept) = Len(s)
        /\ \A k \in kept : s[rank(k)] = t[k]

(* Every time that found room in the last fifo is printed once, but for    *)
(* one at most for every call that has ended: the one the fifo's empty     *)
(* flag hides.  The times printed are those the commands took in the order *)
(* of the responses, unless one was recorded while they were read: a read  *)
(* that comes before that has reached the fifo's output repeats the last   *)
(* time and removes the new one.                                           *)
TimesTrue ==
  ~bus.wrong =>
    /\ ~bus.mixed => Subsequence(log.times, bus.took)
    /\ ToSet(log.times) \subseteq ToSet(bus.took)
    /\ Settled => /\ Len(log.times) + TimesLeft <= Len(bus.took)
                  /\ Len(bus.took) <= Len(log.times) + TimesLeft + log.stats
                       + (IF pc = "stats" /\ acc.data = 0 THEN 1 ELSE 0) + bus.spilled

(* The alarm is raised for every tag that is misused, a clock later at     *)
(* most, and for no other reason.                                          *)
AlarmsTrue ==
  [][tag_anal_en =>
       /\ bus.wrong => A!TagAlert(tag')
       /\ A!TagAlert(tag') => bus'.wrong]_vars
=============================================================================
