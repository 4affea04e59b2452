------------------------------ MODULE TagAnal -------------------------------
(***************************************************************************)
(* src/rtl/tag_anal.vhd: watches the tags of commands and responses on the *)
(* bus, raises an alarm for a tag used twice at a time, and measures how   *)
(* long each command took.  TagEdge is what a rising clock edge makes of   *)
(* its registers t.  Left out are reset and the usage counters             *)
(* (tag_stats0).                                                           *)
(***************************************************************************)
LOCAL INSTANCE Integers

CONSTANTS Tags,    \* 0 .. 127 in the code
          TqBits,  \* ADDR_BITS of TAG_INPUT_QUEUE
          OutBits, \* PSL_TAG_DATA_QUEUE_ADDR
          None     \* no tag, no word

Tq  == INSTANCE SyncFifoFwft WITH FifoBits <- TqBits, WriteSlack <- 2
Out == INSTANCE SyncFifoFwft WITH FifoBits <- OutBits, WriteSlack <- 2

Zeros == [i \in Tags |-> 0]

(* After reset.  tag_min is all ones, None here.                           *)
TagInit ==
  [track |-> {}, track_d |-> {}, rtag_d |-> None, alarm |-> {},
   counters |-> Zeros, counters_d |-> Zeros, wen |-> {}, find |-> 0,
   tq_wen |-> FALSE, tq_wen_d |-> FALSE, tq_wen_dd |-> FALSE,
   tq_wdata |-> 0, tq_wdata_d |-> 0, tq_read |-> FALSE,
   tq |-> Tq!FifoInit, out |-> [Out!FifoInit EXCEPT !.data = 0], min |-> None, max |-> 0]

(* The highest index set, 0 if none is; tq_find1 and tq_find2 in one.      *)
Find(wen) == CHOOSE i \in wen \cup {0} : \A j \in wen : j <= i

(* Looks at the response only when there is no command.                    *)
MutantTrackElse(t, c, r) ==
  IF c # None THEN t.track \cup {c} ELSE t.track \ {t.rtag_d}

(* A response is seen a cycle late and then wins over a command.           *)
Track(t, c, r) == (t.track \cup ({c} \ {None})) \ {t.rtag_d}

Alarm(t, c) ==
  t.alarm \cup {i \in Tags : (i = c /\ i \in t.track) \/ (i = t.rtag_d /\ i \notin t.track)}

(* Keeps counting from the last command's time.                            *)
MutantCountsOn(t) == [i \in Tags |-> t.counters[i] + (IF i \in t.track THEN 1 ELSE 0)]

Counters(t) ==
  [i \in Tags |-> IF i \in t.wen THEN 0
                  ELSE t.counters[i] + (IF i \in t.track THEN 1 ELSE 0)]

(* What the register tag_data shows, and tag_alert.  out.empty is the      *)
(* memory's flag, not the output register's: the word there is hidden when *)
(* no other is behind it, and an old one shows when a new one is.          *)
TagData(t)  == IF t.out.empty THEN 0 ELSE t.out.data
TagAlert(t) == t.alarm # {}

(* A command with tag c and a response to tag r, or None; tag_read.        *)
TagEdge(t, c, r, tag_read) ==
  LET word == IF t.tq.valid THEN t.tq.data ELSE None
  IN  [track      |-> Track(t, c, r),
       track_d    |-> t.track,
       rtag_d     |-> r,
       alarm      |-> Alarm(t, c),
       counters   |-> Counters(t),
       counters_d |-> t.counters,
       wen        |-> (t.track_d \ t.track) \ t.wen,
       find       |-> Find(t.wen),
       tq_wen     |-> t.wen # {},
       tq_wen_d   |-> t.tq_wen,
       tq_wen_dd  |-> t.tq_wen_d,
       tq_wdata   |-> t.counters_d[t.find],
       tq_wdata_d |-> t.tq_wdata,
       tq_read    |-> ~t.tq.empty,
       tq   |-> Tq!FifoEdge(t.tq, FALSE, IF t.tq_wen_dd THEN t.tq_wdata_d ELSE None,
                            t.tq_read),
       out  |-> Out!FifoEdge(t.out, FALSE, IF t.out.full THEN None ELSE word, tag_read),
       min  |-> IF word # None /\ (t.min = None \/ word < t.min) THEN word ELSE t.min,
       max  |-> IF word # None /\ word > t.max THEN word ELSE t.max]
=============================================================================
