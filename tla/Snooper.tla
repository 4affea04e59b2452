------------------------------ MODULE Snooper -------------------------------
(***************************************************************************)
(* The bus snooper: the trace of commands and responses and the tag        *)
(* analyser of src/rtl/snooper.vhd, the register pipeline of               *)
(* src/rtl/mmio.vhd, and the program that reads both out,                  *)
(* src/src/snooper.c.  A step is a rising edge of ha_pclock; the program   *)
(* has at most one access under way, as the MMIO interface wants it.       *)
(*                                                                         *)
(* A word of the trace is the number of the event on the bus it is about.  *)
(* Data other than tags, the checksum of the lines read and the usage      *)
(* counters are left out.                                                  *)
(***************************************************************************)
EXTENDS Integers, Sequences, FiniteSets

CONSTANTS
  Tags, None,
  FifoBits, WriteSlack,  \* of cfifo
  TqBits, OutBits,       \* of the tag analyser's fifos
  Rest,        \* clocks between a tag's response and its next command
  MaxTime,     \* bound on the clocks a command takes
  MaxTraced,   \* bound on the events without the tag analyser
  MaxTagged,   \* bound on the commands with it
  MaxDumps     \* bound on the dumps of either kind

(* The registers that the program reads.                                   *)
Registers == {"data", "tag_min", "tag_max", "tag_data", "tag_alert"}

(* See Track and Counters of TagAnal: a tag used again sooner raises a     *)
(* false alarm (1) or is measured one clock short (2).                     *)
ASSUME RestAssumption == Rest \in Nat /\ Rest >= 3
ASSUME NoneAssumption == None \notin Tags /\ None \notin Registers /\ None \notin Nat

F == INSTANCE SyncFifoFwft
A == INSTANCE TagAnal

(* full is seen two words late.                                            *)
ASSUME TraceAssumption ==
  /\ WriteSlack \in Nat /\ WriteSlack >= 2
  /\ F!Words \in Nat /\ F!Words >= WriteSlack + 2

(* The fifos of the tag analyser; of the last, the output register and a   *)
(* word are used at least.                                                 *)
ASSUME TagsAssumption == Tags \subseteq Nat
ASSUME TimesAssumption ==
  /\ A!Tq!Words \in Nat \ {0}
  /\ A!Out!Words \in Nat /\ A!Out!Words >= 2

VARIABLES
  tag_anal_en, \* PSL_TAG_ANAL_EN
  fifo,        \* cfifo
  write,       \* write and write_data, or None
  read,
  tag,         \* the registers of the tag analyser
  tag_read,
  acc,         \* the access: its register, how far it is, its data
  pc,          \* the program: "idle", or the function it is in
  bus,         \* what has happened on the bus
  log          \* what the program has read

hardware == <<fifo, write, read, tag, tag_read>>
vars == <<tag_anal_en, hardware, acc, pc, bus, log>>

(* Clock edges since an access was put on ha_mm*: then INP has it, then    *)
(* REG_READ_P has answered, OUTPUT has, and the data is on ah_mm*.         *)
Inp == 1
Out == 4

NoAccess == [reg |-> None, edges |-> 0, data |-> None]

(* age: clocks since a tag's command, None when it is not in use; rest:    *)
(* clocks since its response; took: the clocks the tags were in use, in    *)
(* the order of the responses; wrong: a tag in use was issued, or one not  *)
(* in use answered; crowded: events that found no Room; spilled: times     *)
(* that found the tag analyser's last fifo full; mixed: a time was         *)
(* recorded while the program was reading them.                            *)
Init ==
  /\ tag_anal_en \in BOOLEAN
  /\ fifo = F!FifoInit /\ write = None /\ read = FALSE
  /\ tag = A!TagInit /\ tag_read = FALSE
  /\ acc = NoAccess /\ pc = "idle"
  /\ bus = [n |-> 0, age |-> [i \in Tags |-> None], rest |-> [i \in Tags |-> Rest],
            took |-> <<>>, wrong |-> FALSE, crowded |-> 0, spilled |-> 0, mixed |-> FALSE]
  /\ log = [printed |-> <<>>, dumps |-> 0, times |-> <<>>, stats |-> 0]

-----------------------------------------------------------------------------
(* The bus: a command with tag c and a response to r in this clock, or     *)
(* None.  The bus answers every command in time, and never in the very     *)
(* clock it is issued in.  It may misuse a tag, not while times are read;  *)
(* after that it only answers, and the program only asks for the alarm     *)
(* (bounds on what is explored).                                           *)

InUse(i) == bus.age[i] # None

Misused(c, r) == (c # None /\ InUse(c)) \/ (r # None /\ ~InUse(r))

More == IF tag_anal_en
        THEN ~bus.wrong /\ Len(bus.took) + Cardinality({i \in Tags : InUse(i)}) < MaxTagged
        ELSE bus.n < MaxTraced

MayCommand(c) ==
  c # None => /\ More /\ (InUse(c) \/ bus.rest[c] >= Rest)
              /\ tag_anal_en \/ c = 0

MayRespond(r) ==
  /\ r # None => InUse(r) \/ (tag_anal_en /\ More)
  /\ \A i \in Tags : bus.age[i] = MaxTime => r = i

Event(c, r) == c # None \/ r # None

(* Words accepted for the trace that no access has removed.                *)
Stored == ((fifo.waddr - fifo.raddr) % F!Words) + (IF fifo.valid THEN 1 ELSE 0)
            + (IF write = None THEN 0 ELSE 1)

(* Up to here the trace takes every event; write and full lag behind.      *)
Room == F!Words - WriteSlack - 2

Bus(c, r) ==
  /\ c = r => c = None
  /\ MayCommand(c) /\ MayRespond(r)
  /\ Misused(c, r) => ~bus.wrong /\ pc # "stats"
  /\ bus' = [n |-> bus.n + (IF Event(c, r) THEN 1 ELSE 0),
             age |-> [i \in Tags |->
                        IF InUse(i) THEN IF i = r THEN None ELSE bus.age[i] + 1
                        ELSE IF i = c /\ tag_anal_en THEN 1 ELSE None],
             rest |-> [i \in Tags |->
                         IF i = r /\ InUse(i) THEN 1
                         ELSE IF bus.rest[i] = Rest THEN Rest ELSE bus.rest[i] + 1],
             took |-> IF r # None /\ InUse(r) THEN Append(bus.took, bus.age[r] + 1)
                      ELSE bus.took,
             wrong |-> bus.wrong \/ (tag_anal_en /\ Misused(c, r)),
             crowded |-> bus.crowded + (IF Event(c, r) /\ Stored > Room THEN 1 ELSE 0),
             spilled |-> bus.spilled + (IF tag.tq.valid /\ tag.out.full THEN 1 ELSE 0),
             mixed |-> bus.mixed \/ (pc = "stats" /\ tag.tq.valid)]

-----------------------------------------------------------------------------
(* The hardware on a clock edge.                                           *)

(* REG_INPUT: full is tested a clock before the word is written.           *)
RegInput(c, r) == IF Event(c, r) /\ ~fifo.full THEN bus.n + 1 ELSE None

(* What a read finds in a register of the snooper, REG_READ_P.             *)
Register(reg) ==
  CASE reg = "data"      -> IF fifo.valid THEN fifo.data ELSE 0
    [] reg = "tag_alert" -> A!TagAlert(tag)
    [] reg = "tag_min"   -> tag.min
    [] reg = "tag_max"   -> tag.max
    [] reg = "tag_data"  -> A!TagData(tag)

Sampled(reg) == acc.reg = reg /\ acc.edges = Inp

(* Leaves the last word, because the memory is empty.                      *)
MutantReadLast == Sampled("data") /\ ~fifo.empty

(* The word is removed a clock after it, or its absence, was sampled.      *)
RegRead == Sampled("data")

Hardware(c, r) ==
  /\ write' = RegInput(c, r)
  /\ read' = RegRead
  /\ fifo' = F!FifoEdge(fifo, FALSE, write, read)
  /\ tag_read' = Sampled("tag_data")
  /\ tag' = IF tag_anal_en THEN A!TagEdge(tag, c, r, tag_read) ELSE tag

Clock ==
  /\ \E c, r \in Tags \cup {None} : Bus(c, r) /\ Hardware(c, r)
  /\ UNCHANGED tag_anal_en

-----------------------------------------------------------------------------
(* The program.                                                            *)

Read(reg) == acc' = [NoAccess EXCEPT !.reg = reg]

(* mmio.vhd: the access goes one register further.                         *)
Access ==
  /\ acc.reg # None /\ acc.edges < Out
  /\ acc' = [acc EXCEPT !.edges = @ + 1,
                        !.data = IF acc.edges = Inp THEN Register(acc.reg) ELSE @]
  /\ Clock /\ UNCHANGED <<pc, log>>

Idle == acc.reg = None /\ Clock /\ UNCHANGED <<acc, pc, log>>

Call(function, reg) ==
  /\ pc = "idle" /\ pc' = function
  /\ Read(reg)
  /\ Clock /\ UNCHANGED log

Answered(reg) == acc.reg = reg /\ acc.edges = Out

Return == pc' = "idle" /\ acc' = NoAccess

(* snooper_dump: print and read on until a word is not valid.              *)
DumpWord ==
  /\ Answered("data") /\ acc.data # 0
  /\ log' = [log EXCEPT !.printed = Append(@, acc.data)]
  /\ Read("data")
  /\ Clock /\ UNCHANGED pc

DumpEnds ==
  /\ Answered("data") /\ acc.data = 0
  /\ log' = [log EXCEPT !.dumps = @ + 1]
  /\ Return /\ Clock

(* snooper_tag_stats: the extremes, then the times until one is 0.         *)
StatsExtreme ==
  /\ \/ Answered("tag_min") /\ Read("tag_max")
     \/ Answered("tag_max") /\ Read("tag_data")
  /\ Clock /\ UNCHANGED <<pc, log>>

StatsTime ==
  /\ Answered("tag_data") /\ acc.data # 0
  /\ log' = [log EXCEPT !.times = Append(@, acc.data)]
  /\ Read("tag_data")
  /\ Clock /\ UNCHANGED pc

StatsEnds ==
  /\ Answered("tag_data") /\ acc.data = 0
  /\ log' = [log EXCEPT !.stats = @ + 1]
  /\ Return /\ Clock

snooper_tag_alert ==
  /\ Answered("tag_alert")
  /\ Return /\ Clock /\ UNCHANGED log

Reading == Access \/ DumpWord \/ DumpEnds \/ StatsExtreme \/ StatsTime \/ StatsEnds
             \/ snooper_tag_alert

Next ==
  \/ Idle \/ Reading
  \/ log.dumps < MaxDumps /\ ~tag_anal_en /\ Call("dump", "data")
  \/ log.stats < MaxDumps /\ tag_anal_en /\ ~bus.wrong /\ Call("stats", "tag_min")
  \/ bus.wrong /\ Call("alert", "tag_alert")

Spec == Init /\ [][Next]_vars
=============================================================================
