--------------------------- MODULE WqueueRtlProofs ---------------------------
(***************************************************************************)
(* Safety of the AFU block for every ring, credit limit, buffer size and   *)
(* set of requests: how many commands are outstanding, what is in flight   *)
(* when an element is loaded or written back, who owns the element, that   *)
(* no trigger is lost, and the rings of the two data queues, whose         *)
(* addresses are the tags.                                                 *)
(***************************************************************************)
EXTENDS WqueueRtlProps, FiniteSetTheorems, TLAPS

(* The states that put a command on the bus when there is room.            *)
Submitting == {"LOAD_QUEUE_ITEM", "READ_SRC", "WRITE_DST", "RESTART_BUS", "SAVE_QUEUE_ITEM"}

Lent == IF ah = None THEN 0 ELSE 1

-----------------------------------------------------------------------------
(* The credits.  No two commands are issued in consecutive cycles, so the  *)
(* one that has_room lets through too many is followed by a cycle in which *)
(* has_room is right.                                                      *)
Room ==
  /\ credits \in Int /\ credits >= -1
  /\ IsFiniteSet(bus)
  /\ Cardinality(bus) <= Croom - credits
  /\ ah # None => state \notin Submitting /\ credits >= 0
  /\ has_room => credits >= 0

(* A command appears only out of a submitting state that saw room, and     *)
(* that state is left with it.                                             *)
LEMMA CommandsAreSpaced ==
  ASSUME StateMachine, ah' # None
  PROVE  state \in Submitting /\ has_room /\ state' \notin Submitting
BY DEF StateMachine, Idle, LoadQueueItem, WaitForQueueItem, Run, ReadSrc, WriteDst, WriteWait,
       Flush, RestartBus, RestartBusFlush, SaveQueueItem, NextItem, WaitForDone, Done,
       Await, Submit, Goto, Submitting

(* What an edge does to the set of outstanding commands: an answer takes   *)
(* at least one away, a command of the block adds at most one.             *)
LEMMA BusStep ==
  ASSUME IsFiniteSet(bus), NEW rsp \in Responses \cup {None}, NEW bw, NEW br, Bus(rsp, bw, br)
  PROVE  /\ IsFiniteSet(bus')
         /\ Cardinality(bus') <= Cardinality(bus) - (IF rsp = None THEN 0 ELSE 1) + Lent
<1> DEFINE over == {c \in bus : rsp # None /\ rsp.tag = c.tag}
           left == bus \ over
           kept == {Served(c, bw, br) : c \in left}
           f == [c \in left |-> Served(c, bw, br)]
<1>1. bus' = kept \cup Taken
  BY DEF Bus
<1>2. /\ IsFiniteSet(left)
      /\ Cardinality(left) \in Nat /\ Cardinality(bus) \in Nat
      /\ Cardinality(left) <= Cardinality(bus) - (IF rsp = None THEN 0 ELSE 1)
  <2>1. CASE rsp = None
    <3>1. left = bus
      BY <2>1
    <3> HIDE DEF left
    <3> QED BY <2>1, <3>1, FS_CardinalityType
  <2>2. CASE rsp # None
    <3>1. PICK c \in bus : rsp.tag = c.tag
      BY <2>2 DEF Responses, Answers
    <3>2. left \in SUBSET (bus \ {c})
      BY <2>2, <3>1
    <3>3. IsFiniteSet(bus \ {c}) /\ Cardinality(bus \ {c}) = Cardinality(bus) - 1
      BY <3>1, FS_RemoveElement
    <3>4. IsFiniteSet(left) /\ Cardinality(left) <= Cardinality(bus \ {c})
      BY <3>2, <3>3, FS_Subset
    <3> HIDE DEF left
    <3> QED BY <2>2, <3>3, <3>4, FS_CardinalityType
  <2> QED BY <2>1, <2>2
<1>3. f \in Surjection(left, kept)
  BY DEF Surjection
<1>4. IsFiniteSet(kept) /\ Cardinality(kept) <= Cardinality(left) /\ Cardinality(kept) \in Nat
  <2> HIDE DEF left, kept, f
  <2> QED BY <1>2, <1>3, FS_Surjection, FS_CardinalityType
<1>5. IsFiniteSet(kept \cup Taken) /\ Cardinality(kept \cup Taken) <= Cardinality(kept) + Lent
  <2> HIDE DEF kept
  <2>1. CASE ah = None
    <3>1. kept \cup Taken = kept
      BY <2>1 DEF Taken
    <3> QED BY <1>4, <2>1, <3>1 DEF Lent
  <2>2. CASE ah # None
    <3> DEFINE c == [com |-> ah.com, tag |-> ah.tag, addr |-> ah.addr, beats |-> 0, buf |-> <<>>]
    <3>1. Taken = {c}
      BY <2>2 DEF Taken
    <3> HIDE DEF c
    <3>2. /\ IsFiniteSet(kept \cup {c})
          /\ Cardinality(kept \cup {c}) = IF c \in kept THEN Cardinality(kept) ELSE Cardinality(kept) + 1
      BY <1>4, FS_AddElement
    <3> QED BY <1>4, <2>2, <3>1, <3>2 DEF Lent
  <2> QED BY <2>1, <2>2
<1> HIDE DEF left, kept
<1>6. Cardinality(kept \cup Taken) \in Nat
  BY <1>5, FS_CardinalityType
<1> QED BY <1>1, <1>2, <1>4, <1>5, <1>6 DEF Lent

(* The software changes nothing of this.                                   *)
LEMMA SoftwareStep ==
  ASSUME (\E j \in Jobs : Push(j)) \/ Pop \/ PopReturn \/ Stop
  PROVE  UNCHANGED <<regs, bus, failed>>
BY DEF Push, Pop, PopReturn, Stop

LEMMA RoomHolds == Spec => []Room
<1>1. Init => Room
  BY FS_EmptySet, RtlAssumption DEF Init, RtlInit, Room
<1>2. Room /\ [Next]_vars => Room'
  <2> SUFFICES ASSUME Room, [Next]_vars PROVE Room'
    OBVIOUS
  <2>1. CASE UNCHANGED <<regs, bus>>
    BY <2>1 DEF Room, regs
  <2>2. CASE Clock
    <3>1. PICK rsp, bw, br, out, trigger, stop :
            rsp \in Responses \cup {None} /\ Edge(rsp, bw, br, out, trigger, stop)
      BY <2>2 DEF Clock, Cycle, BusEvents
    <3>2. /\ IsFiniteSet(bus')
          /\ Cardinality(bus') <= Cardinality(bus) - (IF rsp = None THEN 0 ELSE 1) + Lent
      BY <3>1, BusStep DEF Edge, Room
    <3>3. /\ credits' = credits + (IF rsp = None THEN 0 ELSE 1) - Lent
          /\ has_room' => credits >= 1
      BY <3>1 DEF Edge, RoomCheck, Lent
    <3>4. ah' # None => state \in Submitting /\ has_room /\ state' \notin Submitting
      BY <3>1, CommandsAreSpaced DEF Edge
    <3>5. Cardinality(bus) \in Nat /\ Cardinality(bus') \in Nat
      BY <3>2, FS_CardinalityType DEF Room
    <3>6. Croom \in Int
      BY RtlAssumption
    <3>7. CASE ah = None
      BY <3>2, <3>3, <3>4, <3>5, <3>6, <3>7 DEF Room, Lent
    <3>8. CASE ah # None
      BY <3>2, <3>3, <3>4, <3>5, <3>6, <3>8 DEF Room, Lent
    <3> QED BY <3>7, <3>8
  <2> QED BY <2>1, <2>2, SoftwareStep DEF Next, vars, env
<1> QED BY <1>1, <1>2, PTL DEF Spec

(* At most one command more than the bus has room for is outstanding.      *)
THEOREM RoomIsNeverOverdrawn == Spec => []RoomIsLimited
<1>1. Room => RoomIsLimited
  <2> SUFFICES ASSUME Room PROVE RoomIsLimited
    OBVIOUS
  <2>1. Cardinality(bus) \in Nat /\ Croom \in Int
    BY FS_CardinalityType, RtlAssumption DEF Room
  <2> QED BY <2>1 DEF Room, RoomIsLimited
<1> QED BY <1>1, RoomHolds, PTL

-----------------------------------------------------------------------------
(* What is in flight in each state.                                        *)
Alone == {"READ_CL_M", "RESTART", "WRITE_MI"}
Streaming == {"RUN", "READ_SRC", "WRITE_DST", "WRITE_WAIT", "FLUSH"}

Still == bus = {} /\ ah = None

(* At most the one command is in flight.                                   *)
Only(com, tag) ==
  \/ bus = {} /\ (ah # None => ah.com = com /\ ah.tag = tag)
  \/ ah = None /\ \E c \in bus : bus = {c} /\ c.com = com /\ c.tag = tag

InFlight ==
  /\ flushed => bus = {}
  /\ QuietBus
  /\ state \in {"IDLE", "LOAD_QUEUE_ITEM", "RESTART_BUS", "SAVE_QUEUE_ITEM"} => Still
  /\ state = "WAIT_FOR_QUEUE_ITEM" => Only("READ_CL_M", Load) /\ (got_qitem => Still)
  /\ state = "RESTART_BUS_FLUSH" => Only("RESTART", Restart)
  /\ state = "NEXT_ITEM" => Only("WRITE_MI", Save)
  /\ state \in Streaming => /\ ah # None => ah.com \notin Alone
                            /\ \A c \in bus : c.com \notin Alone
  /\ state = "FLUSH" => ah = None

Matches(com, tag) ==
  \/ com = "READ_CL_M" /\ tag = Load
  \/ com = "READ_CL_NA" /\ tag.kind = "rdata"
  \/ com = "WRITE_NA" /\ tag.kind = "wdata"
  \/ com = "RESTART" /\ tag = Restart
  \/ com = "WRITE_MI" /\ tag = Save

Names ==
  /\ ah # None => Matches(ah.com, ah.tag)
  /\ \A c \in bus : Matches(c.com, c.tag) /\ c.beats \in Nat

Faults ==
  failed => \/ state \in Streaming /\ error_mask # {}
            \/ state \in {"RESTART_BUS", "WAIT_FOR_DONE", "DONE"}
            \/ state = "RESTART_BUS_FLUSH" /\ ~Still

Saves ==
  /\ brtag_last = Save => \E c \in bus : c.tag = Save /\ c.beats > 0
  /\ ah # None /\ ah.tag = Save => slot[ah.addr[1]].flag = "ready" /\ ah.addr[1] \in Slots
  /\ \A c \in bus : c.tag = Save =>
       /\ c.addr[1] \in Slots
       /\ c.beats = 0 \/ brtag_last = Save => slot[c.addr[1]].flag = "ready"

Owned ==
  /\ slot = [k \in Slots |-> slot[k]]
  /\ wed \in Slots /\ wed_next \in Slots
  /\ state \in Streaming \cup {"RESTART_BUS", "RESTART_BUS_FLUSH", "SAVE_QUEUE_ITEM"}
       => slot[wed].flag = "ready"
  /\ state = "WAIT_FOR_QUEUE_ITEM" =>
       /\ ah # None => ah.addr[1] = wed
       /\ \A c \in bus : c.addr[1] = wed
       /\ got_qitem \/ (\E c \in bus : c.beats > 0)
            => (qitem.flag = "ready" => slot[wed].flag = "ready")

-----------------------------------------------------------------------------
(* The transitions of the state machine, whatever force_stop does to them. *)
LEMMA Moves ==
  ASSUME StateMachine
  PROVE  /\ state' = "IDLE" =>
              state = "IDLE" \/ (state = "WAIT_FOR_QUEUE_ITEM" /\ got_qitem)
         /\ state' = "LOAD_QUEUE_ITEM" =>
              state \in {"IDLE", "LOAD_QUEUE_ITEM"} \/ (state = "NEXT_ITEM" /\ flushed /\ ah = None)
         /\ state' = "WAIT_FOR_QUEUE_ITEM" =>
              state = "LOAD_QUEUE_ITEM" \/ (state = "WAIT_FOR_QUEUE_ITEM" /\ ~got_qitem)
         /\ state' \in Streaming =>
              state \in Streaming \/ (state = "WAIT_FOR_QUEUE_ITEM" /\ got_qitem /\ qitem.flag = "ready")
         /\ state' = "RESTART_BUS" => state = "RESTART_BUS" \/ (state = "FLUSH" /\ flushed)
         /\ state' = "RESTART_BUS_FLUSH" =>
              \/ state = "RESTART_BUS"
              \/ state = "RESTART_BUS_FLUSH" /\ ~(flushed /\ ah = None)
         /\ state' = "SAVE_QUEUE_ITEM" =>
              \/ state = "SAVE_QUEUE_ITEM"
              \/ state = "FLUSH" /\ flushed /\ error_mask = {}
              \/ state = "RESTART_BUS_FLUSH" /\ flushed /\ ah = None
         /\ state' = "NEXT_ITEM" => state \in {"SAVE_QUEUE_ITEM", "NEXT_ITEM"}
         /\ state' = "FLUSH" => ah' = None
BY DEF StateMachine, Idle, LoadQueueItem, WaitForQueueItem, Run, ReadSrc, WriteDst, WriteWait,
       Flush, RestartBus, RestartBusFlush, SaveQueueItem, NextItem, WaitForDone, Done,
       Await, Submit, Goto, Streaming

(* The commands the state machine issues, and where each leaves it.        *)
LEMMA Commands ==
  ASSUME StateMachine, ah' # None
  PROVE  \/ /\ state = "LOAD_QUEUE_ITEM" /\ state' \in {"WAIT_FOR_QUEUE_ITEM", "WAIT_FOR_DONE"}
            /\ ah' = [com |-> "READ_CL_M", tag |-> Load, addr |-> <<wed, 0>>]
         \/ /\ state = "READ_SRC" /\ state' \in {"RUN", "WAIT_FOR_DONE"}
            /\ ah'.com = "READ_CL_NA" /\ ah'.tag.kind = "rdata"
         \/ /\ state = "WRITE_DST" /\ state' \in {"WRITE_WAIT", "WAIT_FOR_DONE"}
            /\ ah'.com = "WRITE_NA" /\ ah'.tag.kind = "wdata"
         \/ /\ state = "RESTART_BUS" /\ state' \in {"RESTART_BUS_FLUSH", "WAIT_FOR_DONE"}
            /\ ah' = [com |-> "RESTART", tag |-> Restart, addr |-> <<0, 0>>]
         \/ /\ state = "SAVE_QUEUE_ITEM" /\ state' \in {"NEXT_ITEM", "WAIT_FOR_DONE"}
            /\ ah' = [com |-> "WRITE_MI", tag |-> Save, addr |-> <<wed, 0>>]
BY DEF StateMachine, Idle, LoadQueueItem, WaitForQueueItem, Run, ReadSrc, WriteDst, WriteWait,
       Flush, RestartBus, RestartBusFlush, SaveQueueItem, NextItem, WaitForDone, Done,
       Await, Submit, Goto, Tag

(* The command the bus takes at an edge.                                   *)
Fresh == [com |-> ah.com, tag |-> ah.tag, addr |-> ah.addr, beats |-> 0, buf |-> <<>>]

(* Every command on the bus after an edge was there before it, unanswered, *)
(* or is the one that was on the command port.                             *)
LEMMA BusContents ==
  ASSUME NEW rsp \in Responses \cup {None}, NEW bw, NEW br, Bus(rsp, bw, br)
  PROVE  /\ rsp # None => \E b \in bus : rsp.tag = b.tag
         /\ \A c \in bus' :
              \/ \E b \in bus : c = Served(b, bw, br) /\ (rsp = None \/ rsp.tag # b.tag)
              \/ ah # None /\ c = Fresh
         /\ bus = {} /\ ah = None => bus' = {}
         /\ bus = {} /\ ah # None => bus' = {Fresh}
         /\ \A b : bus = {b} /\ ah = None =>
              bus' = IF rsp # None /\ rsp.tag = b.tag THEN {} ELSE {Served(b, bw, br)}
<1>1. rsp # None => \E b \in bus : rsp.tag = b.tag
  BY DEF Responses, Answers
<1>2. bus' = {Served(c, bw, br) : c \in bus \ {c \in bus : rsp # None /\ rsp.tag = c.tag}} \cup Taken
  BY DEF Bus
<1>3. Taken = IF ah = None THEN {} ELSE {Fresh}
  BY DEF Taken, Fresh
<1> HIDE DEF Fresh
<1>4. \A c \in bus' :
        \/ \E b \in bus : c = Served(b, bw, br) /\ (rsp = None \/ rsp.tag # b.tag)
        \/ ah # None /\ c = Fresh
  BY <1>2, <1>3
<1>5. bus = {} /\ ah = None => bus' = {}
  BY <1>2, <1>3
<1>6. bus = {} /\ ah # None => bus' = {Fresh}
  BY <1>2, <1>3
<1>7. ASSUME NEW b, bus = {b}, ah = None
      PROVE  bus' = IF rsp # None /\ rsp.tag = b.tag THEN {} ELSE {Served(b, bw, br)}
  BY <1>2, <1>3, <1>7
<1> QED BY <1>1, <1>4, <1>5, <1>6, <1>7

(* A command keeps its name while the bus works on it.                     *)
LEMMA ServedNames ==
  ASSUME NEW c, NEW bw, NEW br
  PROVE  LET s == Served(c, bw, br)
         IN  /\ s.com = c.com /\ s.tag = c.tag /\ s.addr = c.addr
             /\ s.beats = IF (bw # None /\ bw.tag = c.tag) \/ (br # None /\ br.tag = c.tag)
                          THEN c.beats + 1 ELSE c.beats
BY DEF Served

LEMMA InFlightHolds == Spec => []InFlight
<1>1. Init => InFlight
  BY DEF Init, RtlInit, InFlight, QuietBus, Still, Streaming
<1>2. Room /\ InFlight /\ [Next]_vars => InFlight'
  <2> SUFFICES ASSUME Room, InFlight, [Next]_vars PROVE InFlight'
    OBVIOUS
  <2>1. CASE UNCHANGED <<regs, bus>>
    BY <2>1 DEF InFlight, QuietBus, Still, Only, regs
  <2>2. CASE Clock
    <3>1. PICK rsp, bw, br, out, trigger, stop :
            rsp \in Responses \cup {None} /\ Edge(rsp, bw, br, out, trigger, stop)
      BY <2>2 DEF Clock, Cycle, BusEvents
    <3>2. StateMachine /\ Bus(rsp, bw, br)
      BY <3>1 DEF Edge
    <3>3. /\ flushed' = (credits = Croom /\ ah = None)
          /\ got_qitem' = (rsp # None /\ rsp.tag.kind = "qitem")
      BY <3>1 DEF Edge, RoomCheck, QitemRead
    <3> DEFINE s(c) == Served(c, bw, br)
    <3>4. /\ rsp # None => \E b \in bus : rsp.tag = b.tag
          /\ \A c \in bus' : (\E b \in bus : c = s(b)) \/ (ah # None /\ c = Fresh)
          /\ bus = {} /\ ah = None => bus' = {}
          /\ bus = {} /\ ah # None => bus' = {Fresh}
          /\ \A b : bus = {b} /\ ah = None =>
               bus' = IF rsp # None /\ rsp.tag = b.tag THEN {} ELSE {s(b)}
      BY <3>1, <3>2, BusContents
    <3>5. \A c : s(c).com = c.com /\ s(c).tag = c.tag
      BY ServedNames
    <3>6. Fresh.com = ah.com /\ Fresh.tag = ah.tag
      BY DEF Fresh
    <3> HIDE DEF s
    <3>7. ah' # None => state \in Submitting /\ state' \notin Submitting /\ ah = None
      BY <3>2, CommandsAreSpaced DEF Room
    <3>8. flushed' => bus' = {}
      <4> SUFFICES ASSUME flushed' PROVE bus' = {}
        OBVIOUS
      <4>1. credits = Croom /\ ah = None
        BY <3>3
      <4>2. Cardinality(bus) \in Nat /\ Cardinality(bus) <= 0
        BY <4>1, FS_CardinalityType, RtlAssumption DEF Room
      <4>3. bus = {}
        BY <4>2, FS_EmptySet DEF Room
      <4> QED BY <3>4, <4>1, <4>3
    <3>9. QuietBus'
      <4>1. ASSUME ah' # None, ah'.com \in Alone PROVE bus' = {}
        <5>1. state \in {"LOAD_QUEUE_ITEM", "RESTART_BUS", "SAVE_QUEUE_ITEM"}
          BY <3>2, <4>1, Commands DEF Alone
        <5> QED BY <3>4, <5>1 DEF InFlight, Still
      <4>2. ASSUME NEW c \in bus', c.com \in Alone PROVE bus' = {c} /\ ah' = None
        <5>1. CASE \E b \in bus : c = s(b)
          <6>1. PICK b \in bus : c = s(b)
            BY <5>1
          <6>2. bus = {b} /\ ah = None
            BY <3>5, <4>2, <6>1 DEF InFlight, QuietBus, Alone
          <6>3. bus' = {c}
            BY <3>4, <4>2, <6>1, <6>2
          <6>4. state \notin Submitting
            BY <3>5, <4>2, <6>1, <6>2 DEF InFlight, Still, Submitting, Streaming
          <6> QED BY <3>7, <6>3, <6>4
        <5>2. CASE ah # None /\ c = Fresh
          BY <3>4, <3>6, <3>7, <4>2, <5>2 DEF InFlight, QuietBus, Alone
        <5> QED BY <3>4, <5>1, <5>2
      <4> QED BY <4>1, <4>2 DEF QuietBus, Alone
    <3>10. state' \in {"IDLE", "LOAD_QUEUE_ITEM", "RESTART_BUS", "SAVE_QUEUE_ITEM"} => Still'
      <4> SUFFICES ASSUME state' \in {"IDLE", "LOAD_QUEUE_ITEM", "RESTART_BUS", "SAVE_QUEUE_ITEM"}
                   PROVE  Still'
        OBVIOUS
      <4>1. Still
        BY <3>2, Moves DEF InFlight, Still
      <4>2. ah' = None
        BY <3>2, <3>7, Commands DEF Submitting
      <4> QED BY <3>4, <4>1, <4>2 DEF Still
    <3>11. state' = "WAIT_FOR_QUEUE_ITEM" =>
             Only("READ_CL_M", Load)' /\ (got_qitem' => Still')
      <4> SUFFICES ASSUME state' = "WAIT_FOR_QUEUE_ITEM"
                   PROVE  Only("READ_CL_M", Load)' /\ (got_qitem' => Still')
        OBVIOUS
      <4>1. CASE state = "LOAD_QUEUE_ITEM"
        <5>1. ah' # None => ah'.com = "READ_CL_M" /\ ah'.tag = Load
          BY <3>2, <4>1, Commands
        <5> QED BY <3>3, <3>4, <4>1, <5>1 DEF InFlight, Still, Only
      <4>2. CASE state = "WAIT_FOR_QUEUE_ITEM"
        <5>1. ah' = None
          BY <3>7, <4>2 DEF Submitting
        <5>2. CASE bus = {} /\ ah = None
          BY <3>3, <3>4, <5>1, <5>2 DEF Only, Still
        <5>3. CASE bus = {} /\ ah # None
          BY <3>3, <3>4, <3>6, <4>2, <5>1, <5>3 DEF Only, Still, InFlight
        <5>4. CASE ah = None /\ \E c \in bus : bus = {c} /\ c.com = "READ_CL_M" /\ c.tag = Load
          <6>1. PICK c \in bus : bus = {c} /\ c.com = "READ_CL_M" /\ c.tag = Load
            BY <5>4
          <6>2. CASE rsp = None
            <7>1. bus' = {s(c)} /\ ~got_qitem'
              BY <3>3, <3>4, <5>4, <6>1, <6>2
            <7> QED BY <3>5, <5>1, <6>1, <7>1 DEF Only
          <6>3. CASE rsp # None
            <7>1. rsp.tag = c.tag
              BY <3>4, <6>1, <6>3
            <7> QED BY <3>4, <5>1, <5>4, <6>1, <6>3, <7>1 DEF Only, Still
          <6> QED BY <6>2, <6>3
        <5> QED BY <4>2, <5>2, <5>3, <5>4 DEF InFlight, Only
      <4> QED BY <3>2, <4>1, <4>2, Moves
    <3>12. ASSUME NEW com, NEW tag, ah' = None, Only(com, tag) PROVE Only(com, tag)'
      <4>1. CASE bus = {} /\ ah = None
        BY <3>4, <3>12, <4>1 DEF Only
      <4>2. CASE bus = {} /\ ah # None
        BY <3>4, <3>6, <3>12, <4>2 DEF Only
      <4>3. CASE ah = None /\ \E c \in bus : bus = {c} /\ c.com = com /\ c.tag = tag
        BY <3>4, <3>5, <3>12, <4>3 DEF Only
      <4> QED BY <3>12, <4>1, <4>2, <4>3 DEF Only
    <3>13. ASSUME NEW com, NEW tag, Still, ah' # None => ah'.com = com /\ ah'.tag = tag
           PROVE  Only(com, tag)'
      BY <3>4, <3>13 DEF Still, Only
    <3>14. state' = "RESTART_BUS_FLUSH" => Only("RESTART", Restart)'
      <4> SUFFICES ASSUME state' = "RESTART_BUS_FLUSH" PROVE Only("RESTART", Restart)'
        OBVIOUS
      <4>1. CASE state = "RESTART_BUS"
        <5>1. ah' # None => ah'.com = "RESTART" /\ ah'.tag = Restart
          BY <3>2, <4>1, Commands
        <5> QED BY <3>13, <4>1, <5>1 DEF InFlight
      <4>2. CASE state = "RESTART_BUS_FLUSH"
        BY <3>7, <3>12, <4>2 DEF InFlight, Submitting
      <4> QED BY <3>2, <4>1, <4>2, Moves
    <3>15. state' = "NEXT_ITEM" => Only("WRITE_MI", Save)'
      <4> SUFFICES ASSUME state' = "NEXT_ITEM" PROVE Only("WRITE_MI", Save)'
        OBVIOUS
      <4>1. CASE state = "SAVE_QUEUE_ITEM"
        <5>1. ah' # None => ah'.com = "WRITE_MI" /\ ah'.tag = Save
          BY <3>2, <4>1, Commands
        <5> QED BY <3>13, <4>1, <5>1 DEF InFlight
      <4>2. CASE state = "NEXT_ITEM"
        BY <3>7, <3>12, <4>2 DEF InFlight, Submitting
      <4> QED BY <3>2, <4>1, <4>2, Moves
    <3>16. state' \in Streaming => /\ ah' # None => ah'.com \notin Alone
                                   /\ \A c \in bus' : c.com \notin Alone
      <4> SUFFICES ASSUME state' \in Streaming
                   PROVE  /\ ah' # None => ah'.com \notin Alone
                          /\ \A c \in bus' : c.com \notin Alone
        OBVIOUS
      <4>1. ah' # None => ah'.com \notin Alone
        BY <3>2, Commands DEF Alone, Streaming
      <4>2. CASE state \in Streaming
        BY <3>4, <3>5, <3>6, <4>1, <4>2 DEF InFlight
      <4>3. CASE state = "WAIT_FOR_QUEUE_ITEM" /\ got_qitem
        BY <3>4, <4>1, <4>3 DEF InFlight, Still
      <4> QED BY <3>2, <4>2, <4>3, Moves
    <3>17. state' = "FLUSH" => ah' = None
      BY <3>2, Moves
    <3> QED BY <3>8, <3>9, <3>10, <3>11, <3>14, <3>15, <3>16, <3>17 DEF InFlight
  <2> QED BY <2>1, <2>2, SoftwareStep DEF Next, vars, env
<1> QED BY <1>1, <1>2, RoomHolds, PTL DEF Spec

(* An element is loaded or written back, and the bus restarted, only when  *)
(* nothing else is in flight.                                              *)
THEOREM BusIsQuiet == Spec => []QuietBus
BY InFlightHolds, PTL DEF InFlight

-----------------------------------------------------------------------------
(* Who owns the element.                                                   *)
LEMMA NamesHold == Spec => []Names
<1>1. Init => Names
  BY DEF Init, RtlInit, Names
<1>2. Names /\ [Next]_vars => Names'
  <2> SUFFICES ASSUME Names, [Next]_vars PROVE Names'
    OBVIOUS
  <2>1. CASE UNCHANGED <<regs, bus>>
    BY <2>1 DEF Names, regs
  <2>2. CASE Clock
    <3>1. PICK rsp, bw, br, out, trigger, stop :
            rsp \in Responses \cup {None} /\ Edge(rsp, bw, br, out, trigger, stop)
      BY <2>2 DEF Clock, Cycle, BusEvents
    <3>2. StateMachine /\ Bus(rsp, bw, br)
      BY <3>1 DEF Edge
    <3>3. ah' # None => Matches(ah'.com, ah'.tag)
      BY <3>2, Commands DEF Matches
    <3>4. ASSUME NEW c \in bus' PROVE Matches(c.com, c.tag) /\ c.beats \in Nat
      <4>1. CASE \E b \in bus : c = Served(b, bw, br)
        BY <4>1, ServedNames DEF Names
      <4>2. CASE ah # None /\ c = Fresh
        BY <4>2 DEF Names, Fresh
      <4> QED BY <3>1, <3>2, <4>1, <4>2, BusContents
    <3> QED BY <3>3, <3>4 DEF Names
  <2> QED BY <2>1, <2>2, SoftwareStep DEF Next, vars, env
<1> QED BY <1>1, <1>2, PTL DEF Spec

(* Where a state can lead, as far as faults are concerned.                 *)
LEMMA Onward ==
  ASSUME StateMachine
  PROVE  /\ state \in Streaming =>
              \/ state' \in Streaming \cup {"WAIT_FOR_DONE"}
              \/ state = "FLUSH" /\ flushed /\ error_mask = {} /\ state' = "SAVE_QUEUE_ITEM"
              \/ state = "FLUSH" /\ flushed /\ state' = "RESTART_BUS"
         /\ state = "RESTART_BUS" =>
              \/ state' \in {"RESTART_BUS", "WAIT_FOR_DONE"}
              \/ /\ state' = "RESTART_BUS_FLUSH"
                 /\ ah' = [com |-> "RESTART", tag |-> Restart, addr |-> <<0, 0>>]
         /\ state = "RESTART_BUS_FLUSH" =>
              \/ state' \in {"RESTART_BUS_FLUSH", "WAIT_FOR_DONE"}
              \/ flushed /\ ah = None /\ state' = "SAVE_QUEUE_ITEM"
         /\ state \in {"WAIT_FOR_DONE", "DONE"} => state' \in {"WAIT_FOR_DONE", "DONE"}
BY DEF StateMachine, Idle, LoadQueueItem, WaitForQueueItem, Run, ReadSrc, WriteDst, WriteWait,
       Flush, RestartBus, RestartBusFlush, SaveQueueItem, NextItem, WaitForDone, Done,
       Await, Submit, Goto, Streaming

(* What the answers of the bus say.                                        *)
LEMMA Answered ==
  ASSUME NEW rsp \in Responses
  PROVE  \E c \in bus :
           /\ rsp.tag = c.tag
           /\ failed => rsp.code = IF c.com = "RESTART" THEN "DONE" ELSE "FLUSHED"
           /\ ~failed => \/ Complete(c) /\ rsp.code = "DONE"
                         \/ c.com \in Failing /\ rsp.code = "FAULT"
BY DEF Responses, Answers

(* The state machine leaves the streaming of an element, and the restart   *)
(* of the bus, only when the bus serves again.                             *)
LEMMA FaultsHold ==
  ASSUME "READ_CL_M" \notin Failing
  PROVE  Spec => []Faults
<1>1. Init => Faults
  BY DEF Init, Faults
<1>2. InFlight /\ Names /\ Faults /\ [Next]_vars => Faults'
  <2> SUFFICES ASSUME InFlight, Names, Faults, [Next]_vars PROVE Faults'
    OBVIOUS
  <2>1. CASE UNCHANGED <<regs, bus, failed>>
    BY <2>1 DEF Faults, Still, regs
  <2>2. CASE Clock
    <3>1. PICK rsp, bw, br, out, trigger, stop :
            rsp \in Responses \cup {None} /\ Edge(rsp, bw, br, out, trigger, stop)
      BY <2>2 DEF Clock, Cycle, BusEvents
    <3>2. StateMachine /\ Bus(rsp, bw, br)
      BY <3>1 DEF Edge
    <3>3. failed' = IF rsp = None \/ rsp.code = "FLUSHED" THEN failed ELSE rsp.code = "FAULT"
      BY <3>2 DEF Bus
    <3>4. error_mask' = IF state = "LOAD_QUEUE_ITEM" THEN {}
                        ELSE error_mask \cup (IF rsp = None THEN {} ELSE {rsp.code} \ {"DONE"})
      BY <3>1 DEF Edge, ErrorCheck
    <3> SUFFICES ASSUME failed' PROVE Faults'
      BY DEF Faults
    <3>5. CASE ~failed
      <4>1. rsp # None /\ rsp.code = "FAULT"
        BY <3>3, <3>5
      <4>2. PICK c \in bus : c.com \in Failing
        BY <3>1, <3>5, <4>1, Answered
      <4>3. c.com \in {"READ_CL_NA", "WRITE_NA"}
        BY <4>2, RtlAssumption
      <4>4. ~flushed /\ state \in Streaming \cup {"WAIT_FOR_DONE", "DONE"}
        BY <3>2, <4>2, <4>3 DEF InFlight, Still, Only, StateMachine, Idle, LoadQueueItem, WaitForQueueItem,
           Run, ReadSrc, WriteDst, WriteWait, Flush, RestartBus, RestartBusFlush, SaveQueueItem,
           NextItem, WaitForDone, Done, Await, Submit, Streaming
      <4>5. state # "LOAD_QUEUE_ITEM" => error_mask' # {}
        BY <3>4, <4>1
      <4> QED BY <3>2, <4>4, <4>5, Onward DEF Faults, Streaming
    <3>6. CASE failed
      <4>1. CASE state \in Streaming /\ error_mask # {}
        BY <3>2, <3>4, <4>1, Onward DEF Faults, Streaming
      <4>2. CASE state = "RESTART_BUS"
        <5>1. CASE state' = "RESTART_BUS_FLUSH"
          <6>1. ah' = [com |-> "RESTART", tag |-> Restart, addr |-> <<0, 0>>]
            BY <3>2, <4>2, <5>1, Onward
          <6>2. ah' # None
            <7>1. Restart \in TagNames
              BY DEF TagNames, Restart, Tag
            <7>2. <<0, 0>> \in Nat \X Nat
              OBVIOUS
            <7>3. ASSUME NEW t \in TagNames, NEW a \in Nat \X Nat
                  PROVE  [com |-> "RESTART", tag |-> t, addr |-> a] # None
              BY NoneAssumption DEF ComNames
            <7> QED BY <6>1, <7>1, <7>2, <7>3
          <6> QED BY <5>1, <6>2 DEF Faults, Still
        <5> QED BY <3>2, <4>2, <5>1, Onward DEF Faults
      <4>3. CASE state \in {"WAIT_FOR_DONE", "DONE"}
        BY <3>2, <4>3, Onward DEF Faults
      <4>4. CASE state = "RESTART_BUS_FLUSH" /\ ~Still
        <5>1. CASE bus = {} /\ ah # None
          <6>1. bus' # {}
            BY <3>1, <3>2, <5>1, BusContents
          <6> QED BY <3>2, <4>4, <5>1, <6>1, Onward DEF Faults, Still
        <5>2. CASE bus # {}
          <6>1. PICK c \in bus : bus = {c} /\ ah = None /\ c.com = "RESTART"
            BY <4>4, <5>2 DEF InFlight, Only
          <6>2. rsp = None
            BY <3>1, <3>3, <3>6, <6>1, Answered
          <6>3. bus' # {}
            BY <3>1, <3>2, <6>1, <6>2, BusContents
          <6>4. ~flushed
            BY <5>2 DEF InFlight
          <6> QED BY <3>2, <4>4, <6>3, <6>4, Onward DEF Faults, Still
        <5> QED BY <4>4, <5>1, <5>2 DEF Still
      <4> QED BY <3>6, <4>1, <4>2, <4>3, <4>4 DEF Faults
    <3> QED BY <3>5, <3>6
  <2> QED BY <2>1, <2>2, SoftwareStep DEF Next, vars, env
<1> QED BY <1>1, <1>2, InFlightHolds, NamesHold, PTL DEF Spec

(* Memory changes only where the bytes of an element's write-back arrive.  *)
LEMMA SlotStep ==
  ASSUME NEW rsp \in Responses \cup {None}, NEW bw, NEW br, Bus(rsp, bw, br),
         slot = [k \in Slots |-> slot[k]], \A c \in bus : c.beats \in Nat
  PROVE  /\ slot' = [k \in Slots |-> slot'[k]]
         /\ brtag_last # Save \/ (\A c \in bus : c.tag # Save) => slot' = slot
         /\ \A k \in Slots : slot'[k] # slot[k] =>
              /\ brtag_last = Save
              /\ \E c \in bus : c.tag = Save /\ c.addr[1] = k
         /\ \A k \in Slots : slot'[k].job = slot[k].job /\ slot'[k].flag \in {slot[k].flag, "done"}
<1> DEFINE kept == {Served(c, bw, br) : c \in bus \ {c \in bus : rsp # None /\ rsp.tag = c.tag}}
           hit(k) == \E c \in kept : c.tag = Save /\ c.addr[1] = k /\ brtag_last = Save
<1>1. slot' = [k \in Slots |-> IF hit(k) THEN [flag |-> "done", job |-> slot[k].job, res |-> Report]
                               ELSE slot[k]]
  BY DEF Bus
<1>2. ASSUME NEW k, hit(k)
      PROVE  brtag_last = Save /\ \E c \in bus : c.tag = Save /\ c.addr[1] = k
  BY <1>2, ServedNames
<1> HIDE DEF hit, kept
<1>3. ASSUME NEW k \in Slots
      PROVE  slot'[k] = IF hit(k) THEN [flag |-> "done", job |-> slot[k].job, res |-> Report]
                        ELSE slot[k]
  BY <1>1
<1>4. slot' = [k \in Slots |-> slot'[k]]
  BY <1>1
<1>5. ASSUME \A k \in Slots : ~hit(k) PROVE slot' = slot
  BY <1>3, <1>4, <1>5
<1> QED BY <1>2, <1>3, <1>4, <1>5

(* A beat that the bus asks for belongs to an unfinished write, and that   *)
(* write is not answered in the same cycle unless it may fail.             *)
LEMMA SaveAsked ==
  ASSUME QuietBus, Names, "READ_CL_M" \notin Failing,
         NEW rsp \in Responses \cup {None}, NEW br \in BufferReads, br.tag = Save
  PROVE  \E c \in bus : /\ bus = {c} /\ ah = None /\ c.tag = Save /\ c.beats = 0
                        /\ rsp = None
<1>1. PICK c \in bus : Owed(c) /\ c.tag = Save
  BY DEF BufferReads
<1>2. c.com = "WRITE_MI"
  BY <1>1 DEF Names, Matches, Save, Load, Restart, Tag
<1>3. bus = {c} /\ ah = None
  BY <1>2 DEF QuietBus
<1>4. c.beats = 0 /\ ~failed
  BY <1>1, <1>2 DEF Owed, BeatsOf, Names
<1>5. rsp = None
  <2>1. ASSUME rsp \in Responses PROVE FALSE
    <3>1. Complete(c) \/ c.com \in Failing
      BY <1>3, <1>4, <2>1, Answered
    <3>2. ~Complete(c)
      BY <1>1 DEF Complete
    <3> QED BY <1>2, <3>1, <3>2, RtlAssumption
  <2> QED BY <2>1
<1> QED BY <1>1, <1>3, <1>4, <1>5

(* How the ring is walked.                                                 *)
LEMMA Walk ==
  ASSUME StateMachine
  PROVE  /\ wed' \in {wed, wed_next}
         /\ wed' = wed \/ (state = "SAVE_QUEUE_ITEM" /\ state' \in {"NEXT_ITEM", "WAIT_FOR_DONE"})
BY DEF StateMachine, Idle, LoadQueueItem, WaitForQueueItem, Run, ReadSrc, WriteDst, WriteWait,
       Flush, RestartBus, RestartBusFlush, SaveQueueItem, NextItem, WaitForDone, Done,
       Await, Submit, Goto

(* What the software does to the ring leaves READY elements alone.         *)
LEMMA SoftwareSlots ==
  ASSUME (\E j \in Jobs : Push(j)) \/ Pop \/ PopReturn \/ Stop,
         slot = [k \in Slots |-> slot[k]]
  PROVE  /\ slot' = [k \in Slots |-> slot'[k]]
         /\ \A k \in Slots : slot[k].flag = "ready" => slot'[k].flag = "ready"
         /\ \A k \in Slots : slot'[k] # slot[k] => slot'[k].flag # "done"
<1>1. ASSUME NEW j \in Jobs, Push(j)
      PROVE  \A k \in Slots : slot'[k] = slot[k] \/ (slot[k].flag = "empty" /\ slot'[k].flag = "ready")
  BY <1>1 DEF Push
<1>2. ASSUME Pop
      PROVE  \A k \in Slots : slot'[k] = slot[k] \/ (slot[k].flag = "done" /\ slot'[k].flag = "empty")
  BY <1>2 DEF Pop, EmptySlot
<1>3. CASE PopReturn \/ Stop
  BY <1>3 DEF PopReturn, Stop
<1>4. ASSUME NEW j \in Jobs, Push(j) PROVE slot' = [k \in Slots |-> slot'[k]]
  BY <1>4 DEF Push
<1>5. ASSUME Pop PROVE slot' = [k \in Slots |-> slot'[k]]
  BY <1>5 DEF Pop
<1> QED BY <1>1, <1>2, <1>3, <1>4, <1>5

(* The block owns the element it works on.                                 *)
Ownership == Saves /\ Owned

LEMMA OwnershipHolds ==
  ASSUME "READ_CL_M" \notin Failing
  PROVE  Spec => []Ownership
<1>1. Init => Ownership
  <2>1. None # Save
    BY NoneAssumption DEF TagNames, Save, Tag
  <2>2. 0 \in Slots
    BY RtlAssumption DEF Slots
  <2> QED BY <2>1, <2>2 DEF Init, RtlInit, Ownership, Saves, Owned, Streaming
<1>2. InFlight /\ Names /\ Faults /\ Ownership /\ [Next]_vars => Ownership'
  <2> SUFFICES ASSUME InFlight, Names, Faults, Ownership, [Next]_vars PROVE Ownership'
    OBVIOUS
  <2>1. CASE UNCHANGED vars
    BY <2>1 DEF Ownership, Saves, Owned, vars, regs, env
  <2>2. CASE (\E j \in Jobs : Push(j)) \/ Pop \/ PopReturn \/ Stop
    <3>1. /\ slot' = [k \in Slots |-> slot'[k]]
          /\ \A k \in Slots : slot[k].flag = "ready" => slot'[k].flag = "ready"
      BY <2>2, SoftwareSlots DEF Ownership, Owned
    <3>2. UNCHANGED <<state, ah, wed, wed_next, got_qitem, qitem, brtag_last, bus>>
      BY <2>2, SoftwareStep DEF regs
    <3> QED BY <3>1, <3>2 DEF Ownership, Saves, Owned
  <2>3. CASE Clock
    <3>1. PICK rsp, bw, br, out, trigger, stop :
            /\ rsp \in Responses \cup {None} /\ bw \in BufferWrites \cup {None}
            /\ br \in BufferReads \cup {None}
            /\ Edge(rsp, bw, br, out, trigger, stop)
      BY <2>3 DEF Clock, Cycle, BusEvents
    <3>2. StateMachine /\ Bus(rsp, bw, br)
      BY <3>1 DEF Edge
    <3>3. /\ brtag_last' = IF br = None THEN None ELSE br.tag
          /\ wed_next' = IF wed = QueueLen - 1 THEN 0 ELSE wed + 1
          /\ got_qitem' = (rsp # None /\ rsp.tag.kind = "qitem")
          /\ qitem' = IF bw # None /\ bw.tag.kind = "qitem" /\ bw.half = 0 THEN bw.data ELSE qitem
      BY <3>1 DEF Edge, Wdata, WedAddrGen, QitemRead
    <3>4. /\ slot' = [k \in Slots |-> slot'[k]]
          /\ brtag_last # Save \/ (\A c \in bus : c.tag # Save) => slot' = slot
      BY <3>1, <3>2, SlotStep DEF Ownership, Owned, Names
    <3>5. \A c \in bus : c.tag = Save => c.com = "WRITE_MI" /\ bus = {c} /\ ah = None
      BY DEF InFlight, QuietBus, Names, Matches, Save, Load, Restart, Tag
    <3>6. brtag_last' = Save =>
            \E c \in bus : bus = {c} /\ ah = None /\ c.tag = Save /\ c.beats = 0 /\ rsp = None
                           /\ br # None /\ br.tag = Save
      <4> SUFFICES ASSUME brtag_last' = Save
                   PROVE  \E c \in bus : bus = {c} /\ ah = None /\ c.tag = Save /\ c.beats = 0
                                         /\ rsp = None /\ br # None /\ br.tag = Save
        OBVIOUS
      <4>1. None # Save
        BY NoneAssumption DEF TagNames, Save, Tag
      <4>2. br \in BufferReads /\ br # None /\ br.tag = Save
        BY <3>1, <3>3, <4>1
      <4> QED BY <3>1, <4>2, SaveAsked DEF InFlight
    <3>7. Saves'
      <4>1. brtag_last' = Save => \E c \in bus' : c.tag = Save /\ c.beats > 0
        <5> SUFFICES ASSUME brtag_last' = Save PROVE \E c \in bus' : c.tag = Save /\ c.beats > 0
          OBVIOUS
        <5>1. PICK c \in bus : bus = {c} /\ ah = None /\ c.tag = Save /\ c.beats = 0 /\ rsp = None
                               /\ br # None /\ br.tag = Save
          BY <3>6
        <5>2. bus' = {Served(c, bw, br)}
          BY <3>1, <3>2, <5>1, BusContents
        <5>3. Served(c, bw, br).tag = Save /\ Served(c, bw, br).beats = 1
          BY <5>1, ServedNames
        <5> QED BY <5>2, <5>3
      <4>2. ah' # None /\ ah'.tag = Save =>
              slot'[ah'.addr[1]].flag = "ready" /\ ah'.addr[1] \in Slots
        <5> SUFFICES ASSUME ah' # None, ah'.tag = Save
                     PROVE  slot'[ah'.addr[1]].flag = "ready" /\ ah'.addr[1] \in Slots
          OBVIOUS
        <5>1. state = "SAVE_QUEUE_ITEM" /\ ah'.addr[1] = wed
          BY <3>2, Commands DEF Save, Load, Restart, Tag
        <5>2. bus = {}
          BY <5>1 DEF InFlight, Still
        <5> QED BY <3>4, <5>1, <5>2 DEF Ownership, Owned
      <4>3. ASSUME NEW c \in bus', c.tag = Save
            PROVE  /\ c.addr[1] \in Slots
                   /\ c.beats = 0 \/ brtag_last' = Save => slot'[c.addr[1]].flag = "ready"
        <5>1. CASE \E b \in bus : c = Served(b, bw, br)
          <6>1. PICK b \in bus : c = Served(b, bw, br)
            BY <5>1
          <6>2. /\ b.tag = Save /\ c.addr = b.addr /\ bus = {b}
                /\ c.beats = 0 => b.beats = 0
            BY <3>5, <4>3, <6>1, ServedNames DEF Names
          <6>3. c.beats = 0 \/ brtag_last' = Save => b.beats = 0
            BY <3>6, <6>2
          <6>4. b.beats = 0 => brtag_last # Save
            BY <6>2 DEF Ownership, Saves
          <6> QED BY <3>4, <6>2, <6>3, <6>4 DEF Ownership, Saves
        <5>2. CASE ah # None /\ c = Fresh
          <6>1. ah.tag = Save /\ c.addr = ah.addr
            BY <4>3, <5>2 DEF Fresh
          <6>2. \A b \in bus : b.tag # Save
            BY <3>5, <5>2
          <6> QED BY <3>4, <5>2, <6>1, <6>2 DEF Ownership, Saves
        <5> QED BY <3>1, <3>2, <5>1, <5>2, BusContents
      <4> QED BY <4>1, <4>2, <4>3 DEF Saves
    <3>8. wed' \in Slots /\ wed_next' \in Slots
      BY <3>2, <3>3, Walk, RtlAssumption DEF Ownership, Owned, Slots
    <3> DEFINE Working == Streaming \cup {"RESTART_BUS", "RESTART_BUS_FLUSH", "SAVE_QUEUE_ITEM"}
    <3>9. state' \in Working => slot'[wed'].flag = "ready"
      <4> SUFFICES ASSUME state' \in Working PROVE slot'[wed'].flag = "ready"
        OBVIOUS
      <4>1. state \in Working \/ (state = "WAIT_FOR_QUEUE_ITEM" /\ got_qitem /\ qitem.flag = "ready")
        BY <3>2, Moves DEF Streaming
      <4>2. wed' = wed
        BY <3>2, Walk DEF Streaming
      <4>3. \A c \in bus : c.tag # Save
        BY <3>5, <4>1 DEF InFlight, Still, Only, Alone, Restart, Save, Tag
      <4>4. slot[wed].flag = "ready"
        BY <4>1 DEF Ownership, Owned
      <4> QED BY <3>4, <4>2, <4>3, <4>4
    <3>10. state' = "WAIT_FOR_QUEUE_ITEM" =>
             /\ ah' # None => ah'.addr[1] = wed'
             /\ \A c \in bus' : c.addr[1] = wed'
             /\ got_qitem' \/ (\E c \in bus' : c.beats > 0)
                  => (qitem'.flag = "ready" => slot'[wed'].flag = "ready")
      <4> SUFFICES ASSUME state' = "WAIT_FOR_QUEUE_ITEM"
                   PROVE  /\ ah' # None => ah'.addr[1] = wed'
                          /\ \A c \in bus' : c.addr[1] = wed'
                          /\ got_qitem' \/ (\E c \in bus' : c.beats > 0)
                               => (qitem'.flag = "ready" => slot'[wed'].flag = "ready")
        OBVIOUS
      <4>1. wed' = wed
        BY <3>2, Walk
      <4>2. CASE state = "LOAD_QUEUE_ITEM"
        <5>1. bus = {} /\ ah = None
          BY <4>2 DEF InFlight, Still
        <5>2. bus' = {} /\ ~got_qitem'
          BY <3>1, <3>2, <3>3, <5>1, BusContents
        <5>3. ah' # None => ah'.addr[1] = wed
          BY <3>2, <4>2, Commands
        <5> QED BY <4>1, <5>2, <5>3
      <4>3. CASE state = "WAIT_FOR_QUEUE_ITEM" /\ ~got_qitem
        <5>1. ah' = None
          BY <3>2, <4>3, CommandsAreSpaced DEF Submitting
        <5>2. slot' = slot
          BY <3>4, <4>3 DEF InFlight, Only, Load, Save, Tag
        <5>3. CASE bus = {}
          <6>1. ~got_qitem' /\ (bus' = {} \/ (ah # None /\ bus' = {Fresh}))
            BY <3>1, <3>2, <3>3, <5>3, BusContents
          <6>2. ah # None => Fresh.beats = 0 /\ Fresh.addr[1] = wed
            BY <4>3 DEF Fresh, Ownership, Owned
          <6> QED BY <4>1, <5>1, <6>1, <6>2
        <5>4. CASE bus # {}
          <6>1. PICK c \in bus : bus = {c} /\ ah = None /\ c.com = "READ_CL_M" /\ c.tag = Load
            BY <4>3, <5>4 DEF InFlight, Only
          <6>2. c.addr[1] = wed /\ c.beats \in Nat
            BY <4>3 DEF Ownership, Owned, Names
          <6>3. bus' = {} \/ bus' = {Served(c, bw, br)}
            BY <3>1, <3>2, <6>1, BusContents
          <6>4. \A d \in bus' : d.addr[1] = wed
            BY <6>2, <6>3, ServedNames
          <6>5. bw # None => /\ bw.tag.kind = "qitem" /\ bw.half = c.beats
                             /\ bw.data.flag = slot[wed].flag
            BY <3>1, <6>1, <6>2 DEF BufferWrites, Reads, Element, Load, Tag
          <6>6. br = None
            BY <3>1, <6>1 DEF BufferReads, Reads
          <6>7. got_qitem' \/ (\E d \in bus' : d.beats > 0) => c.beats > 0 \/ bw # None
            <7>1. got_qitem' => c.beats > 0
              <8> SUFFICES ASSUME got_qitem' PROVE c.beats > 0
                OBVIOUS
              <8>1. rsp \in Responses /\ ~failed
                BY <3>1, <3>3, <4>3 DEF Faults, Streaming
              <8>2. Complete(c)
                BY <6>1, <8>1, Answered
              <8> QED BY <6>1, <6>2, <8>1, <8>2 DEF Complete, Owed, BeatsOf
            <7>2. Served(c, bw, br).beats > 0 => c.beats > 0 \/ bw # None
              BY <6>2, <6>6, ServedNames
            <7> QED BY <6>3, <7>1, <7>2
          <6>8. CASE bw # None /\ c.beats = 0
            BY <3>3, <4>1, <5>1, <5>2, <6>4, <6>5, <6>8
          <6>9. CASE c.beats > 0
            <7>1. qitem.flag = "ready" => slot[wed].flag = "ready"
              BY <4>3, <6>9 DEF Ownership, Owned
            <7>2. qitem' = qitem
              BY <3>3, <6>5, <6>9
            <7> QED BY <4>1, <5>1, <5>2, <6>4, <7>1, <7>2
          <6>10. CASE bw = None /\ c.beats = 0
            BY <4>1, <5>1, <6>4, <6>7, <6>10
          <6> QED BY <6>2, <6>8, <6>9, <6>10
        <5> QED BY <5>3, <5>4
      <4> QED BY <3>2, <4>2, <4>3, Moves
    <3>11. Owned'
      BY <3>4, <3>8, <3>9, <3>10 DEF Owned
    <3> QED BY <3>7, <3>11 DEF Ownership
  <2> QED BY <2>1, <2>2, <2>3 DEF Next
<1> QED BY <1>1, <1>2, InFlightHolds, NamesHold, FaultsHold, PTL DEF Spec

(* As long as loads of elements do not fail, the block writes back only    *)
(* elements that software made READY and that are not DONE.                *)
THEOREM WritesOnlyWhatItOwns ==
  ASSUME "READ_CL_M" \notin Failing
  PROVE  Spec => OwnsWhatItWrites
<1>1. Names /\ Ownership /\ [Next]_vars
        => [\A k \in Slots : slot'[k] # slot[k] /\ slot'[k].flag = "done"
                                => slot[k].flag = "ready"]_vars
  <2> SUFFICES ASSUME Names, Ownership, Next, NEW k \in Slots, slot'[k] # slot[k], slot'[k].flag = "done"
               PROVE  slot[k].flag = "ready"
    OBVIOUS
  <2>1. CASE (\E j \in Jobs : Push(j)) \/ Pop \/ PopReturn \/ Stop
    BY <2>1, SoftwareSlots DEF Ownership, Owned
  <2>2. CASE Clock
    <3>1. PICK rsp, bw, br, out, trigger, stop :
            rsp \in Responses \cup {None} /\ Edge(rsp, bw, br, out, trigger, stop)
      BY <2>2 DEF Clock, Cycle, BusEvents
    <3>2. Bus(rsp, bw, br)
      BY <3>1 DEF Edge
    <3>3. brtag_last = Save /\ \E c \in bus : c.tag = Save /\ c.addr[1] = k
      BY <3>1, <3>2, SlotStep DEF Ownership, Owned, Names
    <3> QED BY <3>3 DEF Ownership, Saves
  <2> QED BY <2>1, <2>2 DEF Next
<1> QED BY <1>1, NamesHold, OwnershipHolds, PTL DEF Spec, OwnsWhatItWrites

-----------------------------------------------------------------------------
(* A trigger is on its way, or has been seen.                              *)
Pending == trigger_seen \/ reg_wq_trigger \/ triggers > 0

(* TriggerComes is not inductive: a trigger may arrive, and be used up,    *)
(* while the element is asked for.  From the first beat of the load on,    *)
(* the block has seen a READY element or has a trigger yet to come.        *)
Heeded ==
  /\ triggers \in Nat
  /\ TriggerComes
  /\ state = "WAIT_FOR_QUEUE_ITEM" /\ (got_qitem \/ \E c \in bus : c.beats > 0)
       => (slot[wed].flag = "ready" => Pending \/ qitem.flag = "ready")

(* A pending trigger is lost only in the state that asks for an element.   *)
LEMMA TriggerKept ==
  ASSUME NEW rsp, NEW bw, NEW br, NEW out, NEW w \in MmioWrites, triggers \in Nat,
         Edge(rsp, bw, br, out, w = "trigger", w = "stop")
  PROVE  /\ triggers' \in Nat
         /\ state # "LOAD_QUEUE_ITEM" /\ Pending => Pending'
<1>1. /\ trigger_seen' = (state # "LOAD_QUEUE_ITEM" /\ (reg_wq_trigger \/ trigger_seen))
      /\ reg_wq_trigger' = (w = "trigger")
      /\ triggers' = IF w = "trigger" THEN triggers - 1 ELSE triggers
  BY DEF Edge, Trig, RegWrite
<1>2. w = "trigger" => triggers > 0
  BY DEF MmioWrites
<1>3. triggers' \in Nat
  BY <1>1, <1>2
<1>4. ASSUME state # "LOAD_QUEUE_ITEM", Pending PROVE Pending'
  <2>1. CASE w = "trigger"
    BY <1>1, <2>1 DEF Pending
  <2>2. CASE w # "trigger"
    <3>1. triggers' = triggers
      BY <1>1, <2>2
    <3>2. CASE reg_wq_trigger \/ trigger_seen
      BY <1>1, <1>4, <3>2 DEF Pending
    <3>3. CASE triggers > 0
      BY <3>1, <3>3 DEF Pending
    <3> QED BY <1>4, <3>2, <3>3 DEF Pending
  <2> QED BY <2>1, <2>2
<1> QED BY <1>3, <1>4

(* Going idle again, the block has found the element not READY.            *)
LEMMA GoesIdle ==
  ASSUME StateMachine, state' = "IDLE"
  PROVE  \/ state = "IDLE"
         \/ state = "WAIT_FOR_QUEUE_ITEM" /\ got_qitem /\ qitem.flag # "ready"
BY DEF StateMachine, Idle, LoadQueueItem, WaitForQueueItem, Run, ReadSrc, WriteDst, WriteWait,
       Flush, RestartBus, RestartBusFlush, SaveQueueItem, NextItem, WaitForDone, Done,
       Await, Submit, Goto

LEMMA HeededHolds ==
  ASSUME "READ_CL_M" \notin Failing
  PROVE  Spec => []Heeded
<1>1. Init => Heeded
  <2>1. 0 \in Slots
    BY RtlAssumption DEF Slots
  <2> QED BY <2>1 DEF Init, RtlInit, Heeded, TriggerComes, EmptySlot
<1>2. InFlight /\ Names /\ Faults /\ Ownership /\ Heeded /\ [Next]_vars => Heeded'
  <2> SUFFICES ASSUME InFlight, Names, Faults, Ownership, Heeded, [Next]_vars PROVE Heeded'
    OBVIOUS
  <2>1. CASE UNCHANGED vars
    BY <2>1 DEF Heeded, TriggerComes, Pending, vars, regs, env
  <2>2. CASE \E j \in Jobs : Push(j)
    <3>1. triggers' \in Nat /\ triggers' > 0
      BY <2>2 DEF Push, Heeded
    <3> QED BY <3>1 DEF Heeded, TriggerComes, Pending
  <2>3. CASE Pop \/ PopReturn \/ Stop
    <3>1. UNCHANGED <<state, wed, got_qitem, qitem, trigger_seen, reg_wq_trigger, bus, triggers>>
      BY <2>3 DEF Pop, PopReturn, Stop, regs
    <3>2. slot'[wed].flag = "ready" => slot[wed].flag = "ready"
      <4>1. wed \in Slots /\ slot = [k \in Slots |-> slot[k]]
        BY DEF Ownership, Owned
      <4>2. CASE Pop
        BY <4>1, <4>2 DEF Pop, EmptySlot
      <4>3. CASE PopReturn \/ Stop
        BY <4>3 DEF PopReturn, Stop
      <4> QED BY <2>3, <4>2, <4>3
    <3> QED BY <3>1, <3>2 DEF Heeded, TriggerComes, Pending
  <2>4. CASE Clock
    <3>1. PICK rsp, bw, br, out, w :
            /\ rsp \in Responses \cup {None} /\ bw \in BufferWrites \cup {None}
            /\ br \in BufferReads \cup {None} /\ w \in MmioWrites
            /\ Edge(rsp, bw, br, out, w = "trigger", w = "stop")
      BY <2>4 DEF Clock, Cycle, BusEvents
    <3>2. StateMachine /\ Bus(rsp, bw, br)
      BY <3>1 DEF Edge
    <3>3. /\ got_qitem' = (rsp # None /\ rsp.tag.kind = "qitem")
          /\ qitem' = IF bw # None /\ bw.tag.kind = "qitem" /\ bw.half = 0 THEN bw.data ELSE qitem
      BY <3>1 DEF Edge, QitemRead
    <3>4. triggers' \in Nat /\ (state # "LOAD_QUEUE_ITEM" /\ Pending => Pending')
      BY <3>1, TriggerKept DEF Heeded
    <3>5. state \in {"IDLE", "WAIT_FOR_QUEUE_ITEM"} => slot' = slot
      <4>1. state \in {"IDLE", "WAIT_FOR_QUEUE_ITEM"} => \A c \in bus : c.tag # Save
        BY DEF InFlight, Still, Only, Load, Save, Tag
      <4> QED BY <3>1, <3>2, <4>1, SlotStep DEF Ownership, Owned, Names
    <3>6. TriggerComes'
      <4> SUFFICES ASSUME state' = "IDLE", slot'[wed'].flag = "ready" PROVE Pending'
        BY DEF TriggerComes, Pending
      <4>1. \/ state = "IDLE"
            \/ state = "WAIT_FOR_QUEUE_ITEM" /\ got_qitem /\ qitem.flag # "ready"
        BY <3>2, GoesIdle
      <4>2. wed' = wed /\ slot' = slot
        BY <3>2, <3>5, <4>1, Walk
      <4>3. Pending
        BY <4>1, <4>2 DEF Heeded, TriggerComes, Pending
      <4> QED BY <3>4, <4>1, <4>3
    <3>7. ASSUME state' = "WAIT_FOR_QUEUE_ITEM", got_qitem' \/ \E c \in bus' : c.beats > 0,
                 slot'[wed'].flag = "ready"
          PROVE  Pending' \/ qitem'.flag = "ready"
      <4>1. CASE state = "LOAD_QUEUE_ITEM"
        <5>1. bus = {} /\ ah = None
          BY <4>1 DEF InFlight, Still
        <5>2. bus' = {} /\ ~got_qitem'
          BY <3>1, <3>2, <3>3, <5>1, BusContents
        <5> QED BY <3>7, <5>2
      <4>2. CASE state = "WAIT_FOR_QUEUE_ITEM" /\ ~got_qitem
        <5>1. wed' = wed /\ slot' = slot
          BY <3>2, <3>5, <4>2, Walk
        <5>2. bus # {}
          <6>1. ASSUME bus = {} PROVE FALSE
            <7>1. ~got_qitem' /\ (bus' = {} \/ bus' = {Fresh})
              BY <3>1, <3>2, <3>3, <6>1, BusContents
            <7>2. Fresh.beats = 0
              BY DEF Fresh
            <7> QED BY <3>7, <7>1, <7>2
          <6> QED BY <6>1
        <5>3. PICK c \in bus : bus = {c} /\ ah = None /\ c.com = "READ_CL_M" /\ c.tag = Load
          BY <4>2, <5>2 DEF InFlight, Only
        <5>4. c.addr[1] = wed /\ c.beats \in Nat
          BY <4>2, <5>3 DEF Ownership, Owned, Names
        <5>5. bw # None => /\ bw.tag.kind = "qitem" /\ bw.half = c.beats
                           /\ bw.data.flag = slot[wed].flag
          BY <3>1, <5>3, <5>4 DEF BufferWrites, Reads, Element, Load, Tag
        <5>6. CASE c.beats > 0
          <6>1. qitem' = qitem
            BY <3>3, <5>5, <5>6
          <6>2. Pending \/ qitem.flag = "ready"
            BY <3>7, <4>2, <5>1, <5>3, <5>6 DEF Heeded
          <6> QED BY <3>4, <4>2, <6>1, <6>2
        <5>7. CASE c.beats = 0
          <6>1. ~got_qitem'
            <7> SUFFICES ASSUME got_qitem' PROVE FALSE
              OBVIOUS
            <7>1. rsp \in Responses /\ ~failed
              BY <3>1, <3>3, <4>2 DEF Faults, Streaming
            <7>2. Complete(c)
              BY <5>3, <7>1, Answered
            <7> QED BY <5>3, <5>7, <7>1, <7>2 DEF Complete, Owed, BeatsOf
          <6>2. br = None
            BY <3>1, <5>3 DEF BufferReads, Reads
          <6>3. bus' = {} \/ bus' = {Served(c, bw, br)}
            BY <3>1, <3>2, <5>3, BusContents
          <6>4. bw # None
            BY <3>7, <5>7, <6>1, <6>2, <6>3, ServedNames
          <6>5. qitem' = bw.data
            BY <3>3, <5>5, <5>7, <6>4
          <6> QED BY <3>7, <5>1, <5>5, <6>4, <6>5
        <5> QED BY <5>4, <5>6, <5>7
      <4> QED BY <3>2, <3>7, <4>1, <4>2, Moves
    <3> QED BY <3>4, <3>6, <3>7 DEF Heeded
  <2> QED BY <2>1, <2>2, <2>3, <2>4 DEF Next
<1> QED BY <1>1, <1>2, InFlightHolds, NamesHold, FaultsHold, OwnershipHolds, PTL DEF Spec

(* No wake-up is lost: a block that idles before a READY element has a     *)
(* trigger coming, however the trigger writes fall between the software's  *)
(* publishing of an element and the block's reading of it.                 *)
THEOREM NoTriggerIsLost ==
  ASSUME "READ_CL_M" \notin Failing
  PROVE  Spec => []TriggerComes
BY HeededHolds, PTL DEF Heeded

-----------------------------------------------------------------------------
(* The rings of the data queues.                                           *)
Lines   == 2^(AddrBits - 1)
LineNos == 0 .. Lines - 1
BeatNos == 0 .. 2 * Lines - 1

(* The ring of lines: the next one, and the lines from r up to before w.   *)
After(i)  == IF i + 1 = Lines THEN 0 ELSE i + 1
Arc(r, w) == IF r <= w THEN r .. w - 1 ELSE (r .. Lines - 1) \cup (0 .. w - 1)

Data(kind) == {c \in bus : c.tag.kind = kind}

(* While an element is streamed, or a forced stop waits for its lines.     *)
Live == \/ state \in Streaming
        \/ HasTag(ah, "rdata") \/ HasTag(ah, "wdata")
        \/ Data("rdata") \cup Data("wdata") # {}

Writes == qitem.job.odirty \/ qitem.job.always

-----------------------------------------------------------------------------
(* The registers of the queues.                                            *)
Registers ==
  /\ rq.vaddr \in BeatNos /\ rq.vaddr % 2 = 0 /\ rq.raddr \in BeatNos
  /\ wq.waddr \in BeatNos
  /\ wafifo.raddr \in LineNos /\ wafifo.waddr \in LineNos
  /\ rq.written \subseteq LineNos /\ wq.written \subseteq LineNos
  /\ wafifo.empty \in BOOLEAN /\ clear \in BOOLEAN
  /\ rq.mem = [a \in BeatNos |-> rq.mem[a]]
  /\ wq.mem = [a \in BeatNos |-> wq.mem[a]]
  /\ wafifo.mem = [a \in LineNos |-> wafifo.mem[a]]
  /\ dst_count \in Nat /\ qitem.buf \in Slots

(* Where elements are read from, and what a command's tag looks like.      *)
Commanded ==
  /\ wed \in Slots /\ wed_next \in Slots
  /\ ah # None => /\ ah.tag = Tag(ah.tag.kind, ah.tag.idx)
                  /\ ah.com = "READ_CL_M" => ah.addr[1] \in Slots
  /\ \A c \in bus : /\ c.tag = Tag(c.tag.kind, c.tag.idx)
                    /\ c.com = "READ_CL_M" => c.addr[1] \in Slots

(* When the queues are reset, and when an element is read.                 *)
Resets ==
  /\ Live => ~clear /\ ~got_qitem
  /\ state = "WAIT_FOR_QUEUE_ITEM" => clear
  /\ wafifo_read => state \notin {"RUN", "WRITE_DST"}

(* No two commands that the bus works on have the same tag.                *)
Once == \A c, d \in bus : c.tag = d.tag => c = d

(* The read queue: the beats that can be reserved, and the lines that are. *)
Gap(r, v) == (IF r > v THEN 0 ELSE 2 * Lines) + r - v
Free == Gap(rq.raddr, rq.vaddr)
Held == Arc(rq.raddr \div 2, rq.vaddr \div 2)

ReadRing ==
  /\ Free >= 2
  /\ HasTag(ah, "rdata") => Free >= 4 /\ ah.tag.idx = rq.vaddr \div 2
  /\ state = "READ_SRC" => Free >= 4
  /\ ~rq.full => Free >= 4 /\ (HasTag(ah, "rdata") => Free >= 6)
  /\ rq.written \subseteq Held
  /\ rq.raddr % 2 = 1 => rq.raddr \div 2 \in rq.written
  /\ \A c \in Data("rdata") : c.tag.idx \in Held \ rq.written

(* The write queue: the lines that wait for their command in the memory of *)
(* the address fifo, and the one that it offers.                           *)
Span(r, w) == IF r = w THEN LineNos ELSE Arc(r, w)
Queued  == IF wafifo.empty THEN {} ELSE Span(wafifo.raddr, wafifo.waddr)
Offered == IF wafifo.valid /\ ~wafifo_read THEN {wafifo.data.idx} ELSE {}
Asked   == {c.tag.idx : c \in Data("wdata")}
Asking  == IF HasTag(ah, "wdata") THEN {ah.tag.idx} ELSE {}
Under   == wq.waddr \div 2   \* the line that is being filled

WriteRing ==
  /\ wafifo.waddr = Under
  /\ wafifo.empty => wafifo.raddr = wafifo.waddr
  /\ \A a \in Queued : wafifo.mem[a].idx = a
  /\ Queued \cup Offered \cup Asking \cup Asked \subseteq wq.written \ {wq.comp}
  /\ (Offered \cup Asking \cup Asked) \cap Queued = {}
  /\ (Asking \cup Asked) \cap Offered = {}
  /\ Asked \cap Asking = {}
  /\ wq.comp \in wq.written \cup {None}
  /\ Under \notin wq.written
  /\ ~wq.full /\ wq.waddr % 2 = 1 => After(Under) \notin wq.written
  /\ state = "WRITE_DST" => wafifo.valid
  /\ Writes => dst_count % 2 = wq.waddr % 2

Rings == Registers /\ Commanded /\ Resets /\ Once /\ (Live => ReadRing /\ WriteRing)

-----------------------------------------------------------------------------
(* Arithmetic of the rings.                                                *)
LEMMA Sizes ==
  /\ Lines \in Nat \ {0, 1}
  /\ RQ!Beats = 2 * Lines /\ WQ!Beats = 2 * Lines /\ WA!Words = Lines
BY PowerAssumption DEF Lines, RQ!Beats, WQ!Beats, WA!Words

(* A counter that wraps.                                                   *)
LEMMA OneMore ==
  ASSUME NEW n \in Nat \ {0}, NEW x \in 0 .. n - 1
  PROVE  (x + 1) % n = IF x + 1 = n THEN 0 ELSE x + 1
<1>1. ASSUME x + 1 = n PROVE (x + 1) % n = 0
  BY <1>1
<1>2. ASSUME x + 1 # n PROVE (x + 1) % n = x + 1
  BY <1>2
<1> QED BY <1>1, <1>2

(* A counter that wraps, by twos.                                          *)
LEMMA TwoMore ==
  ASSUME NEW n \in Nat \ {0, 1}, NEW x \in 0 .. 2 * n - 1, x % 2 = 0
  PROVE  (x + 2) % (2 * n) = IF x + 2 = 2 * n THEN 0 ELSE x + 2
<1> DEFINE m == 2 * n
<1>0. m \in Nat \ {0} /\ x \in 0 .. m - 1 /\ x + 2 <= m
  OBVIOUS
<1> HIDE DEF m
<1>1. ASSUME x + 2 = m PROVE (x + 2) % m = 0
  BY <1>0, <1>1
<1>2. ASSUME x + 2 # m PROVE (x + 2) % m = x + 2
  BY <1>0, <1>2
<1> QED BY <1>1, <1>2 DEF m

(* The distance between two addresses.                                     *)
LEMMA Distance ==
  ASSUME NEW n \in Nat \ {0}, NEW x \in 0 .. n - 1, NEW y \in 0 .. n - 1
  PROVE  (x - y - 1) % n = (IF x > y THEN 0 ELSE n) + x - y - 1
<1>1. ASSUME x > y PROVE (x - y - 1) % n = x - y - 1
  BY <1>1
<1>2. ASSUME ~(x > y) PROVE (x - y - 1) % n = n + (x - y - 1)
  BY <1>2
<1> QED BY <1>1, <1>2

(* The next beat is the other half of the line or begins the next line.    *)
LEMMA NextBeatLine ==
  ASSUME NEW b \in BeatNos
  PROVE  LET n == (b + 1) % (2 * Lines)
         IN  /\ n \in BeatNos /\ b \div 2 \in LineNos
             /\ b % 2 = 1 => n \div 2 = After(b \div 2) /\ n % 2 = 0
             /\ b % 2 = 0 => n = b + 1 /\ n \div 2 = b \div 2 /\ n % 2 = 1
             /\ n = IF b + 1 = 2 * Lines THEN 0 ELSE b + 1
<1>1. (b + 1) % (2 * Lines) = IF b + 1 = 2 * Lines THEN 0 ELSE b + 1
  <2>1. 2 * Lines \in Nat \ {0} /\ b \in 0 .. 2 * Lines - 1
    BY Sizes DEF BeatNos
  <2> QED BY <2>1, OneMore
<1>2. /\ b \in Nat /\ b < 2 * Lines /\ Lines \in Nat \ {0, 1}
  BY Sizes DEF BeatNos
<1> DEFINE n == (b + 1) % (2 * Lines)
<1>3. n = IF b + 1 = 2 * Lines THEN 0 ELSE b + 1
  BY <1>1
<1> HIDE DEF n
<1>4. n \in BeatNos /\ b \div 2 \in LineNos
  BY <1>2, <1>3 DEF BeatNos, LineNos
<1>5. b % 2 = 1 => n \div 2 = After(b \div 2) /\ n % 2 = 0
  BY <1>2, <1>3 DEF After
<1>6. b % 2 = 0 => n = b + 1 /\ n \div 2 = b \div 2 /\ n % 2 = 1
  BY <1>2, <1>3
<1> QED BY <1>3, <1>4, <1>5, <1>6 DEF n

(* Reserving a line moves on by two beats.                                 *)
LEMMA NextLine ==
  ASSUME NEW v \in BeatNos, v % 2 = 0
  PROVE  LET n == (v + 2) % (2 * Lines)
         IN  /\ n \in BeatNos /\ n % 2 = 0 /\ n \div 2 = After(v \div 2)
             /\ n = IF v + 2 = 2 * Lines THEN 0 ELSE v + 2
<1>1. /\ v \in Nat /\ v < 2 * Lines /\ Lines \in Nat \ {0, 1} /\ v \in 0 .. 2 * Lines - 1
  BY Sizes DEF BeatNos
<1> DEFINE n == (v + 2) % (2 * Lines)
<1>2. n = IF v + 2 = 2 * Lines THEN 0 ELSE v + 2
  BY <1>1, TwoMore
<1> HIDE DEF n
<1>3. n \in BeatNos /\ n % 2 = 0 /\ n \div 2 = After(v \div 2)
  BY <1>1, <1>2 DEF BeatNos, After
<1> QED BY <1>2, <1>3 DEF n

(* The next line, in the width of the fifo's address.                      *)
LEMMA NextSlot ==
  ASSUME NEW i \in LineNos
  PROVE  (i + 1) % Lines = After(i) /\ After(i) \in LineNos /\ After(i) # i
<1>1. Lines \in Nat \ {0, 1} /\ i \in 0 .. Lines - 1
  BY Sizes DEF LineNos
<1>2. (i + 1) % Lines = IF i + 1 = Lines THEN 0 ELSE i + 1
  BY <1>1, OneMore
<1> QED BY <1>1, <1>2 DEF After, LineNos

(* Lines join a run of the ring behind it and leave it in front.           *)
LEMMA ArcMoves ==
  ASSUME NEW r \in LineNos, NEW w \in LineNos
  PROVE  /\ Arc(r, w) \subseteq LineNos /\ w \notin Arc(r, w) /\ Arc(r, r) = {}
         /\ r # w => r \in Arc(r, w) /\ Arc(After(r), w) = Arc(r, w) \ {r}
         /\ After(w) # r => Arc(r, After(w)) = Arc(r, w) \cup {w}
         /\ After(w) = r => Arc(r, w) \cup {w} = LineNos
         /\ Arc(After(r), r) = LineNos \ {r}
<1>1. Lines \in Nat \ {0, 1} /\ r \in 0 .. Lines - 1 /\ w \in 0 .. Lines - 1
  BY Sizes DEF LineNos
<1>2. Arc(r, w) \subseteq LineNos /\ w \notin Arc(r, w) /\ Arc(r, r) = {}
  BY <1>1 DEF Arc, LineNos
<1>3. r # w => r \in Arc(r, w) /\ Arc(After(r), w) = Arc(r, w) \ {r}
  BY <1>1 DEF Arc, After
<1>4. After(w) # r => Arc(r, After(w)) = Arc(r, w) \cup {w}
  BY <1>1 DEF Arc, After
<1>5. After(w) = r => Arc(r, w) \cup {w} = LineNos
  BY <1>1 DEF Arc, After, LineNos
<1>6. Arc(After(r), r) = LineNos \ {r}
  BY <1>1 DEF Arc, After, LineNos
<1> QED BY <1>2, <1>3, <1>4, <1>5, <1>6

(* A beat that leaves makes room for one more, a line that is reserved     *)
(* takes two; with four beats to spare the ring does not close.            *)
LEMMA GapMoves ==
  ASSUME NEW r \in BeatNos, NEW v \in BeatNos, v % 2 = 0
  PROVE  /\ Gap(r, v) \in 1 .. 2 * Lines
         /\ r # v => Gap((r + 1) % (2 * Lines), v) = Gap(r, v) + 1
         /\ Gap(r, v) >= 4 => /\ Gap(r, (v + 2) % (2 * Lines)) = Gap(r, v) - 2
                              /\ After(v \div 2) # r \div 2
<1>1. Lines \in Nat \ {0, 1} /\ r \in 0 .. 2 * Lines - 1 /\ v \in 0 .. 2 * Lines - 1
  BY Sizes DEF BeatNos
<1>2. (r + 1) % (2 * Lines) = IF r + 1 = 2 * Lines THEN 0 ELSE r + 1
  BY NextBeatLine
<1>3. (v + 2) % (2 * Lines) = IF v + 2 = 2 * Lines THEN 0 ELSE v + 2
  BY NextLine
<1>4. Gap(r, v) \in 1 .. 2 * Lines
  BY <1>1 DEF Gap
<1>5. r # v => Gap((r + 1) % (2 * Lines), v) = Gap(r, v) + 1
  BY <1>1, <1>2 DEF Gap
<1>6. Gap(r, v) >= 4 => Gap(r, (v + 2) % (2 * Lines)) = Gap(r, v) - 2
  BY <1>1, <1>3 DEF Gap
<1>7. Gap(r, v) >= 4 => After(v \div 2) # r \div 2
  BY <1>1 DEF Gap, After
<1> QED BY <1>4, <1>5, <1>6, <1>7

-----------------------------------------------------------------------------
(* The memory of the address fifo, which is not empty, loses its oldest    *)
(* line, or gains one.                                                     *)
LEMMA SpanMoves ==
  ASSUME NEW r \in LineNos, NEW w \in LineNos
  PROVE  /\ r \in Span(r, w) /\ Arc(After(r), w) = Span(r, w) \ {r}
         /\ Span(r, After(w)) = Arc(r, w) \cup {w}
<1>1. r \in Span(r, w) /\ Arc(After(r), w) = Span(r, w) \ {r}
  BY ArcMoves DEF Span
<1>2. Span(r, After(w)) = Arc(r, w) \cup {w}
  BY ArcMoves DEF Span
<1> QED BY <1>1, <1>2

-----------------------------------------------------------------------------
(* The rings hold through every step.                                      *)

(* What the transitions say of the queues.                                 *)
LEMMA Turns ==
  ASSUME StateMachine
  PROVE  /\ clear' => state = "LOAD_QUEUE_ITEM" \/ (state = "WAIT_FOR_QUEUE_ITEM" /\ ~got_qitem)
         /\ state' = "WAIT_FOR_QUEUE_ITEM" => clear'
         /\ wafifo_read' => state' \notin {"RUN", "WRITE_DST"}
         /\ state' = "READ_SRC" => (state = "RUN" /\ ~rq.full) \/ state = "READ_SRC"
         /\ state' = "WRITE_DST" => (state = "RUN" /\ wafifo.valid) \/ state = "WRITE_DST"
         /\ state = "WAIT_FOR_QUEUE_ITEM" /\ state' \in Streaming => state' = "RUN"
<1>1. clear' => state = "LOAD_QUEUE_ITEM" \/ (state = "WAIT_FOR_QUEUE_ITEM" /\ ~got_qitem)
  BY DEF StateMachine, Idle, LoadQueueItem, WaitForQueueItem, Run, ReadSrc, WriteDst, WriteWait,
       Flush, RestartBus, RestartBusFlush, SaveQueueItem, NextItem, WaitForDone, Done,
       Await, Submit, Goto
<1>2. state' = "WAIT_FOR_QUEUE_ITEM" => clear'
  BY DEF StateMachine, Idle, LoadQueueItem, WaitForQueueItem, Run, ReadSrc, WriteDst, WriteWait,
       Flush, RestartBus, RestartBusFlush, SaveQueueItem, NextItem, WaitForDone, Done,
       Await, Submit, Goto
<1>3. wafifo_read' => state' \notin {"RUN", "WRITE_DST"}
  BY DEF StateMachine, Idle, LoadQueueItem, WaitForQueueItem, Run, ReadSrc, WriteDst, WriteWait,
       Flush, RestartBus, RestartBusFlush, SaveQueueItem, NextItem, WaitForDone, Done,
       Await, Submit, Goto
<1>4. state' = "READ_SRC" => (state = "RUN" /\ ~rq.full) \/ state = "READ_SRC"
  BY DEF StateMachine, Idle, LoadQueueItem, WaitForQueueItem, Run, ReadSrc, WriteDst, WriteWait,
       Flush, RestartBus, RestartBusFlush, SaveQueueItem, NextItem, WaitForDone, Done,
       Await, Submit, Goto, ReadTurn, WriteTurn
<1>5. state' = "WRITE_DST" => (state = "RUN" /\ wafifo.valid) \/ state = "WRITE_DST"
  BY DEF StateMachine, Idle, LoadQueueItem, WaitForQueueItem, Run, ReadSrc, WriteDst, WriteWait,
       Flush, RestartBus, RestartBusFlush, SaveQueueItem, NextItem, WaitForDone, Done,
       Await, Submit, Goto, ReadTurn, WriteTurn
<1>6. state = "WAIT_FOR_QUEUE_ITEM" /\ state' \in Streaming => state' = "RUN"
  BY DEF StateMachine, Idle, LoadQueueItem, WaitForQueueItem, Run, ReadSrc, WriteDst, WriteWait,
       Flush, RestartBus, RestartBusFlush, SaveQueueItem, NextItem, WaitForDone, Done,
       Await, Submit, Goto, Streaming
<1> QED BY <1>1, <1>2, <1>3, <1>4, <1>5, <1>6

(* The reset of the queues is a Boolean.                                   *)
LEMMA ClearType == ASSUME StateMachine PROVE clear' \in BOOLEAN
<1>1. (~got_qitem) \in BOOLEAN
  OBVIOUS
<1>2. CASE WaitForQueueItem
  BY <1>2, Zenon DEF WaitForQueueItem
<1> QED BY <1>2 DEF StateMachine, Idle, LoadQueueItem, WaitForQueueItem, Run, ReadSrc, WriteDst, WriteWait,
       Flush, RestartBus, RestartBusFlush, SaveQueueItem, NextItem, WaitForDone, Done,
       Await, Submit

(* The tags and addresses of the commands.                                 *)
LEMMA Issues ==
  ASSUME StateMachine, ah' # None
  PROVE  /\ ah'.tag = Tag(ah'.tag.kind, ah'.tag.idx)
         /\ ah'.com = "READ_CL_M" => ah'.addr[1] = wed
         /\ ah'.tag.kind = "rdata" => state = "READ_SRC" /\ ah'.tag.idx = rq.vaddr \div 2
         /\ ah'.tag.kind = "wdata" => state = "WRITE_DST" /\ ah'.tag.idx = wafifo.data.idx
                                        /\ ah'.addr = wafifo.data.addr /\ wafifo_read'
BY DEF StateMachine, Idle, LoadQueueItem, WaitForQueueItem, Run, ReadSrc, WriteDst, WriteWait,
       Flush, RestartBus, RestartBusFlush, SaveQueueItem, NextItem, WaitForDone, Done,
       Await, Submit, Goto, Tag, Load, Save, Restart

(* While lines are on their way no element is, and the element stays.      *)
LEMMA LiveIsQuiet ==
  ASSUME InFlight, Names, Live
  PROVE  /\ \A c \in bus : c.tag.kind # "qitem"
         /\ state \notin {"LOAD_QUEUE_ITEM", "WAIT_FOR_QUEUE_ITEM"}
<1>1. \A c \in bus : c.tag.kind = "qitem" => c.com \in {"READ_CL_M", "WRITE_MI"}
  BY DEF Names, Matches, Restart, Tag
<1>2. \A c \in bus : c.tag.kind \in {"rdata", "wdata"} => c.com \notin Alone
  BY DEF Names, Matches, Load, Save, Restart, Tag, Alone
<1>3. ASSUME NEW c \in bus, c.tag.kind = "qitem" PROVE FALSE
  <2>1. bus = {c} /\ ah = None /\ c.com \in Alone
    BY <1>1, <1>3 DEF InFlight, QuietBus, Alone
  <2>2. state \notin Streaming
    BY <2>1 DEF InFlight
  <2> QED BY <1>3, <2>1, <2>2 DEF Live, HasTag, Data
<1>4. state # "LOAD_QUEUE_ITEM"
  BY DEF InFlight, Still, Live, HasTag, Data, Streaming
<1>5. state # "WAIT_FOR_QUEUE_ITEM"
  BY DEF InFlight, Only, Live, HasTag, Data, Streaming, Load, Tag
<1> QED BY <1>3, <1>4, <1>5

(* Streaming begins with a quiet bus, one element read and the queues      *)
(* reset.                                                                  *)
LEMMA LiveStep ==
  ASSUME InFlight, NEW rsp \in Responses \cup {None}, NEW bw, NEW br, StateMachine, Bus(rsp, bw, br),
         Live', ~Live
  PROVE  /\ state = "WAIT_FOR_QUEUE_ITEM" /\ got_qitem /\ qitem.flag = "ready"
         /\ state' = "RUN" /\ ah' = None /\ bus = {} /\ bus' = {}
<1>1. \A c \in bus' : (\E b \in bus : c = Served(b, bw, br)) \/ (ah # None /\ c = Fresh)
  BY BusContents
<1>2. Data("rdata")' \cup Data("wdata")' = {}
  <2> SUFFICES ASSUME NEW c \in bus', c.tag.kind \in {"rdata", "wdata"} PROVE FALSE
    BY DEF Data
  <2>1. CASE \E b \in bus : c = Served(b, bw, br)
    BY <2>1, ServedNames DEF Live, Data
  <2>2. CASE ah # None /\ c = Fresh
    BY <2>2 DEF Live, HasTag, Fresh
  <2> QED BY <1>1, <2>1, <2>2
<1>3. ~HasTag(ah, "rdata")' /\ ~HasTag(ah, "wdata")'
  BY Issues DEF HasTag, Live, Streaming
<1>4. state' \in Streaming
  BY <1>2, <1>3 DEF Live
<1>5. state = "WAIT_FOR_QUEUE_ITEM" /\ got_qitem /\ qitem.flag = "ready"
  BY <1>4, Moves DEF Live
<1>6. state' = "RUN" /\ ah' = None
  BY <1>4, <1>5, Turns, CommandsAreSpaced DEF Submitting
<1>7. bus = {} /\ bus' = {}
  BY <1>5, BusContents DEF InFlight, Still
<1> QED BY <1>5, <1>6, <1>7

(* What a command of a kind on the bus becomes.                            *)
LEMMA DataStep ==
  ASSUME Once, Commanded, NEW kind,
         NEW rsp \in Responses \cup {None}, NEW bw, NEW br, Bus(rsp, bw, br)
  PROVE  /\ LineAddr(rsp, kind) # None =>
              \E c \in Data(kind) : c.tag.idx = LineAddr(rsp, kind)
         /\ \A c \in Data(kind)' :
              \/ /\ HasTag(ah, kind) /\ c = Fresh /\ c.tag = ah.tag
              \/ \E b \in Data(kind) : /\ c = Served(b, bw, br) /\ c.tag = b.tag
                                       /\ b.tag.idx # LineAddr(rsp, kind)
                                          \/ LineAddr(rsp, kind) = None
<1>1. rsp # None => \E b \in bus : rsp.tag = b.tag
  BY BusContents
<1>2. LineAddr(rsp, kind) # None => \E c \in Data(kind) : c.tag.idx = LineAddr(rsp, kind)
  BY <1>1 DEF LineAddr, HasTag, Data
<1>3. ASSUME NEW c \in Data(kind)'
      PROVE  \/ /\ HasTag(ah, kind) /\ c = Fresh /\ c.tag = ah.tag
             \/ \E b \in Data(kind) : /\ c = Served(b, bw, br) /\ c.tag = b.tag
                                      /\ b.tag.idx # LineAddr(rsp, kind)
                                         \/ LineAddr(rsp, kind) = None
  <2>1. c \in bus' /\ c.tag.kind = kind
    BY DEF Data
  <2>2. CASE \E b \in bus : c = Served(b, bw, br) /\ (rsp = None \/ rsp.tag # b.tag)
    <3>1. PICK b \in bus : c = Served(b, bw, br) /\ (rsp = None \/ rsp.tag # b.tag)
      BY <2>2
    <3>2. c.tag = b.tag /\ b \in Data(kind)
      BY <2>1, <3>1, ServedNames DEF Data
    <3>3. ASSUME LineAddr(rsp, kind) # None, b.tag.idx = LineAddr(rsp, kind) PROVE FALSE
      <4>1. rsp # None /\ rsp.tag.kind = kind /\ rsp.tag.idx = b.tag.idx
        BY <3>3 DEF LineAddr, HasTag
      <4>2. PICK d \in bus : rsp.tag = d.tag
        BY <1>1, <4>1
      <4>3. /\ d.tag = Tag(d.tag.kind, d.tag.idx) /\ b.tag = Tag(b.tag.kind, b.tag.idx)
        BY <3>1 DEF Commanded
      <4>4. d.tag = b.tag
        BY <2>1, <3>2, <4>1, <4>2, <4>3
      <4> QED BY <3>1, <4>1, <4>2, <4>4
    <3> QED BY <3>1, <3>2, <3>3
  <2>3. CASE ah # None /\ c = Fresh
    BY <2>1, <2>3 DEF Fresh, HasTag
  <2> QED BY <2>1, <2>2, <2>3, BusContents
<1> QED BY <1>2, <1>3

(* What an edge makes of the read ring of a block that streams: a beat     *)
(* leaves, and with its second half a line; a line is reserved.            *)
Leaves   == RQ!RqPop(rq, Ready)
Ends     == Leaves /\ rq.raddr % 2 = 1
Reserves == HasTag(ah, "rdata")

LEMMA ReadMoves ==
  ASSUME Registers, Commanded, Once, ReadRing, ~clear,
         NEW rsp \in Responses \cup {None}, NEW bw, NEW br,
         Bus(rsp, bw, br), ReadQueue(rsp, bw, Ready)
  PROVE  LET r == rq.raddr \div 2
             w == rq.vaddr \div 2
             done == LineAddr(rsp, "rdata")
         IN  /\ rq'.raddr = IF Leaves THEN (rq.raddr + 1) % (2 * Lines) ELSE rq.raddr
             /\ rq'.written = (rq.written \cup ({done} \ {None})) \ (IF Ends THEN {r} ELSE {})
             /\ rq'.full = RQ!RqFull(rq)
             /\ rq'.valid <=> Leaves \/ (rq.valid /\ ~Ready)
             /\ rq'.data = IF Leaves THEN rq.mem[rq.raddr] ELSE rq.data
             /\ r \in LineNos /\ w \in LineNos /\ w \notin Held
             /\ Leaves => r \in rq.written
             /\ Reserves => Free >= 4 /\ ah.tag.idx = w
             /\ Free \in 1 .. 2 * Lines
             /\ Free' = Free + (IF Leaves THEN 1 ELSE 0) - (IF Reserves THEN 2 ELSE 0)
             /\ rq'.vaddr \div 2 = IF Reserves THEN After(w) ELSE w
             /\ rq'.raddr \div 2 = IF Ends THEN After(r) ELSE r
             /\ rq'.raddr % 2 = 1 => (Leaves /\ rq.raddr % 2 = 0) \/ (~Leaves /\ rq.raddr % 2 = 1)
             /\ done # None => done \in Held \ rq.written
             /\ Held' = (Held \ (IF Ends THEN {r} ELSE {})) \cup (IF Reserves THEN {w} ELSE {})
<1> DEFINE w == rq.vaddr \div 2
           r == rq.raddr \div 2
           done == LineAddr(rsp, "rdata")
           v2 == rq'.vaddr
           r2 == rq'.raddr
<1>1. /\ v2 = IF Reserves THEN (rq.vaddr + 2) % (2 * Lines) ELSE rq.vaddr
      /\ r2 = IF Leaves THEN (rq.raddr + 1) % (2 * Lines) ELSE rq.raddr
      /\ rq'.written = (rq.written \cup ({done} \ {None})) \ (IF Ends THEN {r} ELSE {})
      /\ rq'.full = RQ!RqFull(rq)
      /\ rq'.valid <=> Leaves \/ (rq.valid /\ ~Ready)
      /\ rq'.data = IF Leaves THEN rq.mem[rq.raddr] ELSE rq.data
  <2> DEFINE write == IF HasTag(bw, "rdata") THEN [addr |-> BeatAddr(bw), data |-> bw.data] ELSE None
             e == RQ!RqEdge(rq, clear, Reserves, write, done, Ready)
  <2>1. rq' = e
    BY DEF ReadQueue, Reserves
  <2> HIDE DEF write, done
  <2>2. /\ e.vaddr = IF Reserves THEN (rq.vaddr + 2) % (2 * Lines) ELSE rq.vaddr
        /\ e.raddr = IF Leaves THEN (rq.raddr + 1) % (2 * Lines) ELSE rq.raddr
        /\ e.written = (rq.written \cup ({done} \ {None})) \ (IF Ends THEN {r} ELSE {})
        /\ e.full = RQ!RqFull(rq)
        /\ e.data = IF Leaves THEN rq.mem[rq.raddr] ELSE rq.data
    BY Sizes DEF RQ!RqEdge, Leaves, Ends
  <2>3. e.valid <=> Leaves \/ (rq.valid /\ ~Ready)
    BY DEF RQ!RqEdge, Leaves
  <2> HIDE DEF e
  <2> QED BY <2>1, <2>2, <2>3
<1>2. Leaves => r \in rq.written
  BY DEF Leaves, RQ!RqPop
<1> HIDE DEF done, v2, r2
<1>3. /\ rq.vaddr \in BeatNos /\ rq.vaddr % 2 = 0 /\ rq.raddr \in BeatNos
      /\ w \in LineNos /\ r \in LineNos
  BY NextBeatLine DEF Registers
<1>4. rq.written \subseteq Arc(r, w)
  BY DEF ReadRing, Held
<1>5. Leaves => rq.raddr # rq.vaddr /\ r # w
  BY <1>2, <1>3, <1>4, ArcMoves
<1>6. /\ r2 \in BeatNos /\ v2 \in BeatNos /\ v2 % 2 = 0
      /\ v2 \div 2 = IF Reserves THEN After(w) ELSE w
      /\ r2 \div 2 = IF Ends THEN After(r) ELSE r
      /\ r2 % 2 = 1 => (Leaves /\ rq.raddr % 2 = 0) \/ (~Leaves /\ rq.raddr % 2 = 1)
  <2>1. CASE Leaves
    <3>1. rq.raddr % 2 \in {0, 1}
      BY <1>3 DEF BeatNos
    <3>2. r2 = (rq.raddr + 1) % (2 * Lines)
      BY <1>1, <2>1
    <3> DEFINE n == (rq.raddr + 1) % (2 * Lines)
    <3>3. /\ n \in BeatNos
          /\ rq.raddr % 2 = 1 => n \div 2 = After(r) /\ n % 2 = 0
          /\ rq.raddr % 2 = 0 => n \div 2 = r
      BY <1>3, NextBeatLine
    <3> HIDE DEF n
    <3>4. /\ r2 \in BeatNos
          /\ r2 \div 2 = IF Ends THEN After(r) ELSE r
          /\ r2 % 2 = 1 => rq.raddr % 2 = 0
      BY <2>1, <3>1, <3>2, <3>3 DEF n, Ends
    <3> QED BY <1>1, <1>3, <2>1, <3>4, NextLine
  <2>2. CASE ~Leaves
    <3>1. r2 = rq.raddr /\ ~Ends
      BY <1>1, <2>2 DEF Ends
    <3> QED BY <1>1, <1>3, <2>2, <3>1, NextLine
  <2> QED BY <2>1, <2>2
<1>7. Reserves => Free >= 4 /\ ah.tag.idx = w
  BY DEF Reserves, ReadRing
<1>8. /\ Free \in 1 .. 2 * Lines
      /\ Gap(r2, rq.vaddr) = Free + (IF Leaves THEN 1 ELSE 0)
  BY <1>1, <1>3, <1>5, GapMoves DEF Free
<1>9. /\ Gap(r2, v2) = Free + (IF Leaves THEN 1 ELSE 0) - (IF Reserves THEN 2 ELSE 0)
      /\ Reserves => After(w) # r2 \div 2
  <2>1. CASE Reserves
    <3>1. Gap(r2, rq.vaddr) >= 4
      BY <1>7, <1>8, <2>1, Sizes
    <3>2. v2 = (rq.vaddr + 2) % (2 * Lines)
      BY <1>1, <2>1
    <3>3. Gap(r2, v2) = Gap(r2, rq.vaddr) - 2 /\ After(w) # r2 \div 2
      BY <1>3, <1>6, <3>1, <3>2, GapMoves
    <3> QED BY <1>8, <2>1, <3>3, Sizes
  <2>2. CASE ~Reserves
    BY <1>1, <1>8, <2>2, Sizes
  <2> QED BY <2>1, <2>2
<1>10. Free' = Gap(r2, v2)
  BY DEF Free, r2, v2
<1>11. done # None => done \in Held \ rq.written
  BY DataStep DEF ReadRing, done
<1>12. w \notin Held /\ Held' = (Held \ (IF Ends THEN {r} ELSE {})) \cup (IF Reserves THEN {w} ELSE {})
  <2>1. r2 \div 2 \in LineNos
    BY <1>3, <1>6, NextSlot
  <2>2. Arc(r2 \div 2, w) = Arc(r, w) \ (IF Ends THEN {r} ELSE {})
    <3>1. Ends => r # w
      BY <1>5 DEF Ends
    <3> QED BY <1>3, <1>6, <3>1, ArcMoves
  <2>3. Arc(r2 \div 2, v2 \div 2) = Arc(r2 \div 2, w) \cup (IF Reserves THEN {w} ELSE {})
    <3>1. CASE Reserves
      BY <1>3, <1>6, <1>9, <2>1, <3>1, ArcMoves
    <3>2. CASE ~Reserves
      BY <1>6, <3>2
    <3> QED BY <3>1, <3>2
  <2>4. Held' = Arc(r2 \div 2, v2 \div 2) /\ Held = Arc(r, w)
    BY DEF Held, r2, v2
  <2> QED BY <1>3, <2>2, <2>3, <2>4, ArcMoves
<1> QED BY <1>1, <1>2, <1>3, <1>6, <1>7, <1>8, <1>9, <1>10, <1>11, <1>12 DEF done, r2, v2

(* The read ring holds through an edge of a block that streams.            *)
LEMMA ReadRingStep ==
  ASSUME Room, Registers, Commanded, Once, ~clear, ReadRing,
         NEW rsp \in Responses \cup {None}, NEW bw, NEW br,
         StateMachine, Bus(rsp, bw, br), ReadQueue(rsp, bw, Ready)
  PROVE  ReadRing'
<1> DEFINE w == rq.vaddr \div 2
           r == rq.raddr \div 2
           done == LineAddr(rsp, "rdata")
<1>1. /\ rq'.written = (rq.written \cup ({done} \ {None})) \ (IF Ends THEN {r} ELSE {})
      /\ rq'.full = RQ!RqFull(rq)
      /\ w \notin Held
      /\ Leaves => r \in rq.written
      /\ Reserves => Free >= 4 /\ ah.tag.idx = w
      /\ Free \in 1 .. 2 * Lines
      /\ Free' = Free + (IF Leaves THEN 1 ELSE 0) - (IF Reserves THEN 2 ELSE 0)
      /\ rq'.vaddr \div 2 = IF Reserves THEN After(w) ELSE w
      /\ rq'.raddr \div 2 = IF Ends THEN After(r) ELSE r
      /\ rq'.raddr % 2 = 1 => (Leaves /\ rq.raddr % 2 = 0) \/ (~Leaves /\ rq.raddr % 2 = 1)
      /\ done # None => done \in Held \ rq.written
      /\ Held' = (Held \ (IF Ends THEN {r} ELSE {})) \cup (IF Reserves THEN {w} ELSE {})
  BY ReadMoves
<1> HIDE DEF done
<1>2. ~RQ!RqFull(rq) => Free >= 6
  <2> SUFFICES ASSUME ~RQ!RqFull(rq) PROVE Free >= 6
    OBVIOUS
  <2>1. ~((rq.raddr - rq.vaddr - 1) % (2 * Lines) <= ReadSlack)
    BY Sizes DEF RQ!RqFull
  <2>2. 2 * Lines \in Nat \ {0} /\ rq.raddr \in 0 .. 2 * Lines - 1 /\ rq.vaddr \in 0 .. 2 * Lines - 1
    BY Sizes DEF Registers, BeatNos
  <2>3. (rq.raddr - rq.vaddr - 1) % (2 * Lines)
          = (IF rq.raddr > rq.vaddr THEN 0 ELSE 2 * Lines) + rq.raddr - rq.vaddr - 1
    <3> DEFINE n == 2 * Lines
    <3>1. n \in Nat \ {0} /\ rq.raddr \in 0 .. n - 1 /\ rq.vaddr \in 0 .. n - 1
      BY <2>2
    <3> HIDE DEF n
    <3>2. (rq.raddr - rq.vaddr - 1) % n = (IF rq.raddr > rq.vaddr THEN 0 ELSE n) + rq.raddr - rq.vaddr - 1
      BY <3>1, Distance
    <3> QED BY <3>2 DEF n
  <2>4. ~(((IF rq.raddr > rq.vaddr THEN 0 ELSE 2 * Lines) + rq.raddr - rq.vaddr - 1) <= ReadSlack)
    BY <2>1, <2>2, <2>3, SlackAssumption
  <2> QED BY <2>2, <2>4, SlackAssumption, Sizes DEF Free, Gap
<1>3. Free' \in Int /\ Free \in Int /\ Free' >= Free - (IF Reserves THEN 2 ELSE 0)
  <2>1. Free \in Int
    BY <1>1, Sizes
  <2> QED BY <1>1, <2>1
<1>4. ah # None => state \notin Submitting /\ ah' = None
  BY CommandsAreSpaced DEF Room
<1>5. Free' >= 2
  <2>1. Free >= 2
    BY DEF ReadRing
  <2> QED BY <1>1, <1>3, <2>1
<1>6. HasTag(ah, "rdata")' => Free' >= 4 /\ ah'.tag.idx = rq'.vaddr \div 2 /\ ~Reserves
  <2> SUFFICES ASSUME HasTag(ah, "rdata")' PROVE Free' >= 4 /\ ah'.tag.idx = rq'.vaddr \div 2 /\ ~Reserves
    OBVIOUS
  <2>1. state = "READ_SRC" /\ ah'.tag.idx = w
    BY Issues DEF HasTag
  <2>2. ~Reserves
    BY <1>4, <2>1 DEF Reserves, HasTag, Submitting
  <2>3. Free >= 4
    BY <2>1 DEF ReadRing
  <2> QED BY <1>1, <1>3, <2>1, <2>2, <2>3
<1>7. state' = "READ_SRC" => Free' >= 4
  <2>1. CASE state = "RUN" /\ ~rq.full
    <3>1. Free >= 4 /\ (Reserves => Free >= 6)
      BY <2>1 DEF ReadRing, Reserves
    <3> QED BY <1>3, <3>1
  <2>2. CASE state = "READ_SRC"
    <3>1. ~Reserves /\ Free >= 4
      BY <1>4, <2>2 DEF Reserves, HasTag, Submitting, ReadRing
    <3> QED BY <1>3, <3>1
  <2> QED BY <2>1, <2>2, Turns
<1>8. ~rq'.full => Free' >= 4 /\ (HasTag(ah, "rdata")' => Free' >= 6)
  BY <1>1, <1>2, <1>3, <1>6
<1>9. rq.written \subseteq Held
  BY DEF ReadRing
<1>10. rq'.written \subseteq Held'
  BY <1>1, <1>9
<1>11. rq'.raddr % 2 = 1 => rq'.raddr \div 2 \in rq'.written
  <2> SUFFICES ASSUME rq'.raddr % 2 = 1 PROVE rq'.raddr \div 2 \in rq'.written
    OBVIOUS
  <2>1. ~Ends /\ rq'.raddr \div 2 = r
    BY <1>1 DEF Ends
  <2>2. r \in rq.written
    BY <1>1 DEF ReadRing
  <2> QED BY <1>1, <2>1, <2>2
<1>12. ASSUME NEW c \in Data("rdata")' PROVE c.tag.idx \in Held' \ rq'.written
  <2>1. CASE HasTag(ah, "rdata") /\ c.tag = ah.tag
    BY <1>1, <1>9, <2>1 DEF Reserves
  <2>2. CASE \E b \in Data("rdata") : /\ c.tag = b.tag
                                      /\ b.tag.idx # LineAddr(rsp, "rdata") \/ LineAddr(rsp, "rdata") = None
    <3>1. PICK b \in Data("rdata") : c.tag = b.tag /\ (b.tag.idx # done \/ done = None)
      BY <2>2 DEF done
    <3>2. b.tag.idx \in Held \ rq.written
      BY <3>1 DEF ReadRing
    <3>3. b.tag.idx \notin ({done} \ {None})
      BY <3>1
    <3>4. Ends => r \in rq.written
      BY <1>1 DEF Ends
    <3> QED BY <1>1, <3>1, <3>2, <3>3, <3>4
  <2> QED BY <2>1, <2>2, DataStep
<1> QED BY <1>5, <1>6, <1>7, <1>8, <1>10, <1>11, <1>12 DEF ReadRing

(* What an edge makes of the write side: a beat is taken, and with its     *)
(* second half a line put on the address fifo; the fifo's next line is     *)
(* drawn into its output register.                                         *)
Takes(out) == WqWrite(out) # None /\ ~wq.full
Puts(out)  == Takes(out) /\ wq.waddr % 2 = 1
Draws      == (~wafifo.valid \/ wafifo_read) /\ ~wafifo.empty
LineWord   == [addr |-> <<qitem.buf, dst_count \div 2>>, idx |-> Under]

LEMMA WriteSideEdge ==
  ASSUME Registers, ~clear, WQ!Beats \div 2 = Lines,
         NEW rsp, NEW br, NEW out, WriteQueue(rsp, br, out), WriteAddrFifo(out), DstAddr(out),
         Writes => dst_count % 2 = wq.waddr % 2
  PROVE  /\ wq'.waddr = IF Takes(out) THEN (wq.waddr + 1) % (2 * Lines) ELSE wq.waddr
         /\ wq'.written = (wq.written \cup (IF Puts(out) THEN {Under} ELSE {})) \ {wq.comp}
         /\ wq'.full <=> \E k \in 0 .. 2 : (Under + k) % Lines \in wq.written
         /\ wq'.comp = LineAddr(rsp, "wdata")
         /\ wq'.mem = IF WqWrite(out) = None THEN wq.mem
                      ELSE [wq.mem EXCEPT ![wq.waddr] = WqWrite(out)]
         /\ wafifo'.mem = IF Puts(out) THEN [wafifo.mem EXCEPT ![wafifo.waddr] = LineWord] ELSE wafifo.mem
         /\ wafifo'.waddr = IF Puts(out) THEN (wafifo.waddr + 1) % Lines ELSE wafifo.waddr
         /\ wafifo'.raddr = IF Draws THEN (wafifo.raddr + 1) % Lines ELSE wafifo.raddr
         /\ wafifo'.empty = (~Puts(out) /\ (wafifo.empty \/ (Draws /\ wafifo'.raddr = wafifo.waddr)))
         /\ wafifo'.valid <=> Draws \/ (wafifo.valid /\ ~wafifo_read)
         /\ wafifo'.data = IF Draws THEN wafifo.mem[wafifo.raddr] ELSE wafifo.data
<1> DEFINE comp == LineAddr(rsp, "wdata")
           radd == IF HasTag(br, "wdata") THEN BeatAddr(br) ELSE None
           beat == WqWrite(out)
           e == WQ!WqEdge(wq, clear, beat, comp, radd)
<1>1. wq' = e
  BY DEF WriteQueue
<1>2. WQ!Beats = 2 * Lines
  BY Sizes
<1> HIDE DEF comp, radd, beat
<1>3. /\ e.waddr = IF Takes(out) THEN (wq.waddr + 1) % (2 * Lines) ELSE wq.waddr
      /\ e.written = (wq.written \cup (IF Puts(out) THEN {Under} ELSE {})) \ {wq.comp}
      /\ e.comp = comp
      /\ e.mem = IF beat = None THEN wq.mem ELSE [wq.mem EXCEPT ![wq.waddr] = beat]
  BY <1>2 DEF WQ!WqEdge, Under, beat, Takes, Puts
<1>4. e.full <=> \E k \in 0 .. 2 : (Under + k) % Lines \in wq.written
  BY DEF WQ!WqEdge, WQ!WqBusy, Under
<1> DEFINE given == IF beat # None /\ dst_count % 2 = 1 /\ ~wq.full THEN LineWord ELSE None
           f == WA!FifoEdge(wafifo, clear, given, wafifo_read)
<1>5. wafifo' = f
  BY DEF WriteAddrFifo, Under, beat, LineWord
<1>6. LineWord # None
  <2>1. <<qitem.buf, dst_count \div 2>> \in Nat \X Nat /\ Under \in Nat
    BY DEF Registers, Slots, BeatNos, Under
  <2>2. LineWord \in [addr : Nat \X Nat, idx : Nat]
    BY <2>1 DEF LineWord
  <2> QED BY <2>2, NoneAssumption
<1>7. beat # None => Writes
  BY DEF WqWrite, Writes, beat
<1>8. Puts(out) <=> given # None
  BY <1>6, <1>7 DEF beat, Puts, Takes
<1>9. given # None => given = LineWord
  OBVIOUS
<1> HIDE DEF given
<1>10. WA!Words = Lines
  BY Sizes
<1>11. /\ f.mem = IF given = None THEN wafifo.mem ELSE [wafifo.mem EXCEPT ![wafifo.waddr] = given]
       /\ f.waddr = IF given = None THEN wafifo.waddr ELSE (wafifo.waddr + 1) % Lines
       /\ f.raddr = IF Draws THEN (wafifo.raddr + 1) % Lines ELSE wafifo.raddr
       /\ f.data = IF Draws THEN wafifo.mem[wafifo.raddr] ELSE wafifo.data
  BY <1>10 DEF WA!FifoEdge, WA!FifoPop, Draws
<1>12. f.valid <=> Draws \/ (wafifo.valid /\ ~wafifo_read)
  BY DEF WA!FifoEdge, WA!FifoPop, Draws
<1>13. f.empty = (given = None /\ (wafifo.empty \/ (Draws /\ f.raddr = wafifo.waddr)))
  BY <1>10 DEF WA!FifoEdge, WA!FifoPop, Draws
<1> HIDE DEF e, f
<1>14. /\ f.mem = IF Puts(out) THEN [wafifo.mem EXCEPT ![wafifo.waddr] = LineWord] ELSE wafifo.mem
       /\ f.waddr = IF Puts(out) THEN (wafifo.waddr + 1) % Lines ELSE wafifo.waddr
       /\ f.empty = (~Puts(out) /\ (wafifo.empty \/ (Draws /\ f.raddr = wafifo.waddr)))
  BY <1>8, <1>9, <1>11, <1>13
<1> QED BY <1>1, <1>3, <1>4, <1>5, <1>11, <1>12, <1>14 DEF e, f, comp, beat

(* The lines that wait, that are offered and that are asked for.           *)
LEMMA WriteMoves ==
  ASSUME Room, Registers, Live, Resets, WriteRing,
         NEW rsp, NEW br, NEW out,
         StateMachine, WriteQueue(rsp, br, out), WriteAddrFifo(out), DstAddr(out)
  PROVE  LET u == Under
             r == wafifo.raddr
         IN  /\ u \in LineNos /\ r \in LineNos /\ After(u) \in LineNos /\ After(u) # u
             /\ Under' = IF Puts(out) THEN After(u) ELSE u
             /\ wafifo'.waddr = Under'
             /\ wq'.waddr % 2 = 1 => ~Puts(out)
             /\ Queued' = (Queued \ (IF Draws THEN {r} ELSE {})) \cup (IF Puts(out) THEN {u} ELSE {})
             /\ wafifo'.empty => wafifo'.raddr = wafifo'.waddr
             /\ Draws => r \in Queued /\ Offered = {} /\ Offered' \subseteq {r}
             /\ ~Draws => Offered' \subseteq Offered
             /\ Asking' # {} => Asking' = Offered /\ Offered' = {} /\ Asking = {}
<1> DEFINE u == Under
           r == wafifo.raddr
<1>1. ~clear /\ ~got_qitem
  BY DEF Resets
<1>2. WQ!Beats \div 2 = Lines
  BY Sizes
<1>3. /\ wq'.waddr = IF Takes(out) THEN (wq.waddr + 1) % (2 * Lines) ELSE wq.waddr
      /\ wafifo'.mem = IF Puts(out) THEN [wafifo.mem EXCEPT ![wafifo.waddr] = LineWord] ELSE wafifo.mem
      /\ wafifo'.waddr = IF Puts(out) THEN (wafifo.waddr + 1) % Lines ELSE wafifo.waddr
      /\ wafifo'.raddr = IF Draws THEN (wafifo.raddr + 1) % Lines ELSE wafifo.raddr
      /\ wafifo'.empty = (~Puts(out) /\ (wafifo.empty \/ (Draws /\ wafifo'.raddr = wafifo.waddr)))
      /\ wafifo'.valid <=> Draws \/ (wafifo.valid /\ ~wafifo_read)
      /\ wafifo'.data = IF Draws THEN wafifo.mem[wafifo.raddr] ELSE wafifo.data
  BY <1>1, <1>2, WriteSideEdge DEF WriteRing
<1>4. /\ wq.waddr \in BeatNos /\ u \in LineNos /\ r \in LineNos /\ wafifo.waddr = u
      /\ wafifo.empty \in BOOLEAN /\ wafifo.empty => r = u
  BY NextBeatLine DEF Registers, WriteRing, Under
<1>5. /\ Queued \cup Offered \cup Asking \cup Asked \subseteq wq.written \ {wq.comp}
      /\ u \notin wq.written
      /\ \A a \in Queued : wafifo.mem[a].idx = a
  BY DEF WriteRing
<1>6. /\ Draws => ~wafifo.empty
      /\ Draws \in BOOLEAN /\ Puts(out) \in BOOLEAN
  BY DEF Draws, Puts
<1>7. /\ Under' = IF Puts(out) THEN After(u) ELSE u
      /\ wafifo'.waddr = IF Puts(out) THEN After(u) ELSE u
      /\ wq'.waddr % 2 = 1 => ~Puts(out)
      /\ After(u) \in LineNos /\ After(u) # u
  <2>1. wafifo'.waddr = IF Puts(out) THEN After(u) ELSE u
    BY <1>3, <1>4, NextSlot
  <2>2. After(u) \in LineNos /\ After(u) # u
    BY <1>4, NextSlot
  <2>3. CASE Takes(out)
    <3> DEFINE n == (wq.waddr + 1) % (2 * Lines)
    <3>1. /\ wq.waddr % 2 \in {0, 1}
          /\ wq.waddr % 2 = 1 => n \div 2 = After(u) /\ n % 2 = 0
          /\ wq.waddr % 2 = 0 => n \div 2 = u
      BY <1>4, NextBeatLine DEF BeatNos, Under
    <3>2. wq'.waddr = n
      BY <1>3, <2>3
    <3> HIDE DEF n
    <3>3. Puts(out) <=> wq.waddr % 2 = 1
      BY <2>3 DEF Puts
    <3> QED BY <1>6, <2>1, <2>2, <3>1, <3>2, <3>3 DEF Under
  <2>4. CASE ~Takes(out)
    <3>1. ~Puts(out) /\ wq'.waddr = wq.waddr
      BY <1>3, <2>4 DEF Puts
    <3> QED BY <1>6, <2>1, <2>2, <3>1 DEF Under
  <2> QED BY <2>3, <2>4
<1>8. wafifo'.waddr = Under'
  BY <1>6, <1>7
<1>9. /\ Queued' = (Queued \ (IF Draws THEN {r} ELSE {})) \cup (IF Puts(out) THEN {u} ELSE {})
      /\ wafifo'.empty => wafifo'.raddr = wafifo'.waddr
      /\ Draws => r \in Queued
  <2>1. wafifo'.raddr = IF Draws THEN After(r) ELSE r
    BY <1>3, <1>4, NextSlot
  <2>2. After(r) # r /\ After(r) \in LineNos /\ After(u) \in LineNos /\ After(u) # u
    BY <1>4, NextSlot
  <2>3. Queued = IF wafifo.empty THEN {} ELSE Span(r, u)
    BY <1>4 DEF Queued
  <2>4. CASE ~Draws /\ ~Puts(out)
    BY <1>3, <1>4, <1>7, <2>1, <2>3, <2>4 DEF Queued
  <2>5. CASE Draws /\ ~Puts(out)
    <3>1. Queued' = IF After(r) = u THEN {} ELSE Span(After(r), u)
      BY <1>3, <1>4, <1>6, <1>7, <2>1, <2>5 DEF Queued
    <3>2. After(r) = u => Arc(After(r), u) = {}
      BY <1>4, ArcMoves
    <3>3. Queued' = Arc(After(r), u)
      BY <3>1, <3>2 DEF Span
    <3>4. r \in Queued /\ Arc(After(r), u) = Queued \ {r}
      BY <1>4, <1>6, <2>3, <2>5, SpanMoves
    <3>5. wafifo'.empty => wafifo'.raddr = wafifo'.waddr
      BY <1>3, <1>4, <1>6, <1>7, <2>5
    <3> QED BY <2>5, <3>3, <3>4, <3>5
  <2>6. CASE ~Draws /\ Puts(out)
    <3>1. ~wafifo'.empty /\ Queued' = Span(r, After(u))
      BY <1>3, <1>6, <1>7, <2>1, <2>6 DEF Queued
    <3>2. Queued' = Arc(r, u) \cup {u}
      BY <1>4, <3>1, SpanMoves
    <3>3. Arc(r, u) = Queued
      <4>1. CASE wafifo.empty
        BY <1>4, <2>3, <4>1, ArcMoves
      <4>2. CASE ~wafifo.empty
        BY <1>4, <1>5, <2>3, <2>6, <4>2, SpanMoves DEF Span
      <4> QED BY <4>1, <4>2
    <3> QED BY <2>6, <3>1, <3>2, <3>3
  <2>7. CASE Draws /\ Puts(out)
    <3>1. ~wafifo'.empty /\ Queued' = Span(After(r), After(u))
      BY <1>3, <1>6, <1>7, <2>1, <2>7 DEF Queued
    <3>2. Queued' = Arc(After(r), u) \cup {u}
      BY <1>4, <2>2, <3>1, SpanMoves
    <3>3. r \in Queued /\ Arc(After(r), u) = Queued \ {r}
      BY <1>4, <1>6, <2>3, <2>7, SpanMoves
    <3> QED BY <2>7, <3>1, <3>2, <3>3
  <2> QED BY <2>4, <2>5, <2>6, <2>7
<1>10. Asking' # {} => wafifo.valid /\ ~wafifo_read /\ wafifo_read' /\ Asking' = Offered /\ Asking = {}
  <2> SUFFICES ASSUME Asking' # {}
               PROVE  wafifo.valid /\ ~wafifo_read /\ wafifo_read' /\ Asking' = Offered /\ Asking = {}
    OBVIOUS
  <2>1. HasTag(ah, "wdata")'
    BY DEF Asking
  <2>2. state = "WRITE_DST" /\ ah'.tag.idx = wafifo.data.idx /\ wafifo_read' /\ ah' # None
    BY <2>1, Issues DEF HasTag
  <2>3. ah = None
    BY <2>2, CommandsAreSpaced DEF Room
  <2>4. wafifo.valid /\ ~wafifo_read
    BY <2>2 DEF WriteRing, Resets
  <2> QED BY <2>1, <2>2, <2>3, <2>4 DEF Asking, Offered, HasTag
<1>11. Asking' # {} => Offered' = {}
  BY <1>10 DEF Offered
<1>12. ASSUME Draws PROVE Offered = {} /\ Offered' \subseteq {r}
  <2>1. wafifo'.data.idx = r
    BY <1>3, <1>5, <1>9, <1>12
  <2> QED BY <1>12, <2>1 DEF Offered, Draws
<1>13. ~Draws => Offered' \subseteq Offered
  BY <1>3 DEF Offered
<1> QED BY <1>4, <1>7, <1>8, <1>9, <1>10, <1>11, <1>12, <1>13

(* The write ring holds through an edge of a block that streams.           *)
LEMMA WriteRingStep ==
  ASSUME Room, Registers, Commanded, Once, Live, Resets, WriteRing, qitem' = qitem,
         NEW rsp \in Responses \cup {None}, NEW bw, NEW br, NEW out,
         StateMachine, Bus(rsp, bw, br), WriteQueue(rsp, br, out), WriteAddrFifo(out), DstAddr(out)
  PROVE  WriteRing'
<1> DEFINE u == Under
           done == LineAddr(rsp, "wdata")
           r == wafifo.raddr
<1>1. ~clear /\ ~got_qitem
  BY DEF Resets
<1>2. WQ!Beats \div 2 = Lines
  BY Sizes
<1>3. /\ wq'.waddr = IF Takes(out) THEN (wq.waddr + 1) % (2 * Lines) ELSE wq.waddr
      /\ wq'.written = (wq.written \cup (IF Puts(out) THEN {u} ELSE {})) \ {wq.comp}
      /\ wq'.full <=> \E k \in 0 .. 2 : (u + k) % Lines \in wq.written
      /\ wq'.comp = done
      /\ wafifo'.mem = IF Puts(out) THEN [wafifo.mem EXCEPT ![wafifo.waddr] = LineWord] ELSE wafifo.mem
      /\ wafifo'.valid <=> Draws \/ (wafifo.valid /\ ~wafifo_read)
  BY <1>1, <1>2, WriteSideEdge DEF WriteRing
<1>4. /\ wq.waddr \in BeatNos /\ u \in LineNos /\ wafifo.waddr = u
      /\ wafifo.mem = [a \in LineNos |-> wafifo.mem[a]]
  BY NextBeatLine DEF Registers, WriteRing, Under
<1>5. /\ Queued \cup Offered \cup Asking \cup Asked \subseteq wq.written \ {wq.comp}
      /\ (Offered \cup Asking \cup Asked) \cap Queued = {}
      /\ (Asking \cup Asked) \cap Offered = {}
      /\ Asked \cap Asking = {}
      /\ wq.comp \in wq.written \cup {None}
      /\ u \notin wq.written
      /\ \A a \in Queued : wafifo.mem[a].idx = a
  BY DEF WriteRing
<1>6. /\ After(u) \in LineNos /\ After(u) # u
      /\ Under' = IF Puts(out) THEN After(u) ELSE u
      /\ wafifo'.waddr = Under'
      /\ wq'.waddr % 2 = 1 => ~Puts(out)
      /\ Queued' = (Queued \ (IF Draws THEN {r} ELSE {})) \cup (IF Puts(out) THEN {u} ELSE {})
      /\ wafifo'.empty => wafifo'.raddr = wafifo'.waddr
      /\ Draws => r \in Queued /\ Offered = {} /\ Offered' \subseteq {r}
      /\ ~Draws => Offered' \subseteq Offered
      /\ Asking' # {} => Asking' = Offered /\ Offered' = {} /\ Asking = {}
  BY WriteMoves
<1>7. LineWord.idx = u
  BY DEF LineWord
<1>8. Writes' <=> Writes
  BY DEF Writes
<1>9. /\ dst_count' = IF out # None /\ ~wq.full THEN dst_count + 1 ELSE dst_count
      /\ Writes => WqWrite(out) = out
      /\ dst_count \in Nat
  BY <1>1 DEF DstAddr, WqWrite, Writes, Registers
<1>10. Writes' => dst_count' % 2 = wq'.waddr % 2
  <2> SUFFICES ASSUME Writes PROVE dst_count' % 2 = wq'.waddr % 2
    BY <1>8
  <2>1. dst_count % 2 = wq.waddr % 2
    BY DEF WriteRing
  <2>2. CASE Takes(out)
    <3>1. dst_count' = dst_count + 1 /\ wq'.waddr = (wq.waddr + 1) % (2 * Lines)
      BY <1>3, <1>9, <2>2 DEF Takes
    <3>2. wq'.waddr % 2 = 1 - (wq.waddr % 2)
      <4>1. wq.waddr % 2 \in {0, 1}
        BY <1>4 DEF BeatNos
      <4> DEFINE n == (wq.waddr + 1) % (2 * Lines)
      <4>2. (wq.waddr % 2 = 1 => n % 2 = 0) /\ (wq.waddr % 2 = 0 => n % 2 = 1)
        BY <1>4, NextBeatLine
      <4> HIDE DEF n
      <4>3. n % 2 = 1 - (wq.waddr % 2)
        <5> DEFINE m == wq.waddr % 2
        <5>1. m \in {0, 1} /\ (m = 1 => n % 2 = 0) /\ (m = 0 => n % 2 = 1)
          BY <4>1, <4>2
        <5> HIDE DEF m
        <5>2. n % 2 = 1 - m
          BY <5>1
        <5> QED BY <5>2 DEF m
      <4> QED BY <3>1, <4>3 DEF n
    <3>3. (dst_count + 1) % 2 = 1 - (dst_count % 2)
      BY <1>9
    <3>4. dst_count' % 2 = 1 - (dst_count % 2)
      BY <3>1, <3>3
    <3> QED BY <2>1, <3>2, <3>4
  <2>3. CASE ~Takes(out)
    BY <1>3, <1>9, <2>1, <2>3 DEF Takes
  <2> QED BY <2>2, <2>3
<1> HIDE DEF done
<1>11. \A a \in Queued' : wafifo'.mem[a].idx = a
  <2> SUFFICES ASSUME NEW a \in Queued' PROVE wafifo'.mem[a].idx = a
    OBVIOUS
  <2>1. CASE Puts(out) /\ a = u
    BY <1>3, <1>4, <1>7, <2>1
  <2>2. CASE a # u \/ ~Puts(out)
    <3>1. a \in Queued
      BY <1>6, <2>2
    <3> QED BY <1>3, <1>4, <1>5, <2>2, <3>1
  <2> QED BY <2>1, <2>2
<1>12. Asked' \subseteq (Asked \ ({done} \ {None})) \cup Asking
  <2> SUFFICES ASSUME NEW c \in Data("wdata")'
               PROVE  c.tag.idx \in (Asked \ ({done} \ {None})) \cup Asking
    BY DEF Asked
  <2>1. CASE HasTag(ah, "wdata") /\ c.tag = ah.tag
    BY <2>1 DEF Asking
  <2>2. CASE \E b \in Data("wdata") : /\ c.tag = b.tag
                                      /\ b.tag.idx # LineAddr(rsp, "wdata") \/ LineAddr(rsp, "wdata") = None
    BY <2>2 DEF Asked, done
  <2> QED BY <2>1, <2>2, DataStep
<1>13. done # None => done \in Asked
  BY DataStep DEF Asked, done
<1>14. None \notin LineNos /\ wq.written \subseteq LineNos
  BY NoneAssumption DEF LineNos, Registers
<1>15. /\ Queued' \cup Offered' \cup Asking' \cup Asked'
            \subseteq (Queued \cup Offered \cup Asking \cup (Asked \ {done})) \cup (IF Puts(out) THEN {u} ELSE {})
       /\ done # None => done \notin Queued \cup Offered \cup Asking
  <2>1. done # None => done \notin Queued \cup Offered \cup Asking
    BY <1>5, <1>13
  <2>2. Queued' \subseteq Queued \cup (IF Puts(out) THEN {u} ELSE {})
    BY <1>6
  <2>3. Offered' \subseteq Queued \cup Offered
    BY <1>6
  <2>4. Asking' \subseteq Offered
    BY <1>6
  <2>5. Asked' \subseteq (Asked \ {done}) \cup Asking
    BY <1>5, <1>12, <1>14
  <2> QED BY <2>1, <2>2, <2>3, <2>4, <2>5
<1>16. Queued' \cup Offered' \cup Asking' \cup Asked' \subseteq wq'.written \ {wq'.comp}
  <2> SUFFICES ASSUME NEW x \in Queued' \cup Offered' \cup Asking' \cup Asked'
               PROVE  x \in wq'.written /\ x # wq'.comp
    OBVIOUS
  <2>1. CASE x \in Queued \cup Offered \cup Asking \cup (Asked \ {done})
    <3>1. x \in wq.written /\ x # wq.comp
      BY <1>5, <2>1
    <3>2. x # done
      BY <1>5, <1>14, <1>15, <2>1
    <3> QED BY <1>3, <3>1, <3>2
  <2>2. CASE Puts(out) /\ x = u
    <3>1. u # wq.comp /\ u # done
      BY <1>4, <1>5, <1>13, <1>14
    <3> QED BY <1>3, <2>2, <3>1
  <2> QED BY <1>15, <2>1, <2>2
<1>17. (Offered' \cup Asking' \cup Asked') \cap Queued' = {}
  <2>0. u \notin Offered \cup Asking \cup Asked \cup Queued
    BY <1>5
  <2>1. ASSUME NEW x \in Offered', x \in Queued' PROVE FALSE
    <3>1. CASE Draws
      BY <1>6, <2>0, <2>1, <3>1
    <3>2. CASE ~Draws
      BY <1>5, <1>6, <2>0, <2>1, <3>2
    <3> QED BY <3>1, <3>2
  <2>2. ASSUME NEW x \in Asking' \cup Asked', x \in Queued' PROVE FALSE
    <3>1. x \in Offered \cup Asking \cup Asked
      BY <1>6, <1>12, <2>2
    <3> QED BY <1>5, <1>6, <2>0, <2>2, <3>1
  <2> QED BY <2>1, <2>2
<1>18. (Asking' \cup Asked') \cap Offered' = {}
  <2> SUFFICES ASSUME NEW x \in Asking' \cup Asked', x \in Offered' PROVE FALSE
    OBVIOUS
  <2>1. x \in Asked'
    BY <1>6
  <2>2. x \in Asked \cup Asking
    BY <1>12, <2>1
  <2> QED BY <1>5, <1>6, <2>2
<1>19. Asked' \cap Asking' = {}
  BY <1>5, <1>6, <1>12
<1>20. wq'.comp \in wq'.written \cup {None}
  BY <1>3, <1>5, <1>13
<1>21. Under' \notin wq'.written
  <2>1. CASE Puts(out)
    <3>1. After(u) \notin wq.written
      BY <2>1 DEF WriteRing, Puts, Takes
    <3> QED BY <1>3, <1>6, <2>1, <3>1
  <2>2. CASE ~Puts(out)
    BY <1>3, <1>5, <1>6, <2>2
  <2> QED BY <2>1, <2>2
<1>22. ~wq'.full /\ wq'.waddr % 2 = 1 => After(Under') \notin wq'.written
  <2> SUFFICES ASSUME ~wq'.full, wq'.waddr % 2 = 1 PROVE After(Under') \notin wq'.written
    OBVIOUS
  <2>1. ~Puts(out) /\ Under' = u
    BY <1>6
  <2>2. (u + 1) % Lines \notin wq.written
    BY <1>3
  <2>3. (u + 1) % Lines = After(u)
    BY <1>4, NextSlot
  <2>4. wq'.written \subseteq wq.written
    BY <1>3, <2>1
  <2> QED BY <2>1, <2>2, <2>3, <2>4
<1>23. state' = "WRITE_DST" => wafifo'.valid
  BY <1>3, Turns DEF WriteRing, Resets
<1> QED BY <1>6, <1>10, <1>11, <1>16, <1>17, <1>18, <1>19, <1>20, <1>21, <1>22, <1>23 DEF WriteRing

(* The command on the port carries a tag of its own.                       *)
LEMMA RingsTags ==
  ASSUME InFlight, Names, Rings
  PROVE  TagsUnique
<1> SUFFICES ASSUME ah # None, NEW c \in bus, c.tag = ah.tag PROVE FALSE
  BY DEF TagsUnique
<1>1. ah.com \notin Alone
  BY DEF InFlight, QuietBus, Alone
<1>2. CASE ah.tag.kind = "rdata"
  <2>1. Live /\ c \in Data("rdata")
    BY <1>2 DEF Live, HasTag, Data
  <2>2. ah.tag.idx = rq.vaddr \div 2 /\ c.tag.idx \in Held
    BY <1>2, <2>1 DEF Rings, ReadRing, HasTag
  <2>3. rq.raddr \div 2 \in LineNos /\ rq.vaddr \div 2 \in LineNos
    BY NextBeatLine DEF Rings, Registers
  <2> QED BY <2>2, <2>3, ArcMoves DEF Held
<1>3. CASE ah.tag.kind = "wdata"
  <2>1. Live /\ c \in Data("wdata")
    BY <1>3 DEF Live, HasTag, Data
  <2>2. ah.tag.idx \in Asking /\ c.tag.idx \in Asked
    BY <1>3, <2>1 DEF Asking, Asked, HasTag
  <2>3. Asked \cap Asking = {}
    BY <2>1 DEF Rings, WriteRing
  <2> QED BY <2>2, <2>3
<1> QED BY <1>1, <1>2, <1>3 DEF Names, Matches, Alone

(* An element that has just been read finds the rings empty.               *)
LEMMA RingsBegin ==
  ASSUME Registers, clear = TRUE, got_qitem, wq'.comp = None,
         state' = "RUN", ah' = None, bus' = {},
         NEW rsp, NEW bw, NEW br, NEW iready, NEW out,
         ReadQueue(rsp, bw, iready), WriteQueue(rsp, br, out), WriteAddrFifo(out), DstAddr(out)
  PROVE  ReadRing' /\ WriteRing'
<1>1. rq'.vaddr = 0 /\ rq'.raddr = 0 /\ rq'.written = {}
  BY DEF ReadQueue, RQ!RqEdge, RQ!RqInit
<1>2. wq'.waddr = 0 /\ wq'.written = {}
  BY DEF WriteQueue, WQ!WqEdge
<1>3. wafifo'.waddr = 0 /\ wafifo'.raddr = 0 /\ wafifo'.empty = TRUE /\ wafifo'.valid = FALSE
  BY DEF WriteAddrFifo, WA!FifoEdge, WA!FifoInit
<1>4. dst_count' = 0
  BY DEF DstAddr
<1>5. Data("rdata")' = {} /\ Data("wdata")' = {} /\ ~HasTag(ah, "rdata")' /\ ~HasTag(ah, "wdata")'
  BY DEF Data, HasTag
<1>6. 0 \in LineNos /\ 0 \div 2 = 0 /\ 0 % 2 = 0
  BY Sizes DEF LineNos
<1>7. Free' = 2 * Lines /\ Free' >= 4
  BY <1>1, Sizes DEF Free, Gap
<1>8. ReadRing'
  BY <1>1, <1>5, <1>6, <1>7 DEF ReadRing
<1>9. Under' = 0 /\ Queued' = {} /\ Offered' = {} /\ Asked' = {} /\ Asking' = {}
  BY <1>2, <1>3, <1>5, <1>6 DEF Under, Queued, Offered, Asked, Asking
<1>10. WriteRing'
  BY <1>2, <1>3, <1>4, <1>6, <1>9 DEF WriteRing
<1> QED BY <1>8, <1>10

(* The pointers of the queues stay in the rings.                           *)
LEMMA RegistersStep ==
  ASSUME Names, Rings,
         NEW rsp \in Responses \cup {None}, NEW bw \in BufferWrites \cup {None}, NEW br, NEW out,
         NEW iready, StateMachine, Bus(rsp, bw, br), QitemRead(rsp, bw), ReadQueue(rsp, bw, iready),
         WriteQueue(rsp, br, out), WriteAddrFifo(out), DstAddr(out)
  PROVE  Registers'
<1>1. rq'.vaddr \in BeatNos /\ rq'.vaddr % 2 = 0 /\ rq'.raddr \in BeatNos
  <2>1. rq'.vaddr \in {0, rq.vaddr, (rq.vaddr + 2) % (2 * Lines)}
    BY Sizes DEF ReadQueue, RQ!RqEdge, RQ!RqInit
  <2>2. rq'.raddr \in {0, rq.raddr, (rq.raddr + 1) % (2 * Lines)}
    BY Sizes DEF ReadQueue, RQ!RqEdge, RQ!RqInit
  <2>3. 0 \in BeatNos /\ 0 % 2 = 0
    BY Sizes DEF BeatNos
  <2>4. rq.vaddr \in BeatNos /\ rq.vaddr % 2 = 0 /\ rq.raddr \in BeatNos
    BY DEF Rings, Registers
  <2>5. (rq.vaddr + 2) % (2 * Lines) \in BeatNos /\ ((rq.vaddr + 2) % (2 * Lines)) % 2 = 0
    BY <2>4, NextLine
  <2>6. (rq.raddr + 1) % (2 * Lines) \in BeatNos
    BY <2>4, NextBeatLine
  <2> DEFINE v == (rq.vaddr + 2) % (2 * Lines)
  <2>7. v \in BeatNos /\ v % 2 = 0 /\ rq'.vaddr \in {0, rq.vaddr, v}
    BY <2>1, <2>5
  <2> HIDE DEF v
  <2> QED BY <2>2, <2>3, <2>4, <2>6, <2>7
<1>2. wq'.waddr \in BeatNos
  <2>1. wq'.waddr \in {0, wq.waddr, (wq.waddr + 1) % (2 * Lines)}
    BY Sizes DEF WriteQueue, WQ!WqEdge
  <2>2. (wq.waddr + 1) % (2 * Lines) \in BeatNos
    BY NextBeatLine DEF Rings, Registers
  <2>3. 0 \in BeatNos
    BY Sizes DEF BeatNos
  <2> QED BY <2>1, <2>2, <2>3 DEF Rings, Registers
<1>3. wafifo'.raddr \in LineNos /\ wafifo'.waddr \in LineNos
  <2>1. /\ wafifo'.raddr \in {0, wafifo.raddr, (wafifo.raddr + 1) % Lines}
        /\ wafifo'.waddr \in {0, wafifo.waddr, (wafifo.waddr + 1) % Lines}
    BY Sizes DEF WriteAddrFifo, WA!FifoEdge, WA!FifoInit
  <2>2. (wafifo.raddr + 1) % Lines \in LineNos /\ (wafifo.waddr + 1) % Lines \in LineNos
    BY NextSlot DEF Rings, Registers
  <2>3. 0 \in LineNos
    BY Sizes DEF LineNos
  <2> QED BY <2>1, <2>2, <2>3 DEF Rings, Registers
<1>4. rq'.written \subseteq LineNos
  <2>1. rq'.written \subseteq rq.written \cup ({LineAddr(rsp, "rdata")} \ {None})
    BY DEF ReadQueue, RQ!RqEdge, RQ!RqInit
  <2>2. ASSUME LineAddr(rsp, "rdata") # None PROVE LineAddr(rsp, "rdata") \in LineNos
    <3>1. PICK c \in Data("rdata") : c.tag.idx = LineAddr(rsp, "rdata")
      BY <2>2, DataStep DEF Rings
    <3>2. c.tag.idx \in Held
      BY <3>1 DEF Rings, Live, ReadRing
    <3>3. rq.raddr \div 2 \in LineNos /\ rq.vaddr \div 2 \in LineNos
      BY NextBeatLine DEF Rings, Registers
    <3> QED BY <3>1, <3>2, <3>3, ArcMoves DEF Held
  <2> QED BY <2>1, <2>2 DEF Rings, Registers
<1>5. wq'.written \subseteq LineNos
  <2>1. wq'.written \subseteq wq.written \cup {wq.waddr \div 2}
    BY DEF WriteQueue, WQ!WqEdge
  <2> QED BY <2>1, NextBeatLine DEF Rings, Registers
<1>6. clear' \in BOOLEAN
  BY ClearType
<1>7. wafifo'.empty \in BOOLEAN
  <2> DEFINE w == IF WqWrite(out) # None /\ dst_count % 2 = 1 /\ ~wq.full
                  THEN [addr |-> <<qitem.buf, dst_count \div 2>>, idx |-> wq.waddr \div 2]
                  ELSE None
             f == WA!FifoEdge(wafifo, clear, w, wafifo_read)
  <2>1. wafifo' = f
    BY DEF WriteAddrFifo
  <2> HIDE DEF w
  <2>2. f.empty \in BOOLEAN
    BY DEF WA!FifoEdge, WA!FifoInit
  <2> QED BY <2>1, <2>2
<1>8. rq'.mem = [a \in BeatNos |-> rq'.mem[a]]
  <2> DEFINE wr == IF HasTag(bw, "rdata") THEN [addr |-> BeatAddr(bw), data |-> bw.data] ELSE None
  <2>1. rq'.mem = IF wr = None THEN rq.mem ELSE [rq.mem EXCEPT ![wr.addr] = wr.data]
    BY DEF ReadQueue, RQ!RqEdge
  <2>2. rq.mem = [a \in BeatNos |-> rq.mem[a]]
    BY DEF Rings, Registers
  <2> HIDE DEF wr
  <2> QED BY <2>1, <2>2
<1>9. wq'.mem = [a \in BeatNos |-> wq'.mem[a]]
  <2> DEFINE wr == WqWrite(out)
  <2>1. wq'.mem = IF wr = None THEN wq.mem ELSE [wq.mem EXCEPT ![wq.waddr] = wr]
    BY DEF WriteQueue, WQ!WqEdge
  <2>2. wq.mem = [a \in BeatNos |-> wq.mem[a]]
    BY DEF Rings, Registers
  <2> HIDE DEF wr
  <2> QED BY <2>1, <2>2
<1>10. wafifo'.mem = [a \in LineNos |-> wafifo'.mem[a]]
  <2> DEFINE w == IF WqWrite(out) # None /\ dst_count % 2 = 1 /\ ~wq.full
                  THEN [addr |-> <<qitem.buf, dst_count \div 2>>, idx |-> wq.waddr \div 2]
                  ELSE None
             f == WA!FifoEdge(wafifo, clear, w, wafifo_read)
  <2>1. wafifo' = f
    BY DEF WriteAddrFifo
  <2> HIDE DEF w
  <2>2. f.mem = wafifo.mem \/ f.mem = [wafifo.mem EXCEPT ![wafifo.waddr] = w]
    BY DEF WA!FifoEdge
  <2>3. wafifo.mem = [a \in LineNos |-> wafifo.mem[a]]
    BY DEF Rings, Registers
  <2> HIDE DEF f
  <2> QED BY <2>1, <2>2, <2>3
<1>11. dst_count' \in Nat
  BY DEF DstAddr, Rings, Registers
<1>12. qitem'.buf \in Slots
  <2> SUFFICES ASSUME bw # None, bw.tag.kind = "qitem" PROVE bw.data.buf \in Slots
    BY DEF QitemRead, Rings, Registers
  <2>1. PICK c \in Reads : bw.tag = c.tag /\ bw.data = IF c.tag = Load THEN Element(c.addr[1])
                                                       ELSE Beat(c.addr[1], c.addr[2], c.beats)
    BY DEF BufferWrites
  <2>2. c.com = "READ_CL_M" /\ c.tag = Load
    BY <2>1 DEF Reads, Names, Matches
  <2> QED BY <2>1, <2>2 DEF Element, Reads, Rings, Commanded
<1> QED BY <1>1, <1>2, <1>3, <1>4, <1>5, <1>6, <1>7, <1>8, <1>9, <1>10, <1>11, <1>12 DEF Registers

(* A command that is taken has a tag of its own.                           *)
LEMMA CommandedStep ==
  ASSUME InFlight, Names, Rings, WedAddrGen,
         NEW rsp \in Responses \cup {None}, NEW bw, NEW br, StateMachine, Bus(rsp, bw, br)
  PROVE  Commanded' /\ Once'
<1>1. wed' \in Slots /\ wed_next' \in Slots
  BY Walk, RtlAssumption DEF WedAddrGen, Rings, Commanded, Slots
<1>2. ah' # None => /\ ah'.tag = Tag(ah'.tag.kind, ah'.tag.idx)
                    /\ ah'.com = "READ_CL_M" => ah'.addr[1] \in Slots
  BY Issues DEF Rings, Commanded
<1>3. \A c \in bus' : (\E b \in bus : c = Served(b, bw, br)) \/ (ah # None /\ c = Fresh)
  BY BusContents
<1>4. ASSUME NEW c \in bus' PROVE /\ c.tag = Tag(c.tag.kind, c.tag.idx)
                                  /\ c.com = "READ_CL_M" => c.addr[1] \in Slots
  <2>1. CASE \E b \in bus : c = Served(b, bw, br)
    BY <2>1, ServedNames DEF Rings, Commanded
  <2>2. CASE ah # None /\ c = Fresh
    BY <2>2 DEF Fresh, Rings, Commanded
  <2> QED BY <1>3, <2>1, <2>2
<1>5. ASSUME NEW c \in bus', NEW d \in bus', c.tag = d.tag PROVE c = d
  <2>1. ah # None => \A b \in bus : b.tag # ah.tag
    BY RingsTags DEF TagsUnique
  <2>2. ah # None => Fresh.tag = ah.tag
    BY DEF Fresh
  <2>3. \A b \in bus : Served(b, bw, br).tag = b.tag
    BY ServedNames
  <2>4. Once
    BY DEF Rings
  <2> QED BY <1>3, <1>5, <2>1, <2>2, <2>3, <2>4 DEF Once
<1> QED BY <1>1, <1>2, <1>4, <1>5 DEF Commanded, Once

(* The queues are not reset while lines are on their way.                  *)
LEMMA ResetsStep ==
  ASSUME InFlight, Names,
         NEW rsp \in Responses \cup {None}, NEW bw, NEW br, StateMachine, Bus(rsp, bw, br),
         QitemRead(rsp, bw)
  PROVE  Resets'
<1>1. Live' => ~clear' /\ ~got_qitem'
  <2> SUFFICES ASSUME Live' PROVE ~clear' /\ ~got_qitem'
    OBVIOUS
  <2>1. got_qitem' => \E c \in bus : c.tag.kind = "qitem"
    <3>1. got_qitem' <=> (rsp # None /\ rsp.tag.kind = "qitem")
      BY DEF QitemRead
    <3>2. rsp # None => \E b \in bus : rsp.tag = b.tag
      BY BusContents
    <3> QED BY <3>1, <3>2
  <2>2. CASE Live
    BY <2>1, <2>2, LiveIsQuiet, Turns
  <2>3. CASE ~Live
    BY <2>1, <2>3, LiveStep, Turns
  <2> QED BY <2>2, <2>3
<1> QED BY <1>1, Turns DEF Resets

(* The rings are an invariant, with failures and stops.                    *)
LEMMA RingsHold == Spec => []Rings
<1>1. Init => Rings
  <2> SUFFICES ASSUME Init PROVE Rings
    OBVIOUS
  <2>1. ~Live
    BY DEF Init, RtlInit, Live, HasTag, Data, Streaming
  <2>2. /\ state = "IDLE" /\ bus = {} /\ ah = None /\ clear = FALSE /\ wafifo_read = FALSE
        /\ wed = 0 /\ wed_next = 0 /\ dst_count = 0 /\ qitem.buf = 0
        /\ rq = RQ!RqInit /\ wq = WQ!WqInit /\ wafifo = WA!FifoInit
    BY DEF Init, RtlInit
  <2>3. 0 \in Slots /\ 0 \in BeatNos /\ 0 \in LineNos /\ 0 % 2 = 0
    BY RtlAssumption, Sizes DEF Slots, BeatNos, LineNos
  <2>4. /\ BeatNos = 0 .. RQ!Beats - 1 /\ BeatNos = 0 .. WQ!Beats - 1
        /\ LineNos = 0 .. WA!Words - 1
    BY Sizes DEF BeatNos, LineNos
  <2>5. Registers
    BY <2>2, <2>3, <2>4 DEF Registers, RQ!RqInit, WQ!WqInit, WA!FifoInit
  <2> QED BY <2>1, <2>2, <2>3, <2>5 DEF Rings, Commanded, Resets, Once
<1>2. Room /\ InFlight /\ Names /\ Rings /\ [Next]_vars => Rings'
  <2> SUFFICES ASSUME Room, InFlight, Names, Rings, [Next]_vars PROVE Rings'
    OBVIOUS
  <2>1. CASE UNCHANGED <<regs, bus>>
    <3>1. UNCHANGED <<state, ah, bus, clear, wafifo_read, wed, wed_next, got_qitem, qitem,
                      dst_count, rq, wq, wafifo>>
      BY <2>1 DEF regs
    <3>2. Registers' /\ Commanded' /\ Resets' /\ Once' /\ (Live' <=> Live)
      BY <3>1 DEF Rings, Registers, Commanded, Resets, Once, Live, Data
    <3>3. Live => ReadRing'
      BY <3>1 DEF Rings, ReadRing, Data, Free, Held
    <3>4. Live => WriteRing'
      BY <3>1 DEF Rings, WriteRing, Data, Queued, Offered, Asked, Asking, Under, Writes
    <3> QED BY <3>2, <3>3, <3>4 DEF Rings
  <2>2. CASE Clock
    <3>1. PICK rsp, bw, br, out, trigger, stop :
            /\ rsp \in Responses \cup {None} /\ bw \in BufferWrites \cup {None}
            /\ Edge(rsp, bw, br, out, trigger, stop)
      BY <2>2 DEF Clock, Cycle, BusEvents
    <3>2. /\ StateMachine /\ Bus(rsp, bw, br) /\ QitemRead(rsp, bw) /\ WedAddrGen
          /\ ReadQueue(rsp, bw, Ready) /\ WriteQueue(rsp, br, out) /\ WriteAddrFifo(out)
          /\ DstAddr(out)
      BY <3>1 DEF Edge
    <3>3. Registers'
      BY <3>1, <3>2, RegistersStep
    <3>4. Commanded' /\ Once'
      BY <3>1, <3>2, CommandedStep
    <3>5. Resets'
      BY <3>1, <3>2, ResetsStep
    <3>6. Live' => ReadRing' /\ WriteRing'
      <4>1. CASE Live
        <5>1. ~clear /\ qitem' = qitem
          <6>1. bw # None => \E c \in bus : bw.tag = c.tag
            BY <3>1 DEF BufferWrites, Reads
          <6> QED BY <3>2, <4>1, <6>1, LiveIsQuiet DEF Rings, Resets, QitemRead
        <5>2. Registers /\ Commanded /\ Once /\ Resets /\ ReadRing /\ WriteRing
          BY <4>1 DEF Rings
        <5>3. ReadRing'
          BY <3>1, <3>2, <4>1, <5>1, <5>2, ReadRingStep
        <5>4. WriteRing'
          BY <3>1, <3>2, <4>1, <5>1, <5>2, WriteRingStep
        <5> QED BY <5>3, <5>4
      <4>2. CASE ~Live
        <5> SUFFICES ASSUME Live' PROVE ReadRing' /\ WriteRing'
          OBVIOUS
        <5>1. /\ state = "WAIT_FOR_QUEUE_ITEM" /\ got_qitem
              /\ state' = "RUN" /\ ah' = None /\ bus = {} /\ bus' = {}
          BY <3>1, <3>2, <4>2, LiveStep
        <5>2. clear = TRUE
          BY <5>1 DEF Rings, Resets, Registers
        <5>3. wq'.comp = None
          <6>1. rsp = None
            BY <3>1, <3>2, <5>1, BusContents
          <6>2. wq'.comp = LineAddr(rsp, "wdata")
            BY <3>2 DEF WriteQueue, WQ!WqEdge
          <6> QED BY <6>1, <6>2 DEF LineAddr, HasTag
        <5> QED BY <3>2, <5>1, <5>2, <5>3, RingsBegin DEF Rings
      <4> QED BY <4>1, <4>2
    <3> QED BY <3>3, <3>4, <3>5, <3>6 DEF Rings
  <2> QED BY <2>1, <2>2, SoftwareStep DEF Next, vars, env
<1> QED BY <1>1, <1>2, RoomHolds, InFlightHolds, NamesHold, PTL DEF Spec

(* No command is issued under a tag that a command outstanding carries.    *)
(* The full flags of the two data queues, late as they are, and the        *)
(* completions, in any order and failed or not, keep the line addresses    *)
(* that the tags are made of apart.                                        *)
THEOREM TagsAreUnique == Spec => []TagsUnique
BY InFlightHolds, NamesHold, RingsHold, RingsTags, PTL

-----------------------------------------------------------------------------
(* The types of what flows through the block.                              *)
Words == (Slots \X Int \X Nat) \cup {None}

Types ==
  /\ src_count \in Nat /\ made \in Nat
  /\ rq.mem \in [BeatNos -> Words] /\ rq.data \in Words
  /\ wq.mem \in [BeatNos -> Words] /\ wq.data \in Words
  /\ proc \in Seq(Words) /\ Len(proc) <= ProcRoom
  /\ HasTag(ah, "rdata") => ah.addr \in Slots \X Int
  /\ \A c \in Data("rdata") : c.addr \in Slots \X Int
  /\ \A c \in Data("wdata") :
       /\ c.buf \in Seq(Words)
       /\ c.beats = Len(c.buf) + (IF brtag_last = c.tag THEN 1 ELSE 0)

(* What the bus writes and reads of the buffers.                           *)
LEMMA BeatsMove ==
  ASSUME Names, NEW bw \in BufferWrites \cup {None}, NEW br \in BufferReads \cup {None}
  PROVE  /\ bw # None => \E c \in Reads : /\ Owed(c) /\ bw.tag = c.tag /\ bw.half = c.beats
                                          /\ c.tag.kind \in {"rdata", "qitem"}
                                          /\ c.tag.kind = "rdata" =>
                                               bw.data = Beat(c.addr[1], c.addr[2], c.beats)
         /\ br # None => \E c \in bus : /\ Owed(c) /\ br.tag = c.tag /\ br.half = c.beats
                                        /\ c.com \in {"WRITE_NA", "WRITE_MI", "RESTART"}
                                        /\ c.tag.kind = "wdata" => c.com = "WRITE_NA"
<1>1. ASSUME bw # None
      PROVE  \E c \in Reads : /\ Owed(c) /\ bw.tag = c.tag /\ bw.half = c.beats
                              /\ c.tag.kind \in {"rdata", "qitem"}
                              /\ c.tag.kind = "rdata" =>
                                   bw.data = Beat(c.addr[1], c.addr[2], c.beats)
  <2>1. PICK c \in Reads : /\ Owed(c) /\ bw.tag = c.tag /\ bw.half = c.beats
                           /\ bw.data = IF c.tag = Load THEN Element(c.addr[1])
                                        ELSE Beat(c.addr[1], c.addr[2], c.beats)
    BY <1>1 DEF BufferWrites
  <2>2. c.tag.kind \in {"rdata", "qitem"}
    BY <2>1 DEF Reads, Names, Matches, Load, Tag
  <2>3. c.tag.kind = "rdata" => c.tag # Load
    BY DEF Load, Tag
  <2> QED BY <2>1, <2>2, <2>3
<1>2. ASSUME br # None
      PROVE  \E c \in bus : /\ Owed(c) /\ br.tag = c.tag /\ br.half = c.beats
                            /\ c.com \in {"WRITE_NA", "WRITE_MI", "RESTART"}
                            /\ c.tag.kind = "wdata" => c.com = "WRITE_NA"
  <2>1. PICK c \in bus \ Reads : Owed(c) /\ br.tag = c.tag /\ br.half = c.beats
    BY <1>2 DEF BufferReads
  <2> QED BY <2>1 DEF Reads, Names, Matches, Load, Save, Restart, Tag
<1> QED BY <1>1, <1>2

(* A beat that the bus reads is in the buffer.                             *)
LEMMA BeatInBuffer ==
  ASSUME Names, Rings, NEW c \in bus, Owed(c), c.tag.kind \in {"rdata", "wdata"}
  PROVE  /\ c.tag.idx \in LineNos /\ c.beats \in {0, 1} /\ 2 * c.tag.idx + c.beats \in BeatNos
         /\ ~failed
<1>1. Live
  BY DEF Live, Data
<1>2. c.tag.idx \in LineNos
  <2>1. CASE c.tag.kind = "rdata"
    <3>1. c.tag.idx \in Held
      BY <1>1, <2>1 DEF Rings, ReadRing, Data
    <3>2. rq.raddr \div 2 \in LineNos /\ rq.vaddr \div 2 \in LineNos
      BY NextBeatLine DEF Rings, Registers
    <3> QED BY <3>1, <3>2, ArcMoves DEF Held
  <2>2. CASE c.tag.kind = "wdata"
    BY <1>1, <2>2 DEF Rings, WriteRing, Asked, Data, Registers
  <2> QED BY <2>1, <2>2
<1>3. c.com \in {"READ_CL_NA", "WRITE_NA"}
  BY DEF Names, Matches, Load, Save, Restart, Tag
<1>4. c.beats \in {0, 1} /\ ~failed
  BY <1>3 DEF Owed, BeatsOf, Names
<1> QED BY <1>2, <1>4, Sizes DEF LineNos, BeatNos

(* The count of the lines read, and the address of a read.                 *)
LEMMA SourceCount ==
  ASSUME StateMachine, src_count \in Nat
  PROVE  src_count' \in Nat /\ (ah' # None /\ ah'.tag.kind = "rdata" =>
                                  ah'.addr = <<qitem.buf, src_count - 1>>)
BY DEF StateMachine, Idle, LoadQueueItem, WaitForQueueItem, Run, ReadSrc, WriteDst, WriteWait,
       Flush, RestartBus, RestartBusFlush, SaveQueueItem, NextItem, WaitForDone, Done,
       Await, Submit, Tag, Load, Save, Restart

(* What the processor puts out, and what it keeps.                         *)
LEMMA ProcessorMoves ==
  ASSUME Registers, proc \in Seq(Words), made \in Nat, NEW out \in {None, NextBeat},
         Len(proc) <= ProcRoom, rq.data \in Words, Processor(out)
  PROVE  /\ out \in Words
         /\ made' \in Nat /\ proc' \in Seq(Words) /\ Len(proc') <= ProcRoom
         /\ out # None =>
              /\ ~clear
              /\ ~WriteOnly => proc # <<>> /\ out = proc[1]
              /\ WriteOnly => /\ made < 2 * qitem.job.len
                              /\ out = Beat(qitem.buf, made \div 2, made % 2)
<1>1. out # None =>
        /\ ~clear
        /\ ~WriteOnly => proc # <<>> /\ out = proc[1]
        /\ WriteOnly => made < 2 * qitem.job.len /\ out = Beat(qitem.buf, made \div 2, made % 2)
  BY DEF NextBeat
<1>2. proc # <<>> => Len(proc) \in Nat /\ Len(proc) > 0 /\ proc[1] \in Words
  OBVIOUS
<1>3. Beat(qitem.buf, made \div 2, made % 2) \in Words
  BY DEF Words, Beat, Registers
<1>4. out \in Words
  BY <1>1, <1>2, <1>3 DEF Words
<1>5. made' \in Nat
  BY DEF Processor
<1>6. proc' \in Seq(Words) /\ Len(proc') <= ProcRoom
  <2> DEFINE left == IF out # None /\ ~wq.full /\ ~WriteOnly THEN Tail(proc) ELSE proc
  <2>1. left \in Seq(Words) /\ Len(left) \in Nat /\ Len(left) <= Len(proc)
    BY <1>1, <1>2
  <2>2. proc' = IF clear THEN <<>> ELSE IF rq.valid /\ Ready THEN Append(left, rq.data) ELSE left
    BY DEF Processor
  <2> HIDE DEF left
  <2>3. ProcRoom \in Nat
    BY RtlAssumption
  <2>4. CASE clear
    BY <2>2, <2>3, <2>4
  <2>5. CASE ~clear /\ rq.valid /\ Ready
    <3>1. proc' = Append(left, rq.data)
      BY <2>2, <2>5
    <3>2. proc' \in Seq(Words) /\ Len(proc') = Len(left) + 1
      BY <2>1, <3>1
    <3>3. Len(proc) < ProcRoom /\ Len(proc) \in Nat
      BY <2>5 DEF Ready
    <3> QED BY <2>1, <2>3, <3>2, <3>3
  <2>6. CASE ~clear /\ ~(rq.valid /\ Ready)
    BY <2>1, <2>2, <2>3, <2>6
  <2> QED BY <2>4, <2>5, <2>6
<1> QED BY <1>1, <1>4, <1>5, <1>6

(* A write that the bus works on has a tag.                                *)
LEMMA TagIsNotNone == ASSUME Rings, NEW b \in Data("wdata") PROVE b.tag # None
<1>1. b.tag.idx \in Nat
  BY DEF Rings, WriteRing, Live, Asked, Registers, LineNos
<1>2. b.tag = Tag("wdata", b.tag.idx)
  BY DEF Rings, Commanded, Data
<1>3. Tag("wdata", b.tag.idx) \in TagNames
  BY <1>1 DEF Tag, TagNames
<1> QED BY <1>2, <1>3, NoneAssumption

(* What flows through the block keeps its type through an edge.            *)
LEMMA TypesStep ==
  ASSUME InFlight, Names, Rings, Types,
         NEW rsp \in Responses \cup {None}, NEW bw \in BufferWrites \cup {None},
         NEW br \in BufferReads \cup {None}, NEW out \in {None, NextBeat}, NEW trigger, NEW stop,
         Edge(rsp, bw, br, out, trigger, stop)
  PROVE  Types'
<1>1. /\ StateMachine /\ Bus(rsp, bw, br) /\ Wdata(br) /\ ReadQueue(rsp, bw, Ready)
      /\ WriteQueue(rsp, br, out) /\ Processor(out)
  BY DEF Edge
<1>2. Registers
  BY DEF Rings
<1>3. /\ out \in Words /\ made' \in Nat /\ proc' \in Seq(Words) /\ Len(proc') <= ProcRoom
  BY <1>1, <1>2, ProcessorMoves DEF Types
<1>4. src_count' \in Nat /\ (HasTag(ah, "rdata")' => ah'.addr \in Slots \X Int)
  <2>1. /\ src_count' \in Nat
        /\ ah' # None /\ ah'.tag.kind = "rdata" => ah'.addr = <<qitem.buf, src_count - 1>>
    BY <1>1, SourceCount DEF Types
  <2>2. <<qitem.buf, src_count - 1>> \in Slots \X Int
    BY <1>2 DEF Types, Registers
  <2> QED BY <2>1, <2>2 DEF HasTag
<1>5. rq'.mem \in [BeatNos -> Words] /\ rq'.data \in Words
  <2> DEFINE wr == IF HasTag(bw, "rdata") THEN [addr |-> BeatAddr(bw), data |-> bw.data] ELSE None
  <2>1. wr # None => wr.data \in Words
    <3> SUFFICES ASSUME HasTag(bw, "rdata") PROVE bw.data \in Words
      OBVIOUS
    <3>1. PICK c \in Reads : bw.tag = c.tag /\ c.tag.kind = "rdata" /\ bw.data = Beat(c.addr[1], c.addr[2], c.beats)
      BY BeatsMove DEF HasTag
    <3>2. c \in Data("rdata") /\ c.beats \in Nat
      BY <3>1 DEF Data, Reads, Names
    <3>3. c.addr \in Slots \X Int
      BY <3>2 DEF Types
    <3> QED BY <3>1, <3>2, <3>3 DEF Words, Beat
  <2>2. rq'.mem = IF wr = None THEN rq.mem ELSE [rq.mem EXCEPT ![wr.addr] = wr.data]
    BY <1>1 DEF ReadQueue, RQ!RqEdge
  <2>3. rq'.data \in {rq.data, rq.mem[rq.raddr]}
    BY <1>1 DEF ReadQueue, RQ!RqEdge
  <2> HIDE DEF wr
  <2>4. rq.mem[rq.raddr] \in Words /\ rq.data \in Words
    BY <1>2 DEF Types, Registers
  <2>5. rq'.mem \in [BeatNos -> Words]
    BY <2>1, <2>2 DEF Types
  <2> QED BY <2>3, <2>4, <2>5
<1>6. wq'.mem \in [BeatNos -> Words]
  <2> DEFINE beat == WqWrite(out)
  <2>1. beat \in Words
    BY <1>3 DEF WqWrite, Words
  <2>2. wq'.mem = IF beat = None THEN wq.mem ELSE [wq.mem EXCEPT ![wq.waddr] = beat]
    BY <1>1 DEF WriteQueue, WQ!WqEdge
  <2> HIDE DEF beat
  <2> QED BY <2>1, <2>2 DEF Types
<1>7. wq'.data \in Words
  <2>1. wq'.data = IF HasTag(br, "wdata") THEN (IF BeatAddr(br) = None THEN None ELSE wq.mem[BeatAddr(br)])
                   ELSE None
    BY <1>1 DEF WriteQueue, WQ!WqEdge
  <2>2. ASSUME HasTag(br, "wdata") PROVE BeatAddr(br) \in BeatNos
    <3>1. PICK c \in bus : Owed(c) /\ br.tag = c.tag /\ br.half = c.beats
      BY <2>2, BeatsMove DEF HasTag
    <3> QED BY <2>2, <3>1, BeatInBuffer DEF HasTag, BeatAddr
  <2> QED BY <2>1, <2>2 DEF Types, Words
<1>8. ASSUME NEW c \in Data("rdata")' PROVE c.addr \in Slots \X Int
  <2>1. CASE HasTag(ah, "rdata") /\ c = Fresh
    BY <2>1 DEF Types, Fresh
  <2>2. CASE \E b \in Data("rdata") : c = Served(b, bw, br)
    BY <2>2, ServedNames DEF Types
  <2>3. Once /\ Commanded
    BY DEF Rings
  <2> QED BY <1>1, <2>1, <2>2, <2>3, DataStep
<1>9. ASSUME NEW c \in Data("wdata")'
      PROVE  /\ c.buf \in Seq(Words)
             /\ c.beats = Len(c.buf) + (IF brtag_last' = c.tag THEN 1 ELSE 0)
  <2>1. brtag_last' = IF br = None THEN None ELSE br.tag
    BY <1>1 DEF Wdata
  <2>2. CASE HasTag(ah, "wdata") /\ c = Fresh /\ c.tag = ah.tag
    <3>1. c.buf = <<>> /\ c.beats = 0
      BY <2>2 DEF Fresh
    <3>2. brtag_last' # c.tag
      <4>1. br # None => br.tag # ah.tag
        <5>1. br # None => \E b \in bus : br.tag = b.tag
          BY BeatsMove
        <5> QED BY <2>2, <5>1, RingsTags DEF TagsUnique, HasTag
      <4>2. ah.tag # None
        <5>1. ah.tag.idx \in Nat
          BY <2>2 DEF Rings, WriteRing, Live, Asking, Registers, LineNos
        <5>2. ah.tag \in TagNames
          BY <2>2, <5>1 DEF HasTag, Rings, Commanded, Tag, TagNames
        <5> QED BY <5>2, NoneAssumption
      <4> QED BY <2>1, <2>2, <4>1, <4>2
    <3> QED BY <3>1, <3>2
  <2>3. CASE \E b \in Data("wdata") : c = Served(b, bw, br) /\ c.tag = b.tag
    <3>1. PICK b \in Data("wdata") : c = Served(b, bw, br) /\ c.tag = b.tag
      BY <2>3
    <3>2. b \in bus /\ b.tag.kind = "wdata" /\ b.tag # Save
      BY <3>1 DEF Data, Save, Tag
    <3>3. /\ b.buf \in Seq(Words)
          /\ b.beats = Len(b.buf) + (IF brtag_last = b.tag THEN 1 ELSE 0)
      BY <3>1 DEF Types
    <3>4. bw # None => bw.tag # b.tag
      BY <3>2, BeatsMove
    <3>5. c.beats = IF br # None /\ br.tag = b.tag THEN b.beats + 1 ELSE b.beats
      BY <3>1, <3>4, ServedNames
    <3>6. c.buf = IF brtag_last = b.tag THEN Append(b.buf, wq.data) ELSE b.buf
      BY <3>1, <3>2 DEF Served
    <3>7. wq.data \in Words
      BY DEF Types
    <3>8. c.buf \in Seq(Words) /\ Len(c.buf) = Len(b.buf) + (IF brtag_last = b.tag THEN 1 ELSE 0)
      <4>1. CASE brtag_last = b.tag
        BY <3>3, <3>6, <3>7, <4>1
      <4>2. CASE brtag_last # b.tag
        BY <3>3, <3>6, <4>2
      <4> QED BY <4>1, <4>2
    <3>9. Len(b.buf) \in Nat
      BY <3>3
    <3>10. brtag_last' = c.tag <=> br # None /\ br.tag = b.tag
      <4>1. b.tag # None
        BY <3>1, TagIsNotNone
      <4> QED BY <2>1, <3>1, <4>1
    <3>11. c.beats = b.beats + (IF brtag_last' = c.tag THEN 1 ELSE 0)
      <4>1. b.beats \in Nat
        BY <3>2 DEF Names
      <4>2. CASE br # None /\ br.tag = b.tag
        BY <3>5, <3>10, <4>1, <4>2
      <4>3. CASE ~(br # None /\ br.tag = b.tag)
        BY <3>5, <3>10, <4>1, <4>3
      <4> QED BY <4>2, <4>3
    <3>12. Len(c.buf) = b.beats
      BY <3>3, <3>8
    <3> QED BY <3>8, <3>11, <3>12
  <2>4. Once /\ Commanded
    BY DEF Rings
  <2>5. \/ HasTag(ah, "wdata") /\ c = Fresh /\ c.tag = ah.tag
        \/ \E b \in Data("wdata") : c = Served(b, bw, br) /\ c.tag = b.tag
    <3>1. Bus(rsp, bw, br)
      BY <1>1
    <3> QED BY <2>4, <3>1, DataStep
  <2> QED BY <2>2, <2>3, <2>5
<1> QED BY <1>3, <1>4, <1>5, <1>6, <1>7, <1>8, <1>9 DEF Types

(* ... and through every step.                                             *)
LEMMA TypesHold == Spec => []Types
<1>1. Init => Types
  <2> SUFFICES ASSUME Init PROVE Types
    OBVIOUS
  <2>1. /\ bus = {} /\ ah = None /\ src_count = 0 /\ made = 0 /\ proc = <<>>
        /\ rq = RQ!RqInit /\ wq = WQ!WqInit
    BY DEF Init, RtlInit
  <2>2. BeatNos = 0 .. RQ!Beats - 1 /\ BeatNos = 0 .. WQ!Beats - 1
    BY Sizes DEF BeatNos
  <2>3. None \in Words
    BY DEF Words
  <2>4. /\ rq.mem \in [BeatNos -> Words] /\ rq.data \in Words
        /\ wq.mem \in [BeatNos -> Words] /\ wq.data \in Words
    BY <2>1, <2>2, <2>3 DEF RQ!RqInit, WQ!WqInit
  <2> HIDE DEF Words
  <2>5. proc \in Seq(Words) /\ Len(proc) <= ProcRoom
    BY <2>1, RtlAssumption
  <2> QED BY <2>1, <2>4, <2>5 DEF Types, HasTag, Data
<1>2. InFlight /\ Names /\ Rings /\ Types /\ [Next]_vars => Types'
  <2> SUFFICES ASSUME InFlight, Names, Rings, Types, [Next]_vars PROVE Types'
    OBVIOUS
  <2>1. CASE UNCHANGED <<regs, bus, proc, made>>
    BY <2>1 DEF Types, regs, Data
  <2>2. CASE Clock
    <3>1. PICK rsp, bw, br, out, trigger, stop :
            /\ rsp \in Responses \cup {None} /\ bw \in BufferWrites \cup {None}
            /\ br \in BufferReads \cup {None} /\ out \in {None, NextBeat}
            /\ Edge(rsp, bw, br, out, trigger, stop)
      BY <2>2 DEF Clock, Cycle, BusEvents
    <3> QED BY <3>1, TypesStep
  <2>3. (\E j \in Jobs : Push(j)) \/ Pop \/ PopReturn \/ Stop => UNCHANGED <<regs, bus, proc, made>>
    BY DEF Push, Pop, PopReturn, Stop
  <2> QED BY <2>1, <2>2, <2>3 DEF Next, vars, env
<1> QED BY <1>1, <1>2, InFlightHolds, NamesHold, RingsHold, PTL DEF Spec

(* The states, flags and counters.                                         *)
States == {"IDLE", "LOAD_QUEUE_ITEM", "WAIT_FOR_QUEUE_ITEM", "RUN", "READ_SRC", "WRITE_DST",
           "WRITE_WAIT", "FLUSH", "RESTART_BUS", "RESTART_BUS_FLUSH", "SAVE_QUEUE_ITEM",
           "NEXT_ITEM", "WAIT_FOR_DONE", "DONE"}

Scalars ==
  /\ state \in States
  /\ {wafifo_read, dirty, last_write, wqueue_done} \subseteq BOOLEAN
  /\ {trigger_seen, is_done, proc_idone, has_room, flushed, got_qitem,
      reg_wq_trigger, reg_wq_force_stop, failed} \subseteq BOOLEAN
  /\ is_done_d \in 0 .. DoneBits
  /\ push \in Slots /\ pop \in Slots /\ triggers \in 0 .. QueueLen

(* The state machine's registers keep their types.                         *)
LEMMA StateTypes ==
  ASSUME StateMachine, state \in States,
         {wafifo_read, dirty, last_write, wqueue_done, has_room} \subseteq BOOLEAN
  PROVE  state' \in States /\ {wafifo_read, dirty, last_write, wqueue_done}' \subseteq BOOLEAN
<1>1. state' \in States
  BY DEF StateMachine, Idle, LoadQueueItem, WaitForQueueItem, Run, ReadSrc, WriteDst, WriteWait,
       Flush, RestartBus, RestartBusFlush, SaveQueueItem, NextItem, WaitForDone, Done,
       Await, Submit, Goto, States
<1>2. wafifo_read' \in BOOLEAN
  BY DEF StateMachine, Idle, LoadQueueItem, WaitForQueueItem, Run, ReadSrc, WriteDst, WriteWait,
       Flush, RestartBus, RestartBusFlush, SaveQueueItem, NextItem, WaitForDone, Done,
       Await, Submit
<1>3. wqueue_done' \in BOOLEAN
  BY DEF StateMachine, Idle, LoadQueueItem, WaitForQueueItem, Run, ReadSrc, WriteDst, WriteWait,
       Flush, RestartBus, RestartBusFlush, SaveQueueItem, NextItem, WaitForDone, Done,
       Await, Submit
<1>4. Run => dirty' \in BOOLEAN /\ last_write' \in BOOLEAN
  <2> SUFFICES ASSUME Run PROVE dirty' \in BOOLEAN /\ last_write' \in BOOLEAN
    OBVIOUS
  <2>1. dirty' = (dirty \/ WriteTurn)
    BY DEF Run
  <2>2. last_write' = IF WriteTurn THEN ~qitem.job.wr_only ELSE (last_write /\ ~ReadTurn)
    BY DEF Run
  <2>3. (dirty \/ WriteTurn) \in BOOLEAN /\ (~qitem.job.wr_only) \in BOOLEAN
        /\ (last_write /\ ~ReadTurn) \in BOOLEAN
    OBVIOUS
  <2> QED BY <2>1, <2>2, <2>3
<1>5. dirty' \in BOOLEAN /\ last_write' \in BOOLEAN
  BY <1>4 DEF StateMachine, Idle, LoadQueueItem, WaitForQueueItem, ReadSrc, WriteDst, WriteWait,
       Flush, RestartBus, RestartBusFlush, SaveQueueItem, NextItem, WaitForDone, Done,
       Await, Submit
<1> QED BY <1>1, <1>2, <1>3, <1>5

(* ... and so do the flags and counters of the others.                     *)
LEMMA ScalarsHold == Spec => []Scalars
<1>1. Init => Scalars
  <2>1. 0 \in Slots /\ 0 \in 0 .. DoneBits /\ 0 \in 0 .. QueueLen
    BY RtlAssumption DEF Slots
  <2> QED BY <2>1 DEF Init, RtlInit, Scalars, States
<1>2. Scalars /\ [Next]_vars => Scalars'
  <2> SUFFICES ASSUME Scalars, [Next]_vars PROVE Scalars'
    OBVIOUS
  <2>1. CASE UNCHANGED vars
    BY <2>1 DEF Scalars, vars, regs, env
  <2>2. CASE Clock
    <3>1. PICK rsp, bw, br, out, w :
            /\ w \in MmioWrites /\ Edge(rsp, bw, br, out, w = "trigger", w = "stop")
      BY <2>2 DEF Clock, Cycle
    <3>2. state' \in States /\ {wafifo_read, dirty, last_write, wqueue_done}' \subseteq BOOLEAN
      BY <3>1, StateTypes DEF Edge, Scalars
    <3>3. trigger_seen' \in BOOLEAN /\ is_done' \in BOOLEAN /\ proc_idone' \in BOOLEAN
      BY <3>1 DEF Edge, Trig, DoneCheck
    <3>4. has_room' \in BOOLEAN /\ flushed' \in BOOLEAN /\ got_qitem' \in BOOLEAN
      BY <3>1 DEF Edge, RoomCheck, QitemRead
    <3>5. reg_wq_trigger' \in BOOLEAN /\ reg_wq_force_stop' \in BOOLEAN
      BY <3>1 DEF Edge, RegWrite
    <3>6. failed' \in BOOLEAN
      BY <3>1 DEF Edge, Bus, Scalars
    <3>7. is_done_d' \in 0 .. DoneBits
      BY <3>1, RtlAssumption DEF Edge, DoneCheck, Scalars
    <3>8. triggers' \in 0 .. QueueLen
      <4>1. triggers' = IF w = "trigger" THEN triggers - 1 ELSE triggers
        BY <3>1 DEF Edge
      <4>2. w = "trigger" => triggers > 0
        BY <3>1 DEF MmioWrites
      <4>3. QueueLen \in Nat /\ triggers \in 0 .. QueueLen
        BY RtlAssumption DEF Scalars
      <4> QED BY <4>1, <4>2, <4>3
    <3>9. push' = push /\ pop' = pop
      BY <3>1 DEF Edge
    <3> QED BY <3>2, <3>3, <3>4, <3>5, <3>6, <3>7, <3>8, <3>9 DEF Scalars
  <2>3. CASE (\E j \in Jobs : Push(j)) \/ Pop \/ PopReturn \/ Stop
    <3>1. UNCHANGED <<regs, failed>>
      BY <2>3, SoftwareStep
    <3>2. push' \in {push, (push + 1) % QueueLen} /\ pop' \in {pop, (pop + 1) % QueueLen}
      BY <2>3 DEF Push, Pop, PopReturn, Stop
    <3>3. triggers' = triggers \/ (triggers < QueueLen /\ triggers' = triggers + 1)
      BY <2>3 DEF Push, Pop, PopReturn, Stop
    <3>4. \A i \in Slots : (i + 1) % QueueLen \in Slots
      BY RtlAssumption, OneMore DEF Slots
    <3>5. push' \in Slots /\ pop' \in Slots /\ triggers' \in 0 .. QueueLen
      BY <3>2, <3>3, <3>4, RtlAssumption DEF Scalars
    <3> QED BY <3>1, <3>5 DEF Scalars, regs
  <2> QED BY <2>1, <2>2, <2>3 DEF Next
<1> QED BY <1>1, <1>2, PTL DEF Spec

(* Every register, queue and bus command has the type and range of its     *)
(* signal, whatever fails and whenever the block is stopped: the credits   *)
(* fall no lower than one below zero, the line addresses stay in the two   *)
(* buffers, and the bus reads no beat of a line before it is asked for.    *)
THEOREM TypeCorrect == Spec => []TypeOK
<1>1. Room /\ InFlight /\ Rings /\ Types /\ Scalars => TypeOK
  <2> SUFFICES ASSUME Room, Rings, Types, Scalars PROVE TypeOK
    OBVIOUS
  <2>1. credits \in -1 .. Croom
    <3>1. Cardinality(bus) \in Nat /\ Croom \in Int
      BY FS_CardinalityType, RtlAssumption DEF Room
    <3> QED BY <3>1 DEF Room
  <2>2. {wed, wed_next, push, pop} \subseteq Slots
    BY DEF Rings, Commanded, Scalars
  <2>3. rq.written \cup wq.written \subseteq 0 .. 2^(AddrBits - 1) - 1
    BY DEF Rings, Registers, LineNos, Lines
  <2>4. \A c \in bus : c.tag.kind = "wdata" => Len(c.buf) <= c.beats
    <3> SUFFICES ASSUME NEW c \in Data("wdata") PROVE Len(c.buf) <= c.beats
      BY DEF Data
    <3>1. c.buf \in Seq(Words) /\ c.beats = Len(c.buf) + (IF brtag_last = c.tag THEN 1 ELSE 0)
      BY DEF Types
    <3>2. Len(c.buf) \in Nat
      BY <3>1
    <3>3. CASE brtag_last = c.tag
      BY <3>1, <3>2, <3>3
    <3>4. CASE brtag_last # c.tag
      BY <3>1, <3>2, <3>4
    <3> QED BY <3>3, <3>4
  <2> QED BY <2>1, <2>2, <2>3, <2>4 DEF TypeOK, Scalars, States, Types, Rings, Registers
<1> QED BY <1>1, RoomHolds, InFlightHolds, RingsHold, TypesHold, ScalarsHold, PTL

=============================================================================
